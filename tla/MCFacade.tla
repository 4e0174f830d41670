------------------------------ MODULE MCFacade ------------------------------
(***************************************************************************)
(* Two threads share a reasoner over a consistent or an inconsistent       *)
(* ontology, or over one whose ranges may turn the verdict.                *)
(***************************************************************************)
EXTENDS Facade

MCThreads == {"t1", "t2"}

Setting(inconsistent, ranges, fresh) ==
    [inconsistent |-> inconsistent, ranges |-> ranges, allowFresh |-> fresh]

MCSettings == {Setting(FALSE, FALSE, FALSE), Setting(TRUE, FALSE, FALSE), Setting(FALSE, TRUE, TRUE)}
RangeSettings == {Setting(FALSE, TRUE, TRUE)}

Request(method, fresh) == [method |-> method, fresh |-> fresh]

MCRequests ==
    {Request(m, FALSE) : m \in Methods \ {"property_query"}}
      \cup {Request(m, TRUE) : m \in {"class_query", "property_query", "entailed"}}

=============================================================================
