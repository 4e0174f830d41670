------------------------------ MODULE Calculus ------------------------------
(***************************************************************************)
(* The interface between the saturation scheduler and the inference rules  *)
(* of pyELK's class saturation.                                            *)
(*                                                                         *)
(* A conclusion is owned by exactly one context, the one of its            *)
(* destination root.  RuleDispatcher.dispatch(state, premise, producer)    *)
(* reads the stored conclusions of ONE context and emits products, which   *)
(* may belong to any context.  The scheduler relies on nothing else about  *)
(* the rules, and this module states exactly what it relies on.  Module    *)
(* ELRules gives the concrete rules.                                       *)
(***************************************************************************)
EXTENDS Naturals, Sequences, Functions

CONSTANTS
    Root,            \* context roots: the expression IDs of the compiled ontology
    Conclusion,      \* the conclusions the rules can talk about
    Dest(_),         \* conclusion_destination: the root owning a conclusion
    InitOf(_),       \* ContextInitialization(root)
    Dispatch(_, _)   \* Dispatch(S, p): products of premise p in a context storing S

(***************************************************************************)
(* Conclusions are routed by destination, and initialising a context is a  *)
(* conclusion of that context.                                             *)
(***************************************************************************)
ASSUME RoutingAssumption ==
    /\ \A c \in Conclusion : Dest(c) \in Root
    /\ \A r \in Root : InitOf(r) \in Conclusion /\ Dest(InitOf(r)) = r

(***************************************************************************)
(* Dispatch stays in the universe of conclusions and is monotone in what   *)
(* the context already stores.                                             *)
(***************************************************************************)
ASSUME DispatchAssumption ==
    \A S \in SUBSET Conclusion : \A p \in Conclusion :
        /\ Dispatch(S, p) \subseteq Conclusion
        /\ \A T \in SUBSET S : Dispatch(T, p) \subseteq Dispatch(S, p)

(***************************************************************************)
(* "Rules with multiple premises must be complete regardless of which      *)
(* premise arrives last": when q joins the context of p, whatever p can    *)
(* newly derive is also derived by dispatching q itself.                   *)
(***************************************************************************)
ASSUME LastPremiseAssumption ==
    \A S \in SUBSET Conclusion : \A p \in S, q \in Conclusion :
        Dest(p) = Dest(q) =>
            Dispatch(S \cup {q}, p) \subseteq Dispatch(S, p) \cup Dispatch(S \cup {q}, q)

\* The conclusions of C that the context of r owns.
At(C, r) == {c \in C : Dest(c) = r}

\* C is a fixed point of the rules in which every addressed context is initialised.
IsClosed(C) ==
    \A p \in C : /\ InitOf(Dest(p)) \in C
                 /\ Dispatch(At(C, Dest(p)), p) \subseteq C

=============================================================================
