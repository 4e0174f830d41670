---------------------------- MODULE MCSaturation ----------------------------
(***************************************************************************)
(* The scheduler over a small calculus that has every shape of inference   *)
(* the real rules have: a local product, a product sent to another         *)
(* context, a two-premise join in the other context, and a conclusion      *)
(* sent back to the first one, which then addresses a third.  The last     *)
(* inference has premises in two contexts: no dispatch ever sees both.     *)
(***************************************************************************)
EXTENDS Saturation

MCRoot == {"A", "B", "C"}

\* <<owner, name>>
MCConclusion == {<<"A", "init">>, <<"A", "exists">>, <<"A", "carried">>,
                 <<"B", "init">>, <<"B", "link">>, <<"B", "propagation">>,
                 <<"C", "init">>, <<"C", "mixed">>}

MCDest(c) == c[1]
MCInitOf(r) == <<r, "init">>

\* <<premises of one context, product>>
MCInferences ==
    {<<{<<"A", "init">>}, <<"A", "exists">>>>,
     <<{<<"A", "exists">>}, <<"B", "link">>>>,
     <<{<<"B", "init">>}, <<"B", "propagation">>>>,
     <<{<<"B", "link">>, <<"B", "propagation">>}, <<"A", "carried">>>>,
     <<{<<"A", "carried">>}, <<"A", "exists">>>>,
     <<{<<"A", "carried">>, <<"A", "exists">>}, <<"C", "init">>>>,
     <<{<<"A", "exists">>, <<"B", "propagation">>}, <<"C", "mixed">>>>}

MCDispatch(S, p) ==
    {i[2] : i \in {j \in MCInferences : p \in j[1] /\ j[1] \subseteq S}}

=============================================================================
