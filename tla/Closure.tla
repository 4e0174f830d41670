------------------------------- MODULE Closure -------------------------------
(***************************************************************************)
(* What saturation promises, with no agenda, no queue and no interruption: *)
(* roots are demanded, conclusions are derived one inference at a time     *)
(* from what is already derived, and a run may return normally only when   *)
(* nothing is left to derive.                                              *)
(***************************************************************************)
EXTENDS Calculus

VARIABLES
    demanded,   \* roots asked for by callers
    derived,    \* every conclusion accepted so far
    returned    \* the last run returned a snapshot, and nothing was asked since

absVars == <<demanded, derived, returned>>

AbsInit ==
    /\ demanded = {}
    /\ derived = {}
    /\ returned = FALSE

\* A caller demands a root, or starts a run that demands none.
AbsDemand ==
    /\ returned' = FALSE
    /\ \/ UNCHANGED <<demanded, derived>>
       \/ \E r \in Root :
            /\ demanded' = demanded \cup {r}
            /\ derived' = derived \cup {InitOf(r)}

\* One rule application whose premises are derived; its context comes into being.
AbsDerive ==
    \E p \in derived :
        \E c \in Dispatch(At(derived, Dest(p)), p) :
            /\ ~returned
            /\ derived' = derived \cup {c, InitOf(Dest(c))}
            /\ UNCHANGED <<demanded, returned>>

\* A run returns only on a fixed point.
AbsReturn ==
    /\ IsClosed(derived)
    /\ returned' = TRUE
    /\ UNCHANGED <<demanded, derived>>

AbsNext == AbsDemand \/ AbsDerive \/ AbsReturn

AbsSpec == AbsInit /\ [][AbsNext]_absVars

=============================================================================
