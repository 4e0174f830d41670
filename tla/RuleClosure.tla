---------------------------- MODULE RuleClosure ----------------------------
(***************************************************************************)
(* What saturating a set of roots in one engine derives: the least set of  *)
(* conclusions that holds the initialisations of the roots and is closed   *)
(* under RuleDispatcher.  Modules Saturation and Workspace show that the   *)
(* Python scheduler and the Rust workspace return exactly this set; the    *)
(* layers above them use it in place of the scheduler.                     *)
(***************************************************************************)
EXTENDS ELRules

\* The conclusions the context of d owns.
At(C, d) == {c \in C : Destination(c) = d}

\* Everything the conclusions of C derive in one dispatch each.
Round(k, C) ==
    C \cup UNION {DispatchRule(k, At(C, Destination(p)), p)
                    \cup {Initialization(Destination(p))} : p \in C}

(***************************************************************************)
(* The conclusions that can be drawn from k about a set of roots           *)
(***************************************************************************)
Expressions(k) == {row[2] : row \in Table(k, "expr")}

\* The properties links are made by.
Relations(k) ==
    {x[2] : x \in {y \in Expressions(k) : y[1] \in {"some", "self"}}}
      \cup {row[3] : row \in Table(k, "subproperty")}

LinkChains(k) == {<<r>> : r \in Relations(k)} \cup Chains(k.rows)

Groups(k) == {row[2] : row \in Table(k, "disjoint")}
Positions(k) == UNION {DOMAIN group : group \in Groups(k)}

Conclusions(k, roots) ==
    LET E == Expressions(k) \cup roots
        R == Relations(k)
    IN  ({"init", "bot"} \X E)
          \cup ({"sub"} \X E \X R)
          \cup ({"dec", "com"} \X E \X E)
          \cup ({"fwd"} \X E \X LinkChains(k) \X E)
          \cup ({"bwd", "prop"} \X E \X R \X E)
          \cup ({"dis"} \X E \X Groups(k) \X Positions(k))

\* The rounds from C on, until one adds nothing.
ClosureOf(k, C) ==
    LET close[D \in SUBSET Conclusions(k, {Destination(c) : c \in C})] ==
            IF Round(k, D) = D THEN D ELSE close[Round(k, D)]
    IN  close[C]

\* What saturating these roots together derives.
Derived(k, roots) == ClosureOf(k, {Initialization(d) : d \in roots})

\* composed_subsumers and decomposed_subsumers of the context of d.
Subsumers(C, d) == {c[3] : c \in {q \in At(C, d) : q[1] \in {"dec", "com"}}}

\* The context of d is inconsistent.
Contradictory(C, d) == <<"bot", d>> \in C

=============================================================================
