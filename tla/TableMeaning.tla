---------------------------- MODULE TableMeaning ----------------------------
(***************************************************************************)
(* The meaning of compiled tables: what module Semantics says of axioms,   *)
(* said of the rows the rules see.                                         *)
(*                                                                         *)
(* An interpretation is a record [domain, ext, rel]: ext maps the indexed  *)
(* expressions and the roots to sets of elements, rel maps the chains of   *)
(* the property view to sets of pairs.                                     *)
(***************************************************************************)
EXTENDS RuleClosure, Preorders

\* Names denote elements of the domain, and the built-in ones mean what they say.
InterpretsName(I, x) ==
    /\ I.ext[x] \subseteq I.domain
    /\ x = Thing => I.ext[x] = I.domain
    /\ x = Nothing => I.ext[x] = {}

\* Constructors mean what they say; conjunctions are binary in the tables.
InterpretsConstructor(I, x) ==
    /\ x[1] = "and" => I.ext[x] = I.ext[x[2][1]] \cap I.ext[x[2][2]]
    /\ x[1] = "or" => I.ext[x] = UNION {I.ext[x[2][i]] : i \in DOMAIN x[2]}
    /\ x[1] = "not" => I.ext[x] = I.domain \ I.ext[x[2]]
    /\ x[1] = "some" =>
        I.ext[x] = {e \in I.domain : \E f \in I.ext[x[3]] : <<e, f>> \in I.rel[<<x[2]>>]}
    /\ x[1] = "self" => I.ext[x] = {e \in I.domain : <<e, e>> \in I.rel[<<x[2]>>]}

\* A chain is the composition of its properties.
InterpretsChain(I, chain) ==
    \A h \in ChainSuffixes(chain) :
        Len(h) > 1 => I.rel[h] = Compose(I.rel[<<h[1]>>], I.rel[Tail(h)])

\* Members at different positions share no element.
ShareNothing(I, group) ==
    \A i, j \in DOMAIN group : i # j => I.ext[group[i]] \cap I.ext[group[j]] = {}

\* I interprets what the row mentions and satisfies the axiom it stands for.
SatisfiesRow(I, row) ==
    /\ row[1] = "expr" => InterpretsName(I, row[2]) /\ InterpretsConstructor(I, row[2])
    /\ row[1] = "subclass" => I.ext[row[2]] \subseteq I.ext[row[3]]
    /\ row[1] = "equivalent" => I.ext[row[2]] = I.ext[row[3]]
    /\ row[1] = "disjoint" => ShareNothing(I, row[2])
    /\ row[1] = "subproperty" =>
        InterpretsChain(I, row[2]) /\ I.rel[row[2]] \subseteq I.rel[<<row[3]>>]
    /\ row[1] = "range" =>
        \A e, f \in I.domain : <<e, f>> \in I.rel[<<row[2]>>] => f \in I.ext[row[3]]

\* I is a model of the tables that interprets the roots.
ModelOf(I, rows, roots) ==
    /\ \A row \in rows : SatisfiesRow(I, row)
    /\ \A d \in roots : InterpretsName(I, d)

\* What a conclusion claims.
Holds(I, c) ==
    CASE c[1] \in {"init", "sub"} -> TRUE
      [] c[1] \in {"dec", "com"} -> I.ext[c[2]] \subseteq I.ext[c[3]]
      [] c[1] = "fwd" ->
            \A e \in I.ext[c[2]] : \E f \in I.ext[c[4]] : <<e, f>> \in I.rel[c[3]]
      [] c[1] = "bwd" ->
            \A e \in I.ext[c[4]] : \E f \in I.ext[c[2]] : <<e, f>> \in I.rel[<<c[3]>>]
      [] c[1] = "prop" ->
            \A e \in I.domain, f \in I.ext[c[2]] : <<e, f>> \in I.rel[<<c[3]>>] => e \in I.ext[c[4]]
      [] c[1] = "dis" -> c[4] \in DOMAIN c[3] /\ I.ext[c[2]] \subseteq I.ext[c[3][c[4]]]
      [] c[1] = "bot" -> I.ext[c[2]] = {}

=============================================================================
