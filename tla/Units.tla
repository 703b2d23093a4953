-------------------------------- MODULE Units --------------------------------
(***************************************************************************)
(* Sums of natural numbers over a finite set, defined by counting: a       *)
(* member worth n contributes the n units <<member, 1>> .. <<member, n>>.  *)
(* The laws of such a sum follow from those of cardinalities, without an   *)
(* induction over the set (UnitsProofs).                                   *)
(***************************************************************************)
EXTENDS Integers, FiniteSets

UnitsOf(f) == UNION {{x} \X (1 .. f[x]) : x \in DOMAIN f}

\* The sum of the values of a function.
SumOf(f) == Cardinality(UnitsOf(f))

\* A function with natural values on a finite set.
Summable(f) == IsFiniteSet(DOMAIN f) /\ \A x \in DOMAIN f : f[x] \in Nat
=============================================================================
