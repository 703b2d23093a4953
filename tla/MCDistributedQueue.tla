------------------------- MODULE MCDistributedQueue -------------------------
(***************************************************************************)
(* Instances of DistributedQueue for TLC.                                  *)
(***************************************************************************)
EXTENDS DistributedQueue, TLC

CONSTANTS j1, j2

\* Distinct priorities: with two jobs, j1 is always ahead of j2.
MCScore == [j \in Job |-> IF j = j1 THEN 1 ELSE 2]

\* Owner tokens are interchangeable.
TokenSymmetry == Permutations(Token)
=============================================================================
