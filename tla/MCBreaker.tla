------------------------------ MODULE MCBreaker ------------------------------
(***************************************************************************)
(* Instances of Breaker for TLC: callers spread over one or two instances. *)
(***************************************************************************)
EXTENDS Breaker

CONSTANTS i1, i2, c1, c2

\* The first caller runs on i1, the last on the last instance.
MCOn == [c \in Caller |-> IF c = c1 \/ i2 \notin Instance THEN i1 ELSE i2]
=============================================================================
