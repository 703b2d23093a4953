----------------------------- MODULE MCScheduler -----------------------------
(* Small instances of Scheduler.                                           *)
EXTENDS Scheduler

Unary(tier, gated, life) ==
    [tier |-> tier, stream |-> FALSE, gated |-> gated, life |-> life]
Streamed(tier, gated, life) ==
    [tier |-> tier, stream |-> TRUE, gated |-> gated, life |-> life]

\* Either tier, rate-limited or gated, with deadlines that strike in the queue,
\* in the dispatcher's hand and in the call.
MCRequest == {Unary(0, FALSE, 3), Unary(1, FALSE, 1), Unary(1, TRUE, 2),
              Streamed(1, FALSE, 2)}
=============================================================================
