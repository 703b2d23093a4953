----------------------------- MODULE JobVerdict -----------------------------
(***************************************************************************)
(* What the distributed gateway promises about one submitted job: it gets  *)
(* one verdict, stream content is relayed only while there is none, every  *)
(* final envelope anyone hears is the verdict, and the verdict is never    *)
(* exchanged for another before the records are forgotten.                 *)
(***************************************************************************)
CONSTANTS
    Job,
    Outcome     \* kinds of final envelope

VARIABLES
    verdict,    \* "unsubmitted", "open", an outcome, or "forgotten"
    heard       \* what was published on the job's response channel

vars == <<verdict, heard>>

Init ==
    /\ verdict = [j \in Job |-> "unsubmitted"]
    /\ heard = [j \in Job |-> {}]

Submit(j) ==
    /\ verdict[j] = "unsubmitted"
    /\ verdict' = [verdict EXCEPT ![j] = "open"]
    /\ UNCHANGED heard

Relay(j) ==
    /\ verdict[j] = "open"
    /\ heard' = [heard EXCEPT ![j] = @ \cup {"chunk"}]
    /\ UNCHANGED verdict

\* The verdict may be published in the step that reaches it, later, or never.
Decide(j, v) ==
    /\ verdict[j] = "open"
    /\ verdict' = [verdict EXCEPT ![j] = v]
    /\ heard' \in {heard, [heard EXCEPT ![j] = @ \cup {v}]}

Announce(j) ==
    /\ verdict[j] \in Outcome
    /\ heard' = [heard EXCEPT ![j] = @ \cup {verdict[j]}]
    /\ UNCHANGED verdict

\* Retention ends; after that nothing more is ever heard of the job.
Forget(j) ==
    /\ verdict[j] \in Outcome \cup {"open"}
    /\ verdict' = [verdict EXCEPT ![j] = "forgotten"]
    /\ UNCHANGED heard

Next == \E j \in Job :
    \/ Submit(j) \/ Relay(j) \/ Announce(j) \/ Forget(j)
    \/ \E v \in Outcome : Decide(j, v)

Spec == Init /\ [][Next]_vars
=============================================================================
