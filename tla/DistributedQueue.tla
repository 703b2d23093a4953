-------------------------- MODULE DistributedQueue --------------------------
(***************************************************************************)
(* The distributed gateway of src/src/gateway/distributed.rs: origins that *)
(* submit a job and wait for its answer, workers that lease and run it,    *)
(* the cancellation pump and the reaper, all of them clients of the        *)
(* lifecycle store of module Lifecycle.                                    *)
(*                                                                         *)
(* A Redis call is one script of the store.  It is answered, or it errs    *)
(* (redis_operation times out or its connection breaks), and then the      *)
(* caller does not know: the script sits in `late` and runs at any later   *)
(* time, or never.                                                         *)
(*                                                                         *)
(* Pub/sub hands every message to the subscribed origins in order.  A copy *)
(* of an envelope published twice is handed over once, since an origin     *)
(* leaves at the first final envelope; a delivery of a stream publishes    *)
(* one chunk.                                                              *)
(***************************************************************************)
EXTENDS Lifecycle, Sequences

CONSTANTS
    NoJob,
    MaxAttempts,   \* config.max_attempts
    Permits,       \* max_concurrency_per_provider: the preparation permits
    PumpCapacity,  \* capacity of the origin cancellation channel
    MaxFaults      \* bound: Redis errors, crashes, bus losses and expiries of an
                   \* attempts marker in a behaviour

ASSUME QueueAssumption ==
    /\ NoJob \notin Job
    /\ MaxAttempts \in Nat /\ Permits \in Nat /\ PumpCapacity \in Nat
    /\ MaxFaults \in Nat

VARIABLES
    streams,    \* the jobs whose descriptor has stream = true
    opc,        \* where each origin is
    giving,     \* what it answers unless the durable terminal says otherwise
    answer,     \* what its caller was told
    guard,      \* its OriginDropGuard: none, armed, disarmed, pumped or lost
    committed,  \* terminal_committed of the stream relay
    connected,  \* its pub/sub connection is up
    bus,        \* messages it has not read yet
    relayed,    \* history: deliveries whose chunk reached the caller
    pump,       \* commands in the cancellation channel
    wpc,        \* where each delivery (owner token) is
    wjob,       \* the job it runs
    wmsg,       \* the terminal message it is about to store
    attempts,   \* the attempts:<id> marker, 0 when there is none
    lapses,     \* history: how often it expired
    dispatched, \* history: provider calls made for each job
    late,       \* calls whose caller saw an error and that may still run
    faults

originVars == <<opc, giving, answer, guard, committed, connected, relayed>>
counts == <<attempts, lapses, dispatched>>
workerVars == <<wpc, wjob, wmsg, counts>>
runVars == <<vars, originVars, bus, pump, workerVars, late, faults>>
gatewayVars == <<streams, runVars>>

NoAnswer == "none"
Active == {"check", "bump", "dead", "rate", "refused", "refresh", "run", "end",
           "cleanup", "stop"}
Delivering == {t \in Token : wpc[t] \in Active}

GatewayInit ==
    /\ Init
    /\ streams \in SUBSET Job
    /\ opc = [j \in Job |-> "idle"]
    /\ giving = [j \in Job |-> NoAnswer]
    /\ answer = [j \in Job |-> NoAnswer]
    /\ guard = [j \in Job |-> "none"]
    /\ committed = [j \in Job |-> FALSE]
    /\ connected = [j \in Job |-> FALSE]
    /\ bus = [j \in Job |-> <<>>]
    /\ relayed = [j \in Job |-> {}]
    /\ pump = {}
    /\ wpc = [t \in Token |-> "unused"]
    /\ wjob = [t \in Token |-> NoJob]
    /\ wmsg = [t \in Token |-> NoEnvelope]
    /\ attempts = [j \in Job |-> 0]
    /\ lapses = [j \in Job |-> 0]
    /\ dispatched = [j \in Job |-> 0]
    /\ late = {}
    /\ faults = 0

-----------------------------------------------------------------------------
(***************************************************************************)
(* The bus, and the Redis calls with everything they may do.               *)
(***************************************************************************)

\* What a step of the store publishes reaches the origins that listen.
BusFollows ==
    bus' = [j \in Job |->
              IF published'[j] # published[j] /\ connected[j]
              THEN Append(bus[j], CHOOSE m \in published'[j] \ published[j] : TRUE)
              ELSE bus[j]]

\* A refused script may still leave the cancellation mark behind.
Refuses(j) == MarkCanceled(j) \/ (~originDue[j] /\ UNCHANGED vars)

CancelReply(j) ==
    CASE ~SameGeneration(j) -> 0
      [] SameGeneration(j) /\ state[j] \in {"pending_origin", "waiting"} -> 1
      [] SameGeneration(j) /\ state[j] = "processing" -> 2
      [] OTHER -> 3

CancelScript(j) ==
    \/ CancelProcessing(j) \/ CancelUnleased(j)
    \/ CancelReply(j) \in {0, 3} /\ UNCHANGED vars

OriginHeartbeatReply(j) ==
    IF ~(SameGeneration(j) /\ state[j] \in Live) THEN 0
    ELSE IF originDue[j] THEN -1 ELSE 1

RefreshReply(j, t) ==
    IF ~Owns(j, t) THEN 0 ELSE IF Canceled(j) THEN -1 ELSE 1

RefreshScript(j, t) ==
    \/ Refresh(j, t)
    \/ RefreshReply(j, t) = -1 /\ Refuses(j)
    \/ RefreshReply(j, t) = 0 /\ UNCHANGED vars

ReleaseScript(j, t) ==
    \/ Release(j, t)
    \/ Owns(j, t) /\ Canceled(j) /\ Refuses(j)
    \/ ~Owns(j, t) /\ UNCHANGED vars

PublishScript(j, t) ==
    \/ Publish(j, t)
    \/ Owns(j, t) /\ Canceled(j) /\ Refuses(j)
    \/ ~Owns(j, t) /\ UNCHANGED vars

DeadLetterScript(j, t) ==
    \/ DeadLetterCanceled(j, t) \/ DeadLetterOverflow(j, t) \/ DeadLetter(j, t)
    \/ ~Owns(j, t) /\ UNCHANGED vars

TerminalScript(j, t, m) ==
    \/ \E n \in 1..Headroom : TerminalPublishComplete(j, t, m, n)
    \/ TerminalPublishCanceled(j, t)
    \/ ~Owns(j, t) /\ UNCHANGED vars

\* The store's part of a call that runs after its caller has given up.
LateScript(c) ==
    \/ c.op = "reserve" /\ Reserve(c.job)
    \/ c.op = "activate" /\ Activate(c.job)
    \/ c.op = "cancel" /\ CancelScript(c.job)
    \/ c.op = "heartbeat" /\ (OriginHeartbeat(c.job) \/ MarkCanceled(c.job))
    \/ c.op = "lease" /\ \E j \in Job : Lease(j, c.token)
    \/ c.op = "refresh" /\ RefreshScript(c.job, c.token)
    \/ c.op = "publish" /\ PublishScript(c.job, c.token)
    \/ c.op = "release" /\ ReleaseScript(c.job, c.token)
    \/ c.op = "deadletter" /\ DeadLetterScript(c.job, c.token)
    \/ c.op \in {"result", "error"} /\ TerminalScript(c.job, c.token, c.op)

Calls == [op : {"reserve", "activate", "cancel", "heartbeat", "lease", "refresh",
                "publish", "release", "deadletter", "result", "error"},
          job : Job \cup {NoJob}, token : Token \cup {NoToken}]

MoreMayFail == \A j \in Job : faults + lapses[j] < MaxFaults

Fault == MoreMayFail /\ faults' = faults + 1

\* The caller sees an error; the script has not run yet.
Errs(op, j, t) ==
    /\ Fault
    /\ late' = late \cup {[op |-> op, job |-> j, token |-> t]}
    /\ UNCHANGED <<vars, bus>>

\* A call that succeeds: the script runs and its caller reads the reply.
Runs(script) == script /\ BusFollows /\ UNCHANGED <<late, faults>>

\* A read that errs, or finds nothing to do, leaves the store alone.
Reads == UNCHANGED <<vars, bus, late, faults>>
ReadErrs == Fault /\ UNCHANGED <<vars, bus, late>>

LateRuns ==
    \E c \in late :
        /\ LateScript(c)
        /\ late' = late \ {c}
        /\ BusFollows
        /\ UNCHANGED <<originVars, pump, workerVars, faults>>

-----------------------------------------------------------------------------
(***************************************************************************)
(* Origins.                                                                *)
(***************************************************************************)

GoTo(j, pc) ==
    /\ opc' = [opc EXCEPT ![j] = pc]
    /\ UNCHANGED <<giving, answer, guard, committed, connected, relayed, pump>>

\* The origin answers its caller.  Returning drops the guard, and a guard that
\* is still armed hands its command to the pump unless the channel is full.
AnswerWith(j, a, disarm) ==
    /\ opc' = [opc EXCEPT ![j] = "answered"]
    /\ answer' = [answer EXCEPT ![j] = a]
    /\ IF guard[j] # "armed" THEN UNCHANGED <<guard, pump>>
       ELSE IF disarm THEN guard' = [guard EXCEPT ![j] = "disarmed"] /\ UNCHANGED pump
       ELSE IF Cardinality(pump) < PumpCapacity
       THEN guard' = [guard EXCEPT ![j] = "pumped"] /\ pump' = pump \cup {j}
       ELSE guard' = [guard EXCEPT ![j] = "lost"] /\ UNCHANGED pump
    /\ giving' = [giving EXCEPT ![j] = NoAnswer]
    /\ committed' = [committed EXCEPT ![j] = FALSE]
    /\ connected' = [connected EXCEPT ![j] = FALSE]
    /\ UNCHANGED relayed

\* Wrong variant: the origin subscribes when it begins to wait.
SubscribesToWait(pc) == pc = "accepted"

\* accept_prepared subscribes before the job is enqueued.
SubscribesAt(pc) == pc = "idle"

\* An origin goes one place further on its way to waiting.
Proceeds(j, pc) ==
    /\ opc' = [opc EXCEPT ![j] = pc]
    /\ connected' = [connected EXCEPT ![j] = @ \/ SubscribesAt(opc[j])]
    /\ UNCHANGED <<giving, answer, committed, relayed, pump>>

\* The subscription of accept_prepared.
Subscribes(j) ==
    /\ opc[j] = "idle"
    /\ Reads
    /\ Proceeds(j, "subscribed")
    /\ UNCHANGED <<guard, workerVars>>

\* A logical deadline that has passed before anything is sent, or no subscription.
AcceptRefused(j) ==
    /\ opc[j] = "idle"
    /\ \/ Reads /\ AnswerWith(j, "timeout", TRUE)
       \/ ReadErrs /\ AnswerWith(j, "unavailable", TRUE)
    /\ UNCHANGED workerVars

\* The reserve half of enqueue_prepared.  The guard exists only once the
\* reservation is known to have been made.
AcceptReserved(j) ==
    /\ opc[j] = "subscribed"
    /\ Runs(Reserve(j))
    /\ Proceeds(j, "reserved")
    /\ guard' = [guard EXCEPT ![j] = "armed"]
    /\ UNCHANGED workerVars

\* No capacity, or the answer of the reserve script is lost.
AcceptFails(j) ==
    /\ opc[j] = "subscribed"
    /\ \/ ~HasCapacity /\ Reads /\ AnswerWith(j, "overloaded", TRUE)
       \/ Errs("reserve", j, NoToken) /\ AnswerWith(j, "unavailable", TRUE)
    /\ UNCHANGED workerVars

\* The activate half of enqueue_prepared: the job is in the queue.
ActivateAccepted(j) ==
    /\ opc[j] = "reserved"
    /\ Runs(Activate(j))
    /\ Proceeds(j, "accepted")
    /\ UNCHANGED <<guard, workerVars>>

\* The reply is read, and await_accepted or the relay begins to listen.
Awaits(j) ==
    /\ opc[j] = "accepted"
    /\ Reads
    /\ Proceeds(j, "waiting")
    /\ UNCHANGED <<guard, workerVars>>

\* Activation refused or uncertain: the origin cancels its own reservation.
ActivateRefused(j) ==
    /\ opc[j] = "reserved"
    /\ \/ /\ ~(SameGeneration(j) /\ state[j] = "pending_origin"
                /\ Cardinality(queue) < MaxWaiting)
          /\ Reads
          /\ giving' = [giving EXCEPT ![j] = "overloaded"]
       \/ /\ Errs("activate", j, NoToken)
          /\ giving' = [giving EXCEPT ![j] = "unavailable"]
    /\ opc' = [opc EXCEPT ![j] = "withdrawing"]
    /\ UNCHANGED <<answer, guard, committed, connected, relayed, pump, workerVars>>

\* Wrong variant: any answer of the cancel script disarms the guard.
DisarmsAlways(status) == status >= 0

\* A failed cancel_origin reads as status 0 and leaves the guard armed.
Disarms(status) == status > 0

\* cancel_origin at the end of every path that gives up on a job.  A refused
\* activation never reads the terminal back; the other paths do on status 3.
CancelsOrigin(j) ==
    /\ opc[j] \in {"withdrawing", "cancelling", "closing"}
    /\ \/ /\ Runs(CancelScript(j))
          /\ IF CancelReply(j) = 3 /\ opc[j] = "cancelling"
             THEN GoTo(j, "rereading")
             ELSE AnswerWith(j, giving[j], Disarms(CancelReply(j)))
       \/ Errs("cancel", j, NoToken) /\ AnswerWith(j, giving[j], Disarms(0))
    /\ UNCHANGED workerVars

\* cancel_status 3 disarmed the guard before the second read.
Rereads(j) ==
    /\ opc[j] = "rereading"
    /\ \/ Reads /\ AnswerWith(j, IF terminal[j] # NoEnvelope THEN terminal[j]
                                 ELSE giving[j], TRUE)
       \/ ReadErrs /\ AnswerWith(j, giving[j], TRUE)
    /\ UNCHANGED workerVars

\* Wrong variant: a relay that knows of a durable terminal stops its clock too.
DeadlineAppliesUncommitted(j) == opc[j] = "waiting" /\ ~committed[j]

DeadlineApplies(j) == opc[j] = "waiting"

\* The origin deadline fires: a unary origin looks for a durable terminal
\* first, a stream relay reports the timeout at once.
OriginDeadline(j) ==
    /\ DeadlineApplies(j)
    /\ Reads
    /\ IF j \in streams
       THEN AnswerWith(j, "timeout", FALSE)
       ELSE /\ opc' = [opc EXCEPT ![j] = "reading"]
            /\ giving' = [giving EXCEPT ![j] = "timeout"]
            /\ UNCHANGED <<answer, guard, committed, connected, relayed, pump>>
    /\ UNCHANGED workerVars

\* Unary only: read_terminal before cancelling.
ReadsTerminal(j) ==
    /\ opc[j] = "reading"
    /\ \/ Reads /\ IF terminal[j] # NoEnvelope
                   THEN AnswerWith(j, terminal[j], TRUE)
                   ELSE GoTo(j, "cancelling")
       \/ ReadErrs /\ GoTo(j, "cancelling")
    /\ UNCHANGED workerVars

\* heartbeat_origin: renewed, told of its cancellation, or not known any more.
OriginBeats(j) ==
    /\ opc[j] = "waiting" /\ ~committed[j]
    /\ \/ OriginHeartbeatReply(j) = 1 /\ Runs(OriginHeartbeat(j)) /\ GoTo(j, "waiting")
       \/ /\ OriginHeartbeatReply(j) = -1
          /\ Runs(MarkCanceled(j))
          /\ AnswerWith(j, "canceled", TRUE)
       \/ OriginHeartbeatReply(j) = 0 /\ Reads /\ GoTo(j, "readback")
       \/ Errs("heartbeat", j, NoToken) /\ GoTo(j, "readback")
    /\ UNCHANGED workerVars

\* Wrong variant: a durable End ends the stream although chunks may be unread.
ReadsBackStreamEnding(j) == AnswerWith(j, terminal[j], TRUE)

\* A stream relay that finds a durable terminal keeps reading the bus.
ReadsBackStream(j) ==
    /\ opc' = [opc EXCEPT ![j] = "waiting"]
    /\ committed' = [committed EXCEPT ![j] = TRUE]
    /\ UNCHANGED <<giving, answer, guard, connected, relayed, pump>>

\* The read after a failed heartbeat.
ReadsBack(j) ==
    /\ opc[j] = "readback"
    /\ \/ /\ Reads
          /\ IF terminal[j] = NoEnvelope THEN AnswerWith(j, "unavailable", FALSE)
             ELSE IF j \in streams THEN ReadsBackStream(j)
             ELSE AnswerWith(j, terminal[j], TRUE)
       \/ ReadErrs /\ AnswerWith(j, "unavailable", FALSE)
    /\ UNCHANGED workerVars

\* The next message of the response channel.
OriginReceives(j) ==
    /\ opc[j] = "waiting" /\ bus[j] # <<>>
    /\ LET m == bus[j][1] IN
         IF m.kind = "chunk"
         THEN /\ relayed' = [relayed EXCEPT ![j] = @ \cup {m.by}]
              /\ UNCHANGED <<opc, giving, answer, guard, committed, connected, pump>>
         ELSE AnswerWith(j, m.kind, TRUE)
    /\ bus' = [bus EXCEPT ![j] = Tail(@)]
    /\ UNCHANGED <<vars, workerVars, late, faults>>

\* The pub/sub connection breaks; what was buffered is still delivered.
BusBreaks(j) ==
    /\ connected[j] /\ opc[j] = "waiting"
    /\ Fault
    /\ connected' = [connected EXCEPT ![j] = FALSE]
    /\ UNCHANGED <<vars, opc, giving, answer, guard, committed, relayed, bus, pump,
                   workerVars, late>>

\* messages.next() is None: unary origins fall back on the durable terminal,
\* streams report the loss.
BusClosed(j) ==
    /\ opc[j] = "waiting" /\ bus[j] = <<>> /\ ~connected[j]
    /\ Reads
    /\ IF j \in streams
       THEN AnswerWith(j, "lost", FALSE)
       ELSE /\ opc' = [opc EXCEPT ![j] = "reading"]
            /\ giving' = [giving EXCEPT ![j] = "shutdown"]
            /\ UNCHANGED <<answer, guard, committed, connected, relayed, pump>>
    /\ UNCHANGED workerVars

\* The caller goes away.  A unary future is dropped wherever it is; the relay
\* of a stream notices the closed channel and cancels.
CallerLeaves(j) ==
    /\ opc[j] \notin {"idle", "answered", "closing"}
    /\ Reads
    /\ IF j \in streams /\ opc[j] \notin {"subscribed", "reserved", "accepted", "withdrawing"}
       THEN /\ opc[j] = "waiting"
            /\ opc' = [opc EXCEPT ![j] = "closing"]
            /\ giving' = [giving EXCEPT ![j] = "dropped"]
            /\ UNCHANGED <<answer, guard, committed, connected, relayed, pump>>
       ELSE AnswerWith(j, "dropped", opc[j] = "rereading")
    /\ UNCHANGED workerVars

\* origin_cancellation_pump
PumpCancels(j) ==
    /\ j \in pump
    /\ pump' = pump \ {j}
    /\ Runs(CancelScript(j)) \/ Errs("cancel", j, NoToken)
    /\ UNCHANGED <<originVars, workerVars>>

-----------------------------------------------------------------------------
(***************************************************************************)
(* Workers.  A delivery is known by its owner token.                       *)
(***************************************************************************)

WorkerAt(t, pc) ==
    /\ wpc' = [wpc EXCEPT ![t] = pc]
    /\ UNCHANGED <<wjob, wmsg, counts, originVars, pump>>

\* execute_leased_job returns, and with it the preparation permit.
WorkerLeaves(t) ==
    /\ wpc' = [wpc EXCEPT ![t] = "gone"]
    /\ wjob' = [wjob EXCEPT ![t] = NoJob]
    /\ wmsg' = [wmsg EXCEPT ![t] = NoEnvelope]
    /\ UNCHANGED <<counts, originVars, pump>>

\* On its way to terminal_owned with a message; "stop" has no heartbeat left.
WorkerEnds(t, pc, m) ==
    /\ wpc' = [wpc EXCEPT ![t] = pc]
    /\ wmsg' = [wmsg EXCEPT ![t] = m]
    /\ UNCHANGED <<wjob, counts, originVars, pump>>

\* worker: take a preparation permit, draw a token, run the lease script.
WorkerLeases(t) ==
    /\ wpc[t] = "unused" /\ t \notin spent
    /\ Cardinality(Delivering) < Permits
    /\ \E j \in Job :
         /\ Runs(Lease(j, t))
         /\ wjob' = [wjob EXCEPT ![t] = j]
    /\ wpc' = [wpc EXCEPT ![t] = "check"]
    /\ UNCHANGED <<wmsg, counts, originVars, pump>>

WorkerLeaseErrs(t) ==
    /\ wpc[t] = "unused" /\ t \notin spent
    /\ Cardinality(Delivering) < Permits
    /\ Errs("lease", NoJob, t)
    /\ WorkerLeaves(t)

\* A lease script that answers "nothing" may drop or mark the head.
WorkerFindsNothing(t) ==
    /\ wpc[t] = "unused" /\ Cardinality(Delivering) < Permits
    /\ \E j \in Job : Runs(LeaseDiscards(j) \/ (AtHead(j) /\ MarkCanceled(j)))
    /\ UNCHANGED <<originVars, pump, workerVars>>

\* descriptor_matches_protocol fails: the job ends before any attempt is counted.
WorkerRejects(t) ==
    /\ wpc[t] = "check"
    /\ Reads
    /\ WorkerEnds(t, "end", "error")

\* is_done: a done marker is written only with the state terminal, which no
\* lease follows, so the check finds none; when it errs the delivery is left.
WorkerChecksDone(t) ==
    /\ wpc[t] = "check"
    /\ \/ Reads /\ WorkerAt(t, "bump")
       \/ ReadErrs /\ WorkerLeaves(t)

\* Wrong variant: the attempt that exceeds the maximum still runs.
TooManyAttemptsByOne(n) == n > MaxAttempts + 1

TooManyAttempts(n) == n > MaxAttempts

\* What INCR finds.  The marker may have expired since the last bump: its lifetime,
\* marker_ttl_secs, comes from the lease, and neither from a request's timeout nor
\* from the time a job waits between two deliveries.
MarkerFound(j) ==
    {attempts[j]} \cup IF attempts[j] > 0 /\ MoreMayFail THEN {0} ELSE {}

Bumps(j, found) ==
    /\ attempts' = [attempts EXCEPT ![j] = found + 1]
    /\ lapses' = [lapses EXCEPT ![j] = IF found = attempts[j] THEN @ ELSE @ + 1]

\* bump_attempts; after an error the counter may have moved or not.
WorkerBumps(t) ==
    /\ wpc[t] = "bump"
    /\ \/ \E found \in MarkerFound(wjob[t]) :
            /\ Reads
            /\ Bumps(wjob[t], found)
            /\ wpc' = [wpc EXCEPT ![t] = IF TooManyAttempts(found + 1) THEN "dead" ELSE "rate"]
            /\ UNCHANGED wjob
       \/ /\ ReadErrs
          /\ \/ \E found \in MarkerFound(wjob[t]) : Bumps(wjob[t], found)
             \/ UNCHANGED <<attempts, lapses>>
          /\ wpc' = [wpc EXCEPT ![t] = "gone"]
          /\ wjob' = [wjob EXCEPT ![t] = NoJob]
    /\ UNCHANGED <<wmsg, dispatched, originVars, pump>>

\* dead_letter_owned
WorkerDeadLetters(t) ==
    /\ wpc[t] = "dead"
    /\ \/ Runs(DeadLetterScript(wjob[t], t))
       \/ Errs("deadletter", wjob[t], t)
    /\ WorkerLeaves(t)

\* limiter.acquire (skipped for policy-gated jobs)
WorkerAsksRate(t) ==
    /\ wpc[t] = "rate"
    /\ Reads
    /\ WorkerAt(t, "refresh") \/ WorkerAt(t, "refused")

\* release_owned after the pause
WorkerReleases(t) ==
    /\ wpc[t] = "refused"
    /\ \/ Runs(ReleaseScript(wjob[t], t))
       \/ Errs("release", wjob[t], t)
    /\ WorkerLeaves(t)

\* The refresh right before dispatch.
WorkerDispatches(t) ==
    /\ wpc[t] = "refresh"
    /\ RefreshReply(wjob[t], t) = 1
    /\ Runs(RefreshScript(wjob[t], t))
    /\ wpc' = [wpc EXCEPT ![t] = "run"]
    /\ dispatched' = [dispatched EXCEPT ![wjob[t]] = @ + 1]
    /\ UNCHANGED <<wjob, wmsg, attempts, lapses, originVars, pump>>

WorkerDoesNotDispatch(t) ==
    /\ wpc[t] = "refresh"
    /\ \/ /\ RefreshReply(wjob[t], t) = -1
          /\ Runs(RefreshScript(wjob[t], t))
          /\ WorkerEnds(t, "end", "error")
       \/ /\ RefreshReply(wjob[t], t) = 0
          /\ Runs(RefreshScript(wjob[t], t))
          /\ WorkerLeaves(t)
       \/ Errs("refresh", wjob[t], t) /\ WorkerLeaves(t)

\* The provider answers: run_and_publish builds the terminal message.
ProviderAnswers(t) ==
    /\ wpc[t] = "run"
    /\ Reads
    /\ \E m \in {"result", "error"} : WorkerEnds(t, "end", m)

\* One chunk of a stream; a refused or uncertain publication ends the job.
WorkerPublishes(t) ==
    /\ wpc[t] = "run" /\ wjob[t] \in streams
    /\ [kind |-> "chunk", by |-> t] \notin published[wjob[t]]
    /\ \/ /\ RefreshReply(wjob[t], t) = 1
          /\ Runs(PublishScript(wjob[t], t))
          /\ WorkerAt(t, "run")
       \/ /\ RefreshReply(wjob[t], t) # 1
          /\ Runs(PublishScript(wjob[t], t))
          /\ WorkerEnds(t, "end", "error")
       \/ Errs("publish", wjob[t], t) /\ WorkerEnds(t, "end", "error")

\* terminal_owned
WorkerFinishes(t) ==
    /\ wpc[t] \in {"end", "cleanup", "stop"}
    /\ \/ Runs(TerminalScript(wjob[t], t, wmsg[t]))
       \/ Errs(wmsg[t], wjob[t], t)
    /\ WorkerLeaves(t)

\* Wrong variant: the heartbeat does not tell cancellation from a renewal.
HeartbeatCanceledIgnored(t) == WorkerAt(t, wpc[t])

\* execute_leased_job drops the job and stores the cancellation; during the
\* deadline cleanup the end of the heartbeat only ends the delivery.
HeartbeatCanceled(t) ==
    IF wpc[t] = "cleanup" THEN WorkerLeaves(t) ELSE WorkerEnds(t, "stop", "error")

\* heartbeat_lease, concurrent with the job and with the deadline cleanup.
WorkerBeats(t) ==
    /\ wpc[t] \in Active \ {"stop"}
    /\ \/ /\ RefreshReply(wjob[t], t) = 1
          /\ Runs(RefreshScript(wjob[t], t))
          /\ WorkerAt(t, wpc[t])
       \/ /\ RefreshReply(wjob[t], t) = -1
          /\ Runs(RefreshScript(wjob[t], t))
          /\ HeartbeatCanceled(t)
       \/ /\ RefreshReply(wjob[t], t) = 0
          /\ Runs(RefreshScript(wjob[t], t))
          /\ WorkerLeaves(t)
       \/ Errs("refresh", wjob[t], t) /\ WorkerLeaves(t)

\* worker_job_timeout: local work is dropped, the heartbeat goes on.
WorkerDeadline(t) ==
    /\ wpc[t] \in Active \ {"stop", "cleanup"}
    /\ Reads
    /\ WorkerEnds(t, "cleanup", "error")

\* The worker process dies; only the reaper knows of its delivery then.
WorkerCrashes(t) ==
    /\ wpc[t] \in Active
    /\ Fault
    /\ WorkerLeaves(t)
    /\ UNCHANGED <<vars, bus, late>>

-----------------------------------------------------------------------------
(***************************************************************************)
(* The reaper loop and Redis time.                                         *)
(***************************************************************************)

ReaperRuns(j) ==
    /\ Runs(ReaperStep(j))
    /\ UNCHANGED <<originVars, pump, workerVars>>

TimePasses(j) ==
    /\ Runs(TimeStep(j))
    /\ UNCHANGED <<originVars, pump, workerVars>>

-----------------------------------------------------------------------------
OriginActs(j) ==
    \/ Subscribes(j) \/ AcceptRefused(j) \/ AcceptReserved(j) \/ AcceptFails(j)
    \/ ActivateAccepted(j) \/ ActivateRefused(j) \/ Awaits(j)
    \/ CancelsOrigin(j) \/ Rereads(j) \/ OriginDeadline(j) \/ ReadsTerminal(j)
    \/ OriginBeats(j) \/ ReadsBack(j) \/ OriginReceives(j)
    \/ BusBreaks(j) \/ BusClosed(j) \/ CallerLeaves(j) \/ PumpCancels(j)

WorkerActs(t) ==
    \/ WorkerLeases(t) \/ WorkerLeaseErrs(t) \/ WorkerFindsNothing(t)
    \/ WorkerRejects(t) \/ WorkerChecksDone(t) \/ WorkerBumps(t) \/ WorkerDeadLetters(t)
    \/ WorkerAsksRate(t) \/ WorkerReleases(t)
    \/ WorkerDispatches(t) \/ WorkerDoesNotDispatch(t)
    \/ ProviderAnswers(t) \/ WorkerPublishes(t) \/ WorkerFinishes(t)
    \/ WorkerBeats(t) \/ WorkerDeadline(t) \/ WorkerCrashes(t)

\* A descriptor never changes.
GatewayNext ==
    /\ \/ \E j \in Job : OriginActs(j) \/ ReaperRuns(j) \/ TimePasses(j)
       \/ \E t \in Token : WorkerActs(t)
       \/ LateRuns
    /\ UNCHANGED streams

GatewaySpec == GatewayInit /\ [][GatewayNext]_gatewayVars

\* Timers fire and calls are made: the deadline and the calls of an origin in
\* progress, and the lease heartbeat.  Nothing is assumed of callers, providers,
\* the bus, the rate limiter, the reaper or Redis time.
FairGateway ==
    /\ GatewaySpec
    /\ \A j \in Job :
         /\ WF_runVars(AcceptReserved(j) \/ AcceptFails(j))
         /\ WF_runVars(ActivateAccepted(j) \/ ActivateRefused(j))
         /\ WF_runVars(Awaits(j))
         /\ WF_runVars(CancelsOrigin(j))
         /\ WF_runVars(Rereads(j) \/ ReadsTerminal(j) \/ ReadsBack(j))
         /\ WF_runVars(OriginDeadline(j))
    /\ \A t \in Token :
         /\ WF_runVars(WorkerBeats(t))
         /\ WF_runVars(WorkerFinishes(t))

-----------------------------------------------------------------------------
(***************************************************************************)
(* Properties.                                                             *)
(***************************************************************************)

\* A caller is told a provider's result only when that result is the one
\* durable verdict: cancellation was never announced for the job, and every
\* record that survives still says "result".
ResultIsVerdict ==
    \A j \in Job : answer[j] = "result" =>
        /\ "cancel" \notin Heard(j)
        /\ meta[j] = "full" => terminal[j] = "result" /\ ~cancel[j]

\* Nobody can start work for the job any more.
Settled(j) == SameGeneration(j) /\ state[j] \in Live => Canceled(j)

\* An origin disarms its guard only when its job is settled, and without a
\* fault the pump settles every job whose guard was dropped armed.
GuardCovers ==
    \A j \in Job :
        /\ guard[j] = "disarmed" => Settled(j)
        /\ guard[j] = "pumped" /\ j \notin pump /\ faults = 0 => Settled(j)

\* A stream that ends well has relayed the chunk of the delivery that ended it:
\* neither a lost bus nor a durable End passes for a complete stream.
StreamWhole ==
    \A j \in streams, t \in Token :
        answer[j] = "result" /\ [kind |-> "result", by |-> t] \in published[j]
        => ([kind |-> "chunk", by |-> t] \in published[j] => t \in relayed[j])

\* An origin whose subscription stands misses nothing: whatever was published for
\* its job is still to be read or, being a chunk, has been relayed, however soon
\* after the enqueueing it was published.
NothingMissed ==
    \A j \in Job :
        opc[j] \in {"waiting", "readback"} /\ connected[j]
        => \A m \in published[j] : \/ \E k \in DOMAIN bus[j] : bus[j][k] = m
                                   \/ m.kind = "chunk" /\ m.by \in relayed[j]

\* As long as the attempts marker lives, the provider is called at most max_attempts
\* times for one job, whatever crashes, is reaped, is released or arrives late; each
\* time it expires as many calls become possible again, and no more.
DispatchesBounded ==
    \A j \in Job : dispatched[j] <= MaxAttempts * (1 + lapses[j])

\* Every submission is answered.
EveryoneAnswered == \A j \in Job : opc[j] # "idle" ~> opc[j] = "answered"

\* A provider call nobody can use any more is given up: the heartbeat notices
\* the lost lease or the cancellation.
Wasted(t) == wpc[t] = "run" /\ (~Owns(wjob[t], t) \/ Canceled(wjob[t]))
WastedWorkStops == \A t \in Token : Wasted(t) ~> wpc[t] # "run"
=============================================================================
