------------------------------ MODULE Scheduler ------------------------------
(***************************************************************************)
(* The in-process scheduler of src/src/gateway/mod.rs: one provider lane,  *)
(* that is a priority queue with aging, its dispatcher task, the tasks the *)
(* dispatcher spawns, and the callers of submit and submit_stream.         *)
(*                                                                         *)
(* The queue's lock makes enqueue, pop, requeue and expiry one step each.  *)
(* jobs, tiers and deadlines of QueueInner are written together under that *)
(* lock and appear as one set.  Instants are ages, which stop at the       *)
(* largest bound anything compares them with, and sequence numbers count   *)
(* from the oldest job there is.  The rate limiter and the provider answer *)
(* as they like.                                                           *)
(***************************************************************************)
EXTENDS Integers, FiniteSetsExt

CONSTANTS
    Job,
    Request,        \* what callers submit: tier, streamed or not, gated by a
                    \* policy or not, and how long the job may live
    MaxDepth,       \* max_queue_depth
    MaxWait,        \* max_wait: how long a caller lets its job be queued
    AgingStep,      \* aging_step
    MaxBoost,       \* max_boost
    Concurrency,    \* max_concurrency_per_provider
    Backoff,        \* waits a rate limiter may ask for
    Chunks,         \* bound: chunks a provider streams at most
    MaxSlip,        \* bound: how long a caller may be held up between drawing its
                    \* number and reading the clock its age counts from
    Capacity        \* chunks the channel takes beside its reserved slot

None == "none"

ASSUME SchedulerAssumption ==
    /\ IsFiniteSet(Job) /\ None \notin Job
    /\ Request \subseteq [tier : Nat, stream : BOOLEAN, gated : BOOLEAN, life : Nat]
    /\ IsFiniteSet(Request) /\ Backoff \subseteq Nat
    /\ MaxDepth \in Nat \ {0} /\ MaxWait \in Nat /\ MaxBoost \in Nat
    /\ AgingStep \in Nat \ {0} /\ Concurrency \in Nat \ {0}
    /\ Chunks \in Nat /\ MaxSlip \in Nat /\ Capacity \in Nat \ {0}

VARIABLES
    job,        \* Job: what was submitted, its sequence number, its age, and how
                \* long after the number the age began
    pc,         \* where each job is
    caller,     \* "waiting" for its answer, then the answer, or "gone"
    queue,      \* QueueInner
    hand,       \* the job the dispatcher has taken, or None
    dpc,        \* where the dispatcher is
    notify,     \* Notify holds a wake-up nobody has consumed
    retry,      \* what is left of a backoff
    stream      \* per job: chunks sent and still buffered, and its end

lane == <<queue, hand, dpc, notify, retry>>
vars == <<job, pc, caller, lane, stream>>

NoJob == [tier |-> 0, stream |-> FALSE, gated |-> FALSE, seqno |-> 0,
          life |-> 0, slip |-> 0, age |-> 0]
NoStream == [sent |-> 0, buffered |-> 0, over |-> FALSE, end |-> "open"]

Init ==
    /\ job = [j \in Job |-> NoJob]
    /\ pc = [j \in Job |-> "new"]
    /\ caller = [j \in Job |-> "waiting"]
    /\ queue = {} /\ hand = None
    /\ dpc = "dequeue" /\ notify = FALSE /\ retry = 0
    /\ stream = [j \in Job |-> NoStream]

Live(j) == pc[j] \notin {"new", "done"}

\* Nothing tells ages from here on apart.
MaxAge == Max({r.life : r \in Request} \cup {MaxWait, MaxBoost * AgingStep})

NextSeq == 1 + Max({0} \cup {job[j].seqno : j \in Job})

\* The job object is gone.
Gone(j) == /\ pc' = [pc EXCEPT ![j] = "done"]
           /\ job' = [job EXCEPT ![j] = NoJob]

AllGone(S) == /\ pc' = [j \in Job |-> IF j \in S THEN "done" ELSE pc[j]]
              /\ job' = [j \in Job |-> IF j \in S THEN NoJob ELSE job[j]]

IsCancelled(j) == caller[j] # "waiting"

\* The deadline counts from before the number was drawn.
Late(j) == job[j].slip + job[j].age >= job[j].life

\* The job's senders are used up or dropped with it; a caller still there
\* hears the answer.
Answer(j, a) == IF caller[j] = "waiting" THEN [caller EXCEPT ![j] = a] ELSE caller

\* The semaphore's permits in use: tasks, and the dispatcher asking the limiter.
InUse == {j \in Job : pc[j] \in {"spawned", "calling", "streaming"}}
            \cup (IF dpc = "rate" THEN {hand} ELSE {})

-----------------------------------------------------------------------------
(* Callers.                                                                *)

\* submit fixes the deadline, then draws a sequence number.
Draws(j, r) ==
    /\ pc[j] = "new" /\ dpc # "aborted"
    /\ job' = [job EXCEPT ![j] =
          [tier |-> r.tier, stream |-> r.stream, gated |-> r.gated,
           seqno |-> NextSeq, life |-> r.life, slip |-> 0, age |-> 0]]
    /\ pc' = [pc EXCEPT ![j] = "drawn"]
    /\ UNCHANGED <<caller, lane, stream>>

\* The job is built, and enqueued_at read from the clock: others may have drawn
\* later numbers and read it before.
Arrives(j) ==
    /\ pc[j] = "drawn"
    /\ pc' = [pc EXCEPT ![j] = "arriving"]
    /\ UNCHANGED <<job, caller, lane, stream>>

Overloaded(j) ==
    /\ pc[j] = "arriving" /\ Cardinality(queue) >= MaxDepth
    /\ Gone(j)
    /\ caller' = Answer(j, "overloaded")
    /\ UNCHANGED <<lane, stream>>

\* notify_waiters: the wake-up reaches only a dispatcher that is parked.
EnqueueNotifyingParked(j) ==
    /\ pc[j] = "arriving" /\ Cardinality(queue) < MaxDepth
    /\ queue' = queue \cup {j}
    /\ notify' = (notify \/ dpc = "parked")
    /\ pc' = [pc EXCEPT ![j] = "queued"]
    /\ UNCHANGED <<job, caller, hand, dpc, retry, stream>>

Enqueue(j) ==
    /\ pc[j] = "arriving" /\ Cardinality(queue) < MaxDepth
    /\ queue' = queue \cup {j}
    /\ notify' = TRUE
    /\ pc' = [pc EXCEPT ![j] = "queued"]
    /\ UNCHANGED <<job, caller, hand, dpc, retry, stream>>

\* max_wait elapses before the dispatcher has committed to the job.  Its timer
\* starts once the job is queued, at most as early as the age.
WaitTimesOut(j) ==
    /\ pc[j] = "queued" /\ caller[j] = "waiting"
    /\ job[j].age >= MaxWait
    /\ caller' = [caller EXCEPT ![j] = "timeout"]
    /\ UNCHANGED <<job, pc, lane, stream>>

\* The caller's own future is dropped: its client disconnected.  submit awaits
\* nothing before the job is queued.
CallerLeaves(j) ==
    /\ pc[j] \notin {"new", "drawn", "arriving"} /\ caller[j] \in {"waiting", "reading"}
    /\ caller' = [caller EXCEPT ![j] = "gone"]
    /\ UNCHANGED <<job, pc, lane, stream>>

-----------------------------------------------------------------------------
(* The queue.                                                              *)

Boost(j) ==
    LET steps == job[j].age \div AgingStep
    IN IF steps > MaxBoost THEN MaxBoost ELSE steps

effective_priority(j) == job[j].tier + Boost(j)

\* The front of each tier competes; higher priority, then earlier number.
Fronts == {j \in queue : \A k \in queue :
              job[k].tier = job[j].tier => job[j].seqno <= job[k].seqno}

\* Priority by tier alone.
PopStrict == CHOOSE j \in queue : \A k \in queue :
    \/ job[j].tier > job[k].tier
    \/ job[j].tier = job[k].tier /\ job[j].seqno <= job[k].seqno

pop_best == CHOOSE j \in Fronts : \A k \in Fronts :
    \/ effective_priority(j) > effective_priority(k)
    \/ effective_priority(j) = effective_priority(k) /\ job[j].seqno <= job[k].seqno

\* What is left of a job's lifetime orders the deadline index.
Left(j) == job[j].life - (job[j].slip + job[j].age)

\* Jobs the deadline index gives up on a walk from its earliest entry: it
\* stops at the first live job that is not due.
Expiring ==
    {j \in queue : \A k \in queue :
        /\ ~Late(k) /\ ~IsCancelled(k)
        /\ \/ Left(k) < Left(j)
           \/ Left(k) = Left(j) /\ job[k].seqno <= job[j].seqno
        => FALSE}

-----------------------------------------------------------------------------
(* The dispatcher.                                                         *)

\* A cancelled job is dropped where it is met.
Dequeue ==
    LET j == pop_best IN
    /\ dpc = "dequeue" /\ queue # {}
    /\ queue' = queue \ {j}
    /\ IF IsCancelled(j)
       THEN Gone(j) /\ UNCHANGED <<hand, dpc>>
       ELSE hand' = j /\ dpc' = "permit" /\ UNCHANGED <<pc, job>>
    /\ UNCHANGED <<caller, notify, retry, stream>>

\* The queue is found empty, and its lock is released.
FindsEmpty ==
    /\ dpc = "dequeue" /\ queue = {}
    /\ dpc' = "empty"
    /\ UNCHANGED <<job, pc, caller, queue, hand, notify, retry, stream>>

\* Then the notify is awaited, or a wake-up already stored is consumed.
Park ==
    /\ dpc = "empty"
    /\ notify' = FALSE
    /\ dpc' = IF notify THEN "dequeue" ELSE "parked"
    /\ UNCHANGED <<job, pc, caller, queue, hand, retry, stream>>

Wake ==
    /\ dpc = "parked" /\ notify
    /\ dpc' = "dequeue" /\ notify' = FALSE
    /\ UNCHANGED <<job, pc, caller, queue, hand, retry, stream>>

\* The dispatcher lets go of its job and takes the next.
Drops(j) ==
    /\ hand' = None /\ dpc' = "dequeue"
    /\ Gone(j)

\* The deadline wins over a permit, and over the limiter.
SendTimeout ==
    /\ dpc \in {"permit", "rate"} /\ Late(hand)
    /\ Drops(hand)
    /\ caller' = Answer(hand, "timeout")
    /\ UNCHANGED <<queue, notify, retry, stream>>

\* The dispatcher commits: started fires, and a task takes job and permit.
Commits(j) ==
    /\ hand' = None /\ dpc' = "dequeue"
    /\ pc' = [pc EXCEPT ![j] = "spawned"]
    /\ UNCHANGED job

TakePermit ==
    LET j == hand IN
    /\ dpc = "permit" /\ ~Late(j) /\ Cardinality(InUse) < Concurrency
    /\ IF IsCancelled(j) THEN Drops(j)
       ELSE IF job[j].gated THEN Commits(j)
       ELSE dpc' = "rate" /\ UNCHANGED <<hand, pc, job>>
    /\ UNCHANGED <<caller, queue, notify, retry, stream>>

\* The limiter grants; a caller that left meanwhile is not served.
RateGranted ==
    LET j == hand IN
    /\ dpc = "rate" /\ ~Late(j)
    /\ IF IsCancelled(j) THEN Drops(j) ELSE Commits(j)
    /\ UNCHANGED <<caller, queue, notify, retry, stream>>

\* A job put back keeps its place, ignores the depth and wakes nobody.
Requeues(j) ==
    /\ queue' = queue \cup {j}
    /\ hand' = None

\* The limiter refuses; jobs that are due or abandoned then leave the queue,
\* and the dispatcher sleeps.
RateRefused(wait) ==
    /\ dpc = "rate" /\ ~Late(hand)
    /\ Requeues(hand)
    /\ dpc' = "expire"
    /\ retry' = wait
    /\ UNCHANGED <<job, pc, caller, notify, stream>>

expire_and_earliest_deadline ==
    /\ dpc = "expire"
    /\ queue' = queue \ Expiring
    /\ AllGone(Expiring)
    /\ caller' = [j \in Job |-> IF j \in Expiring /\ ~IsCancelled(j) THEN "timeout"
                                ELSE caller[j]]
    /\ dpc' = "backoff"
    /\ UNCHANGED <<hand, notify, retry, stream>>

\* The earliest deadline, the end of the wait, or new work ends a backoff.
BackoffEnds ==
    /\ dpc = "backoff"
    /\ \/ retry = 0 /\ UNCHANGED notify
       \/ (\E j \in queue : Late(j)) /\ UNCHANGED notify
       \/ notify /\ notify' = FALSE
    /\ dpc' = "dequeue" /\ retry' = 0
    /\ UNCHANGED <<job, pc, caller, queue, hand, stream>>

-----------------------------------------------------------------------------
(* The task of a committed job.  It looks first at its caller, then at the *)
(* deadline, then at the provider.                                         *)

TaskCancelled(j) ==
    /\ pc[j] \in {"spawned", "calling"} /\ IsCancelled(j)
    /\ Gone(j)
    /\ UNCHANGED <<caller, lane, stream>>

\* The deadline looked at once, before the call.
TaskLateBeforeCall(j) ==
    /\ pc[j] = "spawned" /\ ~IsCancelled(j) /\ Late(j)
    /\ Gone(j)
    /\ caller' = Answer(j, "timeout")
    /\ UNCHANGED <<lane, stream>>

TaskLate(j) ==
    /\ pc[j] \in {"spawned", "calling"} /\ ~IsCancelled(j) /\ Late(j)
    /\ Gone(j)
    /\ caller' = Answer(j, "timeout")
    /\ UNCHANGED <<lane, stream>>

TaskCalls(j) ==
    /\ pc[j] = "spawned" /\ ~IsCancelled(j) /\ ~Late(j)
    /\ pc' = [pc EXCEPT ![j] = "calling"]
    /\ UNCHANGED <<job, caller, lane, stream>>

\* The provider answers before the deadline; a 429 also penalises the lane's
\* bucket, which is the limiter's own state.
TaskAnswers(j, a) ==
    /\ pc[j] = "calling" /\ ~IsCancelled(j) /\ ~Late(j)
    /\ job[j].stream => a = "upstream"
    /\ Gone(j)
    /\ caller' = Answer(j, a)
    /\ UNCHANGED <<lane, stream>>

\* A stream opens: the caller is handed the receiving end of a channel in
\* which one slot is reserved for the deadline's error.
StreamOpens(j) ==
    /\ pc[j] = "calling" /\ job[j].stream /\ ~IsCancelled(j) /\ ~Late(j)
    /\ pc' = [pc EXCEPT ![j] = "streaming"]
    /\ caller' = Answer(j, "reading")
    /\ UNCHANGED <<job, lane, stream>>

Reading(j) == pc[j] = "streaming" /\ caller[j] = "reading"

StreamForwards(j) ==
    /\ Reading(j) /\ ~Late(j)
    /\ stream[j].sent < Chunks /\ stream[j].buffered < Capacity
    /\ stream' = [stream EXCEPT ![j].sent = @ + 1, ![j].buffered = @ + 1]
    /\ UNCHANGED <<job, pc, caller, lane>>

StreamFinishes(j) ==
    /\ Reading(j) /\ ~Late(j)
    /\ Gone(j)
    /\ stream' = [stream EXCEPT ![j].over = TRUE, ![j].end = "clean"]
    /\ UNCHANGED <<caller, lane>>

StreamTimesOutIfRoom(j) ==
    /\ Reading(j) /\ Late(j)
    /\ Gone(j)
    /\ stream' = [stream EXCEPT ![j].end =
                     IF stream[j].buffered < Capacity THEN "timeout" ELSE "clean"]
    /\ UNCHANGED <<caller, lane>>

\* The reserved slot is there however full the channel is.
StreamTimesOut(j) ==
    /\ Reading(j) /\ Late(j)
    /\ Gone(j)
    /\ stream' = [stream EXCEPT ![j].end = "timeout"]
    /\ UNCHANGED <<caller, lane>>

\* The reader has dropped its end.
StreamAbandoned(j) ==
    /\ pc[j] = "streaming" /\ caller[j] = "gone"
    /\ Gone(j)
    /\ UNCHANGED <<caller, lane, stream>>

\* The reader takes a chunk, then sees how the stream ended.
Reads(j) ==
    /\ caller[j] = "reading"
    /\ \/ /\ stream[j].buffered > 0
          /\ stream' = [stream EXCEPT ![j].buffered = @ - 1]
          /\ UNCHANGED caller
       \/ /\ stream[j].buffered = 0 /\ stream[j].end # "open"
          /\ caller' = [caller EXCEPT ![j] = stream[j].end]
          /\ UNCHANGED stream
    /\ UNCHANGED <<job, pc, lane>>

-----------------------------------------------------------------------------

\* Scheduler is dropped, which needs every borrower of it to have returned:
\* the dispatcher is aborted; spawned tasks go on.
SchedulerDropped ==
    /\ dpc # "aborted"
    /\ \A j \in Job : pc[j] = "new" \/ caller[j] # "waiting"
    /\ dpc' = "aborted" /\ queue' = {} /\ hand' = None
    /\ AllGone(queue \cup {hand})
    /\ UNCHANGED <<caller, notify, retry, stream>>

\* Ages stop where nothing tells them apart; a held-up caller goes on in time.
Older(j) ==
    IF pc[j] = "drawn" THEN [job[j] EXCEPT !.slip = @ + 1]
    ELSE IF Live(j) /\ job[j].age < MaxAge THEN [job[j] EXCEPT !.age = @ + 1]
    ELSE job[j]

Tick ==
    /\ \A j \in Job : pc[j] = "drawn" => job[j].slip < MaxSlip
    /\ retry' = IF retry > 0 THEN retry - 1 ELSE 0
    /\ job' = [j \in Job |-> Older(j)]
    /\ UNCHANGED <<pc, caller, queue, hand, dpc, notify, stream>>

Calls(j) ==
    \/ (\E r \in Request : Draws(j, r)) \/ Arrives(j)
    \/ Overloaded(j) \/ Enqueue(j) \/ WaitTimesOut(j) \/ CallerLeaves(j) \/ Reads(j)

Dispatches ==
    \/ Dequeue \/ FindsEmpty \/ Park \/ Wake \/ SendTimeout \/ TakePermit \/ RateGranted
    \/ (\E wait \in Backoff : RateRefused(wait))
    \/ expire_and_earliest_deadline \/ BackoffEnds

Task(j) ==
    \/ TaskCancelled(j) \/ TaskLate(j) \/ TaskCalls(j)
    \/ (\E a \in {"ok", "upstream"} : TaskAnswers(j, a))
    \/ StreamOpens(j) \/ StreamForwards(j) \/ StreamFinishes(j)
    \/ StreamTimesOut(j) \/ StreamAbandoned(j)

Next ==
    \/ \E j \in Job : Calls(j) \/ Task(j)
    \/ Dispatches \/ SchedulerDropped \/ Tick

Spec == Init /\ [][Next]_vars

\* The runtime polls the dispatcher, the tasks and the callers' timers; the
\* clock moves.  Nothing is asked of providers, limiters or readers: a task
\* whose provider is silent ends by its deadline.
FairSpec ==
    /\ Spec
    /\ WF_vars(Dequeue) /\ WF_vars(FindsEmpty) /\ WF_vars(Park) /\ WF_vars(Wake)
    /\ WF_vars(SendTimeout) /\ WF_vars(TakePermit) /\ WF_vars(expire_and_earliest_deadline)
    /\ WF_vars(BackoffEnds) /\ WF_vars(Tick)
    /\ \A j \in Job :
          WF_vars(Arrives(j) \/ Enqueue(j) \/ Overloaded(j) \/ WaitTimesOut(j))
          /\ WF_vars(TaskCancelled(j) \/ TaskLate(j) \/ TaskCalls(j))

-----------------------------------------------------------------------------
(* Properties.                                                             *)

\* No wake-up is lost: a dispatcher that sleeps on an empty queue sleeps only
\* while the queue is empty or a wake-up is already on its way to it, although
\* it goes to sleep after it has let go of the queue's lock, and a requeue
\* sends none.
NoLostWakeup == dpc = "parked" => queue = {} \/ notify

\* Aging bounds starvation as far as the cap lets it: as long as the wait of the
\* job taken and the gap between their tiers are together worth less than the cap
\* (beyond it the higher tier wins for ever, whatever the wait), no queued job of the
\* same or a lower tier is passed over that has waited longer than that, except by
\* what a job numbered before it was held up on its way from the number to the clock.
StarvationBounded ==
    [][\A j \in queue, k \in queue :
          LET gap == job[k].tier - job[j].tier
              worth == job[k].age + gap * AgingStep
          IN hand # k /\ hand' = k /\ j # k /\ gap >= 0 /\ worth < MaxBoost * AgingStep =>
                \E i \in queue : /\ job[i].seqno <= job[j].seqno
                                 /\ job[j].age <= worth + job[i].slip]_vars

\* A reader is never told that a stream ended well when it did not: a clean
\* end means that the provider finished and that every chunk it sent arrived,
\* even if the deadline met a channel that was full.
StreamEndHonest ==
    \A j \in Job : caller[j] = "clean" =>
        stream[j].over /\ stream[j].buffered = 0

\* Everyone who submits is answered or leaves, with a silent provider, a
\* limiter that always refuses, and callers that vanish.
EveryCallerAnswered ==
    \A j \in Job : pc[j] = "drawn" ~> caller[j] # "waiting"
=============================================================================
