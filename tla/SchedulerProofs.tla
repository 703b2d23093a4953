--------------------------- MODULE SchedulerProofs ---------------------------
(***************************************************************************)
(* The in-process scheduler for any number of jobs, any tiers, deadlines,  *)
(* aging, depth and concurrency: no wake-up is lost (NoLostWakeup), a      *)
(* stream that did not end well is never reported as ended well            *)
(* (StreamEndHonest), and aging bounds starvation (StarvationBounded).     *)
(***************************************************************************)
EXTENDS Scheduler, UnitsProofs

-----------------------------------------------------------------------------
(* Wake-ups.  Between finding the queue empty and awaiting the notify the  *)
(* dispatcher holds no lock, so the invariant begins at the former.        *)

Woken == dpc \in {"empty", "parked"} => queue = {} \/ notify

\* Whatever is enqueued after the dispatcher found the queue empty leaves a
\* wake-up behind (Notify::notify_one), and only the dispatcher consumes it.
THEOREM NoLostWakeupHolds == Spec => []NoLostWakeup
<1>1. Init => Woken
  BY DEF Init, Woken
<1>2. Woken /\ [Next]_vars => Woken'
  <2> SUFFICES ASSUME Woken, [Next]_vars PROVE Woken'
    OBVIOUS
  <2> USE DEF Woken, lane
  <2>1. ASSUME NEW j \in Job, Calls(j) PROVE Woken'
    BY <2>1 DEF Calls, Draws, Arrives, Overloaded, Enqueue, WaitTimesOut, CallerLeaves, Reads
  <2>2. ASSUME NEW j \in Job, Task(j) PROVE Woken'
    BY <2>2 DEF Task, TaskCancelled, TaskLate, TaskCalls, TaskAnswers, StreamOpens,
       StreamForwards, StreamFinishes, StreamTimesOut, StreamAbandoned
  <2>3. CASE Dispatches
    <3>1. CASE Dequeue BY <3>1 DEF Dequeue
    <3>2. CASE FindsEmpty BY <3>2 DEF FindsEmpty
    <3>3. CASE Park BY <3>3 DEF Park
    <3>4. CASE Wake BY <3>4 DEF Wake
    <3>5. CASE SendTimeout BY <3>5 DEF SendTimeout, Drops
    <3>6. CASE TakePermit BY <3>6 DEF TakePermit, Drops, Commits
    <3>7. CASE RateGranted BY <3>7 DEF RateGranted, Drops, Commits
    <3>8. ASSUME NEW wait \in Backoff, RateRefused(wait) PROVE Woken'
      BY <3>8 DEF RateRefused
    <3>9. CASE expire_and_earliest_deadline BY <3>9 DEF expire_and_earliest_deadline
    <3>10. CASE BackoffEnds BY <3>10 DEF BackoffEnds
    <3> QED BY <2>3, <3>1, <3>2, <3>3, <3>4, <3>5, <3>6, <3>7, <3>8, <3>9, <3>10
            DEF Dispatches
  <2>4. CASE SchedulerDropped BY <2>4 DEF SchedulerDropped
  <2>5. CASE Tick BY <2>5 DEF Tick
  <2>6. CASE UNCHANGED vars BY <2>6 DEF vars
  <2> QED BY <2>1, <2>2, <2>3, <2>4, <2>5, <2>6 DEF Next
<1>3. Woken => NoLostWakeup
  BY DEF Woken, NoLostWakeup
<1> QED BY <1>1, <1>2, <1>3, PTL DEF Spec

-----------------------------------------------------------------------------
(* Ends of streams.                                                        *)

StreamState == [sent : Nat, buffered : Nat, over : BOOLEAN,
                end : {"open", "clean", "timeout"}]
CallerState == {"waiting", "overloaded", "timeout", "gone", "ok", "upstream", "reading",
                "clean"}

\* A clean end is written by the task that saw the provider finish, and is
\* told to a reader that has emptied the channel.
EndsHonest ==
    /\ stream \in [Job -> StreamState]
    /\ caller \in [Job -> CallerState]
    /\ \A j \in Job : stream[j].end = "clean" => stream[j].over
    /\ \A j \in Job : caller[j] = "clean" => stream[j].over /\ stream[j].buffered = 0

\* An answer to a caller, whoever gives it, tells nobody of a clean end.
LEMMA AnswersHonest ==
    ASSUME EndsHonest, NEW j, NEW a \in CallerState, a # "clean", UNCHANGED stream,
           caller' = Answer(j, a)
    PROVE  EndsHonest'
<1>1. caller' \in [Job -> CallerState]
  BY DEF EndsHonest, Answer
<1>2. \A k \in Job : caller'[k] = "clean" => caller[k] = "clean"
  BY DEF EndsHonest, Answer
<1> QED BY <1>1, <1>2 DEF EndsHonest

\* A clean end means a whole stream, even if the deadline met a full channel
\* (the slot reserved for the deadline's error).
THEOREM StreamEndHonestHolds == Spec => []StreamEndHonest
<1>1. Init => EndsHonest
  BY DEF Init, EndsHonest, StreamState, CallerState, NoStream
<1>2. EndsHonest /\ [Next]_vars => EndsHonest'
  <2> SUFFICES ASSUME EndsHonest, [Next]_vars PROVE EndsHonest'
    OBVIOUS
  <2>0. UNCHANGED <<caller, stream>> => EndsHonest'
    BY DEF EndsHonest
  <2>1. ASSUME NEW j \in Job, Calls(j) PROVE EndsHonest'
    <3>1. ASSUME NEW r \in Request, Draws(j, r) PROVE EndsHonest'
      BY <2>0, <3>1 DEF Draws
    <3>7. CASE Arrives(j) BY <2>0, <3>7 DEF Arrives
    <3>2. CASE Overloaded(j) BY <3>2, AnswersHonest DEF Overloaded, CallerState
    <3>3. CASE Enqueue(j) BY <2>0, <3>3 DEF Enqueue
    <3>4. CASE WaitTimesOut(j) BY <3>4 DEF WaitTimesOut, EndsHonest, CallerState
    <3>5. CASE CallerLeaves(j) BY <3>5 DEF CallerLeaves, EndsHonest, CallerState
    <3>6. CASE Reads(j) BY <3>6 DEF Reads, EndsHonest, StreamState, CallerState
    <3> QED BY <2>1, <3>1, <3>2, <3>3, <3>4, <3>5, <3>6, <3>7 DEF Calls
  <2>2. ASSUME NEW j \in Job, Task(j) PROVE EndsHonest'
    <3>1. CASE TaskCancelled(j) \/ TaskCalls(j) \/ StreamAbandoned(j)
      BY <2>0, <3>1 DEF TaskCancelled, TaskCalls, StreamAbandoned
    <3>2. CASE TaskLate(j) BY <3>2, AnswersHonest DEF TaskLate, CallerState
    <3>3. ASSUME NEW a \in {"ok", "upstream"}, TaskAnswers(j, a) PROVE EndsHonest'
      BY <3>3, AnswersHonest DEF TaskAnswers, CallerState
    <3>4. CASE StreamOpens(j) BY <3>4, AnswersHonest DEF StreamOpens, CallerState
    <3>5. CASE StreamForwards(j)
      BY <3>5 DEF StreamForwards, Reading, EndsHonest, StreamState
    <3>6. CASE StreamFinishes(j)
      BY <3>6, ZenonT(40) DEF StreamFinishes, Reading, EndsHonest, StreamState
    <3>7. CASE StreamTimesOut(j)
      BY <3>7 DEF StreamTimesOut, Reading, EndsHonest, StreamState
    <3> QED BY <2>2, <3>1, <3>2, <3>3, <3>4, <3>5, <3>6, <3>7 DEF Task
  <2>3. CASE Dispatches
    <3>1. CASE SendTimeout BY <3>1, AnswersHonest DEF SendTimeout, CallerState
    <3>2. CASE expire_and_earliest_deadline
      BY <3>2 DEF expire_and_earliest_deadline, EndsHonest, CallerState
    <3>3. CASE ~SendTimeout /\ ~expire_and_earliest_deadline
      BY <2>0, <2>3, <3>3 DEF Dispatches, Dequeue, FindsEmpty, Park, Wake, TakePermit,
         RateGranted, RateRefused, BackoffEnds
    <3> QED BY <3>1, <3>2, <3>3
  <2>4. CASE SchedulerDropped BY <2>0, <2>4 DEF SchedulerDropped
  <2>5. CASE Tick BY <2>0, <2>5 DEF Tick
  <2>6. CASE UNCHANGED vars BY <2>0, <2>6 DEF vars
  <2> QED BY <2>1, <2>2, <2>3, <2>4, <2>5, <2>6 DEF Next
<1>3. EndsHonest => StreamEndHonest
  BY DEF EndsHonest, StreamEndHonest
<1> QED BY <1>1, <1>2, <1>3, PTL DEF Spec

-----------------------------------------------------------------------------
(* Starvation.  Sequence numbers order jobs by when they were drawn, so    *)
(* among live jobs an earlier one is younger by no more than it was held   *)
(* up after drawing; the rest is the arithmetic of aging.                  *)

JobState == [tier : Nat, stream : BOOLEAN, gated : BOOLEAN, seqno : Nat, life : Nat,
             slip : Nat, age : Nat]
Place == {"new", "drawn", "arriving", "queued", "spawned", "calling", "streaming", "done"}

LaneShape ==
    /\ job \in [Job -> JobState] /\ pc \in [Job -> Place]
    /\ queue \subseteq Job /\ hand \in Job \cup {None}

\* What the lane holds is queued, and in one place.
Placed ==
    /\ \A j \in queue : pc[j] = "queued"
    /\ hand # None => pc[hand] = "queued" /\ hand \notin queue
    /\ dpc \in {"permit", "rate"} => hand # None

ByArrival ==
    \A i \in Job, j \in Job :
        i # j /\ Live(i) /\ Live(j) =>
            /\ job[i].seqno # job[j].seqno
            /\ job[i].seqno < job[j].seqno => job[i].age + job[i].slip >= job[j].age

LaneInv == LaneShape /\ Placed /\ ByArrival

\* A number that is drawn is later than those of all jobs there are.
LEMMA NextSeqLater ==
    ASSUME LaneShape
    PROVE  NextSeq \in Nat /\ \A j \in Job : NextSeq > job[j].seqno
<1> DEFINE S == {0} \cup {job[j].seqno : j \in Job}
<1>1. PICK m \in S : m \in Nat /\ \A n \in S : m >= n
  <2>1. CASE Job = {}
    <3>1. S = {0} BY <2>1
    <3> QED BY <3>1, SMTT(30)
  <2>2. CASE Job # {}
    <3> DEFINE f == [j \in Job |-> job[j].seqno]
    <3>1. IsFiniteSet(Job) /\ \A j \in Job : f[j] \in Nat /\ f[j] = job[j].seqno
      BY SchedulerAssumption DEF SchedulerAssumption, LaneShape, JobState
    <3>2. \A j \in Job : f[j] \in Int
      BY <3>1
    <3> HIDE DEF f
    <3>3. PICK x \in Job : \A y \in Job : f[y] <= f[x]
      BY <2>2, <3>1, <3>2, FiniteMax
    <3>4. f[x] \in S /\ f[x] \in Nat /\ \A n \in S : f[x] >= n
      BY <3>1, <3>3
    <3> QED BY <3>4
  <2> QED BY <2>1, <2>2
<1>2. Max(S) \in S /\ \A n \in S : Max(S) >= n
  BY <1>1 DEF Max
<1>3. \A n \in S : n \in Nat
  BY DEF LaneShape, JobState
<1>4. NextSeq = 1 + Max(S)
  BY DEF NextSeq
<1>5. \A j \in Job : job[j].seqno \in S
  OBVIOUS
<1> HIDE DEF S
<1> QED BY <1>2, <1>3, <1>4, <1>5

\* Ages are cut at a number.
LEMMA MaxAgeType == MaxAge \in Int
<1> DEFINE S == {r.life : r \in Request} \cup {MaxWait, MaxBoost * AgingStep}
<1>1. \A n \in S : n \in Nat
  BY SchedulerAssumption DEF SchedulerAssumption
<1>2. PICK m \in S : \A n \in S : m >= n
  <2> DEFINE w == IF MaxWait >= MaxBoost * AgingStep THEN MaxWait ELSE MaxBoost * AgingStep
  <2>0. MaxWait \in Nat /\ MaxBoost * AgingStep \in Nat
    BY SchedulerAssumption DEF SchedulerAssumption
  <2>1. w \in S /\ w \in Nat /\ w >= MaxWait /\ w >= MaxBoost * AgingStep
    BY <2>0
  <2>2. CASE Request = {}
    BY <2>1, <2>2
  <2>3. CASE Request # {}
    <3> DEFINE f == [r \in Request |-> r.life]
    <3>1. IsFiniteSet(Request) /\ \A r \in Request : f[r] \in Int /\ f[r] = r.life
      BY SchedulerAssumption DEF SchedulerAssumption
    <3> HIDE DEF f
    <3>2. PICK x \in Request : \A y \in Request : f[y] <= f[x]
      BY <2>3, <3>1, FiniteMax
    <3>3. f[x] \in S /\ f[x] \in Int /\ \A r \in Request : r.life <= f[x]
      BY <3>1, <3>2
    <3> HIDE DEF w
    <3>4. CASE f[x] >= w
      <4>0. f[x] >= MaxWait /\ f[x] >= MaxBoost * AgingStep
        BY <2>0, <2>1, <3>3, <3>4
      <4>1. \A n \in S : f[x] >= n
        BY <1>1, <3>3, <4>0
      <4> QED BY <3>3, <4>1
    <3>5. CASE w >= f[x]
      <4>0. \A r \in Request : r.life \in Nat
        BY <1>1
      <4>1. \A r \in Request : w >= r.life
        BY <2>1, <3>3, <3>5, <4>0
      <4>2. \A n \in S : w >= n
        BY <2>1, <4>1
      <4> QED BY <2>1, <4>2
    <3> QED BY <2>1, <3>3, <3>4, <3>5
  <2> QED BY <2>2, <2>3
<1>3. Max(S) \in S
  BY <1>2 DEF Max
<1> HIDE DEF S
<1> QED BY <1>1, <1>3 DEF MaxAge, S

\* The order survives whatever leaves the other jobs' numbers and ages alone.
LEMMA FewerLive ==
    ASSUME ByArrival,
           \A j \in Job : Live(j)' => Live(j) /\ job'[j] = job[j]
    PROVE  ByArrival'
BY DEF ByArrival

\* A job that is gone.
LEMMA GoneKeeps ==
    ASSUME LaneInv, NEW j, Gone(j)
    PROVE  /\ job' \in [Job -> JobState] /\ pc' \in [Job -> Place]
           /\ \A k \in Job : k # j => pc'[k] = pc[k] /\ job'[k] = job[k]
           /\ j \in Job => pc'[j] = "done"
           /\ ByArrival'
<1>1. /\ job' \in [Job -> JobState] /\ pc' \in [Job -> Place]
      /\ \A k \in Job : k # j => pc'[k] = pc[k] /\ job'[k] = job[k]
      /\ j \in Job => pc'[j] = "done"
  BY DEF Gone, LaneInv, LaneShape, JobState, NoJob, Place
<1>2. \A k \in Job : Live(k)' => Live(k) /\ job'[k] = job[k]
  BY <1>1 DEF Live
<1> QED BY <1>1, <1>2, FewerLive DEF LaneInv

\* Several at once.
LEMMA AllGoneKeeps ==
    ASSUME LaneInv, NEW S, AllGone(S)
    PROVE  /\ job' \in [Job -> JobState] /\ pc' \in [Job -> Place]
           /\ \A k \in Job : k \notin S => pc'[k] = pc[k]
           /\ ByArrival'
<1>1. /\ job' \in [Job -> JobState] /\ pc' \in [Job -> Place]
      /\ \A k \in Job : k \notin S => pc'[k] = pc[k] /\ job'[k] = job[k]
      /\ \A k \in Job : k \in S => pc'[k] = "done"
  BY DEF AllGone, LaneInv, LaneShape, JobState, NoJob, Place
<1>2. \A k \in Job : Live(k)' => Live(k) /\ job'[k] = job[k]
  BY <1>1 DEF Live
<1> QED BY <1>1, <1>2, FewerLive DEF LaneInv

\* A job that only moves from one live place to another.
LEMMA MoveKeeps ==
    ASSUME LaneInv, NEW j \in Job, NEW p \in Place, Live(j),
           pc' = [pc EXCEPT ![j] = p], job' = job
    PROVE  /\ job' \in [Job -> JobState] /\ pc' \in [Job -> Place]
           /\ \A k \in Job : k # j => pc'[k] = pc[k]
           /\ pc'[j] = p
           /\ ByArrival'
<1>1. /\ job' \in [Job -> JobState] /\ pc' \in [Job -> Place]
      /\ \A k \in Job : k # j => pc'[k] = pc[k]
      /\ pc'[j] = p
  BY DEF LaneInv, LaneShape
<1>2. \A k \in Job : Live(k)' => Live(k) /\ job'[k] = job[k]
  BY <1>1 DEF Live
<1> QED BY <1>1, <1>2, FewerLive DEF LaneInv

\* A job behind the lane leaves it as it is.
LEMMA TaskKeeps ==
    ASSUME LaneInv, NEW j \in Job, pc[j] # "queued", UNCHANGED <<queue, hand, dpc>>,
           job' \in [Job -> JobState], pc' \in [Job -> Place], ByArrival',
           \A k \in Job : k # j => pc'[k] = pc[k]
    PROVE  LaneInv'
BY DEF LaneInv, LaneShape, Placed

\* A queue of jobs has a best one, and each of its jobs has one at the front
\* of its tier that arrived no later.
LEMMA TierFront ==
    ASSUME LaneShape, NEW j \in queue
    PROVE  \E k \in Fronts : job[k].tier = job[j].tier /\ job[k].seqno <= job[j].seqno
<1> DEFINE S == {k \in queue : job[k].tier = job[j].tier}
           f == [k \in S |-> job[k].seqno]
<1>1. IsFiniteSet(S)
  BY SchedulerAssumption, FS_Subset DEF SchedulerAssumption, LaneShape
<1>2. j \in S /\ \A k \in S : f[k] \in Int /\ f[k] = job[k].seqno
  BY DEF LaneShape, JobState
<1>3. PICK k \in S : \A l \in S : f[k] <= f[l]
  <2> HIDE DEF f, S
  <2> QED BY <1>1, <1>2, FiniteMin
<1>4. \A l \in queue : job[l].tier = job[k].tier => job[k].seqno <= job[l].seqno
  BY <1>2, <1>3
<1>5. k \in Fronts
  BY <1>3, <1>4 DEF Fronts
<1> QED BY <1>2, <1>3, <1>5

\* Priorities, tiers, ages and numbers of jobs are numbers.
LEMMA PriorityType ==
    ASSUME LaneShape, NEW j \in Job
    PROVE  /\ Boost(j) \in Nat /\ effective_priority(j) \in Int
           /\ job[j].tier \in Nat /\ job[j].age \in Nat /\ job[j].seqno \in Nat
<1>1. job[j].tier \in Nat /\ job[j].age \in Nat /\ job[j].seqno \in Nat
  BY DEF LaneShape, JobState
<1>2. AgingStep \in Nat \ {0} /\ MaxBoost \in Nat
  BY SchedulerAssumption DEF SchedulerAssumption
<1>3. job[j].age \div AgingStep \in Nat
  BY <1>1, <1>2
<1>4. Boost(j) \in Nat
  BY <1>2, <1>3 DEF Boost
<1> QED BY <1>1, <1>4 DEF effective_priority

\* pop_best is the first of the fronts with the highest priority.
LEMMA PopBest ==
    ASSUME LaneShape, queue # {}
    PROVE  /\ pop_best \in queue
           /\ \A k \in Fronts :
                 \/ effective_priority(pop_best) > effective_priority(k)
                 \/ /\ effective_priority(pop_best) = effective_priority(k)
                    /\ job[pop_best].seqno <= job[k].seqno
<1>1. Fronts \subseteq queue /\ queue \subseteq Job /\ IsFiniteSet(Fronts)
  BY SchedulerAssumption, FS_Subset DEF SchedulerAssumption, LaneShape, Fronts
<1>2. Fronts # {}
  BY TierFront
<1> DEFINE f == [k \in Fronts |-> effective_priority(k)]
<1>3. \A k \in Fronts : f[k] = effective_priority(k) /\ f[k] \in Int
  BY <1>1, PriorityType
<1>4. PICK p \in Fronts : \A k \in Fronts : f[k] <= f[p]
  <2> HIDE DEF f
  <2> QED BY <1>1, <1>2, <1>3, FiniteMax
<1> DEFINE S == {k \in Fronts : effective_priority(k) = effective_priority(p)}
           g == [k \in S |-> job[k].seqno]
<1>5. IsFiniteSet(S) /\ p \in S
  BY <1>1, FS_Subset
<1>6. \A k \in S : g[k] = job[k].seqno /\ g[k] \in Int
  BY <1>1, PriorityType
<1>7. PICK b \in S : \A k \in S : g[b] <= g[k]
  <2> HIDE DEF g, S
  <2> QED BY <1>5, <1>6, FiniteMin
<1>8. ASSUME NEW k \in Fronts
      PROVE  \/ effective_priority(b) > effective_priority(k)
             \/ /\ effective_priority(b) = effective_priority(k)
                /\ job[b].seqno <= job[k].seqno
  <2>1. effective_priority(k) <= effective_priority(b)
    BY <1>3, <1>4, <1>7, <1>8
  <2>2. CASE effective_priority(k) = effective_priority(b)
    BY <1>6, <1>7, <2>2
  <2>3. CASE effective_priority(k) # effective_priority(b)
    BY <1>1, <1>7, <2>1, <2>3, PriorityType
  <2> QED BY <2>2, <2>3
<1> DEFINE Best(j) == \A k \in Fronts :
              \/ effective_priority(j) > effective_priority(k)
              \/ effective_priority(j) = effective_priority(k) /\ job[j].seqno <= job[k].seqno
<1>9. b \in Fronts /\ Best(b)
  BY <1>7, <1>8
<1>10. pop_best = CHOOSE j \in Fronts : Best(j)
  BY DEF pop_best
<1> HIDE DEF Best
<1>11. pop_best \in Fronts /\ Best(pop_best)
  BY <1>9, <1>10
<1> QED BY <1>1, <1>11 DEF Best

\* Every step of callers, dispatcher, tasks and clock.
LEMMA LaneStep == LaneInv /\ [Next]_vars => LaneInv'
<1> SUFFICES ASSUME LaneInv, [Next]_vars PROVE LaneInv'
  OBVIOUS
<1> USE DEF lane
<1>1. ASSUME NEW j \in Job, Calls(j) PROVE LaneInv'
  <2>1. ASSUME NEW r \in Request, Draws(j, r) PROVE LaneInv'
    <3>1. /\ job'[j].seqno = NextSeq /\ job'[j].age = 0 /\ job'[j].slip = 0
          /\ \A k \in Job : k # j => job'[k] = job[k] /\ pc'[k] = pc[k]
      BY <2>1 DEF Draws, LaneInv, LaneShape
    <3>2. job' \in [Job -> JobState] /\ pc' \in [Job -> Place]
      <4>1. NextSeq \in Nat
        BY NextSeqLater DEF LaneInv
      <4>2. r.tier \in Nat /\ r.stream \in BOOLEAN /\ r.gated \in BOOLEAN /\ r.life \in Nat
        BY SchedulerAssumption DEF SchedulerAssumption
      <4> QED BY <2>1, <4>1, <4>2 DEF Draws, LaneInv, LaneShape, JobState, Place
    <3>3. ByArrival'
      <4> SUFFICES ASSUME NEW i \in Job, NEW k \in Job, i # k, Live(i)', Live(k)'
                   PROVE  /\ job'[i].seqno # job'[k].seqno
                          /\ job'[i].seqno < job'[k].seqno =>
                                job'[i].age + job'[i].slip >= job'[k].age
        BY DEF ByArrival
      <4>1. /\ NextSeq \in Nat /\ NextSeq > job[i].seqno /\ NextSeq > job[k].seqno
            /\ job[i].seqno \in Nat /\ job[k].seqno \in Nat
            /\ job[i].age \in Nat /\ job[k].age \in Nat /\ job[i].slip \in Nat
        BY NextSeqLater DEF LaneInv, LaneShape, JobState
      <4>2. CASE i = j
        BY <3>1, <4>1, <4>2
      <4>3. CASE k = j
        BY <3>1, <4>1, <4>3
      <4>4. CASE i # j /\ k # j
        <5>1. Live(i) /\ Live(k) /\ job'[i] = job[i] /\ job'[k] = job[k]
          BY <3>1, <4>4 DEF Live
        <5> QED BY <5>1 DEF LaneInv, ByArrival
      <4> QED BY <4>2, <4>3, <4>4
    <3>4. pc[j] # "queued" /\ UNCHANGED <<queue, hand, dpc>>
      BY <2>1 DEF Draws
    <3> QED BY <3>1, <3>2, <3>3, <3>4, TaskKeeps
  <2>5. CASE Arrives(j)
    <3>1. /\ Live(j) /\ "arriving" \in Place /\ pc[j] # "queued"
          /\ UNCHANGED <<queue, hand, dpc>>
      BY <2>5 DEF Arrives, Live, Place
    <3> QED BY <2>5, <3>1, MoveKeeps, TaskKeeps DEF Arrives
  <2>2. CASE Overloaded(j)
    BY <2>2, GoneKeeps, TaskKeeps DEF Overloaded
  <2>3. CASE Enqueue(j)
    <3>1. Live(j) /\ "queued" \in Place
      BY <2>3 DEF Enqueue, Live, Place
    <3>2. /\ job' \in [Job -> JobState] /\ pc' \in [Job -> Place]
          /\ \A k \in Job : k # j => pc'[k] = pc[k]
          /\ pc'[j] = "queued"
          /\ ByArrival'
      BY <2>3, <3>1, MoveKeeps DEF Enqueue
    <3> QED BY <2>3, <3>2 DEF Enqueue, LaneInv, LaneShape, Placed
  <2>4. CASE WaitTimesOut(j) \/ CallerLeaves(j) \/ Reads(j)
    <3>1. UNCHANGED <<job, pc, queue, hand, dpc>>
      BY <2>4 DEF WaitTimesOut, CallerLeaves, Reads
    <3> QED BY <3>1 DEF LaneInv, LaneShape, Placed, ByArrival, Live
  <2> QED BY <1>1, <2>1, <2>2, <2>3, <2>4, <2>5 DEF Calls
<1>2. ASSUME NEW j \in Job, Task(j) PROVE LaneInv'
  <2>1. CASE Gone(j)
    <3>1. pc[j] # "queued" /\ UNCHANGED <<queue, hand, dpc>>
      BY <1>2, <2>1 DEF Task, TaskCancelled, TaskLate, TaskCalls, TaskAnswers, StreamOpens,
         StreamForwards, StreamFinishes, StreamTimesOut, StreamAbandoned, Reading
    <3> QED BY <2>1, <3>1, GoneKeeps, TaskKeeps
  <2>2. CASE TaskCalls(j) \/ StreamOpens(j)
    <3>1. PICK p \in {"calling", "streaming"} :
             pc' = [pc EXCEPT ![j] = p] /\ job' = job
      BY <2>2 DEF TaskCalls, StreamOpens
    <3>2. /\ Live(j) /\ p \in Place /\ pc[j] # "queued"
          /\ UNCHANGED <<queue, hand, dpc>>
      BY <2>2 DEF TaskCalls, StreamOpens, Live, Place
    <3> QED BY <3>1, <3>2, MoveKeeps, TaskKeeps
  <2>3. CASE StreamForwards(j)
    BY <2>3 DEF StreamForwards, LaneInv, LaneShape, Placed, ByArrival, Live
  <2> QED BY <1>2, <2>1, <2>2, <2>3 DEF Task, TaskCancelled, TaskLate, TaskAnswers,
         StreamFinishes, StreamTimesOut, StreamAbandoned
<1>3. CASE Dispatches
  <2>1. CASE Dequeue
    <3>1. pop_best \in queue /\ pop_best \in Job /\ pc[pop_best] = "queued"
      BY <2>1, PopBest DEF Dequeue, LaneInv, LaneShape, Placed
    <3>2. dpc = "dequeue" /\ queue' = queue \ {pop_best}
      BY <2>1 DEF Dequeue
    <3>3. CASE Gone(pop_best) /\ UNCHANGED <<hand, dpc>>
      <4>1. /\ job' \in [Job -> JobState] /\ pc' \in [Job -> Place] /\ ByArrival'
            /\ \A k \in Job : k # pop_best => pc'[k] = pc[k]
        BY <3>3, GoneKeeps
      <4> QED BY <3>1, <3>2, <3>3, <4>1 DEF LaneInv, LaneShape, Placed
    <3>4. CASE hand' = pop_best /\ dpc' = "permit" /\ UNCHANGED <<pc, job>>
      <4>1. pop_best # None
        BY <3>1, SchedulerAssumption DEF SchedulerAssumption
      <4> QED BY <3>1, <3>2, <3>4, <4>1 DEF LaneInv, LaneShape, Placed, ByArrival, Live
    <3> QED BY <2>1, <3>3, <3>4 DEF Dequeue
  <2>2. CASE FindsEmpty \/ Park \/ Wake \/ BackoffEnds
    <3>1. UNCHANGED <<job, pc, queue, hand>> /\ dpc' \notin {"permit", "rate"}
      BY <2>2 DEF FindsEmpty, Park, Wake, BackoffEnds
    <3> QED BY <3>1 DEF LaneInv, LaneShape, Placed, ByArrival, Live
  <2>3. ASSUME Drops(hand), UNCHANGED queue PROVE LaneInv'
    <3>1. hand' = None /\ dpc' = "dequeue" /\ Gone(hand)
      BY <2>3 DEF Drops
    <3>2. /\ job' \in [Job -> JobState] /\ pc' \in [Job -> Place] /\ ByArrival'
          /\ \A k \in Job : k # hand => pc'[k] = pc[k]
      BY <3>1, GoneKeeps
    <3>3. hand \notin queue
      BY SchedulerAssumption DEF SchedulerAssumption, LaneInv, LaneShape, Placed
    <3> QED BY <2>3, <3>1, <3>2, <3>3 DEF LaneInv, LaneShape, Placed
  <2>4. ASSUME Commits(hand), UNCHANGED queue, hand # None PROVE LaneInv'
    <3>1. hand' = None /\ dpc' = "dequeue" /\ pc' = [pc EXCEPT ![hand] = "spawned"] /\ job' = job
      BY <2>4 DEF Commits
    <3>2. hand \in Job /\ hand \notin queue /\ Live(hand) /\ "spawned" \in Place
      BY <2>4 DEF LaneInv, LaneShape, Placed, Live, Place
    <3>3. /\ job' \in [Job -> JobState] /\ pc' \in [Job -> Place] /\ ByArrival'
          /\ \A k \in Job : k # hand => pc'[k] = pc[k]
      BY <3>1, <3>2, MoveKeeps
    <3> QED BY <2>4, <3>1, <3>2, <3>3 DEF LaneInv, LaneShape, Placed
  <2>5. CASE SendTimeout
    BY <2>3, <2>5 DEF SendTimeout
  <2>6. CASE TakePermit \/ RateGranted
    <3>1. hand # None /\ UNCHANGED queue
      BY <2>6 DEF TakePermit, RateGranted, LaneInv, Placed
    <3>2. CASE dpc' = "rate" /\ UNCHANGED <<hand, pc, job>>
      BY <3>1, <3>2 DEF LaneInv, LaneShape, Placed, ByArrival, Live
    <3> QED BY <2>3, <2>4, <2>6, <3>1, <3>2 DEF TakePermit, RateGranted
  <2>7. ASSUME NEW wait \in Backoff, RateRefused(wait) PROVE LaneInv'
    BY <2>7 DEF RateRefused, Requeues, LaneInv, LaneShape, Placed, ByArrival, Live
  <2>8. CASE expire_and_earliest_deadline
    <3>1. Expiring \subseteq queue
      BY DEF Expiring
    <3>2. /\ queue' = queue \ Expiring /\ AllGone(Expiring)
          /\ UNCHANGED hand /\ dpc' = "backoff"
      BY <2>8 DEF expire_and_earliest_deadline
    <3> QED BY <3>1, <3>2, AllGoneKeeps DEF LaneInv, LaneShape, Placed
  <2> QED BY <1>3, <2>1, <2>2, <2>5, <2>6, <2>7, <2>8 DEF Dispatches
<1>4. CASE SchedulerDropped
  <2>1. queue' = {} /\ hand' = None /\ dpc' = "aborted" /\ AllGone(queue \cup {hand})
    BY <1>4 DEF SchedulerDropped
  <2> QED BY <2>1, AllGoneKeeps DEF LaneInv, LaneShape, Placed
<1>5. CASE Tick
  <2>1. job' = [j \in Job |-> Older(j)] /\ UNCHANGED <<pc, queue, hand, dpc>>
    BY <1>5 DEF Tick
  <2>2. job' \in [Job -> JobState]
    BY <2>1 DEF Older, LaneInv, LaneShape, JobState
  <2>3. ASSUME NEW j \in Job, Live(j)
        PROVE  /\ job'[j].seqno = job[j].seqno
               /\ \/ job'[j].age = job[j].age /\ job'[j].slip = job[j].slip + 1
                  \/ /\ job[j].age < MaxAge /\ job'[j].slip = job[j].slip
                     /\ job'[j].age = job[j].age + 1
                  \/ /\ ~(job[j].age < MaxAge) /\ job'[j].slip = job[j].slip
                     /\ job'[j].age = job[j].age
    BY <2>1, <2>3 DEF Older, LaneInv, LaneShape, JobState
  <2>4. ByArrival'
    <3> SUFFICES ASSUME NEW i \in Job, NEW k \in Job, i # k, Live(i)', Live(k)'
                 PROVE  /\ job'[i].seqno # job'[k].seqno
                        /\ job'[i].seqno < job'[k].seqno =>
                                job'[i].age + job'[i].slip >= job'[k].age
      BY DEF ByArrival
    <3>1. Live(i) /\ Live(k)
      BY <2>1 DEF Live
    <3>2. /\ job[i].seqno # job[k].seqno
          /\ job[i].seqno < job[k].seqno => job[i].age + job[i].slip >= job[k].age
      BY <3>1 DEF LaneInv, ByArrival
    <3>3. /\ job[i].age \in Nat /\ job[k].age \in Nat
          /\ job[i].slip \in Nat /\ job[k].slip \in Nat
      BY DEF LaneInv, LaneShape, JobState
    <3> QED BY <2>3, <3>1, <3>2, <3>3, MaxAgeType
  <2> QED BY <2>1, <2>2, <2>4 DEF LaneInv, LaneShape, Placed
<1>6. CASE UNCHANGED vars
  BY <1>6 DEF vars, LaneInv, LaneShape, Placed, ByArrival, Live
<1> QED BY <1>1, <1>2, <1>3, <1>4, <1>5, <1>6 DEF Next

\* The lane holds what it should, and its jobs are numbered by arrival.
THEOREM LaneInvariant == Spec => []LaneInv
<1>1. Init => LaneInv
  BY SchedulerAssumption DEF SchedulerAssumption, Init, LaneInv, LaneShape, Placed,
     ByArrival, Live, NoJob, JobState, Place
<1> QED BY <1>1, LaneStep, PTL DEF Spec

\* Division rounds down.
LEMMA DivBounds ==
    ASSUME NEW a \in Nat, NEW n \in Nat \ {0}
    PROVE  /\ a \div n \in Nat
           /\ (a \div n) * n <= a
           /\ a <= (a \div n + 1) * n
<1>1. a \div n \in Nat /\ n * (a \div n) <= a /\ a <= n * (a \div n) + n
  OBVIOUS
<1> DEFINE q == a \div n
<1>2. q * n = n * q /\ (q + 1) * n = n * q + n
  <2> HIDE DEF q
  <2> QED BY <1>1 DEF q
<1> QED BY <1>1, <1>2

\* A boost is earned by waiting; a job that is not at the cap has waited no
\* longer than for the next one.
LEMMA BoostBounds ==
    ASSUME LaneShape, NEW j \in Job
    PROVE  /\ Boost(j) * AgingStep <= job[j].age
           /\ Boost(j) < MaxBoost => job[j].age <= (Boost(j) + 1) * AgingStep
<1> DEFINE a == job[j].age
           q == a \div AgingStep
<1>1. a \in Nat /\ AgingStep \in Nat \ {0} /\ MaxBoost \in Nat
  BY PriorityType, SchedulerAssumption DEF SchedulerAssumption
<1>2. Boost(j) = IF q > MaxBoost THEN MaxBoost ELSE q
  BY DEF Boost
<1>3. q \in Nat /\ q * AgingStep <= a /\ a <= (q + 1) * AgingStep
  BY <1>1, DivBounds
<1> HIDE DEF q
<1>4. CASE q > MaxBoost
  <2>1. MaxBoost * AgingStep <= q * AgingStep
    BY <1>1, <1>3, <1>4, Scaled
  <2>2. MaxBoost * AgingStep \in Nat /\ q * AgingStep \in Nat
    BY <1>1, <1>3
  <2> QED BY <1>1, <1>2, <1>3, <1>4, <2>1, <2>2
<1>5. CASE q <= MaxBoost
  BY <1>1, <1>2, <1>3, <1>5
<1> QED BY <1>1, <1>3, <1>4, <1>5

\* The choice of pop_best against a queued job of the same or a lower tier:
\* either the front of that job's tier lost by a whole step of priority, or
\* the chosen job has the earlier number.
LEMMA BestIsFair ==
    ASSUME LaneInv, queue # {}, NEW j \in queue,
           job[pop_best].tier >= job[j].tier,
           job[pop_best].age + (job[pop_best].tier - job[j].tier) * AgingStep
               < MaxBoost * AgingStep
    PROVE  \E i \in queue :
              /\ job[i].seqno <= job[j].seqno
              /\ job[j].age <= job[pop_best].age
                    + (job[pop_best].tier - job[j].tier) * AgingStep + job[i].slip
<1> DEFINE k == pop_best
           gap == job[k].tier - job[j].tier
           worth == job[k].age + gap * AgingStep
<1>1. LaneShape /\ k \in queue /\ k \in Job /\ j \in Job
  BY PopBest DEF LaneInv, LaneShape
<1>2. PICK f \in Fronts : job[f].tier = job[j].tier /\ job[f].seqno <= job[j].seqno
  BY <1>1, TierFront
<1>3. f \in queue /\ f \in Job
  BY <1>1, <1>2 DEF Fronts, LaneShape
<1>4. ASSUME NEW a \in queue, job[a].seqno <= job[j].seqno
      PROVE  job[a].age + job[a].slip >= job[j].age
  <2>1. a \in Job /\ Live(a) /\ Live(j)
    BY DEF LaneInv, LaneShape, Placed, Live
  <2>2. /\ job[a].seqno \in Nat /\ job[j].seqno \in Nat
        /\ job[a].age \in Nat /\ job[a].slip \in Nat
    BY <1>1, <2>1 DEF LaneShape, JobState
  <2>3. CASE a = j
    BY <2>2, <2>3
  <2>4. CASE a # j
    BY <1>1, <1>4, <2>1, <2>2, <2>4 DEF LaneInv, ByArrival
  <2> QED BY <2>3, <2>4
<1>5. \/ effective_priority(k) > effective_priority(f)
      \/ effective_priority(k) = effective_priority(f) /\ job[k].seqno <= job[f].seqno
  BY <1>1, <1>2, PopBest
<1>6. /\ AgingStep \in Nat /\ MaxBoost \in Nat /\ gap \in Nat
      /\ Boost(k) \in Nat /\ Boost(f) \in Nat
      /\ job[j].tier \in Nat /\ job[k].tier \in Nat
      /\ job[j].age \in Nat /\ job[k].age \in Nat /\ job[f].age \in Nat
      /\ job[j].seqno \in Nat /\ job[k].seqno \in Nat /\ job[f].seqno \in Nat
  BY <1>1, <1>3, PriorityType, SchedulerAssumption DEF SchedulerAssumption
<1>7. job[f].slip \in Nat /\ job[k].slip \in Nat /\ gap * AgingStep \in Nat /\ worth \in Nat
  BY <1>1, <1>3, <1>6 DEF LaneShape, JobState
<1>8. CASE effective_priority(k) > effective_priority(f)
  <2>1. Boost(f) + 1 <= Boost(k) + gap
    BY <1>2, <1>6, <1>8 DEF effective_priority
  <2>2. (Boost(f) + 1) * AgingStep <= (Boost(k) + gap) * AgingStep
    BY <1>6, <2>1, Scaled
  <2>3. Boost(k) * AgingStep <= job[k].age
    BY <1>1, BoostBounds
  <2>4. (Boost(k) + gap) * AgingStep = Boost(k) * AgingStep + gap * AgingStep
    <3> HIDE DEF gap, k
    <3> QED BY <1>6
  <2>5. (Boost(f) + 1) * AgingStep \in Nat /\ Boost(k) * AgingStep \in Nat
        /\ MaxBoost * AgingStep \in Nat
    BY <1>6
  <2>6. (Boost(f) + 1) * AgingStep <= worth
    <3> HIDE DEF gap, k
    <3> QED BY <1>6, <1>7, <2>2, <2>3, <2>4, <2>5
  <2>7. Boost(f) < MaxBoost
    <3>1. ASSUME MaxBoost <= Boost(f) PROVE FALSE
      <4>1. MaxBoost * AgingStep <= (Boost(f) + 1) * AgingStep
        BY <1>6, <3>1, Scaled
      <4>2. worth < MaxBoost * AgingStep
        OBVIOUS
      <4> HIDE DEF worth
      <4> QED BY <1>7, <2>5, <2>6, <4>1, <4>2
    <3> QED BY <1>6, <3>1
  <2>8. job[f].age <= (Boost(f) + 1) * AgingStep
    BY <1>1, <1>3, <2>7, BoostBounds
  <2>9. job[f].age + job[f].slip >= job[j].age
    BY <1>2, <1>3, <1>4
  <2>10. job[j].age <= worth + job[f].slip
    <3> HIDE DEF worth
    <3> QED BY <1>6, <1>7, <2>5, <2>6, <2>8, <2>9
  <2> QED BY <1>2, <1>3, <2>10
<1>9. CASE effective_priority(k) = effective_priority(f) /\ job[k].seqno <= job[f].seqno
  <2>1. job[k].seqno <= job[j].seqno
    BY <1>2, <1>6, <1>9
  <2>2. job[k].age + job[k].slip >= job[j].age
    BY <1>1, <1>4, <2>1
  <2>3. job[j].age <= worth + job[k].slip
    <3> HIDE DEF gap, k
    <3> QED BY <1>6, <1>7, <2>2
  <2> QED BY <1>1, <2>1, <2>3
<1> QED BY <1>5, <1>8, <1>9

\* However the queue is filled, aged and put back into, the dispatcher takes no
\* job ahead of one that has waited longer than the wait and the tiers between
\* them are worth below the cap, but for a caller held up on its way (pop_best).
THEOREM StarvationBoundedHolds == Spec => StarvationBounded
<1> DEFINE Fair == \A j \in queue, k \in queue :
              LET gap == job[k].tier - job[j].tier
                  worth == job[k].age + gap * AgingStep
              IN hand # k /\ hand' = k /\ j # k /\ gap >= 0
                 /\ worth < MaxBoost * AgingStep =>
                    \E i \in queue : /\ job[i].seqno <= job[j].seqno
                                     /\ job[j].age <= worth + job[i].slip
<1>1. LaneInv /\ [Next]_vars => [Fair]_vars
  <2> SUFFICES ASSUME LaneInv, [Next]_vars, NEW j \in queue, NEW k \in queue,
                      hand # k, hand' = k, j # k, job[k].tier - job[j].tier >= 0,
                      job[k].age + (job[k].tier - job[j].tier) * AgingStep
                          < MaxBoost * AgingStep
               PROVE  \E i \in queue :
                         /\ job[i].seqno <= job[j].seqno
                         /\ job[j].age <= job[k].age
                               + (job[k].tier - job[j].tier) * AgingStep + job[i].slip
    OBVIOUS
  <2>1. hand' # hand /\ hand' # None
    BY SchedulerAssumption DEF SchedulerAssumption, LaneInv, LaneShape
  <2>2. Dequeue
    <3>1. \A i \in Job : Calls(i) => hand' = hand
      BY DEF Calls, Draws, Arrives, Overloaded, Enqueue, WaitTimesOut, CallerLeaves, Reads, lane
    <3>2. \A i \in Job : Task(i) => hand' = hand
      BY DEF Task, TaskCancelled, TaskLate, TaskCalls, TaskAnswers, StreamOpens,
         StreamForwards, StreamFinishes, StreamTimesOut, StreamAbandoned, lane
    <3>3. Dispatches => Dequeue \/ hand' = hand \/ hand' = None
      BY DEF Dispatches, FindsEmpty, Park, Wake, SendTimeout, TakePermit, RateGranted,
         RateRefused, Requeues, expire_and_earliest_deadline, BackoffEnds, Drops, Commits
    <3>4. SchedulerDropped \/ Tick \/ UNCHANGED vars => hand' = hand \/ hand' = None
      BY DEF SchedulerDropped, Tick, vars, lane
    <3> QED BY <2>1, <3>1, <3>2, <3>3, <3>4 DEF Next
  <2>3. k = pop_best
    BY <2>1, <2>2 DEF Dequeue
  <2>4. job[k].tier \in Nat /\ job[j].tier \in Nat
    BY PriorityType DEF LaneInv, LaneShape
  <2>5. job[k].tier >= job[j].tier
    BY <2>4
  <2> QED BY <2>3, <2>5, BestIsFair
<1> QED BY <1>1, LaneInvariant, PTL DEF Spec, StarvationBounded
=============================================================================
