----------------------- MODULE DistributedQueueProofs -----------------------
(***************************************************************************)
(* The store and the gateway of DistributedQueue for any number of jobs,   *)
(* deliveries, faults and late calls.                                      *)
(*                                                                         *)
(* First the store alone, as Lifecycle specifies it: its types, its indexes*)
(* and counters, its refinement of JobVerdict and what it publishes.  Then *)
(* its clients, which use it only through its scripts: every behaviour of  *)
(* the gateway is a behaviour of Lifecycle, so what is proved of the store *)
(* holds of the whole gateway.  On that rest the theorems about origins: a *)
(* result that was answered is the verdict (ResultIsVerdict), a disarmed   *)
(* guard covers a settled job (GuardCovers) and a stream that ended well is*)
(* whole (StreamWhole); and the bound on provider calls (DispatchesBounded).*)
(***************************************************************************)
EXTENDS DistributedQueue, UnitsProofs

-----------------------------------------------------------------------------
(***************************************************************************)
(* Type correctness.                                                       *)
(***************************************************************************)

\* The initial store is well typed.
LEMMA InitTypeOK == Init => TypeOK
BY ConstantsAssumption
   DEF Init, TypeOK, ConstantsAssumption, States, Envelope, NoEnvelope, Message

\* No script, no reaper step and no passing of time takes the store out of its types.
LEMMA NextTypeOK == TypeOK /\ [Next]_vars => TypeOK'
<1> SUFFICES ASSUME TypeOK, [Next]_vars PROVE TypeOK'
  OBVIOUS
<1> USE ConstantsAssumption DEF TypeOK, ConstantsAssumption, States, Envelope,
        NoEnvelope, Become, NewDeadline, metaVars, resVars, leaseVars, counters, history
<1>1. ASSUME NEW j \in Job, OriginStep(j) PROVE TypeOK'
  <2>1. CASE Reserve(j) BY <2>1 DEF Reserve
  <2>2. CASE Activate(j) BY <2>2 DEF Activate
  <2>3. CASE CancelProcessing(j) BY <2>3 DEF CancelProcessing, Emit, Fixed, Message
  <2>4. CASE CancelUnleased(j)
    BY <2>4 DEF CancelUnleased, EndUnleased, Emit, Fixed, Message
  <2>5. CASE OriginHeartbeat(j) BY <2>5 DEF OriginHeartbeat
  <2>6. CASE MarkCanceled(j) BY <2>6 DEF MarkCanceled
  <2> QED BY <1>1, <2>1, <2>2, <2>3, <2>4, <2>5, <2>6 DEF OriginStep
<1>2. ASSUME NEW j \in Job, ReaperStep(j) PROVE TypeOK'
  <2>1. CASE ExpireOriginProcessing(j)
    BY <2>1 DEF ExpireOriginProcessing, CancelProcessing, Emit, Fixed, Message
  <2>2. CASE ExpireOriginUnleased(j)
    BY <2>2 DEF ExpireOriginUnleased, EndUnleased, Emit, Fixed, Message
  <2>3. CASE ExpireOriginStale(j) BY <2>3 DEF ExpireOriginStale
  <2>4. CASE CleanupPostpone(j) BY <2>4 DEF CleanupPostpone
  <2>5. CASE CleanupRelease(j) BY <2>5 DEF CleanupRelease, Discharge, DropLease
  <2>6. CASE ReapCanceled(j) BY <2>6 DEF ReapCanceled, End, DropLease
  <2>7. CASE ReapRequeue(j) BY <2>7 DEF ReapRequeue, DropLease
  <2>8. CASE ReapOrphan(j) BY <2>8 DEF ReapOrphan, DropLease
  <2> QED BY <1>2, <2>1, <2>2, <2>3, <2>4, <2>5, <2>6, <2>7, <2>8 DEF ReaperStep
<1>3. ASSUME NEW j \in Job, TimeStep(j) PROVE TypeOK'
  <2>1. CASE LeaseElapses(j) BY <2>1 DEF LeaseElapses
  <2>2. CASE OriginElapses(j) BY <2>2 DEF OriginElapses
  <2>3. CASE ExpiryElapses(j) BY <2>3 DEF ExpiryElapses
  <2>4. CASE MetaHardExpires(j) BY <2>4 DEF MetaHardExpires
  <2> QED BY <1>3, <2>1, <2>2, <2>3, <2>4 DEF TimeStep
<1>4. ASSUME NEW j \in Job, NEW t \in Token, WorkerStep(j, t) PROVE TypeOK'
  <2>1. CASE LeaseDiscards(j) BY <2>1 DEF LeaseDiscards
  <2>2. CASE Lease(j, t) BY <2>2 DEF Lease, LeaseCharge
  <2>3. CASE Ack(j, t) BY <2>3 DEF Ack, DropLease
  <2>4. CASE Release(j, t) BY <2>4 DEF Release, DropLease
  <2>5. CASE Refresh(j, t) BY <2>5 DEF Refresh
  <2>6. CASE Publish(j, t) BY <2>6 DEF Publish, Emit, Message
  <2>7. ASSUME NEW envelope \in {"result", "error"}, NEW n \in 1..Headroom,
               TerminalPublishComplete(j, t, envelope, n)
        PROVE TypeOK'
    BY <2>7 DEF TerminalPublishComplete, End, DropLease, Emit, Message
  <2>8. CASE TerminalPublishCanceled(j, t)
    BY <2>8 DEF TerminalPublishCanceled, End, DropLease, Emit, Fixed, Message
  <2>9. CASE DeadLetterCanceled(j, t)
    BY <2>9 DEF DeadLetterCanceled, End, DropLease, Emit, Fixed, Message
  <2>10. CASE DeadLetterOverflow(j, t)
    BY <2>10 DEF DeadLetterOverflow, End, DropLease, Emit, Fixed, Message
  <2>11. CASE DeadLetter(j, t)
    BY <2>11 DEF DeadLetter, DropLease, Emit, Fixed, Message
  <2> QED BY <1>4, <2>1, <2>2, <2>3, <2>4, <2>5, <2>6, <2>7, <2>8, <2>9, <2>10, <2>11
          DEF WorkerStep
<1>5. CASE UNCHANGED vars BY <1>5 DEF vars
<1> QED BY <1>1, <1>2, <1>3, <1>4, <1>5 DEF Next

\* Every reachable store is well typed, for any jobs, tokens and limits.
THEOREM TypeCorrect == Spec => []TypeOK
BY InitTypeOK, NextTypeOK, PTL DEF Spec

-----------------------------------------------------------------------------
(***************************************************************************)
(* The indexes agree.  IndexAgreement and NothingUnindexed support each    *)
(* other (a fresh member is in no index because it holds no reservation),  *)
(* and need two facts the runs do not ask for: a reservation belongs to an *)
(* issued member, and absent metadata has left nothing behind.             *)
(***************************************************************************)

Remnants ==
    \A j \in Job :
        /\ j \in reserved => j \in issued
        /\ meta[j] = "absent" => ~cancel[j] /\ charge[j] = 0

Indexes == TypeOK /\ IndexAgreement /\ NothingUnindexed /\ Remnants

\* The empty store satisfies the invariant.
LEMMA InitIndexes == Init => Indexes
BY InitTypeOK DEF Init, Indexes, IndexAgreement, NothingUnindexed, Remnants, NoEnvelope

\* Every script keeps the sorted sets, hashes and metadata in agreement.
LEMMA NextIndexes == Indexes /\ [Next]_vars => Indexes'
<1> SUFFICES ASSUME Indexes, [Next]_vars,
                    IndexAgreement, NothingUnindexed, Remnants, TypeOK, TypeOK'
             PROVE IndexAgreement' /\ NothingUnindexed' /\ Remnants'
  BY NextTypeOK DEF Indexes
<1> USE ConstantsAssumption DEF ConstantsAssumption, TypeOK, IndexAgreement,
        NothingUnindexed, Remnants, NoEnvelope, Envelope, Become, NewDeadline,
        DropLease, SameGeneration, metaVars, resVars, leaseVars, counters, history
<1> DEFINE Goal == IndexAgreement' /\ NothingUnindexed' /\ Remnants'
<1>1. ASSUME NEW j \in Job, OriginStep(j) PROVE Goal
  <2>1. CASE Reserve(j) BY <2>1 DEF Reserve
  <2>2. CASE Activate(j) BY <2>2 DEF Activate
  <2>3. CASE CancelProcessing(j) BY <2>3 DEF CancelProcessing
  <2>4. CASE CancelUnleased(j) BY <2>4 DEF CancelUnleased, EndUnleased
  <2>5. CASE OriginHeartbeat(j) BY <2>5 DEF OriginHeartbeat, Live
  <2>6. CASE MarkCanceled(j) BY <2>6 DEF MarkCanceled
  <2> QED BY <1>1, <2>1, <2>2, <2>3, <2>4, <2>5, <2>6 DEF OriginStep
<1>2. ASSUME NEW j \in Job, ReaperStep(j) PROVE Goal
  <2>1. CASE ExpireOriginProcessing(j)
    BY <2>1 DEF ExpireOriginProcessing, CancelProcessing
  <2>2. CASE ExpireOriginUnleased(j) BY <2>2 DEF ExpireOriginUnleased, EndUnleased
  <2>3. CASE ExpireOriginStale(j) BY <2>3 DEF ExpireOriginStale
  <2>4. CASE CleanupPostpone(j) BY <2>4 DEF CleanupPostpone
  <2>5. CASE CleanupRelease(j) BY <2>5 DEF CleanupRelease, Discharge
  <2>6. CASE ReapCanceled(j) BY <2>6 DEF ReapCanceled, End
  <2>7. CASE ReapRequeue(j) BY <2>7 DEF ReapRequeue, Canceled, OriginExpired
  <2>8. CASE ReapOrphan(j) BY <2>8 DEF ReapOrphan
  <2> QED BY <1>2, <2>1, <2>2, <2>3, <2>4, <2>5, <2>6, <2>7, <2>8 DEF ReaperStep
<1>3. ASSUME NEW j \in Job, TimeStep(j) PROVE Goal
  <2>1. CASE LeaseElapses(j) BY <2>1 DEF LeaseElapses
  <2>2. CASE OriginElapses(j) BY <2>2 DEF OriginElapses
  <2>3. CASE ExpiryElapses(j) BY <2>3 DEF ExpiryElapses
  <2>4. CASE MetaHardExpires(j) BY <2>4 DEF MetaHardExpires
  <2> QED BY <1>3, <2>1, <2>2, <2>3, <2>4 DEF TimeStep
<1>4. ASSUME NEW j \in Job, NEW t \in Token, WorkerStep(j, t) PROVE Goal
  <2>1. CASE LeaseDiscards(j) BY <2>1 DEF LeaseDiscards
  <2>2. CASE Lease(j, t) BY <2>2 DEF Lease, LeaseCharge, AtHead
  <2>3. CASE Ack(j, t) BY <2>3 DEF Ack
  <2>4. CASE Release(j, t) BY <2>4 DEF Release
  <2>5. CASE Refresh(j, t) BY <2>5 DEF Refresh
  <2>6. CASE Publish(j, t) BY <2>6 DEF Publish
  <2>7. ASSUME NEW envelope \in {"result", "error"}, NEW n \in 1..Headroom,
               TerminalPublishComplete(j, t, envelope, n)
        PROVE Goal
    BY <2>7 DEF TerminalPublishComplete, Owns, End
  <2>8. CASE TerminalPublishCanceled(j, t)
    BY <2>8 DEF TerminalPublishCanceled, Owns, End
  <2>9. CASE DeadLetterCanceled(j, t) BY <2>9 DEF DeadLetterCanceled, Owns, End
  <2>10. CASE DeadLetterOverflow(j, t) BY <2>10 DEF DeadLetterOverflow, Owns, End
  <2>11. CASE DeadLetter(j, t) BY <2>11 DEF DeadLetter, Owns
  <2> QED BY <1>4, <2>1, <2>2, <2>3, <2>4, <2>5, <2>6, <2>7, <2>8, <2>9, <2>10, <2>11
          DEF WorkerStep
<1>5. CASE UNCHANGED vars BY <1>5 DEF vars
<1> QED BY <1>1, <1>2, <1>3, <1>4, <1>5 DEF Next

\* The inductive invariant holds in every reachable store.
THEOREM IndexesInvariant == Spec => []Indexes
BY InitIndexes, NextIndexes, PTL DEF Spec

\* The queue, the leases, the dead-letter set and the metadata never disagree
\* about where a job is.
THEOREM IndexesAgree == Spec => []IndexAgreement
BY IndexesInvariant, PTL DEF Indexes

\* Everything recorded about a job is reachable from its reservation.
THEOREM NothingLost == Spec => []NothingUnindexed
BY IndexesInvariant, PTL DEF Indexes

-----------------------------------------------------------------------------
(***************************************************************************)
(* The job counter.  Only Reserve and CleanupRelease touch it or the       *)
(* reservations, always together.                                          *)
(***************************************************************************)

\* A step changes neither the counter nor the reservations, or both by one job.
LEMMA JobsStep ==
    ASSUME TypeOK, [Next]_vars
    PROVE  \/ UNCHANGED <<jobs, reserved>>
           \/ \E j \in Job : /\ j \notin issued /\ jobs < MaxJobs
                             /\ reserved' = reserved \cup {j} /\ jobs' = jobs + 1
           \/ \E j \in Job : /\ j \in reserved
                             /\ reserved' = reserved \ {j} /\ jobs' = jobs - 1
<1> DEFINE Goal ==
      \/ UNCHANGED <<jobs, reserved>>
      \/ \E j \in Job : /\ j \notin issued /\ jobs < MaxJobs
                        /\ reserved' = reserved \cup {j} /\ jobs' = jobs + 1
      \/ \E j \in Job : /\ j \in reserved
                        /\ reserved' = reserved \ {j} /\ jobs' = jobs - 1
<1>1. ASSUME NEW j \in Job, OriginStep(j) PROVE Goal
  BY <1>1 DEF OriginStep, Reserve, HasCapacity, Activate, CancelProcessing,
       CancelUnleased, EndUnleased, OriginHeartbeat, MarkCanceled, counters, resVars
<1>2. ASSUME NEW j \in Job, ReaperStep(j) PROVE Goal
  BY <1>2 DEF ReaperStep, ExpireOriginProcessing, CancelProcessing,
       ExpireOriginUnleased, EndUnleased, ExpireOriginStale, CleanupPostpone,
       CleanupRelease, Discharge, ReapCanceled, ReapRequeue, ReapOrphan, counters, resVars
<1>3. ASSUME NEW j \in Job, TimeStep(j) PROVE Goal
  BY <1>3 DEF TimeStep, LeaseElapses, OriginElapses, ExpiryElapses,
       MetaHardExpires, counters, resVars
<1>4. ASSUME NEW j \in Job, NEW t \in Token, WorkerStep(j, t) PROVE Goal
  BY <1>4 DEF WorkerStep, LeaseDiscards, Lease, Ack, Release, Refresh, Publish,
       TerminalPublishComplete, TerminalPublishCanceled, DeadLetterCanceled,
       DeadLetterOverflow, DeadLetter, counters, resVars
<1>5. CASE UNCHANGED vars BY <1>5 DEF vars, counters, resVars
<1> QED BY <1>1, <1>2, <1>3, <1>4, <1>5 DEF Next

\* The job counter is the number of reservations and respects its limit.
THEOREM JobsCountedHolds == Spec => []JobsCounted
<1>1. Init => JobsCounted
  BY FS_EmptySet, ConstantsAssumption DEF Init, JobsCounted, ConstantsAssumption
<1>2. JobsCounted /\ Indexes /\ [Next]_vars => JobsCounted'
  <2> SUFFICES ASSUME JobsCounted, Indexes, [Next]_vars PROVE JobsCounted'
    OBVIOUS
  <2>1. IsFiniteSet(reserved)
    BY FS_Subset, ConstantsAssumption DEF Indexes, TypeOK, ConstantsAssumption
  <2>2. TypeOK BY DEF Indexes
  <2>3. CASE UNCHANGED <<jobs, reserved>> BY <2>3 DEF JobsCounted
  <2>4. ASSUME NEW j \in Job, j \notin issued, jobs < MaxJobs,
               reserved' = reserved \cup {j}, jobs' = jobs + 1
        PROVE JobsCounted'
    <3>1. j \notin reserved BY <2>4 DEF Indexes, Remnants
    <3>2. Cardinality(reserved') = Cardinality(reserved) + 1
      BY <2>1, <2>4, <3>1, FS_AddElement
    <3> QED BY <2>2, <2>4, <3>2, ConstantsAssumption
            DEF JobsCounted, TypeOK, ConstantsAssumption
  <2>5. ASSUME NEW j \in Job, j \in reserved,
               reserved' = reserved \ {j}, jobs' = jobs - 1
        PROVE JobsCounted'
    <3>1. Cardinality(reserved') = Cardinality(reserved) - 1
      BY <2>1, <2>5, FS_RemoveElement
    <3> QED BY <2>2, <2>5, <3>1, ConstantsAssumption
            DEF JobsCounted, TypeOK, ConstantsAssumption
  <2> QED BY <2>2, <2>3, <2>4, <2>5, JobsStep
<1> QED BY <1>1, <1>2, IndexesInvariant, PTL DEF Spec

-----------------------------------------------------------------------------
(***************************************************************************)
(* The byte counters.  A script prices the terminal bytes it returns by    *)
(* the metadata's terminal_charge, cleanup by the reservation index: they  *)
(* agree on every live job (not on a canceled one, whose headroom stays in *)
(* the index until cleanup), and a job in processing holds a whole         *)
(* headroom.                                                               *)
(***************************************************************************)

Charged ==
    \A j \in Job :
        /\ state[j] \in Live => charge[j] = rterm[j] /\ charge[j] \in {0, Headroom}
        /\ state[j] = "processing" => charge[j] = Headroom
        /\ j \notin reserved => rterm[j] = 0

\* Every script keeps the metadata's charge and the index's in step.
LEMMA NextCharged == Indexes /\ Charged /\ [Next]_vars => Charged'
<1> SUFFICES ASSUME Indexes, Charged, [Next]_vars,
                    IndexAgreement, NothingUnindexed, Remnants, TypeOK
             PROVE Charged'
  BY DEF Indexes
<1> USE ConstantsAssumption DEF ConstantsAssumption, TypeOK, Charged, Live, Become,
        SameGeneration, metaVars, resVars, history
<1>1. ASSUME NEW j \in Job, OriginStep(j) PROVE Charged'
  <2>1. CASE Reserve(j)
    <3>1. charge[j] = 0
      BY <2>1 DEF Reserve, Remnants, NothingUnindexed
    <3> QED BY <2>1, <3>1 DEF Reserve
  <2>2. CASE Activate(j) BY <2>2 DEF Activate
  <2>3. CASE CancelProcessing(j) BY <2>3 DEF CancelProcessing
  <2>4. CASE CancelUnleased(j) BY <2>4 DEF CancelUnleased, EndUnleased
  <2>5. CASE OriginHeartbeat(j) BY <2>5 DEF OriginHeartbeat
  <2>6. CASE MarkCanceled(j) BY <2>6 DEF MarkCanceled
  <2> QED BY <1>1, <2>1, <2>2, <2>3, <2>4, <2>5, <2>6 DEF OriginStep
<1>2. ASSUME NEW j \in Job, ReaperStep(j) PROVE Charged'
  <2>1. CASE ExpireOriginProcessing(j)
    BY <2>1 DEF ExpireOriginProcessing, CancelProcessing
  <2>2. CASE ExpireOriginUnleased(j) BY <2>2 DEF ExpireOriginUnleased, EndUnleased
  <2>3. CASE ExpireOriginStale(j) BY <2>3 DEF ExpireOriginStale
  <2>4. CASE CleanupPostpone(j) BY <2>4 DEF CleanupPostpone
  <2>5. CASE CleanupRelease(j) BY <2>5 DEF CleanupRelease, Discharge
  <2>6. CASE ReapCanceled(j)
    BY <2>6 DEF ReapCanceled, End, IndexAgreement, NothingUnindexed
  <2>7. CASE ReapRequeue(j) BY <2>7 DEF ReapRequeue, IndexAgreement
  <2>8. CASE ReapOrphan(j) BY <2>8 DEF ReapOrphan
  <2> QED BY <1>2, <2>1, <2>2, <2>3, <2>4, <2>5, <2>6, <2>7, <2>8 DEF ReaperStep
<1>3. ASSUME NEW j \in Job, TimeStep(j) PROVE Charged'
  BY <1>3 DEF TimeStep, LeaseElapses, OriginElapses, ExpiryElapses, MetaHardExpires
<1>4. ASSUME NEW j \in Job, NEW t \in Token, WorkerStep(j, t) PROVE Charged'
  <2>0. j \in proc \/ owner[j] = t => j \in reserved
    BY DEF IndexAgreement, NothingUnindexed
  <2>1. CASE LeaseDiscards(j) BY <2>1 DEF LeaseDiscards
  <2>2. CASE Lease(j, t)
    BY <2>2 DEF Lease, LeaseCharge, AtHead, NothingUnindexed
  <2>3. CASE Ack(j, t) BY <2>3 DEF Ack
  <2>4. CASE Release(j, t) BY <2>4 DEF Release
  <2>5. CASE Refresh(j, t) BY <2>5 DEF Refresh
  <2>6. CASE Publish(j, t) BY <2>6 DEF Publish
  <2>7. ASSUME NEW envelope \in {"result", "error"}, NEW n \in 1..Headroom,
               TerminalPublishComplete(j, t, envelope, n)
        PROVE Charged'
    BY <2>0, <2>7 DEF TerminalPublishComplete, Owns, End
  <2>8. CASE TerminalPublishCanceled(j, t)
    BY <2>0, <2>8 DEF TerminalPublishCanceled, Owns, End
  <2>9. CASE DeadLetterCanceled(j, t) BY <2>9 DEF DeadLetterCanceled, End
  <2>10. CASE DeadLetterOverflow(j, t) BY <2>10 DEF DeadLetterOverflow, End
  <2>11. CASE DeadLetter(j, t) BY <2>11 DEF DeadLetter
  <2> QED BY <1>4, <2>1, <2>2, <2>3, <2>4, <2>5, <2>6, <2>7, <2>8, <2>9, <2>10, <2>11
          DEF WorkerStep
<1>5. CASE UNCHANGED vars BY <1>5 DEF vars
<1> QED BY <1>1, <1>2, <1>3, <1>4, <1>5 DEF Next

\* What the byte counters and the indexes behind them do in a step of job j.
ReservesBytes(j) ==
    /\ j \notin issued /\ baseBytes + BaseCharge <= MaxBaseBytes
    /\ reserved' = reserved \cup {j} /\ baseBytes' = baseBytes + BaseCharge
    /\ rterm' = [rterm EXCEPT ![j] = 0] /\ UNCHANGED <<dlq, termBytes, dlqBytes>>
ReturnsBytes(j) ==
    /\ j \in reserved
    /\ reserved' = reserved \ {j} /\ baseBytes' = baseBytes - BaseCharge
    /\ rterm' = [rterm EXCEPT ![j] = 0] /\ termBytes' = termBytes - rterm[j]
    /\ dlq' = dlq \ {j}
    /\ dlqBytes' = IF j \in dlq THEN dlqBytes - BaseCharge ELSE dlqBytes
ChargesBytes(j) ==
    \E v \in 0..Headroom :
        /\ v <= rterm[j] \/ termBytes + v - rterm[j] <= MaxTerminalBytes
        /\ rterm' = [rterm EXCEPT ![j] = v] /\ termBytes' = termBytes + v - rterm[j]
        /\ UNCHANGED <<reserved, dlq, baseBytes, dlqBytes>>
ParksBytes(j) ==
    /\ j \notin dlq /\ dlqBytes + BaseCharge <= MaxDlqBytes
    /\ rterm' = [rterm EXCEPT ![j] = 0] /\ termBytes' = termBytes - rterm[j]
    /\ dlq' = dlq \cup {j} /\ dlqBytes' = dlqBytes + BaseCharge
    /\ UNCHANGED <<reserved, baseBytes>>

\* Every step moves the bytes of at most one job, in one of four ways.
LEMMA BytesStep ==
    ASSUME Indexes, Charged, [Next]_vars
    PROVE  \/ UNCHANGED <<reserved, dlq, rterm, baseBytes, termBytes, dlqBytes>>
           \/ \E j \in Job : ReservesBytes(j) \/ ReturnsBytes(j) \/ ChargesBytes(j)
                                \/ ParksBytes(j)
<1> DEFINE Same == UNCHANGED <<reserved, dlq, rterm, baseBytes, termBytes, dlqBytes>>
<1> USE DEF resVars, counters
<1>0. /\ Headroom \in Nat \ {0} /\ CancelLen \in 1..Headroom
      /\ termBytes \in Int /\ dlqBytes \in Int /\ BaseCharge \in Nat /\ MaxDlqBytes \in Nat
      /\ charge \in [Job -> 0..Headroom] /\ rterm \in [Job -> 0..Headroom]
  BY ConstantsAssumption DEF ConstantsAssumption, Indexes, TypeOK
<1>1. ASSUME NEW j \in Job, OriginStep(j) PROVE Same \/ ReservesBytes(j)
  BY <1>1 DEF OriginStep, Reserve, HasCapacity, Activate, CancelProcessing,
       CancelUnleased, EndUnleased, OriginHeartbeat, MarkCanceled, ReservesBytes
<1>2. ASSUME NEW j \in Job, ReaperStep(j) PROVE Same \/ ReturnsBytes(j) \/ ChargesBytes(j)
  <2>1. CASE CleanupRelease(j)
    BY <2>1 DEF CleanupRelease, Discharge, ReturnsBytes
  <2>2. CASE ReapCanceled(j)
    <3>1. state[j] = "processing"
      BY <2>2 DEF ReapCanceled, SameGeneration, Indexes, IndexAgreement
    <3>2. charge[j] = Headroom /\ rterm[j] = Headroom
      BY <3>1 DEF Charged, Live
    <3>3. /\ rterm' = [rterm EXCEPT ![j] = CancelLen]
          /\ termBytes' = termBytes + CancelLen - rterm[j]
          /\ UNCHANGED <<reserved, dlq, baseBytes, dlqBytes>>
      BY <1>0, <2>2, <3>2 DEF ReapCanceled, End
    <3>4. CancelLen \in 0..Headroom /\ CancelLen <= rterm[j]
      BY <1>0, <3>2
    <3> QED BY <3>3, <3>4 DEF ChargesBytes
  <2>3. CASE ~CleanupRelease(j) /\ ~ReapCanceled(j)
    BY <1>2, <2>3 DEF ReaperStep, ExpireOriginProcessing, CancelProcessing,
       ExpireOriginUnleased, EndUnleased, ExpireOriginStale, CleanupPostpone,
       ReapRequeue, ReapOrphan
  <2> QED BY <2>1, <2>2, <2>3
<1>3. ASSUME NEW j \in Job, TimeStep(j) PROVE Same
  BY <1>3 DEF TimeStep, LeaseElapses, OriginElapses, ExpiryElapses, MetaHardExpires
<1>4. ASSUME NEW j \in Job, NEW t \in Token, WorkerStep(j, t)
      PROVE  Same \/ ChargesBytes(j) \/ ParksBytes(j)
  <2>1. owner[j] = t /\ SameGeneration(j) => rterm[j] = charge[j] /\ j \notin dlq
    <3>1. t # NoToken
      BY ConstantsAssumption DEF ConstantsAssumption
    <3> QED BY <3>1 DEF SameGeneration, Indexes, IndexAgreement, Charged, Live
  <2>free. ASSUME rterm' = [rterm EXCEPT ![j] = 0], termBytes' = termBytes - rterm[j],
                UNCHANGED <<reserved, dlq, baseBytes, dlqBytes>>
         PROVE  ChargesBytes(j)
    <3>1. 0 \in 0..Headroom /\ 0 <= rterm[j] /\ termBytes' = termBytes + 0 - rterm[j]
      BY <1>0, <2>free
    <3> QED BY <2>free, <3>1 DEF ChargesBytes
  <2>2. CASE Lease(j, t)
    <3>1. rterm[j] = charge[j] /\ charge[j] \in {0, Headroom}
      BY <2>2 DEF Lease, Charged, Live
    <3>2. LeaseCharge(j) = Headroom - charge[j]
      BY <1>0, <3>1 DEF LeaseCharge
    <3>3. charge[j] + LeaseCharge(j) = Headroom
      BY <1>0, <3>2
    <3>4. /\ rterm' = [rterm EXCEPT ![j] = Headroom]
          /\ termBytes' = termBytes + Headroom - rterm[j]
          /\ UNCHANGED <<reserved, dlq, baseBytes, dlqBytes>>
      BY <1>0, <2>2, <3>1, <3>2, <3>3 DEF Lease
    <3>5. Headroom <= rterm[j] \/ termBytes + Headroom - rterm[j] <= MaxTerminalBytes
      BY <1>0, <2>2, <3>1, <3>2 DEF Lease
    <3>6. Headroom \in 0..Headroom
      BY <1>0
    <3> QED BY <3>4, <3>5, <3>6 DEF ChargesBytes
  <2>3. CASE Release(j, t)
    <3>1. /\ rterm' = [rterm EXCEPT ![j] = 0] /\ termBytes' = termBytes - rterm[j]
          /\ UNCHANGED <<reserved, dlq, baseBytes, dlqBytes>>
      BY <2>1, <2>3 DEF Release
    <3> QED BY <3>1, <2>free
  <2>4. ASSUME NEW envelope \in {"result", "error"}, NEW n \in 1..Headroom,
               TerminalPublishComplete(j, t, envelope, n)
        PROVE ChargesBytes(j)
    <3>1. n \in 0..Headroom /\ n <= rterm[j]
      BY <1>0, <2>1, <2>4 DEF TerminalPublishComplete, Owns
    <3> QED BY <2>1, <2>4, <3>1 DEF TerminalPublishComplete, Owns, End, ChargesBytes
  <2>5. CASE TerminalPublishCanceled(j, t)
    <3>1. CancelLen \in 0..Headroom /\ CancelLen <= rterm[j]
      BY <1>0, <2>1, <2>5 DEF TerminalPublishCanceled, Owns
    <3> QED BY <2>1, <2>5, <3>1 DEF TerminalPublishCanceled, Owns, End, ChargesBytes
  <2>6. CASE DeadLetterCanceled(j, t)
    <3>1. /\ rterm' = [rterm EXCEPT ![j] = 0] /\ termBytes' = termBytes - rterm[j]
          /\ UNCHANGED <<reserved, dlq, baseBytes, dlqBytes>>
      BY <2>1, <2>6 DEF DeadLetterCanceled, Owns, End
    <3> QED BY <3>1, <2>free
  <2>7. CASE DeadLetterOverflow(j, t)
    <3>1. /\ rterm' = [rterm EXCEPT ![j] = 0] /\ termBytes' = termBytes - rterm[j]
          /\ UNCHANGED <<reserved, dlq, baseBytes, dlqBytes>>
      BY <2>1, <2>7 DEF DeadLetterOverflow, Owns, End
    <3> QED BY <3>1, <2>free
  <2>8. CASE DeadLetter(j, t)
    BY <1>0, <2>1, <2>8 DEF DeadLetter, Owns, DlqOverflow, ParksBytes
  <2>9. CASE LeaseDiscards(j) \/ Ack(j, t) \/ Refresh(j, t) \/ Publish(j, t)
    BY <2>9 DEF LeaseDiscards, Ack, Refresh, Publish
  <2> QED BY <1>4, <2>2, <2>3, <2>4, <2>5, <2>6, <2>7, <2>8, <2>9 DEF WorkerStep
<1>5. CASE UNCHANGED vars BY <1>5 DEF vars
<1> QED BY <1>1, <1>2, <1>3, <1>4, <1>5 DEF Next

\* Charging one job for v bytes instead of its own moves the sum by the
\* difference.
LEMMA IndexSum ==
    ASSUME TypeOK, NEW j \in Job, NEW v \in 0..Headroom,
           rterm' = [rterm EXCEPT ![j] = v]
    PROVE  /\ SumOf(rterm) \in Nat
           /\ SumOf(rterm') = SumOf(rterm) - rterm[j] + v
<1>1. Headroom \in Nat /\ IsFiniteSet(Job)
  BY ConstantsAssumption DEF ConstantsAssumption
<1>2. DOMAIN rterm = Job /\ \A k \in Job : rterm[k] \in Nat
  BY <1>1 DEF TypeOK
<1>3. Summable(rterm)
  BY <1>1, <1>2 DEF Summable
<1>4. /\ DOMAIN rterm' = DOMAIN rterm /\ rterm'[j] = v /\ v \in Nat
      /\ \A k \in DOMAIN rterm \ {j} : rterm'[k] = rterm[k]
  BY <1>1, <1>2 DEF TypeOK
<1>5. SumOf(rterm) \in Nat
  BY <1>3, SumType
<1>6. SumOf(rterm') = SumOf(rterm) - rterm[j] + rterm'[j]
  BY <1>2, <1>3, <1>4, SumChange
<1> QED BY <1>4, <1>5, <1>6

\* The byte counters are what the reservation indexes hold, and no pool is
\* overdrawn, whatever the order of leases, releases, reaps, cancellations
\* and cleanups.
THEOREM BytesConservedHolds == Spec => []BytesConserved
<1>1. Init => BytesConserved /\ Charged
  <2> SUFFICES ASSUME Init PROVE BytesConserved /\ Charged
    OBVIOUS
  <2>1. Summable(rterm) /\ \A j \in DOMAIN rterm : rterm[j] = 0
    BY ConstantsAssumption DEF ConstantsAssumption, Init, Summable
  <2>2. SumOf(rterm) = 0
    <3>1. UnitsOf(rterm) = {}
      BY <2>1 DEF UnitsOf
    <3> QED BY <3>1, FS_EmptySet DEF SumOf
  <2> QED BY <2>2, FS_EmptySet, ConstantsAssumption
          DEF ConstantsAssumption, Init, BytesConserved, Charged, Live
<1>2. ASSUME Indexes, Charged, BytesConserved, [Next]_vars PROVE BytesConserved'
  <2>1. /\ TypeOK /\ IsFiniteSet(reserved) /\ IsFiniteSet(dlq)
        /\ Headroom \in Nat /\ BaseCharge \in Nat
        /\ MaxBaseBytes \in Nat /\ MaxTerminalBytes \in Nat /\ MaxDlqBytes \in Nat
        /\ rterm \in [Job -> 0..Headroom]
    BY <1>2, FS_Subset, ConstantsAssumption DEF ConstantsAssumption, Indexes, TypeOK
  <2>2. /\ baseBytes = BaseCharge * Cardinality(reserved) /\ baseBytes <= MaxBaseBytes
        /\ termBytes = SumOf(rterm) /\ termBytes <= MaxTerminalBytes
        /\ dlqBytes = BaseCharge * Cardinality(dlq) /\ dlqBytes <= MaxDlqBytes
        /\ Cardinality(reserved) \in Nat /\ Cardinality(dlq) \in Nat
    BY <1>2, <2>1, FS_CardinalityType DEF BytesConserved
  <2>3. /\ \A n \in Nat : BaseCharge * (n + 1) = BaseCharge * n + BaseCharge
        /\ \A n \in Nat : BaseCharge * n \in Nat
        /\ \A n \in Nat : BaseCharge * (n - 1) = BaseCharge * n - BaseCharge
    BY <2>1
  <2>4. CASE UNCHANGED <<reserved, dlq, rterm, baseBytes, termBytes, dlqBytes>>
    BY <2>2, <2>4 DEF BytesConserved
  <2>5. ASSUME NEW j \in Job, ReservesBytes(j) PROVE BytesConserved'
    <3>1. j \notin reserved /\ rterm[j] = 0
      BY <1>2, <2>5 DEF ReservesBytes, Indexes, Remnants, Charged
    <3>2. Cardinality(reserved') = Cardinality(reserved) + 1
      BY <2>1, <2>5, <3>1, FS_AddElement DEF ReservesBytes
    <3>3. SumOf(rterm') = SumOf(rterm)
      <4>1. rterm' = rterm
        BY <2>1, <2>5, <3>1 DEF ReservesBytes
      <4> QED BY <4>1
    <3>4. baseBytes' = BaseCharge * Cardinality(reserved')
      BY <2>2, <2>3, <2>5, <3>2 DEF ReservesBytes
    <3> QED BY <2>2, <2>5, <3>3, <3>4 DEF ReservesBytes, BytesConserved
  <2>6. ASSUME NEW j \in Job, ReturnsBytes(j) PROVE BytesConserved'
    <3>1. Cardinality(reserved') = Cardinality(reserved) - 1
      BY <2>1, <2>6, FS_RemoveElement DEF ReturnsBytes
    <3>2. baseBytes' = BaseCharge * Cardinality(reserved') /\ baseBytes' <= MaxBaseBytes
      BY <2>1, <2>2, <2>3, <2>6, <3>1 DEF ReturnsBytes
    <3>3. dlqBytes' = BaseCharge * Cardinality(dlq') /\ dlqBytes' <= MaxDlqBytes
      <4>1. CASE j \in dlq
        <5>1. Cardinality(dlq') = Cardinality(dlq) - 1
          BY <2>1, <2>6, <4>1, FS_RemoveElement DEF ReturnsBytes
        <5> QED BY <2>1, <2>2, <2>3, <2>6, <4>1, <5>1, SMTT(30) DEF ReturnsBytes
      <4>2. CASE j \notin dlq
        <5>1. dlq' = dlq
          BY <2>6, <4>2 DEF ReturnsBytes
        <5> QED BY <2>2, <2>6, <4>2, <5>1 DEF ReturnsBytes
      <4> QED BY <4>1, <4>2
    <3>4. SumOf(rterm) \in Nat /\ SumOf(rterm') = SumOf(rterm) - rterm[j] + 0
      <4>1. 0 \in 0..Headroom
        BY <2>1
      <4> QED BY <2>1, <2>6, <4>1, IndexSum DEF ReturnsBytes
    <3>5. termBytes' = SumOf(rterm') /\ termBytes' <= MaxTerminalBytes
      BY <2>1, <2>2, <2>6, <3>4 DEF ReturnsBytes
    <3> QED BY <3>2, <3>3, <3>5 DEF BytesConserved
  <2>7. ASSUME NEW j \in Job, ChargesBytes(j) PROVE BytesConserved'
    <3>1. PICK v \in 0..Headroom :
             /\ v <= rterm[j] \/ termBytes + v - rterm[j] <= MaxTerminalBytes
             /\ rterm' = [rterm EXCEPT ![j] = v] /\ termBytes' = termBytes + v - rterm[j]
             /\ UNCHANGED <<reserved, dlq, baseBytes, dlqBytes>>
      BY <2>7 DEF ChargesBytes
    <3>2. SumOf(rterm) \in Nat /\ SumOf(rterm') = SumOf(rterm) - rterm[j] + v
      BY <2>1, <3>1, IndexSum
    <3>3. termBytes' = SumOf(rterm') /\ termBytes' <= MaxTerminalBytes
      BY <2>1, <2>2, <3>1, <3>2
    <3> QED BY <2>2, <3>1, <3>3 DEF BytesConserved
  <2>8. ASSUME NEW j \in Job, ParksBytes(j) PROVE BytesConserved'
    <3>1. Cardinality(dlq') = Cardinality(dlq) + 1
      BY <2>1, <2>8, FS_AddElement DEF ParksBytes
    <3>2. dlqBytes' = BaseCharge * Cardinality(dlq') /\ dlqBytes' <= MaxDlqBytes
      BY <2>1, <2>2, <2>3, <2>8, <3>1 DEF ParksBytes
    <3>3. SumOf(rterm) \in Nat /\ SumOf(rterm') = SumOf(rterm) - rterm[j] + 0
      <4>1. 0 \in 0..Headroom
        BY <2>1
      <4> QED BY <2>1, <2>8, <4>1, IndexSum DEF ParksBytes
    <3>4. termBytes' = SumOf(rterm') /\ termBytes' <= MaxTerminalBytes
      BY <2>1, <2>2, <2>8, <3>3 DEF ParksBytes
    <3> QED BY <2>2, <2>8, <3>2, <3>4 DEF ParksBytes, BytesConserved
  <2> QED BY <1>2, <2>4, <2>5, <2>6, <2>7, <2>8, BytesStep
<1> QED BY <1>1, <1>2, NextCharged, IndexesInvariant, PTL DEF Spec

-----------------------------------------------------------------------------
(***************************************************************************)
(* Refinement: the store implements JobVerdict.  Every script is one       *)
(* abstract step of the job it names, or a stutter.                        *)
(***************************************************************************)

\* The empty store maps to the abstract initial state.
LEMMA InitVerdict == Init => V!Init
BY DEF Init, V!Init, Verdict, Heard

\* A step that leaves the mapped fields of every job alone is a stutter.
LEMMA VerdictStutters ==
    ASSUME UNCHANGED <<issued, meta, terminal, cancel, published>>
    PROVE  UNCHANGED V!vars
<1>1. \A j \in Job : Verdict(j)' = Verdict(j) BY DEF Verdict
<1>2. \A j \in Job : Heard(j)' = Heard(j) BY DEF Heard
<1> QED BY <1>1, <1>2 DEF V!vars

\* Publishing one message adds its kind to what the channel has carried.
LEMMA HeardGrows ==
    ASSUME NEW j \in Job, NEW m \in Message, TypeOK, Emit(j, m)
    PROVE  [k \in Job |-> Heard(k)]'
             = [[k \in Job |-> Heard(k)] EXCEPT ![j] = @ \cup {m.kind}]
<1>1. \A k \in Job \ {j} : Heard(k)' = Heard(k) BY DEF Emit, Heard, TypeOK
<1>2. published'[j] = published[j] \cup {m} BY DEF Emit, TypeOK
<1>3. Heard(j)' = Heard(j) \cup {m.kind} BY <1>2 DEF Heard
<1> QED BY <1>1, <1>3

\* The step leaves the mapped fields of every other job alone.
OthersKeep(j) ==
    \A k \in Job \ {j} : /\ k \in issued' <=> k \in issued
                         /\ meta'[k] = meta[k]
                         /\ terminal'[k] = terminal[k]
                         /\ cancel'[k] = cancel[k]

\* A step that touches only one job's mapped fields changes only its verdict.
LEMMA VerdictLocal ==
    ASSUME NEW j \in Job, NEW v, Verdict(j)' = v, OthersKeep(j)
    PROVE  [k \in Job |-> Verdict(k)]' = [[k \in Job |-> Verdict(k)] EXCEPT ![j] = v]
<1>1. \A k \in Job \ {j} : Verdict(k)' = Verdict(k) BY DEF Verdict, OthersKeep
<1> QED BY <1>1

\* Reaching, repeating or announcing a verdict is a step of JobVerdict.
LEMMA DecideStep ==
    ASSUME NEW j \in Job, NEW v \in Envelope, TypeOK,
           Verdict(j) \in {"open", v}, Verdict(j)' = v, OthersKeep(j),
           UNCHANGED published \/ \E m \in Message : m.kind = v /\ Emit(j, m)
    PROVE  [V!Next]_(V!vars)
<1> DEFINE verd == [k \in Job |-> Verdict(k)]
           hear == [k \in Job |-> Heard(k)]
<1>1. verd' = [verd EXCEPT ![j] = v] BY VerdictLocal
<1>2. \/ hear' = hear
      \/ hear' = [hear EXCEPT ![j] = @ \cup {v}]
  <2>1. CASE UNCHANGED published BY <2>1 DEF Heard
  <2>2. CASE \E m \in Message : m.kind = v /\ Emit(j, m)
    <3>1. PICK m \in Message : m.kind = v /\ Emit(j, m) BY <2>2
    <3> QED BY <3>1, HeardGrows
  <2> QED BY <2>1, <2>2
<1> HIDE DEF verd, hear
<1>3. CASE Verdict(j) = "open"
  <2>1. verd[j] = "open" BY <1>3 DEF verd
  <2>2. V!Decide(j, v) BY <1>1, <1>2, <2>1 DEF V!Decide, verd, hear
  <2> QED BY <2>2 DEF V!Next
<1>4. CASE Verdict(j) = v
  <2>1. verd[j] = v BY <1>4 DEF verd
  <2>2. verd' = verd BY <1>1, <2>1 DEF verd
  <2>3. CASE hear' = hear BY <2>2, <2>3 DEF V!vars, verd, hear
  <2>4. CASE hear' = [hear EXCEPT ![j] = @ \cup {v}]
    <3>1. V!Announce(j) BY <2>1, <2>2, <2>4 DEF V!Announce, verd, hear
    <3> QED BY <3>1 DEF V!Next
  <2> QED BY <1>2, <2>3, <2>4
<1> QED BY <1>3, <1>4

\* Losing the records of a job is a step of JobVerdict.
LEMMA ForgetStep ==
    ASSUME NEW j \in Job, Verdict(j) \in Envelope \cup {"open", "forgotten"},
           Verdict(j)' = "forgotten", OthersKeep(j), UNCHANGED published
    PROVE  [V!Next]_(V!vars)
<1> DEFINE verd == [k \in Job |-> Verdict(k)]
           hear == [k \in Job |-> Heard(k)]
<1>1. verd' = [verd EXCEPT ![j] = "forgotten"] BY VerdictLocal
<1>2. hear' = hear BY DEF Heard
<1> HIDE DEF verd, hear
<1>3. CASE Verdict(j) = "forgotten"
  <2>1. verd' = verd BY <1>1, <1>3 DEF verd
  <2> QED BY <1>2, <2>1 DEF V!vars, verd, hear
<1>4. CASE Verdict(j) \in Envelope \cup {"open"}
  <2>1. verd[j] \in Envelope \cup {"open"} BY <1>4 DEF verd
  <2>2. V!Forget(j) BY <1>1, <1>2, <2>1 DEF V!Forget, verd, hear
  <2> QED BY <2>2 DEF V!Next
<1> QED BY <1>3, <1>4

\* Every step of the store is a step of JobVerdict or a stutter.
LEMMA NextVerdict == Indexes /\ [Next]_vars => [V!Next]_(V!vars)
<1> SUFFICES ASSUME Indexes, [Next]_vars PROVE [V!Next]_(V!vars)
  OBVIOUS
<1> USE ConstantsAssumption DEF Indexes, ConstantsAssumption
<1>0. TypeOK OBVIOUS
<1>a. ASSUME UNCHANGED <<issued, meta, terminal, cancel, published>>
      PROVE [V!Next]_(V!vars)
  BY <1>a, VerdictStutters
<1>b. ASSUME NEW j \in Job, CancelProcessing(j) PROVE [V!Next]_(V!vars)
  <2>1. Verdict(j) \in {"open", "cancel"} /\ Verdict(j)' = "cancel"
    BY <1>b DEF CancelProcessing, SameGeneration, Verdict, TypeOK, IndexAgreement,
         NothingUnindexed, Remnants, NoEnvelope, history
  <2>2. OthersKeep(j) BY <1>b DEF CancelProcessing, OthersKeep, TypeOK, history
  <2>3. Fixed("cancel") \in Message /\ Fixed("cancel").kind = "cancel"
    BY DEF Fixed, Message, Envelope
  <2> QED BY <1>0, <1>b, <2>1, <2>2, <2>3, DecideStep DEF CancelProcessing, Envelope
<1>c. ASSUME NEW j \in Job, EndUnleased(j),
             cancel' = cancel \/ cancel' = [cancel EXCEPT ![j] = TRUE]
      PROVE [V!Next]_(V!vars)
  <2>1. Verdict(j) \in {"open", "cancel"} /\ Verdict(j)' = "cancel"
    BY <1>c DEF EndUnleased, SameGeneration, Verdict, TypeOK, IndexAgreement,
         NothingUnindexed, Remnants, NoEnvelope, history
  <2>2. OthersKeep(j) BY <1>c DEF EndUnleased, OthersKeep, TypeOK, history
  <2>3. Fixed("cancel") \in Message /\ Fixed("cancel").kind = "cancel"
    BY DEF Fixed, Message, Envelope
  <2> QED BY <1>0, <1>c, <2>1, <2>2, <2>3, DecideStep DEF EndUnleased, Envelope
<1> DEFINE Facts(j) == SameGeneration(j) /\ state[j] = "processing"
<1>d. ASSUME NEW j \in Job, NEW v \in Envelope, Facts(j), v = "cancel" \/ ~cancel[j],
             issued' = issued, meta' = meta,
             terminal' = [terminal EXCEPT ![j] = v],
             cancel' = cancel \/ cancel' = [cancel EXCEPT ![j] = TRUE],
             UNCHANGED published \/ \E m \in Message : m.kind = v /\ Emit(j, m)
      PROVE [V!Next]_(V!vars)
  <2>1. Verdict(j) \in {"open", v}
    BY <1>d DEF SameGeneration, Verdict, TypeOK, IndexAgreement, NothingUnindexed,
         Remnants, NoEnvelope
  <2>2. Verdict(j)' = v
    BY <1>d DEF SameGeneration, Verdict, TypeOK, IndexAgreement, NothingUnindexed,
         Remnants, NoEnvelope, Envelope
  <2>3. OthersKeep(j) BY <1>d DEF OthersKeep, TypeOK
  <2> QED BY <1>0, <1>d, <2>1, <2>2, <2>3, DecideStep
<1>e. \A j \in Job : \A t \in Token : Owns(j, t) => Facts(j)
  BY DEF Owns, SameGeneration, IndexAgreement
<1>f. \A kind \in {"cancel", "dead"} : Fixed(kind) \in Message /\ Fixed(kind).kind = kind
  BY DEF Fixed, Message, Envelope
<1>1. ASSUME NEW j \in Job, OriginStep(j) PROVE [V!Next]_(V!vars)
  <2>1. CASE Reserve(j)
    <3>1. Verdict(j) = "unsubmitted" BY <2>1 DEF Reserve, Verdict
    <3>2. meta[j] = "absent" /\ ~cancel[j] /\ terminal[j] = NoEnvelope
      BY <2>1 DEF Reserve, TypeOK, IndexAgreement, NothingUnindexed, Remnants
    <3>3. Verdict(j)' = "open" BY <2>1, <3>2 DEF Reserve, Verdict, TypeOK
    <3>4. OthersKeep(j) BY <2>1 DEF Reserve, OthersKeep, TypeOK
    <3>5. [k \in Job |-> Verdict(k)]' = [[k \in Job |-> Verdict(k)] EXCEPT ![j] = "open"]
      BY <3>3, <3>4, VerdictLocal
    <3>6. [k \in Job |-> Heard(k)]' = [k \in Job |-> Heard(k)]
      BY <2>1 DEF Reserve, Heard
    <3>7. V!Submit(j) BY <3>1, <3>5, <3>6 DEF V!Submit
    <3> QED BY <3>7 DEF V!Next
  <2>2. CASE Activate(j) BY <2>2, <1>a DEF Activate, history
  <2>3. CASE CancelProcessing(j) BY <2>3, <1>b
  <2>4. CASE CancelUnleased(j) BY <2>4, <1>c DEF CancelUnleased
  <2>5. CASE OriginHeartbeat(j) BY <2>5, <1>a DEF OriginHeartbeat, history, metaVars
  <2>6. CASE MarkCanceled(j)
    <3>1. Verdict(j) \in {"open", "cancel"} /\ Verdict(j)' = "cancel"
      BY <2>6 DEF MarkCanceled, SameGeneration, Live, Verdict, TypeOK, IndexAgreement,
           NothingUnindexed, Remnants, NoEnvelope, history
    <3>2. OthersKeep(j) BY <2>6 DEF MarkCanceled, OthersKeep, TypeOK, history
    <3> QED BY <1>0, <2>6, <3>1, <3>2, DecideStep DEF MarkCanceled, Envelope
  <2> QED BY <1>1, <2>1, <2>2, <2>3, <2>4, <2>5, <2>6 DEF OriginStep
<1>2. ASSUME NEW j \in Job, ReaperStep(j) PROVE [V!Next]_(V!vars)
  <2>1. CASE ExpireOriginProcessing(j) BY <2>1, <1>b DEF ExpireOriginProcessing
  <2>2. CASE ExpireOriginUnleased(j) BY <2>2, <1>c DEF ExpireOriginUnleased
  <2>3. CASE ExpireOriginStale(j) BY <2>3, <1>a DEF ExpireOriginStale, history, metaVars
  <2>4. CASE CleanupPostpone(j) BY <2>4, <1>a DEF CleanupPostpone, history, metaVars
  <2>5. CASE CleanupRelease(j)
    <3>1. Verdict(j) \in Envelope \cup {"open", "forgotten"}
      BY <2>5 DEF CleanupRelease, Verdict, TypeOK, Remnants, Envelope
    <3>2. Verdict(j)' = "forgotten"
      BY <2>5 DEF CleanupRelease, Verdict, TypeOK, Remnants, history
    <3>3. OthersKeep(j) BY <2>5 DEF CleanupRelease, OthersKeep, TypeOK, history
    <3> QED BY <2>5, <3>1, <3>2, <3>3, ForgetStep DEF CleanupRelease
  <2>6. CASE ReapCanceled(j)
    <3>1. Facts(j) BY <2>6 DEF ReapCanceled, SameGeneration, IndexAgreement
    <3> QED BY <2>6, <3>1, <1>d DEF ReapCanceled, End, Envelope, history
  <2>7. CASE ReapRequeue(j) BY <2>7, <1>a DEF ReapRequeue, history
  <2>8. CASE ReapOrphan(j)
    <3>1. Verdict(j) = "forgotten" /\ Verdict(j)' = "forgotten"
      BY <2>8 DEF ReapOrphan, SameGeneration, Verdict, TypeOK, NothingUnindexed,
           Remnants, history
    <3>2. OthersKeep(j) BY <2>8 DEF ReapOrphan, OthersKeep, TypeOK, history
    <3> QED BY <2>8, <3>1, <3>2, ForgetStep DEF ReapOrphan
  <2> QED BY <1>2, <2>1, <2>2, <2>3, <2>4, <2>5, <2>6, <2>7, <2>8 DEF ReaperStep
<1>3. ASSUME NEW j \in Job, TimeStep(j) PROVE [V!Next]_(V!vars)
  <2>1. CASE LeaseElapses(j) BY <2>1, <1>a DEF LeaseElapses, history, metaVars
  <2>2. CASE OriginElapses(j) BY <2>2, <1>a DEF OriginElapses, history
  <2>3. CASE ExpiryElapses(j) BY <2>3, <1>a DEF ExpiryElapses, history
  <2>4. CASE MetaHardExpires(j)
    <3>1. Verdict(j) \in Envelope \cup {"open", "forgotten"}
      BY <2>4 DEF MetaHardExpires, Verdict, TypeOK, NothingUnindexed, Remnants, Envelope
    <3>2. Verdict(j)' = "forgotten"
      BY <2>4 DEF MetaHardExpires, Verdict, TypeOK, NothingUnindexed, Remnants, history
    <3>3. OthersKeep(j) BY <2>4 DEF MetaHardExpires, OthersKeep, TypeOK, history
    <3> QED BY <2>4, <3>1, <3>2, <3>3, ForgetStep DEF MetaHardExpires
  <2> QED BY <1>3, <2>1, <2>2, <2>3, <2>4 DEF TimeStep
<1>4. ASSUME NEW j \in Job, NEW t \in Token, WorkerStep(j, t) PROVE [V!Next]_(V!vars)
  <2>1. CASE LeaseDiscards(j) BY <2>1, <1>a DEF LeaseDiscards, history, metaVars
  <2>2. CASE Lease(j, t) BY <2>2, <1>a DEF Lease
  <2>3. CASE Ack(j, t) BY <2>3, <1>a DEF Ack, history, metaVars
  <2>4. CASE Release(j, t) BY <2>4, <1>a DEF Release, history
  <2>5. CASE Refresh(j, t) BY <2>5, <1>a DEF Refresh, history, metaVars
  <2>6. CASE Publish(j, t)
    <3> DEFINE m == [kind |-> "chunk", by |-> t]
    <3>1. Facts(j) /\ ~cancel[j] BY <2>6, <1>e DEF Publish, Canceled
    <3>2. Verdict(j) = "open"
      BY <3>1 DEF Verdict, SameGeneration, TypeOK, IndexAgreement, NothingUnindexed,
           Remnants, NoEnvelope
    <3>3. [k \in Job |-> Heard(k)]'
            = [[k \in Job |-> Heard(k)] EXCEPT ![j] = @ \cup {"chunk"}]
      BY <1>0, <2>6, HeardGrows DEF Publish, Message
    <3>4. \A k \in Job : Verdict(k)' = Verdict(k)
      BY <2>6 DEF Publish, Verdict, history, metaVars
    <3>5. V!Relay(j) BY <3>2, <3>3, <3>4 DEF V!Relay
    <3> QED BY <3>5 DEF V!Next
  <2>7. ASSUME NEW envelope \in {"result", "error"}, NEW n \in 1..Headroom,
               TerminalPublishComplete(j, t, envelope, n)
        PROVE [V!Next]_(V!vars)
    <3> DEFINE m == [kind |-> envelope, by |-> t]
    <3>1. m \in Message /\ m.kind = envelope BY DEF Message, Envelope
    <3>2. Emit(j, m) BY <2>7 DEF TerminalPublishComplete
    <3> QED BY <2>7, <1>d, <1>e, <3>1, <3>2
            DEF TerminalPublishComplete, End, Canceled, Envelope, history
  <2>8. CASE TerminalPublishCanceled(j, t)
    BY <2>8, <1>d, <1>e, <1>f DEF TerminalPublishCanceled, End, Envelope, history
  <2>9. CASE DeadLetterCanceled(j, t)
    BY <2>9, <1>d, <1>e, <1>f DEF DeadLetterCanceled, End, Envelope, history
  <2>10. CASE DeadLetterOverflow(j, t)
    BY <2>10, <1>d, <1>e, <1>f DEF DeadLetterOverflow, End, Canceled, Envelope, history
  <2>11. CASE DeadLetter(j, t)
    BY <2>11, <1>d, <1>e, <1>f DEF DeadLetter, Canceled, Envelope, history
  <2> QED BY <1>4, <2>1, <2>2, <2>3, <2>4, <2>5, <2>6, <2>7, <2>8, <2>9, <2>10, <2>11
          DEF WorkerStep
<1>5. CASE UNCHANGED vars BY <1>5, <1>a DEF vars, history, metaVars
<1> QED BY <1>1, <1>2, <1>3, <1>4, <1>5 DEF Next

\* The lifecycle store implements JobVerdict: a job has one outcome, and no
\* client, however late or confused, can publish or store another.
THEOREM StoreImplementsVerdict == Spec => OneVerdict
BY InitVerdict, NextVerdict, IndexesInvariant, PTL DEF Spec, OneVerdict, V!Spec

-----------------------------------------------------------------------------
(***************************************************************************)
(* Fencing.  The owner on record is always the latest delivery, so the     *)
(* owner check of a script excludes every earlier one.                     *)
(***************************************************************************)

OwnerIsLatest == \A j \in Job : owner[j] # NoToken => owner[j] = latest[j]

\* A step writes an owner only by leasing, and then records the delivery.
LEMMA NextOwner == TypeOK /\ OwnerIsLatest /\ [Next]_vars => OwnerIsLatest'
<1> SUFFICES ASSUME TypeOK, OwnerIsLatest, [Next]_vars PROVE OwnerIsLatest'
  OBVIOUS
<1> USE DEF TypeOK, OwnerIsLatest, DropLease, history, leaseVars
<1>1. ASSUME NEW j \in Job, OriginStep(j) PROVE OwnerIsLatest'
  BY <1>1 DEF OriginStep, Reserve, Activate, CancelProcessing, CancelUnleased,
       EndUnleased, OriginHeartbeat, MarkCanceled
<1>2. ASSUME NEW j \in Job, ReaperStep(j) PROVE OwnerIsLatest'
  <2>1. UNCHANGED <<owner, latest>> \/ (DropLease(j) /\ latest' = latest)
    BY <1>2 DEF ReaperStep, ExpireOriginProcessing, CancelProcessing,
         ExpireOriginUnleased, EndUnleased, ExpireOriginStale, CleanupPostpone,
         CleanupRelease, ReapCanceled, ReapRequeue, ReapOrphan, End
  <2> QED BY <2>1
<1>3. ASSUME NEW j \in Job, TimeStep(j) PROVE OwnerIsLatest'
  BY <1>3 DEF TimeStep, LeaseElapses, OriginElapses, ExpiryElapses, MetaHardExpires
<1>4. ASSUME NEW j \in Job, NEW t \in Token, WorkerStep(j, t) PROVE OwnerIsLatest'
  <2>1. CASE Lease(j, t) BY <2>1 DEF Lease
  <2>2. CASE ~Lease(j, t)
    <3>1. UNCHANGED <<owner, latest>> \/ (DropLease(j) /\ latest' = latest)
      BY <1>4, <2>2 DEF WorkerStep, LeaseDiscards, Ack, Release, Refresh, Publish,
           TerminalPublishComplete, TerminalPublishCanceled, DeadLetterCanceled,
           DeadLetterOverflow, DeadLetter, End
    <3> QED BY <3>1
  <2> QED BY <2>1, <2>2
<1>5. CASE UNCHANGED vars BY <1>5 DEF vars
<1> QED BY <1>1, <1>2, <1>3, <1>4, <1>5 DEF Next

\* Content is published only by the current owner.
LEMMA OnlyOwnerPublishes ==
    ASSUME TypeOK, [Next]_vars, NEW j \in Job,
           NEW m \in published'[j] \ published[j], m.by # NoToken
    PROVE  owner[j] = m.by
<1> USE DEF TypeOK, Emit, Fixed
<1>1. ASSUME NEW k \in Job, OriginStep(k) PROVE owner[j] = m.by
  BY <1>1 DEF OriginStep, Reserve, Activate, CancelProcessing, CancelUnleased,
       EndUnleased, OriginHeartbeat, MarkCanceled
<1>2. ASSUME NEW k \in Job, ReaperStep(k) PROVE owner[j] = m.by
  BY <1>2 DEF ReaperStep, ExpireOriginProcessing, CancelProcessing,
       ExpireOriginUnleased, EndUnleased, ExpireOriginStale, CleanupPostpone,
       CleanupRelease, ReapCanceled, ReapRequeue, ReapOrphan
<1>3. ASSUME NEW k \in Job, TimeStep(k) PROVE owner[j] = m.by
  BY <1>3 DEF TimeStep, LeaseElapses, OriginElapses, ExpiryElapses, MetaHardExpires
<1>4. ASSUME NEW k \in Job, NEW t \in Token, WorkerStep(k, t) PROVE owner[j] = m.by
  BY <1>4 DEF WorkerStep, LeaseDiscards, Lease, Ack, Release, Refresh, Publish,
       TerminalPublishComplete, TerminalPublishCanceled, DeadLetterCanceled,
       DeadLetterOverflow, DeadLetter, Owns
<1>5. CASE UNCHANGED vars BY <1>5 DEF vars
<1> QED BY <1>1, <1>2, <1>3, <1>4, <1>5 DEF Next

\* A worker that lost its lease never publishes for the replacement delivery.
THEOREM StaleWorkersSilent == Spec => StaleSilent
<1>1. Init => OwnerIsLatest BY DEF Init, OwnerIsLatest
<1>2. TypeOK /\ OwnerIsLatest /\ [Next]_vars =>
        [\A j \in Job : \A m \in published'[j] \ published[j] :
            m.by # NoToken => m.by = latest[j] /\ owner[j] = m.by]_vars
  BY OnlyOwnerPublishes DEF OwnerIsLatest
<1> QED BY <1>1, <1>2, NextOwner, TypeCorrect, PTL DEF Spec, StaleSilent

-----------------------------------------------------------------------------
(***************************************************************************)
(* What was heard.  An invariant of JobVerdict, which the refinement       *)
(* carries over to the store: a final envelope that was published is the   *)
(* verdict for as long as anything is recorded.  What JobVerdict does not  *)
(* see is the cancellation mark beside a stored envelope.                  *)
(***************************************************************************)

HeardIsVerdict ==
    \A j \in Job :
        /\ \A e \in Envelope : e \in Heard(j) => Verdict(j) \in {e, "forgotten"}
        /\ \A e \in Envelope, f \in Envelope : e \in Heard(j) /\ f \in Heard(j) => e = f
        /\ Verdict(j) = "unsubmitted" => Heard(j) = {}

\* Every step of JobVerdict keeps it.
LEMMA HeardStep ==
    ASSUME HeardIsVerdict, [V!Next]_(V!vars) PROVE HeardIsVerdict'
<1> DEFINE verd == [k \in Job |-> Verdict(k)]
           hear == [k \in Job |-> Heard(k)]
<1> DEFINE Agrees(j) ==
        /\ \A e \in Envelope : e \in hear[j] => verd[j] \in {e, "forgotten"}
        /\ \A e \in Envelope, f \in Envelope : e \in hear[j] /\ f \in hear[j] => e = f
        /\ verd[j] = "unsubmitted" => hear[j] = {}
<1>1. \A j \in Job : Agrees(j)
  BY DEF HeardIsVerdict
<1>2. \A j \in Job : Agrees(j)'
  <2>1. \/ \E j \in Job :
              \/ V!Submit(j) \/ V!Relay(j) \/ V!Announce(j) \/ V!Forget(j)
              \/ \E v \in Envelope : V!Decide(j, v)
        \/ verd' = verd /\ hear' = hear
    BY DEF V!Next, V!vars
  <2>2. DOMAIN verd = Job /\ DOMAIN hear = Job
    OBVIOUS
  <2>3. /\ \A j \in Job : V!Submit(j) => /\ verd[j] = "unsubmitted" /\ hear' = hear
                                         /\ verd' = [verd EXCEPT ![j] = "open"]
        /\ \A j \in Job : V!Relay(j) => /\ verd[j] = "open" /\ verd' = verd
                                        /\ hear' = [hear EXCEPT ![j] = @ \cup {"chunk"}]
        /\ \A j \in Job : V!Announce(j) => /\ verd[j] \in Envelope /\ verd' = verd
                                           /\ hear' = [hear EXCEPT ![j] = @ \cup {verd[j]}]
        /\ \A j \in Job : V!Forget(j) => /\ verd' = [verd EXCEPT ![j] = "forgotten"]
                                         /\ verd[j] \in Envelope \cup {"open"}
                                         /\ hear' = hear
        /\ \A j \in Job, v \in Envelope : V!Decide(j, v) =>
              /\ verd[j] = "open" /\ verd' = [verd EXCEPT ![j] = v]
              /\ hear' \in {hear, [hear EXCEPT ![j] = @ \cup {v}]}
    BY DEF V!Submit, V!Relay, V!Announce, V!Forget, V!Decide
  <2>4. Envelope = {"result", "error", "cancel", "dead"}
    BY DEF Envelope
  <2> HIDE DEF verd, hear
  <2>5. ASSUME NEW j \in Job, V!Submit(j) PROVE \A k \in Job : Agrees(k)'
    BY <1>1, <2>2, <2>3, <2>4, <2>5
  <2>6. ASSUME NEW j \in Job, V!Relay(j) PROVE \A k \in Job : Agrees(k)'
    BY <1>1, <2>2, <2>3, <2>4, <2>6
  <2>7. ASSUME NEW j \in Job, V!Announce(j) PROVE \A k \in Job : Agrees(k)'
    BY <1>1, <2>2, <2>3, <2>4, <2>7
  <2>8. ASSUME NEW j \in Job, V!Forget(j) PROVE \A k \in Job : Agrees(k)'
    BY <1>1, <2>2, <2>3, <2>4, <2>8
  <2>9. ASSUME NEW j \in Job, NEW v \in Envelope, V!Decide(j, v)
        PROVE  \A k \in Job : Agrees(k)'
    BY <1>1, <2>2, <2>3, <2>4, <2>9
  <2>10. CASE verd' = verd /\ hear' = hear
    BY <1>1, <2>10
  <2> QED BY <2>1, <2>5, <2>6, <2>7, <2>8, <2>9, <2>10
<1> QED BY <1>2 DEF HeardIsVerdict

\* A stored result was published, and the mark and the envelope never disagree.
MarkAgrees ==
    \A j \in Job :
        /\ terminal[j] # NoEnvelope /\ cancel[j] => terminal[j] = "cancel"
        /\ terminal[j] = "result" => "result" \in Heard(j)

\* What a step publishes: nothing, or one message, and content only while the
\* job has no verdict.
Publishes(j, m) ==
    /\ Emit(j, m)
    /\ m.kind \notin {"cancel", "dead"} => Verdict(j) = "open"

\* A step publishes one message of one job, or nothing.
LEMMA OneMessage ==
    ASSUME Indexes, [Next]_vars
    PROVE  published' = published \/ \E j \in Job, m \in Message : Publishes(j, m)
<1> DEFINE Goal == published' = published \/ \E j \in Job, m \in Message : Publishes(j, m)
<1>1. \A kind \in {"cancel", "dead"} : Fixed(kind) \in Message /\ Fixed(kind).kind = kind
  BY DEF Fixed, Message, Envelope
<1>2. ASSUME NEW j \in Job, Emit(j, Fixed("cancel")) \/ Emit(j, Fixed("dead")) PROVE Goal
  BY <1>1, <1>2 DEF Publishes
<1>3. ASSUME NEW j \in Job, NEW t \in Token, NEW kind \in {"chunk", "result", "error"},
             Owns(j, t), ~Canceled(j), Emit(j, [kind |-> kind, by |-> t])
      PROVE  Goal
  <2>1. Verdict(j) = "open"
    BY <1>3 DEF Verdict, Owns, Canceled, SameGeneration, Indexes, IndexAgreement,
       NothingUnindexed, Remnants, NoEnvelope
  <2>2. [kind |-> kind, by |-> t] \in Message
    BY <1>3 DEF Message, Envelope
  <2> QED BY <1>3, <2>1, <2>2 DEF Publishes
<1>4. ASSUME NEW j \in Job, OriginStep(j) PROVE Goal
  BY <1>2, <1>4 DEF OriginStep, Reserve, Activate, CancelProcessing, CancelUnleased,
     EndUnleased, OriginHeartbeat, MarkCanceled
<1>5. ASSUME NEW j \in Job, ReaperStep(j) PROVE Goal
  BY <1>2, <1>5 DEF ReaperStep, ExpireOriginProcessing, CancelProcessing,
     ExpireOriginUnleased, EndUnleased, ExpireOriginStale, CleanupPostpone,
     CleanupRelease, ReapCanceled, ReapRequeue, ReapOrphan
<1>6. ASSUME NEW j \in Job, TimeStep(j) PROVE Goal
  BY <1>6 DEF TimeStep, LeaseElapses, OriginElapses, ExpiryElapses, MetaHardExpires
<1>7. ASSUME NEW j \in Job, NEW t \in Token, WorkerStep(j, t) PROVE Goal
  BY <1>2, <1>3, <1>7 DEF WorkerStep, LeaseDiscards, Lease, Ack, Release, Refresh, Publish,
     TerminalPublishComplete, TerminalPublishCanceled, DeadLetterCanceled,
     DeadLetterOverflow, DeadLetter
<1>8. CASE UNCHANGED vars BY <1>8 DEF vars
<1> QED BY <1>4, <1>5, <1>6, <1>7, <1>8 DEF Next

\* Channels only grow.
LEMMA HeardKept ==
    ASSUME TypeOK, published' = published \/ \E j \in Job, m \in Message : Publishes(j, m)
    PROVE  \A k \in Job : published[k] \subseteq published'[k] /\ Heard(k) \subseteq Heard(k)'
<1>1. \A k \in Job : published[k] \subseteq published'[k]
  BY DEF TypeOK, Publishes, Emit
<1> QED BY <1>1 DEF Heard

\* Every script keeps the mark and the stored envelope in agreement.
LEMMA MarkStep == Indexes /\ MarkAgrees /\ [Next]_vars => MarkAgrees'
<1> SUFFICES ASSUME Indexes, MarkAgrees, [Next]_vars PROVE MarkAgrees'
  OBVIOUS
<1>0. TypeOK /\ IndexAgreement /\ \A k \in Job : Heard(k) \subseteq Heard(k)'
  BY OneMessage, HeardKept DEF Indexes
<1> DEFINE Quiet(j) == \/ terminal'[j] = NoEnvelope
                       \/ terminal'[j] = terminal[j] /\ cancel'[j] = cancel[j]
           Ends(j) == \/ terminal'[j] = "cancel"
                      \/ terminal'[j] = "dead" /\ ~cancel'[j]
                      \/ /\ terminal'[j] \in {"result", "error"} /\ ~cancel'[j]
                         /\ terminal'[j] \in Heard(j)'
           Goal == \A j \in Job : Quiet(j) \/ Ends(j)
<1> USE DEF NoEnvelope
<1>1. ASSUME NEW j \in Job, OriginStep(j) PROVE Goal
  <2>1. CASE Reserve(j) BY <1>0, <2>1 DEF Reserve
  <2>2. CASE Activate(j) BY <1>0, <2>2 DEF Activate
  <2>3. CASE CancelProcessing(j)
    BY <1>0, <2>3 DEF CancelProcessing, IndexAgreement, TypeOK
  <2>4. CASE CancelUnleased(j) BY <1>0, <2>4 DEF CancelUnleased, EndUnleased, TypeOK
  <2>5. CASE OriginHeartbeat(j) BY <1>0, <2>5 DEF OriginHeartbeat, metaVars
  <2>6. CASE MarkCanceled(j)
    BY <1>0, <2>6 DEF MarkCanceled, Live, IndexAgreement, TypeOK
  <2> QED BY <1>1, <2>1, <2>2, <2>3, <2>4, <2>5, <2>6 DEF OriginStep
<1>2. ASSUME NEW j \in Job, ReaperStep(j) PROVE Goal
  <2>1. CASE ExpireOriginProcessing(j)
    BY <1>0, <2>1 DEF ExpireOriginProcessing, CancelProcessing, IndexAgreement, TypeOK
  <2>2. CASE ExpireOriginUnleased(j)
    BY <1>0, <2>2 DEF ExpireOriginUnleased, EndUnleased, TypeOK
  <2>3. CASE ExpireOriginStale(j) BY <1>0, <2>3 DEF ExpireOriginStale, metaVars
  <2>4. CASE CleanupPostpone(j) BY <1>0, <2>4 DEF CleanupPostpone, metaVars
  <2>5. CASE CleanupRelease(j) BY <1>0, <2>5 DEF CleanupRelease, TypeOK
  <2>6. CASE ReapCanceled(j) BY <1>0, <2>6 DEF ReapCanceled, End, TypeOK
  <2>7. CASE ReapRequeue(j) BY <1>0, <2>7 DEF ReapRequeue
  <2>8. CASE ReapOrphan(j)
    BY <1>0, <2>8 DEF ReapOrphan, SameGeneration, IndexAgreement, TypeOK
  <2> QED BY <1>2, <2>1, <2>2, <2>3, <2>4, <2>5, <2>6, <2>7, <2>8 DEF ReaperStep
<1>3. ASSUME NEW j \in Job, TimeStep(j) PROVE Goal
  BY <1>0, <1>3 DEF TimeStep, LeaseElapses, OriginElapses, ExpiryElapses, MetaHardExpires,
     metaVars, TypeOK
<1>4. ASSUME NEW j \in Job, NEW t \in Token, WorkerStep(j, t) PROVE Goal
  <2>1. CASE LeaseDiscards(j) \/ Lease(j, t) \/ Ack(j, t) \/ Release(j, t)
             \/ Refresh(j, t) \/ Publish(j, t)
    BY <1>0, <2>1 DEF LeaseDiscards, Lease, Ack, Release, Refresh, Publish, metaVars
  <2>2. ASSUME NEW envelope \in {"result", "error"}, NEW n \in 1..Headroom,
               TerminalPublishComplete(j, t, envelope, n)
        PROVE  Goal
    <3>1. [kind |-> envelope, by |-> t] \in published'[j]
      BY <1>0, <2>2 DEF TerminalPublishComplete, Emit, TypeOK
    <3>2. envelope \in Heard(j)'
      BY <3>1 DEF Heard
    <3> QED BY <1>0, <2>2, <3>2 DEF TerminalPublishComplete, End, Canceled, TypeOK
  <2>3. CASE TerminalPublishCanceled(j, t)
    BY <1>0, <2>3 DEF TerminalPublishCanceled, End, TypeOK
  <2>4. CASE DeadLetterCanceled(j, t) BY <1>0, <2>4 DEF DeadLetterCanceled, End, TypeOK
  <2>5. CASE DeadLetterOverflow(j, t)
    BY <1>0, <2>5 DEF DeadLetterOverflow, End, Canceled, TypeOK
  <2>6. CASE DeadLetter(j, t) BY <1>0, <2>6 DEF DeadLetter, Canceled, TypeOK
  <2> QED BY <1>4, <2>1, <2>2, <2>3, <2>4, <2>5, <2>6 DEF WorkerStep
<1>5. ASSUME UNCHANGED vars PROVE Goal
  <2>1. terminal' = terminal /\ cancel' = cancel
    BY <1>5 DEF vars, metaVars
  <2> QED BY <2>1
<1>6. Goal
  <2> HIDE DEF Goal
  <2> QED BY <1>1, <1>2, <1>3, <1>4, <1>5 DEF Next
<1> QED BY <1>0, <1>6 DEF MarkAgrees

\* What was published is the verdict, in every reachable store.
THEOREM HeardInvariant == Spec => [](HeardIsVerdict /\ MarkAgrees)
<1>1. Init => HeardIsVerdict /\ MarkAgrees
  BY DEF Init, HeardIsVerdict, MarkAgrees, Heard, NoEnvelope
<1>2. Indexes /\ HeardIsVerdict /\ [Next]_vars => HeardIsVerdict'
  BY NextVerdict, HeardStep
<1> QED BY <1>1, <1>2, MarkStep, IndexesInvariant, PTL DEF Spec

-----------------------------------------------------------------------------
(***************************************************************************)
(* The gateway over the store.                                             *)
(***************************************************************************)

\* The calls and deliveries in progress name real jobs and tokens.
WorkerOps == {"refresh", "publish", "release", "deadletter", "result", "error"}
CallsNamed ==
    /\ wpc \in [Token -> Active \cup {"unused", "gone"}]
    /\ wjob \in [Token -> Job \cup {NoJob}]
    /\ wmsg \in [Token -> Envelope \cup {NoEnvelope}]
    /\ pump \in SUBSET Job
    /\ \A c \in late : c.op # "lease" => c.job \in Job
    /\ \A c \in late : c.op \in WorkerOps \cup {"lease"} => c.token \in Token
    /\ \A t \in Token : wpc[t] \in Active => wjob[t] \in Job
    /\ \A t \in Token :
         wpc[t] \in {"end", "cleanup", "stop"} => wmsg[t] \in {"result", "error"}

\* What each script does to the store is a step of Lifecycle, or nothing.
LEMMA ScriptsAreSteps ==
    ASSUME NEW j \in Job, NEW t \in Token, NEW m \in {"result", "error"}
    PROVE  /\ Refuses(j) => [Next]_vars
           /\ CancelScript(j) => [Next]_vars
           /\ RefreshScript(j, t) => [Next]_vars
           /\ ReleaseScript(j, t) => [Next]_vars
           /\ PublishScript(j, t) => [Next]_vars
           /\ DeadLetterScript(j, t) => [Next]_vars
           /\ TerminalScript(j, t, m) => [Next]_vars
<1>1. OriginStep(j) => Next
  BY DEF Next
<1>2. WorkerStep(j, t) => Next
  BY DEF Next
<1>3. Refuses(j) => [Next]_vars
  BY <1>1 DEF Refuses, OriginStep
<1>4. CancelScript(j) => [Next]_vars
  BY <1>1 DEF CancelScript, OriginStep
<1>5. RefreshScript(j, t) => [Next]_vars
  BY <1>2, <1>3 DEF RefreshScript, WorkerStep
<1>6. ReleaseScript(j, t) => [Next]_vars
  BY <1>2, <1>3 DEF ReleaseScript, WorkerStep
<1>7. PublishScript(j, t) => [Next]_vars
  BY <1>2, <1>3 DEF PublishScript, WorkerStep
<1>8. DeadLetterScript(j, t) => [Next]_vars
  BY <1>2 DEF DeadLetterScript, WorkerStep
<1>9. TerminalScript(j, t, m) => [Next]_vars
  BY <1>2 DEF TerminalScript, WorkerStep
<1> QED
  BY <1>3, <1>4, <1>5, <1>6, <1>7, <1>8, <1>9

-----------------------------------------------------------------------------
\* A call that runs late is a step of the store as well.
LEMMA LateCallsAreSteps ==
    ASSUME CallsNamed, NEW c \in late, LateScript(c) PROVE [Next]_vars
<1> USE DEF CallsNamed, WorkerOps
<1>1. CASE c.op = "reserve" /\ Reserve(c.job) BY <1>1 DEF Next, OriginStep
<1>2. CASE c.op = "activate" /\ Activate(c.job) BY <1>2 DEF Next, OriginStep
<1>3. CASE c.op = "cancel" /\ CancelScript(c.job)
  BY <1>3 DEF CancelScript, Next, OriginStep
<1>4. CASE c.op = "heartbeat" /\ (OriginHeartbeat(c.job) \/ MarkCanceled(c.job))
  BY <1>4 DEF Next, OriginStep
<1>5. CASE c.op = "lease" /\ \E j \in Job : Lease(j, c.token)
  BY <1>5 DEF Next, WorkerStep
<1>6. CASE c.op = "refresh" /\ RefreshScript(c.job, c.token)
  BY <1>6, ScriptsAreSteps
<1>7. CASE c.op = "publish" /\ PublishScript(c.job, c.token)
  BY <1>7, ScriptsAreSteps
<1>8. CASE c.op = "release" /\ ReleaseScript(c.job, c.token)
  BY <1>8, ScriptsAreSteps
<1>9. CASE c.op = "deadletter" /\ DeadLetterScript(c.job, c.token)
  BY <1>9, ScriptsAreSteps
<1>10. CASE c.op \in {"result", "error"} /\ TerminalScript(c.job, c.token, c.op)
  BY <1>10, ScriptsAreSteps
<1> QED BY <1>1, <1>2, <1>3, <1>4, <1>5, <1>6, <1>7, <1>8, <1>9, <1>10 DEF LateScript

\* Every step of an origin or of the pump uses the store by one script at most.
LEMMA OriginActsAreSteps ==
    ASSUME CallsNamed, NEW j \in Job, OriginActs(j) PROVE [Next]_vars
<1> USE DEF Runs, Reads, ReadErrs, Errs
<1>1. CancelScript(j) => [Next]_vars BY DEF CancelScript, Next, OriginStep
<1>2. Reserve(j) \/ Activate(j) \/ OriginHeartbeat(j) \/ MarkCanceled(j) => Next
  BY DEF Next, OriginStep
<1>3. CASE AcceptReserved(j) BY <1>1, <1>2, <1>3 DEF AcceptReserved
<1>4. CASE AcceptRefused(j) BY <1>1, <1>2, <1>4 DEF AcceptRefused
<1>5. CASE AcceptFails(j) BY <1>1, <1>2, <1>5 DEF AcceptFails
<1>19. CASE Subscribes(j) BY <1>19 DEF Subscribes
<1>20. CASE Awaits(j) BY <1>20 DEF Awaits
<1>6. CASE ActivateAccepted(j) BY <1>1, <1>2, <1>6 DEF ActivateAccepted
<1>7. CASE ActivateRefused(j) BY <1>1, <1>2, <1>7 DEF ActivateRefused
<1>8. CASE CancelsOrigin(j) BY <1>1, <1>2, <1>8 DEF CancelsOrigin
<1>9. CASE Rereads(j) BY <1>1, <1>2, <1>9 DEF Rereads
<1>10. CASE OriginDeadline(j) BY <1>1, <1>2, <1>10 DEF OriginDeadline
<1>11. CASE ReadsTerminal(j) BY <1>1, <1>2, <1>11 DEF ReadsTerminal
<1>12. CASE OriginBeats(j) BY <1>1, <1>2, <1>12 DEF OriginBeats
<1>13. CASE ReadsBack(j) BY <1>1, <1>2, <1>13 DEF ReadsBack
<1>14. CASE OriginReceives(j) BY <1>1, <1>2, <1>14 DEF OriginReceives
<1>15. CASE BusBreaks(j) BY <1>1, <1>2, <1>15 DEF BusBreaks
<1>16. CASE BusClosed(j) BY <1>1, <1>2, <1>16 DEF BusClosed
<1>17. CASE CallerLeaves(j) BY <1>1, <1>2, <1>17 DEF CallerLeaves
<1>18. CASE PumpCancels(j) BY <1>1, <1>2, <1>18 DEF PumpCancels
<1> QED BY <1>3, <1>4, <1>5, <1>6, <1>7, <1>8, <1>9, <1>10, <1>11, <1>12, <1>13, <1>14, <1>15, <1>16, <1>17, <1>18, <1>19, <1>20 DEF OriginActs

\* Every step of a delivery uses the store by one script at most.
LEMMA WorkerActsAreSteps ==
    ASSUME CallsNamed, NEW t \in Token, WorkerActs(t) PROVE [Next]_vars
<1> USE DEF Runs, Reads, ReadErrs, Errs, Active
<1>1. ASSUME NEW j \in Job, Lease(j, t) PROVE Next BY <1>1 DEF Next, WorkerStep
<1>2. wpc[t] \in Active => wjob[t] \in Job BY DEF CallsNamed
<1>3. wpc[t] \in {"end", "cleanup", "stop"} => wmsg[t] \in {"result", "error"}
  BY DEF CallsNamed
<1>4. CASE WorkerLeases(t) BY <1>1, <1>2, <1>3, <1>4, ScriptsAreSteps DEF WorkerLeases
<1>5. CASE WorkerLeaseErrs(t) BY <1>1, <1>2, <1>3, <1>5, ScriptsAreSteps DEF WorkerLeaseErrs
<1>6. CASE WorkerChecksDone(t) BY <1>1, <1>2, <1>3, <1>6, ScriptsAreSteps DEF WorkerChecksDone
<1>7. CASE WorkerBumps(t) BY <1>1, <1>2, <1>3, <1>7, ScriptsAreSteps DEF WorkerBumps
<1>8. CASE WorkerDeadLetters(t) BY <1>1, <1>2, <1>3, <1>8, ScriptsAreSteps DEF WorkerDeadLetters
<1>9. CASE WorkerAsksRate(t) BY <1>1, <1>2, <1>3, <1>9, ScriptsAreSteps DEF WorkerAsksRate
<1>10. CASE WorkerReleases(t) BY <1>1, <1>2, <1>3, <1>10, ScriptsAreSteps DEF WorkerReleases
<1>11. CASE WorkerDispatches(t) BY <1>1, <1>2, <1>3, <1>11, ScriptsAreSteps DEF WorkerDispatches
<1>12. CASE WorkerDoesNotDispatch(t) BY <1>1, <1>2, <1>3, <1>12, ScriptsAreSteps DEF WorkerDoesNotDispatch
<1>13. CASE ProviderAnswers(t) BY <1>1, <1>2, <1>3, <1>13, ScriptsAreSteps DEF ProviderAnswers
<1>14. CASE WorkerPublishes(t) BY <1>1, <1>2, <1>3, <1>14, ScriptsAreSteps DEF WorkerPublishes
<1>15. CASE WorkerFinishes(t) BY <1>1, <1>2, <1>3, <1>15, ScriptsAreSteps DEF WorkerFinishes
<1>16. CASE WorkerBeats(t) BY <1>1, <1>2, <1>3, <1>16, ScriptsAreSteps DEF WorkerBeats
<1>17. CASE WorkerDeadline(t) BY <1>1, <1>2, <1>3, <1>17, ScriptsAreSteps DEF WorkerDeadline
<1>18. CASE WorkerCrashes(t) BY <1>1, <1>2, <1>3, <1>18, ScriptsAreSteps DEF WorkerCrashes
<1>19. CASE WorkerFindsNothing(t)
  <2>1. PICK j \in Job : LeaseDiscards(j) \/ (AtHead(j) /\ MarkCanceled(j))
    BY <1>19 DEF WorkerFindsNothing
  <2>2. CASE MarkCanceled(j) BY <2>2 DEF Next, OriginStep
  <2>3. CASE LeaseDiscards(j) BY <2>3 DEF Next, WorkerStep
  <2> QED BY <2>1, <2>2, <2>3
<1>20. CASE WorkerRejects(t) BY <1>20 DEF WorkerRejects
<1> QED BY <1>19, <1>20, <1>4, <1>5, <1>6, <1>7, <1>8, <1>9, <1>10, <1>11, <1>12, <1>13, <1>14, <1>15, <1>16, <1>17, <1>18 DEF WorkerActs

-----------------------------------------------------------------------------
\* An origin's step keeps the deliveries, and leaves named calls behind.
LEMMA OriginKeepsNames ==
    ASSUME CallsNamed, NEW j \in Job, OriginActs(j) PROVE CallsNamed'
<1> USE DEF CallsNamed, workerVars, Runs, Reads, ReadErrs, Errs, GoTo, AnswerWith, Proceeds, WorkerOps
<1>1. CASE AcceptReserved(j) BY <1>1 DEF AcceptReserved
<1>2. CASE AcceptRefused(j) BY <1>2 DEF AcceptRefused
<1>3. CASE AcceptFails(j) BY <1>3 DEF AcceptFails
<1>17. CASE Subscribes(j) BY <1>17 DEF Subscribes
<1>18. CASE Awaits(j) BY <1>18 DEF Awaits
<1>4. CASE ActivateAccepted(j) BY <1>4 DEF ActivateAccepted
<1>5. CASE ActivateRefused(j) BY <1>5 DEF ActivateRefused
<1>6. CASE CancelsOrigin(j) BY <1>6 DEF CancelsOrigin
<1>7. CASE Rereads(j) BY <1>7 DEF Rereads
<1>8. CASE OriginDeadline(j) BY <1>8 DEF OriginDeadline
<1>9. CASE ReadsTerminal(j) BY <1>9 DEF ReadsTerminal
<1>10. CASE OriginBeats(j) BY <1>10 DEF OriginBeats
<1>11. CASE ReadsBack(j) BY <1>11 DEF ReadsBack, ReadsBackStream
<1>12. CASE OriginReceives(j) BY <1>12 DEF OriginReceives
<1>13. CASE BusBreaks(j) BY <1>13 DEF BusBreaks
<1>14. CASE BusClosed(j) BY <1>14 DEF BusClosed
<1>15. CASE CallerLeaves(j) BY <1>15 DEF CallerLeaves
<1>16. CASE PumpCancels(j) BY <1>16 DEF PumpCancels
<1> QED BY <1>1, <1>2, <1>3, <1>4, <1>5, <1>6, <1>7, <1>8, <1>9, <1>10, <1>11, <1>12, <1>13, <1>14, <1>15, <1>16, <1>17, <1>18 DEF OriginActs

\* A delivery's step moves that delivery only.
LEMMA WorkerKeepsNames ==
    ASSUME CallsNamed, NEW t \in Token, WorkerActs(t) PROVE CallsNamed'
<1> USE DEF CallsNamed, originVars, Runs, Reads, ReadErrs, Errs, WorkerAt, WorkerEnds,
        WorkerLeaves, Active, WorkerOps, Envelope, NoEnvelope
<1>1. CASE WorkerLeases(t) BY <1>1 DEF WorkerLeases
<1>2. CASE WorkerLeaseErrs(t) BY <1>2 DEF WorkerLeaseErrs
<1>3. CASE WorkerChecksDone(t) BY <1>3 DEF WorkerChecksDone
<1>4. CASE WorkerBumps(t) BY <1>4 DEF WorkerBumps
<1>5. CASE WorkerDeadLetters(t) BY <1>5 DEF WorkerDeadLetters
<1>6. CASE WorkerAsksRate(t) BY <1>6 DEF WorkerAsksRate
<1>7. CASE WorkerReleases(t) BY <1>7 DEF WorkerReleases
<1>8. CASE WorkerDispatches(t) BY <1>8 DEF WorkerDispatches
<1>9. CASE WorkerDoesNotDispatch(t) BY <1>9 DEF WorkerDoesNotDispatch
<1>10. CASE ProviderAnswers(t) BY <1>10 DEF ProviderAnswers
<1>11. CASE WorkerPublishes(t) BY <1>11 DEF WorkerPublishes
<1>12. CASE WorkerFinishes(t) BY <1>12 DEF WorkerFinishes
<1>13. CASE WorkerBeats(t) BY <1>13 DEF WorkerBeats, HeartbeatCanceled
<1>14. CASE WorkerDeadline(t) BY <1>14 DEF WorkerDeadline
<1>15. CASE WorkerCrashes(t) BY <1>15 DEF WorkerCrashes
<1>16. CASE WorkerFindsNothing(t) BY <1>16 DEF WorkerFindsNothing, workerVars
<1>17. CASE WorkerRejects(t) BY <1>17 DEF WorkerRejects
<1> QED BY <1>16, <1>17, <1>1, <1>2, <1>3, <1>4, <1>5, <1>6, <1>7, <1>8, <1>9, <1>10, <1>11, <1>12, <1>13, <1>14, <1>15 DEF WorkerActs

\* The names stay real along every behaviour of the gateway.
LEMMA NamesInvariant == GatewaySpec => []CallsNamed
<1>1. GatewayInit => CallsNamed
  BY DEF GatewayInit, CallsNamed, Active, Envelope
<1>2. CallsNamed /\ [GatewayNext]_gatewayVars => CallsNamed'
  <2> SUFFICES ASSUME CallsNamed, [GatewayNext]_gatewayVars PROVE CallsNamed'
    OBVIOUS
  <2>1. CASE UNCHANGED gatewayVars
    BY <2>1 DEF CallsNamed, gatewayVars, runVars, workerVars
  <2>2. ASSUME NEW j \in Job, OriginActs(j) PROVE CallsNamed'
    BY <2>2, OriginKeepsNames
  <2>3. ASSUME NEW j \in Job, ReaperRuns(j) \/ TimePasses(j) PROVE CallsNamed'
    BY <2>3 DEF CallsNamed, ReaperRuns, TimePasses, Runs, workerVars
  <2>4. ASSUME NEW t \in Token, WorkerActs(t) PROVE CallsNamed'
    BY <2>4, WorkerKeepsNames
  <2>5. CASE LateRuns
    BY <2>5 DEF CallsNamed, LateRuns, workerVars
  <2> QED BY <2>1, <2>2, <2>3, <2>4, <2>5 DEF GatewayNext
<1> QED BY <1>1, <1>2, PTL DEF GatewaySpec

\* Whoever steps, the store sees one of its scripts or nothing.
LEMMA StoreSteps == CallsNamed /\ [GatewayNext]_gatewayVars => [Next]_vars
<1> SUFFICES ASSUME CallsNamed, [GatewayNext]_gatewayVars PROVE [Next]_vars
  OBVIOUS
<1>1. CASE UNCHANGED gatewayVars BY <1>1 DEF gatewayVars, runVars
<1>2. ASSUME NEW j \in Job, OriginActs(j) PROVE [Next]_vars
  BY <1>2, OriginActsAreSteps
<1>3. ASSUME NEW j \in Job, ReaperRuns(j) \/ TimePasses(j) PROVE [Next]_vars
  BY <1>3 DEF ReaperRuns, TimePasses, Runs, Next
<1>4. ASSUME NEW t \in Token, WorkerActs(t) PROVE [Next]_vars
  BY <1>4, WorkerActsAreSteps
<1>5. CASE LateRuns
  BY <1>5, LateCallsAreSteps DEF LateRuns
<1> QED BY <1>1, <1>2, <1>3, <1>4, <1>5 DEF GatewayNext

\* The gateway uses the store through its scripts alone, also when calls err,
\* run late or are abandoned: its behaviours are behaviours of Lifecycle.
LEMMA GatewayImplementsStore == GatewaySpec => Spec
<1>1. GatewayInit => Init
  BY DEF GatewayInit
<1> QED BY <1>1, StoreSteps, NamesInvariant, PTL DEF GatewaySpec, Spec

\* Whatever clients do, cancellation and every other verdict stay final for
\* what the gateway stores and publishes.
THEOREM GatewayOneVerdict == GatewaySpec => OneVerdict
BY GatewayImplementsStore, StoreImplementsVerdict, PTL

-----------------------------------------------------------------------------
(***************************************************************************)
(* Origins.  What an origin is about to answer is never a result: a result *)
(* is only read from the store or from the bus.  Stream relays never take  *)
(* the paths that read the store.  The guard is armed while the origin is  *)
(* at work.                                                                *)
(***************************************************************************)

OriginPlace == {"idle", "subscribed", "reserved", "accepted", "waiting", "withdrawing", "cancelling", "closing",
                "rereading", "reading", "readback", "answered"}
Given == {NoAnswer, "overloaded", "unavailable", "timeout", "shutdown", "dropped"}
Answers == Given \cup Envelope \cup {"canceled", "lost"}

OriginFields ==
    /\ opc \in [Job -> OriginPlace] /\ giving \in [Job -> Given]
    /\ answer \in [Job -> Answers]
    /\ guard \in [Job -> {"none", "armed", "disarmed", "pumped", "lost"}]
    /\ committed \in [Job -> BOOLEAN] /\ connected \in [Job -> BOOLEAN]
    /\ relayed \in [Job -> SUBSET (Token \cup {NoToken})]

OriginTypes ==
    /\ OriginFields
    /\ bus \in [Job -> Seq(Message)]
    /\ faults \in Nat

SameOrigin(j) ==
    /\ opc'[j] = opc[j] /\ giving'[j] = giving[j] /\ answer'[j] = answer[j]
    /\ guard'[j] = guard[j] /\ connected'[j] = connected[j] /\ relayed'[j] = relayed[j]
    /\ j \in pump' <=> j \in pump

\* An origin's step concerns its own job.
LEMMA Bystanders ==
    ASSUME OriginTypes, NEW k \in Job, OriginActs(k), NEW j \in Job, j # k
    PROVE  SameOrigin(j)
<1> USE DEF OriginTypes, OriginFields, SameOrigin, GoTo, AnswerWith, Proceeds, originVars
<1>1. CASE AcceptReserved(k) BY <1>1 DEF AcceptReserved
<1>2. CASE AcceptRefused(k) BY <1>2 DEF AcceptRefused
<1>3. CASE AcceptFails(k) BY <1>3 DEF AcceptFails
<1>17. CASE Subscribes(k) BY <1>17 DEF Subscribes
<1>18. CASE Awaits(k) BY <1>18 DEF Awaits
<1>4. CASE ActivateAccepted(k) BY <1>4 DEF ActivateAccepted
<1>5. CASE ActivateRefused(k) BY <1>5 DEF ActivateRefused
<1>6. CASE CancelsOrigin(k) BY <1>6 DEF CancelsOrigin
<1>7. CASE Rereads(k) BY <1>7 DEF Rereads
<1>8. CASE OriginDeadline(k) BY <1>8 DEF OriginDeadline
<1>9. CASE ReadsTerminal(k) BY <1>9 DEF ReadsTerminal
<1>10. CASE OriginBeats(k) BY <1>10 DEF OriginBeats
<1>11. CASE ReadsBack(k) BY <1>11 DEF ReadsBack, ReadsBackStream
<1>12. CASE OriginReceives(k) BY <1>12 DEF OriginReceives
<1>13. CASE BusBreaks(k) BY <1>13 DEF BusBreaks
<1>14. CASE BusClosed(k) BY <1>14 DEF BusClosed
<1>15. CASE CallerLeaves(k) BY <1>15 DEF CallerLeaves
<1>16. CASE PumpCancels(k) BY <1>16 DEF PumpCancels
<1> QED BY <1>1, <1>2, <1>3, <1>4, <1>5, <1>6, <1>7, <1>8, <1>9, <1>10,
        <1>11, <1>12, <1>13, <1>14, <1>15, <1>16, <1>17, <1>18 DEF OriginActs

\* Workers, reaper, clock and late calls leave the origins alone.
LEMMA WorkersAside ==
    ASSUME NEW t \in Token, WorkerActs(t) PROVE UNCHANGED <<originVars, pump>>
<1> USE DEF WorkerAt, WorkerEnds, WorkerLeaves
<1>1. CASE WorkerLeases(t) BY <1>1 DEF WorkerLeases
<1>2. CASE WorkerLeaseErrs(t) BY <1>2 DEF WorkerLeaseErrs
<1>3. CASE WorkerFindsNothing(t) BY <1>3 DEF WorkerFindsNothing
<1>4. CASE WorkerRejects(t) BY <1>4 DEF WorkerRejects
<1>5. CASE WorkerChecksDone(t) BY <1>5 DEF WorkerChecksDone
<1>6. CASE WorkerBumps(t) BY <1>6 DEF WorkerBumps
<1>7. CASE WorkerDeadLetters(t) BY <1>7 DEF WorkerDeadLetters
<1>8. CASE WorkerAsksRate(t) BY <1>8 DEF WorkerAsksRate
<1>9. CASE WorkerReleases(t) BY <1>9 DEF WorkerReleases
<1>10. CASE WorkerDispatches(t) BY <1>10 DEF WorkerDispatches
<1>11. CASE WorkerDoesNotDispatch(t) BY <1>11 DEF WorkerDoesNotDispatch
<1>12. CASE ProviderAnswers(t) BY <1>12 DEF ProviderAnswers
<1>13. CASE WorkerPublishes(t) BY <1>13 DEF WorkerPublishes
<1>14. CASE WorkerFinishes(t) BY <1>14 DEF WorkerFinishes
<1>15. CASE WorkerBeats(t) BY <1>15 DEF WorkerBeats, HeartbeatCanceled
<1>16. CASE WorkerDeadline(t) BY <1>16 DEF WorkerDeadline
<1>17. CASE WorkerCrashes(t) BY <1>17 DEF WorkerCrashes
<1> QED BY <1>1, <1>2, <1>3, <1>4, <1>5, <1>6, <1>7, <1>8, <1>9, <1>10,
        <1>11, <1>12, <1>13, <1>14, <1>15, <1>16, <1>17 DEF WorkerActs

\* A step in which no origin acts leaves every origin where it is.
LEMMA Aside ==
    ASSUME GatewayNext, \A k \in Job : ~OriginActs(k)
    PROVE  \A j \in Job : SameOrigin(j)
<1>1. UNCHANGED <<originVars, pump>>
  BY WorkersAside DEF GatewayNext, ReaperRuns, TimePasses, LateRuns
<1> QED BY <1>1 DEF originVars, SameOrigin

\* What is published reaches the listening origins, and only they take it.
BusKeepsUp == BusFollows \/ UNCHANGED <<published, bus>>
FaultsCounted == faults' = faults \/ faults' = faults + 1

\* The bus carries what is published or an origin takes from it, and faults count.
LEMMA BusCases ==
    ASSUME GatewayNext
    PROVE  /\ BusKeepsUp \/ \E k \in Job : OriginReceives(k)
           /\ FaultsCounted
<1> USE DEF BusKeepsUp, FaultsCounted, Runs, Reads, ReadErrs, Errs, Fault, vars
<1>1. ASSUME NEW k \in Job, OriginActs(k)
      PROVE  (BusKeepsUp \/ OriginReceives(k)) /\ FaultsCounted
  <2>1. CASE AcceptReserved(k) BY <2>1 DEF AcceptReserved
  <2>2. CASE AcceptRefused(k) BY <2>2 DEF AcceptRefused
  <2>3. CASE AcceptFails(k) BY <2>3 DEF AcceptFails
  <2>17. CASE Subscribes(k) BY <2>17 DEF Subscribes
  <2>18. CASE Awaits(k) BY <2>18 DEF Awaits
  <2>4. CASE ActivateAccepted(k) BY <2>4 DEF ActivateAccepted
  <2>5. CASE ActivateRefused(k) BY <2>5 DEF ActivateRefused
  <2>6. CASE CancelsOrigin(k) BY <2>6 DEF CancelsOrigin
  <2>7. CASE Rereads(k) BY <2>7 DEF Rereads
  <2>8. CASE OriginDeadline(k) BY <2>8 DEF OriginDeadline
  <2>9. CASE ReadsTerminal(k) BY <2>9 DEF ReadsTerminal
  <2>10. CASE OriginBeats(k) BY <2>10 DEF OriginBeats
  <2>11. CASE ReadsBack(k) BY <2>11 DEF ReadsBack, ReadsBackStream
  <2>12. CASE OriginReceives(k) BY <2>12 DEF OriginReceives
  <2>13. CASE BusBreaks(k) BY <2>13 DEF BusBreaks
  <2>14. CASE BusClosed(k) BY <2>14 DEF BusClosed
  <2>15. CASE CallerLeaves(k) BY <2>15 DEF CallerLeaves
  <2>16. CASE PumpCancels(k) BY <2>16 DEF PumpCancels
  <2> QED BY <1>1, <2>1, <2>2, <2>3, <2>4, <2>5, <2>6, <2>7, <2>8, <2>9,
          <2>10, <2>11, <2>12, <2>13, <2>14, <2>15, <2>16, <2>17, <2>18 DEF OriginActs
<1>2. ASSUME NEW t \in Token, WorkerActs(t) PROVE BusKeepsUp /\ FaultsCounted
  <2>1. CASE WorkerLeases(t) BY <2>1 DEF WorkerLeases
  <2>2. CASE WorkerLeaseErrs(t) BY <2>2 DEF WorkerLeaseErrs
  <2>3. CASE WorkerFindsNothing(t) BY <2>3 DEF WorkerFindsNothing
  <2>4. CASE WorkerRejects(t) BY <2>4 DEF WorkerRejects
  <2>5. CASE WorkerChecksDone(t) BY <2>5 DEF WorkerChecksDone
  <2>6. CASE WorkerBumps(t) BY <2>6 DEF WorkerBumps
  <2>7. CASE WorkerDeadLetters(t) BY <2>7 DEF WorkerDeadLetters
  <2>8. CASE WorkerAsksRate(t) BY <2>8 DEF WorkerAsksRate
  <2>9. CASE WorkerReleases(t) BY <2>9 DEF WorkerReleases
  <2>10. CASE WorkerDispatches(t) BY <2>10 DEF WorkerDispatches
  <2>11. CASE WorkerDoesNotDispatch(t) BY <2>11 DEF WorkerDoesNotDispatch
  <2>12. CASE ProviderAnswers(t) BY <2>12 DEF ProviderAnswers
  <2>13. CASE WorkerPublishes(t) BY <2>13 DEF WorkerPublishes
  <2>14. CASE WorkerFinishes(t) BY <2>14 DEF WorkerFinishes
  <2>15. CASE WorkerBeats(t) BY <2>15 DEF WorkerBeats, HeartbeatCanceled
  <2>16. CASE WorkerDeadline(t) BY <2>16 DEF WorkerDeadline
  <2>17. CASE WorkerCrashes(t) BY <2>17 DEF WorkerCrashes
  <2> QED BY <1>2, <2>1, <2>2, <2>3, <2>4, <2>5, <2>6, <2>7, <2>8, <2>9,
          <2>10, <2>11, <2>12, <2>13, <2>14, <2>15, <2>16, <2>17 DEF WorkerActs
<1>3. ASSUME NEW j \in Job, ReaperRuns(j) \/ TimePasses(j) PROVE BusKeepsUp /\ FaultsCounted
  BY <1>3 DEF ReaperRuns, TimePasses
<1>4. LateRuns => BusKeepsUp /\ FaultsCounted
  BY DEF LateRuns
<1> HIDE DEF BusKeepsUp, FaultsCounted
<1> QED BY <1>1, <1>2, <1>3, <1>4 DEF GatewayNext

\* One message at a time, appended where the origin listens.
Delivered(j, m) ==
    /\ Publishes(j, m) /\ m \notin published[j]
    /\ published'[j] = published[j] \cup {m}
    /\ bus'[j] = IF connected[j] THEN Append(bus[j], m) ELSE bus[j]

\* The bus of a connected origin gets exactly what is published.
LEMMA BusGrows ==
    ASSUME Indexes, [Next]_vars, BusKeepsUp, OriginTypes, NEW j \in Job
    PROVE  \/ published'[j] = published[j] /\ bus'[j] = bus[j]
           \/ \E m \in Message : Delivered(j, m)
<1>0. TypeOK /\ bus \in [Job -> Seq(Message)]
  BY DEF Indexes, OriginTypes
<1>1. CASE UNCHANGED <<published, bus>>
  BY <1>1
<1>2. CASE BusFollows
  <2>1. bus'[j] = IF published'[j] # published[j] /\ connected[j]
                  THEN Append(bus[j], CHOOSE m \in published'[j] \ published[j] : TRUE)
                  ELSE bus[j]
    BY <1>2 DEF BusFollows
  <2>2. CASE published'[j] = published[j]
    BY <2>1, <2>2
  <2>3. CASE published'[j] # published[j]
    <3>1. PICK m \in Message : Publishes(j, m) /\ published'[j] = published[j] \cup {m}
      BY <1>0, <2>3, OneMessage DEF Publishes, Emit, TypeOK
    <3>2. published'[j] \ published[j] = {m}
      BY <2>3, <3>1
    <3>3. (CHOOSE x \in published'[j] \ published[j] : TRUE) = m
      BY <3>2
    <3> QED BY <2>1, <2>3, <3>1, <3>2, <3>3 DEF Delivered
  <2> QED BY <2>2, <2>3
<1> QED BY <1>1, <1>2 DEF BusKeepsUp

\* The head of the bus and what is left behind it.
LEMMA BusTakes ==
    ASSUME OriginTypes, NEW k \in Job, OriginReceives(k)
    PROVE  /\ bus[k][1] \in Message /\ Len(bus[k]) \in Nat \ {0}
           /\ Tail(bus[k]) \in Seq(Message) /\ Len(Tail(bus[k])) = Len(bus[k]) - 1
           /\ \A i \in 1..(Len(bus[k]) - 1) : Tail(bus[k])[i] = bus[k][i + 1]
           /\ bus' = [bus EXCEPT ![k] = Tail(bus[k])]
           /\ published' = published
<1>1. bus[k] \in Seq(Message) /\ bus[k] # <<>>
  BY DEF OriginTypes, OriginReceives
<1>2. bus' = [bus EXCEPT ![k] = Tail(bus[k])] /\ published' = published
  BY DEF OriginReceives, vars
<1> QED BY <1>1, <1>2

\* The types are kept.
LEMMA MoveTypes ==
    ASSUME OriginFields, NEW k \in Job, NEW pc \in OriginPlace, NEW g \in Given,
           opc' = [opc EXCEPT ![k] = pc],
           giving' = giving \/ giving' = [giving EXCEPT ![k] = g],
           committed' = committed \/ committed' = [committed EXCEPT ![k] = TRUE],
           UNCHANGED <<answer, guard, connected, relayed>>
    PROVE  OriginFields'
BY DEF OriginFields

\* Moving an origin keeps its types.
LEMMA GoToTypes ==
    ASSUME OriginFields, NEW k \in Job, NEW pc \in OriginPlace, GoTo(k, pc)
    PROVE  OriginFields'
<1>1. NoAnswer \in Given BY DEF Given
<1> QED BY <1>1, MoveTypes DEF GoTo

\* So does going on towards waiting.
LEMMA ProceedTypes ==
    ASSUME OriginFields, NEW k \in Job, NEW pc \in OriginPlace, Proceeds(k, pc),
           guard' = guard \/ guard' = [guard EXCEPT ![k] = "armed"]
    PROVE  OriginFields'
BY DEF OriginFields, Proceeds, SubscribesAt

\* Answering a caller keeps the origin's types.
LEMMA AnswerTypes ==
    ASSUME OriginFields, NEW k \in Job, NEW a \in Answers, NEW d, AnswerWith(k, a, d)
    PROVE  OriginFields'
<1>1. /\ opc' = [opc EXCEPT ![k] = "answered"] /\ answer' = [answer EXCEPT ![k] = a]
      /\ giving' = [giving EXCEPT ![k] = NoAnswer]
      /\ committed' = [committed EXCEPT ![k] = FALSE]
      /\ connected' = [connected EXCEPT ![k] = FALSE]
      /\ relayed' = relayed
      /\ \/ guard' = guard
         \/ \E g \in {"disarmed", "pumped", "lost"} : guard' = [guard EXCEPT ![k] = g]
  BY DEF AnswerWith
<1> QED BY <1>1 DEF OriginFields, OriginPlace, Given

\* Every step keeps the origins' types.
LEMMA OriginTypesStep ==
    ASSUME OriginTypes, Indexes, [Next]_vars, GatewayNext PROVE OriginTypes'
<1>0. /\ OriginFields /\ giving \in [Job -> Given]
      /\ terminal \in [Job -> Envelope \cup {NoEnvelope}]
      /\ \A k \in Job : OriginReceives(k) => bus[k][1] \in Message
  BY BusTakes DEF OriginTypes, OriginFields, Indexes, TypeOK
<1>1. ASSUME NEW k \in Job, OriginActs(k) PROVE OriginFields'
  <2>a. ASSUME NEW a \in Answers, NEW d, AnswerWith(k, a, d) PROVE OriginFields'
    BY <1>0, <2>a, AnswerTypes
  <2>b. ASSUME NEW pc \in OriginPlace, GoTo(k, pc) PROVE OriginFields'
    BY <1>0, <2>b, GoToTypes
  <2>c. /\ {"overloaded", "timeout", "unavailable", "canceled", "lost", "dropped"}
             \cup Envelope \subseteq Answers
        /\ giving[k] \in Answers /\ giving[k] \in Given
        /\ terminal[k] # NoEnvelope => terminal[k] \in Answers
    BY <1>0 DEF Answers, Given
  <2>d. {"waiting", "rereading", "cancelling", "readback", "reading", "withdrawing",
         "closing", "subscribed", "reserved", "accepted"} \subseteq OriginPlace
    BY DEF OriginPlace
  <2>e. {"overloaded", "unavailable", "timeout", "shutdown", "dropped"} \subseteq Given
    BY DEF Given
  <2>1. CASE AcceptReserved(k) BY <1>0, <2>1, <2>d, ProceedTypes DEF AcceptReserved
  <2>2. CASE AcceptRefused(k) BY <2>2, <2>a, <2>c DEF AcceptRefused
  <2>3. CASE AcceptFails(k) BY <2>3, <2>a, <2>c DEF AcceptFails
  <2>4. CASE ActivateAccepted(k) BY <1>0, <2>4, <2>d, ProceedTypes DEF ActivateAccepted
  <2>17. CASE Subscribes(k) BY <1>0, <2>17, <2>d, ProceedTypes DEF Subscribes
  <2>18. CASE Awaits(k) BY <1>0, <2>18, <2>d, ProceedTypes DEF Awaits
  <2>5. CASE ActivateRefused(k)
    BY <1>0, <2>5, <2>d, <2>e, MoveTypes DEF ActivateRefused
  <2>6. CASE CancelsOrigin(k) BY <2>6, <2>a, <2>b, <2>c, <2>d DEF CancelsOrigin
  <2>7. CASE Rereads(k) BY <2>7, <2>a, <2>c DEF Rereads
  <2>8. CASE OriginDeadline(k)
    BY <1>0, <2>8, <2>a, <2>c, <2>d, <2>e, MoveTypes DEF OriginDeadline
  <2>9. CASE ReadsTerminal(k) BY <2>9, <2>a, <2>b, <2>c, <2>d DEF ReadsTerminal
  <2>10. CASE OriginBeats(k) BY <2>10, <2>a, <2>b, <2>c, <2>d DEF OriginBeats
  <2>11. CASE ReadsBack(k)
    <3>1. ReadsBackStream(k) => OriginFields'
      BY <1>0, <2>d, <2>e, MoveTypes DEF ReadsBackStream
    <3> QED BY <2>11, <2>a, <2>c, <3>1 DEF ReadsBack
  <2>12. CASE OriginReceives(k)
    <3> DEFINE m == bus[k][1]
    <3>1. m \in Message
      BY <1>0, <2>12
    <3>2. m.by \in Token \cup {NoToken} /\ m.kind \in Envelope \cup {"chunk"}
      BY <3>1 DEF Message
    <3>3. \/ /\ relayed' = [relayed EXCEPT ![k] = @ \cup {m.by}]
             /\ UNCHANGED <<opc, giving, answer, guard, committed, connected>>
          \/ m.kind # "chunk" /\ AnswerWith(k, m.kind, TRUE)
      BY <2>12 DEF OriginReceives
    <3> HIDE DEF m
    <3>4. CASE /\ relayed' = [relayed EXCEPT ![k] = @ \cup {m.by}]
               /\ UNCHANGED <<opc, giving, answer, guard, committed, connected>>
      BY <1>0, <3>2, <3>4 DEF OriginFields
    <3> QED BY <2>a, <2>c, <3>2, <3>3, <3>4
  <2>13. CASE BusBreaks(k) BY <1>0, <2>13 DEF BusBreaks, OriginFields
  <2>14. CASE BusClosed(k)
    BY <1>0, <2>14, <2>a, <2>c, <2>d, <2>e, MoveTypes DEF BusClosed
  <2>15. CASE CallerLeaves(k)
    BY <1>0, <2>15, <2>a, <2>c, <2>d, <2>e, MoveTypes DEF CallerLeaves
  <2>16. CASE PumpCancels(k) BY <1>0, <2>16 DEF PumpCancels, OriginFields, originVars
  <2> QED BY <1>1, <2>1, <2>2, <2>3, <2>4, <2>5, <2>6, <2>7, <2>8, <2>9, <2>10, <2>11,
             <2>12, <2>13, <2>14, <2>15, <2>16, <2>17, <2>18 DEF OriginActs
<1>2. ASSUME \A k \in Job : ~OriginActs(k) PROVE OriginFields'
  <2>1. UNCHANGED <<originVars, pump>>
    BY <1>2, WorkersAside DEF GatewayNext, ReaperRuns, TimePasses, LateRuns
  <2> QED BY <1>0, <2>1 DEF originVars, OriginFields
<1>3. bus' \in [Job -> Seq(Message)]
  <2>1. bus \in [Job -> Seq(Message)]
    BY DEF OriginTypes
  <2>2. CASE BusKeepsUp
    <3>0. ASSUME NEW j \in Job PROVE bus'[j] \in Seq(Message)
      <4>1. bus[j] \in Seq(Message)
        BY <2>1
      <4>2. CASE published'[j] = published[j] /\ bus'[j] = bus[j]
        BY <4>1, <4>2
      <4>3. ASSUME NEW m \in Message, Delivered(j, m) PROVE bus'[j] \in Seq(Message)
        BY <4>1, <4>3 DEF Delivered
      <4> QED BY <2>2, <4>2, <4>3, BusGrows
    <3>1. DOMAIN bus' = Job /\ bus' = [j \in Job |-> bus'[j]]
      BY <2>1, <2>2 DEF BusKeepsUp, BusFollows
    <3> QED BY <3>0, <3>1
  <2>3. ASSUME NEW k \in Job, OriginReceives(k) PROVE bus' \in [Job -> Seq(Message)]
    BY <2>1, <2>3, BusTakes
  <2> QED BY <2>2, <2>3, BusCases
<1>4. faults' \in Nat
  BY BusCases DEF FaultsCounted, OriginTypes
<1>5. OriginFields'
  <2> QED BY <1>1, <1>2
<1> QED BY <1>3, <1>4, <1>5 DEF OriginTypes

-----------------------------------------------------------------------------
(***************************************************************************)
(* Results.  What an origin has unread was published, and a result it told *)
(* its caller was published too; the store's own invariant does the rest.  *)
(***************************************************************************)

AnswerOk(j) ==
    /\ \A i \in 1..Len(bus[j]) : bus[j][i] \in published[j]
    /\ answer[j] = "result" => "result" \in Heard(j)

\* A result comes from the store or from the bus.
LEMMA ResultSource ==
    ASSUME OriginTypes, NEW j \in Job, GatewayNext, answer[j] # "result", answer'[j] = "result"
    PROVE  \/ j \notin streams /\ terminal[j] = "result"
           \/ OriginReceives(j) /\ bus[j][1].kind = "result"
           \/ opc[j] = "rereading" /\ terminal[j] = "result"
           \/ opc[j] = "reading" /\ terminal[j] = "result"
<1>1. OriginActs(j)
  <2>1. ~SameOrigin(j) BY DEF SameOrigin
  <2> QED BY <2>1, Aside, Bystanders
<1>2. answer \in [Job -> Answers] /\ giving[j] # "result"
  BY DEF OriginTypes, OriginFields, Given, NoAnswer
<1>3. \A a, d : AnswerWith(j, a, d) => answer'[j] = a
  BY <1>2 DEF AnswerWith
<1> USE DEF GoTo, Proceeds
<1>4. ~AcceptReserved(j) BY DEF AcceptReserved
<1>5. ~AcceptRefused(j) BY <1>3 DEF AcceptRefused
<1>6. ~AcceptFails(j) BY <1>3 DEF AcceptFails
<1>20. ~Subscribes(j) BY DEF Subscribes
<1>21. ~Awaits(j) BY DEF Awaits
<1>7. ~ActivateAccepted(j) BY DEF ActivateAccepted
<1>8. ~ActivateRefused(j) BY DEF ActivateRefused
<1>9. ~CancelsOrigin(j) BY <1>2, <1>3 DEF CancelsOrigin
<1>10. ~OriginDeadline(j) BY <1>3 DEF OriginDeadline
<1>11. ~OriginBeats(j) BY <1>3 DEF OriginBeats
<1>12. ~BusBreaks(j) BY DEF BusBreaks
<1>13. ~BusClosed(j) BY <1>3 DEF BusClosed
<1>14. ~CallerLeaves(j) BY <1>3 DEF CallerLeaves
<1>15. ~PumpCancels(j) BY DEF PumpCancels, originVars
<1>16. Rereads(j) => opc[j] = "rereading" /\ terminal[j] = "result"
  BY <1>2, <1>3 DEF Rereads
<1>17. ReadsTerminal(j) => opc[j] = "reading" /\ terminal[j] = "result"
  BY <1>3 DEF ReadsTerminal
<1>18. ReadsBack(j) => j \notin streams /\ terminal[j] = "result"
  BY <1>3 DEF ReadsBack, ReadsBackStream
<1>19. OriginReceives(j) => bus[j][1].kind = "result"
  BY <1>3 DEF OriginReceives
<1> QED BY <1>1, <1>4, <1>5, <1>6, <1>7, <1>8, <1>9, <1>10, <1>11, <1>12, <1>13, <1>14,
           <1>15, <1>16, <1>17, <1>18, <1>19, <1>20, <1>21 DEF OriginActs

\* Every step keeps what an answer means.
LEMMA AnswerStep ==
    ASSUME OriginTypes, Indexes, MarkAgrees, [Next]_vars, GatewayNext, NEW j \in Job,
           AnswerOk(j)
    PROVE  AnswerOk(j)'
<1>1. published[j] \subseteq published'[j] /\ Heard(j) \subseteq Heard(j)'
  BY OneMessage, HeardKept DEF Indexes
<1>2. bus[j] \in Seq(Message)
  BY DEF OriginTypes
<1>3. \A i \in 1..Len(bus'[j]) : bus'[j][i] \in published'[j]
  <2>1. CASE published'[j] = published[j] /\ bus'[j] = bus[j]
    BY <2>1 DEF AnswerOk
  <2>2. ASSUME NEW m \in Message, Delivered(j, m)
        PROVE  \A i \in 1..Len(bus'[j]) : bus'[j][i] \in published'[j]
    BY <1>1, <1>2, <2>2 DEF Delivered, AnswerOk
  <2>3. ASSUME NEW k \in Job, OriginReceives(k)
        PROVE  \A i \in 1..Len(bus'[j]) : bus'[j][i] \in published'[j]
    <3>1. CASE k = j
      <4>1. /\ bus'[j] = Tail(bus[j]) /\ published'[j] = published[j]
            /\ Len(Tail(bus[j])) = Len(bus[j]) - 1 /\ Len(bus[j]) \in Nat
            /\ \A i \in 1..(Len(bus[j]) - 1) : Tail(bus[j])[i] = bus[j][i + 1]
        BY <2>3, <3>1, BusTakes DEF OriginTypes
      <4>2. \A i \in 1..(Len(bus[j]) - 1) : i + 1 \in 1..Len(bus[j])
        BY <4>1
      <4> QED BY <4>1, <4>2 DEF AnswerOk
    <3>2. CASE k # j
      BY <2>3, <3>2, BusTakes DEF AnswerOk, OriginTypes
    <3> QED BY <3>1, <3>2
  <2> QED BY <2>1, <2>2, <2>3, BusCases, BusGrows
<1>4. answer'[j] = "result" => "result" \in Heard(j)'
  <2>1. CASE answer[j] = "result"
    BY <1>1, <2>1 DEF AnswerOk
  <2>2. CASE terminal[j] = "result"
    BY <1>1, <2>2 DEF MarkAgrees
  <2>3. CASE OriginReceives(j) /\ bus[j][1].kind = "result"
    <3>1. bus[j][1] \in published[j]
      BY <2>3, BusTakes DEF AnswerOk
    <3> QED BY <1>1, <2>3, <3>1 DEF Heard
  <2> QED BY <2>1, <2>2, <2>3, ResultSource
<1> QED BY <1>3, <1>4 DEF AnswerOk

\* Everything the inductions below rest on.
GatewayFacts == CallsNamed /\ OriginTypes /\ Indexes /\ HeardIsVerdict /\ MarkAgrees

\* The facts about store, calls and origins hold in every reachable state.
LEMMA GatewayInvariant == GatewaySpec => []GatewayFacts
<1>1. GatewayInit => OriginTypes
  BY DEF GatewayInit, OriginTypes, OriginFields, OriginPlace, Given, Answers, NoAnswer
<1>2. OriginTypes /\ Indexes /\ CallsNamed /\ [GatewayNext]_gatewayVars => OriginTypes'
  <2>1. UNCHANGED gatewayVars /\ OriginTypes => OriginTypes'
    BY DEF gatewayVars, runVars, originVars, OriginTypes, OriginFields
  <2> QED BY <2>1, OriginTypesStep, StoreSteps
<1> QED BY <1>1, <1>2, NamesInvariant, GatewayImplementsStore, IndexesInvariant,
           HeardInvariant, PTL DEF GatewaySpec, GatewayFacts

\* A caller is told a result only when it is the one durable verdict, however
\* the bus, the store's replies, cancellation and cleanup interleave.
THEOREM ResultIsVerdictHolds == GatewaySpec => []ResultIsVerdict
<1> DEFINE Inv == \A j \in Job : AnswerOk(j)
<1>1. GatewayInit => Inv
  BY DEF GatewayInit, AnswerOk, NoAnswer
<1>2. Inv /\ GatewayFacts /\ [GatewayNext]_gatewayVars => Inv'
  <2>1. UNCHANGED gatewayVars /\ Inv => Inv'
    BY DEF gatewayVars, runVars, originVars, vars, AnswerOk, Heard
  <2>2. GatewayFacts /\ GatewayNext /\ Inv => Inv'
    BY StoreSteps, AnswerStep DEF GatewayFacts
  <2> QED BY <2>1, <2>2
<1>3. Inv /\ GatewayFacts => ResultIsVerdict
  <2> SUFFICES ASSUME GatewayFacts, NEW j \in Job, "result" \in Heard(j)
               PROVE  /\ "cancel" \notin Heard(j)
                      /\ meta[j] = "full" => terminal[j] = "result" /\ ~cancel[j]
    BY DEF AnswerOk, ResultIsVerdict
  <2>1. Verdict(j) \in {"result", "forgotten"}
    BY DEF GatewayFacts, HeardIsVerdict, Envelope
  <2>2. "cancel" \notin Heard(j)
    BY DEF GatewayFacts, HeardIsVerdict, Envelope
  <2>3. CASE meta[j] = "full"
    <3>1. j \in issued
      BY <2>3 DEF GatewayFacts, Indexes, NothingUnindexed, Remnants
    <3>2. terminal[j] = "result"
      BY <2>1, <2>3, <3>1 DEF Verdict, GatewayFacts, Indexes, TypeOK, Envelope, NoEnvelope
    <3> QED BY <2>2, <3>2 DEF GatewayFacts, MarkAgrees, NoEnvelope
  <2> QED BY <2>2, <2>3
<1> QED BY <1>1, <1>2, <1>3, GatewayInvariant, PTL DEF GatewaySpec

-----------------------------------------------------------------------------
(***************************************************************************)
(* Guards.  A settled job stays settled; the origin that disarms its guard *)
(* has seen it settled, and the pump settles what it is handed.            *)
(***************************************************************************)

\* A reservation is never unmade.
LEMMA IssuedKept == ASSUME [Next]_vars PROVE issued \subseteq issued'
<1>1. ASSUME NEW k \in Job, OriginStep(k) PROVE issued \subseteq issued'
  BY <1>1 DEF OriginStep, Reserve, Activate, CancelProcessing, CancelUnleased,
     EndUnleased, OriginHeartbeat, MarkCanceled, history
<1>2. ASSUME NEW k \in Job, ReaperStep(k) PROVE issued \subseteq issued'
  BY <1>2 DEF ReaperStep, ExpireOriginProcessing, CancelProcessing,
     ExpireOriginUnleased, EndUnleased, ExpireOriginStale, CleanupPostpone,
     CleanupRelease, ReapCanceled, ReapRequeue, ReapOrphan, history
<1>3. ASSUME NEW k \in Job, TimeStep(k) PROVE issued \subseteq issued'
  BY <1>3 DEF TimeStep, LeaseElapses, OriginElapses, ExpiryElapses, MetaHardExpires, history
<1>4. ASSUME NEW k \in Job, NEW t \in Token, WorkerStep(k, t) PROVE issued \subseteq issued'
  BY <1>4 DEF WorkerStep, LeaseDiscards, Lease, Ack, Release, Refresh, Publish,
     TerminalPublishComplete, TerminalPublishCanceled, DeadLetterCanceled,
     DeadLetterOverflow, DeadLetter, history
<1>5. CASE UNCHANGED vars BY <1>5 DEF vars, history
<1> QED BY <1>1, <1>2, <1>3, <1>4, <1>5 DEF Next

\* No script makes a settled job startable again.
LEMMA SettledStays ==
    ASSUME Indexes, [Next]_vars, NEW j \in Job, j \in issued, Settled(j)
    PROVE  j \in issued' /\ Settled(j)'
<1> USE ConstantsAssumption DEF ConstantsAssumption, Settled, Canceled, OriginExpired,
        SameGeneration, Live, Become, metaVars, history, Indexes, TypeOK, IndexAgreement
<1> DEFINE Goal == j \in issued' /\ Settled(j)'
<1>1. ASSUME NEW k \in Job, OriginStep(k) PROVE Goal
  <2>1. CASE Reserve(k) BY <2>1 DEF Reserve
  <2>2. CASE Activate(k) BY <2>2 DEF Activate
  <2>3. CASE CancelProcessing(k) BY <2>3 DEF CancelProcessing
  <2>4. CASE CancelUnleased(k) BY <2>4 DEF CancelUnleased, EndUnleased
  <2>5. CASE OriginHeartbeat(k) BY <2>5 DEF OriginHeartbeat
  <2>6. CASE MarkCanceled(k) BY <2>6 DEF MarkCanceled
  <2> QED BY <1>1, <2>1, <2>2, <2>3, <2>4, <2>5, <2>6 DEF OriginStep
<1>2. ASSUME NEW k \in Job, ReaperStep(k) PROVE Goal
  <2>1. CASE ExpireOriginProcessing(k)
    BY <2>1 DEF ExpireOriginProcessing, CancelProcessing
  <2>2. CASE ExpireOriginUnleased(k) BY <2>2 DEF ExpireOriginUnleased, EndUnleased
  <2>3. CASE ExpireOriginStale(k) BY <2>3 DEF ExpireOriginStale
  <2>4. CASE CleanupPostpone(k) BY <2>4 DEF CleanupPostpone
  <2>5. CASE CleanupRelease(k) BY <2>5 DEF CleanupRelease
  <2>6. CASE ReapCanceled(k) BY <2>6 DEF ReapCanceled, End
  <2>7. CASE ReapRequeue(k) BY <2>7 DEF ReapRequeue
  <2>8. CASE ReapOrphan(k) BY <2>8 DEF ReapOrphan
  <2> QED BY <1>2, <2>1, <2>2, <2>3, <2>4, <2>5, <2>6, <2>7, <2>8 DEF ReaperStep
<1>3. ASSUME NEW k \in Job, TimeStep(k) PROVE Goal
  <2>1. CASE LeaseElapses(k) BY <2>1 DEF LeaseElapses
  <2>2. CASE OriginElapses(k) BY <2>2 DEF OriginElapses
  <2>3. CASE ExpiryElapses(k) BY <2>3 DEF ExpiryElapses
  <2>4. CASE MetaHardExpires(k) BY <2>4 DEF MetaHardExpires
  <2> QED BY <1>3, <2>1, <2>2, <2>3, <2>4 DEF TimeStep
<1>4. ASSUME NEW k \in Job, NEW t \in Token, WorkerStep(k, t) PROVE Goal
  <2>1. CASE LeaseDiscards(k) BY <2>1 DEF LeaseDiscards
  <2>2. CASE Lease(k, t) BY <2>2 DEF Lease
  <2>3. CASE Ack(k, t) BY <2>3 DEF Ack
  <2>4. CASE Release(k, t) BY <2>4 DEF Release
  <2>5. CASE Refresh(k, t) BY <2>5 DEF Refresh
  <2>6. CASE Publish(k, t) BY <2>6 DEF Publish
  <2>7. ASSUME NEW envelope \in {"result", "error"}, NEW n \in 1..Headroom,
               TerminalPublishComplete(k, t, envelope, n)
        PROVE Goal
    BY <2>7 DEF TerminalPublishComplete, End
  <2>8. CASE TerminalPublishCanceled(k, t) BY <2>8 DEF TerminalPublishCanceled, End
  <2>9. CASE DeadLetterCanceled(k, t) BY <2>9 DEF DeadLetterCanceled, End
  <2>10. CASE DeadLetterOverflow(k, t) BY <2>10 DEF DeadLetterOverflow, End
  <2>11. CASE DeadLetter(k, t) BY <2>11 DEF DeadLetter
  <2> QED BY <1>4, <2>1, <2>2, <2>3, <2>4, <2>5, <2>6, <2>7, <2>8, <2>9, <2>10, <2>11
          DEF WorkerStep
<1>5. CASE UNCHANGED vars BY <1>5 DEF vars
<1> QED BY <1>1, <1>2, <1>3, <1>4, <1>5 DEF Next

\* The cancel script settles the job, whatever it answers.
LEMMA CancelSettles ==
    ASSUME Indexes, NEW j \in Job, CancelScript(j) PROVE Settled(j)'
<1> USE DEF Settled, Canceled, OriginExpired, SameGeneration, Live, Indexes, TypeOK, Become
<1>1. CASE CancelProcessing(j) BY <1>1 DEF CancelProcessing
<1>2. CASE CancelUnleased(j) BY <1>2 DEF CancelUnleased, EndUnleased
<1>3. CASE CancelReply(j) \in {0, 3} /\ UNCHANGED vars
  <2>1. ~(SameGeneration(j) /\ state[j] \in Live)
    BY <1>3 DEF CancelReply
  <2> QED BY <1>3, <2>1 DEF vars, metaVars
<1> QED BY <1>1, <1>2, <1>3 DEF CancelScript

\* A final envelope, stored or heard, belongs to a settled job.
LEMMA FinalIsSettled ==
    ASSUME Indexes, HeardIsVerdict, NEW j \in Job,
           terminal[j] # NoEnvelope \/ \E e \in Envelope : e \in Heard(j)
    PROVE  Settled(j)
<1> USE DEF Settled, Canceled, SameGeneration, Live
<1>1. CASE terminal[j] # NoEnvelope
  BY <1>1 DEF Indexes, IndexAgreement
<1>2. ASSUME NEW e \in Envelope, e \in Heard(j), terminal[j] = NoEnvelope, meta[j] = "full"
      PROVE  cancel[j]
  <2>1. j \in issued
    BY <1>2 DEF Indexes, NothingUnindexed, Remnants
  <2>2. Verdict(j) # "open"
    BY <1>2 DEF HeardIsVerdict, Envelope
  <2> QED BY <1>2, <2>1, <2>2 DEF Verdict
<1> QED BY <1>1, <1>2

GuardOk(j) ==
    /\ opc[j] \in {"idle", "subscribed"} => guard[j] = "none"
    /\ opc[j] \notin {"idle", "subscribed", "answered"} => guard[j] = "armed"
    /\ guard[j] # "none" => j \in issued
    /\ opc[j] = "rereading" => Settled(j)
    /\ guard[j] = "disarmed" => Settled(j)
    /\ guard[j] = "pumped" /\ j \notin pump /\ faults = 0 => Settled(j)

\* Steps of others.
LEMMA GuardBystander ==
    ASSUME OriginTypes, Indexes, [Next]_vars, FaultsCounted, NEW j \in Job, GuardOk(j),
           SameOrigin(j)
    PROVE  GuardOk(j)'
<1>1. j \in issued /\ Settled(j) => j \in issued' /\ Settled(j)'
  BY SettledStays
<1>2. faults' = 0 => faults = 0
  BY DEF FaultsCounted, OriginTypes
<1>3. j \in issued => j \in issued'
  BY IssuedKept
<1> QED BY <1>1, <1>2, <1>3 DEF GuardOk, SameOrigin

\* The origin moves on with its guard in hand.
MovesTo(k, pc) == opc' = [opc EXCEPT ![k] = pc] /\ guard' = guard

\* An origin that moves on between its first and last place keeps its guard.
LEMMA GuardMoves ==
    ASSUME OriginTypes, Indexes, [Next]_vars, NEW k \in Job, GuardOk(k),
           NEW pc, MovesTo(k, pc), pc \notin {"idle", "subscribed", "answered"},
           opc[k] \notin {"idle", "subscribed", "answered"},
           pc = "rereading" => Settled(k)'
    PROVE  GuardOk(k)'
<1>1. opc'[k] = pc /\ guard'[k] = "armed"
  BY DEF GuardOk, OriginTypes, OriginFields, MovesTo
<1>2. k \in issued'
  BY IssuedKept DEF GuardOk
<1> QED BY <1>1, <1>2 DEF GuardOk

\* It answers; a disarmed guard needs a settled job.
LEMMA GuardAnswers ==
    ASSUME OriginTypes, CallsNamed, Indexes, [Next]_vars, NEW k \in Job, GuardOk(k),
           opc[k] # "answered", NEW a, NEW d, AnswerWith(k, a, d),
           opc[k] \notin {"idle", "subscribed"} /\ d => Settled(k)'
    PROVE  GuardOk(k)'
<1>1. opc'[k] = "answered"
  BY DEF AnswerWith, OriginTypes, OriginFields
<1>2. CASE opc[k] \in {"idle", "subscribed"}
  <2>1. guard[k] = "none" /\ guard' = guard
    BY <1>2 DEF GuardOk, AnswerWith
  <2> QED BY <1>1, <2>1 DEF GuardOk
<1>3. CASE opc[k] \notin {"idle", "subscribed"}
  <2>1. guard[k] = "armed" /\ k \in issued'
    BY <1>3, IssuedKept DEF GuardOk
  <2>2. \/ d /\ guard' = [guard EXCEPT ![k] = "disarmed"]
        \/ guard' = [guard EXCEPT ![k] = "pumped"] /\ pump' = pump \cup {k}
        \/ guard' = [guard EXCEPT ![k] = "lost"]
    BY <2>1 DEF AnswerWith
  <2>3. guard \in [Job -> {"none", "armed", "disarmed", "pumped", "lost"}]
    BY DEF OriginTypes, OriginFields
  <2>4. \/ d /\ guard'[k] = "disarmed"
        \/ guard'[k] = "pumped" /\ k \in pump'
        \/ guard'[k] = "lost"
    BY <2>2, <2>3
  <2> QED BY <1>1, <1>3, <2>1, <2>4 DEF GuardOk
<1> QED BY <1>2, <1>3

\* Every step keeps every origin's guard in order.
LEMMA GuardStep ==
    ASSUME GatewayFacts, GatewayNext, \A j \in Job : GuardOk(j) /\ AnswerOk(j)
    PROVE  \A j \in Job : GuardOk(j)'
<1>0. /\ OriginTypes /\ Indexes /\ CallsNamed /\ HeardIsVerdict /\ [Next]_vars
      /\ FaultsCounted
  BY StoreSteps, BusCases DEF GatewayFacts
<1>1. SUFFICES ASSUME NEW k \in Job, OriginActs(k) PROVE GuardOk(k)'
  <2>1. ASSUME NEW j \in Job, NEW k \in Job, OriginActs(k), j # k PROVE GuardOk(j)'
    BY <1>0, <2>1, Bystanders, GuardBystander
  <2>2. ASSUME NEW j \in Job, \A k \in Job : ~OriginActs(k) PROVE GuardOk(j)'
    BY <1>0, <2>2, Aside, GuardBystander
  <2> QED BY <2>1, <2>2
<1>2. GuardOk(k) /\ AnswerOk(k)
  OBVIOUS
<1>a. ASSUME NEW a, NEW d, AnswerWith(k, a, d), opc[k] # "answered",
             opc[k] \notin {"idle", "subscribed"} /\ d => Settled(k)'
      PROVE  GuardOk(k)'
  BY <1>0, <1>2, <1>a, GuardAnswers
<1>b. ASSUME NEW pc, MovesTo(k, pc), pc \notin {"idle", "subscribed", "answered"},
             opc[k] \notin {"idle", "subscribed", "answered"},
             pc = "rereading" => Settled(k)'
      PROVE  GuardOk(k)'
  BY <1>0, <1>2, <1>b, GuardMoves
<1>c. ASSUME NEW pc, GoTo(k, pc), pc \notin {"idle", "subscribed", "answered", "rereading"},
             opc[k] \notin {"idle", "subscribed", "answered"}
      PROVE  GuardOk(k)'
  BY <1>b, <1>c DEF GoTo, MovesTo
<1>s. Settled(k) /\ opc[k] \notin {"idle", "subscribed", "answered"} => Settled(k)'
  BY <1>0, <1>2, SettledStays DEF GuardOk
<1>t. terminal[k] # NoEnvelope => Settled(k)
  BY <1>0, FinalIsSettled
<1>3. CASE AcceptReserved(k)
  <2>1. opc'[k] = "reserved" /\ guard'[k] = "armed" /\ k \in issued'
    BY <1>0, <1>3 DEF AcceptReserved, Proceeds, Runs, Reserve, OriginTypes, OriginFields
  <2> QED BY <2>1 DEF GuardOk
<1>4. CASE AcceptRefused(k) BY <1>4, <1>a DEF AcceptRefused
<1>5. CASE AcceptFails(k) BY <1>5, <1>a DEF AcceptFails
<1>6. CASE ActivateAccepted(k)
  BY <1>6, <1>b DEF ActivateAccepted, Proceeds, MovesTo
<1>19. CASE Subscribes(k)
  <2>1. opc'[k] = "subscribed" /\ guard' = guard /\ guard[k] = "none"
    BY <1>0, <1>2, <1>19 DEF Subscribes, Proceeds, OriginTypes, OriginFields, GuardOk
  <2> QED BY <2>1 DEF GuardOk
<1>20. CASE Awaits(k) BY <1>20, <1>b DEF Awaits, Proceeds, MovesTo
<1>7. CASE ActivateRefused(k)
  <2>1. MovesTo(k, "withdrawing") /\ opc[k] = "reserved"
    BY <1>7 DEF ActivateRefused, MovesTo
  <2> QED BY <1>b, <2>1
<1>8. CASE CancelsOrigin(k)
  <2>1. opc[k] \in {"withdrawing", "cancelling", "closing"}
    BY <1>8 DEF CancelsOrigin
  <2>2. CancelScript(k) => Settled(k)'
    BY <1>0, CancelSettles
  <2>3. ~Disarms(0)
    BY DEF Disarms
  <2>4. CASE CancelScript(k) /\ GoTo(k, "rereading")
    <3>1. MovesTo(k, "rereading")
      BY <2>4 DEF GoTo, MovesTo
    <3> QED BY <1>b, <2>1, <2>2, <2>4, <3>1
  <2>5. CASE CancelScript(k) /\ AnswerWith(k, giving[k], Disarms(CancelReply(k)))
    BY <1>a, <2>1, <2>2, <2>5
  <2>6. CASE AnswerWith(k, giving[k], Disarms(0))
    BY <1>a, <2>1, <2>3, <2>6
  <2> QED BY <1>8, <2>4, <2>5, <2>6 DEF CancelsOrigin, Runs
<1>9. CASE Rereads(k)
  <2>1. opc[k] = "rereading" /\ Settled(k)'
    BY <1>2, <1>9, <1>s DEF Rereads, GuardOk
  <2> QED BY <1>9, <1>a, <2>1 DEF Rereads
<1>10. CASE OriginDeadline(k)
  <2>1. /\ opc[k] = "waiting"
        /\ AnswerWith(k, "timeout", FALSE) \/ MovesTo(k, "reading")
    BY <1>10 DEF OriginDeadline, DeadlineApplies, MovesTo
  <2> QED BY <1>a, <1>b, <2>1
<1>11. CASE ReadsTerminal(k) BY <1>11, <1>a, <1>c, <1>s, <1>t DEF ReadsTerminal
<1>12. CASE OriginBeats(k)
  <2>1. opc[k] = "waiting"
    BY <1>12 DEF OriginBeats
  <2>2. MarkCanceled(k) => Settled(k)'
    BY <1>0 DEF MarkCanceled, Settled, Canceled, Indexes, TypeOK
  <2> QED BY <1>12, <1>a, <1>c, <2>1, <2>2 DEF OriginBeats, Runs
<1>13. CASE ReadsBack(k)
  <2>1. ReadsBackStream(k) => MovesTo(k, "waiting")
    BY DEF ReadsBackStream, MovesTo
  <2> QED BY <1>13, <1>a, <1>b, <1>s, <1>t, <2>1 DEF ReadsBack
<1>14. CASE OriginReceives(k)
  <2> DEFINE m == bus[k][1]
  <2>1. m \in published[k] /\ m \in Message
    BY <1>0, <1>2, <1>14, BusTakes DEF AnswerOk
  <2>2. m.kind \in Heard(k) /\ m.kind \in Envelope \cup {"chunk"}
    BY <2>1 DEF Heard, Message
  <2>3. m.kind # "chunk" => Settled(k)
    BY <1>0, <2>2, FinalIsSettled
  <2>4. opc[k] = "waiting"
    BY <1>14 DEF OriginReceives
  <2>5. \/ opc' = opc /\ guard' = guard /\ pump' = pump
        \/ m.kind # "chunk" /\ AnswerWith(k, m.kind, TRUE)
    BY <1>14 DEF OriginReceives
  <2> HIDE DEF m
  <2>6. CASE opc' = opc /\ guard' = guard /\ pump' = pump
    <3>1. MovesTo(k, "waiting")
      BY <1>0, <2>4, <2>6 DEF OriginTypes, OriginFields, MovesTo
    <3> QED BY <1>b, <2>4, <3>1
  <2> QED BY <1>a, <1>s, <2>3, <2>4, <2>5, <2>6
<1>15. CASE BusBreaks(k)
  <2>1. MovesTo(k, "waiting") /\ opc[k] = "waiting"
    BY <1>0, <1>15 DEF BusBreaks, OriginTypes, OriginFields, MovesTo
  <2> QED BY <1>b, <2>1
<1>16. CASE BusClosed(k)
  <2>1. opc[k] = "waiting" /\ (AnswerWith(k, "lost", FALSE) \/ MovesTo(k, "reading"))
    BY <1>16 DEF BusClosed, MovesTo
  <2> QED BY <1>a, <1>b, <2>1
<1>17. CASE CallerLeaves(k)
  <2>1. opc[k] = "rereading" => Settled(k)
    BY <1>2 DEF GuardOk
  <2>2. /\ opc[k] \notin {"idle", "answered"}
        /\ \/ MovesTo(k, "closing") /\ opc[k] = "waiting"
           \/ AnswerWith(k, "dropped", opc[k] = "rereading")
    BY <1>17 DEF CallerLeaves, MovesTo
  <2> QED BY <1>a, <1>b, <1>s, <2>1, <2>2
<1>18. CASE PumpCancels(k)
  <2>1. opc' = opc /\ guard' = guard
    BY <1>18 DEF PumpCancels, originVars
  <2>2. CancelScript(k) \/ faults' # 0
    BY <1>0, <1>18 DEF PumpCancels, Runs, Errs, Fault, OriginTypes
  <2>3. CancelScript(k) => Settled(k)'
    BY <1>0, CancelSettles
  <2>4. k \in issued /\ Settled(k) => Settled(k)'
    BY <1>0, SettledStays
  <2>5. k \in issued => k \in issued'
    BY <1>0, IssuedKept
  <2> QED BY <1>2, <2>1, <2>2, <2>3, <2>4, <2>5 DEF GuardOk
<1> QED BY <1>1, <1>3, <1>4, <1>5, <1>6, <1>7, <1>8, <1>9, <1>10, <1>11, <1>12, <1>13,
           <1>14, <1>15, <1>16, <1>17, <1>18, <1>19, <1>20 DEF OriginActs

\* A guard is disarmed only over a settled job, and without faults the pump
\* settles every job whose origin was dropped.
THEOREM GuardCoversHolds == GatewaySpec => []GuardCovers
<1> DEFINE Inv == \A j \in Job : GuardOk(j) /\ AnswerOk(j)
<1>1. GatewayInit => Inv
  BY DEF GatewayInit, GuardOk, AnswerOk, NoAnswer
<1>2. Inv /\ GatewayFacts /\ [GatewayNext]_gatewayVars => Inv'
  <2>1. UNCHANGED gatewayVars /\ Inv => Inv'
    BY DEF gatewayVars, runVars, originVars, vars, history, metaVars, AnswerOk, GuardOk,
       Settled, SameGeneration, Canceled, OriginExpired, Heard
  <2>2. GatewayFacts /\ GatewayNext /\ Inv => \A j \in Job : AnswerOk(j)'
    BY StoreSteps, AnswerStep DEF GatewayFacts
  <2>3. GatewayFacts /\ GatewayNext /\ Inv => \A j \in Job : GuardOk(j)'
    BY GuardStep
  <2> QED BY <2>1, <2>2, <2>3
<1>3. Inv => GuardCovers
  BY DEF GuardOk, GuardCovers
<1> QED BY <1>1, <1>2, <1>3, GatewayInvariant, PTL DEF GatewaySpec

-----------------------------------------------------------------------------
(***************************************************************************)
(* Streams.  While it listens, an origin has or will read every chunk; a   *)
(* result lies on the bus behind the chunk of its delivery, because no     *)
(* chunk is published after a verdict.                                     *)
(***************************************************************************)

Chunk(t) == [kind |-> "chunk", by |-> t]
Result(t) == [kind |-> "result", by |-> t]
Unread(j, t, n) == \E i \in 1..n : bus[j][i] = Chunk(t)

StreamOk(j) ==
    /\ \A t \in Token \cup {NoToken}, u \in Token \cup {NoToken} :
         Result(t) \in published[j] /\ Result(u) \in published[j] => t = u
    /\ j \in streams => opc[j] \notin {"reading", "cancelling", "rereading"}
    /\ connected[j] => \A t \in Token : Chunk(t) \in published[j] =>
         t \in relayed[j] \/ Unread(j, t, Len(bus[j]))
    /\ \A t \in Token : \A p \in 1..Len(bus[j]) :
         bus[j][p] = Result(t) /\ Chunk(t) \in published[j] =>
             t \in relayed[j] \/ Unread(j, t, p - 1)
    /\ j \in streams /\ answer[j] = "result" => \A t \in Token :
         Result(t) \in published[j] /\ Chunk(t) \in published[j] => t \in relayed[j]

\* An origin listens from its subscription on, relays what it receives and
\* nothing else, and a relay never goes where the store is read.
LEMMA RelayKept ==
    ASSUME OriginTypes, NEW k \in Job, OriginActs(k), ~Subscribes(k), ~OriginReceives(k)
    PROVE  /\ relayed' = relayed /\ (connected'[k] => connected[k])
           /\ k \in streams /\ opc[k] \notin {"reading", "cancelling", "rereading"} =>
                opc'[k] \notin {"reading", "cancelling", "rereading"}
<1>0. /\ opc \in [Job -> OriginPlace] /\ connected \in [Job -> BOOLEAN]
  BY DEF OriginTypes, OriginFields
<1> USE DEF GoTo, AnswerWith, Proceeds, SubscribesAt
<1>1. CASE AcceptRefused(k) BY <1>0, <1>1 DEF AcceptRefused
<1>2. CASE AcceptFails(k) BY <1>0, <1>2 DEF AcceptFails
<1>15. CASE AcceptReserved(k) BY <1>0, <1>15 DEF AcceptReserved
<1>16. CASE Awaits(k) BY <1>0, <1>16 DEF Awaits
<1>3. CASE ActivateAccepted(k) BY <1>0, <1>3 DEF ActivateAccepted
<1>4. CASE ActivateRefused(k) BY <1>0, <1>4 DEF ActivateRefused
<1>5. CASE CancelsOrigin(k) BY <1>0, <1>5 DEF CancelsOrigin
<1>6. CASE Rereads(k) BY <1>0, <1>6 DEF Rereads
<1>7. CASE OriginDeadline(k) BY <1>0, <1>7 DEF OriginDeadline, DeadlineApplies
<1>8. CASE ReadsTerminal(k) BY <1>0, <1>8 DEF ReadsTerminal
<1>9. CASE OriginBeats(k) BY <1>0, <1>9 DEF OriginBeats
<1>10. CASE ReadsBack(k) BY <1>0, <1>10 DEF ReadsBack, ReadsBackStream
<1>11. CASE BusBreaks(k) BY <1>0, <1>11 DEF BusBreaks
<1>12. CASE BusClosed(k) BY <1>0, <1>12 DEF BusClosed
<1>13. CASE CallerLeaves(k) BY <1>0, <1>13 DEF CallerLeaves
<1>14. CASE PumpCancels(k) BY <1>0, <1>14 DEF PumpCancels, originVars
<1> QED BY <1>1, <1>2, <1>3, <1>4, <1>5, <1>6, <1>7, <1>8, <1>9, <1>10,
        <1>11, <1>12, <1>13, <1>14, <1>15, <1>16 DEF OriginActs

\* What is published while nothing is taken from the bus.
LEMMA StreamBus ==
    ASSUME GatewayFacts, [Next]_vars, BusKeepsUp, NEW j \in Job, StreamOk(j), AnswerOk(j),
           relayed'[j] = relayed[j], connected'[j] => connected[j], streams' = streams,
           j \in streams => opc'[j] \notin {"reading", "cancelling", "rereading"},
           j \in streams /\ answer'[j] = "result" => answer[j] = "result"
    PROVE  StreamOk(j)'
<1>0. /\ OriginTypes /\ Indexes /\ HeardIsVerdict
      /\ bus[j] \in Seq(Message) /\ Len(bus[j]) \in Nat
  BY DEF GatewayFacts, OriginTypes
<1>1. CASE published'[j] = published[j] /\ bus'[j] = bus[j]
  BY <1>1 DEF StreamOk, Unread
<1>2. ASSUME NEW m \in Message, Delivered(j, m) PROVE StreamOk(j)'
  <2>1. \A t \in Token \cup {NoToken} : m = Chunk(t) \/ m = Result(t) => "result" \notin Heard(j)
    <3>1. m.kind \in {"chunk", "result"} => Verdict(j) = "open"
      BY <1>2 DEF Delivered, Publishes
    <3> QED BY <1>0, <3>1 DEF HeardIsVerdict, Envelope, Chunk, Result
  <2>2. \A t \in Token \cup {NoToken} : Result(t) \in published[j] => "result" \in Heard(j)
    BY DEF Heard, Result
  <2>3. \A t \in Token : Chunk(t) # Result(t)
    BY DEF Chunk, Result
  <2>4. published'[j] = published[j] \cup {m}
    BY <1>2 DEF Delivered
  <2>7. \A t \in Token \cup {NoToken}, u \in Token \cup {NoToken} :
           Result(t) \in published'[j] /\ Result(u) \in published'[j] => t = u
    <3>1. \A t \in Token \cup {NoToken}, u \in Token \cup {NoToken} : Result(t) = Result(u) => t = u
      BY DEF Result
    <3> QED BY <2>1, <2>2, <2>4, <3>1 DEF StreamOk
  <2>8. j \in streams /\ answer'[j] = "result" => \A t \in Token :
           Result(t) \in published'[j] /\ Chunk(t) \in published'[j] => t \in relayed[j]
    BY <2>1, <2>4 DEF StreamOk, AnswerOk
  <2>5. CASE connected[j]
    <3>1. bus'[j] = Append(bus[j], m)
      BY <1>2, <2>5 DEF Delivered
    <3>2. /\ Len(bus'[j]) = Len(bus[j]) + 1 /\ bus'[j][Len(bus[j]) + 1] = m
          /\ \A i \in 1..Len(bus[j]) : bus'[j][i] = bus[j][i]
      BY <1>0, <3>1
    <3>3. \A t \in Token : Chunk(t) \in published'[j] =>
              t \in relayed[j] \/ Unread(j, t, Len(bus[j]))'
      BY <1>0, <2>4, <2>5, <3>2 DEF StreamOk, Unread
    <3>4. \A t \in Token : \A p \in 1..Len(bus'[j]) :
              bus'[j][p] = Result(t) /\ Chunk(t) \in published'[j] =>
                  t \in relayed[j] \/ Unread(j, t, p - 1)'
      <4> SUFFICES ASSUME NEW t \in Token, NEW p \in 1..Len(bus'[j]),
                          bus'[j][p] = Result(t), Chunk(t) \in published'[j]
                   PROVE  t \in relayed[j] \/ Unread(j, t, p - 1)'
        OBVIOUS
      <4>1. CASE p = Len(bus[j]) + 1
        <5>1. m = Result(t)
          BY <3>2, <4>1
        <5>2. Chunk(t) \in published[j]
          BY <2>3, <2>4, <5>1
        <5>3. t \in relayed[j] \/ Unread(j, t, Len(bus[j]))
          BY <2>5, <5>2 DEF StreamOk
        <5> QED BY <1>0, <3>2, <4>1, <5>3 DEF Unread
      <4>2. CASE p # Len(bus[j]) + 1
        <5>1. p \in 1..Len(bus[j]) /\ bus[j][p] = Result(t)
          BY <1>0, <3>2, <4>2
        <5>2. Result(t) \in published[j]
          BY <5>1 DEF AnswerOk
        <5>3. Chunk(t) \in published[j]
          BY <2>1, <2>2, <2>4, <5>2
        <5>4. t \in relayed[j] \/ Unread(j, t, p - 1)
          BY <5>1, <5>3 DEF StreamOk
        <5> QED BY <1>0, <3>2, <5>1, <5>4 DEF Unread
      <4> QED BY <4>1, <4>2
    <3> QED BY <2>7, <2>8, <3>2, <3>3, <3>4 DEF StreamOk
  <2>6. CASE ~connected[j]
    <3>1. bus'[j] = bus[j]
      BY <1>2, <2>6 DEF Delivered
    <3>2. \A t \in Token : \A p \in 1..Len(bus[j]) : bus[j][p] = Result(t) =>
             Result(t) \in published[j]
      BY DEF AnswerOk
    <3>3. \A t \in Token : \A p \in 1..Len(bus'[j]) :
              bus'[j][p] = Result(t) /\ Chunk(t) \in published'[j] =>
                  t \in relayed[j] \/ Unread(j, t, p - 1)'
      <4> SUFFICES ASSUME NEW t \in Token, NEW p \in 1..Len(bus[j]),
                          bus[j][p] = Result(t), Chunk(t) \in published'[j]
                   PROVE  t \in relayed[j] \/ Unread(j, t, p - 1)'
        BY <3>1
      <4>1. Chunk(t) \in published[j]
        BY <2>1, <2>2, <2>4, <3>2
      <4>2. t \in relayed[j] \/ Unread(j, t, p - 1)
        BY <4>1 DEF StreamOk
      <4> QED BY <3>1, <4>2 DEF Unread
    <3> QED BY <2>6, <2>7, <2>8, <3>3 DEF StreamOk
  <2> QED BY <2>5, <2>6
<1> QED BY <1>0, <1>1, <1>2, BusGrows

\* The head of the bus is relayed or ends the stream.
LEMMA StreamTakes ==
    ASSUME GatewayFacts, NEW k \in Job, OriginReceives(k), StreamOk(k), AnswerOk(k),
           streams' = streams
    PROVE  StreamOk(k)'
<1> DEFINE m == bus[k][1]
<1>0. /\ OriginTypes /\ relayed \in [Job -> SUBSET (Token \cup {NoToken})]
      /\ answer \in [Job -> Answers] /\ connected \in [Job -> BOOLEAN]
      /\ opc \in [Job -> OriginPlace]
  BY DEF GatewayFacts, OriginTypes, OriginFields
<1>1. /\ m \in Message /\ Len(bus[k]) \in Nat \ {0} /\ published' = published
      /\ Len(bus'[k]) = Len(bus[k]) - 1
      /\ \A i \in 1..(Len(bus[k]) - 1) : bus'[k][i] = bus[k][i + 1]
  BY <1>0, BusTakes DEF OriginTypes
<1>2. \/ /\ m.kind = "chunk" /\ relayed'[k] = relayed[k] \cup {m.by}
         /\ opc' = opc /\ answer' = answer /\ connected' = connected
      \/ /\ m.kind # "chunk" /\ relayed' = relayed /\ ~connected'[k]
         /\ opc'[k] = "answered" /\ answer'[k] = m.kind
  BY <1>0 DEF OriginReceives, AnswerWith
<1>3. \A t \in Token : m = Chunk(t) => t \in relayed'[k]
  BY <1>2 DEF Chunk
<1>4. relayed[k] \subseteq relayed'[k]
  BY <1>2
<1> HIDE DEF m
<1>5. ASSUME NEW t \in Token, NEW n \in 1..Len(bus[k]), Unread(k, t, n)
      PROVE  t \in relayed'[k] \/ \E i \in 1..(n - 1) : bus'[k][i] = Chunk(t)
  <2>1. PICK i \in 1..n : bus[k][i] = Chunk(t)
    BY <1>5 DEF Unread
  <2>2. CASE i = 1
    BY <1>3, <2>1, <2>2 DEF m
  <2>3. CASE i # 1
    <3>1. i - 1 \in 1..(n - 1) /\ i - 1 \in 1..(Len(bus[k]) - 1) /\ (i - 1) + 1 = i
      BY <1>1, <2>3
    <3>2. bus'[k][i - 1] = Chunk(t)
      BY <1>1, <2>1, <3>1
    <3> QED BY <3>1, <3>2
  <2> QED BY <2>2, <2>3
<1>6. ASSUME NEW t \in Token, connected'[k], Chunk(t) \in published[k]
      PROVE  t \in relayed'[k] \/ Unread(k, t, Len(bus[k]))'
  <2>1. t \in relayed[k] \/ Unread(k, t, Len(bus[k]))
    BY <1>2, <1>6 DEF StreamOk
  <2>2. CASE Unread(k, t, Len(bus[k]))
    <3>1. t \in relayed'[k] \/ \E i \in 1..(Len(bus[k]) - 1) : bus'[k][i] = Chunk(t)
      BY <1>1, <1>5, <2>2
    <3> QED BY <1>1, <3>1 DEF Unread
  <2> QED BY <1>4, <2>1, <2>2
<1>7. ASSUME NEW t \in Token, NEW p \in 1..Len(bus'[k]), bus'[k][p] = Result(t),
             Chunk(t) \in published[k]
      PROVE  t \in relayed'[k] \/ Unread(k, t, p - 1)'
  <2>1. p + 1 \in 1..Len(bus[k]) /\ bus[k][p + 1] = Result(t) /\ p \in 1..Len(bus[k])
        /\ (p + 1) - 1 = p
    BY <1>1, <1>7
  <2>2. t \in relayed[k] \/ Unread(k, t, p)
    BY <1>7, <2>1 DEF StreamOk
  <2>3. CASE Unread(k, t, p)
    <3>1. t \in relayed'[k] \/ \E i \in 1..(p - 1) : bus'[k][i] = Chunk(t)
      BY <1>5, <2>1, <2>3
    <3> QED BY <3>1 DEF Unread
  <2> QED BY <1>4, <2>2, <2>3
<1>8. ASSUME k \in streams, answer'[k] = "result", NEW t \in Token,
             Result(t) \in published[k], Chunk(t) \in published[k]
      PROVE  t \in relayed'[k]
  <2>1. CASE m.kind = "chunk"
    BY <1>2, <1>4, <1>8, <2>1 DEF StreamOk
  <2>2. CASE m.kind # "chunk"
    <3>1. m.kind = "result" /\ m \in published[k]
      BY <1>1, <1>2, <1>8, <2>2 DEF AnswerOk, m
    <3>2. m = [kind |-> "result", by |-> m.by] /\ m.by \in Token \cup {NoToken}
      BY <1>1, <3>1 DEF Message
    <3>3. m.by = t
      BY <1>8, <3>1, <3>2 DEF StreamOk, Result
    <3>5. bus[k][1] = Result(t) /\ 1 \in 1..Len(bus[k])
      BY <1>1, <3>2, <3>3 DEF Result, m
    <3>6. t \in relayed[k] \/ Unread(k, t, 1 - 1)
      BY <1>8, <3>5 DEF StreamOk
    <3>7. ~Unread(k, t, 1 - 1)
      BY DEF Unread
    <3> QED BY <1>4, <3>6, <3>7
  <2> QED BY <2>1, <2>2
<1> QED BY <1>0, <1>1, <1>2, <1>6, <1>7, <1>8 DEF StreamOk

\* Nothing was reserved for an origin that has not asked for it: there is nothing
\* to hear before the subscription.
Unheard(j) ==
    opc[j] \in {"idle", "subscribed"} =>
        j \notin issued /\ \A c \in late : c.op = "reserve" => c.job # j

\* A job that was not reserved has published nothing.
LEMMA UnheardIsSilent ==
    ASSUME HeardIsVerdict, NEW j \in Job, Unheard(j), opc[j] \in {"idle", "subscribed"}
    PROVE  published[j] = {}
<1>1. Heard(j) = {}
  BY DEF HeardIsVerdict, Verdict, Unheard
<1> QED BY <1>1 DEF Heard

\* Of the scripts only the reserve script makes a reservation.
LEMMA ScriptsReserveNothing ==
    ASSUME NEW j, NEW t
    PROVE  /\ UNCHANGED vars => issued' = issued
           /\ OriginHeartbeat(j) \/ MarkCanceled(j) \/ Activate(j) => issued' = issued
           /\ LeaseDiscards(j) \/ Lease(j, t) => issued' = issued
           /\ CancelScript(j) => issued' = issued
           /\ RefreshScript(j, t) => issued' = issued
           /\ ReleaseScript(j, t) => issued' = issued
           /\ PublishScript(j, t) => issued' = issued
           /\ DeadLetterScript(j, t) => issued' = issued
           /\ \A m : TerminalScript(j, t, m) => issued' = issued
           /\ ReaperStep(j) \/ TimeStep(j) => issued' = issued
<1>1. UNCHANGED vars => issued' = issued
  BY DEF vars, history
<1>2. OriginHeartbeat(j) \/ MarkCanceled(j) \/ Activate(j) => issued' = issued
  BY DEF OriginHeartbeat, MarkCanceled, Activate, history
<1>3. LeaseDiscards(j) \/ Lease(j, t) => issued' = issued
  BY DEF LeaseDiscards, Lease, history
<1>4. Refuses(j) => issued' = issued
  BY <1>1, <1>2 DEF Refuses
<1>5. CancelScript(j) => issued' = issued
  BY <1>1 DEF CancelScript, CancelProcessing, CancelUnleased, EndUnleased, history
<1>6. RefreshScript(j, t) => issued' = issued
  BY <1>1, <1>4 DEF RefreshScript, Refresh, history
<1>7. ReleaseScript(j, t) => issued' = issued
  BY <1>1, <1>4 DEF ReleaseScript, Release, history
<1>8. PublishScript(j, t) => issued' = issued
  BY <1>1, <1>4 DEF PublishScript, Publish, history
<1>9. DeadLetterScript(j, t) => issued' = issued
  BY <1>1 DEF DeadLetterScript, DeadLetterCanceled, DeadLetterOverflow, DeadLetter, history
<1>10. \A m : TerminalScript(j, t, m) => issued' = issued
  BY <1>1 DEF TerminalScript, TerminalPublishComplete, TerminalPublishCanceled, history
<1>11. ReaperStep(j) => issued' = issued
  BY DEF ReaperStep, ExpireOriginProcessing, CancelProcessing, ExpireOriginUnleased,
     EndUnleased, ExpireOriginStale, CleanupPostpone, CleanupRelease, ReapCanceled,
     ReapRequeue, ReapOrphan, history
<1>12. TimeStep(j) => issued' = issued
  BY DEF TimeStep, LeaseElapses, OriginElapses, ExpiryElapses, MetaHardExpires, history
<1> QED BY <1>1, <1>2, <1>3, <1>5, <1>6, <1>7, <1>8, <1>9, <1>10, <1>11, <1>12

\* A step that neither makes a reservation nor leaves a reserve call behind.
ReservesNothing == /\ issued' = issued
                   /\ \A c \in late' : c.op = "reserve" => c \in late

\* An origin reserves in two steps only, both of which take it past the subscription.
LEMMA OriginReserves ==
    ASSUME NEW k \in Job, OriginActs(k), ~AcceptReserved(k), ~AcceptFails(k)
    PROVE  ReservesNothing
<1> USE ScriptsReserveNothing DEF ReservesNothing, Runs, Reads, ReadErrs, Errs
<1>1. CASE Subscribes(k) BY <1>1 DEF Subscribes
<1>2. CASE AcceptRefused(k) BY <1>2 DEF AcceptRefused
<1>3. CASE ActivateAccepted(k) BY <1>3 DEF ActivateAccepted
<1>4. CASE ActivateRefused(k) BY <1>4 DEF ActivateRefused
<1>5. CASE Awaits(k) BY <1>5 DEF Awaits
<1>6. CASE CancelsOrigin(k) BY <1>6 DEF CancelsOrigin
<1>7. CASE Rereads(k) BY <1>7 DEF Rereads
<1>8. CASE OriginDeadline(k) BY <1>8 DEF OriginDeadline
<1>9. CASE ReadsTerminal(k) BY <1>9 DEF ReadsTerminal
<1>10. CASE OriginBeats(k)
  <2>1. CASE Runs(OriginHeartbeat(k)) \/ Runs(MarkCanceled(k)) \/ Reads BY <2>1
  <2>2. CASE Errs("heartbeat", k, NoToken) BY <2>2
  <2> QED BY <1>10, <2>1, <2>2 DEF OriginBeats
<1>11. CASE ReadsBack(k) BY <1>11 DEF ReadsBack
<1>12. CASE OriginReceives(k) BY <1>12 DEF OriginReceives
<1>13. CASE BusBreaks(k) BY <1>13 DEF BusBreaks
<1>14. CASE BusClosed(k) BY <1>14 DEF BusClosed
<1>15. CASE CallerLeaves(k) BY <1>15 DEF CallerLeaves
<1>16. CASE PumpCancels(k) BY <1>16 DEF PumpCancels
<1> QED BY <1>1, <1>2, <1>3, <1>4, <1>5, <1>6, <1>7, <1>8, <1>9, <1>10,
        <1>11, <1>12, <1>13, <1>14, <1>15, <1>16 DEF OriginActs

\* Deliveries reserve nothing.
LEMMA WorkersReserveNothing ==
    ASSUME CallsNamed, NEW t \in Token, WorkerActs(t) PROVE ReservesNothing
<1> USE ScriptsReserveNothing DEF ReservesNothing, Runs, Reads, ReadErrs, Errs
<1>0. wpc[t] \in {"end", "cleanup", "stop"} => wmsg[t] # "reserve"
  BY DEF CallsNamed
<1>1. CASE WorkerLeases(t) BY <1>1 DEF WorkerLeases
<1>2. CASE WorkerLeaseErrs(t) BY <1>2 DEF WorkerLeaseErrs
<1>3. CASE WorkerFindsNothing(t) BY <1>3 DEF WorkerFindsNothing
<1>4. CASE WorkerRejects(t) BY <1>4 DEF WorkerRejects
<1>5. CASE WorkerChecksDone(t) BY <1>5 DEF WorkerChecksDone
<1>6. CASE WorkerBumps(t) BY <1>6 DEF WorkerBumps
<1>7. CASE WorkerDeadLetters(t) BY <1>7 DEF WorkerDeadLetters
<1>8. CASE WorkerAsksRate(t) BY <1>8 DEF WorkerAsksRate
<1>9. CASE WorkerReleases(t) BY <1>9 DEF WorkerReleases
<1>10. CASE WorkerDispatches(t) BY <1>10 DEF WorkerDispatches
<1>11. CASE WorkerDoesNotDispatch(t) BY <1>11 DEF WorkerDoesNotDispatch
<1>12. CASE ProviderAnswers(t) BY <1>12 DEF ProviderAnswers
<1>13. CASE WorkerPublishes(t) BY <1>13 DEF WorkerPublishes
<1>14. CASE WorkerFinishes(t)
  <2>1. CASE Runs(TerminalScript(wjob[t], t, wmsg[t])) BY <2>1
  <2>2. CASE Errs(wmsg[t], wjob[t], t)
    <3>1. wmsg[t] # "reserve" BY <1>0, <1>14 DEF WorkerFinishes
    <3> QED BY <2>2, <3>1
  <2> QED BY <1>14, <2>1, <2>2 DEF WorkerFinishes
<1>15. CASE WorkerBeats(t) BY <1>15 DEF WorkerBeats
<1>16. CASE WorkerDeadline(t) BY <1>16 DEF WorkerDeadline
<1>17. CASE WorkerCrashes(t) BY <1>17 DEF WorkerCrashes
<1> QED BY <1>1, <1>2, <1>3, <1>4, <1>5, <1>6, <1>7, <1>8, <1>9, <1>10,
        <1>11, <1>12, <1>13, <1>14, <1>15, <1>16, <1>17 DEF WorkerActs

\* Nobody reserves for an origin that has not come so far.
LEMMA UnheardStep ==
    ASSUME GatewayFacts, GatewayNext, NEW j \in Job, Unheard(j) PROVE Unheard(j)'
<1> SUFFICES ASSUME opc'[j] \in {"idle", "subscribed"}
             PROVE  j \notin issued' /\ \A c \in late' : c.op = "reserve" => c.job # j
  BY DEF Unheard
<1>0. OriginTypes /\ CallsNamed /\ opc \in [Job -> OriginPlace]
  BY DEF GatewayFacts, OriginTypes, OriginFields
<1>1. opc[j] \in {"idle", "subscribed"} /\ ~AcceptReserved(j) /\ ~AcceptFails(j)
  <2>1. CASE OriginActs(j)
    <3> USE DEF GoTo, AnswerWith, Proceeds
    <3>1. ~AcceptReserved(j) BY <1>0 DEF AcceptReserved
    <3>2. ~AcceptFails(j) BY <1>0 DEF AcceptFails
    <3>3. CASE Subscribes(j) BY <1>0, <3>1, <3>2, <3>3 DEF Subscribes
    <3>4. CASE AcceptRefused(j) BY <1>0, <3>1, <3>2, <3>4 DEF AcceptRefused
    <3>5. CASE ActivateAccepted(j) BY <1>0, <3>5 DEF ActivateAccepted
    <3>6. CASE ActivateRefused(j) BY <1>0, <3>6 DEF ActivateRefused
    <3>7. CASE Awaits(j) BY <1>0, <3>7 DEF Awaits
    <3>8. CASE CancelsOrigin(j) BY <1>0, <3>8 DEF CancelsOrigin
    <3>9. CASE Rereads(j) BY <1>0, <3>9 DEF Rereads
    <3>10. CASE OriginDeadline(j) BY <1>0, <3>10 DEF OriginDeadline
    <3>11. CASE ReadsTerminal(j) BY <1>0, <3>11 DEF ReadsTerminal
    <3>12. CASE OriginBeats(j) BY <1>0, <3>12 DEF OriginBeats
    <3>13. CASE ReadsBack(j) BY <1>0, <3>13 DEF ReadsBack, ReadsBackStream
    <3>14. CASE OriginReceives(j) BY <1>0, <3>14 DEF OriginReceives
    <3>15. CASE BusBreaks(j) BY <1>0, <3>15 DEF BusBreaks
    <3>16. CASE BusClosed(j) BY <1>0, <3>16 DEF BusClosed
    <3>17. CASE CallerLeaves(j) BY <1>0, <3>17 DEF CallerLeaves
    <3>18. CASE PumpCancels(j) BY <1>0, <3>1, <3>2, <3>18 DEF PumpCancels, originVars
    <3> QED BY <2>1, <3>1, <3>2, <3>3, <3>4, <3>5, <3>6, <3>7, <3>8, <3>9, <3>10, <3>11,
            <3>12, <3>13, <3>14, <3>15, <3>16, <3>17, <3>18 DEF OriginActs
  <2>2. CASE ~OriginActs(j)
    <3>1. SameOrigin(j)
      BY <1>0, <2>2, Aside, Bystanders
    <3> QED BY <2>2, <3>1 DEF SameOrigin, OriginActs
  <2> QED BY <2>1, <2>2
<1>2. j \notin issued /\ \A c \in late : c.op = "reserve" => c.job # j
  BY <1>1 DEF Unheard
<1>3. CASE ReservesNothing
  BY <1>2, <1>3 DEF ReservesNothing
<1>4. ASSUME NEW k \in Job, OriginActs(k)
      PROVE  j \notin issued' /\ \A c \in late' : c.op = "reserve" => c.job # j
  <2>1. CASE AcceptReserved(k)
    BY <1>1, <1>2, <2>1 DEF AcceptReserved, Runs, Reserve
  <2>2. CASE AcceptFails(k)
    <3>1. k # j
      BY <1>1, <2>2
    <3>2. issued' = issued
      BY <2>2, ScriptsReserveNothing DEF AcceptFails, Reads, Errs
    <3>3. late' = late \/ late' = late \cup {[op |-> "reserve", job |-> k, token |-> NoToken]}
      BY <2>2 DEF AcceptFails, Reads, Errs
    <3> QED BY <1>2, <3>1, <3>2, <3>3
  <2> QED BY <1>3, <1>4, <2>1, <2>2, OriginReserves
<1>5. ASSUME NEW k \in Job, ReaperRuns(k) \/ TimePasses(k) PROVE ReservesNothing
  BY <1>5, ScriptsReserveNothing DEF ReaperRuns, TimePasses, Runs, ReservesNothing
<1>6. ASSUME NEW t \in Token, WorkerActs(t) PROVE ReservesNothing
  BY <1>0, <1>6, WorkersReserveNothing
<1>7. CASE LateRuns
  <2>1. PICK c \in late : LateScript(c) /\ late' = late \ {c}
    BY <1>7 DEF LateRuns
  <2>2. CASE c.op = "reserve" /\ Reserve(c.job)
    BY <1>2, <2>1, <2>2 DEF Reserve
  <2>3. CASE ~(c.op = "reserve" /\ Reserve(c.job))
    <3>1. issued' = issued
      BY <2>1, <2>3, ScriptsReserveNothing DEF LateScript
    <3> QED BY <1>2, <2>1, <3>1
  <2> QED BY <2>2, <2>3
<1> QED BY <1>3, <1>4, <1>5, <1>6, <1>7 DEF GatewayNext

\* Every step keeps the positions on the bus in order.
LEMMA StreamStep ==
    ASSUME GatewayFacts, GatewayNext, NEW j \in Job, StreamOk(j), AnswerOk(j), Unheard(j)
    PROVE  StreamOk(j)'
<1>0. OriginTypes /\ Indexes /\ HeardIsVerdict /\ [Next]_vars /\ streams' = streams
  BY StoreSteps DEF GatewayFacts, GatewayNext
<1>1. CASE OriginReceives(j)
  BY <1>0, <1>1, StreamTakes
<1>2. ASSUME NEW k \in Job, k # j, OriginReceives(k) PROVE StreamOk(j)'
  <2>1. SameOrigin(j)
    BY <1>0, <1>2, Bystanders DEF OriginActs
  <2>2. bus'[j] = bus[j] /\ published'[j] = published[j]
    BY <1>0, <1>2, BusTakes DEF OriginTypes
  <2> QED BY <1>0, <2>1, <2>2 DEF SameOrigin, StreamOk, Unread
<1>3. CASE Subscribes(j)
  <2>1. published[j] = {} /\ published' = published
    BY <1>0, <1>3, UnheardIsSilent DEF Subscribes, Reads, vars
  <2>2. opc'[j] = "subscribed" /\ answer' = answer
    BY <1>0, <1>3 DEF Subscribes, Proceeds, OriginTypes, OriginFields
  <2> QED BY <2>1, <2>2 DEF StreamOk
<1>4. CASE ~Subscribes(j) /\ \A k \in Job : ~OriginReceives(k)
  <2>1. BusKeepsUp
    BY <1>4, BusCases
  <2>2. j \in streams => opc[j] \notin {"reading", "cancelling", "rereading"}
    BY DEF StreamOk
  <2>3. /\ relayed'[j] = relayed[j] /\ (connected'[j] => connected[j])
        /\ j \in streams => opc'[j] \notin {"reading", "cancelling", "rereading"}
    <3>1. CASE OriginActs(j)
      BY <1>0, <1>4, <2>2, <3>1, RelayKept
    <3>2. CASE ~OriginActs(j)
      <4>1. SameOrigin(j)
        BY <1>0, <3>2, Aside, Bystanders
      <4> QED BY <2>2, <4>1 DEF SameOrigin
    <3> QED BY <3>1, <3>2
  <2>4. j \in streams /\ answer'[j] = "result" => answer[j] = "result"
    BY <1>0, <1>4, <2>2, ResultSource
  <2> QED BY <1>0, <2>1, <2>3, <2>4, StreamBus
<1> QED BY <1>1, <1>2, <1>3, <1>4

\* A stream that is reported as ended well was relayed whole: neither a lost
\* bus nor a durable End found by a heartbeat passes for the chunks.
THEOREM StreamWholeHolds == GatewaySpec => []StreamWhole
<1> DEFINE Inv == \A j \in Job : StreamOk(j) /\ AnswerOk(j) /\ Unheard(j)
<1>1. GatewayInit => Inv /\ streams \subseteq Job
  BY DEF GatewayInit, Init, StreamOk, AnswerOk, Unheard, NoAnswer
<1>2. Inv /\ GatewayFacts /\ [GatewayNext]_gatewayVars => Inv'
  <2>1. UNCHANGED gatewayVars /\ Inv => Inv'
    BY DEF gatewayVars, runVars, originVars, vars, history, AnswerOk, StreamOk, Unread,
       Heard, Unheard
  <2>2. GatewayFacts /\ GatewayNext /\ Inv => \A j \in Job : AnswerOk(j)'
    BY StoreSteps, AnswerStep DEF GatewayFacts
  <2>3. GatewayFacts /\ GatewayNext /\ Inv => \A j \in Job : StreamOk(j)' /\ Unheard(j)'
    BY StreamStep, UnheardStep
  <2> QED BY <2>1, <2>2, <2>3
<1>3. streams \subseteq Job /\ [GatewayNext]_gatewayVars => (streams \subseteq Job)'
  BY DEF GatewayNext, gatewayVars
<1>4. Inv /\ streams \subseteq Job => StreamWhole
  BY DEF StreamOk, StreamWhole, Chunk, Result
<1> QED BY <1>1, <1>2, <1>3, <1>4, GatewayInvariant, PTL DEF GatewaySpec

\* While its subscription stands an origin has every message still to read or has
\* relayed it.
Kept(j) ==
    connected[j] => \A m \in published[j] :
        \/ \E k \in 1..Len(bus[j]) : bus[j][k] = m
        \/ m.kind = "chunk" /\ m.by \in relayed[j]

\* A message leaves the bus by being relayed, and reaches it by being published.
LEMMA KeptStep ==
    ASSUME GatewayFacts, GatewayNext, NEW j \in Job, Kept(j), Unheard(j)
    PROVE  Kept(j)'
<1>0. /\ OriginTypes /\ Indexes /\ HeardIsVerdict /\ [Next]_vars
      /\ bus[j] \in Seq(Message) /\ Len(bus[j]) \in Nat
      /\ relayed \in [Job -> SUBSET (Token \cup {NoToken})] /\ connected \in [Job -> BOOLEAN]
  BY StoreSteps DEF GatewayFacts, OriginTypes, OriginFields
<1>1. CASE OriginReceives(j)
  <2>1. /\ Len(bus[j]) \in Nat \ {0} /\ published' = published
        /\ Len(bus'[j]) = Len(bus[j]) - 1
        /\ \A i \in 1..(Len(bus[j]) - 1) : bus'[j][i] = bus[j][i + 1]
    BY <1>0, <1>1, BusTakes DEF OriginTypes
  <2>2. CASE bus[j][1].kind = "chunk"
    <3>1. relayed'[j] = relayed[j] \cup {bus[j][1].by} /\ connected' = connected
      BY <1>0, <1>1, <2>2 DEF OriginReceives
    <3> SUFFICES ASSUME connected[j], NEW m \in published[j]
                 PROVE  \/ \E k \in 1..Len(bus'[j]) : bus'[j][k] = m
                        \/ m.kind = "chunk" /\ m.by \in relayed'[j]
      BY <2>1, <3>1 DEF Kept
    <3>2. CASE m.kind = "chunk" /\ m.by \in relayed[j]
      BY <3>1, <3>2
    <3>3. ASSUME NEW k \in 1..Len(bus[j]), bus[j][k] = m
          PROVE  \/ \E i \in 1..Len(bus'[j]) : bus'[j][i] = m
                 \/ m.kind = "chunk" /\ m.by \in relayed'[j]
      <4>1. CASE k = 1
        BY <2>2, <3>1, <3>3, <4>1
      <4>2. CASE k # 1
        <5>1. k - 1 \in 1..(Len(bus[j]) - 1) /\ (k - 1) + 1 = k
          BY <2>1, <4>2
        <5> QED BY <2>1, <3>3, <5>1
      <4> QED BY <4>1, <4>2
    <3> QED BY <3>2, <3>3 DEF Kept
  <2>3. CASE bus[j][1].kind # "chunk"
    <3>1. ~connected'[j]
      BY <1>0, <1>1, <2>3 DEF OriginReceives, AnswerWith
    <3> QED BY <3>1 DEF Kept
  <2> QED BY <2>2, <2>3
<1>2. ASSUME NEW k \in Job, k # j, OriginReceives(k) PROVE Kept(j)'
  <2>1. SameOrigin(j)
    BY <1>0, <1>2, Bystanders DEF OriginActs
  <2>2. bus'[j] = bus[j] /\ published'[j] = published[j]
    BY <1>0, <1>2, BusTakes DEF OriginTypes
  <2> QED BY <2>1, <2>2 DEF SameOrigin, Kept
<1>3. CASE Subscribes(j)
  <2>1. published[j] = {} /\ published' = published
    BY <1>0, <1>3, UnheardIsSilent DEF Subscribes, Reads, vars
  <2> QED BY <2>1 DEF Kept
<1>4. CASE ~Subscribes(j) /\ \A k \in Job : ~OriginReceives(k)
  <2>1. BusKeepsUp
    BY <1>4, BusCases
  <2>2. relayed'[j] = relayed[j] /\ (connected'[j] => connected[j])
    <3>1. CASE OriginActs(j)
      BY <1>0, <1>4, <3>1, RelayKept
    <3>2. CASE ~OriginActs(j)
      BY <1>0, <3>2, Aside, Bystanders DEF SameOrigin
    <3> QED BY <3>1, <3>2
  <2>3. CASE published'[j] = published[j] /\ bus'[j] = bus[j]
    BY <2>2, <2>3 DEF Kept
  <2>4. ASSUME NEW m \in Message, Delivered(j, m), connected[j] PROVE Kept(j)'
    <3>1. bus'[j] = Append(bus[j], m) /\ published'[j] = published[j] \cup {m}
      BY <2>4 DEF Delivered
    <3>2. /\ Len(bus'[j]) = Len(bus[j]) + 1 /\ bus'[j][Len(bus[j]) + 1] = m
          /\ \A i \in 1..Len(bus[j]) : bus'[j][i] = bus[j][i]
      BY <1>0, <3>1
    <3>3. Len(bus[j]) + 1 \in 1..Len(bus'[j]) /\ 1..Len(bus[j]) \subseteq 1..Len(bus'[j])
      BY <1>0, <3>2
    <3> QED BY <2>2, <2>4, <3>1, <3>2, <3>3 DEF Kept
  <2>5. CASE ~connected[j]
    BY <2>2, <2>5 DEF Kept
  <2> QED BY <1>0, <2>1, <2>3, <2>4, <2>5, BusGrows
<1> QED BY <1>1, <1>2, <1>3, <1>4

\* accept_prepared subscribes before the job is enqueued, so that an origin misses
\* no chunk and no envelope while its subscription stands, however fast a worker is.
THEOREM NothingMissedHolds == GatewaySpec => []NothingMissed
<1> DEFINE Inv == \A j \in Job : Kept(j) /\ Unheard(j)
<1>1. GatewayInit => Inv
  BY DEF GatewayInit, Init, Kept, Unheard
<1>2. Inv /\ GatewayFacts /\ [GatewayNext]_gatewayVars => Inv'
  <2>1. UNCHANGED gatewayVars /\ Inv => Inv'
    BY DEF gatewayVars, runVars, originVars, vars, history, Kept, Unheard
  <2>2. GatewayFacts /\ GatewayNext /\ Inv => Inv'
    BY KeptStep, UnheardStep
  <2> QED BY <2>1, <2>2
<1>3. Inv /\ GatewayFacts => NothingMissed
  <2>1. GatewayFacts => \A j \in Job : DOMAIN bus[j] = 1..Len(bus[j])
    BY DEF GatewayFacts, OriginTypes
  <2> QED BY <2>1 DEF Kept, NothingMissed
<1> QED BY <1>1, <1>2, <1>3, GatewayInvariant, PTL DEF GatewaySpec

-----------------------------------------------------------------------------
(***************************************************************************)
(* Attempts.  The provider is called at most max_attempts times for one    *)
(* job.  The bound is not inductive by itself: a delivery that has counted *)
(* its attempt but not dispatched yet has a call in hand, so the invariant *)
(* adds those deliveries to the calls made.                                *)
(***************************************************************************)

\* Deliveries of a job that counted an attempt within the maximum and may
\* still dispatch.
Entitled(j) ==
    {t \in Token : wjob[t] = j /\ wpc[t] \in {"rate", "refused", "refresh"}}

\* The calls that earlier lives of the marker have allowed.
Earlier(j) == MaxAttempts * lapses[j]

\* The calls made and in hand are attempts that were counted.
AttemptsPaid(j) ==
    /\ IsFiniteSet(Entitled(j))
    /\ dispatched[j] + Cardinality(Entitled(j)) <= Earlier(j) + attempts[j]
    /\ dispatched[j] + Cardinality(Entitled(j)) <= Earlier(j) + MaxAttempts

AttemptsInv ==
    /\ attempts \in [Job -> Nat] /\ dispatched \in [Job -> Nat] /\ lapses \in [Job -> Nat]
    /\ \A j \in Job : AttemptsPaid(j)

\* One more lapse allows max_attempts more.
LEMMA EarlierIs ==
    ASSUME NEW n \in Nat
    PROVE  /\ MaxAttempts \in Nat /\ MaxAttempts * n \in Nat
           /\ MaxAttempts * (n + 1) = MaxAttempts * n + MaxAttempts
           /\ MaxAttempts * (1 + n) = MaxAttempts * n + MaxAttempts
BY QueueAssumption DEF QueueAssumption

\* A step after which fewer deliveries are entitled, with no call made and the marker
\* as it was, keeps the account of a job.
LEMMA FewerEntitled ==
    ASSUME NEW j \in Job, AttemptsInv,
           Entitled(j)' \subseteq Entitled(j),
           dispatched'[j] = dispatched[j], lapses'[j] = lapses[j],
           attempts'[j] \in Nat, attempts'[j] >= attempts[j]
    PROVE  AttemptsPaid(j)'
<1>1. IsFiniteSet(Entitled(j)) /\ attempts[j] \in Nat /\ dispatched[j] \in Nat
      /\ MaxAttempts \in Nat /\ Earlier(j) \in Nat /\ Earlier(j)' = Earlier(j)
  BY EarlierIs DEF AttemptsInv, AttemptsPaid, Earlier
<1>2. IsFiniteSet(Entitled(j)') /\ Cardinality(Entitled(j)') <= Cardinality(Entitled(j))
  BY <1>1, FS_Subset
<1>3. Cardinality(Entitled(j)) \in Nat /\ Cardinality(Entitled(j)') \in Nat
  BY <1>1, <1>2, FS_CardinalityType
<1>4. /\ dispatched[j] + Cardinality(Entitled(j)) <= Earlier(j) + attempts[j]
      /\ dispatched[j] + Cardinality(Entitled(j)) <= Earlier(j) + MaxAttempts
  BY DEF AttemptsInv, AttemptsPaid
<1> QED BY <1>1, <1>2, <1>3, <1>4 DEF AttemptsPaid

\* bump_attempts entitles a delivery only within max_attempts.
LEMMA BumpKeepsAccount ==
    ASSUME CallsNamed, AttemptsInv, NEW t \in Token, WorkerBumps(t)
    PROVE  AttemptsInv'
<1>0. PICK b \in Job : b = wjob[t]
  BY DEF CallsNamed, WorkerBumps, Active
<1>1. /\ attempts[b] \in Nat /\ dispatched[b] \in Nat /\ lapses[b] \in Nat
      /\ MaxAttempts \in Nat /\ Earlier(b) \in Nat
  BY EarlierIs DEF AttemptsInv, Earlier
<1>2. /\ dispatched' = dispatched
      /\ UNCHANGED <<attempts, lapses>> \/ \E found \in MarkerFound(b) : Bumps(b, found)
  BY <1>0 DEF WorkerBumps
<1>3. \A found \in MarkerFound(b) : found \in Nat /\ (found = attempts[b] \/ found = 0)
  BY <1>1 DEF MarkerFound
<1>4. /\ attempts' \in [Job -> Nat] /\ dispatched' \in [Job -> Nat]
      /\ lapses' \in [Job -> Nat]
  BY <1>1, <1>2, <1>3 DEF AttemptsInv, Bumps
<1>5. \A j \in Job : j # b => /\ Entitled(j)' \subseteq Entitled(j)
                              /\ dispatched'[j] = dispatched[j] /\ lapses'[j] = lapses[j]
                              /\ attempts'[j] \in Nat /\ attempts'[j] >= attempts[j]
  BY <1>0, <1>2, <1>4 DEF AttemptsInv, Bumps, WorkerBumps, Entitled, CallsNamed
<1>6. AttemptsPaid(b)'
  <2> DEFINE E == Cardinality(Entitled(b))
  <2>1. /\ IsFiniteSet(Entitled(b)) /\ E \in Nat
        /\ dispatched[b] + E <= Earlier(b) + attempts[b]
        /\ dispatched[b] + E <= Earlier(b) + MaxAttempts
    BY FS_CardinalityType DEF AttemptsInv, AttemptsPaid
  \* What a bump does to the account, whether it found the marker or not.
  <2>2. ASSUME NEW found \in MarkerFound(b), Bumps(b, found)
        PROVE  /\ attempts'[b] = found + 1 /\ Earlier(b)' \in Nat
               /\ dispatched[b] + E <= Earlier(b)' + found
               /\ dispatched[b] + E <= Earlier(b)' + MaxAttempts
    <3>1. attempts'[b] = found + 1 /\ found \in Nat
      BY <1>3, <2>2 DEF Bumps, AttemptsInv
    <3>2. CASE found = attempts[b]
      <4>1. Earlier(b)' = Earlier(b)
        BY <2>2, <3>2 DEF Bumps, AttemptsInv, Earlier
      <4> QED BY <1>1, <2>1, <3>1, <3>2, <4>1
    <3>3. CASE found # attempts[b]
      <4>1. lapses'[b] = lapses[b] + 1 /\ found = 0
        BY <1>3, <2>2, <3>3 DEF Bumps, AttemptsInv
      <4>2. Earlier(b)' = Earlier(b) + MaxAttempts
        BY <1>1, <4>1, EarlierIs DEF Earlier
      <4> HIDE DEF E
      <4> QED BY <1>1, <2>1, <3>1, <4>1, <4>2
    <3> QED BY <3>2, <3>3
  <2>3. CASE wpc'[t] # "rate"
    <3>1. wpc'[t] \in {"dead", "gone"}
      BY <2>3 DEF WorkerBumps, CallsNamed
    <3>2. Entitled(b)' \subseteq Entitled(b)
      BY <1>0, <3>1 DEF WorkerBumps, Entitled, CallsNamed
    <3>3. /\ IsFiniteSet(Entitled(b)') /\ Cardinality(Entitled(b)') \in Nat
          /\ Cardinality(Entitled(b)') <= E
      BY <2>1, <3>2, FS_Subset, FS_CardinalityType
    <3>4. /\ dispatched[b] + E <= Earlier(b)' + attempts'[b] /\ Earlier(b)' \in Nat
          /\ dispatched[b] + E <= Earlier(b)' + MaxAttempts /\ attempts'[b] \in Nat
      <4>1. CASE UNCHANGED <<attempts, lapses>>
        BY <1>1, <2>1, <4>1 DEF Earlier
      <4>2. ASSUME NEW found \in MarkerFound(b), Bumps(b, found)
            PROVE  /\ dispatched[b] + E <= Earlier(b)' + attempts'[b] /\ Earlier(b)' \in Nat
                   /\ dispatched[b] + E <= Earlier(b)' + MaxAttempts /\ attempts'[b] \in Nat
        <5> HIDE DEF E
        <5>1. found \in Nat
          BY <1>3
        <5> QED BY <1>1, <2>1, <2>2, <4>2, <5>1
      <4> QED BY <1>2, <4>1, <4>2
    <3> HIDE DEF E
    <3> QED BY <1>1, <1>2, <2>1, <3>3, <3>4 DEF AttemptsPaid
  <2>4. CASE wpc'[t] = "rate"
    <3>1. PICK found \in MarkerFound(b) :
            /\ Bumps(b, found) /\ ~TooManyAttempts(found + 1)
            /\ wjob' = wjob /\ wpc' = [wpc EXCEPT ![t] = "rate"]
      BY <1>0, <2>4 DEF WorkerBumps, CallsNamed
    <3>2. Entitled(b)' = Entitled(b) \cup {t} /\ t \notin Entitled(b)
      BY <1>0, <3>1 DEF WorkerBumps, Entitled, CallsNamed
    <3>3. IsFiniteSet(Entitled(b)') /\ Cardinality(Entitled(b)') = E + 1
      BY <2>1, <3>2, FS_AddElement
    <3>4. found \in Nat /\ found + 1 <= MaxAttempts
      BY <1>1, <1>3, <3>1 DEF TooManyAttempts
    <3>5. /\ attempts'[b] = found + 1 /\ Earlier(b)' \in Nat
          /\ dispatched[b] + E <= Earlier(b)' + found
      BY <2>2, <3>1
    <3> HIDE DEF E
    <3> QED BY <1>1, <1>2, <2>1, <3>3, <3>4, <3>5 DEF AttemptsPaid
  <2> QED BY <2>3, <2>4
<1> QED BY <1>4, <1>5, <1>6, FewerEntitled DEF AttemptsInv

\* A dispatch turns a call in hand into a call made.
LEMMA DispatchKeepsAccount ==
    ASSUME CallsNamed, AttemptsInv, NEW t \in Token, WorkerDispatches(t)
    PROVE  AttemptsInv'
<1>0. PICK b \in Job : b = wjob[t]
  BY DEF CallsNamed, WorkerDispatches, Active
<1>1. /\ attempts[b] \in Nat /\ dispatched[b] \in Nat
      /\ MaxAttempts \in Nat /\ Earlier(b) \in Nat
  BY EarlierIs DEF AttemptsInv, Earlier
<1>2. /\ wpc' = [wpc EXCEPT ![t] = "run"] /\ wjob' = wjob /\ attempts' = attempts /\ lapses' = lapses
      /\ dispatched' = [dispatched EXCEPT ![b] = @ + 1]
      /\ wpc[t] = "refresh"
  BY <1>0 DEF WorkerDispatches
<1>3. attempts' \in [Job -> Nat] /\ dispatched' \in [Job -> Nat] /\ lapses' \in [Job -> Nat]
  BY <1>1, <1>2 DEF AttemptsInv
<1>4. \A j \in Job : j # b => AttemptsPaid(j)'
  <2> SUFFICES ASSUME NEW j \in Job, j # b PROVE AttemptsPaid(j)'
    OBVIOUS
  <2>1. Entitled(j)' \subseteq Entitled(j)
    BY <1>0, <1>2 DEF Entitled, CallsNamed
  <2>2. /\ dispatched'[j] = dispatched[j] /\ attempts'[j] = attempts[j] /\ attempts[j] \in Nat
        /\ lapses'[j] = lapses[j]
    BY <1>2 DEF AttemptsInv
  <2> QED BY <2>1, <2>2, FewerEntitled
<1>5. AttemptsPaid(b)'
  <2>1. Entitled(b)' = Entitled(b) \ {t} /\ t \in Entitled(b)
    BY <1>0, <1>2 DEF Entitled, CallsNamed
  <2>2. IsFiniteSet(Entitled(b)) /\ Cardinality(Entitled(b)) \in Nat
        /\ dispatched[b] + Cardinality(Entitled(b)) <= Earlier(b) + attempts[b]
        /\ dispatched[b] + Cardinality(Entitled(b)) <= Earlier(b) + MaxAttempts
    BY <1>1, FS_CardinalityType DEF AttemptsInv, AttemptsPaid
  <2>3. /\ IsFiniteSet(Entitled(b)')
        /\ Cardinality(Entitled(b)') = Cardinality(Entitled(b)) - 1
    BY <2>1, <2>2, FS_RemoveElement
  <2>4. dispatched'[b] = dispatched[b] + 1 /\ attempts'[b] = attempts[b]
        /\ Earlier(b)' = Earlier(b)
    BY <1>1, <1>2 DEF AttemptsInv, Earlier
  <2> QED BY <1>1, <2>2, <2>3, <2>4 DEF AttemptsPaid
<1> QED BY <1>3, <1>4, <1>5 DEF AttemptsInv

\* The other steps of a delivery count nothing and entitle nobody.
LEMMA OtherStepsEntitleNobody ==
    ASSUME CallsNamed, NEW t \in Token, WorkerActs(t),
           ~WorkerBumps(t), ~WorkerDispatches(t)
    PROVE  /\ UNCHANGED counts
           /\ \A j \in Job : Entitled(j)' \subseteq Entitled(j)
<1> USE DEF CallsNamed, Entitled, WorkerAt, WorkerEnds, WorkerLeaves, workerVars, counts
<1>1. CASE WorkerLeases(t) BY <1>1 DEF WorkerLeases
<1>2. CASE WorkerLeaseErrs(t) BY <1>2 DEF WorkerLeaseErrs
<1>3. CASE WorkerFindsNothing(t) BY <1>3 DEF WorkerFindsNothing
<1>4. CASE WorkerRejects(t) BY <1>4 DEF WorkerRejects
<1>5. CASE WorkerChecksDone(t) BY <1>5 DEF WorkerChecksDone
<1>6. CASE WorkerDeadLetters(t) BY <1>6 DEF WorkerDeadLetters
<1>7. CASE WorkerAsksRate(t) BY <1>7 DEF WorkerAsksRate
<1>8. CASE WorkerReleases(t) BY <1>8 DEF WorkerReleases
<1>9. CASE WorkerDoesNotDispatch(t) BY <1>9 DEF WorkerDoesNotDispatch
<1>10. CASE ProviderAnswers(t) BY <1>10 DEF ProviderAnswers
<1>11. CASE WorkerPublishes(t) BY <1>11 DEF WorkerPublishes
<1>12. CASE WorkerFinishes(t) BY <1>12 DEF WorkerFinishes
<1>13. CASE WorkerBeats(t) BY <1>13 DEF WorkerBeats, HeartbeatCanceled
<1>14. CASE WorkerDeadline(t) BY <1>14 DEF WorkerDeadline
<1>15. CASE WorkerCrashes(t) BY <1>15 DEF WorkerCrashes
<1> QED BY <1>1, <1>2, <1>3, <1>4, <1>5, <1>6, <1>7, <1>8, <1>9, <1>10, <1>11, <1>12,
           <1>13, <1>14, <1>15 DEF WorkerActs

\* Every step keeps the count of attempts.
LEMMA AttemptsStep ==
    ASSUME CallsNamed, AttemptsInv, [GatewayNext]_gatewayVars
    PROVE  AttemptsInv'
<1>1. ASSUME UNCHANGED workerVars PROVE AttemptsInv'
  BY <1>1 DEF workerVars, counts, AttemptsInv, AttemptsPaid, Entitled, Earlier
<1>2. CASE UNCHANGED gatewayVars
  BY <1>1, <1>2 DEF gatewayVars, runVars
<1>3. ASSUME NEW j \in Job, OriginActs(j) PROVE AttemptsInv'
  <2>1. UNCHANGED workerVars
    BY <1>3 DEF OriginActs, Subscribes, Awaits, AcceptReserved, AcceptRefused, AcceptFails,
       ActivateAccepted, ActivateRefused, CancelsOrigin, Rereads, OriginDeadline,
       ReadsTerminal, OriginBeats, ReadsBack, OriginReceives, BusBreaks, BusClosed,
       CallerLeaves, PumpCancels
  <2> QED BY <1>1, <2>1
<1>4. ASSUME NEW j \in Job, ReaperRuns(j) \/ TimePasses(j) PROVE AttemptsInv'
  BY <1>1, <1>4 DEF ReaperRuns, TimePasses
<1>5. CASE LateRuns
  BY <1>1, <1>5 DEF LateRuns
<1>6. ASSUME NEW t \in Token, WorkerActs(t) PROVE AttemptsInv'
  <2>1. CASE WorkerBumps(t) BY <2>1, BumpKeepsAccount
  <2>2. CASE WorkerDispatches(t) BY <2>2, DispatchKeepsAccount
  <2>3. CASE ~WorkerBumps(t) /\ ~WorkerDispatches(t)
    <3>1. /\ UNCHANGED counts
          /\ \A j \in Job : Entitled(j)' \subseteq Entitled(j)
      BY <1>6, <2>3, OtherStepsEntitleNobody
    <3>2. \A j \in Job : attempts'[j] \in Nat /\ attempts'[j] >= attempts[j]
                         /\ dispatched'[j] = dispatched[j] /\ lapses'[j] = lapses[j]
      BY <3>1 DEF AttemptsInv, counts
    <3>3. \A j \in Job : AttemptsPaid(j)'
      BY <3>1, <3>2, FewerEntitled
    <3> QED BY <3>1, <3>3 DEF AttemptsInv, counts
  <2> QED BY <2>1, <2>2, <2>3
<1> QED BY <1>2, <1>3, <1>4, <1>5, <1>6 DEF GatewayNext

\* As long as the marker lives the provider is called at most max_attempts times for
\* one job: crashes, reaped leases, releases and calls that run late never buy another
\* dispatch, and an expiry of the marker buys max_attempts.
THEOREM DispatchesBoundedHolds == GatewaySpec => []DispatchesBounded
<1>1. GatewayInit => AttemptsInv
  <2> SUFFICES ASSUME GatewayInit PROVE AttemptsInv
    OBVIOUS
  <2>1. \A j \in Job : Entitled(j) = {}
    BY DEF GatewayInit, Entitled
  <2>2. \A j \in Job : attempts[j] = 0 /\ dispatched[j] = 0 /\ lapses[j] = 0
    BY DEF GatewayInit
  <2>3. \A j \in Job : Earlier(j) \in Nat /\ MaxAttempts \in Nat
    BY <2>2, EarlierIs DEF Earlier
  <2>4. \A j \in Job : AttemptsPaid(j)
    <3> SUFFICES ASSUME NEW j \in Job PROVE AttemptsPaid(j)
      OBVIOUS
    <3>1. IsFiniteSet(Entitled(j)) /\ Cardinality(Entitled(j)) = 0
      BY <2>1, FS_EmptySet
    <3>2. dispatched[j] + Cardinality(Entitled(j)) = 0 /\ attempts[j] = 0
      BY <2>2, <3>1
    <3> QED BY <2>3, <3>1, <3>2 DEF AttemptsPaid
  <2> QED BY <2>4 DEF GatewayInit, AttemptsInv
<1>2. CallsNamed /\ AttemptsInv /\ [GatewayNext]_gatewayVars => AttemptsInv'
  BY AttemptsStep
<1>3. AttemptsInv => DispatchesBounded
  <2> SUFFICES ASSUME AttemptsInv, NEW j \in Job
               PROVE  dispatched[j] <= MaxAttempts * (1 + lapses[j])
    BY DEF DispatchesBounded
  <2>1. /\ dispatched[j] \in Nat /\ Cardinality(Entitled(j)) \in Nat
        /\ MaxAttempts \in Nat /\ Earlier(j) \in Nat
        /\ MaxAttempts * (1 + lapses[j]) = Earlier(j) + MaxAttempts
    BY EarlierIs, FS_CardinalityType DEF AttemptsInv, AttemptsPaid, Earlier
  <2> QED BY <2>1 DEF AttemptsInv, AttemptsPaid
<1> QED BY <1>1, <1>2, <1>3, NamesInvariant, PTL DEF GatewaySpec
=============================================================================
