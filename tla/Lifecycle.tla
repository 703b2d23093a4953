----------------------------- MODULE Lifecycle -----------------------------
(***************************************************************************)
(* The lifecycle-v2 store of the distributed gateway: the Redis keys that  *)
(* src/src/gateway/distributed/lifecycle.rs and the worker scripts of      *)
(* src/src/gateway/distributed.rs share, and one action per Lua script     *)
(* that changes them.  A script runs atomically, so an action is a whole   *)
(* script; a script that answers without writing anything is a stuttering  *)
(* step and has no action here.                                            *)
(*                                                                         *)
(* The clients (origins, workers, reapers) are unconstrained: any script   *)
(* may arrive at any time from anyone holding any owner token, which is    *)
(* what delayed, repeated and abandoned calls look like to Redis.          *)
(*                                                                         *)
(* Redis TIME is only compared with deadlines, so a deadline is the flag   *)
(* "this deadline has passed"; a time action raises it, whoever writes a   *)
(* new deadline lowers it.  Every order of deadlines is thereby covered.   *)
(***************************************************************************)
EXTENDS Integers, FiniteSets, Units

CONSTANTS
    Job,            \* queue members "id:generation"; next_id never repeats an id
    Token,          \* owner tokens, one fresh uuid per lease
    NoToken,        \* no entry in the owners hash
    BaseCharge,     \* serialized request plus METADATA_BYTES
    Headroom,       \* terminal bytes reserved for a delivery before dispatch
    CancelLen,      \* length of the fixed cancellation envelope
    MaxJobs, MaxBaseBytes, MaxTerminalBytes,   \* lifecycle::Limits
    MaxWaiting,     \* config.max_queue_depth
    MaxDlq, MaxDlqBytes,                       \* bounds of DEAD_LETTER_LUA
    Score,          \* deadline_score: the priority of a member, fixed at submission
    TimelyReaper    \* a lapsed lease is reaped before its metadata hard-expires

ASSUME ConstantsAssumption ==
    /\ NoToken \notin Token
    /\ IsFiniteSet(Job)
    /\ BaseCharge \in Nat \ {0}
    /\ Headroom \in Nat \ {0}
    /\ CancelLen \in 1..Headroom
    /\ MaxJobs \in Nat /\ MaxBaseBytes \in Nat /\ MaxTerminalBytes \in Nat
    /\ MaxWaiting \in Nat /\ MaxDlq \in Nat /\ MaxDlqBytes \in Nat
    /\ Score \in [Job -> Int]
    /\ TimelyReaper \in BOOLEAN

VARIABLES
    issued,     \* history: members that were ever reserved
    spent,      \* history: owner tokens that were ever drawn
    latest,     \* history: the token of each member's latest delivery
    meta,       \* the job:<id>:meta hash: absent, full, or a stub without generation
    state,      \* its field state
    cancel,     \* its field cancel_requested
    charge,     \* its field terminal_charge
    originDue,  \* origin_expires_at_ms or origin_max_expires_at_ms has passed
    grace,      \* the deadline the metadata TTL was set beside has passed
    terminal,   \* the job:<id>:terminal key
    reserved,   \* fields of the reservations hash
    rstate,     \* reservation_states
    rterm,      \* terminal_reservations
    expiryIdx,  \* members of the expiry sorted set
    expiryDue,  \* their score has passed
    originIdx,  \* members of the origin_expiry sorted set
    queue,      \* members of the waiting sorted set
    proc,       \* members of the processing sorted set
    leaseDue,   \* their visibility deadline has passed
    owner,      \* the owners hash (the leased hash is written and deleted with it)
    dlq,        \* members of the dead-letter set, with a DLQ reservation
    jobs, baseBytes, termBytes, dlqBytes,      \* the counters hash
    published   \* history: envelopes published on each response channel

metaVars  == <<meta, state, cancel, charge, originDue, grace>>
resVars   == <<reserved, rstate, rterm, expiryIdx, expiryDue, originIdx>>
leaseVars == <<proc, leaseDue, owner>>
counters  == <<jobs, baseBytes, termBytes, dlqBytes>>
history == <<issued, spent, latest>>
vars == <<history, metaVars, terminal, resVars, queue, leaseVars, dlq, counters,
          published>>

States == {"none", "pending_origin", "waiting", "processing", "terminal", "dlq"}
Live == {"pending_origin", "waiting", "processing"}

\* BusMessage: chunk, result (Unary or End) and error come from a delivery;
\* cancel and dead are the fixed envelopes the scripts store themselves.
Envelope == {"result", "error", "cancel", "dead"}
NoEnvelope == "none"
Message == [kind : Envelope \cup {"chunk"}, by : Token \cup {NoToken}]
Fixed(kind) == [kind |-> kind, by |-> NoToken]

-----------------------------------------------------------------------------
(***************************************************************************)
(* Fences shared by the scripts.                                           *)
(***************************************************************************)

\* HGET meta 'generation' == generation
SameGeneration(j) == meta[j] = "full"

\* The expiry fields of a missing hash read as '0', which is in the past.
OriginExpired(j) == meta[j] # "full" \/ originDue[j]

\* Wrong variant: cancel_requested is not read back.
CanceledByClockOnly(j) == OriginExpired(j)

\* What a script that checks cancellation decides on.
Canceled(j) == cancel[j] \/ OriginExpired(j)

\* Wrong variant: the owner token is not compared.
OwnsAnyToken(j, t) == owner[j] # NoToken /\ j \in proc /\ SameGeneration(j)

\* Owner token, presence in processing and generation all agree.
Owns(j, t) == owner[j] = t /\ j \in proc /\ SameGeneration(j)

-----------------------------------------------------------------------------
Init ==
    /\ issued = {} /\ spent = {}
    /\ latest = [j \in Job |-> NoToken]
    /\ meta = [j \in Job |-> "absent"]
    /\ state = [j \in Job |-> "none"]
    /\ cancel = [j \in Job |-> FALSE]
    /\ charge = [j \in Job |-> 0]
    /\ originDue = [j \in Job |-> FALSE]
    /\ grace = [j \in Job |-> FALSE]
    /\ terminal = [j \in Job |-> NoEnvelope]
    /\ reserved = {}
    /\ rstate = [j \in Job |-> "none"]
    /\ rterm = [j \in Job |-> 0]
    /\ expiryIdx = {}
    /\ expiryDue = [j \in Job |-> FALSE]
    /\ originIdx = {}
    /\ queue = {}
    /\ proc = {}
    /\ leaseDue = [j \in Job |-> FALSE]
    /\ owner = [j \in Job |-> NoToken]
    /\ dlq = {}
    /\ jobs = 0 /\ baseBytes = 0 /\ termBytes = 0 /\ dlqBytes = 0
    /\ published = [j \in Job |-> {}]

-----------------------------------------------------------------------------
(***************************************************************************)
(* Small transitions several scripts share.                                *)
(***************************************************************************)

\* ZADD expiry with PEXPIRE of metadata, payload and terminal behind it.
NewDeadline(j) ==
    /\ expiryIdx' = expiryIdx \cup {j}
    /\ expiryDue' = [expiryDue EXCEPT ![j] = FALSE]
    /\ grace' = [grace EXCEPT ![j] = FALSE]

\* Wrong variant: the owners hash keeps its field.
DropLeaseKeepingOwner(j) ==
    /\ proc' = proc \ {j}
    /\ leaseDue' = [leaseDue EXCEPT ![j] = FALSE]
    /\ UNCHANGED owner

\* ZREM processing, HDEL leased, HDEL owners
DropLease(j) ==
    /\ proc' = proc \ {j}
    /\ leaseDue' = [leaseDue EXCEPT ![j] = FALSE]
    /\ owner' = [owner EXCEPT ![j] = NoToken]

Emit(j, message) == published' = [published EXCEPT ![j] = @ \cup {message}]

\* HSET meta and reservation_states to the same state
Become(j, s) ==
    /\ state' = [state EXCEPT ![j] = s]
    /\ rstate' = [rstate EXCEPT ![j] = s]

-----------------------------------------------------------------------------
(***************************************************************************)
(* Origin scripts (lifecycle.rs).                                          *)
(***************************************************************************)

HasCapacity == jobs < MaxJobs /\ baseBytes + BaseCharge <= MaxBaseBytes

\* RESERVE_LUA: admission against the retained-job and base-byte limits.
Reserve(j) ==
    /\ j \notin issued
    /\ HasCapacity
    /\ issued' = issued \cup {j}
    /\ meta' = [meta EXCEPT ![j] = "full"]
    /\ Become(j, "pending_origin")
    /\ reserved' = reserved \cup {j}
    /\ rterm' = [rterm EXCEPT ![j] = 0]
    /\ jobs' = jobs + 1
    /\ baseBytes' = baseBytes + BaseCharge
    /\ NewDeadline(j)
    /\ originIdx' = originIdx \cup {j}
    /\ UNCHANGED <<spent, latest, cancel, charge, originDue, terminal, queue,
                   leaseVars, dlq, termBytes, dlqBytes, published>>

\* ACTIVATE_LUA
Activate(j) ==
    /\ SameGeneration(j)
    /\ state[j] = "pending_origin"
    /\ Cardinality(queue) < MaxWaiting
    /\ Become(j, "waiting")
    /\ queue' = queue \cup {j}
    /\ NewDeadline(j)
    /\ UNCHANGED <<history, meta, cancel, charge, originDue, terminal, reserved,
                   rterm, originIdx, leaseVars, dlq, counters, published>>

\* CANCEL_LUA on a leased job: the request is recorded, the lease stays.
CancelProcessing(j) ==
    /\ SameGeneration(j)
    /\ state[j] = "processing"
    /\ cancel' = [cancel EXCEPT ![j] = TRUE]
    /\ originIdx' = originIdx \ {j}
    /\ Emit(j, Fixed("cancel"))
    /\ UNCHANGED <<history, meta, state, charge, originDue, grace, terminal,
                   reserved, rstate, rterm, expiryIdx, expiryDue, queue,
                   leaseVars, dlq, counters>>

\* A job nobody has leased ends at once with the cancellation envelope.
EndUnleased(j) ==
    /\ SameGeneration(j)
    /\ state[j] \in {"pending_origin", "waiting"}
    /\ queue' = queue \ {j}
    /\ terminal' = [terminal EXCEPT ![j] = "cancel"]
    /\ Become(j, "terminal")
    /\ charge' = [charge EXCEPT ![j] = 0]
    /\ originIdx' = originIdx \ {j}
    /\ NewDeadline(j)
    /\ Emit(j, Fixed("cancel"))
    /\ UNCHANGED <<history, meta, originDue, reserved, rterm, leaseVars, dlq, counters>>

\* CANCEL_LUA on a job that is pending or waiting.
CancelUnleased(j) == EndUnleased(j) /\ UNCHANGED cancel

\* ORIGIN_HEARTBEAT_LUA while the origin lease is current.
OriginHeartbeat(j) ==
    /\ SameGeneration(j)
    /\ state[j] \in Live
    /\ ~originDue[j]
    /\ originIdx' = originIdx \cup {j}
    /\ UNCHANGED <<history, metaVars, terminal, reserved, rstate, rterm, expiryIdx,
                   expiryDue, queue, leaseVars, dlq, counters, published>>

\* A script that finds the origin lease expired leaves the mark behind it even
\* when it then refuses: ORIGIN_HEARTBEAT, LEASE, RELEASE, REFRESH, PUBLISH.
MarkCanceled(j) ==
    /\ SameGeneration(j)
    /\ state[j] \in Live
    /\ originDue[j]
    /\ cancel' = [cancel EXCEPT ![j] = TRUE]
    /\ UNCHANGED <<history, meta, state, charge, originDue, grace, terminal, resVars,
                   queue, leaseVars, dlq, counters, published>>

\* EXPIRE_ORIGINS_LUA on one expired member of the origin_expiry set.
ExpireOriginProcessing(j) ==
    /\ j \in originIdx /\ OriginExpired(j)
    /\ CancelProcessing(j)

ExpireOriginUnleased(j) ==
    /\ j \in originIdx /\ OriginExpired(j)
    /\ EndUnleased(j)
    /\ cancel' = [cancel EXCEPT ![j] = TRUE]

\* The same script on a member whose metadata is gone or already final.
ExpireOriginStale(j) ==
    /\ j \in originIdx /\ OriginExpired(j)
    /\ ~(SameGeneration(j) /\ state[j] \in Live)
    /\ originIdx' = originIdx \ {j}
    /\ UNCHANGED <<history, metaVars, terminal, reserved, rstate, rterm, expiryIdx,
                   expiryDue, queue, leaseVars, dlq, counters, published>>

\* Wrong variant: a processing member waits even without metadata.
CleanupWaitsForState(j) == rstate[j] = "processing"

\* CLEANUP_LUA leaves a member alone while a delivery may still be running.
CleanupWaits(j) == rstate[j] = "processing" /\ meta[j] # "absent"

\* Wrong variant: the terminal charge is taken from the metadata.
DischargeFromMeta(j) ==
    /\ reserved' = reserved \ {j}
    /\ jobs' = jobs - 1
    /\ baseBytes' = baseBytes - BaseCharge
    /\ termBytes' = termBytes - charge[j]
    /\ dlqBytes' = IF j \in dlq THEN dlqBytes - BaseCharge ELSE dlqBytes

\* What CLEANUP_LUA gives back, all of it read from the reservation indexes.
Discharge(j) ==
    /\ reserved' = reserved \ {j}
    /\ jobs' = jobs - 1
    /\ baseBytes' = baseBytes - BaseCharge
    /\ termBytes' = termBytes - rterm[j]
    /\ dlqBytes' = IF j \in dlq THEN dlqBytes - BaseCharge ELSE dlqBytes

\* CLEANUP_LUA on a member still processing: look again in a minute.
CleanupPostpone(j) ==
    /\ j \in expiryIdx /\ expiryDue[j]
    /\ CleanupWaits(j)
    /\ expiryDue' = [expiryDue EXCEPT ![j] = FALSE]
    /\ UNCHANGED <<history, metaVars, terminal, reserved, rstate, rterm, expiryIdx,
                   originIdx, queue, leaseVars, dlq, counters, published>>

\* CLEANUP_LUA otherwise: release every charge the reservation indexes hold.
CleanupRelease(j) ==
    /\ j \in expiryIdx /\ expiryDue[j]
    /\ ~CleanupWaits(j)
    /\ j \in reserved
    /\ Discharge(j)
    /\ queue' = queue \ {j}
    /\ DropLease(j)
    /\ dlq' = dlq \ {j}
    /\ Become(j, "none")
    /\ rterm' = [rterm EXCEPT ![j] = 0]
    /\ meta' = [meta EXCEPT ![j] = "absent"]
    /\ cancel' = [cancel EXCEPT ![j] = FALSE]
    /\ charge' = [charge EXCEPT ![j] = 0]
    /\ originDue' = [originDue EXCEPT ![j] = FALSE]
    /\ terminal' = [terminal EXCEPT ![j] = NoEnvelope]
    /\ expiryIdx' = expiryIdx \ {j}
    /\ expiryDue' = [expiryDue EXCEPT ![j] = FALSE]
    /\ grace' = [grace EXCEPT ![j] = FALSE]
    /\ originIdx' = originIdx \ {j}
    /\ UNCHANGED <<history, published>>

-----------------------------------------------------------------------------
(***************************************************************************)
(* Worker scripts (distributed.rs).                                        *)
(***************************************************************************)

\* ZRANGE queue 0 0
AtHead(j) == j \in queue /\ \A k \in queue : Score[j] <= Score[k]

\* LEASE_LUA: a head that is not a waiting job of its generation is dropped.
LeaseDiscards(j) ==
    /\ AtHead(j)
    /\ ~(SameGeneration(j) /\ state[j] = "waiting")
    /\ queue' = queue \ {j}
    /\ UNCHANGED <<history, metaVars, terminal, resVars, leaseVars, dlq, counters,
                   published>>

\* Headroom a lease adds to the pool: a redelivered job still holds its own.
LeaseCharge(j) == IF charge[j] > 0 THEN 0 ELSE Headroom

\* LEASE_LUA: the head moves to processing under a fresh owner token.
Lease(j, t) ==
    /\ t \notin spent
    /\ AtHead(j)
    /\ SameGeneration(j) /\ state[j] = "waiting"
    /\ ~Canceled(j)
    /\ LeaseCharge(j) > 0 => termBytes + LeaseCharge(j) <= MaxTerminalBytes
    /\ queue' = queue \ {j}
    /\ proc' = proc \cup {j}
    /\ leaseDue' = [leaseDue EXCEPT ![j] = FALSE]
    /\ owner' = [owner EXCEPT ![j] = t]
    /\ termBytes' = termBytes + LeaseCharge(j)
    /\ charge' = [charge EXCEPT ![j] = @ + LeaseCharge(j)]
    /\ rterm' = [rterm EXCEPT ![j] = charge'[j]]
    /\ Become(j, "processing")
    /\ NewDeadline(j)
    /\ spent' = spent \cup {t}
    /\ latest' = [latest EXCEPT ![j] = t]
    /\ UNCHANGED <<issued, meta, cancel, originDue, terminal, reserved, originIdx,
                   dlq, jobs, baseBytes, dlqBytes, published>>

\* ACK_LUA: the delivery is forgotten, the job's records stay as they are.
Ack(j, t) ==
    /\ owner[j] = t
    /\ DropLease(j)
    /\ UNCHANGED <<history, metaVars, terminal, resVars, queue, dlq, counters, published>>

\* RELEASE_LUA: back to the queue at the old score, headroom returned.
Release(j, t) ==
    /\ owner[j] = t /\ SameGeneration(j)
    /\ ~Canceled(j)
    /\ termBytes' = termBytes - charge[j]
    /\ Become(j, "waiting")
    /\ charge' = [charge EXCEPT ![j] = 0]
    /\ rterm' = [rterm EXCEPT ![j] = 0]
    /\ queue' = queue \cup {j}
    /\ DropLease(j)
    /\ UNCHANGED <<history, meta, cancel, originDue, grace, terminal, reserved,
                   expiryIdx, expiryDue, originIdx, dlq, jobs, baseBytes, dlqBytes,
                   published>>

\* REFRESH_LUA
Refresh(j, t) ==
    /\ Owns(j, t)
    /\ ~Canceled(j)
    /\ leaseDue' = [leaseDue EXCEPT ![j] = FALSE]
    /\ UNCHANGED <<history, metaVars, terminal, resVars, queue, proc, owner, dlq,
                   counters, published>>

\* PUBLISH_LUA: one stream chunk.
Publish(j, t) ==
    /\ Owns(j, t)
    /\ ~Canceled(j)
    /\ Emit(j, [kind |-> "chunk", by |-> t])
    /\ UNCHANGED <<history, metaVars, terminal, resVars, queue, leaseVars, dlq, counters>>

\* The part TERMINAL_PUBLISH_COMPLETE_LUA, REAP_LUA and DEAD_LETTER_LUA share:
\* the job ends with an envelope charged n bytes to the terminal pool.
End(j, envelope, n) ==
    /\ terminal' = [terminal EXCEPT ![j] = envelope]
    /\ Become(j, "terminal")
    /\ charge' = [charge EXCEPT ![j] = n]
    /\ rterm' = [rterm EXCEPT ![j] = n]
    /\ NewDeadline(j)
    /\ DropLease(j)
    /\ originIdx' = originIdx \ {j}

\* Wrong variant: the script does not look at cancellation.
TerminalPublishAnyway(j, t, envelope, n) ==
    /\ Owns(j, t)
    /\ n <= charge[j]
    /\ End(j, envelope, n)
    /\ termBytes' = termBytes + n - charge[j]
    /\ Emit(j, [kind |-> envelope, by |-> t])
    /\ UNCHANGED <<history, meta, cancel, originDue, reserved, queue, dlq, jobs,
                   baseBytes, dlqBytes>>

\* TERMINAL_PUBLISH_COMPLETE_LUA with an n-byte envelope of the delivery.
TerminalPublishComplete(j, t, envelope, n) ==
    /\ Owns(j, t)
    /\ ~Canceled(j)
    /\ n <= charge[j]
    /\ End(j, envelope, n)
    /\ termBytes' = termBytes + n - charge[j]
    /\ Emit(j, [kind |-> envelope, by |-> t])
    /\ UNCHANGED <<history, meta, cancel, originDue, reserved, queue, dlq, jobs,
                   baseBytes, dlqBytes>>

\* The same script once cancellation has won: the payload is replaced.
TerminalPublishCanceled(j, t) ==
    /\ Owns(j, t)
    /\ Canceled(j)
    /\ CancelLen <= charge[j]
    /\ cancel' = [cancel EXCEPT ![j] = TRUE]
    /\ End(j, "cancel", CancelLen)
    /\ termBytes' = termBytes + CancelLen - charge[j]
    /\ Emit(j, Fixed("cancel"))
    /\ UNCHANGED <<history, meta, originDue, reserved, queue, dlq, jobs, baseBytes,
                   dlqBytes>>

\* DEAD_LETTER_LUA: canceled and overflowing deliveries end, the rest is kept.
DlqOverflow == Cardinality(dlq) >= MaxDlq \/ dlqBytes + BaseCharge > MaxDlqBytes

DeadLetterCanceled(j, t) ==
    /\ Owns(j, t)
    /\ Canceled(j)
    /\ cancel' = [cancel EXCEPT ![j] = TRUE]
    /\ End(j, "cancel", 0)
    /\ termBytes' = termBytes - charge[j]
    /\ Emit(j, Fixed("cancel"))
    /\ UNCHANGED <<history, meta, originDue, reserved, queue, dlq, jobs, baseBytes,
                   dlqBytes>>

DeadLetterOverflow(j, t) ==
    /\ Owns(j, t)
    /\ ~Canceled(j)
    /\ DlqOverflow
    /\ End(j, "dead", 0)
    /\ termBytes' = termBytes - charge[j]
    /\ Emit(j, Fixed("dead"))
    /\ UNCHANGED <<history, meta, cancel, originDue, reserved, queue, dlq, jobs,
                   baseBytes, dlqBytes>>

DeadLetter(j, t) ==
    /\ Owns(j, t)
    /\ ~Canceled(j)
    /\ ~DlqOverflow
    /\ terminal' = [terminal EXCEPT ![j] = "dead"]
    /\ Become(j, "dlq")
    /\ charge' = [charge EXCEPT ![j] = 0]
    /\ rterm' = [rterm EXCEPT ![j] = 0]
    /\ termBytes' = termBytes - charge[j]
    /\ dlq' = dlq \cup {j}
    /\ dlqBytes' = dlqBytes + BaseCharge
    /\ NewDeadline(j)
    /\ DropLease(j)
    /\ originIdx' = originIdx \ {j}
    /\ Emit(j, Fixed("dead"))
    /\ UNCHANGED <<history, meta, cancel, originDue, reserved, queue, jobs, baseBytes>>

\* REAP_LUA on one lapsed lease.  A canceled job ends, unpublished ...
ReapCanceled(j) ==
    /\ j \in proc /\ leaseDue[j]
    /\ SameGeneration(j)
    /\ Canceled(j)
    /\ cancel' = [cancel EXCEPT ![j] = TRUE]
    /\ End(j, "cancel", CancelLen)
    /\ termBytes' = IF charge[j] > 0 THEN termBytes + CancelLen - charge[j] ELSE termBytes
    /\ UNCHANGED <<history, meta, originDue, reserved, queue, dlq, jobs, baseBytes,
                   dlqBytes, published>>

\* ... any other job returns to the queue, keeping its headroom and deadline ...
ReapRequeue(j) ==
    /\ j \in proc /\ leaseDue[j]
    /\ SameGeneration(j)
    /\ ~Canceled(j)
    /\ queue' = queue \cup {j}
    /\ Become(j, "waiting")
    /\ DropLease(j)
    /\ UNCHANGED <<history, meta, cancel, charge, originDue, grace, terminal, reserved,
                   rterm, expiryIdx, expiryDue, originIdx, dlq, counters, published>>

\* ... and where the metadata is gone the cancellation mark recreates its hash
\* (HSET creates the key, without a TTL) before the generations are compared.
ReapOrphan(j) ==
    /\ j \in proc /\ leaseDue[j]
    /\ ~SameGeneration(j)
    /\ meta' = [meta EXCEPT ![j] = "stub"]
    /\ cancel' = [cancel EXCEPT ![j] = TRUE]
    /\ DropLease(j)
    /\ UNCHANGED <<history, state, charge, originDue, grace, terminal, resVars, queue,
                   dlq, counters, published>>

-----------------------------------------------------------------------------
(***************************************************************************)
(* Redis TIME and key expiry.                                              *)
(***************************************************************************)

LeaseElapses(j) ==
    /\ j \in proc /\ ~leaseDue[j]
    /\ leaseDue' = [leaseDue EXCEPT ![j] = TRUE]
    /\ UNCHANGED <<history, metaVars, terminal, resVars, queue, proc, owner, dlq,
                   counters, published>>

\* Read only while the job is live, so raised only then.
OriginElapses(j) ==
    /\ SameGeneration(j) /\ state[j] \in Live /\ ~originDue[j]
    /\ originDue' = [originDue EXCEPT ![j] = TRUE]
    /\ UNCHANGED <<history, meta, state, cancel, charge, grace, terminal, resVars,
                   queue, leaseVars, dlq, counters, published>>

ExpiryElapses(j) ==
    /\ j \in expiryIdx /\ ~expiryDue[j]
    /\ expiryDue' = [expiryDue EXCEPT ![j] = TRUE]
    /\ grace' = [grace EXCEPT ![j] = TRUE]
    /\ UNCHANGED <<history, meta, state, cancel, charge, originDue, terminal, reserved,
                   rstate, rterm, expiryIdx, originIdx, queue, leaseVars, dlq,
                   counters, published>>

\* Metadata, payload and terminal share one TTL, CLEANUP_GRACE_MS beyond the
\* deadline that was set with it.
MetaHardExpires(j) ==
    /\ meta[j] = "full" /\ grace[j]
    /\ TimelyReaper => j \notin proc
    /\ meta' = [meta EXCEPT ![j] = "absent"]
    /\ state' = [state EXCEPT ![j] = "none"]
    /\ cancel' = [cancel EXCEPT ![j] = FALSE]
    /\ charge' = [charge EXCEPT ![j] = 0]
    /\ originDue' = [originDue EXCEPT ![j] = FALSE]
    /\ terminal' = [terminal EXCEPT ![j] = NoEnvelope]
    /\ UNCHANGED <<history, grace, resVars, queue, leaseVars, dlq, counters, published>>

-----------------------------------------------------------------------------
OriginStep(j) ==
    \/ Reserve(j) \/ Activate(j)
    \/ CancelProcessing(j) \/ CancelUnleased(j)
    \/ OriginHeartbeat(j) \/ MarkCanceled(j)

ReaperStep(j) ==
    \/ ExpireOriginProcessing(j) \/ ExpireOriginUnleased(j) \/ ExpireOriginStale(j)
    \/ CleanupPostpone(j) \/ CleanupRelease(j)
    \/ ReapCanceled(j) \/ ReapRequeue(j) \/ ReapOrphan(j)

WorkerStep(j, t) ==
    \/ LeaseDiscards(j) \/ Lease(j, t) \/ Ack(j, t) \/ Release(j, t)
    \/ Refresh(j, t) \/ Publish(j, t)
    \/ \E envelope \in {"result", "error"}, n \in 1..Headroom :
         TerminalPublishComplete(j, t, envelope, n)
    \/ TerminalPublishCanceled(j, t)
    \/ DeadLetterCanceled(j, t) \/ DeadLetterOverflow(j, t) \/ DeadLetter(j, t)

TimeStep(j) ==
    \/ LeaseElapses(j) \/ OriginElapses(j) \/ ExpiryElapses(j) \/ MetaHardExpires(j)

Next == \E j \in Job :
    \/ OriginStep(j) \/ ReaperStep(j) \/ TimeStep(j)
    \/ \E t \in Token : WorkerStep(j, t)

Spec == Init /\ [][Next]_vars

\* Redis time always advances, and every gateway runs the reaper loop for as
\* long as it lives; nothing is assumed of origins and workers.
FairSpec ==
    /\ Spec
    /\ \A j \in Job : WF_vars(ExpireOriginProcessing(j) \/ ExpireOriginUnleased(j)
                               \/ ExpireOriginStale(j))
    /\ \A j \in Job : WF_vars(CleanupPostpone(j) \/ CleanupRelease(j))
    /\ \A j \in Job : WF_vars(ReapCanceled(j) \/ ReapRequeue(j) \/ ReapOrphan(j))
    /\ \A j \in Job : WF_vars(LeaseElapses(j))
    /\ \A j \in Job : WF_vars(OriginElapses(j))
    /\ \A j \in Job : WF_vars(ExpiryElapses(j))
    /\ \A j \in Job : WF_vars(MetaHardExpires(j))

-----------------------------------------------------------------------------
(***************************************************************************)
(* Properties.                                                             *)
(***************************************************************************)

\* Type correctness of every key the scripts share.
TypeOK ==
    /\ issued \in SUBSET Job /\ spent \in SUBSET Token
    /\ latest \in [Job -> Token \cup {NoToken}]
    /\ meta \in [Job -> {"absent", "stub", "full"}]
    /\ state \in [Job -> States] /\ rstate \in [Job -> States]
    /\ cancel \in [Job -> BOOLEAN] /\ originDue \in [Job -> BOOLEAN]
    /\ grace \in [Job -> BOOLEAN] /\ expiryDue \in [Job -> BOOLEAN]
    /\ leaseDue \in [Job -> BOOLEAN]
    /\ charge \in [Job -> 0..Headroom] /\ rterm \in [Job -> 0..Headroom]
    /\ terminal \in [Job -> Envelope \cup {NoEnvelope}]
    /\ reserved \in SUBSET Job /\ expiryIdx \in SUBSET Job
    /\ originIdx \in SUBSET Job /\ queue \in SUBSET Job
    /\ proc \in SUBSET Job /\ dlq \in SUBSET Job
    /\ owner \in [Job -> Token \cup {NoToken}]
    /\ jobs \in Int /\ baseBytes \in Int /\ termBytes \in Int /\ dlqBytes \in Int
    /\ published \in [Job -> SUBSET Message]

\* The sorted sets, the hashes and the metadata never disagree about where a
\* job is: a waiting job is dispatchable, a delivery has exactly one owner, no
\* job is queued and leased at once, and every final job has its envelope.
IndexAgreement ==
    \A j \in Job :
        /\ state[j] = "waiting" => j \in queue
        /\ j \in queue /\ meta[j] = "full" => state[j] = "waiting"
        /\ owner[j] # NoToken <=> j \in proc
        /\ j \in proc /\ meta[j] = "full" => state[j] = "processing"
        /\ ~(j \in queue /\ j \in proc)
        /\ j \in dlq /\ meta[j] = "full" => state[j] = "dlq"
        /\ terminal[j] # NoEnvelope <=> state[j] \in {"terminal", "dlq"}
        /\ state[j] # "none" => meta[j] = "full" /\ rstate[j] = state[j]

\* Whatever is still recorded about a job is in the reservation indexes, so
\* cleanup finds it even when its metadata is gone.
NothingUnindexed ==
    \A j \in Job :
        /\ j \in reserved <=> j \in expiryIdx
        /\ j \in reserved <=> rstate[j] # "none"
        /\ j \in queue \cup proc \cup dlq \cup originIdx => j \in reserved
        /\ meta[j] # "absent" => j \in reserved

\* The job counter is the number of reservations, and never above its limit.
JobsCounted == jobs = Cardinality(reserved) /\ jobs <= MaxJobs

\* The byte counters are the sums of what the reservation indexes hold, and
\* stay within their pools: no path double-charges, leaks or over-releases.
BytesConserved ==
    /\ baseBytes = BaseCharge * Cardinality(reserved)
    /\ termBytes = SumOf(rterm)
    /\ dlqBytes = BaseCharge * Cardinality(dlq)
    /\ baseBytes <= MaxBaseBytes
    /\ termBytes <= MaxTerminalBytes
    /\ dlqBytes <= MaxDlqBytes

\* A stale worker stays silent: content a step publishes comes from the latest
\* delivery of the job, while that delivery still owns it.
StaleSilent == [][\A j \in Job : \A m \in published'[j] \ published[j] :
                     m.by # NoToken => m.by = latest[j] /\ owner[j] = m.by]_vars

\* The verdict of a job as JobVerdict sees it: cancellation counts from the
\* moment it is recorded, not from the moment the envelope is stored.
Verdict(j) ==
    CASE j \notin issued -> "unsubmitted"
      [] j \in issued /\ meta[j] # "full" -> "forgotten"
      [] j \in issued /\ meta[j] = "full" /\ terminal[j] # NoEnvelope -> terminal[j]
      [] j \in issued /\ meta[j] = "full" /\ terminal[j] = NoEnvelope /\ cancel[j] -> "cancel"
      [] OTHER -> "open"

Heard(j) == {m.kind : m \in published[j]}

V == INSTANCE JobVerdict WITH
        Outcome <- Envelope,
        verdict <- [j \in Job |-> Verdict(j)],
        heard <- [j \in Job |-> Heard(j)]

\* The store implements the promise of JobVerdict: once cancellation (or any
\* other outcome) wins, no chunk and no different envelope is published or
\* stored, whoever still runs.
OneVerdict == V!Spec

\* Every reservation is released in the end: crashed origins and workers,
\* acknowledged deliveries and metadata hard expiry never leak capacity.
ReservationsReleased == \A j \in Job : j \in reserved ~> j \notin reserved
=============================================================================
