----------------------------- MODULE RedisLedger -----------------------------
(***************************************************************************)
(* The spend ledger the replicas of a gateway share (redis_rates in        *)
(* src/src/gateway/attempt.rs): the scripts that carry over what replicas  *)
(* of an older version have spent, that admit an attempt and that settle   *)
(* it, as src/src/gateway/http.rs and the attempt coordinator call them.   *)
(*                                                                         *)
(* One tenant with a cap.  A script is one step.  Whoever called it may    *)
(* have given up: the script still runs, once, and nobody hears of it.     *)
(* A request's attempts share its floor; here each has read its own.       *)
(* All keys of a window expire together, when its retention ends.  The     *)
(* four token buckets appear as a refusal that may always happen.          *)
(***************************************************************************)
EXTENDS Integers, FiniteSets, FiniteSetsExt, Units

CONSTANTS
    Attempt,        \* attempt ids; a UUID is used once
    Quote,          \* what budget::quote may answer: [bounded, amount]
    Amount,         \* amounts a usage snapshot may carry
    Limit, MaxExact,
    WindowSecs, Retention,
    Places,         \* the values max_retained_attempts may be configured with
    Batch,          \* ACCOUNTING_EXPIRY_CLEANUP_BATCH
    MaxLegacy,      \* bound: what older replicas spend in a window
    MaxNow          \* bound: the clock

VARIABLES
    maxRetained,    \* max_retained_attempts
    now,
    pc,         \* where each attempt is
    scope,      \* TrustedPolicyScope.legacy_spend_floor of each attempt
    legacy,     \* what older replicas have counted in each window, or Broken
    record,     \* the attempts' hashes
    total,      \* the windows' totals
    known, applied,     \* the windows' legacy-known-floor and legacy-floor
    frozen,     \* the windows with a freeze key
    index,      \* the accounting index: member -> score
    halt,       \* until when the index's freeze key lives, 0 for none
    read        \* history: the most that was read of each window's legacy count

ledger == <<record, total, known, applied, frozen, index, halt>>
vars == <<maxRetained, now, pc, scope, legacy, ledger, read>>

None == -1
Broken == -2
NoScope == [window |-> None, floor |-> 0]

Init ==
    /\ maxRetained \in Places
    /\ now = 0
    /\ pc = [a \in Attempt |-> "new"]
    /\ scope = [a \in Attempt |-> NoScope]
    /\ legacy = <<>> /\ read = <<>>
    /\ record = <<>> /\ total = <<>> /\ known = <<>> /\ applied = <<>>
    /\ frozen = {} /\ index = <<>> /\ halt = 0

-----------------------------------------------------------------------------
(* Keys, windows and the index.                                            *)

Get(f, k) == IF k \in DOMAIN f THEN f[k] ELSE 0
Set(f, k, v) == [x \in DOMAIN f \cup {k} |-> IF x = k THEN v ELSE f[x]]
Only(f, ks) == [k \in DOMAIN f \cap ks |-> f[k]]

CurrentWindow == now \div WindowSecs
ExpiresAt(w) == (w + 1) * WindowSecs + Retention

\* The members of the index: attempts, and windows with a legacy floor.
OfAttempt(a) == <<"attempt", a>>
OfFloor(w) == <<"floor", w>>

\* ZRANGEBYSCORE ... LIMIT and ZREM: the first batch of what has expired.
Cleaned ==
    LET due == {m \in DOMAIN index : index[m] <= now}
        n == Min({Batch, Cardinality(due)})
        first == {S \in kSubset(n, due) : \A m \in S, o \in due \ S : index[m] <= index[o]}
    IN  {Only(index, DOMAIN index \ S) : S \in first}

\* extend_global_freeze.
Halted(w) == Max({halt, ExpiresAt(w)})

\* legacy-known-floor, never below what was applied or what came with the request.
KnownFloor(w, incoming) ==
    Max({IF w \in DOMAIN known THEN known[w] ELSE Get(applied, w), incoming})

\* Both admitting scripts keep the floor they know of, listed in the index; with
\* no place left there they halt the whole ledger.
Listed(i, w, floor) ==
    IF floor > 0 /\ Cardinality(DOMAIN i) < maxRetained
    THEN Set(i, OfFloor(w), ExpiresAt(w)) ELSE i
KeepsFloor(i, w, floor) ==
    /\ known' = IF floor > 0 /\ OfFloor(w) \in DOMAIN i THEN Set(known, w, floor) ELSE known
    /\ halt' = IF floor > 0 /\ OfFloor(w) \notin DOMAIN i THEN Halted(w) ELSE halt

\* Where a request's attempt is after its script; it is over if its caller gave
\* up, the connection broke or the call timed out once the script was sent.
Then(a, place, sc) ==
    \/ pc' = [pc EXCEPT ![a] = place] /\ scope' = [scope EXCEPT ![a] = sc]
    \/ pc' = [pc EXCEPT ![a] = "done"] /\ scope' = [scope EXCEPT ![a] = NoScope]

-----------------------------------------------------------------------------
(* RETAIN_LEGACY_SPEND_FLOOR_LUA, when a request is prepared.              *)

\* The legacy count cannot be read: the ledger halts.
RetainBroken(a) ==
    /\ pc[a] = "new"
    /\ Get(legacy, CurrentWindow) = Broken
    /\ halt' = Halted(CurrentWindow)
    /\ Then(a, "done", NoScope)
    /\ UNCHANGED <<now, legacy, record, total, known, applied, frozen,
                   index, read>>

RetainsFloor(a) ==
    LET w == CurrentWindow
        incoming == Min({Get(legacy, w), MaxExact})
        floor == KnownFloor(w, incoming)
    IN  /\ pc[a] = "new" /\ Get(legacy, w) # Broken
        /\ \E i \in Cleaned :
              /\ index' = Listed(i, w, floor)
              /\ KeepsFloor(index', w, floor)
        /\ IF halt' = 0
           THEN Then(a, "prepared", [window |-> w, floor |-> floor])
           ELSE Then(a, "done", NoScope)
        /\ read' = Set(read, w, Max({Get(read, w), incoming}))
        /\ UNCHANGED <<now, legacy, record, total, applied, frozen>>

-----------------------------------------------------------------------------
(* COMBINED_RATE_LUA.                                                      *)

\* Wrong: what older replicas spent is not counted.
RoomBeside(w, floor, q) ==
    IF q.bounded THEN Get(total, w) + q.amount <= Limit ELSE Get(total, w) < Limit

\* The window has room for the floor not applied yet and for the reservation.
Room(w, floor, q) ==
    LET spent == Get(total, w) + floor - Get(applied, w) IN
    /\ Limit # 0
    /\ IF q.bounded THEN spent + q.amount <= Limit ELSE spent < Limit

Fresh(w, q, amount) ==
    [window |-> w, bounded |-> q.bounded, liability |-> amount, observed |-> None,
     providerFloor |-> None, terminalCatalog |-> None, terminalProvider |-> None,
     finalized |-> FALSE]

\* The floor that counts for an attempt: its request's, if that is of this window.
FloorFor(a, w) == KnownFloor(w, IF scope[a].window = w THEN scope[a].floor ELSE 0)

\* A refusal has cleaned the index and kept the floor.
Refused(a) ==
    LET w == CurrentWindow IN
    /\ pc[a] = "prepared"
    /\ \E i \in Cleaned :
          /\ index' = Listed(i, w, FloorFor(a, w))
          /\ KeepsFloor(index', w, FloorFor(a, w))
    /\ Then(a, "done", NoScope)
    /\ UNCHANGED <<now, legacy, record, total, applied, frozen, read>>

Admitted(a, q) ==
    LET w == CurrentWindow
        floor == FloorFor(a, w)
        spent == Get(total, w) + floor - Get(applied, w)
        amount == IF q.bounded THEN q.amount ELSE Limit - spent
    IN  \E i \in Cleaned :
        /\ pc[a] = "prepared"
        /\ KeepsFloor(Listed(i, w, floor), w, floor)
        /\ halt' = 0
        /\ a \notin DOMAIN record /\ w \notin frozen
        /\ Cardinality(DOMAIN Listed(i, w, floor)) < maxRetained
        /\ Room(w, floor, q)
        /\ index' = Set(Listed(i, w, floor), OfAttempt(a), ExpiresAt(w))
        /\ total' = Set(total, w, spent + amount)
        /\ applied' = IF floor > 0 THEN Set(applied, w, floor) ELSE applied
        /\ record' = Set(record, a, Fresh(w, q, amount))
        /\ Then(a, "running", NoScope)
        /\ UNCHANGED <<now, legacy, frozen, read>>

-----------------------------------------------------------------------------
(* SETTLE_BUDGET_LUA.                                                      *)

\* What spend_observation can answer: a terminal word carries an amount.
Spend ==
    {s \in [amount : Amount \cup {None}, provider : BOOLEAN, terminal : BOOLEAN] :
        s.terminal => s.amount # None}

\* A snapshot upserted into the attempt's hash, liability aside.
Upsert(r, s) ==
    LET last == s.terminal /\ (r.bounded \/ s.provider) IN
    IF s.amount = None THEN r ELSE
    [r EXCEPT
        !.providerFloor = IF s.provider THEN Max({@, s.amount}) ELSE @,
        !.terminalProvider = IF last /\ s.provider THEN s.amount ELSE @,
        !.terminalCatalog = IF last /\ ~ s.provider THEN Max({@, s.amount}) ELSE @,
        !.observed = Max({@, s.amount})]

\* observe_usage: a rise past the exact range cuts total and liability and
\* freezes the window.
Observes(a, s) ==
    LET r == Upsert(record[a], s)
        w == r.window
        rise == r.observed - r.liability
        over == total[w] + rise > MaxExact
    IN  /\ pc[a] = "running" /\ a \in DOMAIN record /\ ~ record[a].finalized
        /\ IF rise <= 0
           THEN record' = Set(record, a, r) /\ UNCHANGED <<total, frozen>>
           ELSE /\ record' = Set(record, a,
                       [r EXCEPT !.liability = IF over THEN MaxExact ELSE r.observed])
                /\ total' = Set(total, w, IF over THEN MaxExact ELSE total[w] + rise)
                /\ frozen' = IF over THEN frozen \cup {w} ELSE frozen
        /\ Then(a, "running", NoScope)
        /\ UNCHANGED <<now, legacy, known, applied, index, halt, read>>

\* The provider's last word, else the catalog's estimate but not below what the
\* provider has reported.
Bill(r) ==
    IF r.terminalProvider # None THEN r.terminalProvider
    ELSE IF r.terminalCatalog # None THEN Max({r.terminalCatalog, r.providerFloor})
    ELSE None

\* finish, after an outcome that may settle the attempt: a frozen window keeps
\* its total.  No bill is above the liability, which observing it has raised.
Settles(a) ==
    LET r == record[a] IN
    /\ pc[a] = "running" /\ a \in DOMAIN record
    /\ Bill(r) # None
    /\ record' = Set(record, a, [r EXCEPT !.liability = Bill(r), !.finalized = TRUE])
    /\ total' = IF r.window \in frozen THEN total
                ELSE Set(total, r.window, Max({0, total[r.window] - (r.liability - Bill(r))}))
    /\ Then(a, "done", NoScope)
    /\ UNCHANGED <<now, legacy, known, applied, frozen, index, halt, read>>

\* finish after any other outcome or without a bill, a script that finds no
\* record, or an attempt dropped without a report: the liability stays.
EndsUnsettled(a) ==
    /\ pc[a] = "running"
    /\ Then(a, "done", NoScope)
    /\ UNCHANGED <<now, legacy, ledger, read>>

-----------------------------------------------------------------------------
(* The surroundings.                                                       *)

\* An older replica counts what it has spent, or the key is not a count.
LegacySpends ==
    LET w == CurrentWindow IN
    /\ Get(legacy, w) # Broken
    /\ \/ Get(legacy, w) < MaxLegacy /\ legacy' = Set(legacy, w, Get(legacy, w) + 1)
       \/ legacy' = Set(legacy, w, Broken)
    /\ UNCHANGED <<now, pc, scope, ledger, read>>

\* Keys expire on their own; the index is a sorted set and does not.  Legacy
\* counts and floors of an ended window are read no more.
Tick ==
    LET live == {w \in 0..now : now + 1 < ExpiresAt(w)}
        current == {(now + 1) \div WindowSecs}
    IN
    /\ now < MaxNow /\ now' = now + 1
    /\ record' = Only(record, {a \in DOMAIN record : record[a].window \in live})
    /\ total' = Only(total, live) /\ frozen' = frozen \cap live
    /\ known' = Only(known, current) /\ applied' = Only(applied, current)
    /\ halt' = IF halt > now + 1 THEN halt ELSE 0
    /\ legacy' = Only(legacy, current) /\ read' = Only(read, current)
    /\ UNCHANGED <<pc, scope, index>>

Step(a) ==
    \/ RetainBroken(a) \/ RetainsFloor(a) \/ Refused(a)
    \/ \E q \in Quote : Admitted(a, q)
    \/ \E s \in Spend : Observes(a, s)
    \/ Settles(a) \/ EndsUnsettled(a)

Next == UNCHANGED maxRetained /\ ((\E a \in Attempt : Step(a)) \/ LegacySpends \/ Tick)

Spec == Init /\ [][Next]_vars

-----------------------------------------------------------------------------
(* Properties.                                                             *)

\* What the attempts of a window are liable for after this step.
LiableNext(w) ==
    SumOf([a \in {b \in DOMAIN record' : record'[b].window = w} |-> record'[a].liability])

\* However scripts of different replicas interleave, run unheard or meet windows
\* that end, an attempt is admitted only if the liabilities of its window,
\* together with everything any replica has read of the older replicas' spending
\* in it, are within the cap, and never while the window is frozen or the ledger
\* is halted because that spending could not be read or kept.
AdmitsWithinCap ==
    \A a \in DOMAIN record' \ DOMAIN record :
        LET w == record'[a].window IN
        /\ halt = 0 /\ w \notin frozen
        /\ LiableNext(w) + Get(read, w) <= Limit
=============================================================================
