----------------------------- MODULE SpendLedger -----------------------------
(***************************************************************************)
(* Per-attempt admission and spend accounting in one process: the attempt  *)
(* coordinator and the local ledger of src/src/gateway/attempt.rs, the     *)
(* spend rules of src/src/gateway/budget.rs, and the attempt tracker of    *)
(* src/src/policy.rs as src/src/client.rs drives it.                       *)
(*                                                                         *)
(* One tenant with a spend cap, one provider.  The state lock makes        *)
(* acquire, observe_usage and finish of the ledger one step each; the      *)
(* coordinator releases the concurrency permit before it awaits that lock. *)
(* Request and token buckets appear as a refusal that may always happen.   *)
(* Every attempt has the stream's cancellation guard; a unary one is an    *)
(* attempt whose guard never fires first.                                  *)
(***************************************************************************)
EXTENDS Integers, FiniteSets, Units

CONSTANTS
    Attempt,        \* attempt ids; a UUID is used once
    Quote,          \* what budget::quote may answer: [bounded, amount]
    Amount,         \* amounts a usage snapshot may carry
    Limit,          \* policy.limit_nanos
    MaxExact,       \* MAX_EXACT_REDIS_NANOS
    WindowSecs, Retention,
    MaxRetained,    \* max_retained_attempts
    Batch,          \* ACCOUNTING_EXPIRY_CLEANUP_BATCH
    Permits,        \* concurrency_limit
    MaxNow          \* bound: the last instant the clock shows

ASSUME LedgerAssumption ==
    /\ IsFiniteSet(Attempt)
    /\ Amount \subseteq Nat
    /\ Limit \in Nat /\ MaxExact \in Nat /\ Limit <= MaxExact
    /\ Quote \subseteq [bounded : BOOLEAN, amount : Nat]
    /\ WindowSecs \in Nat \ {0} /\ Retention \in Nat
    /\ MaxRetained \in Nat /\ Batch \in Nat \ {0} /\ Permits \in Nat \ {0}
    /\ MaxNow \in Nat

VARIABLES
    now,        \* epoch seconds
    pc,         \* where each attempt is
    usage,      \* AttemptTrackerState.usage_observed
    finished,   \* AttemptTrackerState.finished
    good,       \* the outcome reported: completed, or invalid but answered
    active,     \* active_permits
    ledger,     \* budget_attempts, and with it budget_expirations
    totals,     \* budget_totals
    refs,       \* budget_window_references
    frozen,     \* budget_frozen
    reserved    \* history: what each retained attempt reserved

accounts == <<ledger, totals, refs, frozen, reserved>>
tracker == <<usage, finished, good>>
vars == <<now, pc, tracker, active, accounts>>

None == -1
Window == Nat

\* What spend_observation can answer: a terminal word carries an amount.
Spend ==
    {s \in [amount : Amount \cup {None}, provider : BOOLEAN, terminal : BOOLEAN] :
        s.terminal => s.amount # None}

Liability == [window : Window, bounded : BOOLEAN, liability : Nat,
              observed : Nat \cup {None}, maxProvider : Nat \cup {None},
              terminalCatalog : Nat \cup {None}, terminalProvider : Nat \cup {None},
              finalized : BOOLEAN]

Init ==
    /\ now = 0
    /\ pc = [a \in Attempt |-> "new"]
    /\ usage = [a \in Attempt |-> FALSE]
    /\ finished = [a \in Attempt |-> FALSE]
    /\ good = [a \in Attempt |-> FALSE]
    /\ active = {}
    /\ ledger = [a \in {} |-> None]
    /\ totals = [w \in {} |-> 0]
    /\ refs = [w \in {} |-> 0]
    /\ frozen = {}
    /\ reserved = [a \in Attempt |-> 0]

-----------------------------------------------------------------------------
(* The ledger's sums and windows.                                          *)

CurrentWindow == now \div WindowSecs

\* The second from which an attempt of window w may be forgotten.
ExpiresAt(w) == (w + 1) * WindowSecs + Retention

Of(A, w) == {a \in A : ledger[a].window = w}
Expired == {a \in DOMAIN ledger : ExpiresAt(ledger[a].window) <= now}

\* The attempts one purge forgets: the earliest to expire, at most a batch.
Purgeable ==
    {S \in SUBSET Expired :
        /\ Cardinality(S) <= Batch
        /\ S # Expired => Cardinality(S) = Batch
        /\ \A a \in S, b \in Expired \ S :
              ExpiresAt(ledger[a].window) <= ExpiresAt(ledger[b].window)}

EmptiedByAny(S) == {w \in DOMAIN refs : Of(S, w) # {}}

\* The windows that lose their last reference when S is forgotten.
Emptied(S) == {w \in DOMAIN refs : Of(S, w) # {} /\ refs[w] <= Cardinality(Of(S, w))}

KeptAttempts(S) == [a \in DOMAIN ledger \ S |-> ledger[a]]
KeptRefs(S) ==
    [w \in DOMAIN refs \ Emptied(S) |-> refs[w] - Cardinality(Of(S, w))]
KeptTotals(S) == [w \in DOMAIN totals \ Emptied(S) |-> totals[w]]
KeptFrozen(S) == frozen \ Emptied(S)
KeptReserved(S) == [a \in Attempt |-> IF a \in S THEN 0 ELSE reserved[a]]

\* A refused acquire has purged and changed nothing else.
Purges(S) ==
    /\ ledger' = KeptAttempts(S)
    /\ refs' = KeptRefs(S)
    /\ totals' = KeptTotals(S)
    /\ frozen' = KeptFrozen(S)
    /\ reserved' = KeptReserved(S)

\* A map's value, absent being zero.
Held(f, w) == IF w \in DOMAIN f THEN f[w] ELSE 0

\* The cap checked against what the attempt adds, not against the sum.
AdmitsAlone(S, w, q) ==
    /\ w \notin KeptFrozen(S)
    /\ Limit # 0
    /\ IF q.bounded THEN q.amount <= Limit ELSE Held(KeptTotals(S), w) < Limit

Admits(S, w, q) ==
    /\ w \notin KeptFrozen(S)
    /\ Limit # 0
    /\ IF q.bounded THEN Held(KeptTotals(S), w) + q.amount <= Limit
                    ELSE Held(KeptTotals(S), w) < Limit

\* An unpriced attempt reserves whatever the window has left.
Reservation(S, w, q) ==
    IF q.bounded THEN q.amount ELSE Limit - Held(KeptTotals(S), w)

\* Insertion into a map.
Put(f, k, v) == [x \in DOMAIN f \cup {k} |-> IF x = k THEN v ELSE f[x]]

\* Past the exact range the total is cut and the window stays open.
ChargesSaturating(w, delta) ==
    /\ totals' = [totals EXCEPT ![w] = IF @ + delta <= MaxExact THEN @ + delta
                                       ELSE MaxExact]
    /\ UNCHANGED frozen

\* checked_add bounded by the exact range; past it the window freezes.
Charges(w, delta) ==
    IF totals[w] + delta <= MaxExact
    THEN totals' = [totals EXCEPT ![w] = @ + delta] /\ UNCHANGED frozen
    ELSE totals' = [totals EXCEPT ![w] = MaxExact] /\ frozen' = frozen \cup {w}

-----------------------------------------------------------------------------
(* Admission.                                                              *)

Holding == active \cup {a \in Attempt : pc[a] = "acquire"}

TakesPermit(a) ==
    /\ pc[a] = "new"
    /\ Cardinality(Holding) < Permits
    /\ pc' = [pc EXCEPT ![a] = "acquire"]
    /\ UNCHANGED <<now, tracker, active, accounts>>

\* concurrency_wait elapses with every permit taken.
NoPermit(a) ==
    /\ pc[a] = "new"
    /\ Cardinality(Holding) >= Permits
    /\ pc' = [pc EXCEPT ![a] = "done"]
    /\ UNCHANGED <<now, tracker, active, accounts>>

\* The request has no price, or its future is dropped before the ledger's
\* lock is taken: the permit is dropped with it.
AcquireEnds(a) ==
    /\ pc[a] = "acquire"
    /\ pc' = [pc EXCEPT ![a] = "done"]
    /\ UNCHANGED <<now, tracker, active, accounts>>

\* The ledger is full, a bucket is empty, or the window has no room.
AcquireRefused(a) ==
    /\ pc[a] = "acquire"
    /\ pc' = [pc EXCEPT ![a] = "done"]
    /\ \E S \in Purgeable : Purges(S)
    /\ UNCHANGED <<now, tracker, active>>

Fresh(w, q, amount) ==
    [window |-> w, bounded |-> q.bounded, liability |-> amount, observed |-> None,
     maxProvider |-> None, terminalCatalog |-> None, terminalProvider |-> None,
     finalized |-> FALSE]

AcquireGranted(a, q) ==
    LET w == CurrentWindow IN
    \E S \in Purgeable :
        /\ pc[a] = "acquire"
        /\ Cardinality(DOMAIN ledger \ S) < MaxRetained
        /\ Admits(S, w, q)
        /\ ledger' = Put(KeptAttempts(S), a, Fresh(w, q, Reservation(S, w, q)))
        /\ totals' = Put(KeptTotals(S), w,
                         Held(KeptTotals(S), w) + Reservation(S, w, q))
        /\ refs' = Put(KeptRefs(S), w, Held(KeptRefs(S), w) + 1)
        /\ frozen' = KeptFrozen(S)
        /\ reserved' = [KeptReserved(S) EXCEPT ![a] = Reservation(S, w, q)]
        /\ active' = active \cup {a}
        /\ pc' = [pc EXCEPT ![a] = "running"]
        /\ UNCHANGED <<now, tracker>>

-----------------------------------------------------------------------------
(* A running attempt reports usage.                                        *)

Largest(old, new) == IF old = None \/ new > old THEN new ELSE old

\* Catalog arithmetic cannot end the uncertainty of an unpriced attempt.
Authoritative(l, s) == s.terminal /\ (l.bounded \/ s.provider)

\* One snapshot upserted into the attempt's record.
Upsert(l, s) ==
    IF s.amount = None THEN l ELSE
    [l EXCEPT
        !.terminalProvider =
            IF Authoritative(l, s) /\ s.provider THEN s.amount ELSE @,
        !.terminalCatalog =
            IF Authoritative(l, s) /\ ~s.provider THEN Largest(@, s.amount) ELSE @,
        !.maxProvider = IF s.provider THEN Largest(@, s.amount) ELSE @,
        !.observed = IF s.amount > Largest(0, @) THEN s.amount ELSE @,
        !.liability = IF s.amount > Largest(0, l.observed) /\ s.amount > @
                      THEN s.amount ELSE @]

Observes(a, s) ==
    LET l == ledger[a] IN
    /\ pc[a] = "running" /\ a \in DOMAIN ledger
    /\ ~l.finalized
    /\ ledger' = [ledger EXCEPT ![a] = Upsert(l, s)]
    /\ Charges(l.window, Upsert(l, s).liability - l.liability)
    /\ usage' = [usage EXCEPT ![a] = TRUE]
    /\ UNCHANGED <<now, pc, finished, good, active, refs, reserved>>

\* The attempt is over, and its tracker's state is gone with it.
Over(a) ==
    /\ pc' = [pc EXCEPT ![a] = "done"]
    /\ usage' = [usage EXCEPT ![a] = FALSE]
    /\ finished' = [finished EXCEPT ![a] = FALSE]
    /\ good' = [good EXCEPT ![a] = FALSE]

\* The tracker is dropped before it reported an end: an observation failed (the ledger has
\* forgotten the attempt, or the callback timed out), or its task stopped.
Drops(a) ==
    /\ pc[a] = "running"
    /\ Over(a)
    /\ active' = active \ {a}
    /\ UNCHANGED <<now, accounts>>

\* The reader of the stream goes away while its producer still runs.
ReaderDrops(a) ==
    /\ pc[a] \in {"running", "settle"}
    /\ ~finished[a]
    /\ finished' = [finished EXCEPT ![a] = TRUE]
    /\ active' = active \ {a}
    /\ UNCHANGED <<now, pc, usage, good, accounts>>

-----------------------------------------------------------------------------
(* The end of an attempt: the permit first, then the settlement.           *)

Finishes(a, outcome) ==
    /\ pc[a] = "running" /\ ~finished[a]
    /\ active' = active \ {a}
    /\ pc' = [pc EXCEPT ![a] = "settle"]
    /\ good' = [good EXCEPT ![a] = outcome]
    /\ UNCHANGED <<now, usage, finished, accounts>>

\* A finish after the reader has abandoned the attempt does nothing.
FinishesLate(a) ==
    /\ pc[a] = "running" /\ finished[a]
    /\ Over(a)
    /\ UNCHANGED <<now, active, accounts>>

\* Usage seen on a failed response settles it too.
MayFinalizeAnyway(a) == usage[a]

MayFinalize(a) == good[a] /\ usage[a]

BillCatalogFirst(l) ==
    IF l.terminalProvider # None THEN l.terminalProvider ELSE l.terminalCatalog

\* The bill of an attempt: the provider's last word, else the catalog's
\* estimate but never below what the provider has already reported.
Bill(l) ==
    IF l.terminalProvider # None THEN l.terminalProvider
    ELSE IF l.terminalCatalog # None THEN Largest(l.maxProvider, l.terminalCatalog)
    ELSE None

\* A frozen window keeps its total; otherwise the difference is applied.
Settlement(w, delta) ==
    IF w \in frozen THEN UNCHANGED <<totals, frozen>> ELSE Charges(w, delta)

Settles(a) ==
    LET l == ledger[a] IN
    /\ pc[a] = "settle" /\ a \in DOMAIN ledger
    /\ IF MayFinalize(a) /\ ~l.finalized /\ Bill(l) # None
       THEN /\ ledger' = [ledger EXCEPT ![a].liability = Bill(l), ![a].finalized = TRUE]
            /\ Settlement(l.window, Bill(l) - l.liability)
       ELSE UNCHANGED <<ledger, totals, frozen>>
    /\ Over(a)
    /\ UNCHANGED <<now, active, refs, reserved>>

\* The ledger has forgotten the attempt, or the callback is cut off while it
\* waits for the lock; the tracker's drop finds the permit gone.
SettleFails(a) ==
    /\ pc[a] = "settle"
    /\ Over(a)
    /\ active' = active \ {a}
    /\ UNCHANGED <<now, accounts>>

Tick ==
    /\ now < MaxNow
    /\ now' = now + 1
    /\ UNCHANGED <<pc, tracker, active, accounts>>

\* What an attempt's own task does.
Step(a) ==
    \/ TakesPermit(a) \/ NoPermit(a) \/ AcquireEnds(a) \/ AcquireRefused(a)
    \/ \E q \in Quote : AcquireGranted(a, q)
    \/ \E s \in Spend : Observes(a, s)
    \/ Drops(a) \/ ReaderDrops(a)
    \/ \E outcome \in BOOLEAN : Finishes(a, outcome)
    \/ FinishesLate(a) \/ Settles(a) \/ SettleFails(a)

Next == (\E a \in Attempt : Step(a)) \/ Tick

Spec == Init /\ [][Next]_vars

-----------------------------------------------------------------------------
(* Properties.                                                             *)

\* Type correctness of the coordinator's and the ledger's state.
TypeOK ==
    /\ now \in Nat
    /\ pc \in [Attempt -> {"new", "acquire", "running", "settle", "done"}]
    /\ usage \in [Attempt -> BOOLEAN]
    /\ finished \in [Attempt -> BOOLEAN]
    /\ good \in [Attempt -> BOOLEAN]
    /\ active \subseteq Attempt
    /\ DOMAIN ledger \subseteq Attempt
    /\ ledger \in [DOMAIN ledger -> Liability]
    /\ DOMAIN totals \subseteq Window
    /\ totals \in [DOMAIN totals -> 0 .. MaxExact]
    /\ DOMAIN refs \subseteq Window
    /\ refs \in [DOMAIN refs -> Nat]
    /\ reserved \in [Attempt -> Nat]

\* A window's total, freeze and reference count live exactly as long as some
\* attempt of the window is retained, whatever the purge's batches cut apart:
\* observe_usage and finish never meet an attempt whose window is gone.
WindowsReferenced ==
    /\ DOMAIN totals = DOMAIN refs
    /\ frozen \subseteq DOMAIN refs
    /\ DOMAIN refs = {ledger[a].window : a \in DOMAIN ledger}
    /\ \A w \in DOMAIN refs : refs[w] = Cardinality(Of(DOMAIN ledger, w))

\* An attempt that settled did so on a provider's terminal bill, or, if it was
\* priced, on a terminal estimate no lower than any charge the provider had
\* already reported.
SettledByBill ==
    \A a \in DOMAIN ledger : LET l == ledger[a] IN
        l.finalized =>
            \/ l.terminalProvider # None /\ l.liability = l.terminalProvider
            \/ l.bounded /\ l.terminalCatalog # None /\ l.liability >= l.maxProvider

\* Windows all of whose attempts are still retained.
Whole == {w \in DOMAIN totals : ExpiresAt(w) > now}

\* A window's total is the sum of its attempts' liabilities until it freezes,
\* however raises, releases and settlements of its attempts interleave.
LedgerBalances ==
    \A w \in Whole \ frozen :
        totals[w] = SumOf([a \in Of(DOMAIN ledger, w) |-> ledger[a].liability])

\* The part of an attempt's reservation it is still liable for.
StillReserved(a) ==
    IF ledger[a].liability < reserved[a] THEN ledger[a].liability ELSE reserved[a]

\* The cap is a hard ceiling: a window exceeds it only by what its attempts
\* turned out to cost beyond their reservations.
CapHolds ==
    \A w \in Whole : SumOf([a \in Of(DOMAIN ledger, w) |-> StillReserved(a)]) <= Limit

\* Only an attempt that still runs, and nobody has abandoned, holds a permit.
PermitsLive == active \subseteq {a \in Attempt : pc[a] = "running" /\ ~finished[a]}

\* Uncertainty, cancellation, abandonment and failed settlements keep the
\* reservation: a retained attempt's liability falls only in the step that
\* settles it after a good outcome, and never changes again.
ReservationKept ==
    [][\A a \in DOMAIN ledger \cap DOMAIN ledger' :
          LET l == ledger[a]  m == ledger'[a] IN
          /\ m.liability < l.liability => good[a] /\ usage[a] /\ m.finalized
          /\ l.finalized => m.finalized /\ m.liability = l.liability]_vars

\* An attempt can be settled late: its record outlives the end of its window
\* by the retention, however full the ledger is.
LateSettlement ==
    [][\A a \in DOMAIN ledger \ DOMAIN ledger' :
          now >= (ledger[a].window + 1) * WindowSecs + Retention]_vars

\* A window that overflowed the exact range admits nothing more and stays
\* frozen while it is kept, whatever its other attempts give back.
FreezeIrreversible ==
    [][\A w \in frozen :
          /\ w \in DOMAIN totals' => w \in frozen'
          /\ \A a \in DOMAIN ledger' \ DOMAIN ledger : ledger'[a].window # w]_vars
=============================================================================
