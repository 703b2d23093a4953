---------------------------- MODULE LedgerProofs ----------------------------
(***************************************************************************)
(* The spend ledger for any number of attempts, amounts, windows and any   *)
(* purge batch.  Reference counts are exact (WindowsReferenced), so no     *)
(* report ever meets a retained attempt without its window; reservations   *)
(* fall only by a settlement (ReservationKept); settlements rest on a bill *)
(* (SettledByBill); records outlive their retention (LateSettlement); an   *)
(* overflowed window stays frozen (FreezeIrreversible); totals are the     *)
(* sums of the liabilities (LedgerBalances) and reservations stay within   *)
(* the cap (CapHolds).                                                     *)
(***************************************************************************)
EXTENDS SpendLedger, UnitsProofs

\* The shapes the proofs need: maps over attempts and windows, and an attempt
\* is recorded only from its admission on.
Shape ==
    /\ now \in Nat
    /\ pc \in [Attempt -> {"new", "acquire", "running", "settle", "done"}]
    /\ finished \in [Attempt -> BOOLEAN]
    /\ active \subseteq Attempt
    /\ DOMAIN ledger \subseteq Attempt
    /\ ledger \in [DOMAIN ledger -> Liability]
    /\ totals \in [DOMAIN totals -> Int]
    /\ refs \in [DOMAIN refs -> Int]
    /\ \A a \in DOMAIN ledger : pc[a] \in {"running", "settle", "done"}

\* r counts, window by window, the attempts of f.
Counts(f, r) ==
    /\ DOMAIN r = {f[a].window : a \in DOMAIN f}
    /\ r \in [DOMAIN r -> Int]
    /\ \A w \in DOMAIN r : r[w] = Cardinality({a \in DOMAIN f : f[a].window = w})

\* Purging any set of retained attempts leaves exact counts.
LEMMA PurgeCounts ==
    ASSUME NEW S \in SUBSET DOMAIN ledger, IsFiniteSet(DOMAIN ledger),
           Counts(ledger, refs)
    PROVE  Counts(KeptAttempts(S), KeptRefs(S))
<1> DEFINE D == DOMAIN ledger
           All(w) == {a \in D : ledger[a].window = w}
           Gone(w) == {a \in S : ledger[a].window = w}
           Left(w) == {a \in D \ S : ledger[a].window = w}
<1>1. ASSUME NEW w
      PROVE  /\ IsFiniteSet(All(w)) /\ IsFiniteSet(Gone(w)) /\ IsFiniteSet(Left(w))
             /\ Cardinality(All(w)) \in Nat /\ Cardinality(Gone(w)) \in Nat
             /\ Cardinality(Left(w)) = Cardinality(All(w)) - Cardinality(Gone(w))
             /\ Cardinality(Left(w)) \in Nat
  <2>1. All(w) \subseteq D /\ Gone(w) \subseteq All(w) /\ Left(w) = All(w) \ Gone(w)
    OBVIOUS
  <2>2. IsFiniteSet(All(w)) /\ IsFiniteSet(Gone(w)) /\ IsFiniteSet(Left(w))
    BY <2>1, FS_Subset
  <2>3. All(w) \cap Gone(w) = Gone(w)
    BY <2>1
  <2>4. Cardinality(Left(w)) = Cardinality(All(w)) - Cardinality(Gone(w))
    <3>1. Cardinality(All(w) \ Gone(w)) = Cardinality(All(w)) - Cardinality(All(w) \cap Gone(w))
      <4> HIDE DEF All, Gone
      <4> QED BY <2>2, FS_Difference
    <3> HIDE DEF All, Gone, Left
    <3> QED BY <2>1, <2>3, <3>1
  <2> QED BY <2>2, <2>4, FS_CardinalityType
<1>2. KeptAttempts(S) = [a \in D \ S |-> ledger[a]]
  BY DEF KeptAttempts
<1>3. \A w : {a \in DOMAIN KeptAttempts(S) : KeptAttempts(S)[a].window = w} = Left(w)
  BY <1>2
<1>4. \A w \in DOMAIN refs : refs[w] = Cardinality(All(w))
  BY DEF Counts
<1>5. \A w \in DOMAIN refs : w \notin Emptied(S) <=> Left(w) # {}
  <2> TAKE w \in DOMAIN refs
  <2>1. Of(S, w) = Gone(w)
    BY DEF Of
  <2>2. CASE Gone(w) = {}
    <3>1. \E a \in D : ledger[a].window = w
      BY DEF Counts
    <3> QED BY <2>1, <2>2, <3>1 DEF Emptied
  <2>3. CASE Gone(w) # {}
    <3>1. w \in Emptied(S) <=> Cardinality(All(w)) <= Cardinality(Gone(w))
      BY <1>4, <2>1, <2>3 DEF Emptied
    <3>0. /\ IsFiniteSet(Left(w)) /\ Cardinality(Left(w)) \in Nat
          /\ Cardinality(All(w)) \in Nat /\ Cardinality(Gone(w)) \in Nat
          /\ Cardinality(Left(w)) = Cardinality(All(w)) - Cardinality(Gone(w))
      BY <1>1
    <3>2. Left(w) = {} <=> Cardinality(Left(w)) = 0
      BY <3>0, FS_EmptySet
    <3>3. Cardinality(Left(w)) = 0 <=> Cardinality(All(w)) <= Cardinality(Gone(w))
      <4> HIDE DEF Left, All, Gone
      <4> QED BY <3>0
    <3> QED BY <3>1, <3>2, <3>3
  <2> QED BY <2>2, <2>3
<1>6. DOMAIN KeptRefs(S) = DOMAIN refs \ Emptied(S)
  BY DEF KeptRefs
<1>7. DOMAIN KeptRefs(S) = {KeptAttempts(S)[a].window : a \in DOMAIN KeptAttempts(S)}
  <2>1. \A w : w \in {KeptAttempts(S)[a].window : a \in DOMAIN KeptAttempts(S)}
               <=> Left(w) # {}
    BY <1>2
  <2>2. \A w : Left(w) # {} => w \in DOMAIN refs
    BY DEF Counts
  <2> QED BY <1>5, <1>6, <2>1, <2>2
<1>8. ASSUME NEW w \in DOMAIN KeptRefs(S)
      PROVE  KeptRefs(S)[w] = Cardinality(Left(w)) /\ KeptRefs(S)[w] \in Int
  <2>1. KeptRefs(S)[w] = refs[w] - Cardinality(Gone(w))
    BY <1>6 DEF KeptRefs, Of
  <2>2. refs[w] = Cardinality(All(w))
    BY <1>4, <1>6
  <2>3. /\ Cardinality(Left(w)) = Cardinality(All(w)) - Cardinality(Gone(w))
        /\ Cardinality(Left(w)) \in Nat
    BY <1>1
  <2> HIDE DEF Left, All, Gone
  <2> QED BY <2>1, <2>2, <2>3
<1>9. KeptRefs(S) \in [DOMAIN KeptRefs(S) -> Int]
  BY <1>8 DEF KeptRefs
<1> QED BY <1>3, <1>7, <1>8, <1>9 DEF Counts

\* Recording one more attempt and bumping its window's count keeps them exact.
LEMMA PutCounts ==
    ASSUME NEW f, NEW r, NEW a, NEW l,
           IsFiniteSet(DOMAIN f), a \notin DOMAIN f, Counts(f, r)
    PROVE  Counts(Put(f, a, l), Put(r, l.window, Held(r, l.window) + 1))
<1> DEFINE g == Put(f, a, l)
           v == l.window
           k == Put(r, v, Held(r, v) + 1)
           Old(w) == {b \in DOMAIN f : f[b].window = w}
           New(w) == {b \in DOMAIN g : g[b].window = w}
<1>1. DOMAIN g = DOMAIN f \cup {a} /\ g[a] = l /\ \A b \in DOMAIN f : g[b] = f[b]
  BY DEF Put
<1>2. DOMAIN k = DOMAIN r \cup {v} /\ k[v] = Held(r, v) + 1
      /\ \A w \in DOMAIN r \ {v} : k[w] = r[w]
  BY DEF Put
<1>3. DOMAIN k = {g[b].window : b \in DOMAIN g}
  <2>1. DOMAIN r = {f[b].window : b \in DOMAIN f}
    BY DEF Counts
  <2>2. {g[b].window : b \in DOMAIN g} = {f[b].window : b \in DOMAIN f} \cup {v}
    BY <1>1
  <2> QED BY <1>2, <2>1, <2>2
<1>4. \A w : w # v => New(w) = Old(w)
  BY <1>1
<1>5. New(v) = Old(v) \cup {a} /\ a \notin Old(v)
  BY <1>1
<1>6. \A w : IsFiniteSet(Old(w)) /\ Cardinality(Old(w)) \in Nat
  <2> TAKE w
  <2>1. Old(w) \subseteq DOMAIN f
    OBVIOUS
  <2> QED BY <2>1, FS_Subset, FS_CardinalityType
<1>7. Cardinality(New(v)) = Cardinality(Old(v)) + 1
  <2>1. IsFiniteSet(Old(v))
    BY <1>6
  <2> HIDE DEF Old, New, v
  <2> QED BY <1>5, <2>1, FS_AddElement
<1>8. Held(r, v) = Cardinality(Old(v))
  <2>1. CASE v \in DOMAIN r
    BY <2>1 DEF Held, Counts
  <2>2. CASE v \notin DOMAIN r
    <3>1. Old(v) = {}
      BY <2>2 DEF Counts
    <3> QED BY <2>2, <3>1, FS_EmptySet DEF Held
  <2> QED BY <2>1, <2>2
<1>9. \A w \in DOMAIN k : k[w] = Cardinality(New(w)) /\ k[w] \in Int
  <2> TAKE w \in DOMAIN k
  <2>1. CASE w = v
    <3>1. Cardinality(Old(v)) \in Nat
      BY <1>6
    <3> HIDE DEF Old, New, k, v
    <3> QED BY <1>2, <1>7, <1>8, <2>1, <3>1
  <2>2. CASE w # v
    BY <1>2, <1>4, <1>6, <2>2 DEF Counts
  <2> QED BY <2>1, <2>2
<1>10. k \in [DOMAIN k -> Int]
  BY <1>9 DEF Put
<1> QED BY <1>3, <1>9, <1>10 DEF Counts

-----------------------------------------------------------------------------
(* The operators on one record.                                            *)

\* A snapshot keeps an attempt's window, pricing and finality, never lowers
\* its liability, and gives an unpriced attempt no terminal estimate.
LEMMA UpsertKeeps ==
    ASSUME NEW l \in Liability, NEW s \in Spend
    PROVE  LET m == Upsert(l, s) IN
           /\ m \in Liability
           /\ m.window = l.window /\ m.bounded = l.bounded
           /\ m.finalized = l.finalized
           /\ m.liability >= l.liability
           /\ ~l.bounded => m.terminalCatalog = l.terminalCatalog
<1>1. s.amount \in Nat \cup {None} /\ s.provider \in BOOLEAN /\ s.terminal \in BOOLEAN
  BY LedgerAssumption DEF Spend, LedgerAssumption
<1>2. CASE s.amount = None
  BY <1>2 DEF Upsert, Liability
<1>3. CASE s.amount # None
  <2>1. s.amount \in Nat
    BY <1>1, <1>3
  <2> DEFINE m == Upsert(l, s)
  <2>2. PICK tp, tc, mp, o, y :
          /\ m = [l EXCEPT !.terminalProvider = tp, !.terminalCatalog = tc,
                           !.maxProvider = mp, !.observed = o, !.liability = y]
          /\ tp \in Nat \cup {None} /\ tc \in Nat \cup {None}
          /\ mp \in Nat \cup {None} /\ o \in Nat \cup {None}
          /\ y \in Nat /\ y >= l.liability
          /\ ~l.bounded => tc = l.terminalCatalog
    <3> DEFINE tp == IF Authoritative(l, s) /\ s.provider THEN s.amount
                     ELSE l.terminalProvider
               tc == IF Authoritative(l, s) /\ ~s.provider
                     THEN Largest(l.terminalCatalog, s.amount) ELSE l.terminalCatalog
               mp == IF s.provider THEN Largest(l.maxProvider, s.amount)
                     ELSE l.maxProvider
               o == IF s.amount > Largest(0, l.observed) THEN s.amount ELSE l.observed
               y == IF s.amount > Largest(0, l.observed) /\ s.amount > l.liability
                    THEN s.amount ELSE l.liability
    <3>1. m = [l EXCEPT !.terminalProvider = tp, !.terminalCatalog = tc,
                        !.maxProvider = mp, !.observed = o, !.liability = y]
      BY <1>3 DEF Upsert, Liability
    <3>2. tp \in Nat \cup {None} /\ mp \in Nat \cup {None} /\ o \in Nat \cup {None}
      BY <1>1, <2>1 DEF Liability, Largest
    <3>3. tc \in Nat \cup {None} /\ (~l.bounded => tc = l.terminalCatalog)
      BY <1>1, <2>1 DEF Liability, Largest, Authoritative
    <3>4. y \in Nat /\ y >= l.liability
      BY <1>1, <2>1 DEF Liability
    <3> HIDE DEF tp, tc, mp, o, y, m
    <3> QED BY <3>1, <3>2, <3>3, <3>4, ZenonT(40)
  <2> HIDE DEF m
  <2>3. m \in Liability
    BY <2>2 DEF Liability
  <2>4. /\ m.window = l.window /\ m.bounded = l.bounded /\ m.finalized = l.finalized
        /\ m.liability = y /\ m.terminalCatalog = tc
    BY <2>2 DEF Liability
  <2>5. /\ m \in Liability /\ m.window = l.window /\ m.bounded = l.bounded
        /\ m.finalized = l.finalized /\ m.liability >= l.liability
        /\ ~l.bounded => m.terminalCatalog = l.terminalCatalog
    BY <2>2, <2>3, <2>4
  <2> QED BY <2>5 DEF m
<1> QED BY <1>2, <1>3

\* A bill is an amount, no lower than the provider's charges unless the
\* provider itself had the last word.
LEMMA BillKnown ==
    ASSUME NEW l \in Liability, Bill(l) # None
    PROVE  /\ Bill(l) \in Nat
           /\ \/ l.terminalProvider # None /\ Bill(l) = l.terminalProvider
              \/ l.terminalCatalog # None /\ Bill(l) >= l.maxProvider
BY DEF Bill, Liability, Largest, None

\* An attempt whose retention has run out is not of the current window.
LEMMA CurrentUnexpired ==
    ASSUME now \in Nat, NEW w \in Nat, ExpiresAt(w) <= now
    PROVE  w # CurrentWindow /\ CurrentWindow \in Nat
<1>1. WindowSecs \in Nat /\ WindowSecs > 0 /\ Retention \in Nat
  BY LedgerAssumption DEF LedgerAssumption
<1>2. CurrentWindow \in Nat /\ now < (CurrentWindow + 1) * WindowSecs
  BY <1>1 DEF CurrentWindow
<1>3. (w + 1) * WindowSecs + Retention <= now /\ (w + 1) * WindowSecs \in Nat
  BY <1>1 DEF ExpiresAt
<1>4. (w + 1) * WindowSecs <= now
  BY <1>1, <1>3
<1>5. ASSUME w = CurrentWindow PROVE FALSE
  <2>1. now < (w + 1) * WindowSecs
    BY <1>2, <1>5
  <2> DEFINE e == (w + 1) * WindowSecs
  <2>2. e \in Nat /\ e <= now /\ now < e
    BY <1>3, <1>4, <2>1
  <2> HIDE DEF e
  <2> QED BY <2>2
<1> QED BY <1>2, <1>5

-----------------------------------------------------------------------------
(* The inductive invariant, action by action.                              *)

\* An unpriced attempt never holds a terminal estimate it could settle on.
UnpricedOpen ==
    \A a \in DOMAIN ledger : ~ledger[a].bounded => ledger[a].terminalCatalog = None

LedgerInv == Shape /\ WindowsReferenced /\ SettledByBill /\ UnpricedOpen

\* The accounts change only by a purge, an admission, a snapshot or a
\* settlement.
LEMMA AccountSteps ==
    ASSUME [Next]_vars
    PROVE  \/ UNCHANGED accounts
           \/ \E S \in Purgeable : Purges(S)
           \/ \E a \in Attempt, q \in Quote : AcquireGranted(a, q)
           \/ \E a \in Attempt, s \in Spend : Observes(a, s)
           \/ \E a \in Attempt : Settles(a)
<1>1. CASE UNCHANGED vars
  BY <1>1 DEF vars
<1>2. CASE Tick
  BY <1>2 DEF Tick
<1>3. ASSUME NEW a \in Attempt, Step(a)
      PROVE  \/ UNCHANGED accounts
             \/ \E S \in Purgeable : Purges(S)
             \/ \E q \in Quote : AcquireGranted(a, q)
             \/ \E s \in Spend : Observes(a, s)
             \/ Settles(a)
  BY <1>3 DEF Step, TakesPermit, NoPermit, AcquireEnds, AcquireRefused, Drops,
     ReaderDrops, Finishes, FinishesLate, SettleFails
<1> QED BY <1>1, <1>2, <1>3 DEF Next

\* The counted form of WindowsReferenced.
LEMMA ReferencedCounts ==
    ASSUME Shape
    PROVE  WindowsReferenced <=>
              /\ DOMAIN totals = DOMAIN refs /\ frozen \subseteq DOMAIN refs
              /\ Counts(ledger, refs)
BY DEF Shape, WindowsReferenced, Counts, Of

\* The ledger has finitely many records.
LEMMA FiniteLedger ==
    ASSUME Shape PROVE IsFiniteSet(DOMAIN ledger)
BY LedgerAssumption, FS_Subset DEF Shape, LedgerAssumption

\* What is left after a purge.
LEMMA PurgeKeeps ==
    ASSUME LedgerInv, NEW S \in Purgeable
    PROVE  /\ S \subseteq DOMAIN ledger
           /\ \A a \in S : ExpiresAt(ledger[a].window) <= now
           /\ Counts(KeptAttempts(S), KeptRefs(S))
           /\ DOMAIN KeptTotals(S) = DOMAIN KeptRefs(S)
           /\ KeptTotals(S) \in [DOMAIN KeptTotals(S) -> Int]
           /\ KeptFrozen(S) \subseteq DOMAIN KeptRefs(S)
<1>1. S \subseteq Expired
  BY DEF Purgeable
<1>2. S \subseteq DOMAIN ledger /\ \A a \in S : ExpiresAt(ledger[a].window) <= now
  BY <1>1 DEF Expired
<1>3. /\ Counts(ledger, refs) /\ DOMAIN totals = DOMAIN refs
      /\ frozen \subseteq DOMAIN refs
  BY ReferencedCounts DEF LedgerInv
<1>4. Counts(KeptAttempts(S), KeptRefs(S))
  BY <1>2, <1>3, FiniteLedger, PurgeCounts DEF LedgerInv
<1>5. /\ DOMAIN KeptTotals(S) = DOMAIN KeptRefs(S)
      /\ KeptFrozen(S) \subseteq DOMAIN KeptRefs(S)
  BY <1>3 DEF KeptTotals, KeptRefs, KeptFrozen
<1>6. KeptTotals(S) \in [DOMAIN KeptTotals(S) -> Int]
  BY DEF KeptTotals, LedgerInv, Shape
<1> QED BY <1>2, <1>4, <1>5, <1>6

\* What an admission records: an amount, in the current window.
LEMMA ReservesAmount ==
    ASSUME LedgerInv, NEW S \in Purgeable, NEW q \in Quote,
           Admits(S, CurrentWindow, q)
    PROVE  /\ Reservation(S, CurrentWindow, q) \in Nat
           /\ Held(KeptTotals(S), CurrentWindow) \in Int
           /\ Fresh(CurrentWindow, q, Reservation(S, CurrentWindow, q)) \in Liability
<1> DEFINE w == CurrentWindow
           h == Held(KeptTotals(S), w)
<1>1. Limit \in Nat /\ q.bounded \in BOOLEAN /\ q.amount \in Nat
  BY LedgerAssumption DEF LedgerAssumption
<1>2. h \in Int
  BY PurgeKeeps DEF Held
<1>3. w \in Nat
  BY LedgerAssumption DEF LedgerAssumption, LedgerInv, Shape, CurrentWindow
<1>4. ~q.bounded => h < Limit
  BY DEF Admits
<1>5. Reservation(S, w, q) = IF q.bounded THEN q.amount ELSE Limit - h
  BY DEF Reservation
<1> HIDE DEF h, w
<1>6. Reservation(S, w, q) \in Nat
  BY <1>1, <1>2, <1>4, <1>5
<1>7. Fresh(w, q, Reservation(S, w, q)) \in Liability
  BY <1>1, <1>3, <1>6 DEF Fresh, Liability, None, Window
<1> QED BY <1>2, <1>6, <1>7 DEF h, w

\* A charge leaves totals a map over the same windows and only adds freezes.
LEMMA ChargeKeeps ==
    ASSUME Shape, WindowsReferenced, NEW a \in DOMAIN ledger, NEW d \in Int,
           Charges(ledger[a].window, d)
    PROVE  /\ DOMAIN totals' = DOMAIN totals /\ totals' \in [DOMAIN totals' -> Int]
           /\ frozen \subseteq frozen' /\ frozen' \subseteq frozen \cup {ledger[a].window}
           /\ ledger[a].window \in DOMAIN totals
<1>1. ledger[a].window \in DOMAIN totals
  BY DEF WindowsReferenced
<1>2. MaxExact \in Int
  BY LedgerAssumption DEF LedgerAssumption
<1> QED BY <1>1, <1>2 DEF Charges, Shape

\* The control part of Shape, and no admitted attempt goes back before its
\* admission.
LEMMA ControlSteps ==
    ASSUME Shape, [Next]_vars
    PROVE  /\ now' \in Nat
           /\ pc' \in [Attempt -> {"new", "acquire", "running", "settle", "done"}]
           /\ finished' \in [Attempt -> BOOLEAN]
           /\ active' \subseteq Attempt
           /\ \A a \in Attempt : pc[a] \in {"running", "settle", "done"} =>
                                  pc'[a] \in {"running", "settle", "done"}
<1> USE DEF Shape
<1>1. CASE UNCHANGED vars
  BY <1>1 DEF vars, tracker
<1>2. CASE Tick
  BY <1>2 DEF Tick, tracker
<1>3. ASSUME NEW a \in Attempt, Step(a)
      PROVE  /\ now' = now
             /\ \/ pc' = pc
                \/ pc' = [pc EXCEPT ![a] = "acquire"] /\ pc[a] = "new"
                \/ \E x \in {"running", "settle", "done"} : pc' = [pc EXCEPT ![a] = x]
             /\ \E b \in BOOLEAN : finished' \in {finished, [finished EXCEPT ![a] = b]}
             /\ active' \in {active, active \cup {a}, active \ {a}}
  <2>1. CASE TakesPermit(a) \/ NoPermit(a) \/ AcquireEnds(a) \/ AcquireRefused(a)
    BY <2>1 DEF TakesPermit, NoPermit, AcquireEnds, AcquireRefused, tracker
  <2>2. CASE \E q \in Quote : AcquireGranted(a, q)
    BY <2>2 DEF AcquireGranted, tracker
  <2>3. CASE \E s \in Spend : Observes(a, s)
    BY <2>3 DEF Observes
  <2>4. CASE Drops(a) \/ ReaderDrops(a)
    BY <2>4 DEF Drops, ReaderDrops, Over
  <2>5. CASE \E outcome \in BOOLEAN : Finishes(a, outcome)
    BY <2>5 DEF Finishes
  <2>6. CASE FinishesLate(a) \/ Settles(a) \/ SettleFails(a)
    BY <2>6 DEF FinishesLate, Settles, SettleFails, Over, tracker
  <2> QED BY <1>3, <2>1, <2>2, <2>3, <2>4, <2>5, <2>6 DEF Step
<1>4. ASSUME NEW a \in Attempt, Step(a)
      PROVE  /\ now' \in Nat
             /\ pc' \in [Attempt -> {"new", "acquire", "running", "settle", "done"}]
             /\ finished' \in [Attempt -> BOOLEAN]
             /\ active' \subseteq Attempt
             /\ \A b \in Attempt : pc[b] \in {"running", "settle", "done"} =>
                                    pc'[b] \in {"running", "settle", "done"}
  <2>1. /\ pc' \in [Attempt -> {"new", "acquire", "running", "settle", "done"}]
        /\ \A b \in Attempt : pc[b] \in {"running", "settle", "done"} =>
                               pc'[b] \in {"running", "settle", "done"}
    BY <1>3, <1>4
  <2>2. now' \in Nat /\ finished' \in [Attempt -> BOOLEAN] /\ active' \subseteq Attempt
    BY <1>3, <1>4
  <2> QED BY <2>1, <2>2
<1> QED BY <1>1, <1>2, <1>4 DEF Next

\* The ledger part of the invariant.
Books ==
    /\ DOMAIN ledger \subseteq Attempt
    /\ ledger \in [DOMAIN ledger -> Liability]
    /\ totals \in [DOMAIN totals -> Int]
    /\ refs \in [DOMAIN refs -> Int]
    /\ DOMAIN totals = DOMAIN refs /\ frozen \subseteq DOMAIN refs
    /\ Counts(ledger, refs)
    /\ SettledByBill /\ UnpricedOpen

\* The invariant's part that settlements rely on.
LEMMA BooksOpen == ASSUME LedgerInv PROVE Books
BY ReferencedCounts DEF LedgerInv, Books, Shape

\* A purge keeps the books.
LEMMA PurgeBooks ==
    ASSUME LedgerInv, NEW S \in Purgeable, Purges(S)
    PROVE  Books' /\ DOMAIN ledger' \subseteq DOMAIN ledger
<1>1. ledger' = KeptAttempts(S) /\ refs' = KeptRefs(S) /\ totals' = KeptTotals(S)
      /\ frozen' = KeptFrozen(S)
  BY DEF Purges
<1>2. DOMAIN ledger' = DOMAIN ledger \ S /\ \A a \in DOMAIN ledger' : ledger'[a] = ledger[a]
  BY <1>1 DEF KeptAttempts
<1>3. DOMAIN ledger' \subseteq Attempt /\ ledger' \in [DOMAIN ledger' -> Liability]
  BY <1>1, <1>2 DEF LedgerInv, Shape, KeptAttempts
<1>4. /\ Counts(ledger', refs') /\ DOMAIN totals' = DOMAIN refs'
      /\ totals' \in [DOMAIN totals' -> Int] /\ frozen' \subseteq DOMAIN refs'
  BY <1>1, PurgeKeeps
<1>5. refs' \in [DOMAIN refs' -> Int]
  BY <1>4 DEF Counts
<1>6. SettledByBill' /\ UnpricedOpen'
  BY <1>2 DEF LedgerInv, SettledByBill, UnpricedOpen
<1>7. Counts(ledger, refs)'
  BY <1>4 DEF Counts
<1> QED BY <1>2, <1>3, <1>4, <1>5, <1>6, <1>7 DEF Books

\* An admission keeps the books and records one attempt more.
LEMMA GrantBooks ==
    ASSUME LedgerInv, NEW a \in Attempt, NEW q \in Quote, AcquireGranted(a, q)
    PROVE  /\ Books' /\ DOMAIN ledger' \subseteq DOMAIN ledger \cup {a}
           /\ a \notin DOMAIN ledger /\ pc'[a] = "running"
<1> DEFINE w == CurrentWindow
<1>1. PICK S \in Purgeable :
         /\ pc[a] = "acquire" /\ Admits(S, w, q)
         /\ ledger' = Put(KeptAttempts(S), a, Fresh(w, q, Reservation(S, w, q)))
         /\ totals' = Put(KeptTotals(S), w, Held(KeptTotals(S), w) + Reservation(S, w, q))
         /\ refs' = Put(KeptRefs(S), w, Held(KeptRefs(S), w) + 1)
         /\ frozen' = KeptFrozen(S)
         /\ pc' = [pc EXCEPT ![a] = "running"]
  BY DEF AcquireGranted
<1> DEFINE l == Fresh(w, q, Reservation(S, w, q))
           f == KeptAttempts(S)
<1>2. a \notin DOMAIN ledger /\ pc'[a] = "running"
  BY <1>1 DEF LedgerInv, Shape
<1>3. /\ Reservation(S, w, q) \in Nat /\ Held(KeptTotals(S), w) \in Int
      /\ l \in Liability
  BY <1>1, ReservesAmount
<1>4. /\ l.window = w /\ ~l.finalized /\ l.terminalCatalog = None
  BY DEF Fresh
<1>5. /\ S \subseteq DOMAIN ledger /\ Counts(f, KeptRefs(S))
      /\ DOMAIN KeptTotals(S) = DOMAIN KeptRefs(S)
      /\ KeptTotals(S) \in [DOMAIN KeptTotals(S) -> Int]
      /\ KeptFrozen(S) \subseteq DOMAIN KeptRefs(S)
  BY PurgeKeeps
<1>6. DOMAIN f = DOMAIN ledger \ S /\ \A b \in DOMAIN f : f[b] = ledger[b]
  BY DEF KeptAttempts
<1>7. /\ DOMAIN ledger' = (DOMAIN ledger \ S) \cup {a} /\ ledger'[a] = l
      /\ \A b \in DOMAIN ledger \ S : ledger'[b] = ledger[b]
  BY <1>1, <1>2, <1>6 DEF Put
<1> HIDE DEF l, f, w
<1>8. DOMAIN ledger' \subseteq Attempt /\ ledger' \in [DOMAIN ledger' -> Liability]
  <2>1. \A b \in DOMAIN ledger' : ledger'[b] \in Liability
    BY <1>3, <1>7 DEF LedgerInv, Shape
  <2> QED BY <1>1, <1>7, <2>1 DEF LedgerInv, Shape, Put
<1>9. Counts(ledger', refs')
  <2>1. IsFiniteSet(DOMAIN f)
    BY <1>5, <1>6, FiniteLedger, FS_Subset DEF LedgerInv
  <2>2. a \notin DOMAIN f
    BY <1>2, <1>6
  <2>3. Counts(Put(f, a, l), Put(KeptRefs(S), l.window, Held(KeptRefs(S), l.window) + 1))
    BY <1>5, <2>1, <2>2, PutCounts
  <2> QED BY <1>1, <1>4, <2>3 DEF f, l
<1>10. refs' \in [DOMAIN refs' -> Int] /\ Counts(ledger, refs)'
  BY <1>9 DEF Counts
<1>11. /\ totals' \in [DOMAIN totals' -> Int] /\ DOMAIN totals' = DOMAIN refs'
       /\ frozen' \subseteq DOMAIN refs'
  BY <1>1, <1>3, <1>5 DEF Put
<1>12. SettledByBill' /\ UnpricedOpen'
  BY <1>4, <1>7 DEF LedgerInv, SettledByBill, UnpricedOpen
<1> QED BY <1>2, <1>7, <1>8, <1>9, <1>10, <1>11, <1>12 DEF Books

\* What one record must satisfy for SettledByBill and UnpricedOpen.
Sound(l) ==
    /\ l.finalized =>
          \/ l.terminalProvider # None /\ l.liability = l.terminalProvider
          \/ l.bounded /\ l.terminalCatalog # None /\ l.liability >= l.maxProvider
    /\ ~l.bounded => l.terminalCatalog = None

\* Rewriting a record within its window keeps the books.
LEMMA RecordBooks ==
    ASSUME LedgerInv, NEW a \in DOMAIN ledger, NEW m \in Liability,
           m.window = ledger[a].window, Sound(m),
           ledger' = [ledger EXCEPT ![a] = m], refs' = refs,
           DOMAIN totals' = DOMAIN totals, totals' \in [DOMAIN totals' -> Int],
           frozen' \subseteq frozen \cup {ledger[a].window}
    PROVE  Books' /\ DOMAIN ledger' = DOMAIN ledger
<1>1. Books
  BY BooksOpen
<1>2. /\ DOMAIN ledger' = DOMAIN ledger /\ ledger' \in [DOMAIN ledger' -> Liability]
      /\ ledger'[a] = m /\ \A b \in DOMAIN ledger \ {a} : ledger'[b] = ledger[b]
  BY <1>1 DEF Books
<1>3. \A b \in DOMAIN ledger : ledger'[b].window = ledger[b].window
  BY <1>2
<1>4. Counts(ledger, refs)'
  <2>1. {ledger'[b].window : b \in DOMAIN ledger'} = {ledger[b].window : b \in DOMAIN ledger}
    BY <1>2, <1>3
  <2>2. \A w : {b \in DOMAIN ledger' : ledger'[b].window = w}
             = {b \in DOMAIN ledger : ledger[b].window = w}
    BY <1>2, <1>3
  <2> QED BY <1>1, <2>1, <2>2 DEF Books, Counts
<1>5. ledger[a].window \in DOMAIN refs
  BY <1>1 DEF Books, Counts
<1>6. \A b \in DOMAIN ledger : Sound(ledger[b])
  BY DEF LedgerInv, SettledByBill, UnpricedOpen, Sound
<1>7. \A b \in DOMAIN ledger' : Sound(ledger'[b])
  BY <1>2, <1>6
<1>8. SettledByBill' /\ UnpricedOpen'
  BY <1>7 DEF SettledByBill, UnpricedOpen, Sound
<1> QED BY <1>1, <1>2, <1>4, <1>5, <1>8 DEF Books

\* A snapshot keeps the books.
LEMMA ObserveBooks ==
    ASSUME LedgerInv, NEW a \in Attempt, NEW s \in Spend, Observes(a, s)
    PROVE  /\ Books' /\ DOMAIN ledger' = DOMAIN ledger
           /\ frozen \subseteq frozen' /\ ~ledger[a].finalized
           /\ \A b \in DOMAIN ledger : ledger'[b].liability >= ledger[b].liability
           /\ \A b \in DOMAIN ledger \ {a} : ledger'[b] = ledger[b]
<1> DEFINE l == ledger[a]
           m == Upsert(l, s)
           d == m.liability - l.liability
<1>1. /\ a \in DOMAIN ledger /\ ~l.finalized /\ ledger' = [ledger EXCEPT ![a] = m]
      /\ Charges(l.window, d) /\ refs' = refs
  BY DEF Observes
<1>2. l \in Liability /\ \A b \in DOMAIN ledger : ledger[b].liability \in Nat
  BY <1>1 DEF LedgerInv, Shape, Liability
<1>3. /\ m \in Liability /\ m.window = l.window /\ m.bounded = l.bounded
      /\ m.finalized = l.finalized /\ m.liability >= l.liability
      /\ ~l.bounded => m.terminalCatalog = l.terminalCatalog
  BY <1>2, UpsertKeeps
<1> HIDE DEF m
<1>4. d \in Int
  BY <1>2, <1>3 DEF Liability
<1>5. /\ DOMAIN totals' = DOMAIN totals /\ totals' \in [DOMAIN totals' -> Int]
      /\ frozen \subseteq frozen' /\ frozen' \subseteq frozen \cup {l.window}
  <2> HIDE DEF d
  <2> QED BY <1>1, <1>4, ChargeKeeps DEF LedgerInv
<1>6. Sound(m)
  BY <1>1, <1>3 DEF Sound, LedgerInv, UnpricedOpen
<1>7. Books' /\ DOMAIN ledger' = DOMAIN ledger
  BY <1>1, <1>3, <1>5, <1>6, RecordBooks
<1>8. ledger'[a] = m /\ \A b \in DOMAIN ledger \ {a} : ledger'[b] = ledger[b]
  BY <1>1
<1>9. \A b \in DOMAIN ledger : ledger'[b].liability >= ledger[b].liability
  BY <1>2, <1>3, <1>8
<1> QED BY <1>1, <1>5, <1>7, <1>8, <1>9

\* A settlement keeps the books, and changes a record only after a good
\* outcome with usage.
LEMMA SettleBooks ==
    ASSUME LedgerInv, NEW a \in Attempt, Settles(a)
    PROVE  /\ Books' /\ DOMAIN ledger' = DOMAIN ledger /\ frozen \subseteq frozen'
           /\ \A b \in DOMAIN ledger \ {a} : ledger'[b] = ledger[b]
           /\ a \in DOMAIN ledger
           /\ \/ ledger'[a] = ledger[a]
              \/ good[a] /\ usage[a] /\ ~ledger[a].finalized /\ ledger'[a].finalized
<1> DEFINE l == ledger[a]
<1>1. a \in DOMAIN ledger /\ refs' = refs
  BY DEF Settles
<1>2. CASE ~(MayFinalize(a) /\ ~l.finalized /\ Bill(l) # None)
  <2>1. UNCHANGED <<ledger, totals, frozen>>
    BY <1>2 DEF Settles
  <2>2. Books'
    BY <1>1, <2>1, BooksOpen DEF Books, Counts, SettledByBill, UnpricedOpen
  <2> QED BY <1>1, <2>1, <2>2
<1>3. CASE MayFinalize(a) /\ ~l.finalized /\ Bill(l) # None
  <2> DEFINE m == [l EXCEPT !.liability = Bill(l), !.finalized = TRUE]
  <2>1. /\ ledger' = [ledger EXCEPT ![a].liability = Bill(l), ![a].finalized = TRUE]
        /\ Settlement(l.window, Bill(l) - l.liability)
    BY <1>3 DEF Settles
  <2>2. l \in Liability
    BY <1>1 DEF LedgerInv, Shape
  <2>3. /\ Bill(l) \in Nat
        /\ \/ l.terminalProvider # None /\ Bill(l) = l.terminalProvider
           \/ l.terminalCatalog # None /\ Bill(l) >= l.maxProvider
    BY <1>3, <2>2, BillKnown
  <2>4. ledger' = [ledger EXCEPT ![a] = m]
    BY <1>1, <2>1
  <2>5. /\ m \in Liability /\ m.window = l.window /\ m.bounded = l.bounded
        /\ m.liability = Bill(l) /\ m.finalized = TRUE
        /\ m.terminalProvider = l.terminalProvider /\ m.maxProvider = l.maxProvider
        /\ m.terminalCatalog = l.terminalCatalog
    BY <2>2, <2>3 DEF Liability
  <2>6. Sound(m)
    <3>1. ~l.bounded => l.terminalCatalog = None
      BY <1>1 DEF LedgerInv, UnpricedOpen
    <3>2. l.bounded \in BOOLEAN
      BY <2>2 DEF Liability
    <3> HIDE DEF m
    <3> QED BY <2>3, <2>5, <3>1, <3>2 DEF Sound
  <2>7. /\ DOMAIN totals' = DOMAIN totals /\ totals' \in [DOMAIN totals' -> Int]
        /\ frozen \subseteq frozen' /\ frozen' \subseteq frozen \cup {l.window}
    <3>1. CASE l.window \in frozen
      BY <2>1, <3>1 DEF Settlement, LedgerInv, Shape
    <3>2. CASE l.window \notin frozen
      <4> DEFINE d == Bill(l) - l.liability
      <4>1. d \in Int
        BY <2>2, <2>3 DEF Liability
      <4>2. Charges(l.window, d)
        BY <2>1, <3>2 DEF Settlement
      <4> HIDE DEF d
      <4> QED BY <1>1, <4>1, <4>2, ChargeKeeps DEF LedgerInv
    <3> QED BY <3>1, <3>2
  <2>8. ledger'[a] = m /\ \A b \in DOMAIN ledger \ {a} : ledger'[b] = ledger[b]
    BY <1>1, <2>4
  <2> HIDE DEF m
  <2>9. Books' /\ DOMAIN ledger' = DOMAIN ledger
    BY <1>1, <2>4, <2>5, <2>6, <2>7, RecordBooks
  <2> QED BY <1>1, <1>3, <2>5, <2>7, <2>8, <2>9 DEF MayFinalize
<1> QED BY <1>2, <1>3

\* The invariant is inductive.
THEOREM LedgerInvInductive == LedgerInv /\ [Next]_vars => LedgerInv'
<1> SUFFICES ASSUME LedgerInv, [Next]_vars PROVE LedgerInv'
  OBVIOUS
<1>1. /\ now' \in Nat
      /\ pc' \in [Attempt -> {"new", "acquire", "running", "settle", "done"}]
      /\ finished' \in [Attempt -> BOOLEAN]
      /\ active' \subseteq Attempt
      /\ \A a \in Attempt : pc[a] \in {"running", "settle", "done"} =>
                             pc'[a] \in {"running", "settle", "done"}
  BY ControlSteps DEF LedgerInv
<1>2. Books' /\ \A a \in DOMAIN ledger' : a \in DOMAIN ledger \/ pc'[a] = "running"
  <2>1. CASE UNCHANGED accounts
    <3>1. Books'
      BY <2>1, BooksOpen DEF accounts, Books, Counts, SettledByBill, UnpricedOpen
    <3> QED BY <2>1, <3>1 DEF accounts
  <2>2. CASE \E S \in Purgeable : Purges(S)
    BY <2>2, PurgeBooks
  <2>3. CASE \E a \in Attempt, q \in Quote : AcquireGranted(a, q)
    BY <2>3, GrantBooks
  <2>4. CASE \E a \in Attempt, s \in Spend : Observes(a, s)
    BY <2>4, ObserveBooks
  <2>5. CASE \E a \in Attempt : Settles(a)
    BY <2>5, SettleBooks
  <2> QED BY <2>1, <2>2, <2>3, <2>4, <2>5, AccountSteps
<1>3. \A a \in DOMAIN ledger' : pc'[a] \in {"running", "settle", "done"}
  BY <1>1, <1>2 DEF LedgerInv, Shape
<1>4. Shape'
  BY <1>1, <1>2, <1>3 DEF Shape, Books
<1>5. WindowsReferenced'
  BY <1>2 DEF Books, Counts, WindowsReferenced, Of
<1> QED BY <1>2, <1>4, <1>5 DEF LedgerInv, Books

-----------------------------------------------------------------------------
(* The theorems.                                                           *)

\* LedgerInv holds in every reachable state.
THEOREM LedgerInvariant == Spec => []LedgerInv
<1>1. Init => LedgerInv
  <2> SUFFICES ASSUME Init PROVE LedgerInv
    OBVIOUS
  <2>1. Shape
    BY DEF Init, Shape
  <2>2. WindowsReferenced
    BY DEF Init, WindowsReferenced
  <2>3. SettledByBill /\ UnpricedOpen
    BY DEF Init, SettledByBill, UnpricedOpen
  <2> QED BY <2>1, <2>2, <2>3 DEF LedgerInv
<1> QED BY <1>1, LedgerInvInductive, PTL DEF Spec

\* observe_usage and finish never meet a retained attempt whose window the
\* purge has dropped, for any batch size and any order of expiries.
THEOREM WindowsReferencedHolds == Spec => []WindowsReferenced
<1>1. LedgerInv => WindowsReferenced
  BY DEF LedgerInv
<1> QED BY <1>1, LedgerInvariant, PTL

\* No attempt settles below what the provider charged, and an unpriced one
\* settles only on a terminal provider bill.
THEOREM SettledByBillHolds == Spec => []SettledByBill
<1>1. LedgerInv => SettledByBill
  BY DEF LedgerInv
<1> QED BY <1>1, LedgerInvariant, PTL

\* A liability falls only by a settlement after a good outcome, once.
THEOREM ReservationKeptHolds == Spec => ReservationKept
<1> DEFINE Kept == \A a \in DOMAIN ledger \cap DOMAIN ledger' :
                      LET l == ledger[a]  m == ledger'[a] IN
                      /\ m.liability < l.liability => good[a] /\ usage[a] /\ m.finalized
                      /\ l.finalized => m.finalized /\ m.liability = l.liability
<1>1. ASSUME LedgerInv, [Next]_vars PROVE Kept
  <2>0. \A a \in DOMAIN ledger : ledger[a].liability \in Nat
    BY <1>1 DEF LedgerInv, Shape, Liability
  <2>1. CASE UNCHANGED accounts
    BY <2>0, <2>1 DEF accounts
  <2>2. ASSUME NEW S \in Purgeable, Purges(S) PROVE Kept
    BY <2>0, <2>2 DEF Purges, KeptAttempts
  <2>3. ASSUME NEW a \in Attempt, NEW q \in Quote, AcquireGranted(a, q) PROVE Kept
    <3>1. a \notin DOMAIN ledger
      BY <1>1, <2>3, GrantBooks
    <3>2. \A b \in DOMAIN ledger \cap DOMAIN ledger' : ledger'[b] = ledger[b]
      BY <2>3, <3>1 DEF AcquireGranted, Put, KeptAttempts
    <3> QED BY <2>0, <3>2
  <2>4. ASSUME NEW a \in Attempt, NEW s \in Spend, Observes(a, s) PROVE Kept
    <3>1. /\ ~ledger[a].finalized
          /\ \A b \in DOMAIN ledger : ledger'[b].liability >= ledger[b].liability
          /\ \A b \in DOMAIN ledger \ {a} : ledger'[b] = ledger[b]
          /\ Books'
      BY <1>1, <2>4, ObserveBooks
    <3>2. \A b \in DOMAIN ledger' : ledger'[b].liability \in Nat
      BY <3>1 DEF Books, Liability
    <3> QED BY <2>0, <3>1, <3>2
  <2>5. ASSUME NEW a \in Attempt, Settles(a) PROVE Kept
    <3>1. /\ \A b \in DOMAIN ledger \ {a} : ledger'[b] = ledger[b]
          /\ \/ ledger'[a] = ledger[a]
             \/ good[a] /\ usage[a] /\ ~ledger[a].finalized /\ ledger'[a].finalized
      BY <1>1, <2>5, SettleBooks
    <3> QED BY <2>0, <3>1
  <2> QED BY <1>1, <2>1, <2>2, <2>3, <2>4, <2>5, AccountSteps
<1>2. LedgerInv /\ [Next]_vars => [Kept]_vars
  BY <1>1
<1>3. Spec => [][Kept]_vars
  BY <1>2, LedgerInvariant, PTL DEF Spec
<1> QED BY <1>3 DEF ReservationKept

\* An attempt's record is kept until the retention after its window has run
\* out, whatever the retained-attempt limit and the batch.
THEOREM LateSettlementHolds == Spec => LateSettlement
<1> DEFINE Late == \A a \in DOMAIN ledger \ DOMAIN ledger' :
                      now >= (ledger[a].window + 1) * WindowSecs + Retention
<1>1. ASSUME LedgerInv, [Next]_vars PROVE Late
  <2>0. now \in Nat /\ WindowSecs \in Nat /\ Retention \in Nat
        /\ \A a \in DOMAIN ledger : ledger[a].window \in Nat
    BY <1>1, LedgerAssumption DEF LedgerInv, Shape, LedgerAssumption, Liability, Window
  <2>1. ASSUME NEW S \in Purgeable, DOMAIN ledger \ DOMAIN ledger' \subseteq S PROVE Late
    <3>1. \A a \in S : a \in DOMAIN ledger /\ ExpiresAt(ledger[a].window) <= now
      BY <1>1, PurgeKeeps
    <3>2. \A a \in DOMAIN ledger : ExpiresAt(ledger[a].window) \in Nat
      BY <2>0 DEF ExpiresAt
    <3>3. \A a \in S : now >= ExpiresAt(ledger[a].window)
      BY <2>0, <3>1, <3>2
    <3> QED BY <2>1, <3>3 DEF ExpiresAt
  <2>2. CASE UNCHANGED accounts
    BY <2>2 DEF accounts
  <2>3. ASSUME NEW S \in Purgeable, Purges(S) PROVE Late
    BY <2>1, <2>3 DEF Purges, KeptAttempts
  <2>4. ASSUME NEW a \in Attempt, NEW q \in Quote, AcquireGranted(a, q) PROVE Late
    <3>1. PICK S \in Purgeable : DOMAIN ledger \ DOMAIN ledger' \subseteq S
      BY <2>4 DEF AcquireGranted, Put, KeptAttempts
    <3> QED BY <2>1, <3>1
  <2>5. ASSUME NEW a \in Attempt, NEW s \in Spend, Observes(a, s) PROVE Late
    BY <1>1, <2>5, ObserveBooks
  <2>6. ASSUME NEW a \in Attempt, Settles(a) PROVE Late
    BY <1>1, <2>6, SettleBooks
  <2> QED BY <1>1, <2>2, <2>3, <2>4, <2>5, <2>6, AccountSteps
<1>2. LedgerInv /\ [Next]_vars => [Late]_vars
  BY <1>1
<1>3. Spec => [][Late]_vars
  BY <1>2, LedgerInvariant, PTL DEF Spec
<1> QED BY <1>3 DEF LateSettlement

\* An overflowed window is frozen for as long as it is kept and admits no
\* further attempt: the purge cannot drop the window an admission is for.
THEOREM FreezeIrreversibleHolds == Spec => FreezeIrreversible
<1> DEFINE Frozen == \A w \in frozen :
                        /\ w \in DOMAIN totals' => w \in frozen'
                        /\ \A a \in DOMAIN ledger' \ DOMAIN ledger : ledger'[a].window # w
<1>1. ASSUME LedgerInv, [Next]_vars PROVE Frozen
  <2>1. CASE UNCHANGED accounts
    BY <2>1 DEF accounts
  <2>2. ASSUME NEW S \in Purgeable, Purges(S) PROVE Frozen
    BY <2>2 DEF Purges, KeptTotals, KeptFrozen, KeptAttempts
  <2>3. ASSUME NEW a \in Attempt, NEW q \in Quote, AcquireGranted(a, q) PROVE Frozen
    <3> DEFINE v == CurrentWindow
    <3>1. PICK S \in Purgeable :
             /\ v \notin KeptFrozen(S)
             /\ ledger' = Put(KeptAttempts(S), a, Fresh(v, q, Reservation(S, v, q)))
             /\ totals' = Put(KeptTotals(S), v, Held(KeptTotals(S), v) + Reservation(S, v, q))
             /\ frozen' = KeptFrozen(S)
      BY <2>3 DEF AcquireGranted, Admits
    <3>2. v \notin Emptied(S)
      <4> SUFFICES ASSUME v \in Emptied(S) PROVE FALSE
        OBVIOUS
      <4>1. PICK b \in S : ledger[b].window = v
        BY DEF Emptied, Of
      <4>2. b \in DOMAIN ledger /\ ExpiresAt(ledger[b].window) <= now
        BY <1>1, PurgeKeeps
      <4>3. now \in Nat /\ ledger[b].window \in Nat
        BY <1>1, <4>2 DEF LedgerInv, Shape, Liability, Window
      <4> QED BY <4>1, <4>2, <4>3, CurrentUnexpired
    <3>3. v \notin frozen
      BY <3>1, <3>2 DEF KeptFrozen
    <3>4. \A b \in DOMAIN ledger' \ DOMAIN ledger : ledger'[b].window = v
      BY <3>1 DEF Put, KeptAttempts, Fresh
    <3>5. DOMAIN totals' = (DOMAIN totals \ Emptied(S)) \cup {v}
      BY <3>1 DEF Put, KeptTotals
    <3> QED BY <3>1, <3>3, <3>4, <3>5 DEF KeptFrozen
  <2>4. ASSUME NEW a \in Attempt, NEW s \in Spend, Observes(a, s) PROVE Frozen
    BY <1>1, <2>4, ObserveBooks
  <2>5. ASSUME NEW a \in Attempt, Settles(a) PROVE Frozen
    BY <1>1, <2>5, SettleBooks
  <2> QED BY <1>1, <2>1, <2>2, <2>3, <2>4, <2>5, AccountSteps
<1>2. LedgerInv /\ [Next]_vars => [Frozen]_vars
  BY <1>1
<1>3. Spec => [][Frozen]_vars
  BY <1>2, LedgerInvariant, PTL DEF Spec
<1> QED BY <1>3 DEF FreezeIrreversible

-----------------------------------------------------------------------------
(* Permits.  An admission puts its attempt among the holders, so the       *)
(* invariant adds that nobody abandons an attempt before it is admitted.   *)

PermitInv ==
    /\ pc \in [Attempt -> {"new", "acquire", "running", "settle", "done"}]
    /\ finished \in [Attempt -> BOOLEAN]
    /\ active \subseteq Attempt
    /\ \A a \in active : pc[a] = "running" /\ ~finished[a]
    /\ \A a \in Attempt : pc[a] \in {"new", "acquire"} => ~finished[a]

\* Every step keeps PermitInv.
LEMMA PermitStep ==
    ASSUME PermitInv, [Next]_vars
    PROVE  PermitInv'
<1> USE DEF PermitInv
<1>1. CASE UNCHANGED vars
  BY <1>1 DEF vars, tracker
<1>2. CASE Tick
  BY <1>2 DEF Tick, tracker
<1>3. ASSUME NEW a \in Attempt, Step(a) PROVE PermitInv'
  <2>1. CASE TakesPermit(a) \/ NoPermit(a) \/ AcquireEnds(a) \/ AcquireRefused(a)
    BY <2>1 DEF TakesPermit, NoPermit, AcquireEnds, AcquireRefused, tracker
  <2>2. CASE \E q \in Quote : AcquireGranted(a, q)
    <3>1. /\ pc[a] = "acquire" /\ pc' = [pc EXCEPT ![a] = "running"]
          /\ active' = active \cup {a} /\ finished' = finished
      BY <2>2 DEF AcquireGranted, tracker
    <3> QED BY <3>1
  <2>3. CASE \E s \in Spend : Observes(a, s)
    <3>1. pc' = pc /\ finished' = finished /\ active' = active
      BY <2>3 DEF Observes
    <3> QED BY <3>1
  <2>4. CASE Drops(a) \/ ReaderDrops(a)
    BY <2>4 DEF Drops, ReaderDrops, Over
  <2>5. CASE \E outcome \in BOOLEAN : Finishes(a, outcome)
    BY <2>5 DEF Finishes
  <2>6. CASE FinishesLate(a) \/ SettleFails(a)
    BY <2>6 DEF FinishesLate, SettleFails, Over
  <2>7. CASE Settles(a)
    <3>1. pc[a] = "settle" /\ active' = active /\ Over(a)
      BY <2>7 DEF Settles
    <3> QED BY <3>1 DEF Over
  <2> QED BY <1>3, <2>1, <2>2, <2>3, <2>4, <2>5, <2>6, <2>7 DEF Step
<1> QED BY <1>1, <1>2, <1>3 DEF Next

\* A permit is held only by an attempt that runs and that neither its reader
\* nor its own task has given up, although finish, both drops and a failed
\* settlement release it in any order.
THEOREM PermitsLiveHolds == Spec => []PermitsLive
<1>1. Init => PermitInv
  BY DEF Init, PermitInv
<1>2. PermitInv => PermitsLive
  BY DEF PermitInv, PermitsLive
<1> QED BY <1>1, <1>2, PermitStep, PTL DEF Spec

-----------------------------------------------------------------------------
(* Balance and cap.  A total covers the liabilities of the attempts that   *)
(* are left, and equals them while no attempt of its window can have been  *)
(* forgotten; an attempt that has not settled is liable for at least what  *)
(* it reserved, so that only settlements release part of a reservation.    *)

\* What the attempts of a window owe, and which part of it they had reserved.
Owed(f, w) == [a \in {b \in DOMAIN f : f[b].window = w} |-> f[a].liability]
Capped(f, r, w) ==
    [a \in {b \in DOMAIN f : f[b].window = w} |->
        IF f[a].liability < r[a] THEN f[a].liability ELSE r[a]]

Covered ==
    \A w \in DOMAIN totals \ frozen :
        /\ SumOf(Owed(ledger, w)) <= totals[w]
        /\ ExpiresAt(w) > now => totals[w] = SumOf(Owed(ledger, w))
Ceiling ==
    \A w \in DOMAIN totals :
        ExpiresAt(w) > now => SumOf(Capped(ledger, reserved, w)) <= Limit
Unreleased ==
    \A a \in DOMAIN ledger : ~ledger[a].finalized => reserved[a] <= ledger[a].liability
Amounts ==
    /\ reserved \in [Attempt -> Nat]
    /\ \A w \in DOMAIN totals : totals[w] \in 0 .. MaxExact

BalanceInv == Amounts /\ Covered /\ Ceiling /\ Unreleased

\* Records that are as they should be can be summed.
LEMMA RecordsSum ==
    ASSUME NEW f, NEW r, NEW w, IsFiniteSet(DOMAIN f), DOMAIN f \subseteq Attempt,
           \A a \in DOMAIN f : f[a] \in Liability, r \in [Attempt -> Nat]
    PROVE  /\ Summable(Owed(f, w)) /\ SumOf(Owed(f, w)) \in Nat
           /\ Summable(Capped(f, r, w)) /\ SumOf(Capped(f, r, w)) \in Nat
           /\ SumOf(Capped(f, r, w)) <= SumOf(Owed(f, w))
<1> DEFINE D == {b \in DOMAIN f : f[b].window = w}
<1>1. IsFiniteSet(D)
  BY FS_Subset
<1>2. \A a \in D : f[a].liability \in Nat /\ r[a] \in Nat
  BY DEF Liability
<1>3. Summable(Owed(f, w))
  BY <1>1, <1>2 DEF Summable, Owed
<1>4. /\ DOMAIN Capped(f, r, w) \subseteq DOMAIN Owed(f, w)
      /\ \A a \in DOMAIN Capped(f, r, w) :
            Capped(f, r, w)[a] \in Nat /\ Capped(f, r, w)[a] <= Owed(f, w)[a]
  BY <1>2 DEF Capped, Owed
<1> QED BY <1>3, <1>4, SumMonotonic, SumType

\* The sums over a window exist, and what is capped is part of what is owed.
LEMMA LedgerSums ==
    ASSUME LedgerInv, BalanceInv, NEW w
    PROVE  /\ Summable(Owed(ledger, w)) /\ SumOf(Owed(ledger, w)) \in Nat
           /\ Summable(Capped(ledger, reserved, w))
           /\ SumOf(Capped(ledger, reserved, w)) \in Nat
           /\ SumOf(Capped(ledger, reserved, w)) <= SumOf(Owed(ledger, w))
BY RecordsSum, FiniteLedger DEF LedgerInv, Shape, BalanceInv, Amounts

\* Forgetting expired attempts leaves a window's total above what is left of
\* it, and touches no window that has not expired.
LEMMA PurgeBalance ==
    ASSUME LedgerInv, BalanceInv, NEW S \in Purgeable
    PROVE  LET f == KeptAttempts(S)  r == KeptReserved(S)  t == KeptTotals(S) IN
           /\ r \in [Attempt -> Nat]
           /\ IsFiniteSet(DOMAIN f) /\ DOMAIN f \subseteq Attempt
           /\ \A a \in DOMAIN f : f[a] \in Liability /\ f[a] = ledger[a]
           /\ \A w \in DOMAIN t : w \in DOMAIN totals /\ t[w] = totals[w]
           /\ \A w \in DOMAIN t : w \notin KeptFrozen(S) => w \notin frozen
           /\ \A w : SumOf(Owed(f, w)) <= SumOf(Owed(ledger, w))
           /\ \A w : ExpiresAt(w) > now => /\ Owed(f, w) = Owed(ledger, w)
                                           /\ Capped(f, r, w) = Capped(ledger, reserved, w)
           /\ \A a \in DOMAIN f : ~f[a].finalized => r[a] <= f[a].liability
<1> DEFINE f == KeptAttempts(S)
           r == KeptReserved(S)
           t == KeptTotals(S)
<1>1. S \subseteq DOMAIN ledger /\ \A a \in S : ExpiresAt(ledger[a].window) <= now
  BY PurgeKeeps
<1>2. r = [a \in Attempt |-> IF a \in S THEN 0 ELSE reserved[a]] /\ r \in [Attempt -> Nat]
  BY DEF KeptReserved, BalanceInv, Amounts
<1>3. DOMAIN f = DOMAIN ledger \ S /\ \A a \in DOMAIN f : f[a] = ledger[a]
  BY DEF KeptAttempts
<1>4. /\ IsFiniteSet(DOMAIN f) /\ DOMAIN f \subseteq Attempt
      /\ \A a \in DOMAIN f : f[a] \in Liability /\ f[a] = ledger[a]
  BY <1>3, FiniteLedger, FS_Subset DEF LedgerInv, Shape
<1>5. /\ \A w \in DOMAIN t : w \in DOMAIN totals /\ t[w] = totals[w]
      /\ \A w \in DOMAIN t : w \notin KeptFrozen(S) => w \notin frozen
  BY DEF KeptTotals, KeptFrozen
<1>6. ASSUME NEW w PROVE SumOf(Owed(f, w)) <= SumOf(Owed(ledger, w))
  <2>1. Summable(Owed(ledger, w))
    BY LedgerSums
  <2>2. DOMAIN Owed(f, w) \subseteq DOMAIN Owed(ledger, w)
    BY <1>3 DEF Owed
  <2>3. \A a \in DOMAIN Owed(f, w) :
           Owed(f, w)[a] \in Nat /\ Owed(f, w)[a] <= Owed(ledger, w)[a]
    BY <1>3, <1>4 DEF Owed, Liability
  <2> QED BY <2>1, <2>2, <2>3, SumMonotonic
<1>7. ASSUME NEW w, ExpiresAt(w) > now
      PROVE  Owed(f, w) = Owed(ledger, w) /\ Capped(f, r, w) = Capped(ledger, reserved, w)
  <2>1. ASSUME NEW a \in S, ledger[a].window = w PROVE FALSE
    <3>1. ExpiresAt(w) <= now
      BY <1>1, <2>1
    <3>2. w \in Nat
      BY <1>1, <2>1 DEF LedgerInv, Shape, Liability, Window
    <3>3. ExpiresAt(w) \in Int /\ now \in Int
      BY <3>2, LedgerAssumption DEF ExpiresAt, LedgerInv, Shape, LedgerAssumption
    <3> QED BY <1>7, <3>1, <3>3
  <2>2. {b \in DOMAIN f : f[b].window = w} = {b \in DOMAIN ledger : ledger[b].window = w}
    BY <1>3, <2>1
  <2>3. \A a \in {b \in DOMAIN ledger : ledger[b].window = w} :
           f[a] = ledger[a] /\ r[a] = reserved[a]
    BY <1>2, <1>3, <1>4, <2>2
  <2> HIDE DEF f, r
  <2> QED BY <2>2, <2>3 DEF Owed, Capped
<1>8. \A a \in DOMAIN f : ~f[a].finalized => r[a] <= f[a].liability
  BY <1>2, <1>3, <1>4 DEF BalanceInv, Unreleased
<1> HIDE DEF f, r, t
<1>9. QED BY <1>2, <1>4, <1>5, <1>6, <1>7, <1>8 DEF f, r, t

\* BalanceInv, said of the next state's books.
LEMMA BalanceNext ==
    ASSUME Amounts', Unreleased',
           \A w \in DOMAIN totals' :
              /\ w \notin frozen' => SumOf(Owed(ledger', w)) <= totals'[w]
              /\ w \notin frozen' /\ ExpiresAt(w) > now' =>
                    totals'[w] = SumOf(Owed(ledger', w))
              /\ ExpiresAt(w) > now' => SumOf(Capped(ledger', reserved', w)) <= Limit
    PROVE  BalanceInv'
<1>1. Covered'
  BY DEF Covered, Owed, ExpiresAt
<1>2. Ceiling'
  BY DEF Ceiling, Capped, ExpiresAt
<1> QED BY <1>1, <1>2 DEF BalanceInv

\* Time alone only takes windows out of the exact balance.
LEMMA IdleBalance ==
    ASSUME LedgerInv, BalanceInv, UNCHANGED accounts, now' \in Nat, now' >= now
    PROVE  BalanceInv'
<1>1. /\ ledger' = ledger /\ totals' = totals /\ frozen' = frozen
      /\ reserved' = reserved
  BY DEF accounts
<1>2. Amounts' /\ Unreleased'
  BY <1>1 DEF BalanceInv, Amounts, Unreleased
<1>3. ASSUME NEW w \in DOMAIN totals', ExpiresAt(w) > now' PROVE ExpiresAt(w) > now
  <2>1. w \in Nat
    BY <1>1 DEF LedgerInv, Shape, WindowsReferenced, Liability, Window
  <2>2. ExpiresAt(w) \in Int /\ now \in Int
    BY <2>1, LedgerAssumption DEF ExpiresAt, LedgerInv, Shape, LedgerAssumption
  <2> QED BY <1>3, <2>2
<1> QED BY <1>1, <1>2, <1>3, BalanceNext DEF BalanceInv, Covered, Ceiling

\* A purge keeps the balance.
LEMMA PurgesBalance ==
    ASSUME LedgerInv, BalanceInv, NEW S \in Purgeable, Purges(S), now' = now
    PROVE  BalanceInv'
<1>1. /\ ledger' = KeptAttempts(S) /\ totals' = KeptTotals(S)
      /\ frozen' = KeptFrozen(S) /\ reserved' = KeptReserved(S)
  BY DEF Purges
<1>2. /\ reserved' \in [Attempt -> Nat]
      /\ \A w \in DOMAIN totals' : w \in DOMAIN totals /\ totals'[w] = totals[w]
      /\ \A w \in DOMAIN totals' : w \notin frozen' => w \notin frozen
      /\ \A w : SumOf(Owed(ledger', w)) <= SumOf(Owed(ledger, w))
      /\ \A w : ExpiresAt(w) > now =>
            /\ Owed(ledger', w) = Owed(ledger, w)
            /\ Capped(ledger', reserved', w) = Capped(ledger, reserved, w)
      /\ \A a \in DOMAIN ledger' : ~ledger'[a].finalized => reserved'[a] <= ledger'[a].liability
  BY <1>1, PurgeBalance
<1>3. Amounts' /\ Unreleased'
  BY <1>2 DEF BalanceInv, Amounts, Unreleased
<1>4. \A w : SumOf(Owed(ledger', w)) \in Nat
  <2>1. /\ IsFiniteSet(DOMAIN ledger') /\ DOMAIN ledger' \subseteq Attempt
        /\ \A a \in DOMAIN ledger' : ledger'[a] \in Liability
    BY <1>1, PurgeBalance
  <2> QED BY <1>2, <2>1, RecordsSum
<1>5. ASSUME NEW w \in DOMAIN totals', w \notin frozen'
      PROVE  SumOf(Owed(ledger', w)) <= totals'[w]
  <2>1. /\ w \in DOMAIN totals \ frozen /\ totals'[w] = totals[w]
        /\ SumOf(Owed(ledger', w)) <= SumOf(Owed(ledger, w))
    BY <1>2, <1>5
  <2>2. SumOf(Owed(ledger, w)) <= totals[w] /\ totals[w] \in Nat
    BY <2>1 DEF BalanceInv, Covered, Amounts
  <2>3. SumOf(Owed(ledger, w)) \in Nat /\ SumOf(Owed(ledger', w)) \in Nat
    BY <1>4, LedgerSums
  <2> QED BY <2>1, <2>2, <2>3
<1>6. ASSUME NEW w \in DOMAIN totals', ExpiresAt(w) > now'
      PROVE  /\ w \notin frozen' => totals'[w] = SumOf(Owed(ledger', w))
             /\ SumOf(Capped(ledger', reserved', w)) <= Limit
  BY <1>2, <1>6 DEF BalanceInv, Covered, Ceiling
<1> QED BY <1>3, <1>5, <1>6, BalanceNext

\* An admission adds its reservation to the total of the current window, which
\* until then is exactly what the window's attempts owe, and so stays below
\* the cap.
LEMMA GrantBalance ==
    ASSUME LedgerInv, BalanceInv, NEW a \in Attempt, NEW q \in Quote,
           AcquireGranted(a, q)
    PROVE  BalanceInv'
<1> DEFINE w == CurrentWindow
<1>1. PICK S \in Purgeable :
         /\ pc[a] = "acquire" /\ Admits(S, w, q)
         /\ ledger' = Put(KeptAttempts(S), a, Fresh(w, q, Reservation(S, w, q)))
         /\ totals' = Put(KeptTotals(S), w, Held(KeptTotals(S), w) + Reservation(S, w, q))
         /\ frozen' = KeptFrozen(S)
         /\ reserved' = [KeptReserved(S) EXCEPT ![a] = Reservation(S, w, q)]
         /\ now' = now
  BY DEF AcquireGranted
<1> DEFINE f == KeptAttempts(S)
           r == KeptReserved(S)
           t == KeptTotals(S)
           n == Reservation(S, w, q)
           h == Held(t, w)
<1>2. a \notin DOMAIN ledger
  BY <1>1 DEF LedgerInv, Shape
<1>3. n \in Nat /\ h \in Int /\ Fresh(w, q, n) \in Liability
  BY <1>1, ReservesAmount
<1>4. /\ r \in [Attempt -> Nat]
      /\ IsFiniteSet(DOMAIN f) /\ DOMAIN f \subseteq Attempt
      /\ \A b \in DOMAIN f : f[b] \in Liability /\ f[b] = ledger[b]
      /\ \A v \in DOMAIN t : v \in DOMAIN totals /\ t[v] = totals[v]
      /\ \A v \in DOMAIN t : v \notin KeptFrozen(S) => v \notin frozen
      /\ \A v : SumOf(Owed(f, v)) <= SumOf(Owed(ledger, v))
      /\ \A v : ExpiresAt(v) > now => /\ Owed(f, v) = Owed(ledger, v)
                                      /\ Capped(f, r, v) = Capped(ledger, reserved, v)
      /\ \A b \in DOMAIN f : ~f[b].finalized => r[b] <= f[b].liability
  BY PurgeBalance
<1>5. a \notin DOMAIN f
  BY <1>2 DEF KeptAttempts
<1>6. w \notin KeptFrozen(S) /\ h + n <= Limit
  <2>1. /\ w \notin KeptFrozen(S) /\ Limit \in Nat /\ q.bounded \in BOOLEAN
        /\ IF q.bounded THEN h + q.amount <= Limit ELSE h < Limit
        /\ n = IF q.bounded THEN q.amount ELSE Limit - h
    BY <1>1, LedgerAssumption DEF Admits, Reservation, LedgerAssumption
  <2> HIDE DEF h, n
  <2> QED BY <1>3, <2>1
<1>7. w \in Nat /\ ExpiresAt(w) > now
  <2>1. now \in Nat /\ WindowSecs \in Nat \ {0} /\ Retention \in Nat
    BY LedgerAssumption DEF LedgerInv, Shape, LedgerAssumption
  <2>2. w \in Nat
    BY <2>1 DEF CurrentWindow
  <2>3. ExpiresAt(w) \in Int
    BY <2>1, <2>2 DEF ExpiresAt
  <2>4. ~ (ExpiresAt(w) <= now)
    BY <2>1, <2>2, CurrentUnexpired
  <2> HIDE DEF w
  <2> QED BY <2>1, <2>2, <2>3, <2>4
<1>8. /\ DOMAIN ledger' = DOMAIN f \cup {a} /\ ledger'[a] = Fresh(w, q, n)
      /\ \A b \in DOMAIN f : ledger'[b] = f[b]
  BY <1>1, <1>5 DEF Put
<1>9. /\ DOMAIN totals' = DOMAIN t \cup {w} /\ totals'[w] = h + n
      /\ \A v \in DOMAIN t \ {w} : totals'[v] = t[v]
  BY <1>1 DEF Put
<1>10. /\ reserved' \in [Attempt -> Nat] /\ reserved'[a] = n
       /\ \A b \in Attempt \ {a} : reserved'[b] = r[b]
  BY <1>1, <1>3, <1>4
<1>11. Fresh(w, q, n).window = w /\ Fresh(w, q, n).liability = n
  BY DEF Fresh
<1> HIDE DEF f, r, t, n, h, w
<1>12. /\ IsFiniteSet(DOMAIN ledger') /\ DOMAIN ledger' \subseteq Attempt
       /\ \A b \in DOMAIN ledger' : ledger'[b] \in Liability
  BY <1>3, <1>4, <1>8, FS_AddElement
<1>13. \A v : /\ Summable(Owed(ledger', v)) /\ Summable(Owed(f, v))
              /\ Summable(Capped(ledger', reserved', v)) /\ Summable(Capped(f, r, v))
              /\ SumOf(Owed(ledger', v)) \in Nat /\ SumOf(Owed(f, v)) \in Nat
              /\ SumOf(Capped(f, r, v)) \in Nat
              /\ SumOf(Capped(f, r, v)) <= SumOf(Owed(f, v))
  BY <1>4, <1>10, <1>12, RecordsSum
<1>14. ASSUME NEW v, v # w
       PROVE  /\ Owed(ledger', v) = Owed(f, v)
              /\ Capped(ledger', reserved', v) = Capped(f, r, v)
  <2>1. {b \in DOMAIN ledger' : ledger'[b].window = v} = {b \in DOMAIN f : f[b].window = v}
    BY <1>8, <1>11, <1>14
  <2>2. \A b \in DOMAIN f : ledger'[b] = f[b] /\ reserved'[b] = r[b]
    BY <1>4, <1>5, <1>8, <1>10
  <2> QED BY <2>1, <2>2 DEF Owed, Capped
<1>15. /\ SumOf(Owed(ledger', w)) = SumOf(Owed(f, w)) + n
       /\ SumOf(Capped(ledger', reserved', w)) = SumOf(Capped(f, r, w)) + n
  <2> DEFINE D == {b \in DOMAIN f : f[b].window = w}
  <2>1. {b \in DOMAIN ledger' : ledger'[b].window = w} = D \cup {a} /\ a \notin D
    BY <1>5, <1>8, <1>11
  <2>2. \A b \in D : ledger'[b] = f[b] /\ reserved'[b] = r[b]
    BY <1>4, <1>5, <1>8, <1>10
  <2>3. /\ DOMAIN Owed(ledger', w) = D \cup {a} /\ Owed(ledger', w)[a] = n
        /\ DOMAIN Owed(f, w) = D
        /\ \A b \in D : Owed(f, w)[b] = Owed(ledger', w)[b]
    BY <1>8, <1>11, <2>1, <2>2 DEF Owed
  <2>4. /\ DOMAIN Capped(ledger', reserved', w) = D \cup {a}
        /\ Capped(ledger', reserved', w)[a] = n
        /\ DOMAIN Capped(f, r, w) = D
        /\ \A b \in D : Capped(f, r, w)[b] = Capped(ledger', reserved', w)[b]
    BY <1>8, <1>10, <1>11, <2>1, <2>2 DEF Capped
  <2> HIDE DEF D
  <2>5. D = (D \cup {a}) \ {a}
    BY <2>1
  <2> QED BY <1>13, <2>3, <2>4, <2>5, SumSplit
<1>16. h = SumOf(Owed(f, w))
  <2>1. Owed(f, w) = Owed(ledger, w)
    BY <1>4, <1>7
  <2>2. CASE w \in DOMAIN t
    <3>1. w \in DOMAIN totals \ frozen /\ h = totals[w]
      BY <1>4, <1>6, <2>2 DEF h, Held
    <3> QED BY <1>7, <2>1, <3>1 DEF BalanceInv, Covered
  <2>3. CASE w \notin DOMAIN t
    <3>1. Counts(f, KeptRefs(S)) /\ DOMAIN t = DOMAIN KeptRefs(S)
      BY PurgeKeeps DEF f, t
    <3>2. {b \in DOMAIN f : f[b].window = w} = {}
      BY <2>3, <3>1 DEF Counts
    <3>3. DOMAIN Owed(f, w) = {}
      BY <3>2 DEF Owed
    <3> QED BY <2>3, <3>3, SumEmpty DEF h, Held
  <2> QED BY <2>2, <2>3
<1>17. Limit \in Nat /\ MaxExact \in Nat /\ Limit <= MaxExact
  BY LedgerAssumption DEF LedgerAssumption
<1>18. Amounts'
  <2>1. totals'[w] \in 0 .. MaxExact
    BY <1>3, <1>6, <1>9, <1>13, <1>16, <1>17
  <2>2. \A v \in DOMAIN t : t[v] \in 0 .. MaxExact
    BY <1>4 DEF BalanceInv, Amounts
  <2> QED BY <1>9, <1>10, <2>1, <2>2 DEF Amounts
<1>19. Unreleased'
  <2>1. \A b \in DOMAIN f : ~ledger'[b].finalized => reserved'[b] <= ledger'[b].liability
    BY <1>4, <1>5, <1>8, <1>10
  <2>2. reserved'[a] <= ledger'[a].liability
    BY <1>3, <1>8, <1>10, <1>11
  <2> QED BY <1>8, <2>1, <2>2 DEF Unreleased
<1>20. ASSUME NEW v \in DOMAIN totals', v # w, v \notin frozen'
       PROVE  SumOf(Owed(ledger', v)) <= totals'[v]
  <2>1. v \in DOMAIN totals \ frozen /\ totals'[v] = totals[v]
    BY <1>1, <1>4, <1>9, <1>20
  <2>2. /\ SumOf(Owed(ledger', v)) <= SumOf(Owed(ledger, v))
        /\ SumOf(Owed(ledger, v)) <= totals[v] /\ totals[v] \in Nat
    BY <1>4, <1>14, <1>20, <2>1 DEF BalanceInv, Covered, Amounts
  <2>3. SumOf(Owed(ledger, v)) \in Nat /\ SumOf(Owed(ledger', v)) \in Nat
    BY <1>13, LedgerSums
  <2> QED BY <2>1, <2>2, <2>3
<1>21. ASSUME NEW v \in DOMAIN totals', v # w, ExpiresAt(v) > now'
       PROVE  /\ v \notin frozen' => totals'[v] = SumOf(Owed(ledger', v))
              /\ SumOf(Capped(ledger', reserved', v)) <= Limit
  <2>1. v \in DOMAIN totals /\ totals'[v] = totals[v] /\ (v \notin frozen' => v \notin frozen)
    BY <1>1, <1>4, <1>9, <1>21
  <2>2. /\ Owed(ledger', v) = Owed(ledger, v)
        /\ Capped(ledger', reserved', v) = Capped(ledger, reserved, v)
    BY <1>1, <1>4, <1>14, <1>21
  <2> QED BY <1>1, <1>21, <2>1, <2>2 DEF BalanceInv, Covered, Ceiling
<1>22. /\ SumOf(Owed(ledger', w)) = totals'[w]
       /\ SumOf(Capped(ledger', reserved', w)) <= Limit
  BY <1>3, <1>6, <1>9, <1>13, <1>15, <1>16, <1>17
<1>23. totals'[w] <= totals'[w]
  BY <1>3, <1>9
<1> QED BY <1>18, <1>19, <1>20, <1>21, <1>22, <1>23, BalanceNext

\* Rewriting one record within its window moves the window's sums by the
\* difference, and no others.
LEMMA RecordSums ==
    ASSUME LedgerInv, BalanceInv, NEW a \in DOMAIN ledger, NEW m \in Liability,
           m.window = ledger[a].window, ledger' = [ledger EXCEPT ![a] = m],
           reserved' = reserved
    PROVE  LET w == m.window IN
           /\ \A v : v # w => /\ Owed(ledger', v) = Owed(ledger, v)
                              /\ Capped(ledger', reserved', v) = Capped(ledger, reserved, v)
           /\ SumOf(Owed(ledger', w))
                 = SumOf(Owed(ledger, w)) - ledger[a].liability + m.liability
           /\ (m.liability >= ledger[a].liability /\ ~ledger[a].finalized)
                 \/ m.liability <= ledger[a].liability
              => SumOf(Capped(ledger', reserved', w)) <= SumOf(Capped(ledger, reserved, w))
           /\ ledger[a].liability <= SumOf(Owed(ledger, w))
<1> DEFINE w == m.window
           D == {b \in DOMAIN ledger : ledger[b].window = w}
<1>1. /\ DOMAIN ledger' = DOMAIN ledger /\ ledger'[a] = m
      /\ \A b \in DOMAIN ledger \ {a} : ledger'[b] = ledger[b]
  BY DEF LedgerInv, Shape
<1>2. \A v : {b \in DOMAIN ledger' : ledger'[b].window = v}
                = {b \in DOMAIN ledger : ledger[b].window = v}
  BY <1>1
<1>3. ASSUME NEW v, v # w
      PROVE  /\ Owed(ledger', v) = Owed(ledger, v)
             /\ Capped(ledger', reserved', v) = Capped(ledger, reserved, v)
  <2>1. \A b \in {c \in DOMAIN ledger : ledger[c].window = v} : ledger'[b] = ledger[b]
    BY <1>1, <1>3
  <2> QED BY <1>2, <2>1 DEF Owed, Capped
<1>4. /\ DOMAIN Owed(ledger, w) = D /\ DOMAIN Owed(ledger', w) = D /\ a \in D
      /\ Owed(ledger, w)[a] = ledger[a].liability /\ Owed(ledger', w)[a] = m.liability
      /\ \A b \in D \ {a} : Owed(ledger', w)[b] = Owed(ledger, w)[b]
  BY <1>1, <1>2 DEF Owed
<1>5. m.liability \in Nat /\ ledger[a].liability \in Nat /\ reserved[a] \in Nat
  BY DEF Liability, LedgerInv, Shape, BalanceInv, Amounts
<1>6. Summable(Owed(ledger, w)) /\ Summable(Capped(ledger, reserved, w))
  BY LedgerSums
<1>7. SumOf(Owed(ledger', w)) = SumOf(Owed(ledger, w)) - ledger[a].liability + m.liability
  <2> DEFINE f == Owed(ledger, w)
             g == Owed(ledger', w)
  <2>1. /\ Summable(f) /\ a \in DOMAIN f /\ DOMAIN g = DOMAIN f /\ g[a] \in Nat
        /\ \A b \in DOMAIN f \ {a} : g[b] = f[b]
    BY <1>4, <1>5, <1>6
  <2>2. f[a] = ledger[a].liability /\ g[a] = m.liability
    BY <1>4
  <2> HIDE DEF f, g
  <2>3. SumOf(g) = SumOf(f) - f[a] + g[a]
    BY <2>1, SumChange
  <2> QED BY <2>2, <2>3 DEF f, g
<1>8. ledger[a].liability <= SumOf(Owed(ledger, w))
  BY <1>4, <1>6, SumBounds
<1>9. ASSUME \/ m.liability >= ledger[a].liability /\ ~ledger[a].finalized
             \/ m.liability <= ledger[a].liability
      PROVE  SumOf(Capped(ledger', reserved', w)) <= SumOf(Capped(ledger, reserved, w))
  <2> DEFINE C == Capped(ledger, reserved, w)
             E == Capped(ledger', reserved', w)
  <2>1. /\ DOMAIN C = D /\ DOMAIN E = D
        /\ C[a] = IF ledger[a].liability < reserved[a] THEN ledger[a].liability ELSE reserved[a]
        /\ E[a] = IF m.liability < reserved[a] THEN m.liability ELSE reserved[a]
        /\ \A b \in D \ {a} : E[b] = C[b]
    BY <1>1, <1>2, <1>4 DEF Capped
  <2>2. ~ledger[a].finalized => reserved[a] <= ledger[a].liability
    BY DEF BalanceInv, Unreleased
  <2> HIDE DEF C, E, D
  <2>3. E[a] \in Nat /\ E[a] <= C[a]
    BY <1>5, <1>9, <2>1, <2>2
  <2>4. \A b \in D : C[b] \in Nat
    BY <1>6, <2>1 DEF Summable, C
  <2>5. \A b \in DOMAIN E : E[b] \in Nat /\ E[b] <= C[b]
    BY <2>1, <2>3, <2>4
  <2> QED BY <1>6, <2>1, <2>5, SumMonotonic DEF C, E
<1> HIDE DEF D
<1> QED BY <1>3, <1>7, <1>8, <1>9

\* A record and its window's total move by the same amount, or the window is
\* frozen.
LEMMA ChargeBalance ==
    ASSUME LedgerInv, BalanceInv, NEW a \in DOMAIN ledger, NEW m \in Liability,
           m.window = ledger[a].window, ledger' = [ledger EXCEPT ![a] = m],
           reserved' = reserved, now' = now,
           Charges(m.window, m.liability - ledger[a].liability),
           ~ledger[a].finalized,
           m.window \in frozen => m.liability >= ledger[a].liability,
           m.finalized \/ m.liability >= ledger[a].liability
    PROVE  BalanceInv'
<1> DEFINE w == m.window
           x == ledger[a].liability
           d == m.liability - x
<1>1. /\ \A v : v # w => /\ Owed(ledger', v) = Owed(ledger, v)
                         /\ Capped(ledger', reserved', v) = Capped(ledger, reserved, v)
      /\ SumOf(Owed(ledger', w)) = SumOf(Owed(ledger, w)) - x + m.liability
      /\ (m.liability >= x /\ ~ledger[a].finalized) \/ m.liability <= x
         => SumOf(Capped(ledger', reserved', w)) <= SumOf(Capped(ledger, reserved, w))
      /\ x <= SumOf(Owed(ledger, w))
  BY RecordSums
<1>2. m.liability \in Nat /\ x \in Nat /\ reserved[a] \in Nat
  BY DEF Liability, LedgerInv, Shape, BalanceInv, Amounts
<1>3. w \in DOMAIN totals /\ totals[w] \in 0 .. MaxExact
  BY DEF LedgerInv, WindowsReferenced, BalanceInv, Amounts
<1>4. MaxExact \in Nat /\ Limit \in Nat
  BY LedgerAssumption DEF LedgerAssumption
<1>5. /\ SumOf(Owed(ledger, w)) \in Nat /\ SumOf(Owed(ledger', w)) \in Int
      /\ SumOf(Capped(ledger, reserved, w)) \in Nat
  BY <1>1, <1>2, LedgerSums
<1>6. SumOf(Capped(ledger', reserved', w)) <= SumOf(Capped(ledger, reserved, w))
  BY <1>1, <1>2
<1>7. /\ DOMAIN totals' = DOMAIN totals
      /\ \A v \in DOMAIN totals \ {w} : totals'[v] = totals[v]
      /\ IF totals[w] + d <= MaxExact
         THEN totals'[w] = totals[w] + d /\ frozen' = frozen
         ELSE totals'[w] = MaxExact /\ frozen' = frozen \cup {w}
  BY <1>3 DEF Charges, LedgerInv, Shape
<1>8. w \notin frozen => /\ SumOf(Owed(ledger, w)) <= totals[w]
                         /\ ExpiresAt(w) > now => totals[w] = SumOf(Owed(ledger, w))
  BY <1>3 DEF BalanceInv, Covered
<1> HIDE DEF w, x
<1>9. totals'[w] \in 0 .. MaxExact
  <2>1. w \in frozen => d >= 0
    BY <1>2 DEF w, x
  <2>2. w \notin frozen => totals[w] + d >= 0
    BY <1>1, <1>2, <1>3, <1>5, <1>8
  <2> QED BY <1>2, <1>3, <1>4, <1>7, <2>1, <2>2
<1>10. Amounts'
  BY <1>3, <1>7, <1>9 DEF BalanceInv, Amounts
<1>11. Unreleased'
  <2>1. \A b \in DOMAIN ledger \ {a} :
           ~ledger'[b].finalized => reserved'[b] <= ledger'[b].liability
    BY DEF BalanceInv, Unreleased
  <2>2. ~m.finalized => reserved[a] <= m.liability
    BY <1>2 DEF BalanceInv, Unreleased, x
  <2>3. ledger'[a] = m /\ DOMAIN ledger' = DOMAIN ledger
    BY DEF LedgerInv, Shape
  <2> QED BY <2>1, <2>2, <2>3 DEF Unreleased
<1>12. ASSUME w \notin frozen'
       PROVE  /\ SumOf(Owed(ledger', w)) <= totals'[w]
              /\ ExpiresAt(w) > now => totals'[w] = SumOf(Owed(ledger', w))
  BY <1>1, <1>2, <1>3, <1>5, <1>7, <1>8, <1>12
<1>13. SumOf(Owed(ledger', w)) \in Int /\ totals'[w] \in Int
  BY <1>5, <1>9
<1>14. ExpiresAt(w) > now => SumOf(Capped(ledger', reserved', w)) <= Limit
  <2>1. ExpiresAt(w) > now => SumOf(Capped(ledger, reserved, w)) <= Limit
    BY <1>3 DEF BalanceInv, Ceiling
  <2>2. SumOf(Capped(ledger', reserved', w)) \in Nat
    <3>1. /\ DOMAIN ledger' = DOMAIN ledger
          /\ \A b \in DOMAIN ledger' : ledger'[b] \in Liability
      BY DEF LedgerInv, Shape
    <3>2. IsFiniteSet(DOMAIN ledger) /\ DOMAIN ledger \subseteq Attempt
      BY FiniteLedger DEF LedgerInv, Shape
    <3> QED BY <3>1, <3>2, RecordsSum DEF BalanceInv, Amounts
  <2> QED BY <1>4, <1>5, <1>6, <2>1, <2>2
<1>15. ASSUME NEW v \in DOMAIN totals', v # w
       PROVE  /\ v \notin frozen' => SumOf(Owed(ledger', v)) <= totals'[v]
              /\ v \notin frozen' /\ ExpiresAt(v) > now' => totals'[v] = SumOf(Owed(ledger', v))
              /\ ExpiresAt(v) > now' => SumOf(Capped(ledger', reserved', v)) <= Limit
  <2>1. v \in DOMAIN totals /\ totals'[v] = totals[v] /\ (v \notin frozen' => v \notin frozen)
    BY <1>7, <1>15
  <2> QED BY <1>1, <1>15, <2>1 DEF BalanceInv, Covered, Ceiling
<1> QED BY <1>10, <1>11, <1>12, <1>14, <1>15, BalanceNext

\* An observed amount keeps the balance.
LEMMA ObserveBalance ==
    ASSUME LedgerInv, BalanceInv, NEW a \in Attempt, NEW s \in Spend, Observes(a, s)
    PROVE  BalanceInv'
<1> DEFINE l == ledger[a]
           m == Upsert(l, s)
<1>1. /\ a \in DOMAIN ledger /\ ~l.finalized /\ ledger' = [ledger EXCEPT ![a] = m]
      /\ Charges(l.window, m.liability - l.liability)
      /\ reserved' = reserved /\ now' = now
  BY DEF Observes
<1>2. l \in Liability
  BY <1>1 DEF LedgerInv, Shape
<1>3. m \in Liability /\ m.window = l.window /\ m.liability >= l.liability
  BY <1>2, UpsertKeeps
<1> HIDE DEF m
<1> QED BY <1>1, <1>3, ChargeBalance

\* A settlement keeps the balance.
LEMMA SettleBalance ==
    ASSUME LedgerInv, BalanceInv, NEW a \in Attempt, Settles(a)
    PROVE  BalanceInv'
<1> DEFINE l == ledger[a]
<1>1. a \in DOMAIN ledger /\ reserved' = reserved /\ refs' = refs /\ now' = now
  BY DEF Settles
<1>2. CASE ~(MayFinalize(a) /\ ~l.finalized /\ Bill(l) # None)
  <2>1. UNCHANGED accounts
    BY <1>1, <1>2 DEF Settles, accounts
  <2>2. now \in Nat /\ now >= now
    BY DEF LedgerInv, Shape
  <2> QED BY <1>1, <2>1, <2>2, IdleBalance
<1>3. CASE MayFinalize(a) /\ ~l.finalized /\ Bill(l) # None
  <2> DEFINE m == [l EXCEPT !.liability = Bill(l), !.finalized = TRUE]
  <2>1. /\ ledger' = [ledger EXCEPT ![a].liability = Bill(l), ![a].finalized = TRUE]
        /\ Settlement(l.window, Bill(l) - l.liability)
    BY <1>3 DEF Settles
  <2>2. l \in Liability /\ Bill(l) \in Nat
    BY <1>1, <1>3, BillKnown DEF LedgerInv, Shape
  <2>3. ledger' = [ledger EXCEPT ![a] = m]
    BY <1>1, <2>1
  <2>4. /\ m \in Liability /\ m.window = l.window /\ m.liability = Bill(l)
        /\ m.finalized = TRUE
    BY <2>2 DEF Liability
  <2> HIDE DEF m
  <2>5. CASE l.window \notin frozen
    <3>1. Charges(m.window, m.liability - l.liability)
      BY <2>1, <2>4, <2>5 DEF Settlement
    <3> QED BY <1>1, <1>3, <2>3, <2>4, <2>5, <3>1, ChargeBalance
  <2>6. CASE l.window \in frozen
    <3>1. totals' = totals /\ frozen' = frozen
      BY <2>1, <2>6 DEF Settlement
    <3> DEFINE w == m.window
    <3>2. /\ \A v : v # w => /\ Owed(ledger', v) = Owed(ledger, v)
                             /\ Capped(ledger', reserved', v) = Capped(ledger, reserved, v)
          /\ (m.liability >= l.liability /\ ~l.finalized) \/ m.liability <= l.liability
             => SumOf(Capped(ledger', reserved', w)) <= SumOf(Capped(ledger, reserved, w))
      BY <1>1, <2>3, <2>4, RecordSums
    <3>3. m.liability \in Nat /\ l.liability \in Nat
      BY <2>2, <2>4 DEF Liability
    <3>4. SumOf(Capped(ledger', reserved', w)) <= SumOf(Capped(ledger, reserved, w))
      BY <1>3, <3>2, <3>3
    <3>5. Amounts'
      BY <1>1, <3>1 DEF BalanceInv, Amounts
    <3>6. /\ DOMAIN ledger' = DOMAIN ledger /\ ledger'[a] = m
          /\ \A b \in DOMAIN ledger \ {a} : ledger'[b] = ledger[b]
      BY <1>1, <2>3 DEF LedgerInv, Shape
    <3>7. Unreleased'
      BY <1>1, <2>4, <3>6 DEF BalanceInv, Unreleased
    <3>8. /\ SumOf(Capped(ledger, reserved, w)) \in Nat
          /\ SumOf(Capped(ledger', reserved', w)) \in Nat
      <4>1. \A b \in DOMAIN ledger' : ledger'[b] \in Liability
        BY <2>4, <3>6 DEF LedgerInv, Shape
      <4>2. IsFiniteSet(DOMAIN ledger) /\ DOMAIN ledger \subseteq Attempt
        BY FiniteLedger DEF LedgerInv, Shape
      <4> QED BY <1>1, <3>6, <4>1, <4>2, LedgerSums, RecordsSum DEF BalanceInv, Amounts
    <3>9. w \in frozen' /\ Limit \in Nat
      BY <2>4, <2>6, <3>1, LedgerAssumption DEF LedgerAssumption
    <3> HIDE DEF w
    <3>10. ASSUME NEW v \in DOMAIN totals'
           PROVE  /\ v \notin frozen' => SumOf(Owed(ledger', v)) <= totals'[v]
                  /\ v \notin frozen' /\ ExpiresAt(v) > now' => totals'[v] = SumOf(Owed(ledger', v))
                  /\ ExpiresAt(v) > now' => SumOf(Capped(ledger', reserved', v)) <= Limit
      <4>1. CASE v # w
        BY <1>1, <3>1, <3>2, <4>1 DEF BalanceInv, Covered, Ceiling
      <4>2. CASE v = w
        <5>1. ExpiresAt(w) > now => SumOf(Capped(ledger, reserved, w)) <= Limit
          BY <3>1, <4>2 DEF BalanceInv, Ceiling
        <5> QED BY <1>1, <3>4, <3>8, <3>9, <4>2, <5>1
      <4> QED BY <4>1, <4>2
    <3> QED BY <3>5, <3>7, <3>10, BalanceNext
  <2> QED BY <2>5, <2>6
<1> QED BY <1>2, <1>3

\* Only the clock moves now, and not backwards.
LEMMA ClockSteps ==
    ASSUME LedgerInv, [Next]_vars
    PROVE  /\ now' \in Nat /\ now' >= now
           /\ ~UNCHANGED accounts => now' = now
<1>1. now \in Nat
  BY DEF LedgerInv, Shape
<1>2. CASE UNCHANGED vars
  BY <1>1, <1>2 DEF vars
<1>3. CASE Tick
  BY <1>1, <1>3 DEF Tick
<1>4. ASSUME NEW a \in Attempt, Step(a) PROVE now' = now
  BY <1>4 DEF Step, TakesPermit, NoPermit, AcquireEnds, AcquireRefused, AcquireGranted,
     Observes, Drops, ReaderDrops, Finishes, FinishesLate, Settles, SettleFails
<1> QED BY <1>1, <1>2, <1>3, <1>4 DEF Next

\* Balance, cap and the two facts they rest on are preserved together.
THEOREM BalanceInductive == LedgerInv /\ BalanceInv /\ [Next]_vars => BalanceInv'
<1> SUFFICES ASSUME LedgerInv, BalanceInv, [Next]_vars PROVE BalanceInv'
  OBVIOUS
<1>1. now' \in Nat /\ now' >= now /\ (~UNCHANGED accounts => now' = now)
  BY ClockSteps
<1>2. CASE UNCHANGED accounts
  BY <1>1, <1>2, IdleBalance
<1>3. CASE ~UNCHANGED accounts
  <2>1. now' = now
    BY <1>1, <1>3
  <2>2. CASE \E S \in Purgeable : Purges(S)
    BY <2>1, <2>2, PurgesBalance
  <2>3. CASE \E a \in Attempt, q \in Quote : AcquireGranted(a, q)
    BY <2>3, GrantBalance
  <2>4. CASE \E a \in Attempt, s \in Spend : Observes(a, s)
    BY <2>4, ObserveBalance
  <2>5. CASE \E a \in Attempt : Settles(a)
    BY <2>5, SettleBalance
  <2> QED BY <1>3, <2>2, <2>3, <2>4, <2>5, AccountSteps
<1> QED BY <1>2, <1>3

\* The books cover what the attempts owe in every reachable state.
THEOREM BalanceInvariant == Spec => []BalanceInv
<1>1. Init => BalanceInv
  BY DEF Init, BalanceInv, Amounts, Covered, Ceiling, Unreleased
<1> QED BY <1>1, BalanceInductive, LedgerInvariant, PTL DEF Spec

\* While no attempt of a window can have been forgotten and the window is not
\* frozen, its total is exactly the sum of its attempts' liabilities, for any
\* interleaving of admissions, raises, releases and settlements.
THEOREM LedgerBalancesHolds == Spec => []LedgerBalances
<1>1. BalanceInv => LedgerBalances
  <2> SUFFICES ASSUME BalanceInv, NEW w \in Whole \ frozen
               PROVE  totals[w] = SumOf([a \in Of(DOMAIN ledger, w) |-> ledger[a].liability])
    BY DEF LedgerBalances
  <2>1. totals[w] = SumOf(Owed(ledger, w))
    BY DEF BalanceInv, Covered, Whole
  <2> QED BY <2>1 DEF Owed, Of
<1> QED BY <1>1, BalanceInvariant, PTL

\* No window's reservations exceed the cap: it is overrun only by what an
\* attempt turns out to cost beyond its own reservation.
THEOREM CapHoldsHolds == Spec => []CapHolds
<1>1. BalanceInv => CapHolds
  <2> SUFFICES ASSUME BalanceInv, NEW w \in Whole
               PROVE  SumOf([a \in Of(DOMAIN ledger, w) |-> StillReserved(a)]) <= Limit
    BY DEF CapHolds
  <2>1. SumOf(Capped(ledger, reserved, w)) <= Limit
    BY DEF BalanceInv, Ceiling, Whole
  <2>2. [a \in Of(DOMAIN ledger, w) |-> StillReserved(a)] = Capped(ledger, reserved, w)
    BY DEF Capped, Of, StillReserved
  <2> QED BY <2>1, <2>2
<1> QED BY <1>1, BalanceInvariant, PTL

\* Type correctness of the coordinator's and the ledger's state; that totals
\* stay within the exact range is where the balance is needed.
THEOREM TypeCorrect == Spec => []TypeOK
<1> DEFINE Flags == usage \in [Attempt -> BOOLEAN] /\ good \in [Attempt -> BOOLEAN]
<1>1. Init => Flags
  BY DEF Init
<1>2. ASSUME Flags, [Next]_vars PROVE Flags'
  <2>1. CASE UNCHANGED vars
    BY <1>2, <2>1 DEF vars, tracker
  <2>2. CASE Tick
    BY <1>2, <2>2 DEF Tick, tracker
  <2>3. ASSUME NEW a \in Attempt, Step(a) PROVE Flags'
    <3>1. ASSUME NEW outcome \in BOOLEAN, Finishes(a, outcome) PROVE Flags'
      BY <1>2, <3>1 DEF Finishes
    <3>2. ASSUME Over(a) PROVE Flags'
      BY <1>2, <3>2 DEF Over
    <3>3. ASSUME NEW s \in Spend, Observes(a, s) PROVE Flags'
      BY <1>2, <3>3 DEF Observes
    <3>4. ASSUME NEW q \in Quote, AcquireGranted(a, q) PROVE Flags'
      BY <1>2, <3>4 DEF AcquireGranted, tracker
    <3>5. ASSUME \/ TakesPermit(a) \/ NoPermit(a) \/ AcquireEnds(a)
                 \/ AcquireRefused(a) \/ ReaderDrops(a)
          PROVE  Flags'
      BY <1>2, <3>5 DEF TakesPermit, NoPermit, AcquireEnds, AcquireRefused, ReaderDrops, tracker
    <3>6. ASSUME Drops(a) \/ FinishesLate(a) \/ Settles(a) \/ SettleFails(a) PROVE Over(a)
      BY <3>6 DEF Drops, FinishesLate, Settles, SettleFails
    <3> QED BY <2>3, <3>1, <3>2, <3>3, <3>4, <3>5, <3>6 DEF Step
  <2> QED BY <1>2, <2>1, <2>2, <2>3 DEF Next
<1>3. ASSUME LedgerInv, BalanceInv, Flags PROVE TypeOK
  <2>1. DOMAIN totals = DOMAIN refs /\ DOMAIN refs \subseteq Window
    BY <1>3 DEF LedgerInv, Shape, WindowsReferenced, Liability
  <2>2. refs \in [DOMAIN refs -> Nat]
    <3>1. ASSUME NEW w \in DOMAIN refs PROVE refs[w] \in Nat
      <4>1. IsFiniteSet(Of(DOMAIN ledger, w))
        BY <1>3, FiniteLedger, FS_Subset DEF LedgerInv, Of
      <4> QED BY <1>3, <4>1, FS_CardinalityType DEF LedgerInv, WindowsReferenced
    <3> QED BY <1>3, <3>1 DEF LedgerInv, Shape
  <2>3. totals \in [DOMAIN totals -> 0 .. MaxExact]
    BY <1>3 DEF LedgerInv, Shape, BalanceInv, Amounts
  <2> QED BY <1>3, <2>1, <2>2, <2>3 DEF LedgerInv, Shape, BalanceInv, Amounts, TypeOK
<1> QED BY <1>1, <1>2, <1>3, LedgerInvariant, BalanceInvariant, PTL DEF Spec
=============================================================================
