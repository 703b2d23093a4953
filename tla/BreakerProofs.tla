---------------------------- MODULE BreakerProofs ----------------------------
(***************************************************************************)
(* Proofs about module Breaker, for any number of instances and callers,   *)
(* any threshold, window and cooldown: an open circuit's clock runs from   *)
(* the last counted failure, probes go out on cooled circuits only, and a  *)
(* half-open circuit has a probe on its way unless it ended unobserved.    *)
(***************************************************************************)
EXTENDS Breaker, UnitsProofs

\* The part of the type invariant the arguments rest on.
ClockTypes ==
    /\ mode \in [Instance -> {"closed", "open", "half"}]
    /\ opened \in [Instance -> 0..Cooldown]
    /\ lastCounted \in [Instance -> {None} \cup 0..Cooldown]
    /\ probing \in [Caller -> BOOLEAN]

ClockInv == ClockTypes /\ CooldownFromLastFailure

\* What Tick does to one age that stops at a bound.
LEMMA OlderStays ==
    ASSUME NEW b \in Nat, NEW a \in 0..b
    PROVE  Older(a, b) \in 0..b /\ OlderOrNone(a, b) = Older(a, b)
BY DEF Older, OlderOrNone, None

\* Every step of the local breaker other than reports and time leaves both
\* clocks alone and opens nothing.
LEMMA QuietSteps ==
    ASSUME BreakerAssumption, ClockInv, NEW c \in Caller,
           \/ Asks(c) \/ Refused(c) \/ AsksShared(c) \/ ProbesShared(c) \/ ProbeErrs(c)
           \/ DispatchesDirectly(c) \/ Answers(c) \/ EndsUnobserved(c)
           \/ Shares(c) \/ ShareErrs(c)
    PROVE  ClockInv'
BY DEF BreakerAssumption, ClockInv, ClockTypes, CooldownFromLastFailure, history, local,
       Asks, Refused, AsksShared, ProbesShared, ProbeErrs, DispatchesDirectly, Answers,
       EndsUnobserved, Shares, ShareErrs

\* A report restarts the clock, closes the circuit, or moves half-open to open.
LEMMA ReportSteps ==
    ASSUME BreakerAssumption, ClockInv, NEW c \in Caller, Records(c)
    PROVE  ClockInv'
<1> DEFINE i == On[c]
<1>1. i \in Instance /\ Cooldown \in Nat \ {0}
  BY DEF BreakerAssumption
<1>0. probing' \in [Caller -> BOOLEAN]
  BY Zenon DEF Records, ClockInv, ClockTypes
<1>2. CASE result[c] = "ok"
  <2>1. /\ mode' = [mode EXCEPT ![i] = "closed"]
        /\ opened' = [opened EXCEPT ![i] = 0]
        /\ lastCounted' = [lastCounted EXCEPT ![i] = None]
    BY <1>2 DEF Records, RecordSuccess
  <2> QED BY <2>1, <1>0, <1>1 DEF ClockInv, ClockTypes, CooldownFromLastFailure
<1>3. CASE result[c] = "counted"
  <2>1. /\ \/ mode' = [mode EXCEPT ![i] = "open"] /\ opened' = [opened EXCEPT ![i] = 0]
           \/ mode[i] = "closed" /\ UNCHANGED <<mode, opened>>
        /\ lastCounted' = [lastCounted EXCEPT ![i] = 0]
    <3>1. RecordCounted(i) /\ lastCounted' = [lastCounted EXCEPT ![i] = 0]
      BY <1>3 DEF Records
    <3> QED BY <3>1 DEF RecordCounted, Reopen
  <2> QED BY <2>1, <1>0, <1>1 DEF ClockInv, ClockTypes, CooldownFromLastFailure, None
<1>4. CASE result[c] = "uncounted"
  <2>1. /\ mode' = [mode EXCEPT ![i] = IF @ = "half" THEN "open" ELSE @]
        /\ UNCHANGED <<opened, lastCounted>>
    BY <1>4 DEF Records, RecordUncounted
  <2> QED BY <2>1, <1>0, <1>1 DEF ClockInv, ClockTypes, CooldownFromLastFailure
<1> QED BY <1>2, <1>3, <1>4 DEF Records

\* Time moves both clocks together.
LEMMA TickStep ==
    ASSUME BreakerAssumption, ClockInv, Tick
    PROVE  ClockInv'
<1>1. Cooldown \in Nat BY DEF BreakerAssumption
<1>2. \A i \in Instance :
        /\ opened'[i] = Older(opened[i], Cooldown)
        /\ lastCounted'[i] = OlderOrNone(lastCounted[i], Cooldown)
  BY DEF Tick
<1>3. \A i \in Instance : opened'[i] \in 0..Cooldown
  BY <1>1, <1>2, OlderStays DEF ClockInv, ClockTypes
<1>4. \A i \in Instance : lastCounted'[i] \in {None} \cup 0..Cooldown
  <2>1. OlderOrNone(None, Cooldown) = None BY DEF OlderOrNone
  <2> SUFFICES ASSUME NEW i \in Instance
               PROVE  OlderOrNone(lastCounted[i], Cooldown) \in {None} \cup 0..Cooldown
    BY <1>2
  <2>2. lastCounted[i] = None \/ lastCounted[i] \in 0..Cooldown
    BY DEF ClockInv, ClockTypes
  <2> QED BY <1>1, <2>1, <2>2, OlderStays
<1>5. ClockTypes'
  <2>1. opened' \in [Instance -> 0..Cooldown]
    BY <1>3 DEF Tick
  <2>2. lastCounted' \in [Instance -> {None} \cup 0..Cooldown]
    BY <1>4 DEF Tick
  <2> QED BY <2>1, <2>2 DEF ClockInv, ClockTypes, Tick
<1>6. CooldownFromLastFailure'
  <2> SUFFICES ASSUME NEW i \in Instance, mode'[i] # "closed"
               PROVE  lastCounted'[i] # None /\ opened'[i] = lastCounted'[i]
    BY DEF CooldownFromLastFailure
  <2>1. mode[i] # "closed" BY DEF Tick
  <2>2. lastCounted[i] # None /\ opened[i] = lastCounted[i]
    BY <2>1 DEF ClockInv, CooldownFromLastFailure
  <2>3. opened[i] \in 0..Cooldown BY DEF ClockInv, ClockTypes
  <2>4. lastCounted'[i] = Older(opened[i], Cooldown)
    BY <1>1, <1>2, <2>2, <2>3, OlderStays
  <2>5. opened'[i] \in 0..Cooldown BY <1>3
  <2> QED BY <1>2, <2>4, <2>5, <1>1 DEF None
<1> QED BY <1>5, <1>6 DEF ClockInv

\* Every step keeps ClockInv.
LEMMA ClockStep ==
    ASSUME BreakerAssumption, ClockInv, [Next]_vars
    PROVE  ClockInv'
<1>1. CASE UNCHANGED vars
  BY <1>1 DEF ClockInv, ClockTypes, CooldownFromLastFailure, vars, local, history
<1>2. CASE Tick
  BY <1>2, TickStep
<1>3. ASSUME NEW c \in Caller, ReservesProbe(c)
      PROVE  ClockInv'
  BY <1>3 DEF ReservesProbe, ProbeDue, BreakerAssumption, ClockInv, ClockTypes,
              CooldownFromLastFailure
<1>4. ASSUME NEW c \in Caller, Records(c)
      PROVE  ClockInv'
  BY <1>4, ReportSteps
<1> QED BY <1>1, <1>2, <1>3, <1>4, QuietSteps DEF Next

\* While a circuit is open its clock runs from the last counted failure,
\* whatever the callers of record_failure and record_success interleave.
THEOREM CooldownHolds == Spec => []CooldownFromLastFailure
<1>1. Init => ClockInv
  BY BreakerAssumption DEF Init, ClockInv, ClockTypes, CooldownFromLastFailure,
     BreakerAssumption, None
<1>2. ClockInv /\ [Next]_vars => ClockInv'
  BY ClockStep, BreakerAssumption
<1>3. ClockInv => CooldownFromLastFailure
  BY DEF ClockInv
<1> QED BY <1>1, <1>2, <1>3, PTL DEF Spec

\* try_admit_probe hands out a probe only a whole cooldown after the last
\* counted failure of the target.
THEOREM ProbesCooledHolds == Spec => ProbesCooled
<1>1. Init => ClockInv
  BY BreakerAssumption DEF Init, ClockInv, ClockTypes, CooldownFromLastFailure,
     BreakerAssumption, None
<1>2. ClockInv /\ [Next]_vars => ClockInv'
  BY ClockStep, BreakerAssumption
<1>3. ASSUME ClockInv, [Next]_vars
      PROVE  [\A c \in Caller : probing'[c] /\ ~probing[c]
                 => lastCounted[On[c]] = Cooldown]_vars
  <2> SUFFICES ASSUME NEW c \in Caller, probing'[c], ~probing[c]
               PROVE  lastCounted[On[c]] = Cooldown
    OBVIOUS
  <2>1. ReservesProbe(c)
    <3>1. CASE UNCHANGED vars
      BY <3>1 DEF vars, history
    <3>2. CASE Tick
      BY <3>2 DEF Tick
    <3>3. ASSUME NEW d \in Caller,
                 \/ Asks(d) \/ Refused(d) \/ AsksShared(d) \/ ProbesShared(d)
                 \/ ProbeErrs(d) \/ DispatchesDirectly(d) \/ Answers(d)
                 \/ EndsUnobserved(d) \/ Shares(d) \/ ShareErrs(d)
          PROVE  FALSE
      BY <1>3, <3>3 DEF ClockInv, ClockTypes, history, Asks, Refused, AsksShared, ProbesShared,
         ProbeErrs, DispatchesDirectly, Answers, EndsUnobserved, Shares, ShareErrs
    <3>4. ASSUME NEW d \in Caller, Records(d)
          PROVE  FALSE
      BY <1>3, <3>4, Zenon DEF ClockInv, ClockTypes, Records
    <3>5. ASSUME NEW d \in Caller, ReservesProbe(d)
          PROVE  ReservesProbe(c)
      BY <1>3, <3>5 DEF ClockInv, ClockTypes, ReservesProbe
    <3> QED BY <1>3, <3>1, <3>2, <3>3, <3>4, <3>5 DEF Next
  <2>2. On[c] \in Instance /\ Cooldown \in Nat
    BY BreakerAssumption DEF BreakerAssumption
  <2>3. mode[On[c]] = "open" /\ opened[On[c]] >= Cooldown
    BY <2>1 DEF ReservesProbe, ProbeDue
  <2>4. opened[On[c]] \in 0..Cooldown
    BY <1>3, <2>2 DEF ClockInv, ClockTypes
  <2>5. opened[On[c]] = lastCounted[On[c]]
    BY <1>3, <2>2, <2>3 DEF ClockInv, CooldownFromLastFailure
  <2> QED BY <2>2, <2>3, <2>4, <2>5
<1> QED BY <1>1, <1>2, <1>3, PTL DEF Spec, ProbesCooled

-----------------------------------------------------------------------------
(***************************************************************************)
(* Half-open circuits.                                                     *)
(***************************************************************************)

ProbeInv ==
    /\ mode \in [Instance -> {"closed", "open", "half"}]
    /\ probing \in [Caller -> BOOLEAN] /\ strayed \in [Instance -> BOOLEAN]
    /\ HalfOpenProbed

\* Every step keeps ProbeInv.
LEMMA ProbeStep ==
    ASSUME BreakerAssumption, ProbeInv, [Next]_vars
    PROVE  ProbeInv'
<1>1. CASE UNCHANGED vars
  BY <1>1 DEF ProbeInv, HalfOpenProbed, vars, local, history
<1>2. CASE Tick
  BY <1>2 DEF ProbeInv, HalfOpenProbed, Tick
<1>3. ASSUME NEW c \in Caller,
             \/ Asks(c) \/ Refused(c) \/ AsksShared(c) \/ ProbesShared(c) \/ ProbeErrs(c)
             \/ DispatchesDirectly(c) \/ Answers(c) \/ Shares(c) \/ ShareErrs(c)
      PROVE  ProbeInv'
  BY <1>3 DEF ProbeInv, HalfOpenProbed, history, local, Asks, Refused, AsksShared,
     ProbesShared, ProbeErrs, DispatchesDirectly, Answers, Shares, ShareErrs
<1>4. ASSUME NEW c \in Caller, EndsUnobserved(c)
      PROVE  ProbeInv'
  <2> DEFINE i == On[c]
  <2>1. i \in Instance BY DEF BreakerAssumption
  <2>2. /\ mode' = mode /\ probing' = [probing EXCEPT ![c] = FALSE]
        /\ strayed' = [strayed EXCEPT ![i] = @ \/ (probing[c] /\ mode[i] = "half")]
    BY <1>4 DEF EndsUnobserved, local
  <2>3. strayed' \in [Instance -> BOOLEAN] /\ probing' \in [Caller -> BOOLEAN]
    BY <2>1, <2>2, Zenon DEF ProbeInv
  <2> SUFFICES ASSUME NEW k \in Instance, mode[k] = "half"
               PROVE  strayed'[k] \/ \E d \in Caller : On[d] = k /\ probing'[d]
    BY <2>2, <2>3 DEF ProbeInv, HalfOpenProbed
  <2>4. strayed[k] \/ \E d \in Caller : On[d] = k /\ probing[d]
    BY DEF ProbeInv, HalfOpenProbed
  <2>5. strayed[k] => strayed'[k]
    BY <2>1, <2>2 DEF ProbeInv
  <2>6. ASSUME NEW d \in Caller, On[d] = k, probing[d]
        PROVE  strayed'[k] \/ probing'[d]
    BY <2>1, <2>2, <2>6 DEF ProbeInv
  <2> QED BY <2>4, <2>5, <2>6
<1>5. ASSUME NEW c \in Caller, ReservesProbe(c)
      PROVE  ProbeInv'
  BY <1>5 DEF ReservesProbe, BreakerAssumption, ProbeInv, HalfOpenProbed
<1>6. ASSUME NEW c \in Caller, Records(c)
      PROVE  ProbeInv'
  <2> DEFINE i == On[c]
  <2>1. i \in Instance BY DEF BreakerAssumption
  <2>2. /\ mode' \in [Instance -> {"closed", "open", "half"}]
        /\ mode'[i] # "half"
        /\ \A k \in Instance : k # i => mode'[k] = mode[k]
    BY <1>6, <2>1 DEF Records, RecordSuccess, RecordCounted, Reopen, RecordUncounted,
                      ProbeInv
  <2>3. /\ probing' \in [Caller -> BOOLEAN]
        /\ \A d \in Caller : On[d] # i => probing'[d] = probing[d]
    BY <1>6, <2>1, Zenon DEF Records, ProbeInv
  <2>4. strayed' = [strayed EXCEPT ![i] = FALSE] /\ strayed' \in [Instance -> BOOLEAN]
    BY <1>6, <2>1 DEF Records, ProbeInv
  <2>5. \A k \in Instance : k # i => strayed'[k] = strayed[k]
    BY <2>1, <2>4 DEF ProbeInv
  <2> QED BY <2>1, <2>2, <2>3, <2>4, <2>5 DEF ProbeInv, HalfOpenProbed
<1> QED BY <1>1, <1>2, <1>3, <1>4, <1>5, <1>6 DEF Next

\* A half-open circuit has a probe on its way, or its probe ended unobserved: that
\* dispatches which report nothing, or are dropped, hold the slot for good is the only
\* way a circuit is left half-open, whatever stragglers report meanwhile.
THEOREM HalfOpenProbedHolds == Spec => []HalfOpenProbed
<1>1. Init => ProbeInv
  BY DEF Init, ProbeInv, HalfOpenProbed
<1>2. ProbeInv /\ [Next]_vars => ProbeInv'
  BY ProbeStep, BreakerAssumption
<1>3. ProbeInv => HalfOpenProbed
  BY DEF ProbeInv
<1> QED BY <1>1, <1>2, <1>3, PTL DEF Spec

-----------------------------------------------------------------------------
(***************************************************************************)
(* The failure windows.  The history of counted failures and the window a  *)
(* breaker keeps are compared from their newest ends: what is fresh in the *)
(* one is found, as old, at the same distance from the end of the other.   *)
(***************************************************************************)

\* The entry at distance p from the newest.
Back(s, p) == s[Len(s) - p]

\* Every age of the history under the bound is in the window.
Covers(window, past, bound) ==
    \A p \in 0..Len(past) - 1 :
        Back(past, p) <= bound
        => p < Len(window) /\ Back(window, p) = Back(past, p)

\* Entries of a sequence over m are in m.
LEMMA EntryOf ==
    ASSUME NEW m, NEW s \in Seq(m), NEW k \in 1..Len(s)
    PROVE  s[k] \in m
OBVIOUS

\* Pruning keeps a suffix that begins at or before every fresh position.
LEMMA PrunedIs ==
    ASSUME NEW bound \in Nat, NEW s \in Seq(0..bound), NEW fresh \in SUBSET DOMAIN s
    PROVE  /\ Pruned(s, fresh) \in Seq(0..bound)
           /\ Len(Pruned(s, fresh)) <= Len(s)
           /\ \A p \in 0..Len(Pruned(s, fresh)) - 1 :
                 Back(Pruned(s, fresh), p) = Back(s, p)
           /\ \A p \in 0..Len(s) - 1 :
                 Len(s) - p \in fresh => p < Len(Pruned(s, fresh))
<1> DEFINE Stops(n) == 1..n \cap fresh = {} /\ (n = Len(s) \/ n + 1 \in fresh)
<1>1. \E n \in 0..Len(s) : Stops(n)
  <2>1. CASE fresh = {}
    BY <2>1
  <2>2. CASE fresh # {}
    <3>1. fresh \in SUBSET Nat OBVIOUS
    <3>2. PICK m \in fresh : \A k \in fresh : m <= k
      BY <2>2, <3>1, LeastNat
    <3>3. m \in 1..Len(s) OBVIOUS
    <3>4. m - 1 \in 0..Len(s) /\ Stops(m - 1)
      BY <3>1, <3>2, <3>3
    <3> QED BY <3>4
  <2> QED BY <2>1, <2>2
<1> DEFINE n == Popped(s, fresh)
<1>2. n \in 0..Len(s) /\ Stops(n)
  BY <1>1 DEF Popped
<1> HIDE DEF n
<1>3. Pruned(s, fresh) = SubSeq(s, n + 1, Len(s))
  BY DEF Pruned, n
<1>4. /\ SubSeq(s, n + 1, Len(s)) \in Seq(0..bound)
      /\ Len(SubSeq(s, n + 1, Len(s))) = Len(s) - n
      /\ \A k \in 1..Len(s) - n : SubSeq(s, n + 1, Len(s))[k] = s[n + k]
  BY <1>2
<1>5. \A p \in 0..Len(s) - 1 : Len(s) - p \in fresh => p < Len(s) - n
  BY <1>2, SMTT(30)
<1>6. ASSUME NEW p \in 0..Len(s) - n - 1
      PROVE  Back(Pruned(s, fresh), p) = Back(s, p)
  <2>1. Len(s) - n - p \in 1..Len(s) - n /\ n + (Len(s) - n - p) = Len(s) - p
    BY <1>2
  <2> QED BY <2>1, <1>3, <1>4 DEF Back
<1> QED BY <1>2, <1>3, <1>4, <1>5, <1>6, SMTT(30)

\* Newest keeps the entries nearest to the end.
LEMMA NewestIs ==
    ASSUME BreakerAssumption, NEW bound \in Nat, NEW s \in Seq(0..bound)
    PROVE  /\ Newest(s) \in Seq(0..bound)
           /\ Len(Newest(s)) <= Threshold /\ Len(Newest(s)) <= Len(s)
           /\ Len(s) <= Threshold => Len(Newest(s)) = Len(s)
           /\ Len(s) >= Threshold => Len(Newest(s)) = Threshold
           /\ \A p \in 0..Len(Newest(s)) - 1 : Back(Newest(s), p) = Back(s, p)
<1>1. Threshold \in Nat \ {0} BY DEF BreakerAssumption
<1>2. CASE Len(s) <= Threshold
  BY <1>1, <1>2 DEF Newest
<1>3. CASE Len(s) > Threshold
  <2> DEFINE m == Len(s) - Threshold
  <2>1. Newest(s) = SubSeq(s, m + 1, Len(s))
    BY <1>1, <1>3 DEF Newest
  <2>2. /\ SubSeq(s, m + 1, Len(s)) \in Seq(0..bound)
        /\ Len(SubSeq(s, m + 1, Len(s))) = Threshold
        /\ \A k \in 1..Threshold : SubSeq(s, m + 1, Len(s))[k] = s[m + k]
    BY <1>1, <1>3
  <2>3. ASSUME NEW p \in 0..Threshold - 1
        PROVE  Back(Newest(s), p) = Back(s, p)
    <3>1. Threshold - p \in 1..Threshold /\ m + (Threshold - p) = Len(s) - p
      BY <1>1
    <3> QED BY <2>1, <2>2, <3>1 DEF Back
  <2>4. Newest(s) \in Seq(0..bound) /\ Len(Newest(s)) = Threshold
    BY <2>1, <2>2
  <2>5. Len(s) \in Nat
    OBVIOUS
  <2> QED BY <1>1, <1>3, <2>3, <2>4, <2>5
<1> QED BY <1>1, <1>2, <1>3

\* A failure that is noted in both leaves the window covering the history.
LEMMA CoversAppend ==
    ASSUME NEW m \in Nat, NEW w \in Seq(0..m), NEW past \in Seq(0..m),
           NEW bound \in Nat, Covers(w, past, bound)
    PROVE  Covers(Append(Pruned(w, {k \in DOMAIN w : w[k] <= bound}), 0),
                  Append(past, 0), bound)
<1> DEFINE fresh == {k \in DOMAIN w : w[k] <= bound}
           v == Pruned(w, fresh)
<1>1. fresh \in SUBSET DOMAIN w OBVIOUS
<1>2. /\ v \in Seq(0..m) /\ Len(v) <= Len(w)
      /\ \A p \in 0..Len(v) - 1 : Back(v, p) = Back(w, p)
      /\ \A p \in 0..Len(w) - 1 : Len(w) - p \in fresh => p < Len(v)
  BY <1>1, PrunedIs
<1> HIDE DEF v
<1> SUFFICES ASSUME NEW p \in 0..Len(Append(past, 0)) - 1,
                    Back(Append(past, 0), p) <= bound
             PROVE  /\ p < Len(Append(v, 0))
                    /\ Back(Append(v, 0), p) = Back(Append(past, 0), p)
  BY DEF Covers, v
<1>3. Len(Append(past, 0)) = Len(past) + 1 /\ Len(Append(v, 0)) = Len(v) + 1
  BY <1>2
<1>4. CASE p = 0
  BY <1>2, <1>3, <1>4 DEF Back
<1>5. CASE p # 0
  <2>1. p - 1 \in 0..Len(past) - 1
    BY <1>3, <1>5
  <2>2. Back(Append(past, 0), p) = Back(past, p - 1)
    BY <1>3, <2>1, SMTT(30) DEF Back
  <2>3. p - 1 < Len(w) /\ Back(w, p - 1) = Back(past, p - 1)
    BY <2>1, <2>2 DEF Covers
  <2>4. Len(w) - (p - 1) \in fresh
    BY <2>1, <2>2, <2>3, SMTT(30) DEF Back
  <2>5. p - 1 < Len(v) /\ Back(v, p - 1) = Back(w, p - 1)
    BY <1>2, <2>1, <2>3, <2>4, SMTT(30)
  <2>6. Back(Append(v, 0), p) = Back(v, p - 1)
    BY <1>2, <1>3, <2>1, <2>5 DEF Back
  <2> QED BY <1>2, <1>3, <2>1, <2>2, <2>3, <2>5, <2>6
<1> QED BY <1>4, <1>5

\* Forgetting the far end of the history, or what the history no longer reaches,
\* changes nothing.
LEMMA CoversNewest ==
    ASSUME BreakerAssumption, NEW m \in Nat, NEW w \in Seq(0..m), NEW past \in Seq(0..m),
           NEW bound \in Nat, Covers(w, past, bound)
    PROVE  Covers(w, Newest(past), bound) /\ Covers(Newest(w), Newest(past), bound)
<1>1. Threshold \in Nat \ {0} BY DEF BreakerAssumption
<1>2. /\ Newest(past) \in Seq(0..m)
      /\ Len(Newest(past)) <= Threshold /\ Len(Newest(past)) <= Len(past)
      /\ \A p \in 0..Len(Newest(past)) - 1 : Back(Newest(past), p) = Back(past, p)
  BY NewestIs
<1>3. /\ Newest(w) \in Seq(0..m)
      /\ Len(w) <= Threshold => Len(Newest(w)) = Len(w)
      /\ Len(w) >= Threshold => Len(Newest(w)) = Threshold
      /\ \A p \in 0..Len(Newest(w)) - 1 : Back(Newest(w), p) = Back(w, p)
  BY NewestIs
<1>4. Covers(w, Newest(past), bound)
  BY <1>2, SMTT(30) DEF Covers
<1>5. ASSUME NEW p \in 0..Len(Newest(past)) - 1, Back(Newest(past), p) <= bound
      PROVE  p < Len(Newest(w)) /\ Back(Newest(w), p) = Back(Newest(past), p)
  <2>1. p < Len(w) /\ Back(w, p) = Back(Newest(past), p)
    BY <1>4, <1>5 DEF Covers
  <2>2. p < Threshold /\ p \in Nat BY <1>1, <1>2
  <2>3. p < Len(Newest(w)) BY <1>1, <1>3, <2>1, <2>2
  <2>4. p \in 0..Len(Newest(w)) - 1 BY <1>3, <2>2, <2>3
  <2> QED BY <1>3, <2>1, <2>3, <2>4
<1>6. Covers(Newest(w), Newest(past), bound)
  BY <1>5 DEF Covers
<1> QED BY <1>4, <1>6

\* What time does to a sequence of ages.
LEMMA AllOlderIs ==
    ASSUME NEW m \in Nat, NEW s \in Seq(0..m)
    PROVE  /\ AllOlder(s, m) \in Seq(0..m) /\ Len(AllOlder(s, m)) = Len(s)
           /\ \A k \in 1..Len(s) : AllOlder(s, m)[k] = Older(s[k], m)
           /\ \A p \in 0..Len(s) - 1 :
                 /\ Back(s, p) \in 0..m
                 /\ Back(AllOlder(s, m), p) = Older(Back(s, p), m)
<1>1. DOMAIN AllOlder(s, m) = 1..Len(s) /\ Len(s) \in Nat
  BY DEF AllOlder
<1>2. \A k \in 1..Len(s) : AllOlder(s, m)[k] = Older(s[k], m) /\ s[k] \in 0..m
  BY DEF AllOlder
<1>3. \A k \in 1..Len(s) : Older(s[k], m) \in 0..m
  BY <1>2, OlderStays
<1>4. AllOlder(s, m) \in [1..Len(s) -> 0..m]
  BY <1>1, <1>2, <1>3 DEF AllOlder
<1>5. AllOlder(s, m) \in Seq(0..m) /\ Len(AllOlder(s, m)) = Len(s)
  BY <1>1, <1>4
<1>6. ASSUME NEW p \in 0..Len(s) - 1
      PROVE  /\ Back(s, p) \in 0..m
             /\ Back(AllOlder(s, m), p) = Older(Back(s, p), m)
  <2>1. Len(s) - p \in 1..Len(s) BY <1>1
  <2> QED BY <2>1, <1>2, <1>5 DEF Back
<1> QED BY <1>2, <1>5, <1>6

\* Ages move together, and stop where none is fresh any more.
LEMMA CoversOlder ==
    ASSUME NEW m \in Nat, NEW w \in Seq(0..m), NEW past \in Seq(0..m),
           NEW bound \in Nat, bound < m, Covers(w, past, bound)
    PROVE  Covers(AllOlder(w, m), AllOlder(past, m), bound)
<1> SUFFICES ASSUME NEW p \in 0..Len(AllOlder(past, m)) - 1,
                    Back(AllOlder(past, m), p) <= bound
             PROVE  /\ p < Len(AllOlder(w, m))
                    /\ Back(AllOlder(w, m), p) = Back(AllOlder(past, m), p)
  BY DEF Covers
<1>1. /\ p \in 0..Len(past) - 1 /\ Back(past, p) \in 0..m
      /\ Back(AllOlder(past, m), p) = Older(Back(past, p), m)
  BY AllOlderIs
<1>2. Back(past, p) <= bound
  BY <1>1 DEF Older
<1>3. p < Len(w) /\ Back(w, p) = Back(past, p)
  BY <1>1, <1>2 DEF Covers
<1>4. p \in 0..Len(w) - 1
  BY <1>1, <1>3
<1> QED BY <1>1, <1>3, <1>4, AllOlderIs

\* A history covered by a short window has few fresh entries.
LEMMA CoveredCount ==
    ASSUME NEW m \in Nat, NEW w \in Seq(0..m), NEW past \in Seq(0..m),
           NEW bound \in Nat, Covers(w, past, bound)
    PROVE  Cardinality({k \in DOMAIN past : past[k] <= bound}) <= Len(w)
<1> DEFINE fresh == {k \in DOMAIN past : past[k] <= bound}
           near == (Len(past) - Len(w) + 1)..Len(past)
<1>1. fresh \subseteq near
  <2> SUFFICES ASSUME NEW k \in fresh PROVE k \in near
    OBVIOUS
  <2>1. k \in 1..Len(past) /\ Len(past) - k \in 0..Len(past) - 1 BY SMTT(30)
  <2>2. Back(past, Len(past) - k) = past[k] BY <2>1 DEF Back
  <2>3. Len(past) - k < Len(w) BY <2>1, <2>2 DEF Covers
  <2> QED BY <2>1, <2>3
<1>2. IsFiniteSet(near) /\ Cardinality(near) = Len(w)
  <2>1. Len(past) - Len(w) + 1 \in Int /\ Len(past) \in Int /\ Len(w) \in Nat
    OBVIOUS
  <2>2. /\ IsFiniteSet(near)
        /\ Cardinality(near) = IF Len(past) - Len(w) + 1 > Len(past) THEN 0
             ELSE Len(past) - (Len(past) - Len(w) + 1) + 1
    BY <2>1, FS_Interval
  <2> QED BY <2>1, <2>2
<1> QED BY <1>1, <1>2, FS_Subset

-----------------------------------------------------------------------------
(* The window of one instance.                                             *)

TripTypes ==
    /\ mode \in [Instance -> {"closed", "open", "half"}]
    /\ failures \in [Instance -> Seq(0..Window + 1)]
    /\ counted \in [Instance -> Seq(0..Window + 1)]

\* The window of a closed circuit is below the threshold and misses no failure
\* since the last success that is still fresh.
WindowSound(i) ==
    mode[i] = "closed"
    => Len(failures[i]) < Threshold /\ Covers(failures[i], counted[i], Window)

TripInv == TripTypes /\ \A i \in Instance : WindowSound(i)

\* A report of another instance, and a step that reports nothing.
LEMMA OtherWindow ==
    ASSUME NEW i \in Instance, WindowSound(i), mode'[i] = "closed" => mode[i] = "closed",
           failures'[i] = failures[i], counted'[i] = counted[i]
    PROVE  WindowSound(i)'
BY DEF WindowSound

\* A step that neither records nor lets time pass keeps TripInv.
LEMMA QuietWindows ==
    ASSUME TripInv, [Next]_vars, ~Tick, \A c \in Caller : ~Records(c)
    PROVE  TripInv'
<1>1. UNCHANGED <<failures, counted>>
  BY DEF Next, vars, local, history, Asks, ReservesProbe, Refused, AsksShared,
     ProbesShared, ProbeErrs, DispatchesDirectly, Answers, EndsUnobserved, Shares, ShareErrs
<1>2. \/ UNCHANGED mode
      \/ \E i \in Instance : mode' = [mode EXCEPT ![i] = "half"]
  BY BreakerAssumption DEF BreakerAssumption, Next, vars, local, history, Asks,
     ReservesProbe, Refused, AsksShared, ProbesShared, ProbeErrs, DispatchesDirectly,
     Answers, EndsUnobserved, Shares, ShareErrs
<1>3. /\ mode' \in [Instance -> {"closed", "open", "half"}]
      /\ \A i \in Instance : mode'[i] = "closed" => mode[i] = "closed"
  BY <1>2 DEF TripInv, TripTypes
<1> QED BY <1>1, <1>3, OtherWindow DEF TripInv, TripTypes

\* The passing of time keeps TripInv.
LEMMA TickWindows ==
    ASSUME BreakerAssumption, TripInv, Tick
    PROVE  TripInv'
<1>1. Window + 1 \in Nat /\ Window \in Nat /\ Window < Window + 1
  BY DEF BreakerAssumption
<1>2. \A i \in Instance :
        /\ failures[i] \in Seq(0..Window + 1) /\ counted[i] \in Seq(0..Window + 1)
        /\ failures'[i] = AllOlder(failures[i], Window + 1)
        /\ counted'[i] = AllOlder(counted[i], Window + 1)
  BY DEF Tick, TripInv, TripTypes
<1>3. \A i \in Instance :
        /\ failures'[i] \in Seq(0..Window + 1) /\ Len(failures'[i]) = Len(failures[i])
        /\ counted'[i] \in Seq(0..Window + 1)
  <2> TAKE i \in Instance
  <2>1. /\ AllOlder(failures[i], Window + 1) \in Seq(0..Window + 1)
        /\ Len(AllOlder(failures[i], Window + 1)) = Len(failures[i])
        /\ AllOlder(counted[i], Window + 1) \in Seq(0..Window + 1)
    BY <1>1, <1>2, AllOlderIs
  <2> QED BY <1>2, <2>1
<1>4. TripTypes'
  <2>1. DOMAIN failures' = Instance /\ DOMAIN counted' = Instance /\ mode' = mode
    BY DEF Tick
  <2>2. failures' = [i \in Instance |-> failures'[i]] /\ counted' = [i \in Instance |-> counted'[i]]
    BY DEF Tick
  <2> QED BY <1>3, <2>1, <2>2 DEF TripInv, TripTypes
<1>5. ASSUME NEW i \in Instance
      PROVE  WindowSound(i)'
  <2> SUFFICES ASSUME mode[i] = "closed"
               PROVE  /\ Len(failures'[i]) < Threshold
                      /\ Covers(failures'[i], counted'[i], Window)
    BY DEF WindowSound, Tick
  <2>1. Len(failures[i]) < Threshold /\ Covers(failures[i], counted[i], Window)
    BY DEF TripInv, WindowSound
  <2> QED BY <1>1, <1>2, <1>3, <2>1, CoversOlder
<1> QED BY <1>4, <1>5 DEF TripInv

\* Trimmed is a pruned window and the new failure.
LEMMA TrimmedIs ==
    ASSUME BreakerAssumption, NEW w \in Seq(0..Window + 1)
    PROVE  /\ Trimmed(w) \in Seq(0..Window + 1)
           /\ Trimmed(w) = Append(Pruned(w, {k \in DOMAIN w : w[k] <= Window}), 0)
<1>1. Window + 1 \in Nat BY DEF BreakerAssumption
<1> DEFINE fresh == {k \in DOMAIN w : w[k] <= Window}
<1>2. Trimmed(w) = Append(Pruned(w, fresh), 0)
  BY DEF Trimmed, Fresh
<1>3. Pruned(w, fresh) \in Seq(0..Window + 1)
  <2>1. fresh \in SUBSET DOMAIN w OBVIOUS
  <2> QED BY <1>1, <2>1, PrunedIs
<1> QED BY <1>1, <1>2, <1>3

\* A recorded outcome keeps TripInv.
LEMMA ReportWindows ==
    ASSUME BreakerAssumption, TripInv, NEW c \in Caller, Records(c)
    PROVE  TripInv'
<1> DEFINE i == On[c]
<1>1. i \in Instance BY DEF BreakerAssumption
<1>2. Window + 1 \in Nat /\ Window \in Nat /\ Threshold \in Nat \ {0}
  BY DEF BreakerAssumption
<1>3. failures[i] \in Seq(0..Window + 1) /\ counted[i] \in Seq(0..Window + 1)
  BY <1>1 DEF TripInv, TripTypes
<1>4. ASSUME NEW f \in Seq(0..Window + 1), NEW g \in Seq(0..Window + 1),
             NEW m \in {"closed", "open", "half"},
             failures' = [failures EXCEPT ![i] = f],
             counted' = [counted EXCEPT ![i] = g],
             mode' = [mode EXCEPT ![i] = m],
             m = "closed" => Len(f) < Threshold /\ Covers(f, g, Window)
      PROVE  TripInv'
  <2>1. TripTypes' BY <1>1, <1>4 DEF TripInv, TripTypes
  <2>2. \A k \in Instance \ {i} : WindowSound(k)'
    BY <1>1, <1>4, OtherWindow DEF TripInv, TripTypes
  <2>3. failures'[i] = f /\ counted'[i] = g /\ mode'[i] = m
    BY <1>1, <1>4 DEF TripInv, TripTypes
  <2>4. WindowSound(i)' BY <1>4, <2>3 DEF WindowSound
  <2> QED BY <2>1, <2>2, <2>4 DEF TripInv
<1>5. CASE result[c] = "ok"
  <2>1. /\ failures' = [failures EXCEPT ![i] = <<>>]
        /\ counted' = [counted EXCEPT ![i] = <<>>]
        /\ mode' = [mode EXCEPT ![i] = "closed"]
    BY <1>5 DEF Records, RecordSuccess
  <2>2. << >> \in Seq(0..Window + 1) /\ Len(<< >>) < Threshold /\ Covers(<< >>, << >>, Window)
    BY <1>2 DEF Covers
  <2> QED BY <1>4, <2>1, <2>2
<1>6. CASE result[c] = "uncounted"
  <2>1. /\ UNCHANGED <<failures, counted>>
        /\ mode' = [mode EXCEPT ![i] = IF mode[i] = "half" THEN "open" ELSE mode[i]]
    BY <1>6 DEF Records, RecordUncounted
  <2>2. /\ mode' \in [Instance -> {"closed", "open", "half"}]
        /\ \A k \in Instance : mode'[k] = "closed" => mode[k] = "closed"
    BY <1>1, <2>1 DEF TripInv, TripTypes
  <2> QED BY <2>1, <2>2, OtherWindow DEF TripInv, TripTypes
<1>7. CASE result[c] = "counted"
  <2> DEFINE g == Newest(Append(counted[i], 0))
             w == Trimmed(failures[i])
  <2>1. RecordCounted(i) /\ counted' = [counted EXCEPT ![i] = g]
    BY <1>7 DEF Records
  <2>2. Append(counted[i], 0) \in Seq(0..Window + 1)
    BY <1>2, <1>3
  <2>3. g \in Seq(0..Window + 1)
    BY <1>2, <2>2, NewestIs
  <2>4. w \in Seq(0..Window + 1)
    BY <1>3, TrimmedIs
  <2>5. CASE mode[i] # "closed" \/ Len(w) >= Threshold
    <3>1. /\ mode' = [mode EXCEPT ![i] = "open"]
          /\ \/ UNCHANGED failures
             \/ failures' = [failures EXCEPT ![i] = <<>>]
      BY <2>1, <2>5 DEF RecordCounted, Reopen
    <3>2. \E f \in Seq(0..Window + 1) : failures' = [failures EXCEPT ![i] = f]
      <4>1. CASE UNCHANGED failures
        <5>1. failures = [failures EXCEPT ![i] = failures[i]]
          BY <1>1 DEF TripInv, TripTypes
        <5> QED BY <1>3, <4>1, <5>1
      <4>2. CASE failures' = [failures EXCEPT ![i] = <<>>]
        <5>1. << >> \in Seq(0..Window + 1) OBVIOUS
        <5> QED BY <4>2, <5>1
      <4> QED BY <3>1, <4>1, <4>2
    <3>3. PICK f \in Seq(0..Window + 1) : failures' = [failures EXCEPT ![i] = f]
      BY <3>2
    <3> QED BY <1>4, <2>1, <2>3, <3>1, <3>3
  <2>6. CASE mode[i] = "closed" /\ ~(Len(w) >= Threshold)
    <3>1. failures' = [failures EXCEPT ![i] = w] /\ UNCHANGED mode
      BY <2>1, <2>6 DEF RecordCounted
    <3>2. mode' = [mode EXCEPT ![i] = "closed"]
      BY <1>1, <2>6, <3>1 DEF TripInv, TripTypes
    <3>3. Covers(failures[i], counted[i], Window)
      BY <1>1, <2>6 DEF TripInv, WindowSound
    <3>4. Covers(w, Append(counted[i], 0), Window)
      <4>1. w = Append(Pruned(failures[i], {k \in DOMAIN failures[i] :
                                               failures[i][k] <= Window}), 0)
        BY <1>3, TrimmedIs
      <4>2. Covers(Append(Pruned(failures[i], {k \in DOMAIN failures[i] :
                                               failures[i][k] <= Window}), 0),
                   Append(counted[i], 0), Window)
        BY <1>2, <1>3, <3>3, CoversAppend
      <4> HIDE DEF w
      <4> QED BY <4>1, <4>2
    <3>5. Covers(w, g, Window)
      BY <1>2, <2>2, <2>4, <3>4, CoversNewest
    <3>6. Len(w) < Threshold
      BY <1>2, <2>4, <2>6
    <3> HIDE DEF w, g
    <3> QED BY <1>4, <2>1, <2>3, <2>4, <3>1, <3>2, <3>5, <3>6
  <2> QED BY <2>5, <2>6
<1> QED BY <1>5, <1>6, <1>7 DEF Records

\* record_failure loses none of the failures reported since the last success: a
\* closed circuit has seen fewer of them in the window than the threshold.
THEOREM TripsInTimeHolds == Spec => []TripsInTime
<1>1. Init => TripInv
  <2> SUFFICES ASSUME Init PROVE TripInv
    OBVIOUS
  <2>1. TripTypes BY DEF Init, TripTypes
  <2>2. ASSUME NEW i \in Instance PROVE WindowSound(i)
    <3>1. failures[i] = << >> /\ counted[i] = << >> /\ Len(<< >>) = 0
      BY DEF Init
    <3> QED BY <3>1, BreakerAssumption DEF WindowSound, Covers, BreakerAssumption
  <2> QED BY <2>1, <2>2 DEF TripInv
<1>2. TripInv /\ [Next]_vars => TripInv'
  BY BreakerAssumption, QuietWindows, TickWindows, ReportWindows
<1>3. TripInv => TripsInTime
  <2> SUFFICES ASSUME TripInv, NEW i \in Instance, mode[i] = "closed"
               PROVE  Cardinality({k \in DOMAIN counted[i] : counted[i][k] <= Window})
                      < Threshold
    BY DEF TripsInTime
  <2>1. Window + 1 \in Nat /\ Window \in Nat /\ Threshold \in Nat
    BY BreakerAssumption DEF BreakerAssumption
  <2>2. failures[i] \in Seq(0..Window + 1) /\ counted[i] \in Seq(0..Window + 1)
    BY DEF TripInv, TripTypes
  <2>3. Len(failures[i]) < Threshold /\ Covers(failures[i], counted[i], Window)
    BY DEF TripInv, WindowSound
  <2>4. Cardinality({k \in DOMAIN counted[i] : counted[i][k] <= Window}) <= Len(failures[i])
    BY <2>1, <2>2, <2>3, CoveredCount
  <2>5. IsFiniteSet({k \in DOMAIN counted[i] : counted[i][k] <= Window})
    <3>0. Len(counted[i]) \in Int /\ 1 \in Int BY <2>2
    <3>1. IsFiniteSet(1..Len(counted[i])) BY <3>0, FS_Interval
    <3>2. {k \in DOMAIN counted[i] : counted[i][k] <= Window} \subseteq 1..Len(counted[i])
      BY <2>2
    <3> QED BY <3>1, <3>2, FS_Subset
  <2>6. Cardinality({k \in DOMAIN counted[i] : counted[i][k] <= Window}) \in Nat
    BY <2>5, FS_CardinalityType
  <2> QED BY <2>1, <2>2, <2>3, <2>4, <2>6
<1> QED BY <1>1, <1>2, <1>3, PTL DEF Spec

-----------------------------------------------------------------------------
(* The window of the fleet.                                                *)

FleetTypes ==
    /\ sfailures \in Seq(0..Window) /\ fleet \in Seq(0..Window)
    /\ sopen \in {None} \cup 0..MarkerTtl
    /\ Len(fleet) <= Threshold

\* The last entry is the youngest.
NewestLast(s) == \A p \in 0..Len(s) - 1 : Back(s, 0) <= Back(s, p)

\* The history is at the threshold and still fresh.
Full(s) == Len(s) = Threshold /\ \A p \in 0..Threshold - 1 : Back(s, p) <= Window - 1

\* The open marker is no older than the last failure of a full history.
Marked ==
    Window <= MarkerTtl /\ Full(fleet) => sopen # None /\ sopen <= Back(fleet, 0)

FleetInv ==
    /\ FleetTypes
    /\ NewestLast(fleet)
    /\ Covers(sfailures, fleet, Window - 1)
    /\ Marked

\* A step that neither shares nor lets time pass keeps FleetInv.
LEMMA QuietFleet ==
    ASSUME FleetInv, [Next]_vars, ~Tick, \A c \in Caller : ~Shares(c)
    PROVE  FleetInv'
<1>1. UNCHANGED <<sfailures, fleet, sopen>>
  <2>1. CASE UNCHANGED vars
    BY <2>1 DEF vars, shared, history
  <2>2. ASSUME NEW c \in Caller, Records(c)
        PROVE  UNCHANGED <<sfailures, fleet, sopen>>
    BY <2>2 DEF Records, shared
  <2> QED BY <2>1, <2>2 DEF Next, shared, history, Asks, ReservesProbe, Refused, AsksShared,
     ProbesShared, ProbeErrs, DispatchesDirectly, Answers, EndsUnobserved, ShareErrs
<1> QED BY <1>1 DEF FleetInv, FleetTypes, Marked

\* What is in the window after a tick was one younger before.
LEMMA OlderWithin ==
    ASSUME NEW w \in Nat \ {0}, NEW a \in 0..w, Older(a, w) <= w - 1
    PROVE  a + 1 = Older(a, w) /\ a + 1 <= w - 1
BY DEF Older

\* The passing of time keeps FleetInv.
LEMMA TickFleet ==
    ASSUME BreakerAssumption, FleetInv, Tick
    PROVE  FleetInv'
<1>1. /\ Window \in Nat \ {0} /\ Threshold \in Nat \ {0} /\ MarkerTtl \in Nat
      /\ Window - 1 \in Nat
  BY DEF BreakerAssumption, MarkerTtl
<1>2. sfailures \in Seq(0..Window) /\ fleet \in Seq(0..Window)
  BY DEF FleetInv, FleetTypes
<1>3. /\ fleet' = AllOlder(fleet, Window) /\ sopen' = Expires(sopen, MarkerTtl)
      /\ sfailures' = IF sfailures # <<>> /\ sfailures[Len(sfailures)] + 1 >= Window
                      THEN <<>> ELSE AllOlder(sfailures, Window)
  BY DEF Tick
<1>4. /\ fleet' \in Seq(0..Window) /\ Len(fleet') = Len(fleet)
      /\ \A p \in 0..Len(fleet) - 1 :
            Back(fleet, p) \in 0..Window /\ Back(fleet', p) = Older(Back(fleet, p), Window)
  BY <1>1, <1>2, <1>3, AllOlderIs
<1>5. FleetTypes'
  <2>1. AllOlder(sfailures, Window) \in Seq(0..Window)
    BY <1>1, <1>2, AllOlderIs
  <2>2. << >> \in Seq(0..Window) OBVIOUS
  <2>3. sfailures' \in Seq(0..Window)
    BY <1>3, <2>1, <2>2
  <2>4. sopen' \in {None} \cup 0..MarkerTtl
    BY <1>1, <1>3 DEF FleetInv, FleetTypes, Expires, None
  <2> QED BY <1>4, <2>3, <2>4 DEF FleetInv, FleetTypes, MarkerTtl
<1>6. NewestLast(fleet')
  <2> SUFFICES ASSUME NEW p \in 0..Len(fleet) - 1
               PROVE  Back(fleet', 0) <= Back(fleet', p)
    BY <1>4 DEF NewestLast
  <2>1. 0 \in 0..Len(fleet) - 1 BY <1>2
  <2>2. Back(fleet, 0) <= Back(fleet, p) BY DEF FleetInv, NewestLast
  <2> QED BY <1>1, <1>4, <2>1, <2>2, SMTT(30) DEF Older
<1>7. Covers(sfailures', fleet', Window - 1)
  <2>1. CASE sfailures # <<>> /\ sfailures[Len(sfailures)] + 1 >= Window
    <3> SUFFICES ASSUME NEW p \in 0..Len(fleet') - 1, Back(fleet', p) <= Window - 1
                 PROVE  FALSE
      BY DEF Covers
    <3>1. p \in 0..Len(fleet) - 1 /\ 0 \in 0..Len(fleet) - 1 BY <1>2, <1>4
    <3>2. Back(fleet, p) + 1 <= Window - 1
      <4>1. /\ Window \in Nat \ {0} /\ Back(fleet, p) \in 0..Window
            /\ Older(Back(fleet, p), Window) <= Window - 1
        BY <1>1, <1>4, <3>1
      <4> QED BY ONLY <4>1, OlderWithin
    <3>3. Back(fleet, 0) <= Back(fleet, p) BY <3>1 DEF FleetInv, NewestLast
    <3>4. Back(fleet, 0) <= Window - 1 BY <1>1, <1>4, <3>1, <3>2, <3>3
    <3>5. Back(sfailures, 0) = Back(fleet, 0)
      BY <3>1, <3>4 DEF FleetInv, Covers
    <3>6. Back(sfailures, 0) = sfailures[Len(sfailures)]
      BY <1>2 DEF Back
    <3> QED BY <1>1, <1>4, <2>1, <3>1, <3>2, <3>3, <3>5, <3>6, SMTT(30)
  <2>2. CASE ~(sfailures # <<>> /\ sfailures[Len(sfailures)] + 1 >= Window)
    <3>1. Covers(sfailures, fleet, Window - 1) BY DEF FleetInv
    <3>2. Window - 1 < Window BY <1>1
    <3>3. Covers(AllOlder(sfailures, Window), AllOlder(fleet, Window), Window - 1)
      BY <1>1, <1>2, <3>1, <3>2, CoversOlder
    <3> QED BY <1>3, <2>2, <3>3
  <2> QED BY <2>1, <2>2
<1>8. Marked'
  <2> SUFFICES ASSUME Window <= MarkerTtl, Full(fleet')
               PROVE  sopen' # None /\ sopen' <= Back(fleet', 0)
    BY DEF Marked, MarkerTtl
  <2>1. Len(fleet) = Threshold /\ 0 \in 0..Threshold - 1
    BY <1>1, <1>4 DEF Full
  <2>2. \A p \in 0..Threshold - 1 :
          Back(fleet, p) + 1 = Back(fleet', p) /\ Back(fleet, p) + 1 <= Window - 1
    <3> SUFFICES ASSUME NEW p \in 0..Threshold - 1
                 PROVE  /\ Back(fleet, p) + 1 = Back(fleet', p)
                        /\ Back(fleet, p) + 1 <= Window - 1
      OBVIOUS
    <3>1. Back(fleet', p) <= Window - 1
      BY DEF Full
    <3>2. Back(fleet, p) \in 0..Window /\ Back(fleet', p) = Older(Back(fleet, p), Window)
      BY <1>4, <2>1
    <3>3. Older(Back(fleet, p), Window) <= Window - 1
      BY <3>1, <3>2
    <3>4. Window \in Nat \ {0}
      BY <1>1
    <3>5. /\ Back(fleet, p) + 1 = Older(Back(fleet, p), Window)
          /\ Back(fleet, p) + 1 <= Window - 1
      BY ONLY <3>2, <3>3, <3>4, OlderWithin
    <3> QED BY <3>2, <3>5
  <2>3. Full(fleet)
    BY <1>1, <1>4, <2>1, <2>2 DEF Full
  <2>4. sopen # None /\ sopen <= Back(fleet, 0)
    BY <2>3 DEF FleetInv, Marked
  <2>5. sopen \in 0..MarkerTtl BY <2>4 DEF FleetInv, FleetTypes
  <2>6. Back(fleet, 0) \in 0..Window BY <1>4, <2>1
  <2>7. sopen' = sopen + 1
    BY <1>1, <1>3, <2>1, <2>2, <2>4, <2>5, <2>6 DEF Expires
  <2> QED BY <2>1, <2>2, <2>4, <2>5, <2>6, <2>7 DEF None
<1> QED BY <1>5, <1>6, <1>7, <1>8 DEF FleetInv

\* An outcome shared with the fleet keeps FleetInv.
LEMMA ShareFleet ==
    ASSUME BreakerAssumption, FleetInv, NEW c \in Caller, Shares(c)
    PROVE  FleetInv'
<1>1. /\ Window \in Nat \ {0} /\ Threshold \in Nat \ {0} /\ MarkerTtl \in Nat
      /\ Window - 1 \in Nat
  BY DEF BreakerAssumption, MarkerTtl
<1>2. sfailures \in Seq(0..Window) /\ fleet \in Seq(0..Window)
  BY DEF FleetInv, FleetTypes
<1>3. CASE result[c] = "counted"
  <2> DEFINE past == Append(fleet, 0)
             w == SharedTrimmed(sfailures)
             fresh == {k \in DOMAIN sfailures : sfailures[k] <= Window - 1}
  <2>1. /\ fleet' = Newest(past) /\ sfailures' = Newest(w)
        /\ sopen' = IF Len(Newest(w)) >= Threshold THEN 0 ELSE sopen
    BY <1>3 DEF Shares, SharedObserve, SharedFail, SharedMarker
  <2>2. past \in Seq(0..Window) /\ Len(past) = Len(fleet) + 1
    BY <1>1, <1>2
  <2>3. w = Append(Pruned(sfailures, fresh), 0)
    <3>1. {k \in DOMAIN sfailures : SharedFresh(sfailures[k])} = fresh
      BY <1>1, <1>2 DEF SharedFresh
    <3> QED BY <3>1 DEF SharedTrimmed
  <2>4. w \in Seq(0..Window)
    <3>1. fresh \in SUBSET DOMAIN sfailures OBVIOUS
    <3>2. Pruned(sfailures, fresh) \in Seq(0..Window)
      BY <1>1, <1>2, <3>1, PrunedIs
    <3> QED BY <1>1, <2>3, <3>2
  <2>5. Covers(w, past, Window - 1)
    <3>1. Covers(sfailures, fleet, Window - 1) BY DEF FleetInv
    <3>2. Covers(Append(Pruned(sfailures, {k \in DOMAIN sfailures :
                                               sfailures[k] <= Window - 1}), 0),
                 Append(fleet, 0), Window - 1)
      BY <1>1, <1>2, <3>1, CoversAppend
    <3> HIDE DEF w
    <3> QED BY <2>3, <3>2
  <2> HIDE DEF w, past
  <2>6. Covers(Newest(w), Newest(past), Window - 1)
    BY <1>1, <2>2, <2>4, <2>5, CoversNewest
  <2>7. /\ Newest(past) \in Seq(0..Window) /\ Len(Newest(past)) <= Threshold
        /\ Len(Newest(past)) <= Len(past)
        /\ Len(past) <= Threshold => Len(Newest(past)) = Len(past)
        /\ Len(past) >= Threshold => Len(Newest(past)) = Threshold
        /\ \A p \in 0..Len(Newest(past)) - 1 : Back(Newest(past), p) = Back(past, p)
    BY <1>1, <2>2, NewestIs
  <2>8. Newest(w) \in Seq(0..Window)
    BY <1>1, <2>4, NewestIs
  <2>9. FleetTypes'
    BY <1>1, <2>1, <2>7, <2>8 DEF FleetInv, FleetTypes, MarkerTtl
  <2>10. Back(fleet', 0) = 0 /\ Len(fleet') > 0
    <3>1. Len(Newest(past)) > 0 /\ 0 \in 0..Len(Newest(past)) - 1
      BY <1>1, <1>2, <2>2, <2>7, SMTT(30)
    <3>2. Back(past, 0) = 0 BY <1>2, <2>2 DEF Back, past
    <3> QED BY <2>1, <2>7, <3>1, <3>2
  <2>11. NewestLast(fleet')
    <3> SUFFICES ASSUME NEW p \in 0..Len(fleet') - 1
                 PROVE  Back(fleet', 0) <= Back(fleet', p)
      BY DEF NewestLast
    <3>1. Len(fleet') - p \in 1..Len(fleet') /\ fleet' \in Seq(0..Window)
      BY <2>1, <2>7
    <3>2. Back(fleet', p) \in 0..Window
      BY <3>1 DEF Back
    <3> QED BY <1>1, <2>10, <3>2
  <2>12. Marked'
    <3> SUFFICES ASSUME Full(fleet')
                 PROVE  sopen' = 0
      BY <2>10 DEF Marked, None
    <3>1. Threshold - 1 \in 0..Len(fleet') - 1 /\ Back(fleet', Threshold - 1) <= Window - 1
      BY <1>1 DEF Full
    <3>2. Threshold - 1 < Len(Newest(w))
      BY <2>1, <2>6, <3>1 DEF Covers
    <3>3. Len(Newest(w)) >= Threshold
      BY <1>1, <2>8, <3>2
    <3> QED BY <2>1, <3>3
  <2> QED BY <2>1, <2>6, <2>9, <2>11, <2>12 DEF FleetInv
<1>4. CASE result[c] # "counted"
  <2>1. fleet' = << >> /\ sfailures' = << >> /\ sopen' = None
    BY <1>4 DEF Shares, SharedObserve, SharedHealthy
  <2>2. << >> \in Seq(0..Window) /\ Len(<< >>) = 0 OBVIOUS
  <2>3. FleetTypes' /\ NewestLast(fleet') /\ Covers(sfailures', fleet', Window - 1)
    BY <1>1, <2>1, <2>2 DEF FleetTypes, NewestLast, Covers, MarkerTtl, None
  <2>4. Marked'
    BY <1>1, <2>1, <2>2 DEF Marked, Full
  <2> QED BY <2>3, <2>4 DEF FleetInv
<1> QED BY <1>3, <1>4

\* FAIL_LUA, the expiry of its keys and every probe together: for as long as the
\* failures told to the store since it was last told of health, by a success or by a
\* failure that does not count, are at the threshold and in the window, every instance
\* that asks is told that the target is open.
THEOREM FleetTripsInTimeHolds == Spec => []FleetTripsInTime
<1>1. Init => FleetInv
  <2> SUFFICES ASSUME Init PROVE FleetInv
    OBVIOUS
  <2>1. fleet = << >> /\ sfailures = << >> /\ sopen = None
    BY DEF Init
  <2>2. << >> \in Seq(0..Window) /\ Len(<< >>) = 0 OBVIOUS
  <2>3. Threshold \in Nat \ {0} BY BreakerAssumption DEF BreakerAssumption
  <2>4. FleetTypes /\ NewestLast(fleet) /\ Covers(sfailures, fleet, Window - 1)
    BY <2>1, <2>2, <2>3 DEF FleetTypes, NewestLast, Covers
  <2>5. Marked
    BY <2>1, <2>2, <2>3 DEF Marked, Full
  <2> QED BY <2>4, <2>5 DEF FleetInv
<1>2. FleetInv /\ [Next]_vars => FleetInv'
  BY BreakerAssumption, QuietFleet, TickFleet, ShareFleet
<1>3. FleetInv => FleetTripsInTime
  <2> DEFINE fresh == {k \in DOMAIN fleet : fleet[k] < Window}
  <2> SUFFICES ASSUME FleetInv, Window <= MarkerTtl, Cardinality(fresh) >= Threshold
               PROVE  sopen # None
    BY DEF FleetTripsInTime
  <2>1. Window \in Nat \ {0} /\ Threshold \in Nat \ {0}
    BY BreakerAssumption DEF BreakerAssumption
  <2>2. fleet \in Seq(0..Window) /\ Len(fleet) <= Threshold /\ Len(fleet) \in Nat
    BY DEF FleetInv, FleetTypes
  <2>3. IsFiniteSet(1..Len(fleet)) /\ Cardinality(1..Len(fleet)) = Len(fleet)
    <3>1. /\ IsFiniteSet(1..Len(fleet))
          /\ Cardinality(1..Len(fleet)) = IF 1 > Len(fleet) THEN 0 ELSE Len(fleet) - 1 + 1
      BY <2>2, FS_Interval, SMTT(30)
    <3> QED BY <2>2, <3>1
  <2>4. fresh \subseteq 1..Len(fleet) BY <2>2
  <2>5. /\ IsFiniteSet(fresh) /\ Cardinality(fresh) <= Len(fleet)
        /\ Cardinality(fresh) = Len(fleet) => fresh = 1..Len(fleet)
    BY <2>3, <2>4, FS_Subset
  <2>6. Cardinality(fresh) \in Nat BY <2>5, FS_CardinalityType
  <2>7. Len(fleet) = Threshold /\ fresh = 1..Len(fleet)
    BY <2>1, <2>2, <2>5, <2>6
  <2>8. Full(fleet)
    <3> SUFFICES ASSUME NEW p \in 0..Threshold - 1
                 PROVE  Back(fleet, p) <= Window - 1
      BY <2>7 DEF Full
    <3>0. Len(fleet) - p \in 1..Len(fleet) BY <2>1, <2>2, <2>7
    <3>1. Len(fleet) - p \in fresh BY <3>0, <2>7
    <3>2. fleet[Len(fleet) - p] < Window BY <3>1
    <3>3. fleet[Len(fleet) - p] \in 0..Window
      BY <2>1, <2>2, <3>0, EntryOf
    <3> QED BY <2>1, <3>2, <3>3 DEF Back
  <2> QED BY <2>8 DEF FleetInv, Marked
<1> QED BY <1>1, <1>2, <1>3, PTL DEF Spec
=============================================================================
