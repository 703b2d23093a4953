--------------------------- MODULE RateLimitProofs ---------------------------
(***************************************************************************)
(* Proofs about module RateLimit, for any limits, minute, penalty and      *)
(* delay: the buckets of one process keep the rate in every interval, and  *)
(* no form denies without a cause.                                         *)
(***************************************************************************)
EXTENDS RateLimit, UnitsProofs

-----------------------------------------------------------------------------
(* Types.                                                                  *)

BucketType == [tokens : Nat, last : Nat \cup {Unset}, until : Nat]

\* A caller is served within MaxDelay of reading the clock.
InTime(c) ==
    pc[c] # "idle" => /\ stamp[c] <= now /\ now <= stamp[c] + MaxDelay
                      /\ ~Zero

BucketBounds(d) ==
    /\ bucket[d] \in BucketType
    /\ bucket[d].tokens <= Capacity(d)
    /\ bucket[d].last # Unset => bucket[d].last <= now

RateTypes ==
    /\ conf \in [global : Limits, provider : Limits]
    /\ now \in 0..MaxTime
    /\ DOMAIN bucket = Enabled /\ \A d \in Enabled : BucketBounds(d)
    /\ pc \in [Caller -> {"idle", "asked", "penalizing"}]
    /\ stamp \in [Caller -> Nat] /\ want \in [Caller -> Nat]
    /\ admitted \in [Enabled -> [0..MaxTime -> Nat]]
    /\ \A c \in Caller : InTime(c)

\* What was admitted from a tick on.
Since(d, t) == SumOf([i \in t..MaxTime |-> admitted[d][i]])

\* The time a bucket has been refilled for, counted from the earliest clock that
\* a caller served at t can have read.
Span(last, t) == IF last # Unset /\ last > t - MaxDelay THEN last - t + MaxDelay ELSE 0

\* What was admitted since and what is left were in the bucket or were filled in.
Paid(d, t) ==
    /\ Since(d, t) + bucket[d].tokens <= Capacity(d) + Limit[d] * Span(bucket[d].last, t)
    /\ bucket[d].last = Unset \/ bucket[d].last < t - MaxDelay => Since(d, t) = 0

\* The intervals that are over keep the rate.
Kept(d) ==
    \A t, u \in 0..MaxTime :
        t <= u /\ u < now => SumOf([i \in t..u |-> admitted[d][i]])
                             <= Capacity(d) + Limit[d] * (u - t + MaxDelay)

LocalInv ==
    form = "local" => \A d \in Enabled : Kept(d) /\ \A t \in 0..MaxTime : Paid(d, t)

\* A bucket is full a minute after it was touched, and its penalty is over after
\* the penalty's length.
FillsUp(d) ==
    LET b == bucket[d] IN
    /\ IF b.last = Unset
       THEN b.tokens = 0 \/ (b.tokens = Capacity(d) /\ b.until = 0)
       ELSE \/ b.tokens = Capacity(d)
            \/ b.tokens + Limit[d] * (touched + Minute) >= Capacity(d) + Limit[d] * b.last
    /\ b.until = 0 \/ b.until <= touched + Penalty

FillInv ==
    /\ touched \in Int /\ touched <= now
    /\ \A d \in Enabled : FillsUp(d)

-----------------------------------------------------------------------------
(* Arithmetic.                                                             *)

\* Multiplication by a limit distributes and is monotonic.
LEMMA Product ==
    ASSUME NEW l \in Nat, NEW a \in Int, NEW b \in Int
    PROVE  /\ l * a \in Int /\ l * (a + b) = l * a + l * b
           /\ a >= 0 => l * a >= 0
           /\ a <= b => l * a <= l * b
<1>1. l * a \in Int /\ l * (a + b) = l * a + l * b OBVIOUS
<1>2. \A x \in Int : x >= 0 => l * x >= 0 OBVIOUS
<1>3. ASSUME a <= b PROVE l * a <= l * b
  <2>1. b - a \in Int /\ b - a >= 0 BY <1>3
  <2>2. l * (b - a) >= 0 BY <1>2, <2>1
  <2>3. l * b = l * a + l * (b - a) OBVIOUS
  <2>4. l * a \in Int /\ l * b \in Int /\ l * (b - a) \in Int OBVIOUS
  <2> QED BY <2>2, <2>3, <2>4
<1> QED BY <1>1, <1>2, <1>3

\* An enabled dimension's limit and capacity are numbers.
LEMMA LimitIs ==
    ASSUME RateAssumption, RateTypes, NEW d \in Enabled
    PROVE  /\ d \in Dim /\ Limit[d] \in Nat
           /\ Capacity(d) \in Nat /\ Capacity(d) = Limit[d] * Minute
<1>1. d \in Dim /\ Limit[d] # Unset BY DEF Enabled
<1>2. conf.provider \in Limits /\ conf.global \in Limits BY DEF RateTypes
<1>3. conf.provider[d] \in Nat \cup {Unset} /\ conf.global[d] \in Nat \cup {Unset}
  BY <1>1, <1>2 DEF Limits
<1>4. Limit[d] \in Nat BY <1>1, <1>3 DEF Limit
<1>5. Minute \in Nat BY DEF RateAssumption
<1> QED BY <1>1, <1>4, <1>5 DEF Capacity

\* The configuration stays.
LEMMA Fixed ==
    ASSUME [Next]_vars
    PROVE  /\ conf' = conf /\ form' = form /\ Limit' = Limit /\ Enabled' = Enabled
           /\ Zero' = Zero /\ \A d : Capacity(d)' = Capacity(d)
<1>1. conf' = conf /\ form' = form
  BY DEF Next, vars, Tick, AsksUnlimited, Asks, Acquires, TenantCheck, CheckAndDebit, Serves,
     FailsOpen, SeesRefusal, Penalizes, PenaltyLost
<1>2. Limit' = Limit BY <1>1 DEF Limit
<1>3. Enabled' = Enabled BY <1>2 DEF Enabled
<1> QED BY <1>1, <1>2, <1>3, SMTT(30) DEF Zero, Capacity

-----------------------------------------------------------------------------
(* What a step does to one bucket.                                         *)

\* A refill puts in the limit for the time that passed, up to the capacity.
Refill(b, r, d, at) ==
    /\ r \in BucketType /\ r.until = b.until
    /\ r.tokens <= Capacity(d)
    /\ r.last # Unset /\ r.last <= now
    /\ b.last = Unset => r.tokens = b.tokens /\ r.last = at
    /\ b.last # Unset =>
         \E e \in Nat :
            /\ r.last <= b.last + e
            /\ \/ r.tokens = b.tokens + e * Limit[d]
               \/ r.tokens = Capacity(d) /\ r.tokens <= b.tokens + e * Limit[d]
            /\ form = "local" => r.last = b.last + e /\ r.last >= at

\* What a refill does to a bucket.
LEMMA RefillIs ==
    ASSUME RateAssumption, RateTypes, NEW d \in Enabled, NEW at \in Nat, at <= now
    PROVE  Refill(bucket[d], Refilled(d, at), d, at)
<1> DEFINE b == bucket[d]
           r == Refilled(d, at)
           e == Elapsed(b, at)
           tokens == b.tokens + e * Limit[d]
<1>1. /\ Limit[d] \in Nat /\ Capacity(d) \in Nat BY LimitIs
<1>2. /\ b \in BucketType /\ b.tokens <= Capacity(d)
      /\ b.last # Unset => b.last <= now
  BY DEF RateTypes, BucketBounds
<1>3. b.tokens \in Nat /\ b.last \in Nat \cup {Unset} /\ b.until \in Nat
  BY <1>2 DEF BucketType
<1>4. now \in Nat BY DEF RateTypes
<1>5. Unset \notin Int BY DEF RateAssumption
<1>6. /\ e \in Nat
      /\ b.last = Unset => e = 0
      /\ b.last # Unset => at <= b.last + e /\ (at <= b.last => e = 0)
                           /\ (at > b.last => e = at - b.last)
  BY <1>3, <1>5 DEF Elapsed
<1> HIDE DEF e
<1>7. e * Limit[d] \in Nat /\ tokens \in Nat /\ tokens >= b.tokens
      /\ (e = 0 => tokens = b.tokens)
  BY <1>1, <1>3, <1>6
<1>8. r = [b EXCEPT !.tokens = IF tokens < Capacity(d) THEN tokens ELSE Capacity(d),
                    !.last = IF form = "local" /\ b.last # Unset /\ at <= b.last
                             THEN b.last ELSE at]
  BY DEF Refilled, e
<1> DEFINE x == IF tokens < Capacity(d) THEN tokens ELSE Capacity(d)
           y == IF form = "local" /\ b.last # Unset /\ at <= b.last THEN b.last ELSE at
<1>9. x \in Nat /\ y \in Nat BY <1>1, <1>3, <1>5, <1>7
<1>10. r \in BucketType /\ r.tokens = x /\ r.last = y /\ r.until = b.until
  BY <1>2, <1>8, <1>9 DEF BucketType
<1> HIDE DEF b, r, tokens
<1>11. r.tokens <= Capacity(d) /\ r.last # Unset /\ r.last <= now
  BY <1>1, <1>2, <1>3, <1>4, <1>5, <1>7, <1>9, <1>10
<1>12. b.last = Unset => r.tokens = b.tokens /\ r.last = at
  BY <1>1, <1>2, <1>3, <1>6, <1>7, <1>10 DEF b
<1>13. ASSUME b.last # Unset
       PROVE  /\ r.last <= b.last + e
              /\ \/ r.tokens = b.tokens + e * Limit[d]
                 \/ r.tokens = Capacity(d) /\ r.tokens <= b.tokens + e * Limit[d]
              /\ form = "local" => r.last = b.last + e /\ r.last >= at
  BY <1>1, <1>3, <1>6, <1>7, <1>10, <1>13 DEF tokens
<1> QED BY <1>6, <1>10, <1>11, <1>12, <1>13 DEF Refill, b, r

\* A bucket is refilled, charged and the charge noted; a denial charges nothing.
Charge(d, at, cost) ==
    /\ cost <= Refilled(d, at).tokens
    /\ bucket'[d] = [Refilled(d, at) EXCEPT !.tokens = @ - cost]
    /\ admitted'[d] = [admitted[d] EXCEPT ![now] = @ + cost]

\* What serving a caller does to each bucket.
LEMMA ServesIs ==
    ASSUME RateAssumption, RateTypes, NEW c \in Caller, Serves(c)
    PROVE  /\ DOMAIN bucket' = Enabled
           /\ admitted' \in [Enabled -> [0..MaxTime -> Nat]]
           /\ stamp[c] \in Nat /\ stamp[c] <= now /\ now <= stamp[c] + MaxDelay
           /\ \A d \in Enabled : \E cost \in Nat : Charge(d, stamp[c], cost)
           /\ now' = now /\ touched' \in {touched, now}
           /\ (\E d \in Enabled : \E cost \in Nat : cost # 0 /\ Charge(d, stamp[c], cost))
              \/ (\E d \in Enabled : bucket[d].last = Unset) => touched' = now
<1> DEFINE at == stamp[c]
           full == [d \in Enabled |-> Refilled(d, at)]
           ok == \A d \in Enabled : Admits(full[d], d, want[c], at)
<1>1. /\ at \in Nat /\ at <= now /\ now <= at + MaxDelay /\ want[c] \in Nat
      /\ now \in 0..MaxTime
  BY DEF RateTypes, InTime, Serves
<1>2. \A d \in Enabled : Refill(bucket[d], Refilled(d, at), d, at)
  BY <1>1, RefillIs
<1>3. \A d \in Enabled : Refilled(d, at) \in BucketType BY <1>2 DEF Refill
<1>4. \A d \in Enabled : Cost(d, want[c]) \in Nat BY <1>1 DEF Cost
<1>5. \A d \in Enabled : admitted[d] \in [0..MaxTime -> Nat] BY DEF RateTypes
<1>6. CASE ok
  <2>1. /\ bucket' = [d \in Enabled |-> [full[d] EXCEPT !.tokens = @ - Cost(d, want[c])]]
        /\ admitted' = [d \in Enabled |->
                           [admitted[d] EXCEPT ![now] = @ + Cost(d, want[c])]]
        /\ touched' = now /\ now' = now
    BY <1>6 DEF Serves
  <2>2. \A d \in Enabled : Charge(d, at, Cost(d, want[c]))
    BY <1>6, <2>1 DEF Charge, Admits
  <2>3. \A d \in Enabled : [admitted[d] EXCEPT ![now] = @ + Cost(d, want[c])]
                           \in [0..MaxTime -> Nat]
    BY <1>1, <1>4, <1>5, SMTT(30)
  <2>4. admitted' \in [Enabled -> [0..MaxTime -> Nat]]
    BY <2>1, <2>3
  <2> QED BY <1>1, <1>4, <2>1, <2>2, <2>4
<1>7. CASE ~ok
  <2>1. /\ bucket' = full /\ admitted' = admitted /\ now' = now
        /\ touched' = IF \E d \in Enabled : bucket[d].last = Unset THEN now ELSE touched
    BY <1>7 DEF Serves
  <2>2. \A d \in Enabled : Charge(d, at, 0)
    <3> SUFFICES ASSUME NEW d \in Enabled PROVE Charge(d, at, 0)
      OBVIOUS
    <3>1. bucket'[d] = Refilled(d, at) BY <2>1
    <3>2. Refilled(d, at) \in [tokens : Nat, last : Nat \cup {Unset}, until : Nat]
      BY <1>3 DEF BucketType
    <3>3. [Refilled(d, at) EXCEPT !.tokens = @ - 0] = Refilled(d, at)
      BY <3>2
    <3>4. [admitted[d] EXCEPT ![now] = @ + 0] = admitted[d]
      <4>1. admitted[d] \in [0..MaxTime -> Nat] BY <1>5
      <4>2. admitted[d][now] \in Nat BY <1>1, <4>1
      <4>3. admitted[d][now] + 0 = admitted[d][now] BY <4>2
      <4> QED BY <4>1, <4>3
    <3>5. 0 <= Refilled(d, at).tokens BY <3>2
    <3> QED BY <2>1, <3>1, <3>3, <3>4, <3>5 DEF Charge
  <2>3. ASSUME NEW d \in Enabled, NEW cost \in Nat, Charge(d, at, cost)
        PROVE  cost = 0
    <3>1. bucket'[d] = Refilled(d, at) /\ Refilled(d, at) \in BucketType BY <1>3, <2>1
    <3>2. Refilled(d, at).tokens \in Nat BY <3>1 DEF BucketType
    <3>3. bucket'[d].tokens = Refilled(d, at).tokens - cost
      BY <2>3, <3>1 DEF Charge, BucketType
    <3> QED BY <3>1, <3>2, <3>3
  <2> QED BY <1>1, <2>1, <2>2, <2>3 DEF RateTypes
<1> QED BY <1>6, <1>7

Emptied(b, x, y) == [b EXCEPT !.tokens = 0, !.last = x, !.until = y]

\* What a penalty leaves of a bucket.
LEMMA EmptiedIs ==
    ASSUME NEW b \in BucketType, NEW x \in Nat \cup {Unset}, NEW y \in Nat
    PROVE  /\ Emptied(b, x, y) \in BucketType /\ Emptied(b, x, y).tokens = 0
           /\ Emptied(b, x, y).last = x /\ Emptied(b, x, y).until = y
<1> DEFINE r1 == [b EXCEPT !.tokens = 0]
           r2 == [r1 EXCEPT !.last = x]
           r3 == [r2 EXCEPT !.until = y]
<1>1. r1 \in BucketType /\ r1.tokens = 0 BY DEF BucketType
<1> HIDE DEF r1
<1>2. r2 \in BucketType /\ r2.tokens = 0 /\ r2.last = x BY <1>1 DEF BucketType
<1> HIDE DEF r2
<1>3. r3 \in BucketType /\ r3.tokens = 0 /\ r3.last = x /\ r3.until = y
  BY <1>2 DEF BucketType
<1> HIDE DEF r3
<1>4. Emptied(b, x, y) = r3
  BY DEF Emptied, r1, r2, r3
<1> QED BY <1>3, <1>4

\* A penalty empties a bucket; in one process it begins the time of one that
\* nobody has used.
LEMMA PenaltyIs ==
    ASSUME RateAssumption, RateTypes, NEW c \in Caller, Penalizes(c), NEW d \in Enabled
    PROVE  \/ bucket'[d] = bucket[d]
           \/ /\ bucket'[d] \in BucketType /\ bucket'[d].tokens = 0
              /\ bucket[d].last # Unset => bucket'[d].last = bucket[d].last
              /\ bucket[d].last = Unset =>
                   bucket'[d].last = IF form = "local" THEN stamp[c] ELSE Unset
              /\ \/ bucket'[d].until = stamp[c] + Penalty
                 \/ bucket'[d].until = bucket[d].until
<1> DEFINE b == bucket[d]
           end == stamp[c] + Penalty
           x == IF form = "local" /\ b.last = Unset THEN stamp[c] ELSE b.last
           y == IF form = "local" /\ b.until > end THEN b.until ELSE end
<1>1. bucket'[d] = b \/ bucket'[d] = [b EXCEPT !.tokens = 0, !.last = x, !.until = y]
  BY DEF Penalizes
<1>2. b \in BucketType /\ stamp[c] \in Nat /\ end \in Nat
  BY DEF RateTypes, BucketBounds, RateAssumption
<1>3. x \in Nat \cup {Unset} /\ y \in Nat
  BY <1>2 DEF BucketType
<1>4. CASE bucket'[d] # b
  <2>1. bucket'[d] = Emptied(b, x, y) BY <1>1, <1>4 DEF Emptied
  <2> HIDE DEF x, y, b
  <2>2. /\ bucket'[d] \in BucketType /\ bucket'[d].tokens = 0
        /\ bucket'[d].last = x /\ bucket'[d].until = y
    BY <1>2, <1>3, <2>1, EmptiedIs
  <2> QED BY <2>2 DEF b, x, y
<1> QED BY <1>4

\* Steps that leave the buckets and what was admitted alone.
LEMMA QuietRate ==
    ASSUME [Next]_vars, \A c \in Caller : ~Serves(c) /\ ~Penalizes(c)
    PROVE  UNCHANGED <<bucket, admitted, touched>> /\ now' \in {now, now + 1}
<1>1. \A c \in Caller : ~Acquires(c) /\ ~TenantCheck(c) /\ ~CheckAndDebit(c)
  BY DEF Acquires, TenantCheck, CheckAndDebit
<1> QED BY <1>1 DEF Next, vars, Tick, AsksUnlimited, Asks, FailsOpen, SeesRefusal, PenaltyLost

\* The clock moves only while everybody waiting can still be served in time.
LEMMA CallersStep ==
    ASSUME RateAssumption, RateTypes, [Next]_vars
    PROVE  /\ now' \in 0..MaxTime /\ now <= now'
           /\ pc' \in [Caller -> {"idle", "asked", "penalizing"}]
           /\ stamp' \in [Caller -> Nat] /\ want' \in [Caller -> Nat]
           /\ \A c \in Caller : InTime(c)'
<1>0. now \in 0..MaxTime /\ MaxTime \in Nat /\ MaxDelay \in Nat
  BY DEF RateTypes, RateAssumption
<1>1. CASE Tick
  <2>1. now' = now + 1 /\ now' \in 0..MaxTime /\ UNCHANGED <<pc, stamp, want>>
    BY <1>0, <1>1 DEF Tick
  <2>2. ASSUME NEW c \in Caller PROVE InTime(c)'
    <3>1. pc[c] # "idle" => now < stamp[c] + MaxDelay /\ stamp[c] <= now /\ ~Zero
      BY <1>1 DEF Tick, RateTypes, InTime
    <3>2. stamp[c] \in Nat BY DEF RateTypes
    <3> QED BY <1>0, <2>1, <3>1, <3>2, Fixed DEF InTime
  <2> QED BY <1>0, <2>1, <2>2 DEF RateTypes
<1> DEFINE Steps(c, q, s, w) ==
      /\ pc' = [pc EXCEPT ![c] = q] /\ stamp' = [stamp EXCEPT ![c] = s]
      /\ want' = [want EXCEPT ![c] = w] /\ now' = now
<1>2. ASSUME NEW c \in Caller, NEW q \in {"idle", "asked", "penalizing"}, NEW s \in Nat,
             NEW w \in Nat, Steps(c, q, s, w), q = "idle" \/ (s = now /\ ~Zero)
      PROVE  /\ now' \in 0..MaxTime /\ now <= now'
             /\ pc' \in [Caller -> {"idle", "asked", "penalizing"}]
             /\ stamp' \in [Caller -> Nat] /\ want' \in [Caller -> Nat]
             /\ \A x \in Caller : InTime(x)'
  <2>1. /\ now' \in 0..MaxTime /\ now <= now'
        /\ pc' \in [Caller -> {"idle", "asked", "penalizing"}]
        /\ stamp' \in [Caller -> Nat] /\ want' \in [Caller -> Nat]
    BY <1>0, <1>2 DEF RateTypes
  <2>2. ASSUME NEW x \in Caller PROVE InTime(x)'
    <3>1. CASE x = c
      <4>1. pc'[c] = q /\ stamp'[c] = s BY <1>2 DEF RateTypes
      <4> QED BY <1>0, <1>2, <3>1, <4>1, Fixed DEF InTime
    <3>2. CASE x # c
      <4>1. pc'[x] = pc[x] /\ stamp'[x] = stamp[x] /\ now' = now
        BY <1>2, <3>2 DEF RateTypes
      <4> QED BY <4>1, Fixed DEF InTime, RateTypes
    <3> QED BY <3>1, <3>2
  <2> QED BY <2>1, <2>2
<1>3. ASSUME UNCHANGED <<now, pc, stamp, want>>
      PROVE  /\ now' \in 0..MaxTime /\ now <= now'
             /\ pc' \in [Caller -> {"idle", "asked", "penalizing"}]
             /\ stamp' \in [Caller -> Nat] /\ want' \in [Caller -> Nat]
             /\ \A c \in Caller : InTime(c)'
  BY <1>0, <1>3, Fixed DEF RateTypes, InTime
<1>4. ASSUME NEW c \in Caller, Leaves(c), now' = now
      PROVE  Steps(c, "idle", 0, 1)
  BY <1>4 DEF Leaves
<1>5. ASSUME NEW c \in Caller, NEW p \in Estimate, Asks(c, p)
      PROVE  p \in Nat /\ Steps(c, "asked", now, p) /\ ~Zero
  BY <1>5 DEF Asks, RateAssumption
<1>6. ASSUME NEW c \in Caller, SeesRefusal(c)
      PROVE  want[c] \in Nat /\ Steps(c, "penalizing", now, want[c]) /\ ~Zero
  <2>1. want = [want EXCEPT ![c] = want[c]] /\ want[c] \in Nat BY DEF RateTypes
  <2> QED BY <1>6, <2>1 DEF SeesRefusal
<1> DEFINE Result ==
      /\ now' \in 0..MaxTime /\ now <= now'
      /\ pc' \in [Caller -> {"idle", "asked", "penalizing"}]
      /\ stamp' \in [Caller -> Nat] /\ want' \in [Caller -> Nat]
      /\ \A c \in Caller : InTime(c)'
<1> HIDE DEF Steps
<1>7. ASSUME NEW c \in Caller, Leaves(c), now' = now PROVE Result
  BY <1>2, <1>4, <1>7
<1>8. ASSUME NEW c \in Caller, NEW p \in Estimate, Asks(c, p) PROVE Result
  <2>1. now \in Nat BY <1>0
  <2> QED BY <1>2, <1>5, <1>8, <2>1
<1>9. ASSUME NEW c \in Caller, SeesRefusal(c) PROVE Result
  <2>1. now \in Nat BY <1>0
  <2> QED BY <1>2, <1>6, <1>9, <2>1
<1> HIDE DEF Result
<1>10. ASSUME UNCHANGED <<now, pc, stamp, want>> PROVE Result
  BY <1>3, <1>10, SMTT(30) DEF Result
<1>11. ASSUME NEW c \in Caller,
              \/ AsksUnlimited(c) \/ Acquires(c) \/ TenantCheck(c) \/ CheckAndDebit(c)
              \/ FailsOpen(c) \/ Penalizes(c) \/ PenaltyLost(c)
       PROVE  (Leaves(c) /\ now' = now) \/ UNCHANGED <<now, pc, stamp, want>>
  BY <1>11 DEF AsksUnlimited, Acquires, TenantCheck, CheckAndDebit, Serves, FailsOpen,
     Penalizes, PenaltyLost
<1>12. CASE UNCHANGED vars
  BY <1>10, <1>12 DEF vars, Result
<1>13. Tick => Result BY <1>1 DEF Result
<1> QED BY <1>7, <1>8, <1>9, <1>10, <1>11, <1>12, <1>13 DEF Next, Result

\* Every step keeps the types.
LEMMA TypesStep ==
    ASSUME RateAssumption, RateTypes, [Next]_vars
    PROVE  RateTypes'
<1>1. /\ now' \in 0..MaxTime /\ now <= now'
      /\ pc' \in [Caller -> {"idle", "asked", "penalizing"}]
      /\ stamp' \in [Caller -> Nat] /\ want' \in [Caller -> Nat]
      /\ \A c \in Caller : InTime(c)'
  BY CallersStep
<1>2. /\ conf' = conf /\ Enabled' = Enabled /\ \A d : Capacity(d)' = Capacity(d)
  BY Fixed
<1>3. ASSUME NEW d \in Enabled, bucket'[d] = bucket[d] PROVE BucketBounds(d)'
  <2>1. BucketBounds(d) BY DEF RateTypes
  <2>2. bucket[d].last # Unset => bucket[d].last \in Nat BY <2>1 DEF BucketBounds, BucketType
  <2>3. now \in Nat /\ now' \in Nat BY <1>1 DEF RateTypes
  <2> QED BY <1>1, <1>2, <1>3, <2>1, <2>2, <2>3 DEF BucketBounds
<1>4. /\ DOMAIN bucket' = Enabled /\ admitted' \in [Enabled -> [0..MaxTime -> Nat]]
      /\ \A d \in Enabled : BucketBounds(d)'
  <2>1. ASSUME NEW c \in Caller, Serves(c)
        PROVE  /\ DOMAIN bucket' = Enabled
               /\ admitted' \in [Enabled -> [0..MaxTime -> Nat]]
               /\ \A d \in Enabled : BucketBounds(d)'
    <3>1. /\ DOMAIN bucket' = Enabled
          /\ admitted' \in [Enabled -> [0..MaxTime -> Nat]]
          /\ stamp[c] \in Nat /\ stamp[c] <= now /\ now' = now
          /\ \A d \in Enabled : \E cost \in Nat : Charge(d, stamp[c], cost)
      BY <2>1, ServesIs
    <3>2. ASSUME NEW d \in Enabled PROVE BucketBounds(d)'
      <4>1. PICK cost \in Nat : Charge(d, stamp[c], cost) BY <3>1
      <4> DEFINE r == Refilled(d, stamp[c])
      <4>2. r \in BucketType /\ r.tokens <= Capacity(d) /\ r.last # Unset /\ r.last <= now
        BY <3>1, RefillIs DEF Refill
      <4>3. bucket'[d] = [r EXCEPT !.tokens = @ - cost] /\ cost <= r.tokens
        BY <4>1 DEF Charge
      <4> HIDE DEF r
      <4>4. r.tokens \in Nat /\ r.tokens - cost \in Nat BY <4>2, <4>3 DEF BucketType
      <4>5. /\ bucket'[d] \in BucketType /\ bucket'[d].tokens = r.tokens - cost
            /\ bucket'[d].last = r.last
        BY <4>2, <4>3, <4>4 DEF BucketType
      <4>6. Capacity(d) \in Nat BY LimitIs
      <4>7. r.tokens - cost <= Capacity(d) BY <4>2, <4>4, <4>6
      <4> QED BY <1>2, <3>1, <4>2, <4>5, <4>7 DEF BucketBounds
    <3> QED BY <3>1, <3>2
  <2>2. ASSUME NEW c \in Caller, Penalizes(c)
        PROVE  /\ DOMAIN bucket' = Enabled
               /\ admitted' \in [Enabled -> [0..MaxTime -> Nat]]
               /\ \A d \in Enabled : BucketBounds(d)'
    <3>1. DOMAIN bucket' = Enabled /\ admitted' = admitted /\ now' = now
      BY <2>2 DEF Penalizes
    <3>2. stamp[c] \in Nat /\ stamp[c] <= now BY <2>2 DEF Penalizes, RateTypes, InTime
    <3>3. ASSUME NEW d \in Enabled, bucket'[d] # bucket[d] PROVE BucketBounds(d)'
      <4>1. /\ bucket'[d] \in BucketType /\ bucket'[d].tokens = 0
            /\ bucket[d].last # Unset => bucket'[d].last = bucket[d].last
            /\ bucket[d].last = Unset =>
                  bucket'[d].last = IF form = "local" THEN stamp[c] ELSE Unset
        BY <2>2, <3>3, PenaltyIs
      <4>2. Capacity(d) \in Nat BY LimitIs
      <4>3. bucket[d].last # Unset => bucket[d].last <= now BY DEF RateTypes, BucketBounds
      <4> QED BY <1>2, <3>1, <3>2, <4>1, <4>2, <4>3 DEF BucketBounds
    <3> QED BY <1>3, <3>1, <3>3 DEF RateTypes
  <2>3. ASSUME \A c \in Caller : ~Serves(c) /\ ~Penalizes(c)
        PROVE  /\ DOMAIN bucket' = Enabled
               /\ admitted' \in [Enabled -> [0..MaxTime -> Nat]]
               /\ \A d \in Enabled : BucketBounds(d)'
    <3>1. UNCHANGED <<bucket, admitted>> BY <2>3, QuietRate
    <3> QED BY <1>3, <3>1 DEF RateTypes
  <2> QED BY <2>1, <2>2, <2>3
<1> QED BY <1>1, <1>2, <1>4 DEF RateTypes

\* The types hold initially.
LEMMA TypesInit ==
    ASSUME RateAssumption, Init
    PROVE  RateTypes
<1>1. conf \in [global : Limits, provider : Limits] BY DEF Init, RateAssumption
<1>2. ASSUME NEW d \in Enabled PROVE Capacity(d) \in Nat
  <2>1. d \in Dim /\ Limit[d] # Unset BY DEF Enabled
  <2>2. conf.provider[d] \in Nat \cup {Unset} /\ conf.global[d] \in Nat \cup {Unset}
    BY <1>1, <2>1 DEF Limits
  <2>3. Limit[d] \in Nat BY <2>1, <2>2 DEF Limit
  <2> QED BY <2>3 DEF Capacity, RateAssumption
<1>3. ASSUME NEW d \in Enabled PROVE BucketBounds(d)
  BY <1>2 DEF Init, BucketBounds, BucketType
<1>4. admitted \in [Enabled -> [0..MaxTime -> Nat]]
  BY DEF Init, RateAssumption
<1>5. \A c \in Caller : InTime(c) BY DEF Init, InTime
<1> QED BY <1>1, <1>3, <1>4, <1>5 DEF Init, RateTypes, RateAssumption

-----------------------------------------------------------------------------
(* The rate of one process.                                                *)

\* What was admitted in an interval has a sum.
LEMMA Interval ==
    ASSUME RateAssumption, RateTypes, NEW d \in Enabled, NEW t \in 0..MaxTime,
           NEW u \in 0..MaxTime
    PROVE  LET f == [i \in t..u |-> admitted[d][i]] IN
           DOMAIN f = t..u /\ Summable(f) /\ SumOf(f) \in Nat
<1> DEFINE f == [i \in t..u |-> admitted[d][i]]
<1>1. IsFiniteSet(t..u) BY FS_Interval DEF RateAssumption
<1>2. admitted[d] \in [0..MaxTime -> Nat] BY DEF RateTypes
<1>3. \A i \in t..u : f[i] \in Nat
  <2> TAKE i \in t..u
  <2>1. i \in 0..MaxTime BY DEF RateAssumption
  <2> QED BY <1>2, <2>1
<1>4. DOMAIN f = t..u OBVIOUS
<1> HIDE DEF f
<1>5. Summable(f) BY <1>1, <1>3, <1>4 DEF Summable
<1>6. SumOf(f) \in Nat BY <1>5, SumType
<1> QED BY <1>4, <1>5, <1>6 DEF f

\* The span of a refill is a number, and what it is at least and at most.
LEMMA SpanIs ==
    ASSUME RateAssumption, NEW last \in Nat \cup {Unset}, NEW t \in Nat
    PROVE  /\ Span(last, t) \in Nat
           /\ last # Unset => last \in Nat /\ Span(last, t) >= last - t + MaxDelay
           /\ last # Unset /\ last >= t - MaxDelay => Span(last, t) = last - t + MaxDelay
           /\ \A u \in Nat : t <= u /\ (last # Unset => last <= u)
                => Span(last, t) <= u - t + MaxDelay
BY DEF Span, RateAssumption

\* An interval that reaches to the present.
LEMMA PaidBounds ==
    ASSUME RateAssumption, RateTypes, NEW d \in Enabled, NEW t \in 0..MaxTime,
           NEW u \in 0..MaxTime, t <= u, now <= u, Paid(d, t)
    PROVE  SumOf([i \in t..u |-> admitted[d][i]])
           <= Capacity(d) + Limit[d] * (u - t + MaxDelay)
<1> DEFINE f == [i \in t..MaxTime |-> admitted[d][i]]
           g == [i \in t..u |-> admitted[d][i]]
           l == bucket[d].last
<1>0. MaxTime \in Nat /\ MaxDelay \in Nat /\ MaxTime \in 0..MaxTime
      /\ now \in 0..MaxTime
  BY DEF RateAssumption, RateTypes
<1>1. Limit[d] \in Nat /\ Capacity(d) \in Nat BY LimitIs
<1>2. DOMAIN f = t..MaxTime /\ Summable(f) /\ SumOf(f) \in Nat BY <1>0, Interval
<1>3. DOMAIN g = t..u /\ Summable(g) /\ SumOf(g) \in Nat BY Interval
<1>4. DOMAIN g \subseteq DOMAIN f BY <1>0, <1>2, <1>3
<1>5. \A i \in DOMAIN g : g[i] \in Nat /\ g[i] <= f[i]
  <2> TAKE i \in DOMAIN g
  <2>1. g[i] = admitted[d][i] /\ f[i] = admitted[d][i] BY <1>2, <1>3, <1>4
  <2>2. g[i] \in Nat BY <1>3 DEF Summable
  <2> QED BY <2>1, <2>2
<1> HIDE DEF f, g
<1>6. SumOf(g) <= SumOf(f) BY <1>2, <1>4, <1>5, SumMonotonic
<1>7. /\ bucket[d] \in BucketType /\ l \in Nat \cup {Unset} /\ bucket[d].tokens \in Nat
      /\ l # Unset => l <= now
  BY DEF RateTypes, BucketBounds, BucketType
<1>8. Span(l, t) \in Nat /\ Span(l, t) <= u - t + MaxDelay
  <2>1. l # Unset => l <= u /\ l \in Nat BY <1>0, <1>7
  <2>2. t \in Nat /\ u \in Nat BY <1>0
  <2> HIDE DEF l
  <2> QED BY <1>7, <2>1, <2>2, SpanIs
<1>9. SumOf(f) + bucket[d].tokens <= Capacity(d) + Limit[d] * Span(l, t)
  BY DEF Paid, Since, f
<1>10. /\ Limit[d] * Span(l, t) <= Limit[d] * (u - t + MaxDelay)
       /\ Limit[d] * Span(l, t) \in Int /\ Limit[d] * (u - t + MaxDelay) \in Int
  <2>1. Span(l, t) \in Int /\ u - t + MaxDelay \in Int BY <1>0, <1>8
  <2> QED BY <1>1, <1>8, <2>1, Product
<1>11. SumOf(g) <= Capacity(d) + Limit[d] * (u - t + MaxDelay)
  <2> DEFINE x == Limit[d] * Span(l, t)
             y == Limit[d] * (u - t + MaxDelay)
             k == bucket[d].tokens
  <2>1. x \in Int /\ y \in Int /\ x <= y BY <1>10
  <2>2. k \in Nat BY <1>7
  <2>3. SumOf(f) + k <= Capacity(d) + x BY <1>9
  <2> HIDE DEF x, y, k
  <2>4. SumOf(g) <= Capacity(d) + y
    BY <1>1, <1>2, <1>3, <1>6, <2>1, <2>2, <2>3
  <2> QED BY <2>4 DEF y
<1> QED BY <1>11 DEF g

\* What a charge adds to the sums.
LEMMA SinceCharged ==
    ASSUME RateAssumption, RateTypes, RateTypes', NEW d \in Enabled, Enabled' = Enabled,
           NEW t \in 0..MaxTime, NEW at, NEW cost \in Nat, Charge(d, at, cost)
    PROVE  /\ Since(d, t) \in Nat
           /\ t <= now => Since(d, t)' = Since(d, t) + cost
           /\ ~(t <= now) => Since(d, t)' = Since(d, t)
<1> DEFINE f == [i \in t..MaxTime |-> admitted[d][i]]
           g == [i \in t..MaxTime |-> admitted'[d][i]]
<1>0. MaxTime \in Nat /\ MaxTime \in 0..MaxTime /\ now \in 0..MaxTime
  BY DEF RateAssumption, RateTypes
<1>1. DOMAIN f = t..MaxTime /\ Summable(f) /\ SumOf(f) \in Nat BY <1>0, Interval
<1>2. admitted[d] \in [0..MaxTime -> Nat] BY DEF RateTypes
<1>3. \A i \in 0..MaxTime :
        admitted'[d][i] = IF i = now THEN admitted[d][i] + cost ELSE admitted[d][i]
  BY <1>0, <1>2 DEF Charge
<1>4. t..MaxTime \subseteq 0..MaxTime BY <1>0
<1>5. \A i \in t..MaxTime : g[i] = IF i = now THEN f[i] + cost ELSE f[i]
  BY <1>3, <1>4
<1>6. CASE t <= now
  <2>1. now \in DOMAIN f BY <1>0, <1>1, <1>6
  <2>2. f[now] \in Nat /\ g[now] = f[now] + cost /\ g[now] \in Nat
    BY <1>1, <1>5, <2>1 DEF Summable
  <2>3. DOMAIN g = DOMAIN f /\ \A i \in DOMAIN f \ {now} : g[i] = f[i]
    BY <1>1, <1>5
  <2> HIDE DEF f, g
  <2>4. SumOf(g) = SumOf(f) - f[now] + g[now]
    BY <1>1, <2>1, <2>2, <2>3, SumChange
  <2>5. SumOf(g) = SumOf(f) + cost BY <1>1, <2>2, <2>4
  <2> QED BY <1>1, <1>6, <2>5 DEF f, g, Since
<1>7. CASE ~(t <= now)
  <2>1. g = f BY <1>0, <1>5, <1>7
  <2> QED BY <1>1, <1>7, <2>1 DEF Since
<1> QED BY <1>6, <1>7

\* A charge is paid from the bucket or its refill.
LEMMA ChargePaid ==
    ASSUME RateAssumption, RateTypes, RateTypes', NEW d \in Enabled, Enabled' = Enabled,
           Limit' = Limit, Capacity(d)' = Capacity(d), form = "local",
           NEW t \in 0..MaxTime, NEW at \in Nat, at <= now, now <= at + MaxDelay,
           NEW cost \in Nat, Charge(d, at, cost), Paid(d, t)
    PROVE  Paid(d, t)'
<1> DEFINE b == bucket[d]
           r == Refilled(d, at)
<1>0. t \in Nat /\ now \in Nat /\ MaxDelay \in Nat
  BY DEF RateAssumption, RateTypes
<1>1. Limit[d] \in Nat /\ Capacity(d) \in Nat BY LimitIs
<1>2. /\ Since(d, t) \in Nat
      /\ t <= now => Since(d, t)' = Since(d, t) + cost
      /\ ~(t <= now) => Since(d, t)' = Since(d, t)
  BY SinceCharged
<1>3. Refill(b, r, d, at) BY RefillIs
<1>4. b \in BucketType /\ b.tokens \in Nat /\ b.last \in Nat \cup {Unset}
  BY DEF RateTypes, BucketBounds, BucketType
<1>5. /\ r \in BucketType /\ r.tokens \in Nat /\ r.tokens <= Capacity(d)
      /\ r.last \in Nat /\ r.last # Unset /\ r.last >= at
      /\ b.last # Unset => \E e \in Nat :
            r.last = b.last + e /\ r.tokens <= b.tokens + e * Limit[d]
  <2>1. /\ r \in BucketType /\ r.tokens <= Capacity(d) /\ r.last # Unset
        /\ b.last = Unset => r.last = at
        /\ b.last # Unset =>
              \E e \in Nat : /\ r.tokens = b.tokens + e * Limit[d]
                                \/ r.tokens <= b.tokens + e * Limit[d]
                             /\ r.last = b.last + e /\ r.last >= at
    BY <1>3 DEF Refill
  <2>2. r.tokens \in Nat /\ r.last \in Nat BY <2>1 DEF BucketType
  <2> QED BY <1>1, <1>4, <2>1, <2>2
<1>6. bucket'[d].tokens = r.tokens - cost /\ bucket'[d].last = r.last
      /\ cost <= r.tokens
  BY <1>5 DEF Charge, BucketType
<1> HIDE DEF b, r
<1>7. /\ Since(d, t) + b.tokens <= Capacity(d) + Limit[d] * Span(b.last, t)
      /\ b.last = Unset \/ b.last < t - MaxDelay => Since(d, t) = 0
  BY DEF Paid, b
<1>8. Span(b.last, t) \in Nat /\ Span(r.last, t) \in Nat
  BY <1>0, <1>4, <1>5, SpanIs
<1>9. Limit[d] * Span(b.last, t) \in Nat /\ Limit[d] * Span(r.last, t) \in Nat
  BY <1>1, <1>8
<1>10. Since(d, t) + r.tokens <= Capacity(d) + Limit[d] * Span(r.last, t)
  <2>1. CASE b.last = Unset \/ b.last < t - MaxDelay
    BY <1>1, <1>2, <1>5, <1>7, <1>9, <2>1
  <2>2. CASE ~(b.last = Unset \/ b.last < t - MaxDelay)
    <3>1. PICK e \in Nat : r.last = b.last + e /\ r.tokens <= b.tokens + e * Limit[d]
      BY <1>5, <2>2
    <3>2. b.last \in Nat /\ b.last >= t - MaxDelay /\ b.last # Unset
      BY <1>0, <1>4, <2>2
    <3>3. Span(b.last, t) = b.last - t + MaxDelay
      BY <1>0, <3>2, SpanIs
    <3>4. r.last >= t - MaxDelay BY <1>0, <3>1, <3>2
    <3>5. Span(r.last, t) = r.last - t + MaxDelay
      BY <1>0, <1>5, <3>4, SpanIs
    <3>6. Span(r.last, t) = Span(b.last, t) + e
      BY <1>0, <1>5, <3>1, <3>2, <3>3, <3>5
    <3>7. Limit[d] * Span(r.last, t) = Limit[d] * Span(b.last, t) + Limit[d] * e
      BY <1>1, <1>8, <3>6, Product
    <3>8. e * Limit[d] = Limit[d] * e /\ Limit[d] * e \in Nat BY <1>1
    <3> QED BY <1>1, <1>2, <1>4, <1>5, <1>7, <1>9, <3>1, <3>7, <3>8
  <2> QED BY <2>1, <2>2
<1>11. Since(d, t)' + (r.tokens - cost) <= Capacity(d) + Limit[d] * Span(r.last, t)
  BY <1>1, <1>2, <1>5, <1>6, <1>9, <1>10
<1>12. ASSUME r.last < t - MaxDelay PROVE Since(d, t)' = 0
  <2>1. ~(t <= now) BY <1>0, <1>5, <1>12
  <2>2. b.last = Unset \/ b.last < t - MaxDelay
    BY <1>0, <1>4, <1>5, <1>12
  <2> QED BY <1>2, <1>7, <2>1, <2>2
<1>13. Span(bucket[d].last, t)' = Span(r.last, t)
  BY <1>6 DEF Span
<1> QED BY <1>5, <1>6, <1>11, <1>12, <1>13 DEF Paid

\* A penalty leaves what was admitted paid for.
LEMMA PenaltyPaid ==
    ASSUME RateAssumption, RateTypes, RateTypes', NEW d \in Enabled, Enabled' = Enabled,
           Limit' = Limit, Capacity(d)' = Capacity(d), form = "local",
           NEW t \in 0..MaxTime, NEW c \in Caller, Penalizes(c), Paid(d, t)
    PROVE  Paid(d, t)'
<1>0. t \in Nat BY DEF RateAssumption
<1>1. admitted' = admitted BY DEF Penalizes
<1>2. Since(d, t)' = Since(d, t) BY <1>1 DEF Since
<1>3. CASE bucket'[d] = bucket[d]
  <2>1. Span(bucket[d].last, t)' = Span(bucket[d].last, t) BY <1>3 DEF Span
  <2> QED BY <1>2, <1>3, <2>1 DEF Paid
<1>4. CASE bucket'[d] # bucket[d]
  <2>1. /\ bucket'[d] \in BucketType /\ bucket'[d].tokens = 0
        /\ bucket[d].last # Unset => bucket'[d].last = bucket[d].last
    BY <1>4, PenaltyIs
  <2>2. Span(bucket[d].last, t)' = Span(bucket'[d].last, t) BY DEF Span
  <2>3. Limit[d] \in Nat /\ Capacity(d) \in Nat BY LimitIs
  <2>4. Since(d, t) \in Nat
    <3>1. MaxTime \in 0..MaxTime BY DEF RateAssumption
    <3> QED BY <3>1, Interval DEF Since
  <2>5. /\ bucket[d].tokens \in Nat /\ bucket[d].last \in Nat \cup {Unset}
        /\ bucket'[d].last \in Nat \cup {Unset}
    BY <2>1 DEF RateTypes, BucketBounds, BucketType
  <2>6. CASE bucket[d].last # Unset
    <3>1. bucket'[d].last = bucket[d].last BY <2>1, <2>6
    <3>2. Span(bucket[d].last, t) \in Nat BY <1>0, <2>5, SpanIs
    <3>3. Limit[d] * Span(bucket[d].last, t) \in Nat BY <2>3, <3>2
    <3>4. Since(d, t) + 0 <= Capacity(d) + Limit[d] * Span(bucket[d].last, t)
      BY <2>3, <2>4, <2>5, <3>3 DEF Paid
    <3> QED BY <1>2, <2>1, <2>2, <3>1, <3>4 DEF Paid
  <2>7. CASE bucket[d].last = Unset
    <3>1. Since(d, t) = 0 BY <2>7 DEF Paid
    <3>2. Span(bucket'[d].last, t) \in Nat BY <1>0, <2>5, SpanIs
    <3>3. Limit[d] * Span(bucket'[d].last, t) \in Nat BY <2>3, <3>2
    <3> QED BY <1>2, <2>1, <2>2, <2>3, <3>1, <3>3 DEF Paid
  <2> QED BY <2>6, <2>7
<1> QED BY <1>3, <1>4

\* Every step keeps LocalInv.
LEMMA LocalStep ==
    ASSUME RateAssumption, RateTypes, RateTypes', LocalInv, [Next]_vars
    PROVE  LocalInv'
<1>1. /\ form' = form /\ Limit' = Limit /\ Enabled' = Enabled
      /\ \A d : Capacity(d)' = Capacity(d)
  BY Fixed
<1> SUFFICES ASSUME form = "local", NEW d \in Enabled
             PROVE  Kept(d)' /\ \A t \in 0..MaxTime : Paid(d, t)'
  BY <1>1 DEF LocalInv
<1>2. Kept(d) /\ \A t \in 0..MaxTime : Paid(d, t)
  BY DEF LocalInv
<1>3. Kept(d) /\ now' = now /\ (\A i \in 0..MaxTime : i < now => admitted'[d][i] = admitted[d][i])
      => Kept(d)'
  <2> SUFFICES ASSUME now' = now, \A i \in 0..MaxTime : i < now => admitted'[d][i] = admitted[d][i],
                      NEW t \in 0..MaxTime, NEW u \in 0..MaxTime, t <= u, u < now
               PROVE  SumOf([i \in t..u |-> admitted'[d][i]])
                      <= Capacity(d) + Limit[d] * (u - t + MaxDelay)
    BY <1>1 DEF Kept
  <2>1. now \in Nat /\ MaxTime \in Nat BY DEF RateTypes, RateAssumption
  <2>2. \A i \in t..u : i \in 0..MaxTime /\ i < now BY <2>1
  <2>3. [i \in t..u |-> admitted'[d][i]] = [i \in t..u |-> admitted[d][i]]
    BY <2>2
  <2> QED BY <1>2, <2>3 DEF Kept
<1>4. ASSUME NEW c \in Caller, Serves(c)
      PROVE  Kept(d)' /\ \A t \in 0..MaxTime : Paid(d, t)'
  <2>1. /\ stamp[c] \in Nat /\ stamp[c] <= now /\ now <= stamp[c] + MaxDelay
        /\ \E cost \in Nat : Charge(d, stamp[c], cost)
        /\ now' = now
    BY <1>4, ServesIs
  <2>2. PICK cost \in Nat : Charge(d, stamp[c], cost) BY <2>1
  <2>3. \A t \in 0..MaxTime : Paid(d, t)'
    BY <1>1, <1>2, <2>1, <2>2, ChargePaid
  <2>4. admitted[d] \in [0..MaxTime -> Nat] /\ now \in Nat BY DEF RateTypes
  <2>5. \A i \in 0..MaxTime : i < now => admitted'[d][i] = admitted[d][i]
    BY <2>2, <2>4 DEF Charge
  <2> QED BY <1>2, <1>3, <2>1, <2>3, <2>5
<1>5. ASSUME NEW c \in Caller, Penalizes(c)
      PROVE  Kept(d)' /\ \A t \in 0..MaxTime : Paid(d, t)'
  <2>1. admitted' = admitted /\ now' = now BY <1>5 DEF Penalizes
  <2>2. \A t \in 0..MaxTime : Paid(d, t)'
    BY <1>1, <1>2, <1>5, PenaltyPaid
  <2> QED BY <1>2, <1>3, <2>1, <2>2
<1>6. ASSUME \A c \in Caller : ~Serves(c) /\ ~Penalizes(c)
      PROVE  Kept(d)' /\ \A t \in 0..MaxTime : Paid(d, t)'
  <2>1. UNCHANGED <<bucket, admitted>> /\ now' \in {now, now + 1}
    BY <1>6, QuietRate
  <2>2. \A t \in 0..MaxTime : Paid(d, t)'
    BY <1>1, <1>2, <2>1 DEF Paid, Since, Span
  <2>3. Kept(d)'
    <3> SUFFICES ASSUME NEW t \in 0..MaxTime, NEW u \in 0..MaxTime, t <= u, u < now'
                 PROVE  SumOf([i \in t..u |-> admitted[d][i]])
                        <= Capacity(d) + Limit[d] * (u - t + MaxDelay)
      BY <1>1, <2>1 DEF Kept
    <3>1. now \in Nat /\ u \in Nat BY DEF RateTypes, RateAssumption
    <3>2. CASE u < now BY <1>2, <3>2 DEF Kept
    <3>3. CASE now <= u BY <1>2, <3>3, PaidBounds
    <3> QED BY <3>1, <3>2, <3>3
  <2> QED BY <2>2, <2>3
<1> QED BY <1>4, <1>5, <1>6

\* The token buckets of one process: whatever order its callers are served in
\* with the clocks they read, no interval admits more than a burst and the
\* rate, up to the delay of one caller.
THEOREM LocalRateHolds == Spec => []LocalRateHeld
<1> USE RateAssumption
<1> DEFINE Inv == RateTypes /\ LocalInv
<1>1. Init => Inv
  <2> SUFFICES ASSUME Init PROVE RateTypes /\ LocalInv
    OBVIOUS
  <2>1. RateTypes BY TypesInit
  <2>2. ASSUME NEW d \in Enabled, NEW t \in 0..MaxTime, NEW u \in 0..MaxTime
        PROVE  SumOf([i \in t..u |-> admitted[d][i]]) = 0
    <3> DEFINE f == [i \in t..u |-> admitted[d][i]]
    <3>1. DOMAIN f = t..u /\ Summable(f) /\ SumOf(f) \in Nat BY <2>1, Interval
    <3>2. \A i \in t..u : f[i] = 0
      <4> TAKE i \in t..u
      <4>1. i \in 0..MaxTime BY DEF RateAssumption
      <4> QED BY <4>1 DEF Init
    <3> HIDE DEF f
    <3>3. UnitsOf(f) = {}
      <4>1. \A i \in DOMAIN f : 1 .. f[i] = {} BY <3>1, <3>2
      <4> QED BY <4>1, UnitsIn
    <3> QED BY <3>3, FS_EmptySet DEF SumOf, f
  <2>3. ASSUME NEW d \in Enabled, NEW t \in 0..MaxTime PROVE Paid(d, t)
    <3>1. MaxTime \in 0..MaxTime BY DEF RateAssumption
    <3>2. Since(d, t) = 0 BY <2>2, <3>1 DEF Since
    <3>3. bucket[d].tokens = Capacity(d) /\ bucket[d].last = Unset BY DEF Init
    <3>4. Span(Unset, t) = 0 BY DEF Span
    <3>5. Capacity(d) \in Nat /\ Limit[d] \in Nat BY <2>1, LimitIs
    <3> QED BY <3>2, <3>3, <3>4, <3>5 DEF Paid
  <2>4. ASSUME NEW d \in Enabled PROVE Kept(d)
    <3>1. now = 0 BY DEF Init
    <3> QED BY <3>1 DEF Kept, RateAssumption
  <2> QED BY <2>1, <2>3, <2>4 DEF LocalInv
<1>2. Inv /\ [Next]_vars => Inv'
  BY TypesStep, LocalStep
<1>3. Inv => LocalRateHeld
  <2> SUFFICES ASSUME RateTypes, LocalInv, form = "local", NEW d \in DOMAIN admitted,
                      NEW t \in 0..MaxTime, NEW u \in 0..MaxTime, t <= u
               PROVE  SumOf([i \in t..u |-> admitted[d][i]])
                      <= Capacity(d) + Limit[d] * (u - t + MaxDelay)
    BY DEF LocalRateHeld, RateHeld
  <2>1. d \in Enabled BY DEF RateTypes
  <2>2. Kept(d) /\ Paid(d, t) BY <2>1 DEF LocalInv
  <2>3. now \in Nat /\ u \in Nat BY DEF RateTypes, RateAssumption
  <2>4. CASE u < now BY <2>2, <2>4 DEF Kept
  <2>5. CASE now <= u BY <2>1, <2>2, <2>5, PaidBounds
  <2> QED BY <2>3, <2>4, <2>5
<1> QED BY <1>1, <1>2, <1>3, PTL DEF Spec

-----------------------------------------------------------------------------
(* Denials.                                                                *)

\* A bucket that has just been touched is full a minute later.
LEMMA FullLater ==
    ASSUME RateAssumption, RateTypes, NEW d \in Enabled, NEW last \in Nat, last <= now,
           NEW tokens \in Nat
    PROVE  tokens + Limit[d] * (now + Minute) >= Capacity(d) + Limit[d] * last
<1>1. now \in Nat /\ Minute \in Nat BY DEF RateTypes, RateAssumption
<1>2. Limit[d] \in Nat /\ Capacity(d) \in Nat /\ Capacity(d) = Limit[d] * Minute BY LimitIs
<1>3. Limit[d] * (now + Minute) = Limit[d] * now + Limit[d] * Minute
      /\ Limit[d] * now \in Int /\ Limit[d] * last \in Int /\ Limit[d] * last <= Limit[d] * now
  BY <1>1, <1>2, Product
<1> DEFINE x == Limit[d] * (now + Minute)
           y == Limit[d] * now
           z == Limit[d] * last
<1>4. x = y + Capacity(d) /\ y \in Int /\ z \in Int /\ z <= y BY <1>2, <1>3
<1> HIDE DEF x, y, z
<1>5. tokens + x >= Capacity(d) + z BY <1>2, <1>4
<1> QED BY <1>5 DEF x, z

\* FillsUp of a bucket touched now.
LEMMA TouchedFills ==
    ASSUME RateAssumption, RateTypes, RateTypes', NEW d \in Enabled, Limit' = Limit,
           Enabled' = Enabled, Capacity(d)' = Capacity(d), now' = now, touched' = now,
           bucket'[d].last = Unset => bucket'[d].tokens = 0,
           bucket'[d].until = 0 \/ bucket'[d].until <= now + Penalty
    PROVE  FillsUp(d)'
<1>1. bucket'[d] \in BucketType /\ (bucket'[d].last # Unset => bucket'[d].last <= now)
  BY DEF RateTypes, BucketBounds
<1>2. CASE bucket'[d].last = Unset BY <1>2 DEF FillsUp
<1>3. CASE bucket'[d].last # Unset
  <2>1. bucket'[d].last \in Nat /\ bucket'[d].tokens \in Nat BY <1>1, <1>3 DEF BucketType
  <2>2. bucket'[d].tokens + Limit[d] * (now + Minute)
        >= Capacity(d) + Limit[d] * bucket'[d].last
    BY <1>1, <1>3, <2>1, FullLater
  <2> QED BY <1>3, <2>2 DEF FillsUp
<1> QED BY <1>2, <1>3

\* A refill alone brings a bucket no further from full.
LEMMA RefilledFills ==
    ASSUME RateAssumption, RateTypes, RateTypes', NEW d \in Enabled, Limit' = Limit,
           Capacity(d)' = Capacity(d), touched \in Int, touched' = touched, FillsUp(d),
           bucket[d].last # Unset, NEW at, Refill(bucket[d], bucket'[d], d, at)
    PROVE  FillsUp(d)'
<1> DEFINE b == bucket[d]
           r == bucket'[d]
<1>1. PICK e \in Nat :
        /\ r.last <= b.last + e
        /\ r.tokens = b.tokens + e * Limit[d] \/ r.tokens = Capacity(d)
  BY DEF Refill
<1>2. /\ b \in BucketType /\ r \in BucketType /\ r.last # Unset /\ r.until = b.until
      /\ b.tokens <= Capacity(d) /\ r.tokens <= Capacity(d)
  BY DEF Refill, RateTypes, BucketBounds
<1>3. /\ b.tokens \in Nat /\ r.tokens \in Nat /\ b.last \in Nat /\ r.last \in Nat
      /\ b.until \in Nat
  BY <1>2 DEF BucketType
<1>4. Limit[d] \in Nat /\ Capacity(d) \in Nat /\ Minute \in Nat
  BY LimitIs DEF RateAssumption
<1>5. CASE r.tokens = Capacity(d)
  BY <1>2, <1>5 DEF FillsUp
<1>6. CASE r.tokens # Capacity(d)
  <2>1. r.tokens = b.tokens + e * Limit[d] BY <1>1, <1>6
  <2>2. e * Limit[d] = Limit[d] * e /\ Limit[d] * e \in Nat BY <1>4
  <2>3. b.tokens # Capacity(d)
    BY <1>2, <1>3, <1>4, <1>6, <2>1, <2>2
  <2>4. b.tokens + Limit[d] * (touched + Minute) >= Capacity(d) + Limit[d] * b.last
    BY <2>3 DEF FillsUp
  <2>5. /\ Limit[d] * r.last <= Limit[d] * (b.last + e)
        /\ Limit[d] * (b.last + e) = Limit[d] * b.last + Limit[d] * e
        /\ Limit[d] * r.last \in Int /\ Limit[d] * b.last \in Int
        /\ Limit[d] * (touched + Minute) \in Int
    <3>1. b.last + e \in Int /\ r.last \in Int /\ b.last \in Int /\ touched + Minute \in Int
      BY <1>3, <1>4
    <3> QED BY <1>1, <1>4, <3>1, Product
  <2> DEFINE x == Limit[d] * (touched + Minute)
             y == Limit[d] * b.last
             z == Limit[d] * r.last
             w == Limit[d] * e
  <2>6. /\ x \in Int /\ y \in Int /\ z \in Int /\ w \in Nat /\ z <= y + w
        /\ b.tokens + x >= Capacity(d) + y /\ r.tokens = b.tokens + w
    BY <2>1, <2>2, <2>4, <2>5
  <2> HIDE DEF x, y, z, w, b, r
  <2>7. r.tokens + x >= Capacity(d) + z
    BY <1>3, <1>4, <2>6
  <2>8. r.tokens + Limit[d] * (touched + Minute) >= Capacity(d) + Limit[d] * r.last
    BY <2>7 DEF x, z
  <2> QED BY <1>2, <2>8 DEF FillsUp, b, r
<1> QED BY <1>5, <1>6

\* Every step keeps FillInv.
LEMMA FillStep ==
    ASSUME RateAssumption, RateTypes, RateTypes', FillInv, [Next]_vars
    PROVE  FillInv'
<1>1. /\ Limit' = Limit /\ Enabled' = Enabled /\ \A d : Capacity(d)' = Capacity(d)
  BY Fixed
<1>2. /\ now \in Nat /\ now' \in Nat /\ now <= now' /\ Penalty \in Nat
      /\ touched \in Int /\ touched <= now
  BY CallersStep DEF RateTypes, RateAssumption, FillInv
<1>3. ASSUME NEW c \in Caller, Serves(c)
      PROVE  FillInv'
  <2>1. /\ stamp[c] \in Nat /\ stamp[c] <= now
        /\ \A d \in Enabled : \E cost \in Nat : Charge(d, stamp[c], cost)
        /\ now' = now /\ touched' \in {touched, now}
        /\ (\E d \in Enabled : \E cost \in Nat : cost # 0 /\ Charge(d, stamp[c], cost))
              \/ (\E d \in Enabled : bucket[d].last = Unset) => touched' = now
    BY <1>3, ServesIs
  <2>2. ASSUME NEW d \in Enabled PROVE FillsUp(d)'
    <3> DEFINE r == Refilled(d, stamp[c])
    <3>1. PICK cost \in Nat : Charge(d, stamp[c], cost) BY <2>1
    <3>2. Refill(bucket[d], r, d, stamp[c]) BY <2>1, RefillIs
    <3>3. /\ r \in BucketType /\ r.last # Unset /\ r.until = bucket[d].until
      BY <3>2 DEF Refill
    <3>4. bucket'[d] = [r EXCEPT !.tokens = @ - cost] BY <3>1 DEF Charge
    <3> HIDE DEF r
    <3>5. bucket'[d].last = r.last /\ bucket'[d].until = bucket[d].until
      BY <3>3, <3>4 DEF BucketType
    <3>6. bucket[d].until \in Nat /\ (bucket[d].until = 0 \/ bucket[d].until <= touched + Penalty)
      BY DEF FillInv, FillsUp, RateTypes, BucketBounds, BucketType
    <3>7. CASE touched' = now
      <4>1. bucket[d].until = 0 \/ bucket[d].until <= now + Penalty BY <1>2, <3>6
      <4> QED BY <1>1, <2>1, <3>3, <3>5, <3>7, <4>1, TouchedFills
    <3>8. CASE touched' # now
      <4>1. cost = 0 /\ bucket[d].last # Unset /\ touched' = touched
        BY <2>1, <3>1, <3>8
      <4>2. r.tokens \in Nat BY <3>3 DEF BucketType
      <4>3. [r EXCEPT !.tokens = @ - 0] = r
        BY <3>3, <4>2 DEF BucketType
      <4>4. bucket'[d] = r BY <3>4, <4>1, <4>3
      <4>5. Refill(bucket[d], bucket'[d], d, stamp[c]) BY <3>2, <4>4
      <4>6. FillsUp(d) BY DEF FillInv
      <4> QED BY <1>1, <1>2, <4>1, <4>5, <4>6, RefilledFills
    <3> QED BY <3>7, <3>8
  <2> QED BY <1>1, <1>2, <2>1, <2>2 DEF FillInv
<1>4. ASSUME NEW d \in Enabled, bucket'[d] = bucket[d], touched' \in Int, touched <= touched'
      PROVE  FillsUp(d)'
  <2> DEFINE b == bucket[d]
  <2>1. Limit[d] \in Nat /\ Capacity(d) \in Nat /\ Minute \in Nat BY LimitIs DEF RateAssumption
  <2>2. b.tokens \in Nat /\ b.until \in Nat /\ b.last \in Nat \cup {Unset}
    BY DEF RateTypes, BucketBounds, BucketType
  <2>3. Limit[d] * (touched + Minute) <= Limit[d] * (touched' + Minute)
        /\ Limit[d] * (touched + Minute) \in Int /\ Limit[d] * (touched' + Minute) \in Int
    <3>1. touched + Minute \in Int /\ touched' + Minute \in Int
          /\ touched + Minute <= touched' + Minute
      <4>1. touched \in Int /\ touched' \in Int /\ Minute \in Int /\ touched <= touched'
        BY <1>2, <1>4, <2>1
      <4>2. \A x, y, m \in Int : x <= y => x + m \in Int /\ y + m \in Int /\ x + m <= y + m
        OBVIOUS
      <4> QED BY <4>1, <4>2
    <3> QED BY <2>1, <3>1, Product
  <2>4. FillsUp(d) BY DEF FillInv
  <2>5. b.until = 0 \/ b.until <= touched' + Penalty
    BY <1>2, <1>4, <2>2, <2>4 DEF FillsUp
  <2>6. ASSUME b.last # Unset, b.tokens # Capacity(d)
        PROVE  b.tokens + Limit[d] * (touched' + Minute) >= Capacity(d) + Limit[d] * b.last
    <3>1. b.tokens + Limit[d] * (touched + Minute) >= Capacity(d) + Limit[d] * b.last
      BY <2>4, <2>6 DEF FillsUp
    <3>2. Limit[d] * b.last \in Int
      <4>1. b.last \in Int BY <2>2, <2>6
      <4> QED BY <2>1, <4>1, Product
    <3> DEFINE x == Limit[d] * (touched + Minute)
               y == Limit[d] * (touched' + Minute)
               z == Limit[d] * b.last
    <3>3. x \in Int /\ y \in Int /\ z \in Int /\ x <= y /\ b.tokens + x >= Capacity(d) + z
      BY <2>3, <3>1, <3>2
    <3> HIDE DEF x, y, z, b
    <3>4. b.tokens + y >= Capacity(d) + z BY <2>1, <2>2, <3>3
    <3> QED BY <3>4 DEF y, z
  <2> QED BY <1>1, <1>4, <2>4, <2>5, <2>6 DEF FillsUp
<1>5. ASSUME NEW c \in Caller, Penalizes(c)
      PROVE  FillInv'
  <2>1. now' = now /\ touched' = now BY <1>5 DEF Penalizes
  <2>2. stamp[c] \in Nat /\ stamp[c] <= now BY <1>5 DEF Penalizes, RateTypes, InTime
  <2>3. ASSUME NEW d \in Enabled, bucket'[d] # bucket[d] PROVE FillsUp(d)'
    <3>1. /\ bucket'[d].tokens = 0
          /\ \/ bucket'[d].until = stamp[c] + Penalty
             \/ bucket'[d].until = bucket[d].until
      BY <1>5, <2>3, PenaltyIs
    <3>2. bucket[d].until \in Nat /\ (bucket[d].until = 0 \/ bucket[d].until <= touched + Penalty)
      BY DEF FillInv, FillsUp, RateTypes, BucketBounds, BucketType
    <3>3. bucket'[d].until = 0 \/ bucket'[d].until <= now + Penalty
      BY <1>2, <2>2, <3>1, <3>2
    <3> QED BY <1>1, <2>1, <3>1, <3>3, TouchedFills
  <2> QED BY <1>1, <1>2, <1>4, <2>1, <2>3 DEF FillInv
<1>6. ASSUME \A c \in Caller : ~Serves(c) /\ ~Penalizes(c)
      PROVE  FillInv'
  <2>1. UNCHANGED <<bucket, touched>> BY <1>6, QuietRate
  <2> QED BY <1>1, <1>2, <1>4, <2>1 DEF FillInv
<1> QED BY <1>3, <1>5, <1>6

\* A bucket that nobody touched for a minute and the penalty admits what fits
\* its capacity.
LEMMA RestedAdmits ==
    ASSUME RateAssumption, RateTypes, FillInv, NEW d \in Enabled, NEW at \in Nat, at <= now,
           NEW p \in Nat, at >= touched + Minute, at >= touched + Penalty,
           ~(bucket[d].last = Unset /\ bucket[d].tokens = 0), Cost(d, p) <= Capacity(d)
    PROVE  Admits(Refilled(d, at), d, p, at)
<1> DEFINE b == bucket[d]
           r == Refilled(d, at)
<1>1. Refill(b, r, d, at) BY RefillIs
<1>2. /\ r \in BucketType /\ r.until = b.until /\ r.tokens <= Capacity(d)
      /\ b.last = Unset => r.tokens = b.tokens
  BY <1>1 DEF Refill
<1>3. /\ b.tokens \in Nat /\ b.until \in Nat /\ b.last \in Nat \cup {Unset}
      /\ b.tokens <= Capacity(d) /\ r.tokens \in Nat
  BY <1>2 DEF RateTypes, BucketBounds, BucketType
<1>4. /\ Limit[d] \in Nat /\ Capacity(d) \in Nat /\ Minute \in Nat /\ Penalty \in Nat
      /\ touched \in Int
  BY LimitIs DEF RateAssumption, FillInv
<1>5. FillsUp(d) BY DEF FillInv
<1>6. at >= r.until BY <1>2, <1>3, <1>4, <1>5 DEF FillsUp
<1>7. r.tokens = Capacity(d)
  <2>1. CASE b.last = Unset BY <1>2, <1>5, <2>1 DEF FillsUp
  <2>2. CASE b.last # Unset
    <3>0. b.last \in Nat BY <1>3, <2>2
    <3> DEFINE e == IF at > b.last THEN at - b.last ELSE 0
               w == e * Limit[d]
    <3>1. e \in Nat /\ e = Elapsed(b, at) BY <2>2, <3>0 DEF Elapsed
    <3>2. r.tokens = IF b.tokens + w < Capacity(d) THEN b.tokens + w ELSE Capacity(d)
      <4>1. b \in BucketType BY DEF RateTypes, BucketBounds
      <4> QED BY <3>1, <4>1 DEF Refilled, BucketType
    <3>3. w = Limit[d] * e /\ w \in Nat BY <1>4, <3>1
    <3>4. CASE b.tokens = Capacity(d)
      BY <1>3, <1>4, <3>2, <3>3, <3>4
    <3>5. CASE b.tokens # Capacity(d)
      <4>1. b.tokens + Limit[d] * (touched + Minute) >= Capacity(d) + Limit[d] * b.last
        BY <1>5, <2>2, <3>5 DEF FillsUp
      <4>2. /\ Limit[d] * (touched + Minute) <= Limit[d] * (b.last + e)
            /\ Limit[d] * (b.last + e) = Limit[d] * b.last + Limit[d] * e
            /\ Limit[d] * (touched + Minute) \in Int /\ Limit[d] * b.last \in Int
        <5>1. /\ touched + Minute \in Int /\ b.last \in Int /\ e \in Int /\ b.last + e \in Int
              /\ touched + Minute <= b.last + e
          BY <1>4, <3>0, <3>1
        <5> HIDE DEF e, b
        <5> QED BY <1>4, <5>1, Product
      <4> DEFINE x == Limit[d] * (touched + Minute)
                 y == Limit[d] * b.last
      <4>3. /\ x \in Int /\ y \in Int /\ x <= y + w /\ b.tokens + x >= Capacity(d) + y
        BY <3>3, <4>1, <4>2
      <4> HIDE DEF x, y, w, b, r
      <4>4. b.tokens + w >= Capacity(d) BY <1>3, <1>4, <3>3, <4>3
      <4> QED BY <1>3, <1>4, <3>2, <3>3, <4>4
    <3> QED BY <3>4, <3>5
  <2> QED BY <2>1, <2>2
<1> QED BY <1>6, <1>7 DEF Admits

\* Every form of the bucket pair: a caller that is denied has a cause, an
\* admission or a refusal that is recent, or a request that can never fit.
THEOREM DenialHolds == Spec => DenialJustified
<1> USE RateAssumption
<1> DEFINE Inv == RateTypes /\ FillInv
<1>1. Init => Inv
  <2> SUFFICES ASSUME Init PROVE RateTypes /\ FillInv
    OBVIOUS
  <2>1. RateTypes BY TypesInit
  <2>2. FillInv BY DEF Init, FillInv, FillsUp, RateAssumption
  <2> QED BY <2>1, <2>2
<1>2. Inv /\ [Next]_vars => Inv'
  BY TypesStep, FillStep
<1>3. ASSUME Inv, [Next]_vars
      PROVE  [\A c \in Caller :
                pc[c] = "asked" /\ pc'[c] = "idle" /\ answered' = "denied"
                  => \/ stamp[c] < touched + Minute \/ stamp[c] < touched + Penalty
                     \/ \E d \in Enabled : bucket[d].last = Unset /\ bucket[d].tokens = 0
                     \/ \E d \in Enabled : Cost(d, want[c]) > Capacity(d)]_vars
  <2> SUFFICES ASSUME NEW c \in Caller, pc[c] = "asked", pc'[c] = "idle",
                      answered' = "denied",
                      ~(stamp[c] < touched + Minute), ~(stamp[c] < touched + Penalty),
                      \A d \in Enabled : ~(bucket[d].last = Unset /\ bucket[d].tokens = 0),
                      \A d \in Enabled : ~(Cost(d, want[c]) > Capacity(d))
               PROVE  FALSE
    OBVIOUS
  <2>0. RateTypes /\ FillInv BY <1>3
  <2>1. Serves(c)
    <3>1. pc \in [Caller -> {"idle", "asked", "penalizing"}] BY <2>0 DEF RateTypes
    <3>2. ASSUME NEW x \in Caller, Serves(x) PROVE x = c
      BY <3>1, <3>2 DEF Serves, Leaves
    <3>3. ASSUME NEW x \in Caller, FailsOpen(x) \/ PenaltyLost(x) \/ Penalizes(x) PROVE FALSE
      BY <3>1, <3>3 DEF FailsOpen, PenaltyLost, Penalizes, Leaves
    <3>4. ASSUME NEW x \in Caller,
                 \/ AsksUnlimited(x) \/ SeesRefusal(x) \/ \E p \in Estimate : Asks(x, p)
          PROVE  FALSE
      BY <3>1, <3>4 DEF AsksUnlimited, SeesRefusal, Asks
    <3>5. ~Tick /\ ~UNCHANGED vars BY DEF Tick, vars
    <3> QED BY <1>3, <3>2, <3>3, <3>4, <3>5 DEF Next, Acquires, TenantCheck, CheckAndDebit
  <2>2. /\ stamp[c] \in Nat /\ stamp[c] <= now /\ want[c] \in Nat
        /\ touched \in Int /\ Minute \in Nat /\ Penalty \in Nat
    BY <2>0 DEF RateTypes, InTime, FillInv, RateAssumption
  <2>3. ASSUME NEW d \in Enabled PROVE Admits(Refilled(d, stamp[c]), d, want[c], stamp[c])
    <3>1. Capacity(d) \in Nat /\ Cost(d, want[c]) \in Nat BY <2>0, <2>2, LimitIs DEF Cost
    <3>2. Cost(d, want[c]) <= Capacity(d) BY <3>1
    <3>3. stamp[c] >= touched + Minute /\ stamp[c] >= touched + Penalty BY <2>2
    <3> QED BY <2>0, <2>2, <3>2, <3>3, RestedAdmits
  <2>4. answered' = "admitted" BY <2>1, <2>3 DEF Serves
  <2> QED BY <2>4
<1> QED BY <1>1, <1>2, <1>3, PTL DEF Spec, DenialJustified
=============================================================================
