------------------------------ MODULE RateLimit ------------------------------
(***************************************************************************)
(* Token buckets (src/src/proxy/ratelimit.rs, src/src/gateway/quota.rs):   *)
(* a request costs one of the bucket "rpm" and its estimate of the bucket  *)
(* "tpm", all or nothing, and an upstream 429 closes both for a while.     *)
(*                                                                         *)
(* The three forms differ in where the bucket is and in what a clock that  *)
(* was read too early does to it: the limiter of one process ("local"),    *)
(* the tenant quota ("quota") and the script shared by all replicas        *)
(* ("redis").  Every caller reads the clock first and is served later, in  *)
(* any order.  A tick adds Rate[d] tokens; a minute is Minute ticks.       *)
(***************************************************************************)
EXTENDS Integers, Units

CONSTANTS
    Caller,
    Configs,            \* global and provider limits per tick, Unset if omitted
    Unset,
    Estimate,           \* token estimates of requests
    Minute, Penalty,    \* in ticks
    Forms,              \* the forms to look at
    MaxDelay,           \* ticks between reading the clock and being served
    MaxTime             \* bound: the clock's last tick

Dim == {"rpm", "tpm"}
Limits == [Dim -> Nat \cup {Unset}]

ASSUME RateAssumption ==
    /\ Unset \notin Int
    /\ Configs \subseteq [global : Limits, provider : Limits]
    /\ Estimate \subseteq Nat
    /\ Minute \in Nat \ {0} /\ Penalty \in Nat
    /\ MaxDelay \in Nat /\ MaxTime \in Nat

VARIABLES
    form, conf,
    now,
    bucket,     \* per dimension: tokens, the last refill (Unset until the first),
                \* the end of a penalty
    pc, stamp, want,    \* per caller: its step, the clock it read, its estimate
    todo,       \* dimensions a penalty has still to reach
    admitted,   \* history: tokens admitted per dimension and tick
    touched,    \* history: the last tick a bucket was charged, penalized or created
    answered    \* history: how the last caller served was answered

vars == <<form, conf, now, bucket, pc, stamp, want, todo, admitted, touched, answered>>

\* RateLimitConfig::resolve: field by field, the provider's limit or the global.
Limit == [d \in Dim |-> IF conf.provider[d] # Unset THEN conf.provider[d] ELSE conf.global[d]]
Enabled == {d \in Dim : Limit[d] # Unset}
Zero == \E d \in Enabled : Limit[d] = 0
Capacity(d) == Limit[d] * Minute

Init ==
    /\ form \in Forms /\ conf \in Configs
    /\ now = 0
    /\ bucket = [d \in Enabled |-> [tokens |-> Capacity(d), last |-> Unset, until |-> 0]]
    /\ pc = [c \in Caller |-> "idle"]
    /\ stamp = [c \in Caller |-> 0] /\ want = [c \in Caller |-> 1]
    /\ todo = [c \in Caller |-> {}]
    /\ admitted = [d \in Enabled |-> [t \in 0..MaxTime |-> 0]]
    /\ touched = -Minute /\ answered = "nothing"

-----------------------------------------------------------------------------
(* A bucket.                                                               *)

\* A bucket's time begins when it is created, full, by the first to use it.
Elapsed(b, at) == IF b.last # Unset /\ at > b.last THEN at - b.last ELSE 0

RefilledBack(d, at) ==
    LET b == bucket[d]
        elapsed == Elapsed(b, at)
        tokens == b.tokens + elapsed * Limit[d]
    IN  [b EXCEPT !.tokens = IF tokens < Capacity(d) THEN tokens ELSE Capacity(d),
                  !.last = at]

\* TokenBucket::refill keeps the later time; Bucket::refill and the script
\* write the time they were given even when it is the earlier one.
Refilled(d, at) ==
    LET b == bucket[d]
        elapsed == Elapsed(b, at)
        tokens == b.tokens + elapsed * Limit[d]
    IN  [b EXCEPT !.tokens = IF tokens < Capacity(d) THEN tokens ELSE Capacity(d),
                  !.last = IF form = "local" /\ @ # Unset /\ at <= @ THEN @ ELSE at]

Cost(d, p) == IF d = "rpm" THEN 1 ELSE p

\* check: the penalty first, then the balance.
Admits(b, d, p, at) == at >= b.until /\ b.tokens >= Cost(d, p)

\* The caller is done, and what it read is forgotten.
Leaves(c) ==
    /\ pc' = [pc EXCEPT ![c] = "idle"]
    /\ stamp' = [stamp EXCEPT ![c] = 0] /\ want' = [want EXCEPT ![c] = 1]

-----------------------------------------------------------------------------

\* acquire reads the clock, unless there is no limit or a limit of zero.
AsksUnlimited(c) ==
    /\ pc[c] = "idle" /\ (Enabled = {} \/ Zero)
    /\ answered' = IF Zero THEN "denied" ELSE "admitted"
    /\ UNCHANGED <<form, conf, now, bucket, pc, stamp, want, todo, admitted, touched>>

Asks(c, p) ==
    /\ pc[c] = "idle" /\ Enabled # {} /\ ~Zero
    /\ pc' = [pc EXCEPT ![c] = "asked"]
    /\ stamp' = [stamp EXCEPT ![c] = now] /\ want' = [want EXCEPT ![c] = p]
    /\ UNCHANGED <<form, conf, now, bucket, todo, admitted, touched, answered>>

\* A request is served, under the lock or inside the script:
\* both buckets are refilled, both are checked, and both are charged or
\* neither.
ServesHalf(c) ==
    LET at == stamp[c]
        full == [d \in Enabled |-> Refilled(d, at)]
        ok == \A d \in Enabled : Admits(full[d], d, want[c], at)
        pays == {d \in Enabled : Admits(full[d], d, want[c], at)}
    IN  /\ pc[c] = "asked" /\ Leaves(c)
        /\ bucket' = [d \in Enabled |->
                          IF d \in pays
                          THEN [full[d] EXCEPT !.tokens = @ - Cost(d, want[c])] ELSE full[d]]
        /\ IF ok
           THEN /\ admitted' = [d \in Enabled |-> [admitted[d] EXCEPT ![now] = @ + Cost(d, want[c])]]
                /\ touched' = now /\ answered' = "admitted"
           ELSE /\ answered' = "denied" /\ UNCHANGED admitted
                /\ touched' = IF \E d \in Enabled : bucket[d].last = Unset THEN now ELSE touched
        /\ UNCHANGED <<form, conf, now, todo>>

Serves(c) ==
    LET at == stamp[c]
        full == [d \in Enabled |-> Refilled(d, at)]
        ok == \A d \in Enabled : Admits(full[d], d, want[c], at)
    IN  /\ pc[c] = "asked" /\ Leaves(c)
        /\ IF ok
           THEN /\ bucket' = [d \in Enabled |-> [full[d] EXCEPT !.tokens = @ - Cost(d, want[c])]]
                /\ admitted' = [d \in Enabled |-> [admitted[d] EXCEPT ![now] = @ + Cost(d, want[c])]]
                /\ touched' = now /\ answered' = "admitted"
           ELSE /\ bucket' = full /\ answered' = "denied"
                /\ touched' = IF \E d \in Enabled : bucket[d].last = Unset THEN now ELSE touched
                /\ UNCHANGED admitted
        /\ UNCHANGED <<form, conf, now, todo>>

Acquires(c) == form = "local" /\ Serves(c)
TenantCheck(c) == form = "quota" /\ Serves(c)
CheckAndDebit(c) == form = "redis" /\ Serves(c)

\* Redis cannot be reached: the shared limiter fails open.
FailsOpen(c) ==
    /\ pc[c] = "asked" /\ form = "redis"
    /\ Leaves(c) /\ answered' = "unchecked"
    /\ UNCHANGED <<form, conf, now, bucket, todo, admitted, touched>>

\* penalize, after an upstream 429; a tenant's quota knows no penalty.
SeesRefusal(c) ==
    /\ pc[c] = "idle" /\ form # "quota" /\ Enabled # {} /\ ~Zero
    /\ pc' = [pc EXCEPT ![c] = "penalizing"]
    /\ stamp' = [stamp EXCEPT ![c] = now] /\ todo' = [todo EXCEPT ![c] = Enabled]
    /\ UNCHANGED <<form, conf, now, bucket, want, admitted, touched, answered>>

\* One process penalizes both buckets under its lock and keeps the later end
\* of two penalties; the shared one reaches "rpm" and then "tpm", writes the
\* end it has, and does not begin the time of a bucket nobody has used.
Penalizes(c) ==
    /\ pc[c] = "penalizing"
    /\ LET ds == IF form = "redis" /\ "rpm" \in todo[c] THEN {"rpm"} ELSE todo[c] IN
        /\ bucket' = [d \in Enabled |->
             IF d \notin ds THEN bucket[d]
             ELSE LET end == stamp[c] + Penalty IN
                  [bucket[d] EXCEPT !.tokens = 0,
                      !.last = IF form = "local" /\ @ = Unset THEN stamp[c] ELSE @,
                      !.until = IF form = "local" /\ @ > end THEN @ ELSE end]]
        /\ todo' = [todo EXCEPT ![c] = @ \ ds]
        /\ IF ds = todo[c] THEN Leaves(c) ELSE UNCHANGED <<pc, stamp, want>>
    /\ touched' = now
    /\ UNCHANGED <<form, conf, now, admitted, answered>>

PenaltyLost(c) ==
    /\ pc[c] = "penalizing" /\ form = "redis"
    /\ Leaves(c) /\ todo' = [todo EXCEPT ![c] = {}]
    /\ UNCHANGED <<form, conf, now, bucket, admitted, touched, answered>>

\* A lock or an operation of Redis takes a bounded time.
Tick ==
    /\ now < MaxTime
    /\ \A c \in Caller : pc[c] # "idle" => now < stamp[c] + MaxDelay
    /\ now' = now + 1
    /\ UNCHANGED <<form, conf, bucket, pc, stamp, want, todo, admitted, touched, answered>>

Next ==
    \/ Tick
    \/ \E c \in Caller :
         \/ AsksUnlimited(c) \/ (\E p \in Estimate : Asks(c, p))
         \/ Acquires(c) \/ TenantCheck(c) \/ CheckAndDebit(c) \/ FailsOpen(c)
         \/ SeesRefusal(c) \/ Penalizes(c) \/ PenaltyLost(c)

Spec == Init /\ [][Next]_vars

-----------------------------------------------------------------------------
(* Properties.                                                             *)

\* In every interval the admitted requests and tokens stay within one burst
\* and the rate, up to the delay of a single caller: callers that are served
\* with clocks read in another order do not make the bucket fill twice for the
\* same time, however often that happens.
RateHeld ==
    \A d \in DOMAIN admitted, t, u \in 0..MaxTime :
        t <= u => SumOf([i \in t..u |-> admitted[d][i]])
                  <= Capacity(d) + Limit[d] * (u - t + MaxDelay)

\* The buckets of one process keep the rate.
LocalRateHeld == form = "local" => RateHeld

\* A denial costs nobody anything: a request that fits the burst is denied
\* only if something was admitted or refused upstream within the last minute or
\* the penalty, whichever is longer, or if a refusal was noted in a shared bucket
\* that nobody had used before.
\* A request denied for its tokens does not use up requests.
DenialJustified ==
    [][\A c \in Caller :
        pc[c] = "asked" /\ pc'[c] = "idle" /\ answered' = "denied"
          => \/ stamp[c] < touched + Minute \/ stamp[c] < touched + Penalty
             \/ \E d \in Enabled : bucket[d].last = Unset /\ bucket[d].tokens = 0
             \/ \E d \in Enabled : Cost(d, want[c]) > Capacity(d)]_vars
=============================================================================
