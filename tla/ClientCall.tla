------------------------------ MODULE ClientCall ------------------------------
(***************************************************************************)
(* One call through the fallback chain (src/src/fallback.rs) and the HTTP  *)
(* client (src/src/client.rs): chain entries, retries of an entry, repair  *)
(* of a managed answer, transport retries, authorization, the attempt's    *)
(* policy callbacks, and what is given back at each end.                   *)
(*                                                                         *)
(* Requests and answers appear by what the code branches on.  Sleeps are   *)
(* nothing; time shows in timeouts, which may strike at every wait, and in *)
(* the caller's logical deadline.  The breaker, the coordinator and the    *)
(* provider answer as they like; Breaker and SpendLedger model the first   *)
(* two.                                                                    *)
(***************************************************************************)
EXTENDS Naturals, Sequences

CONSTANTS
    Provider,
    Chain,              \* the chain's entries, by provider
    FallbackRetries,    \* FallbackConfig.max_retries
    StatusLists,        \* lists FallbackConfig.retryable_statuses may be
    MaxRetries          \* RetryConfig.max_retries

VARIABLES
    conf,       \* is there a policy, a transport that signs, a managed output;
                \* and FallbackConfig.retryable_statuses
    at,         \* chain entry
    try,        \* attempt of the fallback loop on this entry
    round,      \* 0: first answer, 1: its repair
    attempt,    \* attempt of the client's transport loop
    refreshed,  \* authorization_retried
    pc,
    tracker,    \* the attempt's accounting: none, open, closed or abandoned
    fail,       \* the DispatchFailure being handled
    logical,    \* the logical deadline has passed
    limited,    \* policy_limited_providers
    distinct,   \* attempted_distinct_provider_after_limit
    answer,
    sends       \* history: requests sent on this entry

loops == <<at, try, round, attempt, refreshed>>
policy == <<limited, distinct>>
vars == <<conf, loops, pc, tracker, fail, logical, policy, answer, sends>>

None == "none"

\* Error statuses, by what the client does with them: it retries the first two.
Status == {"retryable", "504", "denied", "fatal"}
Upstream == Status \cup {"http", "unusable"}
Failure == Upstream \cup {"local", "local_timeout", "logical", "provider_limit", "refused",
            "observation"}

Init ==
    /\ conf \in [gated : BOOLEAN, transport : BOOLEAN, managed : BOOLEAN,
                 retry : StatusLists]
    /\ at = 1 /\ try = 0 /\ round = 0 /\ attempt = 0 /\ refreshed = FALSE
    /\ pc = "entry" /\ tracker = None /\ fail = None /\ logical = FALSE
    /\ limited = {} /\ distinct = FALSE /\ answer = None
    /\ sends = 0

-----------------------------------------------------------------------------
(* The fallback chain.                                                     *)

\* The loop comes to its next entry.
NextEntry == at' = at + 1 /\ pc' = "entry" /\ fail' = None /\ sends' = 0

\* A route that does not expand or a model that does not resolve, or a
\* provider whose policy has already refused this call.
EntrySkipped ==
    /\ pc = "entry" /\ at <= Len(Chain)
    /\ NextEntry
    /\ UNCHANGED <<conf, try, round, attempt, refreshed, tracker, logical, policy,
                   answer>>

EntryBegins ==
    /\ pc = "entry" /\ at <= Len(Chain)
    /\ Chain[at] \notin limited
    /\ distinct' = (distinct \/ limited # {})
    /\ try' = 0 /\ pc' = "admit"
    /\ UNCHANGED <<conf, at, round, attempt, refreshed, tracker, fail, logical, limited,
                   answer, sends>>

\* The breaker is asked before every attempt of an entry.
BreakerRefuses ==
    /\ pc = "admit"
    /\ NextEntry
    /\ UNCHANGED <<conf, try, round, attempt, refreshed, tracker, logical, policy,
                   answer>>

BreakerAdmits ==
    /\ pc = "admit"
    /\ round' = 0 /\ pc' = "prepare"
    /\ UNCHANGED <<conf, at, try, attempt, refreshed, tracker, fail, logical, policy,
                   answer, sends>>

\* is_retryable, of an upstream failure: a network error, or a status of the list.
is_retryable(f) == f = "http" \/ f \in conf.retry

\* What the fallback loop does with a failure of its dispatch.  Only an
\* upstream failure is retried; a deadline of the attempt (unless 504 is
\* retryable), a refusal or a lost observation end the whole chain.
EntryFails ==
    /\ pc = "failed"
    /\ \/ /\ is_retryable(fail) /\ try < FallbackRetries
          /\ try' = try + 1 /\ pc' = "admit" /\ fail' = None
          /\ UNCHANGED <<at, answer, policy, sends>>
       \/ /\ fail \in Upstream \cup {"local", "local_timeout"}
          /\ is_retryable(fail) => try >= FallbackRetries
          /\ fail = "local_timeout" => "504" \in conf.retry
          /\ NextEntry
          /\ UNCHANGED <<try, answer, policy>>
       \/ /\ fail = "provider_limit"
          /\ limited' = limited \cup {Chain[at]} /\ distinct' = FALSE
          /\ NextEntry
          /\ UNCHANGED <<try, answer>>
       \/ /\ fail \in {"local_timeout", "logical", "refused", "observation"}
          /\ fail = "local_timeout" => "504" \notin conf.retry
          /\ answer' = fail /\ pc' = "done" /\ fail' = None
          /\ UNCHANGED <<at, try, policy, sends>>
    /\ UNCHANGED <<conf, round, attempt, refreshed, tracker, logical>>

\* The chain is exhausted.
ChainEnds ==
    /\ pc = "entry" /\ at > Len(Chain)
    /\ answer' = IF limited # {} /\ ~distinct THEN "provider_limit" ELSE "all_failed"
    /\ pc' = "done"
    /\ UNCHANGED <<conf, loops, tracker, fail, logical, policy, sends>>

-----------------------------------------------------------------------------
(* Ends of an attempt.  A tracker that leaves scope unfinished reports the *)
(* attempt as abandoned.                                                   *)

Dropped == IF tracker = "open" THEN "abandoned" ELSE tracker

\* The dispatch fails; the attempt's accounting, if open, was not closed.
Fails(f) ==
    /\ pc' = "failed" /\ fail' = f
    /\ tracker' = Dropped
    /\ UNCHANGED <<conf, loops, logical, policy, answer, sends>>

\* The attempt's end is reported; without a tracker there is nothing to do.
Closed == IF tracker = "open" THEN "closed" ELSE tracker

\* Accounting is closed, and then the dispatch fails; or the coordinator does
\* not take the report, and that is the failure.
ClosesAndFails(f) ==
    \/ /\ pc' = "failed" /\ fail' = f /\ tracker' = Closed
       /\ UNCHANGED <<conf, loops, logical, policy, answer, sends>>
    \/ tracker = "open" /\ Fails("observation")

\* Accounting is closed and the transport loop goes round again.
ClosesAndRetries ==
    \/ /\ attempt' = attempt + 1 /\ pc' = "authorize" /\ tracker' = Closed
       /\ UNCHANGED <<conf, at, try, round, refreshed, fail, logical, policy, answer, sends>>
    \/ tracker = "open" /\ Fails("observation")

\* The loop goes round while it may, and fails with f on its last attempt.
RetriesOr(f) ==
    IF attempt < MaxRetries THEN ClosesAndRetries ELSE ClosesAndFails(f)

-----------------------------------------------------------------------------
(* The transport loop.                                                     *)

\* Rendering the plan, the preflight or the adapter fails, or the request is
\* prepared.
Prepares ==
    /\ pc = "prepare"
    /\ \/ Fails("local")
       \/ /\ attempt' = 0 /\ refreshed' = FALSE /\ pc' = "authorize" /\ tracker' = None
          /\ UNCHANGED <<conf, at, try, round, fail, logical, policy, answer, sends>>

Authorizes ==
    /\ pc = "authorize"
    /\ \/ conf.gated /\ logical /\ Fails("logical")
       \/ /\ ~(conf.gated /\ logical)
          /\ \/ /\ pc' = "acquire" /\ tracker' = None
                /\ UNCHANGED <<conf, loops, fail, logical, policy, answer, sends>>
             \/ /\ conf.transport /\ attempt < MaxRetries
                /\ attempt' = attempt + 1 /\ tracker' = None
                /\ UNCHANGED <<conf, at, try, round, refreshed, pc, fail, logical, policy,
                               answer, sends>>
             \/ conf.transport /\ Fails("local")

Acquires ==
    /\ pc = "acquire"
    /\ \/ /\ pc' = "send" /\ tracker' = IF conf.gated THEN "open" ELSE None
          /\ UNCHANGED <<conf, loops, fail, logical, policy, answer, sends>>
       \/ /\ conf.gated
          /\ \/ Fails("provider_limit")
             \/ Fails("refused")
             \/ logical /\ Fails("logical")

\* The request leaves.  Between the last look at the logical deadline and
\* here nothing waits.
Sends ==
    /\ pc = "send" /\ ~(conf.gated /\ logical)
    /\ pc' = "headers" /\ sends' = sends + 1
    /\ UNCHANGED <<conf, loops, tracker, fail, logical, policy, answer>>

SendTooLate ==
    /\ pc = "send" /\ conf.gated /\ logical
    /\ Fails("logical")

\* Signing fails: the request never left, so its usage is certainly zero.
SignFails ==
    /\ pc = "send" /\ ~(conf.gated /\ logical) /\ conf.transport
    /\ ClosesAndFails("local")

\* No response headers in time, or the transport breaks.
HeadersTimeOut ==
    /\ pc = "headers"
    /\ RetriesOr("local_timeout")

TransportFails ==
    /\ pc = "headers"
    /\ RetriesOr("http") \/ ClosesAndFails("http")

\* The coordinator does not take the response headers or the usage.
ObservationFails ==
    /\ pc \in {"headers", "body"} /\ tracker = "open"
    /\ Fails("observation")

\* A status the client retries, whatever the fallback loop does with it then.
\* On the last attempt its body is read, and may be too large.
RetryableStatus(s) ==
    /\ pc = "headers" /\ s \in {"retryable", "504"}
    /\ RetriesOr(s) \/ (attempt = MaxRetries /\ ClosesAndFails("local"))

\* Any other error status; its body may be larger than what is read.
FinalStatus(s) ==
    /\ pc = "headers" /\ s \in {"fatal", "denied"}
    /\ ClosesAndFails(s) \/ ClosesAndFails("local")

\* 401 or 403, and the transport has fresh credentials: once per dispatch.
RefreshesEveryTime ==
    /\ pc = "headers" /\ conf.transport
    /\ refreshed' = TRUE /\ pc' = "authorize" /\ tracker' = Closed
    /\ UNCHANGED <<conf, at, try, round, attempt, fail, logical, policy, answer, sends>>

Refreshes ==
    /\ pc = "headers" /\ conf.transport
    /\ ~refreshed /\ attempt < MaxRetries
    /\ refreshed' = TRUE /\ attempt' = attempt + 1 /\ pc' = "authorize"
    /\ tracker' = Closed
    /\ UNCHANGED <<conf, at, try, round, fail, logical, policy, answer, sends>>

Succeeds ==
    /\ pc = "headers"
    /\ pc' = "body"
    /\ UNCHANGED <<conf, loops, tracker, fail, logical, policy, answer, sends>>

\* The body breaks off, is too large or too complex, is late, or does not
\* translate.
BodyFails(f) ==
    /\ pc = "body" /\ f \in {"http", "local", "local_timeout", "unusable"}
    /\ ClosesAndFails(f)

BodyComplete ==
    /\ pc = "body"
    /\ pc' = "validate" /\ tracker' = Closed
    /\ UNCHANGED <<conf, loops, fail, logical, policy, answer, sends>>

-----------------------------------------------------------------------------
(* The managed output's contract.                                          *)

Accepted ==
    /\ pc = "validate"
    /\ answer' = "ok" /\ pc' = "done"
    /\ UNCHANGED <<conf, loops, tracker, fail, logical, policy, sends>>

\* A rejected answer is repaired once, by a dispatch of its own.
Repairs ==
    /\ pc = "validate" /\ conf.managed /\ round = 0
    /\ round' = 1 /\ pc' = "prepare"
    /\ UNCHANGED <<conf, at, try, attempt, refreshed, tracker, fail, logical, policy,
                   answer, sends>>

Rejected ==
    /\ pc = "validate" /\ conf.managed
    /\ Fails("local")

-----------------------------------------------------------------------------

\* The caller's future is dropped at a wait.
CallerDrops ==
    /\ pc # "done"
    /\ pc' = "done" /\ answer' = "dropped" /\ fail' = None
    /\ tracker' = Dropped
    /\ UNCHANGED <<conf, loops, logical, policy, sends>>

LogicalDeadlinePasses ==
    /\ pc # "done" /\ conf.gated /\ ~logical
    /\ logical' = TRUE
    /\ UNCHANGED <<conf, loops, pc, tracker, fail, policy, answer, sends>>

Falls == \/ EntrySkipped \/ EntryBegins \/ BreakerRefuses \/ BreakerAdmits
         \/ EntryFails \/ ChainEnds

Transports ==
    \/ Prepares \/ Authorizes \/ Acquires \/ Sends \/ SendTooLate \/ SignFails
    \/ HeadersTimeOut \/ TransportFails \/ ObservationFails
    \/ (\E s \in Status : RetryableStatus(s) \/ FinalStatus(s))
    \/ Refreshes \/ Succeeds \/ (\E f \in Failure : BodyFails(f)) \/ BodyComplete

Validates == Accepted \/ Repairs \/ Rejected

Next == Falls \/ Transports \/ Validates \/ CallerDrops \/ LogicalDeadlinePasses

Spec == Init /\ [][Next]_vars

-----------------------------------------------------------------------------
(* Properties.                                                             *)

\* The nested loops multiply as they should: one chain entry causes at most
\* (fallback attempts) x (answer and repair) x (transport attempts) requests,
\* whatever mixture of timeouts, credential refreshes, rejections and repairs
\* drives them.
SendsBounded ==
    sends <= (FallbackRetries + 1) * 2 * (MaxRetries + 1)
=============================================================================
