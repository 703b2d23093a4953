------------------------------ MODULE TokenCache ------------------------------
(***************************************************************************)
(* The bearer tokens of Vertex and Azure identities                        *)
(* (src/src/providers/token_cache.rs): one token shared by all callers,    *)
(* refreshed early in the background and in line once it is unusable, and  *)
(* dropped when the provider rejects it.                                   *)
(*                                                                         *)
(* A guard on the cached token is never held across another wait except    *)
(* for the claim of a background refresh, which does not wait; so each     *)
(* action below is what runs under one guard.  The refresh mutex is the    *)
(* fair mutex of tokio: it passes to the first in its queue.               *)
(***************************************************************************)
EXTENDS Naturals, Sequences, FiniteSets

CONSTANTS
    Caller,
    Lifetime,       \* what the source may say a token lives
    MaxLead,        \* a refresh begins at most this long before the expiry
    Margin,         \* a token must outlive its sending by more than this
    Cooldown,       \* between refreshes after a failure
    MaxTokens,      \* bound: tokens of the source
    MaxClock        \* bound: the clock

VARIABLES
    clock,
    cached,     \* RwLock<Option<BearerToken>>
    holder,     \* of the refresh mutex: nobody, a caller, or the spawned task
    line,       \* callers waiting for it
    retryAt,    \* what the mutex guards; 0 is None
    call,       \* where each caller is: idle, waiting, loading, sent
    sent,       \* the token a caller sent
    newest,     \* history: the source's latest token
    refused     \* history: tokens the provider has rejected

vars == <<clock, cached, holder, line, retryAt, call, sent, newest, refused>>

NoToken == [id |-> 0, expires |-> 0, refresh |-> 0]
Task == "task"
Free == "free"

Init ==
    /\ clock = 0 /\ cached = NoToken
    /\ holder = Free /\ line = <<>> /\ retryAt = 0
    /\ call = [c \in Caller |-> "idle"] /\ sent = [c \in Caller |-> 0]
    /\ newest = NoToken /\ refused = {}

\* BearerToken::usable
Usable(t) == t.id # 0 /\ t.expires > clock + Margin

\* BearerToken::new
Token(id, life) ==
    LET lead == life \div 4
    IN  [id |-> id, expires |-> clock + life,
         refresh |-> clock + life - (IF lead < MaxLead THEN lead ELSE MaxLead)]

Sends(c, id) ==
    /\ call' = [call EXCEPT ![c] = "sent"]
    /\ sent' = [sent EXCEPT ![c] = id]

Fails(c) == call' = [call EXCEPT ![c] = "idle"] /\ UNCHANGED sent

\* The early refresh is due, nobody has the mutex and its cooldown is over.
ClaimsRefresh == clock >= cached.refresh /\ holder = Free /\ line = <<>> /\ clock >= retryAt

\* header(), with a usable token: it is used, and may start a refresh.
HeaderCached(c) ==
    /\ call[c] = "idle" /\ Usable(cached)
    /\ Sends(c, cached.id)
    /\ IF ClaimsRefresh
       THEN holder' = Task /\ retryAt' = clock + Cooldown
       ELSE UNCHANGED <<holder, retryAt>>
    /\ UNCHANGED <<clock, cached, line, newest, refused>>

\* header(), without one.
HeaderWaits(c) ==
    /\ call[c] = "idle" /\ ~Usable(cached)
    /\ call' = [call EXCEPT ![c] = "waiting"]
    /\ line' = Append(line, c)
    /\ UNCHANGED <<clock, cached, holder, retryAt, sent, newest, refused>>

\* Wrong variant: the token is not looked at again under the mutex.
LoadsUnchecked(c) ==
    /\ line # <<>> /\ c = Head(line) /\ holder = Free
    /\ line' = Tail(line)
    /\ holder' = c /\ call' = [call EXCEPT ![c] = "loading"]
    /\ UNCHANGED <<clock, cached, retryAt, sent, newest, refused>>

\* The mutex is passed on; another caller may have loaded meanwhile.
TakesMutex(c) ==
    /\ line # <<>> /\ c = Head(line) /\ holder = Free
    /\ line' = Tail(line)
    /\ IF Usable(cached)
       THEN Sends(c, cached.id) /\ UNCHANGED holder
       ELSE holder' = c /\ call' = [call EXCEPT ![c] = "loading"] /\ UNCHANGED sent
    /\ UNCHANGED <<clock, cached, retryAt, newest, refused>>

\* load(): the source answers with a token that is usable.
LoadSucceeds(life) ==
    /\ holder # Free /\ newest.id < MaxTokens
    /\ LET t == Token(newest.id + 1, life)
       IN  /\ Usable(t)
           /\ cached' = t
           /\ IF holder = Task THEN UNCHANGED <<call, sent>> ELSE Sends(holder, t.id)
    /\ newest' = cached'
    /\ retryAt' = 0 /\ holder' = Free
    /\ UNCHANGED <<clock, line, refused>>

\* load(): the source fails, is late, or gives a token too short to use.  A
\* token that is still alive stays.
LoadFails ==
    /\ holder # Free
    /\ retryAt' = clock + Cooldown /\ holder' = Free
    /\ IF holder = Task THEN UNCHANGED <<call, sent>> ELSE Fails(holder)
    /\ UNCHANGED <<clock, cached, line, newest, refused>>

\* A caller goes away at one of its waits.
CallerDrops(c) ==
    /\ call[c] \in {"waiting", "loading"}
    /\ Fails(c)
    /\ line' = SelectSeq(line, LAMBDA d : d # c)
    /\ holder' = IF holder = c THEN Free ELSE holder
    /\ UNCHANGED <<clock, cached, retryAt, newest, refused>>

\* reject(), of the token this caller sent, possibly long ago.
Rejects(c) ==
    /\ call[c] = "sent"
    /\ refused' = refused \cup {sent[c]}
    /\ cached' = IF cached.id = sent[c] THEN NoToken ELSE cached
    /\ Fails(c)
    /\ UNCHANGED <<clock, holder, line, retryAt, newest>>

Accepted(c) ==
    /\ call[c] = "sent" /\ Fails(c)
    /\ UNCHANGED <<clock, cached, holder, line, retryAt, newest, refused>>

Tick ==
    /\ clock < MaxClock
    /\ clock' = clock + 1
    /\ UNCHANGED <<cached, holder, line, retryAt, call, sent, newest, refused>>

Calls(c) ==
    \/ HeaderCached(c) \/ HeaderWaits(c) \/ TakesMutex(c) \/ CallerDrops(c)
    \/ Rejects(c) \/ Accepted(c)

Loads == (\E life \in Lifetime : LoadSucceeds(life)) \/ LoadFails

Next == (\E c \in Caller : Calls(c)) \/ Loads \/ Tick

Spec == Init /\ [][Next]_vars

-----------------------------------------------------------------------------
(* Properties.                                                             *)

\* The source is asked only when it has to be: there never was a token, or the
\* newest was rejected, is unusable or due for its refresh; and the newest token
\* is given up only for a newer one or after the provider has rejected that very
\* token, however late the rejections of older ones come.
SourceCallJustified ==
    /\ holder' # Free /\ holder' # holder =>
          newest.id \in refused \/ ~Usable(newest) \/ clock >= newest.refresh
    /\ cached # NoToken /\ cached' # cached =>
          (cached' = newest' /\ newest' # newest) \/ newest.id \in refused'

SourceCallsJustified == [][SourceCallJustified]_vars
=============================================================================
