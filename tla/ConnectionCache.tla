--------------------------- MODULE ConnectionCache ---------------------------
(***************************************************************************)
(* RedisConnectionManagerCache (src/src/redis_operation.rs): every Redis   *)
(* call of a gateway shares one multiplexed connection, made on demand.  A *)
(* call that fails, or that is dropped before its answer (the timeout of   *)
(* run_redis_operation, a caller that went away), leaves a connection whose *)
(* replies can no longer be trusted: its guard retires that generation.    *)
(***************************************************************************)
EXTENDS Naturals

CONSTANTS
    Call,       \* concurrent Redis calls
    MaxMade     \* bound: connections made

VARIABLES
    current,    \* the cached generation, 0 when there is none
    creation,   \* the call that holds the creation mutex
    at,         \* each call: "idle", "creation" (waits for the mutex),
                \* "connect" (holds it), "use"
    with,       \* the generation a call uses
    made,       \* generations made
    spoiled     \* history: generations a call was not answered on

vars == <<current, creation, at, with, made, spoiled>>

NoCall == "none"

Init ==
    /\ current = 0 /\ creation = NoCall
    /\ at = [c \in Call |-> "idle"] /\ with = [c \in Call |-> 0]
    /\ made = 0 /\ spoiled = {}

Uses(c, g) == at' = [at EXCEPT ![c] = "use"] /\ with' = [with EXCEPT ![c] = g]
Ends(c) == at' = [at EXCEPT ![c] = "idle"] /\ with' = [with EXCEPT ![c] = 0]

\* generation(): the look before the creation mutex.
Looks(c) ==
    /\ at[c] = "idle"
    /\ IF current # 0
       THEN Uses(c, current)
       ELSE at' = [at EXCEPT ![c] = "creation"] /\ UNCHANGED with
    /\ UNCHANGED <<current, creation, made, spoiled>>

\* Whoever gets the mutex takes the connection made while it waited.
LooksAgain(c) ==
    IF current # 0
    THEN Uses(c, current) /\ UNCHANGED creation
    ELSE creation' = c /\ at' = [at EXCEPT ![c] = "connect"] /\ UNCHANGED with

TakesMutex(c) ==
    /\ at[c] = "creation" /\ creation = NoCall
    /\ LooksAgain(c)
    /\ UNCHANGED <<current, made, spoiled>>

Connects(c) ==
    /\ at[c] = "connect" /\ made < MaxMade
    /\ made' = made + 1 /\ current' = made + 1 /\ creation' = NoCall
    /\ Uses(c, made + 1)
    /\ UNCHANGED spoiled

\* ConnectionManager::new fails, or the call is dropped while it waits or connects.
GivesUp(c) ==
    /\ at[c] \in {"creation", "connect"}
    /\ creation' = IF creation = c THEN NoCall ELSE creation
    /\ Ends(c)
    /\ UNCHANGED <<current, made, spoiled>>

Answered(c) ==
    /\ at[c] = "use"
    /\ Ends(c)
    /\ UNCHANGED <<current, creation, made, spoiled>>

\* Wrong: whatever is cached.
RetiredBlindly(g) == 0

\* retire(): only the generation the call used, never one made since.
Retired(g) == IF current = g THEN 0 ELSE current

\* ConnectionRetirement::drop while armed: an error, or the future was dropped.
Unanswered(c) ==
    /\ at[c] = "use"
    /\ current' = Retired(with[c])
    /\ spoiled' = spoiled \cup {with[c]}
    /\ Ends(c)
    /\ UNCHANGED <<creation, made>>

Next == \E c \in Call :
    \/ Looks(c) \/ TakesMutex(c) \/ Connects(c) \/ GivesUp(c)
    \/ Answered(c) \/ Unanswered(c)

Spec == Init /\ [][Next]_vars

------------------------------------------------------------------------------
\* The cache holds exactly the connection no call has been left unanswered on:
\* a call that starts after another was cut off never shares its connection,
\* where it could read the other's reply, and neither a late retirement nor two
\* calls that connect at once throw a sound connection away.
SoundOneCached == \A g \in 1..made : (current = g) <=> (g \notin spoiled)
==============================================================================
