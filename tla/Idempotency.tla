----------------------------- MODULE Idempotency -----------------------------
(***************************************************************************)
(* Replay of completed unary answers (src/src/gateway/idempotency.rs), the *)
(* chat handler that uses it (src/src/gateway/http.rs), and the form it    *)
(* takes in Redis: a pointer to the terminal of a job, kept by the cache   *)
(* scripts of src/src/gateway/distributed/lifecycle.rs.                    *)
(*                                                                         *)
(* A request is its owner key (the digest of tenant, credential, route and *)
(* client key) and its fingerprint; digests are taken as injective.  The   *)
(* answer of the execution r started is r itself.  Bytes and nodes of an   *)
(* entry are charged and limited alike, so one number stands for both.     *)
(* The estimate of a value is any number; estimate_value_footprint gives   *)
(* up once it passes the limit of an entry, which is what MaxEntry says.   *)
(***************************************************************************)
EXTENDS Integers, FiniteSets, Units

CONSTANTS
    Request,
    Asks,           \* the mixtures of requests: each one's key and fingerprint
    GenericKey,     \* keys of the generic API
    Size,           \* footprints of entries and pointers
    TTL,
    Retention,      \* how long a terminal is kept before a pointer extends it
    MaxEntries, MaxEntry, MaxRetained,      \* CacheLimits, or the limits of CACHE_PUT
    MaxNow          \* bound: the clock

VARIABLES
    now,
    shared,     \* the backend is distributed
    req,        \* each request: its key, its fingerprint
    pc,         \* where the chat handler is
    stamp,      \* the time a store was entered, or its pointer was put
    outcome,    \* what the caller got
    entries,    \* local: scoped_entries and generic_entries
    expiry,     \* local: expiry_index
    retained,   \* local: retained_footprint
    pointers,   \* Redis: the value keys
    due,        \* Redis: the expiry sorted set
    charges,    \* Redis: the reservations hash
    count, bytes,   \* Redis: the counters hash
    terminal    \* Redis: until when each job's terminal is retained, 0 for none

localVars == <<entries, expiry, retained>>
redisVars == <<pointers, due, charges, count, bytes>>
handler == <<pc, stamp, outcome>>
vars == <<now, shared, req, handler, localVars, redisVars, terminal>>

None == [kind |-> "none"]

\* What a set of entries or of reservations charges.
Total(es) == SumOf([e \in es |-> e.size])

Init ==
    /\ now = 0 /\ shared \in BOOLEAN
    /\ req \in Asks
    /\ pc = [r \in Request |-> "idle"]
    /\ stamp = [r \in Request |-> 0]
    /\ outcome = [r \in Request |-> None]
    /\ entries = {} /\ expiry = {} /\ retained = 0
    /\ pointers = {} /\ due = {} /\ charges = {} /\ count = 0 /\ bytes = 0
    /\ terminal = [r \in Request |-> 0]

Goes(r, at) == pc' = [pc EXCEPT ![r] = at]

Answers(r, o) ==
    /\ Goes(r, "done")
    /\ outcome' = [outcome EXCEPT ![r] = o]
    /\ UNCHANGED stamp

Misses(r) == Goes(r, "submit") /\ UNCHANGED <<stamp, outcome>>

\* Wrong variant: whatever is kept under the key is replayed.
LooksUpKeyOnly(r, e) == [kind |-> "replay", of |-> e.value, at |-> now]

\* CachedResponse::lookup, and the same comparison on a pointer.
LooksUp(r, e) ==
    IF e.print # req[r].print
    THEN [kind |-> "conflict", at |-> now]
    ELSE [kind |-> "replay", of |-> e.value, at |-> now]

-----------------------------------------------------------------------------
(* The process-local cache.  Each operation holds its mutex.               *)

Under(ns, k) == {e \in entries : e.ns = ns /\ e.key = k}

\* RetainedFootprint::without saturates.
Without(total, removed) == IF removed > total THEN 0 ELSE total - removed

\* Wrong variant: an entry that is replaced leaves its footprint behind.
ReplacesInPlace(es, more) ==
    /\ entries' = (entries \ es) \cup more
    /\ expiry' = (expiry \ {[at |-> e.at, ns |-> e.ns, key |-> e.key] : e \in es})
                    \cup {[at |-> e.at, ns |-> e.ns, key |-> e.key] : e \in more}
    /\ retained' = retained + Total(more)

\* remove_scoped, remove_generic: the entries es leave the map, the index and
\* the footprint; more is what then enters all three.
Replaces(es, more) ==
    /\ entries' = (entries \ es) \cup more
    /\ expiry' = (expiry \ {[at |-> e.at, ns |-> e.ns, key |-> e.key] : e \in es})
                    \cup {[at |-> e.at, ns |-> e.ns, key |-> e.key] : e \in more}
    /\ retained' = Without(retained, Total(es)) + Total(more)

\* purge_expired(t) pops the index; what it pops leaves the maps.
Purged(t) == {e \in entries : e.at <= t /\ [at |-> e.at, ns |-> e.ns, key |-> e.key] \in expiry}

\* store and put: t was read before the lock was taken, so it may be old.
Stores(ns, k, print, value, size, t) ==
    LET gone == Purged(t)
        replaced == Under(ns, k) \ gone
        fits == /\ size <= MaxEntry
                /\ replaced = {} => Cardinality(entries \ gone) < MaxEntries
                /\ Without(Without(retained, Total(gone)), Total(replaced)) + size
                        <= MaxRetained
    IN  IF fits
        THEN Replaces(gone \cup replaced,
                      {[ns |-> ns, key |-> k, print |-> print, value |-> value,
                        size |-> size, at |-> t + TTL]})
        ELSE Replaces(gone, {})

LocalLookup(r) ==
    /\ pc[r] = "lookup" /\ ~shared
    /\ LET kept == Under("scoped", req[r].key)
           dead == {e \in kept : e.at <= now}
       IN  /\ Replaces(dead, {})
           /\ IF kept \ dead = {}
              THEN Misses(r)
              ELSE \E e \in kept \ dead : Answers(r, LooksUp(r, e))
    /\ UNCHANGED <<now, shared, req, redisVars, terminal>>

\* Instant::now(), before the lock.
StoreEntered(r) ==
    /\ pc[r] = "store" /\ ~shared
    /\ Goes(r, "lock")
    /\ stamp' = [stamp EXCEPT ![r] = now]
    /\ UNCHANGED <<now, shared, req, outcome, localVars, redisVars, terminal>>

LocalStore(r) ==
    /\ pc[r] = "lock"
    /\ \E size \in Size : Stores("scoped", req[r].key, req[r].print, r, size, stamp[r])
    /\ Answers(r, [kind |-> "fresh", of |-> r])
    /\ UNCHANGED <<now, shared, req, redisVars, terminal>>

\* The deprecated generic API, used by anyone.
GenericPut(k, size, t) ==
    /\ ~shared
    /\ Stores("generic", k, "any", "any", size, t)
    /\ UNCHANGED <<now, shared, req, handler, redisVars, terminal>>

GenericGet(k) ==
    /\ ~shared
    /\ Replaces({e \in Under("generic", k) : e.at <= now}, {})
    /\ UNCHANGED <<now, shared, req, handler, redisVars, terminal>>

-----------------------------------------------------------------------------
(* The cache in Redis.  A script is atomic.  A native expiry removes the   *)
(* value alone; index, reservation and counters are reconciled later.      *)

Live == {p \in pointers : now <= p.at}

\* The keys ks give back their reservations; a key without one only leaves
\* the index.
Reconciles(ks) ==
    /\ charges' = {c \in charges : c.key \notin ks}
    /\ count' = count - Cardinality({c \in charges : c.key \in ks})
    /\ bytes' = bytes - Total({c \in charges : c.key \in ks})
    /\ due' = {d \in due : d.key \notin ks}

\* CACHE_GET_LUA: a value that has gone takes its accounting with it.
CacheGet(k) ==
    IF \E p \in Live : p.key = k
    THEN UNCHANGED redisVars
    ELSE Reconciles({k}) /\ UNCHANGED pointers

\* CACHE_PUT_LUA, after its purge of at most 16 keys (more than this model has).
CachePut(k, print, value, size) ==
    LET dead == {d.key : d \in {d \in due : d.at <= now}}
        left == {c \in charges : c.key \notin dead}
        previous == {c \in left : c.key = k}
        deadCharges == charges \ left
        count0 == count - Cardinality(deadCharges)
        bytes0 == bytes - Total(deadCharges)
        bytes1 == bytes0 + size - Total(previous)
    IN  IF size > MaxEntry \/ (previous = {} /\ count0 >= MaxEntries) \/ bytes1 > MaxRetained
        THEN Reconciles(dead) /\ pointers' = {p \in pointers : p.key \notin dead}
        ELSE /\ pointers' = {p \in pointers : p.key \notin dead \cup {k}}
                              \cup {[key |-> k, print |-> print, value |-> value, at |-> now + TTL]}
             /\ due' = {d \in due : d.key \notin dead \cup {k}} \cup {[key |-> k, at |-> now + TTL]}
             /\ charges' = (left \ previous) \cup {[key |-> k, size |-> size]}
             /\ count' = count0 + (IF previous = {} THEN 1 ELSE 0)
             /\ bytes' = bytes1

\* CACHE_CLEANUP_LUA, of one batch of due keys.
CacheCleanup ==
    /\ shared
    /\ \E ks \in SUBSET {d.key : d \in {d \in due : d.at <= now}} :
          /\ ks # {}
          /\ Reconciles(ks)
          /\ pointers' = {p \in pointers : p.key \notin ks}
    /\ UNCHANGED <<now, shared, req, handler, localVars, terminal>>

\* scoped_idem_lookup, its first call.  A call that fails or times out, applied
\* or not, is a miss.
PointerGet(r) ==
    /\ pc[r] = "lookup" /\ shared
    /\ \/ /\ CacheGet(req[r].key)
          /\ \/ Misses(r)
             \/ \E p \in Live :
                   /\ p.key = req[r].key
                   /\ LET o == LooksUp(r, p)
                      IN  IF o.kind = "conflict"
                          THEN Answers(r, o)
                          ELSE /\ Goes(r, "read")
                               /\ outcome' = [outcome EXCEPT ![r] = o]
                               /\ UNCHANGED stamp
       \/ Misses(r) /\ UNCHANGED redisVars
    /\ UNCHANGED <<now, shared, req, localVars, terminal>>

\* Its second: the terminal the pointer names may have been cleaned meanwhile.
TerminalRead(r) ==
    /\ pc[r] = "read"
    /\ \/ terminal[outcome[r].of] > 0 /\ Answers(r, outcome[r])
       \/ Goes(r, "submit") /\ outcome' = [outcome EXCEPT ![r] = None] /\ UNCHANGED stamp
    /\ UNCHANGED <<now, shared, req, localVars, redisVars, terminal>>

\* scoped_idem_store, first EXTEND_TERMINAL_LUA: nothing shortens a retention.
\* If the call fails or finds no terminal there will be no pointer.
TerminalExtended(r) ==
    /\ pc[r] = "store" /\ shared
    /\ \/ /\ terminal[r] > 0
          /\ terminal' = [terminal EXCEPT ![r] = IF now + TTL > @ THEN now + TTL ELSE @]
          /\ Goes(r, "put") /\ UNCHANGED <<stamp, outcome>>
       \/ /\ \E kind \in {"fresh", "unheard"} :
                Answers(r, [kind |-> kind, of |-> r])
          /\ \/ UNCHANGED terminal
             \/ /\ terminal[r] > 0
                /\ terminal' = [terminal EXCEPT ![r] = IF now + TTL > @ THEN now + TTL ELSE @]
    /\ UNCHANGED <<now, shared, req, localVars, redisVars>>

\* Then the pointer.  The answer is given whatever becomes of it; the caller
\* may also go away while the call is under way.
PointerPut(r) ==
    /\ pc[r] = "put"
    /\ \/ \E size \in Size : CachePut(req[r].key, req[r].print, r, size)
       \/ UNCHANGED redisVars
    /\ Goes(r, "done")
    /\ stamp' = [stamp EXCEPT ![r] = now]
    /\ \E kind \in {"fresh", "unheard"} :
          outcome' = [outcome EXCEPT ![r] = [kind |-> kind, of |-> r]]
    /\ UNCHANGED <<now, shared, req, localVars, terminal>>

\* CLEANUP_LUA: a terminal past its retention is deleted.
TerminalCleaned(r) ==
    /\ terminal[r] > 0 /\ terminal[r] <= now
    /\ terminal' = [terminal EXCEPT ![r] = 0]
    /\ UNCHANGED <<now, shared, req, handler, localVars, redisVars>>

-----------------------------------------------------------------------------
(* The chat handler.  Authentication, conversion and the policy scope come *)
(* before the lookup; a failure there is an answer of its own.             *)

Arrives(r) ==
    /\ pc[r] = "idle"
    /\ Goes(r, "lookup")
    /\ UNCHANGED <<now, shared, req, stamp, outcome, localVars, redisVars, terminal>>

\* submit_prepared.  Only a success is stored.
Executes(r) ==
    /\ pc[r] = "submit"
    /\ Goes(r, "store")
    /\ terminal' = IF shared THEN [terminal EXCEPT ![r] = now + Retention] ELSE terminal
    /\ UNCHANGED <<now, shared, req, stamp, outcome, localVars, redisVars>>

ExecutionFails(r) ==
    /\ pc[r] = "submit"
    /\ Answers(r, [kind |-> "failed"])
    /\ UNCHANGED <<now, shared, req, localVars, redisVars, terminal>>

\* The caller goes away at a wait of the handler.  The local cache has none.
Drops(r) ==
    /\ pc[r] \in {"submit", "read"} \/ (shared /\ pc[r] = "lookup")
    /\ Answers(r, [kind |-> "dropped"])
    /\ UNCHANGED <<now, shared, req, localVars, redisVars, terminal>>

Tick ==
    /\ now < MaxNow
    /\ now' = now + 1
    /\ UNCHANGED <<shared, req, handler, localVars, redisVars, terminal>>

Handles(r) ==
    \/ Arrives(r) \/ LocalLookup(r) \/ PointerGet(r) \/ TerminalRead(r)
    \/ Executes(r) \/ ExecutionFails(r) \/ Drops(r)
    \/ StoreEntered(r) \/ LocalStore(r) \/ TerminalExtended(r) \/ PointerPut(r)

Generic == \E k \in GenericKey : GenericGet(k) \/ \E size \in Size, t \in 0..now : GenericPut(k, size, t)

Next == (\E r \in Request : Handles(r) \/ TerminalCleaned(r)) \/ Generic \/ CacheCleanup \/ Tick

Spec == Init /\ [][Next]_vars

-----------------------------------------------------------------------------
(* Properties.                                                             *)

\* A replay gives an answer executed for an identical request of the same
\* owner, found no later than its time to live after it was stored; a conflict
\* is reported only while another request of the owner holds the key.  Stores
\* of concurrent misses may arrive in any order, late and after their callers.
ReplayFaithful ==
    \A r \in Request : pc[r] = "done" /\ outcome[r].kind \in {"replay", "conflict"} =>
        \E o \in Request :
            /\ outcome[o].kind \in {"fresh", "unheard"}
            /\ outcome[r].at <= stamp[o] + TTL
            /\ req[o].key = req[r].key
            /\ (outcome[r].kind = "replay") <=> (req[o].print = req[r].print)
            /\ outcome[r].kind = "replay" => outcome[r].of = o

\* The accounting of both caches is exact at every step: the local index and
\* footprint are those of the entries, the Redis counters those of the
\* reservations, every readable pointer has a reservation and every
\* reservation a due time, and the limits hold.
CacheAccounted ==
    /\ expiry = {[at |-> e.at, ns |-> e.ns, key |-> e.key] : e \in entries}
    /\ retained = Total(entries)
    /\ \A e, f \in entries : e.ns = f.ns /\ e.key = f.key => e = f
    /\ Cardinality(entries) <= MaxEntries /\ retained <= MaxRetained
    /\ count = Cardinality(charges) /\ bytes = Total(charges)
    /\ {p.key : p \in Live} \subseteq {c.key : c \in charges}
    /\ {c.key : c \in charges} = {d.key : d \in due}
    /\ count <= MaxEntries /\ bytes <= MaxRetained
=============================================================================
