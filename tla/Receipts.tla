------------------------------ MODULE Receipts ------------------------------
(***************************************************************************)
(* The store of replay receipts (src/src/proxy/wire/receipts.rs): one file *)
(* per receipt, a journal that says which files count and how much, and a  *)
(* cached index of the journal in every process.  Processes take turns     *)
(* through a file lock; an I/O error returns from the middle of an         *)
(* operation and a crash also loses the index.  A crash is the end of a    *)
(* process: the file system keeps what was done, so a rename is durable at *)
(* once and the directory syncs that follow it are not steps.              *)
(*                                                                         *)
(* Files of an older layout ("legacy") stay where they are and are         *)
(* shadowed once a receipt replaces them.                                  *)
(***************************************************************************)
EXTENDS Integers, Sequences, FiniteSets, Units

CONSTANTS
    Process, Key,
    Size,           \* contents; a content's number is also its size
    Legacy,         \* the legacy file of each key, or None
    MaxCount, MaxTotal, TTL,
    CompactAt,      \* records a journal holds before it is compacted
    MaxPuts, MaxJournals, MaxClock      \* bounds

VARIABLES
    journal,        \* [generation, log]
    files,          \* the managed files: key -> content
    scratch,        \* whether the pending data file exists
    turn,           \* holder of the lock
    index,          \* each process: [generation, offset, entries, shadows, pending]
    step, job,      \* where each process is in its operation, and on what
    clock,
    truth,          \* history: what was last stored under each key and not evicted
    puts            \* puts begun

vars == <<journal, files, scratch, turn, index, step, job, clock, truth, puts>>

None == 0
Nobody == "nobody"
NoKey == "none"
Nothing == [k \in {} |-> None]

\* What an operation works on, and the part of a put that goes into its prepare
\* record (PendingWrite).
NoJob == [op |-> "none", key |-> NoKey, content |-> None, at |-> 0, shadow |-> FALSE,
          victim |-> NoKey]
Write(j) == [key |-> j.key, content |-> j.content, at |-> j.at, shadow |-> j.shadow]
NoWrite == Write(NoJob)

LegacyFiles == {k \in Key : Legacy[k] # None}
LegacyBytes == SumOf(Legacy)

\* scan_legacy_footprint: a baseline beyond the limits freezes the store.
LegacyComplete == Cardinality(LegacyFiles) <= MaxCount /\ LegacyBytes <= MaxTotal

Empty(generation) ==
    [generation |-> generation, offset |-> 0, entries |-> Nothing, shadows |-> {},
     pending |-> NoWrite]

With(f, k, v) == [x \in DOMAIN f \cup {k} |-> IF x = k THEN v ELSE f[x]]
Without(f, k) == [x \in DOMAIN f \ {k} |-> f[x]]
Expired(at, t) == t - at >= TTL

\* apply_record.
ApplyRecord(i, r) ==
    CASE r.op = "put" ->
            [i EXCEPT !.entries = With(@, r.key, [bytes |-> r.bytes, at |-> r.at]),
                      !.shadows = IF r.shadow THEN @ \cup {r.key} ELSE @,
                      !.pending = NoWrite]
      [] r.op = "remove" -> [i EXCEPT !.entries = Without(@, r.key)]
      [] r.op = "shadow" -> [i EXCEPT !.shadows = @ \cup {r.key}]
      [] r.op = "prepare" -> [i EXCEPT !.pending = r.write]
      [] r.op = "abort" -> [i EXCEPT !.pending = NoWrite]

\* refresh_index: what was appended since this index was read, or all of a
\* journal that this is not an index of.
ReadRecord(i, r) == [ApplyRecord(i, r) EXCEPT !.offset = @ + 1]

ReadFrom(i, log) ==
    LET upTo[n \in i.offset..Len(log)] ==
            IF n = i.offset THEN i ELSE ReadRecord(upTo[n - 1], log[n])
    IN  upTo[Len(log)]

Refreshed(i) ==
    IF i.generation = journal.generation /\ i.offset <= Len(journal.log)
    THEN ReadFrom(i, journal.log)
    ELSE ReadFrom(Empty(journal.generation), journal.log)

PutRecord(w) == [op |-> "put", key |-> w.key, bytes |-> w.content, at |-> w.at, shadow |-> w.shadow]

Init ==
    /\ journal = [generation |-> 1, log |-> <<>>]
    /\ files = Nothing /\ scratch = FALSE /\ turn = Nobody
    /\ index = [p \in Process |-> Empty(0)]
    /\ step = [p \in Process |-> "idle"] /\ job = [p \in Process |-> NoJob]
    /\ clock = 0 /\ truth = Legacy /\ puts = 0

At(p, s) == turn = p /\ step[p] = s
Goes(p, s) == step' = [step EXCEPT ![p] = s]
Returns(p) == Goes(p, "idle") /\ turn' = Nobody /\ job' = [job EXCEPT ![p] = NoJob]

\* append_record: written, synced and applied.
Appends(p, r) ==
    /\ journal' = [journal EXCEPT !.log = Append(@, r)]
    /\ index' = [index EXCEPT ![p] = [ApplyRecord(@, r) EXCEPT !.offset = Len(journal.log) + 1]]

------------------------------------------------------------------------------
\* put and get: the lock, then the index.
Opens(p, work) ==
    /\ step[p] = "idle" /\ turn = Nobody
    /\ turn' = p /\ job' = [job EXCEPT ![p] = work]
    /\ index' = [index EXCEPT ![p] = Refreshed(@)]
    /\ Goes(p, IF Refreshed(index[p]).pending = NoWrite THEN "ready" ELSE "reconcile")
    /\ UNCHANGED <<journal, files, scratch, clock, truth>>

OpensPut(p) ==
    /\ puts < MaxPuts /\ puts' = puts + 1
    /\ \E k \in Key, v \in Size : Opens(p, [NoJob EXCEPT !.op = "put", !.key = k, !.content = v])

OpensGet(p) ==
    /\ \E k \in Key : Opens(p, [NoJob EXCEPT !.op = "get", !.key = k])
    /\ UNCHANGED puts

\* Whether an interrupted write reached its file.
Landed(w) == w.key \in DOMAIN files /\ files[w.key] = w.content

\* Wrong: an interrupted write is dropped wherever it stopped.
NeverPut(w) == [op |-> "abort"]

\* The record that settles an interrupted write.
Settlement(w) == IF Landed(w) THEN PutRecord(w) ELSE [op |-> "abort"]

\* reconcile_pending: a data file that was never renamed is removed first.
RemovesScratch(p) ==
    /\ At(p, "reconcile") /\ scratch
    /\ scratch' = FALSE /\ Goes(p, "abort")
    /\ UNCHANGED <<journal, files, turn, index, job, clock, truth, puts>>

Reconciles(p) ==
    /\ \/ At(p, "reconcile") /\ ~ scratch /\ Appends(p, Settlement(index[p].pending))
       \/ At(p, "abort") /\ Appends(p, [op |-> "abort"])
    /\ Goes(p, "ready")
    /\ UNCHANGED <<files, scratch, turn, job, clock, truth, puts>>

\* get: a managed entry, unless expired; a shadow hides the legacy file.
Lookup(i, k) ==
    IF k \in DOMAIN i.entries
    THEN IF Expired(i.entries[k].at, clock) \/ k \notin DOMAIN files THEN None ELSE files[k]
    ELSE IF k \in i.shadows THEN None ELSE Legacy[k]

Gets(p) ==
    LET i == index[p] k == job[p].key
        gone == k \in DOMAIN i.entries /\ Expired(i.entries[k].at, clock)
    IN  /\ At(p, "ready") /\ job[p].op = "get"
        /\ IF gone THEN Goes(p, "evict") /\ UNCHANGED <<turn, job>> ELSE Returns(p)
        /\ UNCHANGED <<journal, files, scratch, index, clock, truth, puts>>

\* put: whether the key has a legacy file, and the early returns.
Admits(p) ==
    LET i == index[p] k == job[p].key
        shadow == k \in i.shadows \/ Legacy[k] # None
        same == k \notin i.shadows \cup DOMAIN i.entries /\ Legacy[k] = job[p].content
    IN  /\ At(p, "ready") /\ job[p].op = "put"
        /\ IF same \/ ~ LegacyComplete
              \/ (shadow /\ k \notin i.shadows /\ Cardinality(i.shadows) >= MaxCount)
           THEN Returns(p)
           ELSE /\ Goes(p, "room") /\ UNCHANGED turn
                /\ job' = [job EXCEPT ![p].at = clock, ![p].shadow = shadow]
        /\ UNCHANGED <<journal, files, scratch, index, clock, truth, puts>>

\* The sum that apply_record keeps.
ManagedBytes(entries) == SumOf([k \in DOMAIN entries |-> entries[k].bytes])

\* Wrong: the new receipt is not counted.
FitsBeside(i, w) ==
    /\ Cardinality(LegacyFiles) + Cardinality(DOMAIN i.entries) <= MaxCount
    /\ LegacyBytes + ManagedBytes(i.entries) <= MaxTotal

\* evict_for_capacity: with the new receipt in place of the old one.
Fits(i, w) ==
    LET others == Without(i.entries, w.key) IN
    /\ Cardinality(LegacyFiles) + Cardinality(DOMAIN others) + 1 <= MaxCount
    /\ LegacyBytes + ManagedBytes(others) + w.content <= MaxTotal

\* expire_entries, then the oldest entry other than the one replaced.
Oldest(i, ks) == {k \in ks : \A o \in ks : i.entries[k].at <= i.entries[o].at}
Victims(i, w) ==
    LET expired == {k \in DOMAIN i.entries : Expired(i.entries[k].at, w.at)} IN
    IF expired # {} THEN Oldest(i, expired)
    ELSE IF Fits(i, w) THEN {}
    ELSE Oldest(i, DOMAIN i.entries \ {w.key})

\* remove_entry: the file, then its record.
RemovesFile(p, k) ==
    /\ files' = Without(files, k)
    /\ truth' = [truth EXCEPT ![k] = None]
    /\ Goes(p, "unlist")
    /\ job' = [job EXCEPT ![p].victim = k]
    /\ UNCHANGED <<journal, scratch, turn, index, clock, puts>>

Evicts(p) ==
    \/ At(p, "room") /\ \E k \in Victims(index[p], job[p]) : RemovesFile(p, k)
    \/ At(p, "evict") /\ RemovesFile(p, job[p].key)

Unlists(p) ==
    /\ At(p, "unlist") /\ Appends(p, [op |-> "remove", key |-> job[p].victim])
    /\ Goes(p, IF job[p].op = "put" THEN "room" ELSE "compact")
    /\ job' = [job EXCEPT ![p].victim = NoKey]
    /\ UNCHANGED <<files, scratch, turn, clock, truth, puts>>

NoRoom(p) ==
    /\ At(p, "room") /\ Victims(index[p], job[p]) = {} /\ ~ Fits(index[p], job[p])
    /\ Returns(p)
    /\ UNCHANGED <<journal, files, scratch, index, clock, truth, puts>>

Prepares(p) ==
    /\ At(p, "room") /\ Victims(index[p], job[p]) = {} /\ Fits(index[p], job[p])
    /\ Appends(p, [op |-> "prepare", write |-> Write(job[p])])
    /\ Goes(p, "write")
    /\ UNCHANGED <<files, scratch, turn, job, clock, truth, puts>>

Writes(p) ==
    /\ At(p, "write")
    /\ scratch' = TRUE /\ Goes(p, "rename")
    /\ UNCHANGED <<journal, files, turn, index, job, clock, truth, puts>>

\* persist_fixed_file: from here on the write survives.
Renames(p) ==
    /\ At(p, "rename")
    /\ scratch' = FALSE /\ files' = With(files, job[p].key, job[p].content)
    /\ truth' = [truth EXCEPT ![job[p].key] = job[p].content]
    /\ Goes(p, "commit")
    /\ UNCHANGED <<journal, turn, index, job, clock, puts>>

Commits(p) ==
    /\ At(p, "commit")
    /\ Appends(p, PutRecord(Write(job[p])))
    /\ Goes(p, "compact")
    /\ UNCHANGED <<files, scratch, turn, job, clock, truth, puts>>

\* compact_if_needed writes the shadows, then the entries from the oldest, to a
\* journal of a new generation and renames it into place.
Listings(S) ==
    {l \in [1..Cardinality(S) -> S] : \A x \in S : \E n \in 1..Cardinality(S) : l[n] = x}

ByAge(i) ==
    {l \in Listings(DOMAIN i.entries) :
        \A m, n \in DOMAIN l : m < n => i.entries[l[m]].at <= i.entries[l[n]].at}

ShadowRecords(l) == [n \in 1..Len(l) |-> [op |-> "shadow", key |-> l[n]]]

EntryRecords(i, l) ==
    [n \in 1..Len(l) |-> PutRecord([key |-> l[n], content |-> i.entries[l[n]].bytes,
                                    at |-> i.entries[l[n]].at, shadow |-> FALSE])]

Rewrites(p, log) ==
    /\ journal' = [generation |-> journal.generation + 1, log |-> log]
    /\ index' = [index EXCEPT ![p].generation = journal.generation + 1, ![p].offset = Len(log)]

Compacts(p) ==
    /\ At(p, "compact")
    /\ IF index[p].pending # NoWrite \/ index[p].offset < CompactAt
       THEN UNCHANGED <<journal, index>>
       ELSE /\ journal.generation < MaxJournals
            /\ \E s \in Listings(index[p].shadows), e \in ByAge(index[p]) :
                  Rewrites(p, ShadowRecords(s) \o EntryRecords(index[p], e))
    /\ Returns(p)
    /\ UNCHANGED <<files, scratch, clock, truth, puts>>

\* An I/O error returns from where the operation is; a crash loses the index too.
Fails(p) ==
    /\ turn = p
    /\ Returns(p)
    /\ index' \in {index, [index EXCEPT ![p] = Empty(0)]}
    /\ UNCHANGED <<journal, files, scratch, clock, truth, puts>>

Tick ==
    /\ clock < MaxClock /\ clock' = clock + 1
    /\ UNCHANGED <<journal, files, scratch, turn, index, step, job, truth, puts>>

Next ==
    \/ \E p \in Process :
        \/ OpensPut(p) \/ OpensGet(p) \/ RemovesScratch(p) \/ Reconciles(p) \/ Gets(p)
        \/ Admits(p) \/ Evicts(p) \/ Unlists(p) \/ NoRoom(p) \/ Prepares(p) \/ Writes(p)
        \/ Renames(p) \/ Commits(p) \/ Compacts(p) \/ Fails(p)
    \/ Tick

Spec == Init /\ [][Next]_vars

------------------------------------------------------------------------------
\* The index a process has once it holds the lock and has settled an
\* interrupted write.
Settled(i) ==
    LET r == Refreshed(i) IN
    IF r.pending = NoWrite THEN r
    ELSE ApplyRecord(r, IF scratch THEN [op |-> "abort"] ELSE Settlement(r.pending))

\* Whatever step of whichever operation is interrupted, every process, with the
\* index it has cached or none, is served what was last stored under a key, or
\* nothing once that has expired or was evicted: no older receipt comes back, no
\* legacy file resurfaces behind one that replaced it, and none is lost to a
\* compaction.  Which receipt an eviction for room chooses is not its subject.
ServesLastStored ==
    \A p \in Process, k \in Key :
        LET i == Settled(index[p]) IN
        \/ Lookup(i, k) = truth[k]
        \/ k \in DOMAIN i.entries /\ Expired(i.entries[k].at, clock)

\* Every managed file is in the journal, or is the one being written, at its size,
\* and with the legacy files they stay within the limits: interrupted puts and
\* evictions leave nothing behind that no later eviction would find.
FilesAccounted ==
    LET i == Refreshed(Empty(0))
        bytes == SumOf(files)
    IN  /\ DOMAIN files \subseteq DOMAIN i.entries \cup {i.pending.key}
        /\ \A k \in DOMAIN files : k # i.pending.key => files[k] = i.entries[k].bytes
        /\ LegacyComplete => /\ Cardinality(LegacyFiles) + Cardinality(DOMAIN files) <= MaxCount
                             /\ LegacyBytes + bytes <= MaxTotal
=============================================================================
