----------------------------- MODULE Components -----------------------------
(***************************************************************************)
(* The components of one call that share nothing with each other in the    *)
(* model: every behaviour is a behaviour of one of them, and the variables *)
(* of the others stand still.                                              *)
(***************************************************************************)
EXTENDS Naturals, Sequences, FiniteSets

CONSTANTS
    Provider, Chain, FallbackRetries, StatusLists, MaxRetries,  \* ClientCall
    SemanticIdle, AttemptTotal, Capacity, Indexes, MaxFrames,   \* EagerStream
    Request, Asks, GenericKey, EntrySize, EntryTTL, EntryRetention,
    MaxCacheEntries, MaxEntry, MaxRetained, MaxCacheNow,        \* Idempotency
    Arrival, Kinds, Permits, Unary, Stream, ChunkBytes, MaxBytes,   \* Ingress
    Caller, Lifetime, MaxLead, Margin, Cooldown, MaxTokens,
    MaxTokenClock,                                              \* TokenCache
    Process, MaxGrants,                                         \* OAuthFile
    Call, MaxMade,                                              \* ConnectionCache
    Wires, Layouts, MaxToolEntries,                             \* ToolStream
    Owner, Key, ReceiptSize, Legacy, MaxCount, MaxTotal, ReceiptTTL, CompactAt,
    MaxPuts, MaxJournals, MaxReceiptClock,                      \* Receipts
    Attempt, Quote, Amount, Limit, MaxExact, WindowSecs, FleetRetention, Places,
    Batch, MaxLegacy, MaxFleetNow                               \* RedisLedger

VARIABLES
    component,  \* the one this behaviour is about
    conf, clientAt, try, round, attempt, refreshed, clientPc, tracker, fail, logical,
    limited, distinct, answer, sends,
    gated, streamNow, idleLeft, frames, streamSeen, streamActive, streamPc, after,
    taken, streamSlot, streamTerminal, finished, streamReader, saw, reports,
    idempotencyNow, shared, req, idempotencyPc, stamp, outcome, entries, expiry,
    retained, pointers, due, charges, count, bytes, idempotencyTerminal,
    gateway, kind, ingressPc, ingressHeld, age, deadline, pump, left, ingressSlot,
    acked, ingressTerminal, boundary, ingressReader, produced, delivered,
    ingressEnded,
    tokenClock, cached, holder, line, retryAt, call, tokenSent, newest, refused,
    file, lock, task, tokens, grants, presented, excused, again,
    current, creation, connectionAt, with, made, spoiled,
    wire, layout, parts, byId, last, next, emitted, toolHeld, started, shown,
    toolSent, out, toolSeen, toolActive, toolEnded,
    journal, files, scratch, turn, receiptsIndex, step, job, receiptsClock, truth,
    puts,
    maxRetained, fleetNow, fleetPc, scope, legacy, record, total, known, applied,
    frozen, fleetIndex, halt, read

clientVars == <<conf, clientAt, try, round, attempt, refreshed, clientPc, tracker,
    fail, logical, limited, distinct, answer, sends>>
streamVars == <<gated, streamNow, idleLeft, frames, streamSeen, streamActive,
    streamPc, after, taken, streamSlot, streamTerminal, finished, streamReader, saw,
    reports>>
idempotencyVars == <<idempotencyNow, shared, req, idempotencyPc, stamp, outcome,
    entries, expiry, retained, pointers, due, charges, count, bytes,
    idempotencyTerminal>>
ingressVars == <<gateway, kind, ingressPc, ingressHeld, age, deadline, pump, left,
    ingressSlot, acked, ingressTerminal, boundary, ingressReader, produced,
    delivered, ingressEnded>>
tokenVars == <<tokenClock, cached, holder, line, retryAt, call, tokenSent, newest,
    refused>>
oauthVars == <<file, lock, task, tokens, grants, presented, excused, again>>
connectionVars == <<current, creation, connectionAt, with, made, spoiled>>
toolVars == <<wire, layout, parts, byId, last, next, emitted, toolHeld, started,
    shown, toolSent, out, toolSeen, toolActive, toolEnded>>
receiptsVars == <<journal, files, scratch, turn, receiptsIndex, step, job,
    receiptsClock, truth, puts>>
fleetVars == <<maxRetained, fleetNow, fleetPc, scope, legacy, record, total, known,
    applied, frozen, fleetIndex, halt, read>>

Client == INSTANCE ClientCall WITH
    at <- clientAt, pc <- clientPc
Eager == INSTANCE EagerStream WITH
    now <- streamNow, seen <- streamSeen, active <- streamActive, pc <- streamPc,
    slot <- streamSlot, terminal <- streamTerminal, reader <- streamReader
Idem == INSTANCE Idempotency WITH
    Size <- EntrySize, TTL <- EntryTTL, Retention <- EntryRetention,
    MaxEntries <- MaxCacheEntries, MaxNow <- MaxCacheNow,
    now <- idempotencyNow, pc <- idempotencyPc, terminal <- idempotencyTerminal
Ingr == INSTANCE Ingress WITH
    pc <- ingressPc, held <- ingressHeld, slot <- ingressSlot,
    terminal <- ingressTerminal, reader <- ingressReader, ended <- ingressEnded
Token == INSTANCE TokenCache WITH
    MaxClock <- MaxTokenClock,
    clock <- tokenClock, sent <- tokenSent
OAuth == INSTANCE OAuthFile
Conn == INSTANCE ConnectionCache WITH
    at <- connectionAt
Tool == INSTANCE ToolStream WITH
    MaxEntries <- MaxToolEntries,
    held <- toolHeld, sent <- toolSent, seen <- toolSeen, active <- toolActive,
    ended <- toolEnded
Rec == INSTANCE Receipts WITH
    Process <- Owner, Size <- ReceiptSize, TTL <- ReceiptTTL,
    MaxClock <- MaxReceiptClock,
    index <- receiptsIndex, clock <- receiptsClock
Fleet == INSTANCE RedisLedger WITH
    Retention <- FleetRetention, MaxNow <- MaxFleetNow,
    now <- fleetNow, pc <- fleetPc, index <- fleetIndex

ASSUME ComponentsAssumption ==
    /\ FallbackRetries \in Nat /\ MaxRetries \in Nat
    /\ EntryTTL \in Nat /\ EntrySize \subseteq Nat
    /\ MaxCacheEntries \in Nat /\ MaxRetained \in Nat
    /\ ChunkBytes \in Nat /\ \A k \in Kinds : DOMAIN k = Arrival
    /\ Limit \in Nat /\ MaxExact \in Nat /\ Amount \subseteq Nat
    /\ \A q \in Quote : q.bounded \in BOOLEAN /\ q.amount \in Nat
    /\ WindowSecs \in Nat \ {0} /\ FleetRetention \in Nat
    /\ IsFiniteSet(Key) /\ Rec!NoKey \notin Key /\ Rec!Nobody \notin Owner
    /\ Legacy \in [Key -> Nat] /\ ReceiptSize \subseteq Nat
    /\ MaxCount \in Nat /\ MaxTotal \in Nat
    /\ Layouts \subseteq Seq(Nat)
    /\ OAuth!Nobody \notin Process
    /\ Conn!NoCall \notin Call

-----------------------------------------------------------------------------

Off == "off"

ClientOff ==
    /\ conf = Off /\ clientAt = Off /\ try = Off /\ round = Off /\ attempt = Off
    /\ refreshed = Off /\ clientPc = Off /\ tracker = Off /\ fail = Off
    /\ logical = Off /\ limited = Off /\ distinct = Off /\ answer = Off
    /\ sends = Off
EagerOff ==
    /\ gated = Off /\ streamNow = Off /\ idleLeft = Off /\ frames = Off
    /\ streamSeen = Off /\ streamActive = Off /\ streamPc = Off /\ after = Off
    /\ taken = Off /\ streamSlot = Off /\ streamTerminal = Off /\ finished = Off
    /\ streamReader = Off /\ saw = Off /\ reports = Off
IdemOff ==
    /\ idempotencyNow = Off /\ shared = Off /\ req = Off /\ idempotencyPc = Off
    /\ stamp = Off /\ outcome = Off /\ entries = Off /\ expiry = Off
    /\ retained = Off /\ pointers = Off /\ due = Off /\ charges = Off /\ count = Off
    /\ bytes = Off /\ idempotencyTerminal = Off
IngrOff ==
    /\ gateway = Off /\ kind = Off /\ ingressPc = Off /\ ingressHeld = Off
    /\ age = Off /\ deadline = Off /\ pump = Off /\ left = Off /\ ingressSlot = Off
    /\ acked = Off /\ ingressTerminal = Off /\ boundary = Off /\ ingressReader = Off
    /\ produced = Off /\ delivered = Off /\ ingressEnded = Off
TokenOff ==
    /\ tokenClock = Off /\ cached = Off /\ holder = Off /\ line = Off
    /\ retryAt = Off /\ call = Off /\ tokenSent = Off /\ newest = Off
    /\ refused = Off
OAuthOff ==
    /\ file = Off /\ lock = Off /\ task = Off /\ tokens = Off /\ grants = Off
    /\ presented = Off /\ excused = Off /\ again = Off
ConnOff ==
    /\ current = Off /\ creation = Off /\ connectionAt = Off /\ with = Off
    /\ made = Off /\ spoiled = Off
ToolOff ==
    /\ wire = Off /\ layout = Off /\ parts = Off /\ byId = Off /\ last = Off
    /\ next = Off /\ emitted = Off /\ toolHeld = Off /\ started = Off /\ shown = Off
    /\ toolSent = Off /\ out = Off /\ toolSeen = Off /\ toolActive = Off
    /\ toolEnded = Off
RecOff ==
    /\ journal = Off /\ files = Off /\ scratch = Off /\ turn = Off
    /\ receiptsIndex = Off /\ step = Off /\ job = Off /\ receiptsClock = Off
    /\ truth = Off /\ puts = Off
FleetOff ==
    /\ maxRetained = Off /\ fleetNow = Off /\ fleetPc = Off /\ scope = Off
    /\ legacy = Off /\ record = Off /\ total = Off /\ known = Off /\ applied = Off
    /\ frozen = Off /\ fleetIndex = Off /\ halt = Off /\ read = Off

Component == {"client", "stream", "idempotency", "ingress", "token", "oauth",
              "connection", "tool", "receipts", "fleet"}

Init ==
    /\ component \in Component
    /\ IF component = "client" THEN Client!Init ELSE ClientOff
    /\ IF component = "stream" THEN Eager!Init ELSE EagerOff
    /\ IF component = "idempotency" THEN Idem!Init ELSE IdemOff
    /\ IF component = "ingress" THEN Ingr!Init ELSE IngrOff
    /\ IF component = "token" THEN Token!Init ELSE TokenOff
    /\ IF component = "oauth" THEN OAuth!Init ELSE OAuthOff
    /\ IF component = "connection" THEN Conn!Init ELSE ConnOff
    /\ IF component = "tool" THEN Tool!Init ELSE ToolOff
    /\ IF component = "receipts" THEN Rec!Init ELSE RecOff
    /\ IF component = "fleet" THEN Fleet!Init ELSE FleetOff

Next ==
    /\ UNCHANGED component
    /\ IF component = "client" THEN Client!Next ELSE UNCHANGED clientVars
    /\ IF component = "stream" THEN Eager!Next ELSE UNCHANGED streamVars
    /\ IF component = "idempotency" THEN Idem!Next ELSE UNCHANGED idempotencyVars
    /\ IF component = "ingress" THEN Ingr!Next ELSE UNCHANGED ingressVars
    /\ IF component = "token" THEN Token!Next ELSE UNCHANGED tokenVars
    /\ IF component = "oauth" THEN OAuth!Next ELSE UNCHANGED oauthVars
    /\ IF component = "connection" THEN Conn!Next ELSE UNCHANGED connectionVars
    /\ IF component = "tool" THEN Tool!Next ELSE UNCHANGED toolVars
    /\ IF component = "receipts" THEN Rec!Next ELSE UNCHANGED receiptsVars
    /\ IF component = "fleet" THEN Fleet!Next ELSE UNCHANGED fleetVars

vars == <<component, clientVars, streamVars, idempotencyVars, ingressVars,
          tokenVars, oauthVars, connectionVars, toolVars, receiptsVars, fleetVars>>

\* Each component under its own fairness.
Spec ==
    /\ Init /\ [][Next]_vars
    /\ WF_streamVars(component = "stream" /\ Eager!Produces)
    /\ WF_streamVars(component = "stream" /\ Eager!CallbackFails)
    /\ WF_streamVars(component = "stream" /\ Eager!Tick)
    /\ \A a \in Arrival :
          /\ WF_ingressVars(component = "ingress" /\ Ingr!QueueTimesOut(a))
          /\ WF_ingressVars(component = "ingress" /\ Ingr!LogicalTimeout(a))
          /\ WF_ingressVars(component = "ingress" /\ Ingr!Pumps(a))
          /\ WF_ingressVars(component = "ingress" /\ Ingr!Ages(a))

-----------------------------------------------------------------------------
(* The properties of the components.                                       *)

\* Retries, repairs and credential refreshes together send a bounded number of
\* requests to one entry of the chain.
SendsBounded == component = "client" => Client!SendsBounded

\* A stream that ends without an error carried a whole answer, and was reported
\* as completed.
CleanEndEarned == component = "stream" => Eager!CleanEndEarned

\* The connection to the provider is given up, whatever the reader does.
SourceReleased == <>(component = "stream" => Eager!Released)

\* A replay is the answer to an identical request, and in time.
ReplayFaithful == component = "idempotency" => Idem!ReplayFaithful

\* Indexes, counters and reservations of the caches match their entries.
CacheAccounted == component = "idempotency" => Idem!CacheAccounted

\* A body that ends cleanly is whole, and a timeout event is put between events
\* only.
BodyEndsHonest == component = "ingress" => Ingr!BodyEndsHonest

\* Every arrival is answered and every preparation permit comes back.
PermitsReturned == <>[](component = "ingress" => Ingr!Settled)

\* A token source is asked only when it has to be, and a good token is not
\* given up for the rejection of an older one.
SourceCallsJustified ==
    [][component = "token" => Token!SourceCallJustified]_tokenVars

\* A refresh token is not spent twice and a refresh undoes no login or logout.
RefreshExclusive == component = "oauth" => OAuth!RefreshExclusive

\* The cached connection is never one that is known to be spoiled.
SoundOneCached == component = "connection" => Conn!SoundOneCached

\* Fragments of tool calls are assembled as the provider cut them.
AssembledAsSent == component = "tool" => Tool!AssembledAsSent

\* Progress shows of a call what has been assembled and ends what it began.
ProgressHonest == component = "tool" => Tool!ProgressHonest

\* A receipt that is served is the last one stored, whatever step a process ends at.
ServesLastStored == component = "receipts" => Rec!ServesLastStored

\* No file is on the disk that the journal does not account for.
FilesAccounted == component = "receipts" => Rec!FilesAccounted

\* The replicas together admit within the cap, with what replicas of an older
\* version have spent.
FleetCapHolds ==
    [][component = "fleet" => Fleet!AdmitsWithinCap]_fleetVars
=============================================================================
