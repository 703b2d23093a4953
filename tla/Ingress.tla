------------------------------- MODULE Ingress -------------------------------
(***************************************************************************)
(* Requests at the door: preparation permits, the logical lifetime of a    *)
(* request and the pump that carries its response body                     *)
(* (src/src/proxy/lifetime.rs, src/src/gateway/http.rs, Backpressure of    *)
(* src/src/proxy/ratelimit.rs).  Proxy and gateway share the middleware;   *)
(* the proxy keeps the permit until the body has been pumped, the gateway  *)
(* until the request is queued.                                            *)
(*                                                                         *)
(* A body is a sequence of byte classes: text, CR and LF.  A deadline is   *)
(* compared with the age of the request, which stops growing once it has   *)
(* passed both deadlines.                                                  *)
(***************************************************************************)
EXTENDS Integers, Sequences, FiniteSets, FiniteSetsExt

CONSTANTS
    Arrival,        \* requests
    Kinds,          \* their kinds: streaming by path, by body, or unary
    Permits,        \* of the preparation semaphore
    Unary, Stream,  \* the two logical lifetimes
    ChunkBytes,     \* PUMP_CHUNK_BYTES
    MaxBytes        \* bound: bytes of all bodies

Byte == {"text", "CR", "LF"}

VARIABLES
    gateway,    \* gateway or proxy
    kind,       \* the kind of each request, then of its response
    pc,         \* the middleware and its handler
    held,       \* requests whose preparation permit is out
    age,        \* since the permit was given
    deadline,   \* the lifetime's watch channel
    pump,       \* none, source, send, ack, over
    left,       \* bytes of the source item not sent yet
    slot,       \* the frame channel
    acked,      \* the frame was acknowledged
    terminal,   \* PumpTerminal
    boundary,   \* SseBoundary
    reader,     \* the client: reading, gone, or how the body ended
    produced, delivered,    \* history: bytes of the source, bytes read
    ended       \* the source has ended

pumpVars == <<pump, left, slot, acked, terminal, produced, ended>>
readerVars == <<boundary, reader, delivered>>
vars == <<gateway, kind, pc, held, age, deadline, pumpVars, readerVars>>

Each(v) == [r \in Arrival |-> v]

Init ==
    /\ gateway \in BOOLEAN
    /\ kind \in Kinds
    /\ pc = Each("arriving") /\ held = {}
    /\ age = Each(0) /\ deadline = Each(0)
    /\ pump = Each("none") /\ left = Each(<<>>) /\ slot = Each(<<>>)
    /\ acked = Each(FALSE) /\ terminal = Each("none")
    /\ produced = Each(<<>>) /\ ended = Each(FALSE)
    /\ boundary = Each([start |-> TRUE, cr |-> FALSE, safe |-> TRUE])
    /\ reader = Each("waiting") /\ delivered = Each(<<>>)

Set(f, r, v) == [f EXCEPT ![r] = v]

\* Streaming; of a response, its Content-Type is text/event-stream.
Sse(r) == kind[r] # "unary"

-----------------------------------------------------------------------------
(* Admission: admit_preparation, admit_ingress_preparation.                *)

\* The gateway identifies the caller before it gives a permit.
Unauthorized(r) ==
    /\ pc[r] = "arriving" /\ gateway
    /\ pc' = Set(pc, r, "answered")
    /\ UNCHANGED <<gateway, kind, held, age, deadline, pumpVars, readerVars>>

\* A permit in time begins the logical lifetime.
Acquires(r) ==
    /\ pc[r] = "arriving" /\ Cardinality(held) < Permits
    /\ held' = held \cup {r}
    /\ pc' = Set(pc, r, "reading")
    /\ deadline' = Set(deadline, r, IF kind[r] = "path" THEN Stream ELSE Unary)
    /\ UNCHANGED <<gateway, kind, age, pumpVars, readerVars>>

\* acquire_from gives up after queue_timeout.
QueueTimesOut(r) ==
    /\ pc[r] = "arriving"
    /\ pc' = Set(pc, r, "answered")
    /\ UNCHANGED <<gateway, kind, held, age, deadline, pumpVars, readerVars>>

Expired(r) == age[r] >= deadline[r]

\* Everything the middleware owns is dropped with its future.
Answers(r) ==
    /\ pc' = Set(pc, r, "answered")
    /\ held' = held \ {r}
    /\ UNCHANGED <<gateway, kind, age, deadline, pumpVars, readerVars>>

\* The select of the middleware, and the check after it.
LogicalTimeout(r) ==
    /\ pc[r] \in {"reading", "working"} /\ Expired(r)
    /\ Answers(r)

\* The handler has the whole request and selects the deadline of its kind.
SelectStreaming(r) ==
    /\ pc[r] = "reading" /\ ~Expired(r)
    /\ deadline' = Set(deadline, r, IF Sse(r) THEN Stream ELSE deadline[r])
    /\ pc' = Set(pc, r, "working")
    /\ UNCHANGED <<gateway, kind, held, age, pumpVars, readerVars>>

\* The gateway's handler gives the permit back when the request is queued.
Submits(r) ==
    /\ pc[r] = "working" /\ gateway /\ r \in held /\ ~Expired(r)
    /\ held' = held \ {r}
    /\ UNCHANGED <<gateway, kind, pc, age, deadline, pumpVars, readerVars>>

\* A response in time; its body is pumped by a task of its own, which in the
\* proxy owns the permit.  In the gateway the permit has gone with the handler.
\* A request for a stream may be answered by a plain body, an error for one.
Responds(r) ==
    /\ pc[r] = "working" /\ ~Expired(r)
    /\ pc' = Set(pc, r, "answered")
    /\ held' = IF gateway THEN held \ {r} ELSE held
    /\ pump' = Set(pump, r, "source")
    /\ reader' = Set(reader, r, "reading")
    /\ \E k \in {kind[r], "unary"} : kind' = Set(kind, r, k)
    /\ UNCHANGED <<gateway, age, deadline, left, slot, acked, terminal,
                   produced, ended, boundary, delivered>>

\* The connection is closed before there is a response.
Disconnects(r) ==
    /\ pc[r] \in {"arriving", "reading", "working"}
    /\ Answers(r)

-----------------------------------------------------------------------------
(* run_body_pump: at each of its three waits the deadline comes first,     *)
(* then a reader that has gone.                                            *)

Gone(r) == reader[r] # "reading"

\* The task ends: its sender, and in the proxy its permit, are dropped.
PumpEnds(r, t) ==
    /\ pump' = Set(pump, r, "over")
    /\ terminal' = Set(terminal, r, t)
    /\ held' = held \ {r}
    /\ UNCHANGED <<gateway, kind, pc, age, deadline, left, slot, acked, produced, ended,
                   readerVars>>

Pumping(r) == pump[r] \in {"source", "send", "ack"}

\* Wrong variant: the deadline is not watched while a frame waits for the reader.
PumpTimesOutAtSource(r) == pump[r] = "source" /\ Expired(r) /\ PumpEnds(r, "timeout")

PumpTimesOut(r) == Pumping(r) /\ Expired(r) /\ PumpEnds(r, "timeout")

PumpDeserted(r) == Pumping(r) /\ ~Expired(r) /\ Gone(r) /\ PumpEnds(r, "none")

Runs(r) == ~Expired(r) /\ ~Gone(r)

\* The source has an item.
SourceYields(r, bytes) ==
    /\ pump[r] = "source" /\ Runs(r) /\ ~ended[r]
    /\ produced' = Set(produced, r, produced[r] \o bytes)
    /\ left' = Set(left, r, bytes)
    /\ pump' = Set(pump, r, "send")
    /\ UNCHANGED <<gateway, kind, pc, held, age, deadline, slot, acked, terminal, ended,
                   readerVars>>

SourceFails(r) == pump[r] = "source" /\ Runs(r) /\ PumpEnds(r, "error")

SourceEnds(r) ==
    /\ pump[r] = "source" /\ Runs(r)
    /\ ended' = Set(ended, r, TRUE)
    /\ pump' = Set(pump, r, "over")
    /\ held' = held \ {r}
    /\ UNCHANGED <<gateway, kind, pc, age, deadline, left, slot, acked, terminal, produced,
                   readerVars>>

PumpSends(r) ==
    /\ pump[r] = "send" /\ Runs(r) /\ slot[r] = <<>>
    /\ LET n == Min({ChunkBytes, Len(left[r])})
       IN  /\ slot' = Set(slot, r, SubSeq(left[r], 1, n))
           /\ left' = Set(left, r, SubSeq(left[r], n + 1, Len(left[r])))
    /\ pump' = Set(pump, r, "ack") /\ acked' = Set(acked, r, FALSE)
    /\ UNCHANGED <<gateway, kind, pc, held, age, deadline, terminal, produced, ended, readerVars>>

PumpAcked(r) ==
    /\ pump[r] = "ack" /\ Runs(r) /\ acked[r]
    /\ pump' = Set(pump, r, IF left[r] = <<>> THEN "source" ELSE "send")
    /\ UNCHANGED <<gateway, kind, pc, held, age, deadline, left, slot, acked, terminal,
                   produced, ended, readerVars>>

-----------------------------------------------------------------------------
(* PumpedBody::poll_next.                                                  *)

\* Wrong variant: every line end at a line start is taken for a blank line,
\* so the LF of CR LF is one.
ObservesLineEnds(b, byte) ==
    IF byte = "text"
    THEN [start |-> FALSE, cr |-> FALSE, safe |-> FALSE]
    ELSE [start |-> TRUE, cr |-> FALSE, safe |-> b.start]

\* SseBoundary::observe, of one byte.
Observes(b, byte) ==
    IF b.cr /\ byte = "LF"
    THEN [b EXCEPT !.cr = FALSE]
    ELSE IF byte = "text"
         THEN [start |-> FALSE, cr |-> FALSE, safe |-> FALSE]
         ELSE [start |-> TRUE, cr |-> byte = "CR", safe |-> b.start]

\* ... and of all bytes of a frame.
ObservesAll(b, bytes) ==
    LET after[n \in 0..Len(bytes)] == IF n = 0 THEN b ELSE Observes(after[n - 1], bytes[n])
    IN  after[Len(bytes)]

ReadsFrame(r) ==
    /\ reader[r] = "reading" /\ slot[r] # <<>>
    /\ boundary' = Set(boundary, r, ObservesAll(boundary[r], slot[r]))
    /\ delivered' = Set(delivered, r, delivered[r] \o slot[r])
    /\ slot' = Set(slot, r, <<>>)
    /\ acked' = Set(acked, r, TRUE)
    /\ UNCHANGED <<gateway, kind, pc, held, age, deadline, pump, left, terminal, produced,
                   ended, reader>>

\* The channel is empty and closed.
ReadsEnd(r) ==
    /\ reader[r] = "reading" /\ slot[r] = <<>> /\ pump[r] = "over"
    /\ reader' = Set(reader, r,
          IF terminal[r] = "none" THEN "clean"
          ELSE IF terminal[r] = "timeout" /\ Sse(r) /\ boundary[r].safe
               THEN "timeout frame"
               ELSE "broken")
    /\ UNCHANGED <<gateway, kind, pc, held, age, deadline, pumpVars, boundary, delivered>>

\* The client closes the connection, or a frame is never asked for again.
ReaderGoes(r) ==
    /\ reader[r] = "reading"
    /\ reader' = Set(reader, r, "gone")
    /\ UNCHANGED <<gateway, kind, pc, held, age, deadline, pumpVars, boundary, delivered>>

Ages(r) ==
    /\ r \in held \/ pc[r] = "working" \/ Pumping(r)
    /\ age[r] < Max({Unary, Stream})
    /\ age' = Set(age, r, age[r] + 1)
    /\ UNCHANGED <<gateway, kind, pc, held, deadline, pumpVars, readerVars>>

Produced == LET n(r) == Len(produced[r]) IN MapThenSumSet(n, Arrival)

Admits(r) == Unauthorized(r) \/ Acquires(r) \/ QueueTimesOut(r)
Serves(r) == LogicalTimeout(r) \/ SelectStreaming(r) \/ Submits(r) \/ Responds(r) \/ Disconnects(r)
Pumps(r) == PumpTimesOut(r) \/ PumpDeserted(r) \/ PumpSends(r) \/ PumpAcked(r)
Source(r) ==
    \/ SourceFails(r) \/ SourceEnds(r)
    \/ \E n \in 1..2 : n + Produced <= MaxBytes /\ \E b \in [1..n -> Byte] : SourceYields(r, b)
Reads(r) == ReadsFrame(r) \/ ReadsEnd(r) \/ ReaderGoes(r)

Next == \E r \in Arrival : Admits(r) \/ Serves(r) \/ Pumps(r) \/ Source(r) \/ Reads(r) \/ Ages(r)

\* Tasks are polled and clocks run; a handler, a source or a reader may stop.
Spec ==
    /\ Init /\ [][Next]_vars
    /\ \A r \in Arrival : /\ WF_vars(QueueTimesOut(r)) /\ WF_vars(LogicalTimeout(r))
                          /\ WF_vars(Pumps(r)) /\ WF_vars(Ages(r))

-----------------------------------------------------------------------------
(* Properties.                                                             *)

\* Reference: where lines end in a byte sequence, CR LF being one end.
LineEnds(b) ==
    {i \in 1..Len(b) : b[i] = "LF" \/ (b[i] = "CR" /\ ~(i < Len(b) /\ b[i + 1] = "LF"))}

\* Reference: b is a whole number of events, that is, it is empty or its last
\* line is blank.
WholeEvents(b) ==
    \/ b = <<>>
    \/ /\ Len(b) \in LineEnds(b)
       /\ LET start == Max({i \in LineEnds(b) : i < Len(b)} \cup {0}) + 1
          IN  \/ start = Len(b)
              \/ start = Len(b) - 1 /\ b[start] = "CR" /\ b[Len(b)] = "LF"

\* The end of a body is what it seems.  A clean end means that the source had
\* ended and every byte of it was read; the timeout event is put in only where
\* an event has just ended, however lines end and frames are cut; and a body
\* that is cut short in any other way breaks.
BodyEndsHonest ==
    \A r \in Arrival :
        /\ reader[r] = "clean" => ended[r] /\ delivered[r] = produced[r]
        /\ reader[r] = "timeout frame" => Sse(r) /\ WholeEvents(delivered[r])
        /\ reader[r] = "broken" /\ terminal[r] = "timeout" =>
              ~Sse(r) \/ ~WholeEvents(delivered[r])

\* Whoever arrives is answered and every preparation permit comes back, even
\* if the handler never returns, the source never ends and the client never
\* reads: the logical lifetime bounds them all.
Settled == \A r \in Arrival : pc[r] = "answered" /\ r \notin held

PermitsReturned == <>[]Settled
=============================================================================
