----------------------------- MODULE ToolStream -----------------------------
(***************************************************************************)
(* Assembly of streamed tool calls (src/src/toolcall/streaming.rs), the    *)
(* provisional progress shown while they are written (progress.rs), their  *)
(* share of the retained-state budget (src/src/stream_retention.rs), and   *)
(* the end of the stream (src/src/streaming.rs).                           *)
(*                                                                         *)
(* The provider writes calls 1, 2, ... whose arguments are two fragments.  *)
(* Each wire format names the call a fragment belongs to in its own way:   *)
(* an explicit index, an id, or nothing but the order of arrival.          *)
(***************************************************************************)
EXTENDS Integers, Sequences, FiniteSets, SequencesExt

CONSTANTS
    Wires,          \* wire formats
    Layouts,        \* the choice of each call, by call
    MaxEntries      \* retained entries the stream may hold

VARIABLES
    wire, layout,
    parts,          \* key -> Part
    byId, last, next,   \* gemini_by_id, gemini_last, gemini_next
    emitted,        \* choices completed
    held,           \* entries reserved from the budget
    started,        \* ProgressReporter: calls shown and not closed
    shown,          \* the sink: [step, text] of each call, text put together from the steps
    sent,           \* the provider: fragments of each call, NotBegun before it
    out,            \* the completed calls of each choice
    seen, active,   \* StreamNormalizer: seen_terminal, active_choices
    ended           \* how the stream ended

vars == <<wire, layout, parts, byId, last, next, emitted, held, started, shown,
          sent, out, seen, active, ended>>

NotBegun == -1
NoId == 0
Nothing == [k \in {} |-> NoId]
ToolCall == DOMAIN layout
Choice == Range(layout)

\* Fragments know the call they were written for; Braces is the "{}" a call
\* without arguments gets, Revised the other arguments of a call written again.
Whole(l) == <<<<l, "open">>, <<l, "close">>>>
Braces == Whole(0)
Revised(l) == Whole(-l)
Text(l, n) ==
    CASE n = 3 -> Revised(l) [] n = 2 -> Whole(l) [] n = 1 -> <<Whole(l)[1]>> [] OTHER -> <<>>
Fragment(l) == <<Whole(l)[sent[l] + 1]>>

\* validate_arguments: complete JSON, whoever wrote it.
Complete(text) == Len(text) = 2 /\ text[1][2] = "open" /\ text[2][2] = "close"

\* A key is the choice and index of a part.
KeyOf(l) == <<layout[l], Cardinality({m \in ToolCall : m < l /\ layout[m] = layout[l]})>>
KeysOf(ps, c) == {k \in DOMAIN ps : k[1] = c}
IndicesOf(ps, c) == {k[2] : k \in KeysOf(ps, c)}

NewPart == [name |-> 0, id |-> NoId, args |-> <<>>, initial |-> FALSE, ended |-> FALSE]

\* An initial placeholder is not text a reader should see.
Visible(part) == IF part.initial THEN <<>> ELSE part.args

Init ==
    /\ wire \in Wires
    /\ layout \in {f \in Layouts : wire \in {"anthropic", "responses"} => Range(f) = {0}}
    /\ parts = Nothing /\ byId = Nothing /\ last = Nothing /\ next = Nothing
    /\ emitted = {} /\ held = 0 /\ started = {} /\ shown = Nothing
    /\ sent = [l \in ToolCall |-> NotBegun] /\ out = Nothing
    /\ seen = FALSE /\ active = {} /\ ended = "no"

------------------------------------------------------------------------------
\* One step of ToolStream is computed on a record of what it changes.
Now == [parts |-> parts, byId |-> byId, last |-> last, next |-> next, emitted |-> emitted,
        held |-> held, started |-> started, shown |-> shown, out |-> out, ok |-> TRUE]

Err(s) == [s EXCEPT !.ok = FALSE]
Put(f, k, v) == [x \in DOMAIN f \cup {k} |-> IF x = k THEN v ELSE f[x]]
Drop(f, k) == [x \in DOMAIN f \ {k} |-> f[x]]

\* RetainedBudget::reserve.
Reserve(s, n) == IF s.held + n > MaxEntries THEN Err(s) ELSE [s EXCEPT !.held = @ + n]

\* ToolCallProgressEvent::Arguments: an incremental reader appends, or starts over.
ShowArguments(s, k, text, kept, before) ==
    [s EXCEPT !.shown[k].text =
        IF kept THEN @ \o SubSeq(text, before + 1, Len(text)) ELSE text]

Start(s, k) ==
    [s EXCEPT !.started = @ \cup {k},
              !.shown = Put(@, k, [step |-> "started", text |-> Visible(s.parts[k])])]

\* ProgressReporter::updated, with the visible text and whether it was kept.
Updated(s, k, settled, before, kept) ==
    LET text == Visible(s.parts[k]) IN
    IF k \notin s.started
    THEN IF settled /\ s.parts[k].name # 0 THEN Start(s, k) ELSE s
    ELSE IF kept /\ Len(text) = before THEN s ELSE ShowArguments(s, k, text, kept, before)

\* Wrong: every update is taken to extend the text.
KeepsAlways(u, visible) == TRUE

\* arguments_before.
Keeps(u, visible) ==
    CASE u.op = "start" -> visible = <<>>
      [] u.op = "whole" -> IsPrefix(visible, u.v)
      [] OTHER -> TRUE

\* The assignments of apply_inner and append_fragment.  The code appends the
\* fragments of a name and of an id; here each comes whole and once.
Assigned(part, u) ==
    CASE u.op \in {"name", "nameFragment"} -> [part EXCEPT !.name = u.v]
      [] u.op = "id" -> [part EXCEPT !.id = u.v]
      [] u.op = "start" -> [part EXCEPT !.args = u.v, !.initial = TRUE]
      [] u.op = "whole" -> [part EXCEPT !.args = u.v, !.initial = FALSE,
                                        !.ended = @ /\ part.args = u.v]
      [] u.op = "fragment" -> [part EXCEPT !.args = (IF part.initial THEN <<>> ELSE @) \o u.v,
                                           !.initial = FALSE]
      [] u.op = "end" -> [part EXCEPT !.ended = TRUE]

\* apply of one ToolDelta.
Apply(s, k, u) ==
    LET s1 == IF k \in DOMAIN s.parts THEN s
              ELSE [Reserve(s, 1) EXCEPT !.parts = Put(@, k, NewPart)]
        part == s1.parts[k]
        visible == Visible(part)
    IN  IF ~ s.ok THEN s
        ELSE IF k[1] \in s.emitted THEN Err(s)
        ELSE IF ~ s1.ok THEN Err(s)
        ELSE IF u.op = "fragment" /\ part.ended THEN Err(s1)
        ELSE IF u.op = "end" /\ ~ Complete(part.args) THEN Err(s1)
        ELSE Updated([s1 EXCEPT !.parts[k] = Assigned(part, u)],
                     k, u.op # "nameFragment", Len(visible), Keeps(u, visible))

\* The updates of a piece, one by one.
Applied(s, k, ups) ==
    LET after[n \in 0..Len(ups)] == IF n = 0 THEN s ELSE Apply(after[n - 1], k, ups[n])
    IN  after[Len(ups)]

U(op, v) == [op |-> op, v |-> v]

------------------------------------------------------------------------------
InOrder(S) == [i \in 1..Cardinality(S) |-> CHOOSE x \in S : Cardinality({y \in S : y < x}) = i - 1]

\* The calls of a choice by index, as complete() emits them.
Emission(s, c) ==
    LET ns == InOrder(IndicesOf(s.parts, c))
        part(i) == s.parts[<<c, ns[i]>>]
    IN  [i \in DOMAIN ns |-> [name |-> part(i).name, id |-> part(i).id, args |-> part(i).args]]

CompletedCalls(s, c) ==
    LET e == Emission(s, c) IN
    /\ \A i \in DOMAIN e :
        /\ e[i].name # 0 /\ Complete(e[i].args)
        /\ wire \notin {"gemini", "gemini_idless"} => e[i].id # NoId
    /\ \A i, j \in DOMAIN e : i # j /\ e[i].id # NoId => e[i].id # e[j].id

\* Entries the stream holds for a choice.
GeminiEntries(s, c) ==
    (IF c \in DOMAIN s.byId THEN 1 + Cardinality(DOMAIN s.byId[c]) ELSE 0)
    + (IF c \in DOMAIN s.last THEN 1 ELSE 0)
    + (IF c \in DOMAIN s.next THEN 1 ELSE 0)

Releases(s, c) == Cardinality(KeysOf(s.parts, c)) + GeminiEntries(s, c)

\* reporter.ended or abandoned for every call of ks; one that was never shown is
\* started to be ended.
CloseAll(s, ks, how) ==
    LET closed == IF how = "ended" THEN ks ELSE ks \cap s.started
        text(k) == IF k \in s.started THEN s.shown[k].text ELSE Visible(s.parts[k])
    IN  [s EXCEPT !.started = @ \ ks,
                  !.shown = [k \in DOMAIN @ \cup closed |->
                                IF k \in closed THEN [step |-> how, text |-> text(k)] ELSE @[k]]]

\* complete(): a choice that was completed before yields nothing.
CompleteChoice(s, c) ==
    LET s1 == Reserve(s, 1)
        s2 == CloseAll(s1, KeysOf(s.parts, c), "ended")
    IN  IF ~ s.ok \/ c \in s.emitted THEN s
        ELSE IF ~ CompletedCalls(s, c) \/ ~ s1.ok THEN Err(s)
        ELSE [s2 EXCEPT !.emitted = @ \cup {c}, !.held = @ - Releases(s, c),
                        !.parts = [k \in DOMAIN @ \ KeysOf(@, c) |-> @[k]],
                        !.byId = Drop(@, c), !.last = Drop(@, c), !.next = Drop(@, c),
                        !.out = Put(@, c, Emission(s, c))]

\* clear(): abandon_open, then everything goes.
Clear(s) ==
    [CloseAll(s, DOMAIN s.parts, "abandoned")
        EXCEPT !.parts = Nothing, !.byId = Nothing, !.last = Nothing, !.next = Nothing,
               !.emitted = {}, !.held = 0]

Becomes(s) ==
    /\ parts' = s.parts /\ byId' = s.byId /\ last' = s.last /\ next' = s.next
    /\ emitted' = s.emitted /\ held' = s.held /\ started' = s.started
    /\ shown' = s.shown /\ out' = s.out

\* push() of StreamNormalizer and of ToolStream, for a frame that made s: its
\* first error clears and finishes the stream.  A frame ends one choice at most,
\* and what the normalizer does after that does not fail.
Pushed(s, terminal) ==
    /\ ended = "no"
    /\ IF s.ok
       THEN /\ Becomes(s) /\ seen' = (seen \/ terminal # {})
            /\ active' = active \ terminal /\ UNCHANGED ended
       ELSE Becomes(Clear(s)) /\ ended' = "error" /\ active' = {} /\ UNCHANGED seen
    /\ UNCHANGED <<wire, layout>>

\* The provider: how much of a call it wrote before the choice was completed;
\* 3 stands for arguments it wrote anew.
Sends(l, n) == sent' = IF layout[l] \in emitted THEN sent ELSE [sent EXCEPT ![l] = n]

\* Calls begin in order; a wire without an index or id writes one at a time.
Begins(l) == sent[l] = NotBegun /\ \A m \in ToolCall : m < l => sent[m] # NotBegun
Writing(l) == sent[l] \in {0, 1}

Frame(l, ups, n) == Pushed(Applied(Now, KeyOf(l), ups), {}) /\ Sends(l, n)

------------------------------------------------------------------------------
\* AnthropicMessages: content_block_start, content_block_delta, content_block_stop.
BlockStart(l) ==
    /\ wire = "anthropic" /\ Begins(l)
    /\ \A m \in ToolCall : m < l /\ KeyOf(m) \in DOMAIN parts => parts[KeyOf(m)].ended
    /\ Frame(l, <<U("id", l), U("name", l), U("start", Braces)>>, 0)

BlockDelta(l) ==
    /\ wire = "anthropic" /\ Writing(l)
    /\ Frame(l, <<U("fragment", Fragment(l))>>, sent[l] + 1)

BlockStop(l) ==
    /\ wire = "anthropic" /\ KeyOf(l) \in DOMAIN parts
    /\ Frame(l, <<U("end", 0)>>, sent[l])

\* OpenAiResponses: response_item(), for an item added or done.
ItemUpdates(l, text, done) ==
    <<U("id", l), U("name", l), U(IF done THEN "whole" ELSE "start", text)>>
    \o IF done THEN <<U("end", 0)>> ELSE <<>>

ItemAdded(l) ==
    /\ wire = "responses" /\ Begins(l)
    /\ Frame(l, ItemUpdates(l, <<>>, FALSE), 0)

ArgumentsDelta(l) ==
    /\ wire = "responses" /\ Writing(l)
    /\ Frame(l, <<U("fragment", Fragment(l))>>, sent[l] + 1)

ArgumentsDone(l) ==
    /\ wire = "responses" /\ sent[l] # NotBegun
    /\ Frame(l, <<U("whole", Whole(l))>>, 2)

ItemDone(l) ==
    /\ wire = "responses" /\ sent[l] # NotBegun
    /\ Frame(l, ItemUpdates(l, Whole(l), TRUE), 2)

\* response.completed repeats every item; response.incomplete, as far as it got.
Repeated(items, cut) ==
    LET text(l) == Text(l, IF cut THEN sent[l] ELSE 2)
        after[n \in 0..Len(items)] ==
            IF n = 0 THEN Now
            ELSE Applied(after[n - 1], KeyOf(items[n]), ItemUpdates(items[n], text(items[n]), TRUE))
    IN  after[Len(items)]

ResponseCompleted(cut) ==
    LET begun == {l \in ToolCall : sent[l] # NotBegun} IN
    /\ wire = "responses" /\ 0 \in Choice
    /\ Pushed(CompleteChoice(Repeated(InOrder(begun), cut), 0), {0})
    /\ sent' = IF 0 \in emitted \/ cut THEN sent
               ELSE [l \in ToolCall |-> IF l \in begun THEN 2 ELSE sent[l]]

\* OpenAiChat: a piece with an explicit index.
PieceIndexed(l) ==
    /\ wire = "chat"
    /\ \/ Begins(l) /\ Frame(l, <<U("id", l), U("nameFragment", l), U("fragment", <<>>)>>, 0)
       \/ Writing(l) /\ Frame(l, <<U("fragment", Fragment(l))>>, sent[l] + 1)

\* Wrong: a fragment that names no call is given to the last one.
GuessedLast(c, id) ==
    LET known == {k \in KeysOf(parts, c) : id # NoId /\ parts[k].id = id}
        indices == IndicesOf(parts, c)
    IN  IF known # {} THEN {k[2] : k \in known}
        ELSE IF id # NoId THEN {IF indices = {} THEN 0 ELSE Max(indices) + 1}
        ELSE IF indices # {} THEN {Max(indices)} ELSE {}

\* The index of a piece without one: that of its id, a new one for a new id,
\* the only call there is; none when that is ambiguous.
GuessedIndex(c, id) ==
    LET known == {k \in KeysOf(parts, c) : id # NoId /\ parts[k].id = id}
        indices == IndicesOf(parts, c)
    IN  IF known # {} THEN {k[2] : k \in known}
        ELSE IF id # NoId THEN {IF indices = {} THEN 0 ELSE Max(indices) + 1}
        ELSE IF Cardinality(indices) = 1 THEN indices ELSE {}

PieceGuessed(l, id, ups, n) ==
    LET c == layout[l] guess == GuessedIndex(c, id) IN
    /\ Pushed(IF guess = {} THEN Err(Now)
              ELSE Applied(Now, <<c, CHOOSE i \in guess : TRUE>>,
                           (IF id = NoId THEN <<>> ELSE <<U("id", id)>>) \o ups), {})
    /\ Sends(l, n)

\* The whole call in one piece (also sent again), its first part, or more of
\* it with or without the id.
PieceUnindexed(l) ==
    /\ wire = "chat_unindexed"
    /\ \/ (Begins(l) \/ sent[l] = 2) /\ \E n \in {2, 3} :
            PieceGuessed(l, l, <<U("name", l), U("whole", Text(l, n))>>, n)
       \/ Begins(l) /\ PieceGuessed(l, l, <<U("nameFragment", l), U("fragment", <<Whole(l)[1]>>)>>, 1)
       \/ Writing(l) /\ \E id \in {l, NoId} :
            PieceGuessed(l, id, <<U("fragment", Fragment(l))>>, sent[l] + 1)

\* GoogleGenerateContent: the part a functionCall belongs to, by its id, else
\* the one before it unless that has a name or stands in the same frame.
GeminiKey(c, id, named, joined) ==
    IF c \in DOMAIN byId /\ id \in DOMAIN byId[c] THEN {byId[c][id]}
    ELSE IF c \in DOMAIN last /\ ~ joined /\ (named => parts[last[c]].name = 0)
    THEN {last[c]}
    ELSE {}

\* next_gemini, the id mapping and gemini_last, each with its entry.
GeminiPlaced(c, id, known) ==
    LET counted == IF known # {} \/ c \in DOMAIN next THEN Now ELSE Reserve(Now, 1)
        index == IF c \in DOMAIN next THEN next[c] ELSE 0
        key == IF known # {} THEN CHOOSE k \in known : TRUE ELSE <<c, index>>
        old == IF c \in DOMAIN byId THEN byId[c] ELSE Nothing
        new == (IF id = NoId THEN 0 ELSE (IF c \in DOMAIN byId THEN 0 ELSE 1)
                                         + (IF id \in DOMAIN old THEN 0 ELSE 1))
               + (IF c \in DOMAIN last THEN 0 ELSE 1)
        s == Reserve(counted, new)
    IN  [key |-> key,
         state |-> IF ~ counted.ok \/ ~ s.ok THEN Err(Now)
                   ELSE [s EXCEPT !.next = IF known # {} THEN @ ELSE Put(@, c, index + 1),
                                  !.byId = IF id = NoId THEN @ ELSE Put(@, c, Put(old, id, key)),
                                  !.last = Put(@, c, key)]]

\* A part with a functionCall.  Without arguments a new call gets a placeholder.
FunctionCall(l, named, n, joined) ==
    LET c == layout[l]
        id == IF wire = "gemini" THEN l ELSE NoId
        placed == GeminiPlaced(c, id, GeminiKey(c, id, named, joined))
        k == placed.key
        ups == (IF id = NoId THEN <<>> ELSE <<U("id", id)>>)
               \o (IF named THEN <<U("name", l)>> ELSE <<>>)
               \o (IF n > 0 THEN <<U("whole", Text(l, n))>>
                   ELSE IF named \/ k \notin DOMAIN parts THEN <<U("start", Braces)>> ELSE <<>>)
    IN  /\ wire \in {"gemini", "gemini_idless"}
        /\ Pushed(Applied(placed.state, k, ups), {})
        /\ Sends(l, n)

\* Without ids only the latest call of a choice can be continued, in a later
\* frame; with them a call may be written again.
FunctionCallPart(l, joined) ==
    \/ Begins(l) /\ \E n \in {0, 2} : FunctionCall(l, TRUE, n, joined)
    \/ /\ sent[l] # NotBegun /\ wire = "gemini"
       /\ \E named \in BOOLEAN, n \in {0, 2, 3} : (n = 0 => named) /\ FunctionCall(l, named, n, joined)
    \/ /\ sent[l] # NotBegun /\ ~ joined
       /\ \A m \in ToolCall : m > l /\ layout[m] = layout[l] => sent[m] = NotBegun
       /\ FunctionCall(l, FALSE, 2, joined)

------------------------------------------------------------------------------
\* Ordinary text of a choice, and its finish_reason.
Content(c) ==
    /\ ended = "no" /\ c \notin active /\ c \in Choice
    /\ active' = active \cup {c}
    /\ UNCHANGED <<wire, layout, parts, byId, last, next, emitted, held, started, shown,
                   sent, out, seen, ended>>

Finishes(c) ==
    /\ wire # "responses" /\ c \in Choice
    /\ Pushed(CompleteChoice(Now, c), {c})
    /\ UNCHANGED sent

\* An error event, malformed JSON, or a frame the provider's parser refuses.
BadFrame == Pushed(Err(Now), {}) /\ UNCHANGED sent

\* StreamNormalizer::finish at the end of the body: a call that was never
\* completed, no terminal, or a choice still active is an error.
Finish ==
    /\ ended = "no"
    /\ Becomes(Clear(Now))
    /\ ended' = IF (\E k \in DOMAIN parts : k[1] \notin emitted) \/ ~ seen \/ active # {}
                THEN "error" ELSE "clean"
    /\ active' = {}
    /\ UNCHANGED <<wire, layout, sent, seen>>

\* abort(), or the reader drops the stream.
Abandon ==
    /\ ended = "no"
    /\ Becomes(Clear(Now)) /\ ended' = "dropped" /\ active' = {}
    /\ UNCHANGED <<wire, layout, sent, seen>>

Next ==
    \/ \E l \in ToolCall :
        \/ BlockStart(l) \/ BlockDelta(l) \/ BlockStop(l)
        \/ ItemAdded(l) \/ ArgumentsDelta(l) \/ ArgumentsDone(l) \/ ItemDone(l)
        \/ PieceIndexed(l) \/ PieceUnindexed(l)
        \/ \E joined \in BOOLEAN : FunctionCallPart(l, joined)
    \/ \E cut \in BOOLEAN : ResponseCompleted(cut)
    \/ \E c \in Choice : Content(c) \/ Finishes(c)
    \/ BadFrame \/ Finish \/ Abandon

Spec == Init /\ [][Next]_vars

------------------------------------------------------------------------------
\* What the provider wrote of a call.
Written(l) ==
    [name |-> l, id |-> IF wire = "gemini_idless" THEN NoId ELSE l,
     args |-> IF sent[l] = 0 THEN Braces ELSE Text(l, sent[l])]

\* Every completed choice carries exactly the calls the provider wrote for it, in
\* order, each with its own name, id and whole arguments: fragments of two calls
\* are never joined, a call is never executed from part of its text, split in two
\* or lost; and a stream that ends cleanly has completed every call it began.
AssembledAsSent ==
    /\ \A c \in DOMAIN out :
        LET begun == {l \in ToolCall : layout[l] = c /\ sent[l] # NotBegun}
            calls == InOrder(begun)
        IN  out[c] = [i \in DOMAIN calls |-> Written(calls[i])]
    /\ ended = "clean" => \A l \in ToolCall : sent[l] # NotBegun => layout[l] \in DOMAIN out

\* The progress contract: a reader that applies the steps of an open call one by
\* one has the text assembled so far, a call shown as ended is one of a completed
\* choice, and once the stream is over no call that was shown is left open.  A
\* call is completed when it has been assembled: its output may still be lost to an
\* error later in the same frame, as the contract tells its readers.
ProgressHonest ==
    /\ \A k \in started :
        k \in DOMAIN parts /\ shown[k].step = "started" /\ shown[k].text = Visible(parts[k])
    /\ \A k \in DOMAIN shown :
        /\ shown[k].step = "started" <=> k \in started
        /\ shown[k].step = "ended" =>
            /\ k[1] \in DOMAIN out
            /\ shown[k].text \in {<<>>, out[k[1]][k[2] + 1].args}
    /\ ended # "no" => started = {}
=============================================================================
