----------------------------- MODULE EagerStream -----------------------------
(***************************************************************************)
(* One provider stream (src/src/client.rs, eager_stream and below): the    *)
(* producer task that reads the provider ahead of its reader, the bounded  *)
(* channel and the terminal slot between them, the deadlines, and the      *)
(* reports on the attempt that both ends may make (src/src/policy.rs,      *)
(* AttemptTracker and AttemptCancellationGuard).                           *)
(*                                                                         *)
(* A frame is what the producer makes of it: blank, content or finish of   *)
(* choices, [DONE], or one that cannot be used.  The clock runs in         *)
(* ticks.  A callback of the policy reaches the coordinator in a step of   *)
(* its own, so that its answer may be lost after it was applied.           *)
(***************************************************************************)
EXTENDS Naturals, Sequences

CONSTANTS
    SemanticIdle,   \* AttemptDeadlines.stream_semantic_idle
    AttemptTotal,   \* the attempt's deadline
    Capacity,       \* of the output channel
    Indexes,        \* indexes of choices
    MaxFrames       \* bound: frames of the provider

VARIABLES
    gated,      \* is there a tracker
    now,
    idleLeft,   \* semantic_idle_remaining
    frames,     \* frames received
    seen,       \* StreamNormalizer.seen_terminal
    active,     \* StreamNormalizer.active_choices
    pc,         \* where the producer is
    after,      \* what it does after the callback it waits for
    taken,      \* the coordinator took the callback's report
    slot,       \* items in the channel
    terminal,   \* the terminal slot
    finished,   \* AttemptTrackerState.finished
    reader,     \* the stream's reader: reading, closing, dropped
    saw,        \* what it has seen last
    reports     \* history: outcomes the coordinator took, in order

normalizer == <<frames, seen, active>>
time == <<now, idleLeft>>
readerVars == <<reader, saw>>
vars == <<gated, time, normalizer, pc, after, taken, slot, terminal, finished,
          readerVars, reports>>

\* What a frame says of choices: some get content, others a finish reason.
Frame == {f \in [opens : SUBSET Indexes, closes : SUBSET Indexes] : f.opens \cap f.closes = {}}

Init ==
    /\ gated \in BOOLEAN
    /\ now = 0 /\ idleLeft = SemanticIdle
    /\ frames = 0 /\ seen = FALSE /\ active = {}
    /\ pc = "poll" /\ after = "none" /\ taken = FALSE
    /\ slot = <<>> /\ terminal = "none" /\ finished = FALSE
    /\ reader = "reading" /\ saw = "nothing" /\ reports = <<>>

Cancelled == reader # "reading"
Late == now >= AttemptTotal

-----------------------------------------------------------------------------
(* Ends of the producer.                                                   *)

\* The task returns.  Its tracker is dropped, and reports the attempt as
\* abandoned unless an end was reported; the channel closes behind it.
Returns(t) ==
    /\ pc' = "gone" /\ after' = "none" /\ taken' = FALSE
    /\ terminal' = t
    /\ finished' = TRUE
    /\ reports' = IF gated /\ ~finished THEN Append(reports, "abandoned") ELSE reports

\* A callback begins.  The tracker skips a finish when an end was reported
\* before; it looks only here, and the other end may report from now on.
Calls(kind, then) ==
    /\ pc' = kind /\ after' = then
    /\ taken' = (kind # "usage" /\ finished)
    /\ UNCHANGED <<terminal, finished, reports>>

\* finish_stream_failure and settle_stream_timeout, then the error.
FailsWith(error) ==
    IF gated THEN Calls("fail", error) ELSE Returns(error)

\* finish_stream_completed.
Completes == IF gated THEN Calls("complete", "none") ELSE Returns("none")

\* observe_stream_usage, if the frame or the end brought any usage.
Observes(then) ==
    \/ gated /\ Calls("usage", then)
    \/ pc' = then /\ after' = "none" /\ UNCHANGED <<taken, terminal, finished, reports>>

-----------------------------------------------------------------------------
(* The producer.                                                           *)

\* The reader went away while the producer waited for the provider or for
\* room.  Its other waits look at the same signal.
Stops ==
    /\ pc \in {"poll", "emit", "emitLast", "emitDone"} /\ Cancelled
    /\ Returns("none")
    /\ UNCHANGED <<gated, time, normalizer, slot, readerVars>>

PollTimesOut ==
    /\ pc = "poll" /\ (Late \/ idleLeft = 0)
    /\ FailsWith("timeout")
    /\ UNCHANGED <<gated, time, normalizer, slot, readerVars>>

\* An event of white space only, which the provider's reader lets through.
BlankFrame ==
    /\ pc = "poll" /\ frames < MaxFrames
    /\ frames' = frames + 1
    /\ UNCHANGED <<gated, time, seen, active, pc, after, taken, slot, terminal,
                   finished, readerVars, reports>>

\* The idle budget starts again.
SemanticFrame ==
    /\ pc = "poll" /\ frames < MaxFrames
    /\ frames' = frames + 1
    /\ idleLeft' = SemanticIdle
    /\ UNCHANGED <<gated, now, slot, readerVars>>

\* Content makes its choice active, its finish ends it; the frame may carry usage
\* and may or may not leave a chunk to forward.
ContentFrame(f) ==
    /\ SemanticFrame
    /\ seen' = (seen \/ f.closes # {})
    /\ active' = (active \ f.closes) \cup f.opens
    /\ \E then \in {"emit", "poll"} : Observes(then)

\* What finish asks for: a finish reason was seen and no choice is open.
Terminal == seen /\ active = {}

\* [DONE] ends the normalizer: its terminal chunk, if it has one, if all
\* choices ended, and an error otherwise.
DoneFrame ==
    /\ SemanticFrame
    /\ \/ /\ Terminal
          /\ pc' \in {"emitDone", "done"}
          /\ UNCHANGED <<after, taken, terminal, finished, reports>>
       \/ ~Terminal /\ FailsWith("broken")
    /\ UNCHANGED <<seen, active>>

DoneUsage ==
    /\ pc = "done"
    /\ Observes("last")
    /\ UNCHANGED <<gated, time, normalizer, slot, readerVars>>

\* A frame that does not parse, is an upstream error or overruns the
\* retention limits of the normalizer or of the usage; the usage it brings is
\* observed all the same.
BadFrame ==
    /\ SemanticFrame
    /\ FailsWith("broken") \/ Observes("broken")
    /\ UNCHANGED <<seen, active>>

\* The transport fails or cannot be decoded within its limits.
SourceFails ==
    /\ pc = "poll"
    /\ FailsWith("broken")
    /\ UNCHANGED <<gated, time, normalizer, slot, readerVars>>

\* The provider closes the connection.  A tool call may be unfinished even though
\* no choice is.
SourceEnds ==
    /\ pc = "poll"
    /\ \/ Terminal /\ \E then \in {"emitLast", "last"} : Observes(then)
       \/ Observes("broken")
    /\ UNCHANGED <<gated, time, normalizer, slot, readerVars>>

Broken ==
    /\ pc = "broken"
    /\ FailsWith("broken")
    /\ UNCHANGED <<gated, time, normalizer, slot, readerVars>>

\* send_stream_output.
Emits ==
    /\ pc \in {"emit", "emitLast", "emitDone"} /\ Len(slot) < Capacity /\ ~Cancelled
    /\ slot' = Append(slot, "chunk")
    /\ pc' = [emit |-> "poll", emitLast |-> "last", emitDone |-> "done"][pc]
    /\ UNCHANGED <<gated, time, normalizer, after, taken, terminal, finished, readerVars,
                   reports>>

EmitTimesOutNever ==
    /\ pc \in {"emit", "emitLast", "emitDone"} /\ Late /\ Len(slot) < Capacity
    /\ FailsWith("timeout")
    /\ UNCHANGED <<gated, time, normalizer, slot, readerVars>>

EmitTimesOut ==
    /\ pc \in {"emit", "emitLast", "emitDone"} /\ Late
    /\ FailsWith("timeout")
    /\ UNCHANGED <<gated, time, normalizer, slot, readerVars>>

Last ==
    /\ pc = "last"
    /\ Completes
    /\ UNCHANGED <<gated, time, normalizer, slot, readerVars>>

-----------------------------------------------------------------------------
(* The callbacks of the attempt's policy.                                  *)

Outcome == IF pc = "complete" THEN "completed" ELSE "failed"

\* The observation reaches the coordinator.
CoordinatorTakes ==
    /\ pc \in {"usage", "complete", "fail"} /\ ~taken
    /\ taken' = TRUE
    /\ reports' = IF pc = "usage" THEN reports ELSE Append(reports, Outcome)
    /\ UNCHANGED <<gated, time, normalizer, pc, after, slot, terminal, finished, readerVars>>

CallbackReturns ==
    /\ taken
    /\ \/ /\ pc = "usage"
          /\ pc' = after /\ after' = "none" /\ taken' = FALSE
          /\ UNCHANGED <<terminal, finished, reports>>
       \/ /\ pc \in {"complete", "fail"}
          /\ pc' = "gone" /\ taken' = FALSE /\ after' = "none"
          /\ terminal' = IF pc = "fail" THEN after ELSE "none"
          /\ finished' = TRUE /\ UNCHANGED reports
    /\ UNCHANGED <<gated, time, normalizer, slot, readerVars>>

\* It refuses, is too late, or its answer is lost; or the reader goes away
\* during the wait.  A failure keeps its own error.
CallbackFails ==
    /\ pc \in {"usage", "complete", "fail"}
    /\ Returns(IF pc = "fail" THEN after ELSE "coordinator")
    /\ UNCHANGED <<gated, time, normalizer, slot, readerVars>>

-----------------------------------------------------------------------------
(* The reader.                                                             *)

\* poll_next: an item, or, once the channel is closed and empty, the terminal.
Reads ==
    /\ reader = "reading" /\ saw \in {"nothing", "chunk"}
    /\ \/ /\ slot # <<>>
          /\ slot' = Tail(slot) /\ saw' = "chunk"
          /\ UNCHANGED terminal
       \/ /\ slot = <<>> /\ pc = "gone"
          /\ saw' = IF terminal = "none" THEN "end" ELSE "error"
          /\ terminal' = "none"
          /\ UNCHANGED slot
    /\ UNCHANGED <<gated, time, normalizer, pc, after, taken, finished, reader, reports>>

\* EagerReceiverStream::drop, and then the guard that it owns, which looks whether
\* an end was reported.
DropsStream ==
    /\ reader = "reading"
    /\ reader' = "closing"
    /\ UNCHANGED <<gated, time, normalizer, pc, after, taken, slot, terminal, finished,
                   saw, reports>>

DropsGuardUnasked ==
    /\ reader = "closing"
    /\ reader' = "dropped" /\ finished' = TRUE
    /\ reports' = IF gated THEN Append(reports, "abandoned") ELSE reports
    /\ UNCHANGED <<gated, time, normalizer, pc, after, taken, slot, terminal, saw>>

DropsGuard ==
    /\ reader = "closing"
    /\ reader' = "dropped" /\ finished' = TRUE
    /\ reports' = IF gated /\ ~finished THEN Append(reports, "abandoned") ELSE reports
    /\ UNCHANGED <<gated, time, normalizer, pc, after, taken, slot, terminal, saw>>

-----------------------------------------------------------------------------

\* Timers fire when they are due; only polling uses the idle budget.
Tick ==
    /\ pc # "gone" /\ now < AttemptTotal
    /\ pc = "poll" => idleLeft > 0
    /\ now' = now + 1
    /\ IF pc = "poll" THEN idleLeft' = idleLeft - 1
       ELSE UNCHANGED idleLeft
    /\ UNCHANGED <<gated, normalizer, pc, after, taken, slot, terminal, finished,
                   readerVars, reports>>

Provides ==
    \/ BlankFrame \/ (\E f \in Frame : ContentFrame(f)) \/ DoneFrame \/ BadFrame
    \/ SourceFails \/ SourceEnds

Produces == Stops \/ PollTimesOut \/ Broken \/ DoneUsage \/ Emits \/ EmitTimesOut \/ Last

Observed == CoordinatorTakes \/ CallbackReturns \/ CallbackFails

Next == Provides \/ Produces \/ Observed \/ Reads \/ DropsStream \/ DropsGuard \/ Tick

\* The task is scheduled, every callback is bounded by a timeout and the clock
\* runs.  Nothing is asked of the provider or of the reader.
Spec ==
    /\ Init /\ [][Next]_vars
    /\ WF_vars(Produces) /\ WF_vars(CallbackFails) /\ WF_vars(Tick)

-----------------------------------------------------------------------------
(* Properties.                                                             *)

\* A reader that sees the stream end without an error has the whole answer:
\* every choice the provider began was finished, the attempt was reported as
\* completed and, also after the reader and its guard are dropped, as nothing else.
CleanEndEarned ==
    saw = "end" =>
        /\ Terminal
        /\ gated => reports = <<"completed">>

\* The provider's connection is given up in the end, even when the reader
\* neither reads nor drops the stream.
Released == pc = "gone"

SourceReleased == <>Released
=============================================================================
