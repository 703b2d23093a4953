------------------------------- MODULE Breaker -------------------------------
(***************************************************************************)
(* Provider circuit breaking for one target: the in-process breaker of     *)
(* src/src/breaker.rs on every instance, the fleet-wide health store of    *)
(* src/src/proxy/health.rs, and the callers of src/src/fallback.rs and     *)
(* src/src/client.rs that ask for admission and report outcomes.           *)
(*                                                                         *)
(* Instants are kept as ages, the time passed since, and ages stop growing *)
(* where no comparison tells them apart.  The registry lock makes each     *)
(* breaker operation one step; admit takes the lock twice and awaits the   *)
(* shared store in between.  Every Redis operation fails open.             *)
(***************************************************************************)
EXTENDS Integers, Sequences, FiniteSets

CONSTANTS
    Instance, Caller,
    On,             \* the instance a caller runs on
    Threshold,      \* trip_threshold; 0 disables the breaker and is left out
    Window, Cooldown,
    Shared          \* a SharedHealth store is attached

ASSUME BreakerAssumption ==
    /\ On \in [Caller -> Instance]
    /\ Threshold \in Nat \ {0} /\ Window \in Nat \ {0} /\ Cooldown \in Nat \ {0}
    /\ Shared \in BOOLEAN

VARIABLES
    mode,       \* TargetState of each instance: closed, open, half
    failures,   \* ages of the failure window of a closed target
    opened,     \* age of opened_at
    sfailures,  \* llmshim:health:<target>:failures, ages
    sopen,      \* age of the :open marker, or None
    sprobe,     \* age of the :probe slot, or None
    cpc,        \* where each caller is
    result,     \* the outcome it is about to report
    probing,    \* history: holds the local probe of the current open period
    strayed,    \* history: a probe of the half-open target ended unobserved
    counted,    \* history: ages of counted failures since the last success
    lastCounted,\* history: age of the last counted failure, or None
    fleet       \* history: ages of the failures told to the store since it was
                \* last told that the target is healthy

local == <<mode, failures, opened>>
shared == <<sfailures, sopen, sprobe>>
history == <<probing, strayed, counted, lastCounted, fleet>>
vars == <<local, shared, cpc, result, history>>

None == -1
MarkerTtl == 4 * Cooldown
Outcome == {"ok", "counted", "uncounted"}

Init ==
    /\ mode = [i \in Instance |-> "closed"]
    /\ failures = [i \in Instance |-> <<>>]
    /\ opened = [i \in Instance |-> 0]
    /\ sfailures = <<>> /\ sopen = None /\ sprobe = None
    /\ cpc = [c \in Caller |-> "idle"]
    /\ result = [c \in Caller |-> "ok"]
    /\ probing = [c \in Caller |-> FALSE]
    /\ strayed = [i \in Instance |-> FALSE]
    /\ counted = [i \in Instance |-> <<>>]
    /\ lastCounted = [i \in Instance |-> None]
    /\ fleet = <<>>

\* Entries beyond the newest Threshold never change a comparison of counts.
Newest(ages) ==
    IF Len(ages) <= Threshold THEN ages
    ELSE SubSeq(ages, Len(ages) - Threshold + 1, Len(ages))

CallerGoes(c, pc) == cpc' = [cpc EXCEPT ![c] = pc]

-----------------------------------------------------------------------------
(***************************************************************************)
(* admit                                                                   *)
(***************************************************************************)

\* should_skip, and the route admit takes from there.
Asks(c) ==
    /\ cpc[c] = "idle"
    /\ CallerGoes(c, IF mode[On[c]] # "closed" THEN "skipping"
                     ELSE IF Shared THEN "asking" ELSE "dispatch")
    /\ UNCHANGED <<local, shared, result, history>>

ProbeDue(i) == mode[i] = "open" /\ opened[i] >= Cooldown

\* try_admit_probe, under a second acquisition of the lock.
ReservesProbe(c) ==
    /\ cpc[c] = "skipping"
    /\ ProbeDue(On[c])
    /\ mode' = [mode EXCEPT ![On[c]] = "half"]
    /\ probing' = [probing EXCEPT ![c] = TRUE]
    /\ CallerGoes(c, "dispatch")
    /\ UNCHANGED <<failures, opened, shared, result, strayed, counted, lastCounted, fleet>>

Refused(c) ==
    /\ cpc[c] = "skipping"
    /\ ~ProbeDue(On[c])
    /\ CallerGoes(c, "idle")
    /\ UNCHANGED <<local, shared, result, history>>

\* SharedHealth::is_open; an absent marker and an error both read as closed.
AsksShared(c) ==
    /\ cpc[c] = "asking"
    /\ \/ sopen # None /\ CallerGoes(c, "probing")
       \/ CallerGoes(c, "dispatch")
    /\ UNCHANGED <<local, shared, result, history>>

\* PROBE_LUA: the single fleet-wide slot.
SharedProbeDue == sopen # None /\ sopen >= Cooldown /\ sprobe = None

ProbesShared(c) ==
    /\ cpc[c] = "probing"
    /\ \/ SharedProbeDue /\ sprobe' = 0 /\ CallerGoes(c, "dispatch")
       \/ ~SharedProbeDue /\ UNCHANGED sprobe /\ CallerGoes(c, "idle")
    /\ UNCHANGED <<local, sfailures, sopen, result, history>>

\* The script errs: the caller is admitted, whatever became of the script.
ProbeErrs(c) ==
    /\ cpc[c] = "probing"
    /\ \/ UNCHANGED sprobe
       \/ SharedProbeDue /\ sprobe' = 0
    /\ CallerGoes(c, "dispatch")
    /\ UNCHANGED <<local, sfailures, sopen, result, history>>

-----------------------------------------------------------------------------
(***************************************************************************)
(* Dispatch and its outcome.                                               *)
(***************************************************************************)

\* A single-target request is dispatched without asking.
DispatchesDirectly(c) ==
    /\ cpc[c] = "idle"
    /\ CallerGoes(c, "dispatch")
    /\ UNCHANGED <<local, shared, result, history>>

Answers(c) ==
    /\ cpc[c] = "dispatch"
    /\ \E r \in Outcome : result' = [result EXCEPT ![c] = r]
    /\ CallerGoes(c, "record")
    /\ UNCHANGED <<local, shared, history>>

\* breaker_outcome is None (a local failure, a timeout of the caller's own, a
\* policy refusal), or the caller's future is dropped: nothing is observed.
EndsUnobserved(c) ==
    /\ cpc[c] = "dispatch"
    /\ CallerGoes(c, "idle")
    /\ probing' = [probing EXCEPT ![c] = FALSE]
    /\ strayed' = [strayed EXCEPT ![On[c]] = @ \/ (probing[c] /\ mode[On[c]] = "half")]
    /\ UNCHANGED <<local, shared, result, counted, lastCounted, fleet>>

\* What FAIL_LUA keeps: a failure exactly as old as the window is trimmed.
SharedFresh(age) == age < Window

\* What record_failure keeps: a failure exactly as old as the window counts.
Fresh(age) == age <= Window

\* Pruning pops from the front until it meets an entry of the fresh positions.
Popped(ages, fresh) ==
    CHOOSE n \in 0..Len(ages) : /\ 1..n \cap fresh = {}
                                /\ n = Len(ages) \/ n + 1 \in fresh
Pruned(ages, fresh) == SubSeq(ages, Popped(ages, fresh) + 1, Len(ages))

Trimmed(ages) == Append(Pruned(ages, {k \in DOMAIN ages : Fresh(ages[k])}), 0)

\* A sorted set trimmed by score loses its oldest members, likewise.
SharedTrimmed(ages) == Append(Pruned(ages, {k \in DOMAIN ages : SharedFresh(ages[k])}), 0)

\* A counted failure of an open or half-open target restarts the cooldown.
Reopen(i) ==
    /\ mode' = [mode EXCEPT ![i] = "open"]
    /\ opened' = [opened EXCEPT ![i] = 0]
    /\ UNCHANGED failures

RecordCounted(i) ==
    IF mode[i] # "closed" THEN Reopen(i)
    ELSE IF Len(Trimmed(failures[i])) >= Threshold
    THEN /\ mode' = [mode EXCEPT ![i] = "open"]
         /\ opened' = [opened EXCEPT ![i] = 0]
         /\ failures' = [failures EXCEPT ![i] = <<>>]
    ELSE /\ failures' = [failures EXCEPT ![i] = Trimmed(@)]
         /\ UNCHANGED <<mode, opened>>

\* An ineligible failure returns a half-open target to open, opened_at kept.
RecordUncounted(i) ==
    /\ mode' = [mode EXCEPT ![i] = IF @ = "half" THEN "open" ELSE @]
    /\ UNCHANGED <<failures, opened>>

RecordSuccess(i) ==
    /\ mode' = [mode EXCEPT ![i] = "closed"]
    /\ failures' = [failures EXCEPT ![i] = <<>>]
    /\ opened' = [opened EXCEPT ![i] = 0]

\* The local half of observe.
Records(c) ==
    /\ cpc[c] = "record"
    /\ LET i == On[c] IN
       \/ /\ result[c] = "ok"
          /\ RecordSuccess(i)
          /\ counted' = [counted EXCEPT ![i] = <<>>]
          /\ lastCounted' = [lastCounted EXCEPT ![i] = None]
          /\ probing' = [d \in Caller |-> probing[d] /\ On[d] # i]
       \/ /\ result[c] = "counted"
          /\ RecordCounted(i)
          /\ counted' = [counted EXCEPT ![i] = Newest(Append(@, 0))]
          /\ lastCounted' = [lastCounted EXCEPT ![i] = 0]
          /\ probing' = [d \in Caller |-> probing[d] /\ On[d] # i]
       \/ /\ result[c] = "uncounted"
          /\ RecordUncounted(i)
          /\ probing' = [probing EXCEPT ![c] = FALSE]
          /\ UNCHANGED <<counted, lastCounted>>
    /\ strayed' = [strayed EXCEPT ![On[c]] = FALSE]
    /\ CallerGoes(c, IF Shared THEN "share" ELSE "idle")
    /\ UNCHANGED <<shared, result, fleet>>

-----------------------------------------------------------------------------
(***************************************************************************)
(* The shared half of observe, and time.                                   *)
(***************************************************************************)

\* DEL of the window, the open marker and the probe slot.
SharedHealthy == sfailures' = <<>> /\ sopen' = None /\ sprobe' = None

\* Wrong variant: only the failure that crosses the threshold writes the marker.
SharedMarkerOnce(n) == IF n = Threshold /\ sopen = None THEN 0 ELSE sopen

\* The open marker is rewritten whenever the count is at the threshold.
SharedMarker(n) == IF n >= Threshold THEN 0 ELSE sopen

\* FAIL_LUA
SharedFail ==
    LET kept == Newest(SharedTrimmed(sfailures)) IN
    /\ sfailures' = kept
    /\ sopen' = SharedMarker(Len(kept))
    /\ UNCHANGED sprobe

\* healthy is !counts_toward_health for every failure.
SharedObserve(c) == IF result[c] = "counted" THEN SharedFail ELSE SharedHealthy

\* A report that is delayed is a caller that stays here longer.
Shares(c) ==
    /\ cpc[c] = "share"
    /\ SharedObserve(c)
    /\ fleet' = IF result[c] = "counted" THEN Newest(Append(fleet, 0)) ELSE <<>>
    /\ CallerGoes(c, "idle")
    /\ UNCHANGED <<local, result, probing, strayed, counted, lastCounted>>

ShareErrs(c) ==
    /\ cpc[c] = "share"
    /\ CallerGoes(c, "idle")
    /\ UNCHANGED <<local, shared, result, history>>

Older(age, bound) == IF age < bound THEN age + 1 ELSE age
OlderOrNone(age, bound) == IF age = None THEN None ELSE Older(age, bound)

\* A key written with PX ttl.
Expires(age, ttl) == IF age = None \/ age + 1 >= ttl THEN None ELSE age + 1
AllOlder(ages, bound) == [k \in DOMAIN ages |-> Older(ages[k], bound)]

\* The failures key expires a window after the last failure.
Tick ==
    /\ failures' = [i \in Instance |-> AllOlder(failures[i], Window + 1)]
    /\ opened' = [i \in Instance |-> Older(opened[i], Cooldown)]
    /\ sfailures' = IF sfailures # <<>> /\ sfailures[Len(sfailures)] + 1 >= Window
                    THEN <<>> ELSE AllOlder(sfailures, Window)
    /\ sopen' = Expires(sopen, MarkerTtl)
    /\ sprobe' = Expires(sprobe, Cooldown)
    /\ counted' = [i \in Instance |-> AllOlder(counted[i], Window + 1)]
    /\ lastCounted' = [i \in Instance |-> OlderOrNone(lastCounted[i], Cooldown)]
    /\ fleet' = AllOlder(fleet, Window)
    /\ UNCHANGED <<mode, cpc, result, probing, strayed>>

Next ==
    \/ \E c \in Caller :
         \/ Asks(c) \/ ReservesProbe(c) \/ Refused(c)
         \/ AsksShared(c) \/ ProbesShared(c) \/ ProbeErrs(c)
         \/ DispatchesDirectly(c) \/ Answers(c) \/ EndsUnobserved(c)
         \/ Records(c) \/ Shares(c) \/ ShareErrs(c)
    \/ Tick

Spec == Init /\ [][Next]_vars

-----------------------------------------------------------------------------
(***************************************************************************)
(* Properties.                                                             *)
(***************************************************************************)

\* Type correctness.
TypeOK ==
    /\ mode \in [Instance -> {"closed", "open", "half"}]
    /\ failures \in [Instance -> Seq(0..Window + 1)]
    /\ opened \in [Instance -> 0..Cooldown]
    /\ sfailures \in Seq(0..Window)
    /\ sopen \in {None} \cup 0..MarkerTtl /\ sprobe \in {None} \cup 0..Cooldown
    /\ cpc \in [Caller -> {"idle", "skipping", "asking", "probing", "dispatch",
                           "record", "share"}]
    /\ result \in [Caller -> Outcome]
    /\ probing \in [Caller -> BOOLEAN] /\ strayed \in [Instance -> BOOLEAN]
    /\ counted \in [Instance -> Seq(0..Window + 1)]
    /\ lastCounted \in [Instance -> {None} \cup 0..Cooldown]
    /\ fleet \in Seq(0..Window)

\* A circuit is never closed over a window that holds the threshold: however
\* reports of concurrent callers interleave, record_failure loses none.
TripsInTime ==
    \A i \in Instance :
        mode[i] = "closed"
        => Cardinality({k \in DOMAIN counted[i] : counted[i][k] <= Window}) < Threshold

\* While a circuit is open its clock runs from the last counted failure, so
\* that no probe goes out within a cooldown of a known failure, also one a
\* straggler reported after the circuit had opened.
CooldownFromLastFailure ==
    \A i \in Instance :
        mode[i] # "closed" => lastCounted[i] # None /\ opened[i] = lastCounted[i]

\* A probe is only ever out on a circuit that cooled down completely.
ProbesCooled ==
    [][\A c \in Caller : probing'[c] /\ ~probing[c]
          => lastCounted[On[c]] = Cooldown]_vars

\* A half-open circuit has a probe on its way whose outcome decides it, unless its
\* probe ended unobserved: should_skip refuses everybody else, and neither a straggler's
\* report nor the end of an earlier probe takes away the only one that is awaited.
HalfOpenProbed ==
    \A i \in Instance :
        mode[i] = "half" => strayed[i] \/ \E c \in Caller : On[c] = i /\ probing[c]

\* Between two reports of health the fleet forgets no failure: the store shows the
\* target open for as long as its window holds the threshold of failures that any
\* instances told it, in whatever order reports, probes and expiries come.  A report of
\* health is what observe makes it, a success or a failure that does not count; that
\* the latter clears the window is the subject of OnlyHealthMovesWindow.  Four
\* cooldowns, the marker's lifetime, must not be shorter than the window.
FleetTripsInTime ==
    /\ Window <= MarkerTtl
    /\ Cardinality({k \in DOMAIN fleet : fleet[k] < Window}) >= Threshold
    => sopen # None

\* "Only health-relevant failures move the shared window" (observe): the report of a
\* failure that does not count leaves the failures of the fleet as they are.
OnlyHealthMovesWindow ==
    [][\A c \in Caller : cpc[c] = "share" /\ cpc'[c] # "share" /\ result[c] = "uncounted"
          => sfailures' = sfailures]_vars
=============================================================================
