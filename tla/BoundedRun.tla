----------------------------- MODULE BoundedRun -----------------------------
(***************************************************************************)
(* The native plugin of run/1.13: the engine that lends the game clock to  *)
(* one bounded run at a time (bridge/common/bounded_run.h) and the plugin  *)
(* around it (bridge/dfhack-run-v1_13/dfmcp_run_v1_13.cpp), with the gate  *)
(* that keeps DFHack from unloading a plugin that owns the clock.          *)
(*                                                                         *)
(* Handlers and the update callback hold the CoreSuspender and exclude one *)
(* another.  The unload hook does not hold it: its two atomic accesses     *)
(* interleave with those of service and of CommitRun, which are therefore  *)
(* split where they access drain_requested and gate (core is the program   *)
(* counter of the thread that holds the suspension).                       *)
(*                                                                         *)
(* A plan digest stands for the spec and the observation it hashes, so the *)
(* record carries these.  The steady clock never runs backwards, so the    *)
(* engine's last_service and its check have no effect and are left out.    *)
(***************************************************************************)
EXTENDS Integers, FiniteSets

CONSTANTS
    Keys,
    GameTicks,         \* requested game ticks
    WallMs,            \* requested wall time
    MaxTick,           \* stands for u64::MAX as a game tick
    MaxNow,            \* Clock::time_point::max()
    MaxGeneration,     \* stands for u64::MAX as a generation
    MaxSequence,       \* stands for u64::MAX as a dispatch sequence
    PREPARE_LIFETIME,
    MAX_RECORDS,
    NoRecord,
    NoKey

ASSUME RunAssumption ==
    /\ GameTicks \subseteq Nat \ {0}
    /\ WallMs \subseteq Nat \ {0}
    /\ MaxTick \in Nat
    /\ MaxNow \in Nat
    /\ MaxGeneration \in Nat \ {0}
    /\ MaxSequence \in Nat
    /\ PREPARE_LIFETIME \in Nat \ {0}
    /\ MAX_RECORDS \in Nat
    /\ NoKey \notin Keys

VARIABLES
    \* the engine
    sequence,
    records,         \* Keys -> Record or NoRecord
    active,          \* the key of the record that owns the clock, or NoKey
    \* the plugin
    generation,
    gate,            \* "Idle", "Busy" or "Closing"
    drain_requested,
    core,            \* where the holder of the CoreSuspender is
    unload,          \* where DFHack's unload of the plugin is
    \* the game
    loaded,          \* world and map are loaded, in fortress mode
    clock_valid,
    tick,
    raw,             \* the pause flag that SetPauseState writes
    modal,           \* a dialog pauses the game: ReadPauseState reports it too
    now,             \* the steady clock
    \* history
    unpauses,        \* Keys -> number of unpause setter calls
    replaced,        \* keys prepared for a fortress that is gone
    trespassed       \* keys for which a setter reached another fortress

engineVars == <<sequence, records, active>>
gateVars == <<gate, drain_requested, core, unload>>
gameVars == <<loaded, clock_valid, tick, raw, modal, now>>
runVars == <<engineVars, gateVars, generation, gameVars, unpauses, replaced,
             trespassed>>

Phase == {"Prepared", "Running", "Stopping", "Stopped", "Refused",
          "SourceLost"}
Reason == {"None", "TickLimit", "WallLimit", "Cancelled", "ExternalPause",
           "NativeFailure", "ClockRegression", "SourceChanged", "Shutdown",
           "Stale"}
Spec == [game_ticks : GameTicks, wall_ms : WallMs]
Generations == 1 .. MaxGeneration
Ticks == 0 .. MaxTick
Snapshot ==
    [generation : Generations, sequence : 0 .. MaxSequence, tick : Ticks,
     loaded : BOOLEAN, clock_valid : BOOLEAN, paused : BOOLEAN]
Record ==
    [spec : Spec, before : Snapshot, phase : Phase, reason : Reason,
     unpause_attempted : BOOLEAN, pause_verified : BOOLEAN,
     tick_known : BOOLEAN, observed_tick : Ticks, prepared : 0 .. MaxNow,
     deadline : 0 .. MaxNow]

ASSUME RunAbsent == NoRecord \notin Record

RunTypeOK ==
    /\ sequence \in 0 .. MaxSequence
    /\ records \in [Keys -> Record \cup {NoRecord}]
    /\ active \in Keys \cup {NoKey}
    /\ generation \in Generations
    /\ gate \in {"Idle", "Busy", "Closing"}
    /\ drain_requested \in BOOLEAN
    /\ core \in [at : {"idle", "service", "drain", "commit", "claim", "check"},
                 key : Keys \cup {NoKey}]
    /\ unload \in {"no", "requested", "granted", "done"}
    /\ loaded \in BOOLEAN /\ clock_valid \in BOOLEAN
    /\ tick \in Ticks
    /\ raw \in BOOLEAN /\ modal \in BOOLEAN
    /\ now \in 0 .. MaxNow
    /\ unpauses \in [Keys -> Nat]
    /\ replaced \in SUBSET Keys
    /\ trespassed \in SUBSET Keys

Free == [at |-> "idle", key |-> NoKey]

RunInit ==
    /\ sequence = 0
    /\ records = [k \in Keys |-> NoRecord]
    /\ active = NoKey
    /\ generation \in 1 .. MaxGeneration - 1
    /\ gate = "Idle"
    /\ drain_requested = FALSE
    /\ core = Free
    /\ unload = "no"
    /\ loaded \in BOOLEAN /\ clock_valid = loaded
    /\ tick = 0
    /\ raw \in BOOLEAN /\ modal = FALSE
    /\ now = 0
    /\ unpauses = [k \in Keys |-> 0]
    /\ replaced = {}
    /\ trespassed = {}

-----------------------------------------------------------------------------
(* Observation and setter *)

\* read_native and Engine::observe, with the pause flag as flag
observe(flag) ==
    [generation |-> generation, sequence |-> sequence,
     tick |-> IF loaded /\ clock_valid THEN tick ELSE 0,
     loaded |-> loaded, clock_valid |-> loaded /\ clock_valid,
     paused |-> loaded /\ (flag \/ modal)]

\* Snapshot::usable; authenticate refuses all with a saturated generation
usable(s) == s.loaded /\ s.clock_valid /\ s.generation # MaxGeneration
authenticate == generation # MaxGeneration /\ unload # "done"

\* write_native for the record r: done and verified, thrown without effect, or
\* thrown after the flag was written
Writes(r) ==
    IF r.before.generation = generation /\ loaded
    THEN {"ok", "none", "thrown"} ELSE {"none"}

-----------------------------------------------------------------------------
(* The engine, as functions of the record it works on *)

begin_stop(r, why) ==
    IF r.phase = "Running"
    THEN [r EXCEPT !.phase = "Stopping", !.reason = why] ELSE r

stop_if(cond, r, why) == IF cond THEN begin_stop(r, why) ELSE r

finish(r) == [r EXCEPT !.pause_verified = TRUE, !.phase = "Stopped"]

lose_source(r) ==
    [r EXCEPT !.phase = "SourceLost", !.reason = "SourceChanged",
              !.pause_verified = FALSE, !.tick_known = FALSE]

\* What service makes of a usable observation s, with the last tick of the run
seen_until(r, s, last) ==
    LET regressed == \/ s.tick < r.before.tick
                     \/ r.tick_known /\ s.tick < r.observed_tick
        r1 == [stop_if(regressed, r, "ClockRegression")
                 EXCEPT !.observed_tick = s.tick, !.tick_known = TRUE]
    IN  stop_if(s.paused, stop_if(s.tick >= last, r1, "TickLimit"),
                "ExternalPause")

\* Mutant of seen: the tick limit is noticed one tick late
seen_late(r, s) == seen_until(r, s, r.before.tick + r.spec.game_ticks + 1)

seen(r, s) == seen_until(r, s, r.before.tick + r.spec.game_ticks)

\* service after the wall limit; read says whether the observation succeeded
look(r, flag, read) ==
    LET s == observe(flag)
    IN  IF read /\ s.generation # r.before.generation THEN lose_source(r)
        ELSE IF read /\ s.loaded /\ s.clock_valid THEN seen(r, s)
        ELSE begin_stop([r EXCEPT !.tick_known = FALSE], "NativeFailure")

\* Mutant of watch: no wall limit
watch_untimed(r, flag, read) == look(r, flag, read)

\* service up to the safety pause
watch(r, flag, read) ==
    look(stop_if(now >= r.deadline, r, "WallLimit"), flag, read)

\* The end of attempt_pause with the pause flag as flag, when a verified setter
\* is what verified says, and read whether the second observation succeeded
readback(r, flag, verified, read) ==
    LET s == observe(flag)
        r1 == [r EXCEPT !.tick_known = s.clock_valid,
                        !.observed_tick = IF s.clock_valid THEN s.tick ELSE @]
    IN  IF ~read THEN [r EXCEPT !.tick_known = FALSE]
        ELSE IF s.generation # r.before.generation THEN lose_source(r)
        ELSE IF verified /\ s.loaded /\ s.paused THEN finish(r1)
        ELSE r1

\* Mutant of attempt_pause: a pause that is observed ends the run, whether the
\* setter was verified or not
attempt_pause_unowned(r, flag, w, read) ==
    readback(r, flag \/ w # "none", TRUE, read)

\* attempt_pause with the setter's outcome w
attempt_pause(r, flag, w, read) ==
    readback(r, flag \/ w # "none", w = "ok", read)

Owning == {"Running", "Stopping"}

\* Mutant of release_idle_gate: the gate opens although the run goes on
release_idle_gate_early(owner) ==
    gate' = IF gate = "Busy" THEN "Idle" ELSE gate

\* Mutant of release_idle_gate: the gate stays claimed
release_idle_gate_never(owner) == gate' = gate

release_idle_gate(owner) ==
    gate' = IF owner = NoKey /\ gate = "Busy" THEN "Idle" ELSE gate

\* The rest of an operation on the active record k, which is r by now: service
\* with the pause flag as flag, the gate, and the end of the suspension
ServiceAs(k, r, flag) ==
    \E read \in BOOLEAN, again \in BOOLEAN, w \in Writes(r) :
        LET r1 == watch(r, flag, read)
            pausing == r1.phase = "Stopping"
            end == IF pausing THEN attempt_pause(r1, flag, w, again) ELSE r1
            owner == IF end.phase \in Owning THEN k ELSE NoKey
            set == pausing /\ w # "none"
        IN  /\ records' = [records EXCEPT ![k] = end]
            /\ active' = owner
            /\ raw' = (flag \/ set)
            /\ trespassed' = IF set /\ k \in replaced
                             THEN trespassed \cup {k} ELSE trespassed
            /\ release_idle_gate(owner)
            /\ core' = Free

\* A step that leaves the engine alone and gives the suspension back
Return ==
    /\ core' = Free
    /\ release_idle_gate(active)
    /\ UNCHANGED <<engineVars, raw, unpauses, trespassed>>

Outside == <<generation, drain_requested, unload, loaded, clock_valid, tick,
             modal, now, replaced>>

-----------------------------------------------------------------------------
(* The update callback *)

\* plugin_onupdate reads drain_requested.  Without an owner and a claimed gate
\* the callback changes nothing and is left out.
plugin_onupdate ==
    /\ core = Free
    /\ unload \notin {"granted", "done"}
    /\ active # NoKey \/ gate = "Busy"
    /\ core' = [at |-> IF drain_requested THEN "drain" ELSE "service",
                key |-> NoKey]
    /\ UNCHANGED <<engineVars, gate, raw, unpauses, trespassed, Outside>>

\* Engine::service, or Engine::shutdown when the unload hook asked for it
service ==
    /\ core.at \in {"service", "drain"}
    /\ \/ active = NoKey /\ Return
       \/ /\ active # NoKey
          /\ ServiceAs(active,
                       stop_if(core.at = "drain", records[active], "Shutdown"),
                       raw)
          /\ UNCHANGED <<sequence, unpauses>>
    /\ UNCHANGED Outside

-----------------------------------------------------------------------------
(* Handlers.  A request that is refused or replayed changes nothing: the    *)
(* gate it releases at its end is not claimed (GateSound).                  *)

\* PrepareRun: the client's observation is the current one, or the witness is
\* stale and the request refused.
PrepareRun(k, spec) ==
    LET s == observe(raw) IN
    /\ core = Free /\ authenticate
    /\ ~drain_requested /\ gate # "Closing"
    /\ records[k] = NoRecord
    /\ active = NoKey
    /\ Cardinality({j \in Keys : records[j] # NoRecord}) < MAX_RECORDS
    /\ sequence # MaxSequence
    /\ usable(s) /\ s.paused
    /\ s.tick <= MaxTick - spec.game_ticks
    /\ now <= MaxNow - PREPARE_LIFETIME
    /\ records' = [records EXCEPT ![k] =
          [spec |-> spec, before |-> s, phase |-> "Prepared",
           reason |-> "None", unpause_attempted |-> FALSE,
           pause_verified |-> FALSE,
           tick_known |-> FALSE, observed_tick |-> 0, prepared |-> now,
           deadline |-> 0]]
    /\ replaced' = replaced \ {k}
    /\ UNCHANGED <<sequence, active, gateVars, generation, gameVars, unpauses,
                   trespassed>>

\* CommitRun reads drain_requested ...
CommitRun(k) ==
    /\ core = Free /\ authenticate
    /\ records[k] # NoRecord /\ records[k].phase = "Prepared"
    /\ ~drain_requested
    /\ core' = [at |-> "commit", key |-> k]
    /\ UNCHANGED <<engineVars, gate, raw, unpauses, trespassed, Outside>>

\* Mutant of claim_gate: the commit goes ahead whatever the gate says
claim_gate_unchecked ==
    /\ core.at = "commit"
    /\ core' = [core EXCEPT !.at = "claim"]
    /\ UNCHANGED <<engineVars, gate, raw, unpauses, trespassed, Outside>>

\* ... claims the gate, or is refused by it ...
claim_gate ==
    /\ core.at = "commit"
    /\ \/ /\ gate = "Idle"
          /\ gate' = "Busy"
          /\ core' = [core EXCEPT !.at = "claim"]
          /\ UNCHANGED <<engineVars, raw, unpauses, trespassed>>
       \/ gate # "Idle" /\ Return
    /\ UNCHANGED Outside

\* ... and reads drain_requested again.
recheck_drain ==
    /\ core.at = "claim"
    /\ \/ /\ ~drain_requested
          /\ core' = [core EXCEPT !.at = "check"]
          /\ UNCHANGED <<engineVars, gate, raw, unpauses, trespassed>>
       \/ drain_requested /\ Return
    /\ UNCHANGED Outside

\* Mutant of current: the observation is not compared again
current_unobserved(r) ==
    /\ sequence # MaxSequence
    /\ r.before.sequence = sequence
    /\ now < r.prepared + PREPARE_LIFETIME
    /\ now <= MaxNow - r.spec.wall_ms

\* Engine::commit: the preparation is still current
current(r) ==
    /\ sequence # MaxSequence
    /\ r.before.sequence = sequence
    /\ now < r.prepared + PREPARE_LIFETIME
    /\ now <= MaxNow - r.spec.wall_ms
    /\ observe(raw) = r.before

\* The unpause of the preparation k, and service's look at the result.  A retry
\* of a setter that threw would be one more call.
unpause(k, next, retries) ==
    \E w \in Writes(records[k]) :
        LET r == [records[k] EXCEPT !.phase = "Running",
                     !.unpause_attempted = TRUE,
                     !.deadline = now + records[k].spec.wall_ms]
        IN  /\ sequence' = next
            /\ unpauses' = [unpauses EXCEPT ![k] =
                               @ + IF w = "ok" THEN 1 ELSE 1 + retries]
            /\ ServiceAs(k, stop_if(w # "ok", r, "NativeFailure"),
                         IF w = "none" THEN raw ELSE FALSE)

\* Mutants of start: an unpause that throws is tried again; the dispatch
\* sequence stays
start_retries(k) == unpause(k, sequence + 1, 1)
start_unsequenced(k) == unpause(k, sequence, 0)

\* Engine::commit of a current preparation: ownership is published before the
\* one call of the setter.
start(k) == unpause(k, sequence + 1, 0)

\* Engine::commit of one that is not, or that could not be observed
refuse_stale(k) ==
    /\ records' = [records EXCEPT ![k].phase = "Refused",
                                  ![k].reason = "Stale"]
    /\ core' = Free
    /\ release_idle_gate(active)
    /\ UNCHANGED <<sequence, active, raw, unpauses, trespassed>>

commit ==
    /\ core.at = "check"
    /\ IF active # NoKey THEN Return
       ELSE \/ current(records[core.key]) /\ start(core.key)
            \/ refuse_stale(core.key)
    /\ UNCHANGED Outside

\* Retire a record without touching the clock, or stop the active run
retire_or_stop(k, retirable) ==
    /\ core = Free /\ authenticate
    /\ records[k] # NoRecord
    /\ \/ /\ retirable
          /\ records' = [records EXCEPT ![k].phase = "Refused",
                                        ![k].reason = "Cancelled"]
          /\ UNCHANGED <<active, gate, core, raw, trespassed>>
       \/ /\ active = k
          /\ ServiceAs(k, begin_stop(records[k], "Cancelled"), raw)
    /\ UNCHANGED <<sequence, unpauses, Outside>>

\* Mutant of CancelRun: a finished run can be cancelled too
CancelRun_any(k) == retire_or_stop(k, active # k)

CancelRun(k) == retire_or_stop(k, records[k].phase = "Prepared")

-----------------------------------------------------------------------------
(* World events and unloading *)

\* Mutant of source_changed: only preparations are retired
source_changed_prepared(r, owner) ==
    IF r # NoRecord /\ r.phase = "Prepared"
    THEN [r EXCEPT !.phase = "Refused", !.reason = "SourceChanged"]
    ELSE r

\* Engine::source_changed for one record
source_changed(r, owner) ==
    IF r = NoRecord THEN r
    ELSE IF owner THEN lose_source(r)
    ELSE IF r.phase = "Prepared"
    THEN [r EXCEPT !.phase = "Refused", !.reason = "SourceChanged"]
    ELSE r

\* Another fortress, or none
NewFortress ==
    /\ core = Free
    /\ unload # "done"
    /\ loaded' \in BOOLEAN
    /\ clock_valid' = loaded'
    /\ tick' \in Ticks
    /\ raw' \in BOOLEAN
    /\ modal' = FALSE
    /\ replaced' = {k \in Keys : records[k] # NoRecord}
    /\ UNCHANGED <<drain_requested, core, unload, now, unpauses, trespassed>>

\* The engine and the gate lose their source
SourceChanges ==
    /\ sequence' = IF sequence # MaxSequence THEN sequence + 1 ELSE sequence
    /\ records' = [k \in Keys |-> source_changed(records[k], k = active)]
    /\ active' = NoKey
    /\ release_idle_gate(NoKey)

\* Mutants of plugin_onstatechange: the event is not one the plugin listens to;
\* the generation does not saturate
plugin_onstatechange_missed ==
    NewFortress /\ UNCHANGED <<generation, engineVars, gate>>
plugin_onstatechange_unsaturated ==
    NewFortress /\ SourceChanges /\ generation' = generation + 1

\* plugin_onstatechange: a world or map is loaded or unloaded
plugin_onstatechange ==
    /\ NewFortress
    /\ SourceChanges
    /\ generation' = IF generation # MaxGeneration THEN generation + 1
                                                   ELSE generation

\* SC_BEGIN_UNLOAD publishes the drain request ...
begin_unload ==
    /\ unload = "no"
    /\ unload' = "requested"
    /\ drain_requested' = TRUE
    /\ UNCHANGED <<engineVars, gate, core, generation, gameVars, unpauses,
                   replaced, trespassed>>

\* ... and closes the gate, or vetoes the unload.
close_gate ==
    /\ unload = "requested"
    /\ \/ gate \in {"Idle", "Closing"} /\ gate' = "Closing"
          /\ unload' = "granted"
       \/ gate = "Busy" /\ unload' = "no" /\ UNCHANGED gate
    /\ UNCHANGED <<engineVars, drain_requested, core, generation, gameVars,
                   unpauses, replaced, trespassed>>

\* plugin_shutdown, after which the plugin is gone
plugin_shutdown ==
    /\ unload = "granted"
    /\ core = Free
    /\ active = NoKey
    /\ unload' = "done"
    /\ UNCHANGED <<engineVars, gate, drain_requested, core, generation,
                   gameVars, unpauses, replaced, trespassed>>

\* The plugin is loaded again: its static state is new.  The generation is the
\* steady clock's reading.
plugin_init ==
    /\ unload = "done"
    /\ generation' \in generation + 1 .. MaxGeneration - 1
    /\ sequence' = 0
    /\ records' = [k \in Keys |-> NoRecord]
    /\ gate' = "Idle"
    /\ drain_requested' = FALSE
    /\ unload' = "no"
    /\ unpauses' = [k \in Keys |-> 0]
    /\ replaced' = {}
    /\ UNCHANGED <<active, core, gameVars, trespassed>>

-----------------------------------------------------------------------------
(* The game, its player and other tools; the suspension stops them *)

GameRuns ==
    /\ core = Free /\ loaded /\ ~raw /\ ~modal /\ tick < MaxTick
    /\ tick' = tick + 1
    /\ UNCHANGED <<loaded, clock_valid, raw, modal>>

\* Someone pauses or resumes, a dialog opens or closes, a tool sets the clock
\* or leaves it unreadable, the map is gone before DFHack has announced it.
Interfere ==
    /\ core = Free /\ loaded
    /\ \/ raw' = ~raw /\ UNCHANGED <<loaded, clock_valid, tick, modal>>
       \/ modal' = ~modal /\ UNCHANGED <<loaded, clock_valid, tick, raw>>
       \/ clock_valid' = ~clock_valid /\ UNCHANGED <<loaded, tick, raw, modal>>
       \/ tick' \in Ticks /\ UNCHANGED <<loaded, clock_valid, raw, modal>>
       \/ loaded' = FALSE /\ UNCHANGED <<clock_valid, tick, raw, modal>>

GameStep ==
    /\ GameRuns \/ Interfere
    /\ UNCHANGED <<engineVars, gateVars, generation, now, unpauses, replaced,
                   trespassed>>

TimePasses ==
    /\ now < MaxNow
    /\ now' = now + 1
    /\ UNCHANGED <<engineVars, gateVars, generation, loaded, clock_valid, tick,
                   raw, modal, unpauses, replaced, trespassed>>

RunNext ==
    \/ plugin_onupdate
    \/ service
    \/ \E k \in Keys, spec \in Spec : PrepareRun(k, spec)
    \/ \E k \in Keys : CommitRun(k) \/ CancelRun(k)
    \/ claim_gate
    \/ recheck_drain
    \/ commit
    \/ plugin_onstatechange
    \/ begin_unload
    \/ close_gate
    \/ plugin_shutdown
    \/ plugin_init
    \/ GameStep
    \/ TimePasses

RunSpec == RunInit /\ [][RunNext]_runVars

-----------------------------------------------------------------------------
(* Properties *)

\* One clock owner: the record the engine calls active is the only one that is
\* running or stopping, and it was unpaused by its own attempt (active_, and
\* the order in which commit publishes ownership).
OneClockOwner ==
    \A k \in Keys : records[k] # NoRecord =>
        /\ records[k].phase \in Owning <=> active = k
        /\ records[k].unpause_attempted <=> unpauses[k] > 0
        /\ active = k => records[k].unpause_attempted

\* The unpause setter is called at most once for a key, whatever is retried,
\* cancelled or lost: commit leaves Prepared before it calls the setter.
UnpausedAtMostOnce == \A k \in Keys : unpauses[k] <= 1

\* DFHack is never allowed to unload a plugin that owns the clock, however the
\* unload hook interleaves with a commit: once the gate is Closing, no run is
\* active and none will be.
NoUnloadWhileOwning == gate = "Closing" => active = NoKey

\* No setter reaches a fortress other than the one the run was prepared for,
\* even when the events that replace it arrive between any two steps.
NeverPausesAReplacement == trespassed = {}

\* A run is reported as stopped only in a step that leaves the raw pause flag
\* set in the fortress of the run: a dialog that pauses the game is no proof.
StoppedMeansPaused ==
    [][\A k \in Keys :
          records[k] # NoRecord /\ records'[k] # NoRecord
          /\ records[k].phase # "Stopped" /\ records'[k].phase = "Stopped"
            => raw' /\ k \notin replaced
               /\ generation = records[k].before.generation]_runVars

\* The clock is handed over only in exactly the situation the run was prepared
\* for: same fortress, tick and pause, no other run since, not expired.
UnpausesOnlyWhatWasPrepared ==
    [][\A k \in Keys : unpauses'[k] > unpauses[k] =>
          /\ k \notin replaced
          /\ records[k].before.tick = tick
          /\ loaded /\ (raw \/ modal)
          /\ now < records[k].prepared + PREPARE_LIFETIME
          /\ \A j \in Keys \ {k} :
                records[j] # NoRecord /\ unpauses[j] > 0
                  => records[j].before.sequence < records[k].before.sequence
      ]_runVars

\* An outcome is final, and a run leaves the running states only with a pause
\* that was verified or with a fortress that is gone.
OutcomesAreFinal ==
    [][\A k \in Keys : records[k] # NoRecord /\ records'[k] # NoRecord =>
          /\ records[k].phase \in {"Stopped", "Refused", "SourceLost"}
                => records'[k] = records[k]
          /\ records[k].phase \in Owning /\ records'[k].phase \notin Owning
                => \/ records'[k].phase = "Stopped"
                      /\ records'[k].pause_verified
                   \/ records'[k].phase = "SourceLost"
                      /\ ~records'[k].pause_verified]_runVars

\* A run that is left running after a callback is within its limits.
RunsWithinLimits ==
    [][service => \A k \in Keys :
          active' = k /\ records'[k].phase = "Running" =>
          /\ now < records'[k].deadline
          /\ tick < records'[k].before.tick + records'[k].spec.game_ticks
      ]_runVars

\* What makes the invariants above inductive.  Only a first commit is unpaused,
\* and a run of a replaced fortress is over.
RecordsSound ==
    \A k \in Keys :
        /\ records[k] = NoRecord => unpauses[k] = 0 /\ active # k
        /\ records[k] # NoRecord /\ records[k].phase = "Prepared"
              => ~records[k].unpause_attempted
        /\ k \in replaced /\ records[k] # NoRecord
              => records[k].phase \notin Owning \cup {"Prepared"}

\* The gate is claimed from before the engine commits until the run is over and
\* no longer, and a commit under way still has its preparation.
GateSound ==
    /\ active # NoKey => gate = "Busy"
    /\ core = Free /\ gate = "Busy" => active # NoKey
    /\ core.at \in {"claim", "check"} => gate = "Busy" /\ active = NoKey
    /\ core.at \in {"commit", "claim", "check"} =>
          /\ core.key \in Keys
          /\ records[core.key] # NoRecord
          /\ records[core.key].phase = "Prepared"
    /\ gate = "Closing" <=> unload \in {"granted", "done"}
    /\ unload = "done" => core = Free

\* The inductive invariant of the plugin: the safety properties above hold
\* because the engine leaves Prepared before its setter and claims the gate
\* before its commit.
RunInvariant ==
    /\ RunTypeOK
    /\ OneClockOwner
    /\ UnpausedAtMostOnce
    /\ NeverPausesAReplacement
    /\ RecordsSound
    /\ GateSound

-----------------------------------------------------------------------------
(* Liveness *)

\* DFHack keeps calling the update callback and handlers return; not every
\* safety pause fails; a map that is gone is announced; time passes; an
\* operator who asked for the unload asks again.
RunFairness ==
    /\ WF_runVars(plugin_onupdate)
    /\ WF_runVars(claim_gate \/ recheck_drain \/ commit \/ service)
    /\ SF_runVars(/\ service
                  /\ active # NoKey /\ records'[active].phase # "Stopping")
    /\ SF_runVars(~loaded /\ plugin_onstatechange)
    /\ WF_runVars(TimePasses)
    /\ WF_runVars(drain_requested /\ begin_unload)
    /\ WF_runVars(close_gate)

FairRunSpec == RunSpec /\ RunFairness

\* Every run gives the clock back, with or without a client: the callback stops
\* it at its limits and repeats the safety pause until it is verified.
EveryRunEnds == \A k \in Keys : active = k ~> active # k

\* A requested unload is not vetoed forever: the drain stops the active run,
\* no new one starts, and the gate comes back to Idle.
DrainCompletes == drain_requested ~> gate = "Closing"
=============================================================================
