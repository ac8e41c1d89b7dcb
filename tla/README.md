# A TLA+ verification of the Dwarf Fortress MCP live-control core

`dwarf_fortress_mcp` lets software agents change a running game. Every mutation
follows one pattern: *prepare* it against an observed state, record the *intent*
durably, *dispatch* it at most once, *observe* what happened, and record the
outcome only with *proof*. Lost replies are settled by asking, never by trying
again. The pattern exists a dozen times in the repository. This project models
it where it is smallest and complete, the pause effect of control/1.7, and models
the native half of the effect that is hardest to stop, the bounded run of
run/1.13. TLC checks both; TLAPS proves their safety properties for every number
of keys and every limit. The inventory and the plan below say how the rest follows.

Paths are relative to the repository root (`src/` in `PROJECT.json`).

## 1. Inventory

### 1.1 The pause slice (modelled)

| Part | Code | State | Operations |
|---|---|---|---|
| Native plugin | `bridge/dfhack-control-v1_7/dfmcp_control_v1_7.cpp` | generation, record map, `DispatchFence` sequence; the game's clock and pause flag | `PreparePause`, `CommitPause`, `QueryPause`, world and map events |
| Effect journal | `crates/dfmcp-adapter/src/control_effect_journal.rs`, `control_effect_cancellation.rs` | append-only file of chained frames; records, length, fence of the open session | open, open read-only, `record_prepared`, `begin_commit`, `mark_indeterminate`, `record_reconciliation`, `cancel_prepared` |
| Coordinator | `pause_commit.rs`, `pause_reconciliation.rs`, `live_control_rpc.rs`, and `live_control_server.rs` with `control_*.rs` in `dfmcp-mcp` | one session, its RPC client with the generation of the last reply, the call in progress | `fortress.open_session`, `plan`, `commit`, `wait`, `explain`, `query`, `cancel` |

They interact over a loopback RPC connection that can time out, and through a
file that can be left with a torn or unsynced tail. What is hard here:

- a request that its caller gave up on may be served later;
- either process may die between any two steps, the plugin losing all its
  records and the coordinator all of its memory;
- a map reload clears the plugin's records while the coordinator still holds
  preparations and unresolved attempts from before;
- an append may fail with none, some or all of the frame in the file;
- the setter may have run although its readback failed;
- generation, fence sequence and journal saturate.

### 1.2 The run plugin (modelled)

A bounded run lends the game clock to one request: unpause, let the game run for
some ticks or some wall time, pause. `bridge/common/bounded_run.h` is the engine
(records, the active one, a dispatch sequence), `bridge/dfhack-run-v1_13/dfmcp_run_v1_13.cpp`
the plugin around it (generation, unload gate, drain flag). Operations: prepare,
commit, cancel, query, the update callback, world and map events, the unload
hook. What is hard here:

- nobody may be there to stop a run: the callback must, and its reads and its
  setter may fail;
- `ReadPauseState` also reports pauses by dialogs, behind which the raw flag may
  say that the game runs;
- the fortress may go away or be replaced while a run owns the clock;
- DFHack may unload the plugin; the unload hook must not take the
  `CoreSuspender`, so it interleaves with a commit at every atomic access.

### 1.3 Other parts (not modelled yet)

| Part | Where | What would be worth checking |
|---|---|---|
| Run journal | `crates/dfmcp-adapter/src/bounded_run/` | intent before unpause; unresolved runs block new ones across restarts |
| One-attempt engine | `bridge/common/one_attempt_native.h` | one writer call per record; an unresolved attempt blocks all others; only an unchanged frontier discharges it |
| Families built on it: build 1.19, workshop 1.20, tree 1.21, manager 1.22/1.23, and the earlier dig 1.15/1.16, jobs 1.9, work orders 1.10, workforce 1.17 | `bridge/dfhack-*`, the matching `crates/dfmcp-adapter/src` directories | as for the pause slice |
| Order runs 1.14, excavation runs 1.18 | `order_run/`, `excavation_run/` | a run that also stops on a goal |
| Live dispatch | `live_dispatch.rs`, `live_dispatch/durable.rs` | one uncertain effect at a time; dependencies advance on verified application only; owner journal and family journals never disagree after a crash |
| Leases | `crates/dfmcp-core/src/lease.rs` | exclusion of overlapping regions under expiry and renewal |
| Obligations | `crates/dfmcp-intent/src/obligation.rs`, `obligation/` | stability windows, deadlines, monotone drains, restart |
| Laboratory dispatcher | `dispatcher.rs`, `execution.rs` | dependency gates, idempotent replay |
| Publication and ledger | `crates/dfmcp-world/src/publication.rs`, `ledger.rs` | root last; recovery leaves the old or the new root |
| Retention | `crates/dfmcp-world/src/retention.rs` | a version named by a live root is never collected |
| Civilian alert machine | `crates/dfmcp-intent/src/alert_fsm.rs` | escalation is immediate, relaxation needs a stable streak |
| Durable laboratory store | `crates/dfmcp-lab/src/durable.rs` | objects before the record that names them; compaction keeps every live commit |
| Observation publication 1.1 | `live_observation_publication_v1_1.rs` | no page of another state in a combined capsule |
| Blueprint and construction clocks | `dig_blueprint/`, `construction_plan/`, `furniture_batch.rs` | run intervals tied to one retained monitor; prefix-ordered batches |
| Semantic runtimes, watches, task sessions | `semantic_*`, `query_watch.rs`, `task_session.rs` | goal histories survive restarts |

Left out for good: wire codecs and probes (bytes, covered by round-trip tests),
graph, spatial and search queries (pure functions of a snapshot), planning and
effect semantics of the laboratory (game rules), observation plugins (stateless
reads), process admission (file custody and digests), MCP rendering.

## 2. Modules

| Module | Models |
|---|---|
| `ControlTypes` | keys, plans, ticks and generations shared by the others |
| `ControlBridge` | the plugin and the game around it |
| `EffectStore` | what the journal promises: a crash-safe map of records that only advance |
| `ControlEffectJournal` | the frames of the file; refines `EffectStore` |
| `PauseControl` | coordinator, wire, crashes; extends `EffectStore` and `ControlBridge` |
| `PauseTypeProofs`, `PauseStepProofs`, `PauseControlProofs` | the proofs about `PauseControl`, in three parts; the theorems are in the last |
| `BoundedRun` | the run plugin, its engine and the game around it |
| `BoundedRunEngineProofs`, `BoundedRunProofs` | the proofs about `BoundedRun`; the theorems are in the second |
| `MC*` | instances for TLC |

**ControlBridge.** Handlers run under DFHack's `CoreSuspender`, so each is one
step. `records` is the record map with the fields of `Record` and of its
`DispatchFence::Preparation`; `sequence` and `generation` are the fields of the
same name. `CommitPause` has the four outcomes of the code: unknown token,
replay of a requested record, attempt, refusal that retires the preparation.
`Attempt` chooses whether the setter takes effect and whether the readback
succeeds. Digests and tokens are the tuples they hash. A reply with
`accepted = false` carries nothing the coordinator reads. `plugin_init` gives a
new process a later generation, because the code takes it from the steady clock;
that is true within one boot of the machine. The variables `setters`,
`readback` and `raced` are history: nothing reads them but properties.

**EffectStore.** `disk` is the map the complete frames of the file replay to,
`mem` the session's map. `AppendSynced` and `AppendUncertain` are the two ends of
`append_with`; a crash in the middle of an append is `AppendUncertain` followed by
`Release`. Both the life cycle (`validate_transition`) and the limits are guards.

**ControlEffectJournal.** `frames` is the file, `synced` the prefix a successful
sync covers. A frame carries the number of its predecessor for the digest that
chains it. `open_inner` accepts the file only if every frame passes
`accept_replay`. The refinement maps `disk` to the replay of all frames and
`transitions` to their number.

**PauseControl.** A session runs one tool call at a time (`with_handle` holds its
lock). A call that talks to the plugin is split where another process can act:
sending, serving, receiving. `commit_with_clock` is `begin_commit`, which records
the intent; `commit_prepared`, which sends; and `commit_reply`, `commit_fails` or
`commit_expires`. `fortress.wait` is `fortress_wait`, then `query_effect` and
`query_reply` or `query_fails` per key. `fortress.explain` of an unresolved effect
is the same with one key and one retry on a new connection. `Abandon` leaves the
request of a call that gave up in `late`, from where `ServeLate` may serve it.
`told` is the last state each client response reported.

Abstractions: the RPC handshake is part of the send that follows it, the order
within a batch is free (the code takes keys in order), `fortress_wait` selects
unresolved keys only (the code answers others from memory, which is `Report`).
Refused calls change nothing and are not steps. Capability and budget checks,
response-size reservations, and replacement or deletion of the journal file by
others are left out.

**BoundedRun.** The engine's functions (`begin_stop`, `lose_source`, `seen`,
`attempt_pause`) are functions from a record to the next one; `ServiceAs` is
`Engine::service` with the nondeterminism of its two reads and its setter.
The setter is done and verified, throws without effect, or throws after the
write. `raw` is the pause flag the setter writes, `modal` a dialog; an observation
reports either as paused. Handlers and the callback exclude one another through
the `CoreSuspender`; `core` is the program counter of the one that holds it.
`service` and the commit are split at their accesses to `drain_requested` and
`gate`, which `begin_unload` and `close_gate` access without the suspension:
`plugin_onupdate` reads the flag and `service` works; `CommitRun` reads the flag,
`claim_gate` is the compare-exchange, `recheck_drain` the second read, `commit`
the engine's commit. The game moves only while the suspension is free. A map
may be gone (`loaded`) before DFHack announces it (`plugin_onstatechange`). `PrepareRun`
reads the drain flag and the gate in one step with the rest, which is sound as it
changes neither. `unpauses`, `replaced` and `trespassed` are history.

The token and the plan digest are left out: a request names a key and the
observation it was planned on. The steady clock does not run backwards, so the
engine's `last_service` check has no effect. A replay and a refused request change
nothing, which includes the gate they release on return: `GateSound` says it is
not claimed then.

## 3. Runs

| Run | What it shows | Instance |
|---|---|---|
| `bridge` | any client, any order of calls: no setter for an overtaken preparation, receipts are final, one claim per record | 2 keys, 2 ticks, generations 1..3 (3 saturated), 2 setter calls, 2 instants; 441,904 states |
| `journal` | refinement of `EffectStore`; own writes always replay; an unfenced session equals the file | 2 keys, 4 frames; 25,180 states |
| `journal_sync` | a disagreement with the documentation, see below | as `journal` |
| `pause` | all safety properties and the inductive invariant | 1 key, 2 ticks, 3 generations, 4 frames, 1 late request; 1,030,276 states |
| `pause_pair` | the same for two competing keys | 2 keys, 1 tick, 2 generations, 4 frames; 386,240 states |
| `pause_recovery` | liveness of reconciliation | 1 key, 4 frames; 9,212 states |
| `run` | one run, all safety properties and the inductive invariant | 1 key, 2 game ticks, 1 wall unit, ticks 0..2, time 0..2, generations 1..3 (3 saturated), sequence 0..2; 597,456 states |
| `run_pair` | two preparations of one situation | 2 keys, 2 records, 1 game tick, ticks and time 0..1, generations 1..2; 564,864 states |
| `run_ends` | liveness of stopping and of unloading | 1 key, 1 game tick, ticks and time 0..1, generations 1..3; 92,992 states |

Bounds: four frames are the longest life of an effect (prepared, started,
indeterminate, verified), and with two keys they also reach the transition
limit in the middle of an attempt. Generation 3 allows a reload, a restart and
saturation in one behaviour. One late request is enough for a duplicate of each
operation, since a second identical one is served like the first. Two ticks
distinguish a clock at and after the preparation. A run of two ticks has a
state strictly within its limit; time 2 covers a preparation that expires and a
wall limit that passes; sequence 2 is the saturated one, reached by a run and an
event.

Keys are symmetric: no definition orders or names one. Deadlock is not checked
in the `journal`, `pause` and `run` families, because the system really may stop: a file with an
incomplete header is refused for good, a saturated generation serves nothing, a
full journal takes nothing, an unloaded plugin without a fortress does nothing.

The properties:

- `AtMostOneSetter`, `IntentBeforeSetter`: the setter is called at most once per
  key, and only after the file holds the intent.
- `VerifiedOutcomeIsTrue`: the file says applied or not applied only if the
  plugin read exactly that back after the setter of exactly that preparation.
- `ReportedSurvives`: what a client was told is still in the file, in that state
  or a later one, after any crash and repair.
- `JournalOnlyAdvances`: nothing in the file is dropped or taken back.
- `NoStaleSetter`, `ReceiptIsFinal`, `OneClaimPerRecord`: the plugin on its own.
- `OwnWritesReplay`, `UnfencedSessionIsCurrent`, `ImplementsStore`: the journal.
- `UnresolvedIsReconciled`: an unresolved attempt whose receipt the plugin
  retains is eventually recorded with its outcome, unless the plugin drops the
  record or the journal fills up.

- `OneClockOwner`, `UnpausedAtMostOnce`: at most one record is running or
  stopping, and its unpause was called once and never again.
- `NoUnloadWhileOwning`: once the unload hook has closed the gate, no run is
  active.
- `NeverPausesAReplacement`: no safety pause reaches a fortress the run was not
  prepared for.
- `StoppedMeansPaused`: a run becomes `Stopped` only in a step that leaves the raw
  flag set, never on the word of a dialog.
- `UnpausesOnlyWhatWasPrepared`: the clock is handed over only in the situation
  that was observed, before expiry, and with no other run in between.
- `OutcomesAreFinal`: final records stay; a run ends with a verified pause or with
  its fortress gone.
- `RunsWithinLimits`: a run the callback lets go on is within both limits.
- `EveryRunEnds`, `DrainCompletes`: every run gives the clock back, and a requested
  unload is granted in the end.

**Fairness** (`run_ends`). DFHack calls the update callback for the whole loaded
lifetime and handlers return (`WF`). Time passes (`WF`). Not every safety pause
fails (`SF` on a service step that leaves `Stopping`), and a map that is gone is
announced (`SF`): without either the code keeps ownership for good, as
its comment says. An operator whose unload was vetoed asks again (`WF`); the
first request is not assumed. Nothing is assumed of clients, of the player or of
the game's clock.

**Fairness** (`pause_recovery`). Calls end, because each wait has a deadline
(`WF` on `CallEnds`). Strong fairness on opening, serving, asking and recording
says that the client keeps asking and that not every attempt meets a fault.
Nothing is assumed of `begin_commit`, of prepare calls, or of the game. The code
does no background reconciliation, so without a client that asks again the
property would not hold.

**Disagreement with the documentation** (`journal_sync`). `docs/LIVE_CONTROL.md:66`
says a verified outcome is synced before it is acknowledged. `append_with` does
so. `open_inner` does not: it syncs only after a truncation. When a sync fails or
the process dies after a complete frame was written, the next session replays that
frame and reports the outcome as settled although no sync covers it. The
repository disclaims power loss, and a process crash alone does not lose the
frame, which is why `ReportedSurvives` holds all the same.

## 4. Proofs

`PauseControlProofs` proves, for any sets of keys and plans, any limits and any
number of late requests:

- `Safety`: `Spec => []SafetyInvariant`, from `InitIsSafe` and `StepIsSafe`;
- `TypeCorrect`, `AtMostOnce`, `WriteAheadIntent`, `VerifiedTruth`,
  `ReportedIsDurable`: the invariants of the `pause` run;
- `OnlyAdvances`: the action property `JournalOnlyAdvances`.

Assumptions: the bounds are naturals, `PREPARE_LIFETIME` and `MaxGeneration` are positive, and
the markers for absent values differ from the values.

The argument. `AtMostOneSetter` is not inductive. The setter is called only for
a record that is not yet requested, so one must know why the plugin cannot hold a
fresh record for a key whose setter was already called. `SetterLeavesTrace` says
it: while the plugin is in the generation of the attempt it still has the
requested record, and once the generation has moved on, a token of the old
generation matches nothing. That in turn needs every commit request, waiting or
abandoned, to name the preparation in the file (`CommitHasIntent`), native
records to belong to the current generation (`NativeRecordsSound`), and
generations never to return. `VerifiedOutcomeIsTrue` needs `ReplySound`: a reply
with a receipt tells what was read back, whichever call it answers.
`CallKnows` and `SessionIsCurrent` tie the call in progress to the file, so that what
the coordinator appends agrees with the record it holds in memory. The step lemma has one case
per action.

`BoundedRunProofs` proves, for any keys, limits, record capacity and counter
widths:

- `RunSafety`: `RunSpec => []RunInvariant`;
- `RunTypeCorrect`, `SingleOwner`, `OneUnpause`, `UnloadSafety`,
  `ReplacementSafety`: the invariants of the `run` run;
- `StoppedIsPaused`: the action property `StoppedMeansPaused`.

Assumptions: `RunAssumption` (the bounds are naturals, limits and
`PREPARE_LIFETIME` positive, `NoKey` is no key) and `RunAbsent`.

The argument. `NoUnloadWhileOwning` is not inductive: a commit between its checks
and its unpause owns nothing yet. `GateSound` adds that the gate is claimed from
`claim_gate` on and stays so until the run is over, that the closed gate is the
granted unload, and that a commit under way still has its preparation.
`NeverPausesAReplacement` needs `RecordsSound`: a record of a fortress that is gone
neither owns the clock nor is prepared. `OneUnpause` follows because a preparation
was never attempted and `commit` leaves `Prepared` before the setter.
`BoundedRunEngineProofs` first shows what `service` may make of a record
(`After`, `Served`) whatever reads and setters do; the cases of the step lemma
(callback, drain, cancel, commit) then use that one fact.

The proofs of each part are in several modules because the translation to SMT slows down with
the size of a module. A leaf that SMT cannot do in time names `Zenon`; one that needs
longer names `SMTT(30)`.

Only model-checked: the other action properties of the run plugin, the refinement `ImplementsStore` and the frame-level
invariants, the properties of the plugin on its own, and liveness (fairness is out
of the prover's reach).

## 5. Plan

1. The run journal (`bounded_run/journal.rs`) and its coordinator, composed with
   `BoundedRun` as `PauseControl` composes its parts: intent before unpause, one
   unresolved run at a time across restarts.
2. `OneAttempt`: the template engine, for the families that instantiate it, with
   `reconcile`; an invariant that one unresolved record blocks all writers.
3. `LiveDispatch`: an abstract plan executor (steps applied in dependency order,
   at most one uncertain) and the durable coordinator that implements it over a
   family store.
4. `Leases`, `Obligations`, `AlertFsm`: small state machines with boundary
   cases in expiry, cadence and restart; each with an inductive proof.
5. `Publication`, `Retention`, `LabStore`: crash points between object, record and
   root; refinement of an abstract atomic root.
6. `ObservationPublication`: paged reads under drift.
7. Proofs: the plugin's `NoStaleSetter` and `ReceiptIsFinal`; the refinement
   step of `ControlEffectJournal`; `UnpausesOnlyWhatWasPrepared` and
   `OutcomesAreFinal` of `BoundedRun`; exclusion of leases.
