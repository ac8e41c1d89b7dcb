-------------------------- MODULE BoundedRunProofs --------------------------
(***************************************************************************)
(* Proofs, for every set of keys and every bound, that the run/1.13 plugin *)
(* has one clock owner, unpauses once per key, stops only with an owned    *)
(* pause, never touches a replacement fortress, and is never unloaded      *)
(* while it owns the clock.                                                *)
(***************************************************************************)
EXTENDS BoundedRunEngineProofs

-----------------------------------------------------------------------------
(* Preparations *)

\* A step that makes or retires a preparation keeps the invariant, if it keeps
\* the types and the gate.
LEMMA PreparationSafe ==
    ASSUME RunInvariant, RunTypeOK', GateSound',
           NEW k \in Keys, NEW n \in Record,
           n.phase \in {"Prepared", "Refused"}, n.unpause_attempted = FALSE,
           unpauses[k] = 0, active # k,
           n.phase = "Prepared" => k \notin replaced',
           replaced' \subseteq replaced,
           records' = [records EXCEPT ![k] = n],
           UNCHANGED <<active, unpauses, trespassed>>
    PROVE  RunInvariant'
<1>1. records \in [Keys -> Record \cup {NoRecord}]
  BY DEF RunInvariant, RunTypeOK
<1>2. \A j \in Keys : records'[j] = IF j = k THEN n ELSE records[j]
  BY <1>1
<1>3. n # NoRecord
  BY RunAbsent
<1>4. OneClockOwner'
  BY <1>2, <1>3 DEF RunInvariant, OneClockOwner, Owning
<1>5. RecordsSound'
  BY <1>2, <1>3 DEF RunInvariant, RecordsSound, Owning
<1> QED
  BY <1>4, <1>5 DEF RunInvariant, UnpausedAtMostOnce, NeverPausesAReplacement

\* A preparation was not unpaused and does not own the clock.
LEMMA PreparedFacts ==
    ASSUME RunInvariant, NEW k \in Keys, records[k] # NoRecord,
           records[k].phase = "Prepared"
    PROVE  /\ records[k] \in Record
           /\ records[k].unpause_attempted = FALSE
           /\ unpauses[k] = 0
           /\ active # k
           /\ k \notin replaced
<1>1. records[k] \in Record /\ unpauses[k] \in Nat
  BY DEF RunInvariant, RunTypeOK
<1>2. records[k].unpause_attempted = FALSE
  BY <1>1 DEF RunInvariant, RecordsSound, Record
<1>3. ~(unpauses[k] > 0) /\ active # k
  BY <1>2 DEF RunInvariant, OneClockOwner, Owning
<1>4. k \notin replaced
  BY DEF RunInvariant, RecordsSound
<1> QED
  BY <1>1, <1>2, <1>3, <1>4

\* PrepareRun keeps the invariant.
LEMMA PrepareSafe ==
    ASSUME RunInvariant, NEW k \in Keys, NEW spec \in Spec, PrepareRun(k, spec)
    PROVE  RunInvariant'
<1> DEFINE n == [spec |-> spec, before |-> observe(raw), phase |-> "Prepared",
                 reason |-> "None", unpause_attempted |-> FALSE,
                 pause_verified |-> FALSE, tick_known |-> FALSE,
                 observed_tick |-> 0, prepared |-> now, deadline |-> 0]
<1>1. observe(raw) \in Snapshot
  BY ObserveType DEF RunInvariant, RunTypeOK
<1>2. n \in Record
  BY <1>1, RunAssumption
     DEF RunInvariant, RunTypeOK, Record, Phase, Reason, Ticks
<1>3. n.phase = "Prepared" /\ n.unpause_attempted = FALSE
  OBVIOUS
<1>4. /\ records[k] = NoRecord
      /\ core = Free
      /\ records' = [records EXCEPT ![k] = n]
      /\ replaced' = replaced \ {k}
      /\ UNCHANGED <<sequence, active, gateVars, generation, gameVars,
                     unpauses, trespassed>>
  BY DEF PrepareRun
<1> HIDE DEF n
<1>5. RunTypeOK'
  BY <1>2, <1>4 DEF RunInvariant, RunTypeOK, gateVars, gameVars
<1>6. GateSound'
  BY <1>4 DEF RunInvariant, GateSound, gateVars, Free
<1>7. unpauses[k] = 0 /\ active # k
  BY <1>4 DEF RunInvariant, RecordsSound
<1> QED
  BY <1>2, <1>3, <1>4, <1>5, <1>6, <1>7, PreparationSafe

\* CancelRun keeps the invariant.
LEMMA CancelSafe ==
    ASSUME RunInvariant, NEW k \in Keys, CancelRun(k)
    PROVE  RunInvariant'
<1>1. CASE /\ records[k].phase = "Prepared"
           /\ records' = [records EXCEPT ![k].phase = "Refused",
                                         ![k].reason = "Cancelled"]
           /\ UNCHANGED <<active, gate, core, raw, trespassed>>
  <2> DEFINE n == [records[k] EXCEPT !.phase = "Refused",
                                     !.reason = "Cancelled"]
  <2>1. /\ core = Free /\ records[k] # NoRecord
        /\ UNCHANGED <<sequence, unpauses, Outside>>
    BY DEF CancelRun, retire_or_stop
  <2>2. /\ records[k] \in Record
        /\ records[k].unpause_attempted = FALSE
        /\ unpauses[k] = 0
        /\ active # k
    BY <1>1, <2>1, PreparedFacts
  <2>3. /\ n \in Record /\ n.phase = "Refused"
        /\ n.unpause_attempted = FALSE
    BY <2>2 DEF Record, Phase, Reason
  <2>4. records' = [records EXCEPT ![k] = n]
    BY <1>1 DEF RunInvariant, RunTypeOK
  <2> HIDE DEF n
  <2>7. UNCHANGED <<active, gate, core, raw, trespassed>>
    BY <1>1
  <2>8. records' \in [Keys -> Record \cup {NoRecord}]
    BY <2>3, <2>4 DEF RunInvariant, RunTypeOK
  <2>5. RunTypeOK'
    BY <2>1, <2>7, <2>8 DEF RunInvariant, RunTypeOK, Outside
  <2>6. GateSound'
    BY <1>1, <2>1 DEF RunInvariant, GateSound, Outside, Free
  <2> QED
    BY <1>1, <2>1, <2>2, <2>3, <2>4, <2>5, <2>6, PreparationSafe DEF Outside
<1>2. CASE active = k /\ ServiceAs(k, begin_stop(records[k], "Cancelled"), raw)
  <2> DEFINE r == begin_stop(records[k], "Cancelled")
  <2>1. active # NoKey
    BY <1>2, RunAssumption
  <2>2. records[k] \in Record /\ records[k].phase \in Owning
    BY <1>2, <2>1, OwnerFacts
  <2>3. After(records[k], r) /\ r.phase \in Owning
    BY <2>2, StopIf DEF Reason
  <2>4. r \in Record
    BY <2>3 DEF After
  <2>5. UNCHANGED <<sequence, unpauses, Outside>>
    BY DEF CancelRun, retire_or_stop
  <2> HIDE DEF r
  <2> QED
    BY <1>2, <2>1, <2>3, <2>4, <2>5, OwnerServedSafe DEF r
<1> QED
  BY <1>1, <1>2 DEF CancelRun, retire_or_stop

-----------------------------------------------------------------------------
\* The first steps of the update callback and of CommitRun only move the
\* handler that holds the suspension.
LEMMA HandlerSafe ==
    ASSUME RunInvariant,
           \/ plugin_onupdate
           \/ \E k \in Keys : CommitRun(k)
           \/ claim_gate
           \/ recheck_drain
    PROVE  RunInvariant'
<1>1. CASE plugin_onupdate
  <2>1. RunTypeOK'
    BY <1>1 DEF RunInvariant, RunTypeOK, plugin_onupdate, engineVars, Outside
  <2>2. GateSound'
    BY <1>1 DEF RunInvariant, GateSound, plugin_onupdate, engineVars, Outside
  <2> QED
    BY <1>1, <2>1, <2>2, QuietSafe DEF plugin_onupdate, Outside
<1>2. ASSUME NEW k \in Keys, CommitRun(k) PROVE RunInvariant'
  <2>1. RunTypeOK'
    BY <1>2 DEF RunInvariant, RunTypeOK, CommitRun, engineVars, Outside
  <2>2. GateSound'
    BY <1>2 DEF RunInvariant, GateSound, CommitRun, engineVars, Outside,
                authenticate
  <2> QED
    BY <1>2, <2>1, <2>2, QuietSafe DEF CommitRun, Outside
<1>3. CASE claim_gate
  <2>1. CASE gate = "Idle"
    <3>1. /\ core.at = "commit" /\ gate' = "Busy"
          /\ core' = [core EXCEPT !.at = "claim"]
          /\ UNCHANGED <<engineVars, raw, unpauses, trespassed>>
          /\ UNCHANGED Outside
      BY <1>3, <2>1 DEF claim_gate
    <3>2. RunTypeOK'
      BY <3>1 DEF RunInvariant, RunTypeOK, engineVars, Outside
    <3>3. core'.at = "claim" /\ core'.key = core.key
      BY <3>1 DEF RunInvariant, RunTypeOK
    <3>4. GateSound'
      BY <2>1, <3>1, <3>3 DEF RunInvariant, GateSound, engineVars, Outside,
                              Free
    <3> QED
      BY <3>1, <3>2, <3>4, QuietSafe DEF Outside
  <2>2. CASE gate # "Idle"
    BY <1>3, <2>2, ReturnSafe DEF claim_gate
  <2> QED
    BY <2>1, <2>2
<1>4. CASE recheck_drain
  <2>1. CASE ~drain_requested
    <3>1. /\ core.at = "claim"
          /\ core' = [core EXCEPT !.at = "check"]
          /\ UNCHANGED <<engineVars, gate, raw, unpauses, trespassed>>
          /\ UNCHANGED Outside
      BY <1>4, <2>1 DEF recheck_drain
    <3>2. RunTypeOK'
      BY <3>1 DEF RunInvariant, RunTypeOK, engineVars, Outside
    <3>3. core'.at = "check" /\ core'.key = core.key
      BY <3>1 DEF RunInvariant, RunTypeOK
    <3>4. GateSound'
      BY <3>1, <3>3 DEF RunInvariant, GateSound, engineVars, Outside, Free
    <3> QED
      BY <3>1, <3>2, <3>4, QuietSafe DEF Outside
  <2>2. CASE drain_requested
    BY <1>4, <2>2, ReturnSafe DEF recheck_drain
  <2> QED
    BY <2>1, <2>2
<1> QED
  BY <1>1, <1>2, <1>3, <1>4

\* The unpause makes a run of the preparation and serves it.
Started(k, r) ==
    /\ r.before = records[k].before
    /\ r.phase \in Owning
    /\ r.unpause_attempted = TRUE
    /\ Served(k, r)

LEMMA StartServes ==
    ASSUME RunInvariant, core.at = "check", NEW k \in Keys, k = core.key,
           current(records[k]), start(k)
    PROVE  \E r \in Record : Started(k, r)
<1> DEFINE d == now + records[k].spec.wall_ms
           r0 == [records[k] EXCEPT !.phase = "Running",
                     !.unpause_attempted = TRUE, !.deadline = d]
<1>1. records[k] \in Record
  BY PreparedFacts DEF RunInvariant, GateSound
<1>2. d \in 0 .. MaxNow
  <2>1. records[k].spec.wall_ms \in Nat /\ now \in Nat
    BY <1>1, RunAssumption DEF Record, Spec, RunInvariant, RunTypeOK
  <2>2. now <= MaxNow - records[k].spec.wall_ms
    BY DEF current
  <2> QED
    BY <2>1, <2>2, RunAssumption
<1>3. PICK w \in Writes(records[k]) :
        ServiceAs(k, stop_if(w # "ok", r0, "NativeFailure"),
                  IF w = "none" THEN raw ELSE FALSE)
  BY DEF start, unpause
<1> HIDE DEF d
<1>4. /\ r0 \in Record /\ r0.phase \in Owning /\ r0.unpause_attempted = TRUE
      /\ r0.before = records[k].before
  BY <1>1, <1>2 DEF Record, Phase, Owning
<1> HIDE DEF r0
<1> DEFINE r == stop_if(w # "ok", r0, "NativeFailure")
           flag == IF w = "none" THEN raw ELSE FALSE
<1>5. After(r0, r) /\ r.phase \in Owning
  BY <1>4, StopIf DEF Reason
<1>6. /\ r \in Record /\ r.unpause_attempted = TRUE
      /\ r.before = records[k].before
  BY <1>4, <1>5 DEF After
<1>7. flag \in BOOLEAN
  BY DEF RunInvariant, RunTypeOK
<1>8. ServiceAs(k, r, flag)
  BY <1>3
<1> HIDE DEF r, flag
<1>9. Served(k, r)
  BY <1>5, <1>6, <1>7, <1>8, ServiceShape DEF RunInvariant
<1> QED
  BY <1>5, <1>6, <1>9 DEF Started

\* The unpause of a preparation keeps the invariant.
LEMMA StartSafe ==
    ASSUME RunInvariant, core.at = "check", NEW k \in Keys, k = core.key,
           current(records[k]), start(k), UNCHANGED Outside
    PROVE  RunInvariant'
<1>1. PICK r \in Record : Started(k, r)
  BY StartServes
<1>2. /\ records[k] # NoRecord /\ records[k].phase = "Prepared"
      /\ active = NoKey /\ gate = "Busy"
  BY DEF RunInvariant, GateSound
<1>3. unpauses[k] = 0 /\ k \notin replaced
  BY <1>2, PreparedFacts
<1>4. unpauses' = [unpauses EXCEPT ![k] = 1]
  BY <1>3 DEF start, unpause, RunInvariant, RunTypeOK
<1>5. sequence' \in 0 .. MaxSequence
  BY RunAssumption DEF start, unpause, current, RunInvariant, RunTypeOK
<1> QED
  BY <1>1, <1>2, <1>3, <1>4, <1>5, ServedSafe DEF Started

\* commit keeps the invariant.
LEMMA CommitSafe ==
    ASSUME RunInvariant, commit
    PROVE  RunInvariant'
<1> DEFINE k == core.key
<1>1. /\ core.at = "check" /\ k \in Keys
      /\ records[k] # NoRecord /\ records[k].phase = "Prepared"
      /\ active = NoKey /\ gate = "Busy"
      /\ UNCHANGED Outside
  BY DEF RunInvariant, GateSound, commit
<1>2. CASE current(records[k]) /\ start(k)
  BY <1>1, <1>2, StartSafe
<1>3. CASE refuse_stale(k)
  <2> DEFINE n == [records[k] EXCEPT !.phase = "Refused",
                                     !.reason = "Stale"]
  <2>1. /\ records[k] \in Record
        /\ records[k].unpause_attempted = FALSE
        /\ unpauses[k] = 0
        /\ active # k
    BY <1>1, PreparedFacts
  <2>2. /\ n \in Record /\ n.phase = "Refused"
        /\ n.unpause_attempted = FALSE
    BY <2>1 DEF Record, Phase, Reason
  <2>3. records' = [records EXCEPT ![k] = n]
    BY <1>1, <1>3 DEF RunInvariant, RunTypeOK, refuse_stale
  <2>4. /\ core' = Free
        /\ gate' = "Idle"
        /\ UNCHANGED <<sequence, active, raw, unpauses, trespassed>>
    BY <1>1, <1>3 DEF refuse_stale, release_idle_gate
  <2> HIDE DEF n, k
  <2>5. records' \in [Keys -> Record \cup {NoRecord}]
    BY <1>1, <2>2, <2>3 DEF RunInvariant, RunTypeOK
  <2>6. RunTypeOK'
    BY <1>1, <2>4, <2>5 DEF RunInvariant, RunTypeOK, Outside, Free
  <2>7. GateSound'
    BY <1>1, <2>4 DEF RunInvariant, GateSound, Outside, Free
  <2> QED
    BY <1>1, <2>1, <2>2, <2>3, <2>4, <2>6, <2>7, PreparationSafe DEF Outside
<1> QED
  BY <1>1, <1>2, <1>3 DEF commit

-----------------------------------------------------------------------------
\* What source_changed leaves of a record: nobody owns or is prepared.
LEMMA SourceChangedFacts ==
    ASSUME RunInvariant, NEW k \in Keys
    PROVE  LET n == source_changed(records[k], k = active) IN
           /\ n \in Record \cup {NoRecord}
           /\ n = NoRecord <=> records[k] = NoRecord
           /\ n # NoRecord =>
                 /\ n.phase \notin Owning \cup {"Prepared"}
                 /\ n.unpause_attempted = records[k].unpause_attempted
<1> DEFINE r == records[k]
           lost == lose_source(r)
           refused == [r EXCEPT !.phase = "Refused", !.reason = "SourceChanged"]
<1>1. r \in Record \cup {NoRecord}
  BY DEF RunInvariant, RunTypeOK
<1>2. CASE r = NoRecord
  BY <1>2 DEF source_changed
<1>3. CASE r \in Record
  <2>1. r # NoRecord
    BY <1>3, RunAbsent
  <2>2. /\ lost \in Record /\ lost.phase = "SourceLost"
        /\ lost.unpause_attempted = r.unpause_attempted
    BY <1>3, LoseKeeps DEF After
  <2>3. /\ refused \in Record /\ refused.phase = "Refused"
        /\ refused.unpause_attempted = r.unpause_attempted
    BY <1>3 DEF Record, Phase, Reason
  <2>4. r.phase \in Owning <=> active = k
    BY <2>1 DEF RunInvariant, OneClockOwner
  <2>5. source_changed(r, k = active) =
            IF k = active THEN lost
            ELSE IF r.phase = "Prepared" THEN refused ELSE r
    BY <2>1 DEF source_changed
  <2> HIDE DEF r, lost, refused
  <2> QED
    BY <1>3, <2>1, <2>2, <2>3, <2>4, <2>5, RunAbsent DEF Owning, r
<1> QED
  BY <1>1, <1>2, <1>3

\* plugin_onstatechange keeps the invariant.
LEMMA SourceSafe ==
    ASSUME RunInvariant, plugin_onstatechange
    PROVE  RunInvariant'
<1>1. \A k \in Keys :
        /\ records'[k] \in Record \cup {NoRecord}
        /\ records'[k] = NoRecord <=> records[k] = NoRecord
        /\ records'[k] # NoRecord =>
              /\ records'[k].phase \notin Owning \cup {"Prepared"}
              /\ records'[k].unpause_attempted = records[k].unpause_attempted
  BY SourceChangedFacts DEF plugin_onstatechange, SourceChanges
<1>2. records' \in [Keys -> Record \cup {NoRecord}]
  BY <1>1 DEF plugin_onstatechange, SourceChanges
<1>3. /\ active' = NoKey /\ core = Free
      /\ gate' = IF gate = "Busy" THEN "Idle" ELSE gate
      /\ UNCHANGED <<drain_requested, core, unload, now, unpauses, trespassed>>
  BY DEF plugin_onstatechange, SourceChanges, NewFortress, release_idle_gate
<1>4. sequence' \in 0 .. MaxSequence /\ generation' \in Generations
  BY RunAssumption DEF plugin_onstatechange, SourceChanges, RunInvariant,
                       RunTypeOK, Generations
<1>5. /\ loaded' \in BOOLEAN /\ clock_valid' \in BOOLEAN
      /\ tick' \in Ticks /\ raw' \in BOOLEAN /\ modal' \in BOOLEAN
      /\ replaced' \in SUBSET Keys
  BY DEF plugin_onstatechange, NewFortress
<1>6. RunTypeOK'
  BY <1>2, <1>3, <1>4, <1>5 DEF RunInvariant, RunTypeOK
<1>7. OneClockOwner'
  <2> SUFFICES ASSUME NEW k \in Keys, records'[k] # NoRecord
               PROVE  /\ records'[k].phase \notin Owning
                      /\ records'[k].unpause_attempted <=> unpauses[k] > 0
    BY <1>3, RunAssumption DEF OneClockOwner
  <2> QED
    BY <1>1 DEF RunInvariant, OneClockOwner
<1>8. RecordsSound'
  BY <1>1, <1>3, RunAssumption DEF RunInvariant, RecordsSound
<1>9. GateSound'
  BY <1>3 DEF RunInvariant, GateSound, Free
<1> QED
  BY <1>3, <1>6, <1>7, <1>8, <1>9
     DEF RunInvariant, UnpausedAtMostOnce, NeverPausesAReplacement

\* The steps of the unload keep the invariant.
LEMMA UnloadSafe ==
    ASSUME RunInvariant, begin_unload \/ close_gate \/ plugin_shutdown
    PROVE  RunInvariant'
<1>1. RunTypeOK'
  BY DEF RunInvariant, RunTypeOK, begin_unload, close_gate, plugin_shutdown,
         engineVars, gameVars
<1>2. GateSound'
  <2>1. CASE begin_unload
    BY <2>1 DEF RunInvariant, GateSound, begin_unload, engineVars
  <2>2. CASE close_gate
    BY <2>2 DEF RunInvariant, GateSound, close_gate, engineVars
  <2>3. CASE plugin_shutdown
    BY <2>3 DEF RunInvariant, GateSound, plugin_shutdown, engineVars
  <2> QED
    BY <2>1, <2>2, <2>3
<1> QED
  BY <1>1, <1>2, QuietSafe DEF begin_unload, close_gate, plugin_shutdown

\* A plugin that is loaded again starts in the invariant.
LEMMA InitSafe ==
    ASSUME RunInvariant, plugin_init
    PROVE  RunInvariant'
<1>1. active = NoKey /\ core = Free
  BY DEF RunInvariant, GateSound, plugin_init
<1>2. \A k \in Keys : records'[k] = NoRecord /\ unpauses'[k] = 0
  BY DEF plugin_init
<1>3. active' = NoKey /\ trespassed' = trespassed
  BY <1>1 DEF plugin_init
<1>7. generation' \in Generations /\ sequence' \in 0 .. MaxSequence
  BY RunAssumption
     DEF RunInvariant, RunTypeOK, plugin_init, Generations
<1>8. /\ records' \in [Keys -> Record \cup {NoRecord}]
      /\ unpauses' \in [Keys -> Nat]
  BY DEF plugin_init
<1>4. RunTypeOK'
  BY <1>7, <1>8 DEF RunInvariant, RunTypeOK, plugin_init, gameVars
<1>5. GateSound'
  BY <1>1 DEF RunInvariant, GateSound, plugin_init, Free
<1>6. RecordsSound'
  BY <1>2, <1>3, RunAssumption DEF RecordsSound
<1> QED
  BY <1>2, <1>3, <1>4, <1>5, <1>6
     DEF RunInvariant, OneClockOwner, UnpausedAtMostOnce,
         NeverPausesAReplacement

\* The game and the time leave the plugin alone.
LEMMA GameSafe ==
    ASSUME RunInvariant, GameStep \/ TimePasses
    PROVE  RunInvariant'
<1>1. UNCHANGED <<engineVars, gateVars, generation, unpauses, replaced,
                  trespassed>>
  BY DEF GameStep, TimePasses
<1>2. /\ loaded' \in BOOLEAN /\ clock_valid' \in BOOLEAN
      /\ raw' \in BOOLEAN /\ modal' \in BOOLEAN
  BY Zenon DEF RunInvariant, RunTypeOK, GameStep, GameRuns, Interfere,
               TimePasses
<1>5. tick' \in Ticks
  <2>1. CASE GameRuns
    BY <2>1, RunAssumption DEF RunInvariant, RunTypeOK, GameRuns, Ticks
  <2>2. CASE Interfere
    BY <2>2 DEF RunInvariant, RunTypeOK, Interfere
  <2>3. CASE TimePasses
    BY <2>3 DEF RunInvariant, RunTypeOK, TimePasses
  <2> QED
    BY <2>1, <2>2, <2>3 DEF GameStep
<1>6. now' \in 0 .. MaxNow
  BY RunAssumption DEF RunInvariant, RunTypeOK, GameStep, TimePasses
<1>3. RunTypeOK'
  BY <1>1, <1>2, <1>5, <1>6 DEF RunInvariant, RunTypeOK, engineVars, gateVars
<1>4. GateSound'
  BY <1>1 DEF RunInvariant, GateSound, engineVars, gateVars
<1> QED
  BY <1>1, <1>3, <1>4, QuietSafe

-----------------------------------------------------------------------------
\* The plugin starts in its inductive invariant.
LEMMA InitInvariant == RunInit => RunInvariant
<1> SUFFICES ASSUME RunInit PROVE RunInvariant
  OBVIOUS
<1>1. RunTypeOK
  <2>1. generation \in Generations /\ 0 \in Ticks /\ 0 \in 0 .. MaxNow
    BY RunAssumption DEF RunInit, Generations, Ticks
  <2>2. sequence \in 0 .. MaxSequence
    BY RunAssumption DEF RunInit
  <2> QED
    BY <2>1, <2>2 DEF RunInit, RunTypeOK, Free
<1>2. GateSound
  BY DEF RunInit, GateSound, Free
<1>3. RecordsSound
  BY RunAssumption DEF RunInit, RecordsSound
<1> QED
  BY <1>1, <1>2, <1>3
     DEF RunInit, RunInvariant, OneClockOwner, UnpausedAtMostOnce,
         NeverPausesAReplacement

\* Every step of the plugin, of DFHack and of the game keeps the invariant.
LEMMA StepInvariant == RunInvariant /\ [RunNext]_runVars => RunInvariant'
<1> SUFFICES ASSUME RunInvariant, [RunNext]_runVars PROVE RunInvariant'
  OBVIOUS
<1>1. CASE UNCHANGED runVars
  <2>1. RunTypeOK' /\ GateSound'
    BY <1>1 DEF RunInvariant, RunTypeOK, GateSound, runVars, engineVars,
                gateVars, gameVars
  <2> QED
    BY <1>1, <2>1, QuietSafe DEF runVars
<1>2. CASE RunNext
  <2>1. ASSUME NEW k \in Keys, NEW spec \in Spec, PrepareRun(k, spec)
        PROVE  RunInvariant'
    BY <2>1, PrepareSafe
  <2>2. ASSUME NEW k \in Keys, CancelRun(k) PROVE RunInvariant'
    BY <2>2, CancelSafe
  <2>3. ASSUME NEW k \in Keys, CommitRun(k) PROVE RunInvariant'
    BY <2>3, HandlerSafe
  <2> QED
    BY <1>2, <2>1, <2>2, <2>3, HandlerSafe, ServiceSafe, CommitSafe,
       SourceSafe, UnloadSafe, InitSafe, GameSafe DEF RunNext
<1> QED
  BY <1>1, <1>2

\* The inductive invariant of the run plugin holds in every reachable state,
\* for every number of keys, limits, record capacity and counter width.
THEOREM RunSafety == RunSpec => []RunInvariant
BY InitInvariant, StepInvariant, PTL DEF RunSpec

\* Every variable of the plugin keeps its type; no counter passes its maximum.
THEOREM RunTypeCorrect == RunSpec => []RunTypeOK
<1>1. RunInvariant => RunTypeOK
  BY DEF RunInvariant
<1> QED
  BY <1>1, RunSafety, PTL

\* The record the engine calls active is the only one that owns the clock.
THEOREM SingleOwner == RunSpec => []OneClockOwner
<1>1. RunInvariant => OneClockOwner
  BY DEF RunInvariant
<1> QED
  BY <1>1, RunSafety, PTL

\* The unpause setter is called at most once for a key.
THEOREM OneUnpause == RunSpec => []UnpausedAtMostOnce
<1>1. RunInvariant => UnpausedAtMostOnce
  BY DEF RunInvariant
<1> QED
  BY <1>1, RunSafety, PTL

\* The unload hook closes the gate only on a plugin that owns no clock, and no
\* commit passes the closed gate.
THEOREM UnloadSafety == RunSpec => []NoUnloadWhileOwning
<1>1. RunInvariant => NoUnloadWhileOwning
  BY DEF RunInvariant, GateSound, NoUnloadWhileOwning
<1> QED
  BY <1>1, RunSafety, PTL

\* No pause setter of a run reaches a fortress it was not prepared for.
THEOREM ReplacementSafety == RunSpec => []NeverPausesAReplacement
<1>1. RunInvariant => NeverPausesAReplacement
  BY DEF RunInvariant
<1> QED
  BY <1>1, RunSafety, PTL

-----------------------------------------------------------------------------
(* Stopped runs *)

\* What StoppedMeansPaused says of one record in one step
Stops(k) ==
    records[k] # NoRecord /\ records'[k] # NoRecord
    /\ records[k].phase # "Stopped" /\ records'[k].phase = "Stopped"
      => raw' /\ k \notin replaced
         /\ generation = records[k].before.generation

\* service stops only the run it serves, and only with the pause flag set.
LEMMA ServedStops ==
    ASSUME RunInvariant, NEW k \in Keys, NEW r \in Record,
           r.before = records[k].before, k \notin replaced, Served(k, r),
           NEW j \in Keys
    PROVE  Stops(j)
<1>1. PICK n \in Record : ServedAs(k, r, n)
  BY DEF Served
<1>2. records'[j] = IF j = k THEN n ELSE records[j]
  BY <1>1 DEF ServedAs, RunInvariant, RunTypeOK
<1>3. n.phase = "Stopped" => raw' /\ generation = records[k].before.generation
  BY <1>1 DEF ServedAs
<1> QED
  BY <1>2, <1>3 DEF Stops

\* So does service on behalf of the callback, of the drain or of a cancel.
LEMMA OwnerStops ==
    ASSUME RunInvariant, active # NoKey, NEW r \in Record,
           After(records[active], r), r.phase \in Owning,
           ServiceAs(active, r, raw), NEW j \in Keys
    PROVE  Stops(j)
<1>1. active \in Keys /\ active \notin replaced
  BY OwnerFacts
<1>2. raw \in BOOLEAN /\ RunTypeOK
  BY DEF RunInvariant, RunTypeOK
<1>3. Served(active, r)
  BY <1>1, <1>2, ServiceShape
<1>4. r.before = records[active].before
  BY DEF After
<1> QED
  BY <1>1, <1>3, <1>4, ServedStops

\* The unpause stops its own run only, and only with the pause flag set.
LEMMA StartStops ==
    ASSUME RunInvariant, core.at = "check", NEW k \in Keys, k = core.key,
           current(records[k]), start(k), NEW j \in Keys
    PROVE  Stops(j)
<1>1. PICK r \in Record : Started(k, r)
  BY StartServes
<1>2. k \notin replaced
  BY PreparedFacts DEF RunInvariant, GateSound
<1> QED
  BY <1>1, <1>2, ServedStops DEF Started

\* A step that leaves a record's phase, or retires the record, stops nothing.
LEMMA OtherStops ==
    ASSUME NEW j \in Keys,
           \/ records'[j] = records[j]
           \/ records'[j] = NoRecord
           \/ records'[j].phase \in {"Prepared", "Refused", "SourceLost"}
    PROVE  Stops(j)
BY DEF Stops

\* No step of the plugin calls a run stopped without its own pause.
LEMMA StepStops ==
    ASSUME RunInvariant, [RunNext]_runVars, NEW j \in Keys
    PROVE  Stops(j)
<1>1. CASE service
  <2>1. CASE active = NoKey
    BY <1>1, <2>1, OtherStops DEF service, Return, engineVars
  <2>2. CASE active # NoKey
    <3> DEFINE r == stop_if(core.at = "drain", records[active], "Shutdown")
    <3>1. records[active] \in Record /\ records[active].phase \in Owning
      BY <2>2, OwnerFacts
    <3>2. After(records[active], r) /\ r.phase \in Owning
      BY <3>1, StopIf DEF Reason
    <3>3. ServiceAs(active, r, raw) /\ r \in Record
      BY <1>1, <2>2, <3>2 DEF service, After
    <3> HIDE DEF r
    <3> QED
      BY <2>2, <3>2, <3>3, OwnerStops
  <2> QED
    BY <2>1, <2>2
<1>2. ASSUME NEW k \in Keys, CancelRun(k) PROVE Stops(j)
  <2>1. CASE records' = [records EXCEPT ![k].phase = "Refused",
                                        ![k].reason = "Cancelled"]
    <3>1. records[k] \in Record
      BY <1>2 DEF CancelRun, retire_or_stop, RunInvariant, RunTypeOK
    <3> QED
      BY <2>1, <3>1, OtherStops DEF RunInvariant, RunTypeOK, Record
  <2>2. CASE active = k
             /\ ServiceAs(k, begin_stop(records[k], "Cancelled"), raw)
    <3> DEFINE r == begin_stop(records[k], "Cancelled")
    <3>1. /\ active # NoKey
          /\ records[k] \in Record /\ records[k].phase \in Owning
      BY <2>2, OwnerFacts, RunAssumption
    <3>2. After(records[k], r) /\ r.phase \in Owning
      BY <3>1, StopIf DEF Reason
    <3>3. ServiceAs(k, r, raw) /\ r \in Record
      BY <2>2, <3>2 DEF After
    <3> HIDE DEF r
    <3> QED
      BY <2>2, <3>1, <3>2, <3>3, OwnerStops
  <2> QED
    BY <1>2, <2>1, <2>2 DEF CancelRun, retire_or_stop
<1>3. CASE commit
  <2> DEFINE k == core.key
  <2>1. /\ core.at = "check" /\ k \in Keys /\ records[k] # NoRecord
        /\ active = NoKey /\ records[k].phase = "Prepared"
    BY <1>3 DEF RunInvariant, GateSound, commit
  <2>2. CASE current(records[k]) /\ start(k)
    BY <2>1, <2>2, StartStops
  <2>3. CASE refuse_stale(k)
    <3>1. records[k] \in Record
      BY <2>1, PreparedFacts
    <3> HIDE DEF k
    <3> QED
      BY <2>1, <2>3, <3>1, OtherStops
         DEF refuse_stale, RunInvariant, RunTypeOK, Record
  <2> QED
    BY <1>3, <2>1, <2>2, <2>3 DEF commit
<1>4. ASSUME NEW k \in Keys, NEW spec \in Spec, PrepareRun(k, spec)
      PROVE  Stops(j)
  <2>1. \/ records'[j] = records[j]
        \/ records'[j].phase = "Prepared"
    BY <1>4 DEF PrepareRun, RunInvariant, RunTypeOK
  <2> QED
    BY <2>1, OtherStops
<1>5. CASE plugin_onstatechange
  <2>1. records'[j] = source_changed(records[j], j = active)
    BY <1>5 DEF plugin_onstatechange, SourceChanges
  <2>2. records[j] \in Record \cup {NoRecord}
    BY DEF RunInvariant, RunTypeOK
  <2>3. \/ records'[j] = records[j]
        \/ records'[j].phase \in {"Refused", "SourceLost"}
    BY <2>1, <2>2 DEF source_changed, lose_source, Record
  <2> QED
    BY <2>3, OtherStops
<1>6. CASE plugin_init
  BY <1>6, OtherStops DEF plugin_init
<1>7. CASE UNCHANGED records
  BY <1>7, OtherStops
<1>8. \/ plugin_onupdate \/ claim_gate \/ recheck_drain \/ begin_unload
      \/ close_gate \/ plugin_shutdown \/ GameStep \/ TimePasses
      \/ (\E k \in Keys : CommitRun(k)) \/ UNCHANGED runVars
      => UNCHANGED records
  BY DEF plugin_onupdate, claim_gate, recheck_drain, begin_unload, close_gate,
         plugin_shutdown, GameStep, TimePasses, CommitRun, Return, runVars,
         engineVars
<1> QED
  BY <1>1, <1>2, <1>3, <1>4, <1>5, <1>6, <1>7, <1>8 DEF RunNext

\* A run is called stopped only by a step that leaves the pause flag set, in
\* the fortress the run was prepared for.
THEOREM StoppedIsPaused == RunSpec => StoppedMeansPaused
<1>1. RunInvariant /\ [RunNext]_runVars => \A k \in Keys : Stops(k)
  BY StepStops
<1>2. RunInvariant /\ [RunNext]_runVars =>
        [\A k \in Keys :
          records[k] # NoRecord /\ records'[k] # NoRecord
          /\ records[k].phase # "Stopped" /\ records'[k].phase = "Stopped"
            => raw' /\ k \notin replaced
               /\ generation = records[k].before.generation]_runVars
  BY <1>1 DEF Stops
<1> QED
  BY <1>2, RunSafety, PTL DEF RunSpec, StoppedMeansPaused
=============================================================================
