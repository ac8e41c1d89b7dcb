----------------------- MODULE BoundedRunEngineProofs -----------------------
(***************************************************************************)
(* What the engine of run/1.13 makes of the record that owns the clock,    *)
(* and that its service keeps the invariant of the plugin.                 *)
(***************************************************************************)
EXTENDS BoundedRun, TLAPS

-----------------------------------------------------------------------------
(* The engine's functions *)

\* n is what the engine may make of the record r of a run under way
After(r, n) ==
    /\ n \in Record
    /\ n.before = r.before
    /\ n.unpause_attempted = r.unpause_attempted
    /\ n.phase \in Owning \cup {"Stopped", "SourceLost"}

\* What the game shows is an observation.
LEMMA ObserveType ==
    ASSUME RunTypeOK, NEW flag \in BOOLEAN
    PROVE  observe(flag) \in Snapshot
BY RunAssumption DEF RunTypeOK, observe, Snapshot, Ticks

\* begin_stop keeps a run under way.
LEMMA StopIf ==
    ASSUME NEW r \in Record, r.phase \in Owning,
           NEW c, NEW why \in Reason
    PROVE  /\ After(r, stop_if(c, r, why))
           /\ stop_if(c, r, why).phase \in Owning
           /\ After(r, begin_stop(r, why))
           /\ begin_stop(r, why).phase \in Owning
BY DEF stop_if, begin_stop, After, Record, Owning, Phase, Reason

\* service's look at the game keeps the record of the run.
LEMMA SeenKeeps ==
    ASSUME NEW r \in Record, r.phase \in Owning, NEW s \in Snapshot
    PROVE  After(r, seen(r, s)) /\ seen(r, s).phase \in Owning
<1> DEFINE regressed == \/ s.tick < r.before.tick
                        \/ r.tick_known /\ s.tick < r.observed_tick
           r0 == stop_if(regressed, r, "ClockRegression")
           r1 == [r0 EXCEPT !.observed_tick = s.tick, !.tick_known = TRUE]
           last == r.before.tick + r.spec.game_ticks
           r2 == stop_if(s.tick >= last, r1, "TickLimit")
<1>1. After(r, r0) /\ r0.phase \in Owning
  BY StopIf DEF Reason
<1> HIDE DEF r0
<1>2. After(r, r1) /\ r1.phase \in Owning
  BY <1>1 DEF After, Record, Snapshot
<1> HIDE DEF r1
<1>3. After(r1, r2) /\ r2.phase \in Owning
  BY <1>2, StopIf DEF After, Reason
<1> HIDE DEF r2
<1>4. s.paused \in BOOLEAN
  BY DEF Snapshot
<1>5. After(r2, stop_if(s.paused, r2, "ExternalPause"))
      /\ stop_if(s.paused, r2, "ExternalPause").phase \in Owning
  BY <1>3, <1>4, StopIf DEF After, Reason
<1>6. seen(r, s) = stop_if(s.paused, r2, "ExternalPause")
  BY DEF seen, seen_until, r2, r1, r0
<1> QED
  BY <1>2, <1>3, <1>5, <1>6 DEF After

\* lose_source keeps the record of the run.
LEMMA LoseKeeps ==
    ASSUME NEW r \in Record
    PROVE  After(r, lose_source(r)) /\ lose_source(r).phase = "SourceLost"
BY DEF lose_source, After, Record, Phase, Reason

\* service up to the safety pause keeps the record of the run.
LEMMA WatchKeeps ==
    ASSUME RunTypeOK, NEW r \in Record, r.phase \in Owning,
           NEW flag \in BOOLEAN, NEW read \in BOOLEAN
    PROVE  /\ After(r, watch(r, flag, read))
           /\ watch(r, flag, read).phase \in Owning \cup {"SourceLost"}
<1> DEFINE r0 == stop_if(now >= r.deadline, r, "WallLimit")
           r1 == [r0 EXCEPT !.tick_known = FALSE]
           s == observe(flag)
<1>1. After(r, r0) /\ r0.phase \in Owning
  BY StopIf DEF Reason
<1> HIDE DEF r0
<1>2. s \in Snapshot
  BY ObserveType
<1> HIDE DEF s
<1>3. After(r0, seen(r0, s)) /\ seen(r0, s).phase \in Owning
  BY <1>1, <1>2, SeenKeeps DEF After
<1>4. After(r0, lose_source(r0)) /\ lose_source(r0).phase = "SourceLost"
  BY <1>1, LoseKeeps DEF After
<1>5. After(r0, r1) /\ r1.phase \in Owning
  BY <1>1 DEF After, Record
<1> HIDE DEF r1
<1>6. /\ After(r1, begin_stop(r1, "NativeFailure"))
      /\ begin_stop(r1, "NativeFailure").phase \in Owning
  BY <1>5, StopIf DEF After, Reason
<1>7. watch(r, flag, read) \in
        {lose_source(r0), seen(r0, s), begin_stop(r1, "NativeFailure")}
  BY DEF watch, look, r0, r1, s
<1> QED
  BY <1>1, <1>3, <1>4, <1>5, <1>6, <1>7 DEF After

\* The safety pause keeps the record of the run, and ends it as stopped only
\* with a verified setter in the fortress of the run.
LEMMA PauseKeeps ==
    ASSUME RunTypeOK, NEW r \in Record, r.phase = "Stopping",
           NEW flag \in BOOLEAN, NEW w, NEW read \in BOOLEAN
    PROVE  LET n == attempt_pause(r, flag, w, read) IN
           /\ After(r, n)
           /\ n.phase = "Stopped" =>
                 w = "ok" /\ generation = r.before.generation
<1> DEFINE s == observe(flag \/ w # "none")
           r1 == [r EXCEPT !.tick_known = s.clock_valid,
                        !.observed_tick = IF s.clock_valid THEN s.tick ELSE @]
           r2 == [r EXCEPT !.tick_known = FALSE]
<1>1. s \in Snapshot /\ s.generation = generation
  <2>1. (flag \/ w # "none") \in BOOLEAN
    OBVIOUS
  <2>2. s \in Snapshot
    BY <2>1, ObserveType
  <2> QED
    BY <2>2 DEF observe
<1> HIDE DEF s
<1>2. After(r, r1) /\ r1.phase = "Stopping"
  BY <1>1 DEF After, Record, Snapshot, Owning
<1>3. After(r, r2) /\ r2.phase = "Stopping"
  BY DEF After, Record, Owning
<1>4. After(r, lose_source(r)) /\ lose_source(r).phase = "SourceLost"
  BY LoseKeeps
<1>5. After(r, finish(r1))
  BY <1>2 DEF After, Record, finish, Phase
<1>6. attempt_pause(r, flag, w, read) =
        IF ~read THEN r2
        ELSE IF s.generation # r.before.generation THEN lose_source(r)
        ELSE IF w = "ok" /\ s.loaded /\ s.paused THEN finish(r1)
        ELSE r1
  BY DEF attempt_pause, readback, s
<1> HIDE DEF r1, r2
<1> QED
  BY <1>1, <1>2, <1>3, <1>4, <1>5, <1>6

\* What ServiceAs does to the run k whose record is r
ServedAs(k, r, n) ==
    /\ After(r, n)
    /\ records' = [records EXCEPT ![k] = n]
    /\ active' = IF n.phase \in Owning THEN k ELSE NoKey
    /\ gate' = IF n.phase \notin Owning /\ gate = "Busy" THEN "Idle" ELSE gate
    /\ core' = Free
    /\ raw' \in BOOLEAN
    /\ k \notin replaced => trespassed' = trespassed
    /\ n.phase = "Stopped" => raw' = TRUE /\ generation = r.before.generation

Served(k, r) == \E n \in Record : ServedAs(k, r, n)

\* service keeps the record of the run, gives the clock back exactly when the
\* run is over, and calls it stopped only with the pause flag set.
LEMMA ServiceShape ==
    ASSUME RunTypeOK, NEW k \in Keys, NEW r \in Record, r.phase \in Owning,
           NEW flag \in BOOLEAN, ServiceAs(k, r, flag)
    PROVE  Served(k, r)
<1>1. PICK read \in BOOLEAN, again \in BOOLEAN, w \in Writes(r) :
        LET r1 == watch(r, flag, read)
            pausing == r1.phase = "Stopping"
            end == IF pausing THEN attempt_pause(r1, flag, w, again) ELSE r1
            owner == IF end.phase \in Owning THEN k ELSE NoKey
            set == pausing /\ w # "none"
        IN  /\ records' = [records EXCEPT ![k] = end]
            /\ active' = owner
            /\ raw' = (flag \/ set)
            /\ trespassed' = IF set /\ k \in replaced
                             THEN trespassed \cup {k} ELSE trespassed
            /\ release_idle_gate(owner)
            /\ core' = Free
  BY DEF ServiceAs
<1> DEFINE r1 == watch(r, flag, read)
           pausing == r1.phase = "Stopping"
           pend == attempt_pause(r1, flag, w, again)
           end == IF pausing THEN pend ELSE r1
           owner == IF end.phase \in Owning THEN k ELSE NoKey
           set == pausing /\ w # "none"
<1>2. /\ records' = [records EXCEPT ![k] = end]
      /\ active' = owner
      /\ raw' = (flag \/ set)
      /\ k \notin replaced => trespassed' = trespassed
      /\ gate' = IF owner = NoKey /\ gate = "Busy" THEN "Idle" ELSE gate
      /\ core' = Free
  BY <1>1 DEF release_idle_gate
<1>3. After(r, r1) /\ r1.phase \in Owning \cup {"SourceLost"}
  BY WatchKeeps
<1> HIDE DEF r1
<1>4. pausing => /\ After(r1, pend)
                 /\ pend.phase = "Stopped" =>
                        w = "ok" /\ generation = r1.before.generation
  BY <1>3, PauseKeeps DEF After
<1> HIDE DEF pend
<1>5. /\ After(r, end)
      /\ end.phase = "Stopped" => set /\ generation = r.before.generation
  BY <1>3, <1>4 DEF After, Owning
<1>6. owner = NoKey <=> end.phase \notin Owning
  BY RunAssumption
<1>7. raw' \in BOOLEAN /\ (set => raw' = TRUE)
  BY <1>2
<1>8. end \in Record
  BY <1>5 DEF After
<1> HIDE DEF end, set
<1>9. ServedAs(k, r, end)
  BY <1>2, <1>5, <1>6, <1>7 DEF ServedAs
<1> QED
  BY <1>8, <1>9 DEF Served

-----------------------------------------------------------------------------
(* Preservation of RunInvariant *)

\* A step that ends in service keeps the invariant: the run k was unpaused once,
\* its fortress is there, and the gate is claimed for it.
LEMMA ServedSafe ==
    ASSUME RunInvariant, NEW k \in Keys, NEW r \in Record,
           r.phase \in Owning, r.unpause_attempted = TRUE, Served(k, r),
           records[k] # NoRecord, k \notin replaced,
           active \in {k, NoKey}, gate = "Busy",
           unpauses' = [unpauses EXCEPT ![k] = 1],
           sequence' \in 0 .. MaxSequence,
           UNCHANGED Outside
    PROVE  RunInvariant'
<1>1. PICK n \in Record : ServedAs(k, r, n)
  BY DEF Served
<1>2. /\ records \in [Keys -> Record \cup {NoRecord}]
      /\ unpauses \in [Keys -> Nat]
  BY DEF RunInvariant, RunTypeOK
<1>3. /\ \A j \in Keys : records'[j] = IF j = k THEN n ELSE records[j]
      /\ \A j \in Keys : unpauses'[j] = IF j = k THEN 1 ELSE unpauses[j]
  BY <1>1, <1>2 DEF ServedAs
<1>4. /\ n # NoRecord
      /\ n.unpause_attempted = TRUE
      /\ n.phase \in Owning \cup {"Stopped", "SourceLost"}
  BY <1>1, RunAbsent DEF ServedAs, After
<1>5. /\ active' = IF n.phase \in Owning THEN k ELSE NoKey
      /\ gate' = IF n.phase \in Owning THEN "Busy" ELSE "Idle"
      /\ core' = Free
      /\ trespassed' = trespassed
      /\ raw' \in BOOLEAN
  BY <1>1 DEF ServedAs
<1>6. RunTypeOK'
  <2>1. records' \in [Keys -> Record \cup {NoRecord}]
    BY <1>1, <1>2 DEF ServedAs
  <2>2. unpauses' \in [Keys -> Nat]
    BY <1>2
  <2>3. active' \in Keys \cup {NoKey} /\ gate' \in {"Idle", "Busy", "Closing"}
        /\ core' \in [at : {"idle", "service", "drain", "commit", "claim",
                            "check"}, key : Keys \cup {NoKey}]
    BY <1>5 DEF Free
  <2> QED
    BY <1>5, <2>1, <2>2, <2>3 DEF RunInvariant, RunTypeOK, Outside
<1>7. OneClockOwner'
  <2> SUFFICES ASSUME NEW j \in Keys, records'[j] # NoRecord
               PROVE  /\ records'[j].phase \in Owning <=> active' = j
                      /\ records'[j].unpause_attempted <=> unpauses'[j] > 0
                      /\ active' = j => records'[j].unpause_attempted
    BY DEF OneClockOwner
  <2>1. CASE j = k
    BY <1>3, <1>4, <1>5, <2>1, RunAssumption
  <2>2. CASE j # k
    <3>1. active # j /\ active' # j
      BY <1>5, <2>2, RunAssumption
    <3> QED
      BY <1>3, <2>2, <3>1 DEF RunInvariant, OneClockOwner
  <2> QED
    BY <2>1, <2>2
<1>8. UnpausedAtMostOnce' /\ NeverPausesAReplacement'
  BY <1>3, <1>5
     DEF RunInvariant, UnpausedAtMostOnce, NeverPausesAReplacement
<1>9. RecordsSound'
  <2> SUFFICES ASSUME NEW j \in Keys
               PROVE  /\ records'[j] = NoRecord =>
                            unpauses'[j] = 0 /\ active' # j
                      /\ records'[j] # NoRecord
                         /\ records'[j].phase = "Prepared"
                            => ~records'[j].unpause_attempted
                      /\ j \in replaced' /\ records'[j] # NoRecord
                            => records'[j].phase \notin Owning \cup {"Prepared"}
    BY DEF RecordsSound
  <2>1. CASE j = k
    BY <1>3, <1>4, <2>1 DEF Owning, Outside
  <2>2. CASE j # k
    <3>1. active' # j
      BY <1>5, <2>2, RunAssumption
    <3> QED
      BY <1>3, <2>2, <3>1 DEF RunInvariant, RecordsSound, Outside
  <2> QED
    BY <2>1, <2>2
<1>10. GateSound'
  BY <1>5, RunAssumption DEF RunInvariant, GateSound, Free, Outside
<1> QED
  BY <1>6, <1>7, <1>8, <1>9, <1>10 DEF RunInvariant

\* A step that leaves the engine alone has to keep the types and the gate.
LEMMA QuietSafe ==
    ASSUME RunInvariant, RunTypeOK', GateSound',
           UNCHANGED <<engineVars, unpauses, replaced, trespassed>>
    PROVE  RunInvariant'
BY DEF RunInvariant, engineVars, OneClockOwner, UnpausedAtMostOnce,
       NeverPausesAReplacement, RecordsSound

\* A handler that returns without work keeps the invariant.
LEMMA ReturnSafe ==
    ASSUME RunInvariant, Return, UNCHANGED Outside
    PROVE  RunInvariant'
<1>1. RunTypeOK'
  BY DEF RunInvariant, RunTypeOK, Return, Outside, engineVars, Free,
         release_idle_gate
<1>2. GateSound'
  BY DEF RunInvariant, GateSound, Return, Outside, engineVars, Free,
         release_idle_gate
<1> QED
  BY <1>1, <1>2, QuietSafe DEF Return, Outside

\* The active run has a record, was unpaused once, and its fortress is there.
LEMMA OwnerFacts ==
    ASSUME RunInvariant, active # NoKey
    PROVE  /\ active \in Keys
           /\ records[active] \in Record /\ records[active] # NoRecord
           /\ records[active].phase \in Owning
           /\ records[active].unpause_attempted = TRUE
           /\ unpauses = [unpauses EXCEPT ![active] = 1]
           /\ active \notin replaced
           /\ gate = "Busy"
<1>1. /\ active \in Keys
      /\ records \in [Keys -> Record \cup {NoRecord}]
      /\ unpauses \in [Keys -> Nat]
  BY DEF RunInvariant, RunTypeOK
<1>2. records[active] # NoRecord
  BY <1>1 DEF RunInvariant, RecordsSound
<1>3. /\ records[active].phase \in Owning
      /\ records[active].unpause_attempted
      /\ unpauses[active] > 0
  BY <1>1, <1>2 DEF RunInvariant, OneClockOwner
<1>4. records[active] \in Record
  BY <1>1, <1>2
<1>5. records[active].unpause_attempted = TRUE
  BY <1>3, <1>4 DEF Record
<1>6. unpauses[active] = 1
  BY <1>1, <1>3 DEF RunInvariant, UnpausedAtMostOnce
<1>7. unpauses = [unpauses EXCEPT ![active] = 1]
  BY <1>1, <1>6
<1>8. active \notin replaced
  BY <1>1, <1>2, <1>3 DEF RunInvariant, RecordsSound, Owning
<1>9. gate = "Busy"
  BY DEF RunInvariant, GateSound
<1> QED
  BY <1>1, <1>2, <1>3, <1>4, <1>5, <1>7, <1>8, <1>9

\* A stop request on the active run followed by service keeps the invariant.
LEMMA OwnerServedSafe ==
    ASSUME RunInvariant, active # NoKey, NEW r \in Record,
           After(records[active], r), r.phase \in Owning,
           ServiceAs(active, r, raw),
           UNCHANGED <<sequence, unpauses, Outside>>
    PROVE  RunInvariant'
<1>1. /\ active \in Keys
      /\ records[active] # NoRecord
      /\ records[active].unpause_attempted = TRUE
      /\ unpauses = [unpauses EXCEPT ![active] = 1]
      /\ active \notin replaced
      /\ gate = "Busy"
  BY OwnerFacts
<1>2. raw \in BOOLEAN /\ RunTypeOK /\ sequence \in 0 .. MaxSequence
  BY DEF RunInvariant, RunTypeOK
<1>3. Served(active, r)
  BY <1>1, <1>2, ServiceShape
<1>4. r.unpause_attempted = TRUE
  BY <1>1 DEF After
<1>5. unpauses' = [unpauses EXCEPT ![active] = 1]
  BY <1>1
<1>6. UNCHANGED Outside /\ sequence' \in 0 .. MaxSequence
  BY <1>2
<1> QED
  BY <1>1, <1>3, <1>4, <1>5, <1>6, ServedSafe

\* The update callback keeps the invariant.
LEMMA ServiceSafe ==
    ASSUME RunInvariant, service
    PROVE  RunInvariant'
<1>1. CASE active = NoKey
  BY <1>1, ReturnSafe DEF service
<1>2. CASE active # NoKey
  <2> DEFINE r == stop_if(core.at = "drain", records[active], "Shutdown")
  <2>1. records[active] \in Record /\ records[active].phase \in Owning
    BY <1>2, OwnerFacts
  <2>2. After(records[active], r) /\ r.phase \in Owning
    BY <2>1, StopIf DEF Reason
  <2>3. ServiceAs(active, r, raw) /\ UNCHANGED <<sequence, unpauses, Outside>>
    BY <1>2 DEF service
  <2>4. r \in Record
    BY <2>2 DEF After
  <2> HIDE DEF r
  <2> QED
    BY <1>2, <2>2, <2>3, <2>4, OwnerServedSafe
<1> QED
  BY <1>1, <1>2

=============================================================================
