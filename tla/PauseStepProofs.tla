-------------------------- MODULE PauseStepProofs ---------------------------
(***************************************************************************)
(* Proofs about PauseControl, second part: what each step does to the      *)
(* plugin (NativeStep), and that the conjuncts of SafetyInvariant about the*)
(* journal file, the plugin and the messages between them are preserved.   *)
(***************************************************************************)
EXTENDS PauseTypeProofs


-----------------------------------------------------------------------------
(* The journal *)

\* What a step may do to the file's record of k
Onward(k) ==
    /\ disk'[k] \in DurablePauseRecord
    /\ disk'[k] # NoRecord
    /\ validate_transition(disk[k], disk'[k])
    /\ Proven(k, disk'[k])
    /\ UNCHANGED nativeVars

\* The file's record of a key stays, or moves along the lifecycle of an effect
\* with what VerifiedOutcomeIsTrue asks of a verified outcome.
LEMMA DiskAdvances ==
    ASSUME SafetyInvariant, StoreStep, NEW k \in Keys
    PROVE  disk'[k] = disk[k] \/ Onward(k)
<1>1. CASE UNCHANGED disk
  BY <1>1
<1>2. ASSUME NEW j \in Keys, NEW next \in DurablePauseRecord, Write(j, next),
             Proven(j, next), UNCHANGED nativeVars
      PROVE  disk'[k] = disk[k] \/ Onward(k)
  <2>1. mem = disk /\ validate_transition(mem[j], next)
    BY <1>2 DEF Write, AppendSynced, AppendUncertain, appendable, writable,
       SafetyInvariant, SessionIsCurrent, healthy
  <2>2. disk' = disk \/ disk' = [disk EXCEPT ![j] = next]
    BY <1>2 DEF Write, AppendSynced, AppendUncertain
  <2>3. disk \in [Keys -> DurablePauseRecord \cup {NoRecord}]
    BY DEF SafetyInvariant, TypeOK, StoreTypeOK
  <2>4. CASE k = j /\ disk'[k] = next
    BY <1>2, <2>1, <2>4, DurableAbsent DEF Onward
  <2> QED
    BY <2>2, <2>3, <2>4
<1> QED
  BY <1>1, <1>2 DEF StoreStep, storeVars, OpenLive, OpenRecovery, Release

\* Along the lifecycle, an effect keeps its identity and a started one stays so.
LEMMA AdvanceKeeps ==
    ASSUME NEW k \in Keys, NEW r \in DurablePauseRecord,
           NEW n \in DurablePauseRecord, r # NoRecord, validate_transition(r, n)
    PROVE  /\ TokenOf(k, n) = TokenOf(k, r)
           /\ n.gen = r.gen
           /\ SameIdentity(r, n)
           /\ <<r.state, n.state>> \in AllowedTransitions
           /\ r.state \in Started => n.state \in Started
BY DEF validate_transition, SameIdentity, TokenOf, AllowedTransitions, Started,
       DurablePauseState

\* Whatever happens to the journal, an unfenced session holds what the file
\* holds.
LEMMA StoreStepCurrent ==
    ASSUME SafetyInvariant, StoreStep
    PROVE  /\ healthy' => mem' = disk'
           /\ session' = "closed" => ~fenced'
<1>1. CASE UNCHANGED storeVars
  BY <1>1 DEF storeVars, SafetyInvariant, SessionIsCurrent, healthy
<1>2. CASE (\E truncate \in BOOLEAN : OpenLive(truncate)) \/ OpenRecovery
  BY <1>2 DEF OpenLive, OpenRecovery
<1>3. CASE Release
  BY <1>3 DEF Release, healthy
<1>4. ASSUME NEW k \in Keys, NEW next \in DurablePauseRecord, Write(k, next)
      PROVE  /\ healthy' => mem' = disk'
             /\ session' = "closed" => ~fenced'
  <2>1. session = "live" /\ mem = disk
    BY <1>4 DEF Write, AppendSynced, AppendUncertain, appendable, writable,
       SafetyInvariant, SessionIsCurrent, healthy
  <2> QED
    BY <1>4, <2>1 DEF Write, AppendSynced, AppendUncertain, healthy
<1> QED
  BY <1>1, <1>2, <1>3, <1>4 DEF StoreStep

-----------------------------------------------------------------------------
(* The plugin *)

\* World events and restarts: the records go and the generation moves on
Cleared ==
    /\ \A k \in Keys : records'[k] = NoRecord
    /\ generation' \in Generations
    /\ generation' > generation \/ generation' = MaxGeneration
    /\ UNCHANGED <<setters, readback>>

\* A record appears, or one is retired
RewrittenAs(k, r) ==
    /\ records' = [records EXCEPT ![k] = r]
    /\ auth
    /\ \/ /\ records[k] = NoRecord
          /\ r.token.key = k
          /\ r.token.gen = generation
          /\ r.receipt = NoReceipt
       \/ /\ records[k] # NoRecord
          /\ r.token = records[k].token
          /\ r.requested = records[k].requested
          /\ r.receipt = records[k].receipt
          /\ r.paused = records[k].paused
          /\ r.tick = records[k].tick
    /\ UNCHANGED <<generation, setters, readback>>

Rewritten(k) == \E r \in NativeRecord : RewrittenAs(k, r)

\* The setter is called, for a token with durable intent
Attempted(t, ab) ==
    /\ t.key \in Keys
    /\ disk[t.key] # NoRecord
    /\ disk[t.key].state \in Started
    /\ t = TokenOf(t.key, disk[t.key])
    /\ auth
    /\ records[t.key] # NoRecord
    /\ records[t.key].token = t
    /\ ~records[t.key].requested
    /\ Attempt(t, ab)

NativeStep ==
    \/ UNCHANGED <<generation, records, setters, readback>>
    \/ Cleared /\ UNCHANGED storeVars
    \/ \E k \in Keys : Rewritten(k) /\ UNCHANGED storeVars
    \/ \E t \in Token, ab \in BOOLEAN : Attempted(t, ab) /\ UNCHANGED storeVars

\* Serving a request whose commits have durable intent is one of the shapes.
LEMMA ServeShape ==
    ASSUME SafetyInvariant, NEW m \in Msg, CommitHasIntent(m),
           NEW ab \in BOOLEAN, Serve(m, ab), UNCHANGED storeVars
    PROVE  NativeStep
<1> DEFINE t == m.token
           r == records[t.key]
<1>1. t \in Token /\ t.key \in Keys
  BY DEF Msg, Token
<1>2. BridgeTypeOK /\ r \in NativeRecord \cup {NoRecord}
  BY <1>1 DEF SafetyInvariant, TypeOK, BridgeTypeOK
<1>3. CASE UNCHANGED nativeVars
  BY <1>3 DEF nativeVars, NativeStep
<1>4. CASE PreparePause(EffectOf(t), ab) /\ ~UNCHANGED nativeVars
  <2> DEFINE e == EffectOf(t)
             n == prepare(e)
  <2>1. e.key = t.key /\ e \in Effect
    BY <1>1 DEF EffectOf, Effect, Token
  <2>2. /\ auth
        /\ r = NoRecord
        /\ records' = [records EXCEPT ![e.key] = n]
        /\ UNCHANGED <<generation, setters, readback>>
    BY <1>4, <2>1 DEF PreparePause, Refuse
  <2>3. hash_token(e) \in Token /\ hash_token(e).key = e.key
        /\ hash_token(e).gen = generation
    BY <1>2, <2>1 DEF hash_token, Token, Effect, BridgeTypeOK
  <2>4. n \in NativeRecord /\ n.token = hash_token(e) /\ n.receipt = NoReceipt
    BY <1>2, <2>3, BridgeAssumption
       DEF prepare, NativeRecord, BridgeTypeOK, GuardStates
  <2> HIDE DEF n, e
  <2>5. Rewritten(t.key)
    BY Zenon, <1>1, <2>1, <2>2, <2>3, <2>4 DEF Rewritten, RewrittenAs
  <2> QED
    BY <1>1, <2>5 DEF NativeStep
<1>5. CASE m.op = "commit" /\ CommitPause(t, ab) /\ ~UNCHANGED nativeVars
  <2>1. auth /\ r # NoRecord /\ r.token = t /\ ~r.requested
    BY <1>5 DEF CommitPause, Refuse
  <2>2. CASE Attempt(t, ab)
    <3>1. Attempted(t, ab)
      BY <1>1, <1>5, <2>1, <2>2 DEF Attempted, CommitHasIntent
    <3> QED
      BY <1>1, <3>1 DEF NativeStep
  <2>3. CASE /\ records' = [records EXCEPT ![t.key] = retire(r)]
             /\ UNCHANGED <<generation, setters, readback>>
    <3> DEFINE n == retire(r)
    <3>1. /\ n \in NativeRecord
          /\ n.token = r.token
          /\ n.requested = r.requested
          /\ n.receipt = r.receipt
          /\ n.paused = r.paused
          /\ n.tick = r.tick
      BY <1>2, <2>1 DEF retire, NativeRecord, GuardStates
    <3> HIDE DEF n
    <3>2. records' = [records EXCEPT ![t.key] = n]
      BY <2>3 DEF n
    <3>3. Rewritten(t.key)
      BY Zenon, <2>1, <2>3, <3>1, <3>2 DEF Rewritten, RewrittenAs
    <3> QED
      BY <1>1, <3>3 DEF NativeStep
  <2> QED
    BY <1>5, <2>2, <2>3 DEF CommitPause, Refuse
<1>6. CASE QueryPause(t.key, t.plan, ab)
  BY <1>3, <1>6 DEF QueryPause
<1> QED
  BY <1>3, <1>4, <1>5, <1>6 DEF Serve

\* Every step is, for the plugin, one of the shapes of NativeStep.
LEMMA NativeSteps ==
    ASSUME SafetyInvariant, [Next]_vars
    PROVE  NativeStep
<1>1. CASE UNCHANGED nativeVars
  BY <1>1 DEF nativeVars, NativeStep
<1>2. CASE UNCHANGED vars \/ Coordinator
  BY Zenon, <1>1, <1>2
     DEF vars, bridgeVars, Coordinator, fortress_open_session,
     open_recovery_only, close_session, Crash, fortress_plan, plan_reply,
     plan_fails, Report, explain_prepared, begin_commit, cancel_prepared,
     commit_prepared, commit_expires, commit_reply, commit_fails,
     fortress_wait, query_effect, query_reply, query_fails, batch_ends
<1>3. CASE ServeCall
  BY Zenon, <1>3, ServeShape DEF ServeCall, SafetyInvariant, TypeOK
<1>4. CASE ServeLate
  BY Zenon, <1>4, ServeShape DEF ServeLate, SafetyInvariant, TypeOK
<1>5. CASE BridgeRestart
  BY <1>5, BridgeTypes, ControlAssumption
     DEF BridgeRestart, plugin_init, NativeStep, Cleared, SafetyInvariant,
         TypeOK, BridgeTypeOK, Generations
<1>6. CASE plugin_onstatechange /\ UNCHANGED storeVars
  BY <1>6, ControlAssumption
     DEF plugin_onstatechange, NativeStep, Cleared, SafetyInvariant,
         TypeOK, BridgeTypeOK, Generations
<1>7. CASE GameStep
  BY <1>7 DEF GameStep, NativeStep
<1> QED
  BY <1>2, <1>3, <1>4, <1>5, <1>6, <1>7 DEF Next, Environment

\* An attempt is of the plugin's present generation.
LEMMA AttemptIsCurrent ==
    ASSUME SafetyInvariant, NEW t \in Token, NEW ab \in BOOLEAN,
           Attempted(t, ab)
    PROVE  disk[t.key].gen = generation
<1>1. disk[t.key].gen = t.gen
  BY DEF Attempted, TokenOf
<1>2. t.gen = generation
  BY Zenon DEF Attempted, SafetyInvariant, NativeRecordsSound
<1> QED
  BY <1>1, <1>2

\* A key whose setter has been called is never attempted again: its attempt is
\* of an earlier generation, or its record in the plugin is already requested.
LEMMA FirstAttempt ==
    ASSUME SafetyInvariant, NEW t \in Token, NEW ab \in BOOLEAN,
           Attempted(t, ab)
    PROVE  setters[t.key] = 0 /\ readback[t.key] = NoRecord
<1>1. t.key \in Keys /\ setters[t.key] \in Nat
  BY DEF Token, SafetyInvariant, TypeOK, BridgeTypeOK
<1>2. disk[t.key].gen = generation
  BY AttemptIsCurrent
<1>3. ~(setters[t.key] > 0)
  BY <1>1, <1>2 DEF Attempted, SafetyInvariant, SetterLeavesTrace
<1> QED
  BY <1>1, <1>3 DEF SafetyInvariant, SetterLeavesTrace

AttemptLeaves(t, ab, flag, n) ==
    /\ records' = [records EXCEPT ![t.key] = n]
    /\ n.token = t
    /\ n.requested
    /\ n.receipt # NoReceipt =>
          n.paused = flag /\ n.receipt = receipt_digest(t, n.tick)
    /\ setters' = [setters EXCEPT ![t.key] = @ + 1]
    /\ readback' = [readback EXCEPT ![t.key] = [token |-> t, paused |-> flag]]
    /\ out' = IF ab THEN out ELSE fill_record(n)
    /\ UNCHANGED generation

\* What a setter call leaves behind in the plugin.
LEMMA AttemptShape ==
    ASSUME SafetyInvariant, NEW t \in Token, NEW ab \in BOOLEAN,
           Attempted(t, ab)
    PROVE  \E flag \in BOOLEAN, n \in NativeRecord :
             AttemptLeaves(t, ab, flag, n)
<1> DEFINE r == records[t.key]
<1>1. r \in NativeRecord /\ r.token = t /\ r.token.gen = generation
  BY DEF Attempted, SafetyInvariant, TypeOK, BridgeTypeOK, NativeRecordsSound
<1>2. r.receipt # NoReceipt => readback[t.key] = [token |-> r.token,
                                                 paused |-> r.paused]
  BY DEF Attempted, SafetyInvariant, NativeRecordsSound
<1>3. r.receipt = NoReceipt
  <2>1. readback[t.key] = NoRecord
    BY FirstAttempt
  <2>2. [token |-> r.token, paused |-> r.paused] \in Readback
    BY <1>1 DEF NativeRecord, Readback
  <2> QED
    BY <1>2, <2>1, <2>2, NativeAbsent
<1>4. PICK flag \in {paused, t.desired}, read \in BOOLEAN :
        SetPauseState(t, flag, read, ab)
  BY DEF Attempted, Attempt
<1> DEFINE n == attempted(r, t, flag, read)
<1>5. flag \in BOOLEAN
  BY DEF Token, SafetyInvariant, TypeOK, BridgeTypeOK
<1>6. receipt(t, tick) \in Token /\ receipt(t, tick) = receipt_digest(t, tick)
  BY <1>1 DEF receipt, receipt_digest, Token, SafetyInvariant, TypeOK,
     BridgeTypeOK
<1>7. n \in NativeRecord
  BY Zenon, <1>1, <1>5, <1>6 DEF attempted, NativeRecord, GuardStates,
     SafetyInvariant, TypeOK, BridgeTypeOK
<1>8. /\ n.token = t
      /\ n.requested
      /\ n.receipt # NoReceipt =>
            n.paused = flag /\ n.receipt = receipt_digest(t, n.tick)
  BY <1>1, <1>3, <1>6 DEF attempted, NativeRecord
<1> HIDE DEF n
<1>9. AttemptLeaves(t, ab, flag, n)
  BY <1>4, <1>8 DEF SetPauseState, Respond, AttemptLeaves, n
<1> QED
  BY <1>5, <1>7, <1>9

\* Native records stay sound.
LEMMA NativeSoundStep ==
    ASSUME SafetyInvariant, NativeStep
    PROVE  NativeRecordsSound'
<1>1. CASE UNCHANGED <<generation, records, setters, readback>>
  BY <1>1 DEF SafetyInvariant, NativeRecordsSound
<1>2. CASE Cleared
  BY SMTT(30), <1>2 DEF Cleared, NativeRecordsSound
<1>3. ASSUME NEW k \in Keys, Rewritten(k)
      PROVE  NativeRecordsSound'
  <2>1. PICK r \in NativeRecord : RewrittenAs(k, r)
    BY <1>3 DEF Rewritten
  <2>2. records \in [Keys -> NativeRecord \cup {NoRecord}]
    BY DEF SafetyInvariant, TypeOK, BridgeTypeOK
  <2>3. \A j \in Keys : records'[j] = IF j = k THEN r ELSE records[j]
    BY <2>1, <2>2 DEF RewrittenAs
  <2> QED
    BY <2>1, <2>3 DEF RewrittenAs, SafetyInvariant, NativeRecordsSound, auth
<1>4. ASSUME NEW t \in Token, NEW ab \in BOOLEAN, Attempted(t, ab)
      PROVE  NativeRecordsSound'
  <2>1. PICK flag \in BOOLEAN, n \in NativeRecord :
          AttemptLeaves(t, ab, flag, n)
    BY <1>4, AttemptShape
  <2>2. /\ records \in [Keys -> NativeRecord \cup {NoRecord}]
        /\ readback \in [Keys -> Readback \cup {NoRecord}]
        /\ t.key \in Keys
    BY DEF SafetyInvariant, TypeOK, BridgeTypeOK, Token
  <2>3. \A j \in Keys : /\ records'[j] = IF j = t.key THEN n ELSE records[j]
                        /\ readback'[j] = IF j = t.key
                                          THEN [token |-> t, paused |-> flag]
                                          ELSE readback[j]
    BY <2>1, <2>2 DEF AttemptLeaves
  <2>4. t.gen = generation /\ generation # MaxGeneration
    BY Zenon, <1>4 DEF Attempted, auth, SafetyInvariant, NativeRecordsSound
  <2> QED
    BY <2>1, <2>3, <2>4 DEF AttemptLeaves, SafetyInvariant, NativeRecordsSound
<1> QED
  BY SMTT(30), <1>1, <1>2, <1>3, <1>4 DEF NativeStep

\* A setter call that was made is never forgotten or repeated.
LEMMA ReadbackStays ==
    ASSUME SafetyInvariant, NativeStep, NEW k \in Keys, readback[k] # NoRecord
    PROVE  readback'[k] = readback[k]
<1>1. ASSUME NEW t \in Token, NEW ab \in BOOLEAN, Attempted(t, ab)
      PROVE  readback'[k] = readback[k]
  <2>1. t.key # k
    BY <1>1, FirstAttempt
  <2>2. readback \in [Keys -> Readback \cup {NoRecord}]
    BY DEF SafetyInvariant, TypeOK, BridgeTypeOK
  <2>3. PICK flag \in BOOLEAN, n \in NativeRecord :
          AttemptLeaves(t, ab, flag, n)
    BY SMTT(30), <1>1, AttemptShape
  <2> QED
    BY <2>1, <2>2, <2>3 DEF AttemptLeaves
<1> QED
  BY <1>1 DEF NativeStep, Cleared, Rewritten, RewrittenAs

\* The trace that setter calls leave in file and plugin stays.
LEMMA TraceStep ==
    ASSUME SafetyInvariant, StoreStep, NativeStep
    PROVE  SetterLeavesTrace'
<1> SUFFICES ASSUME NEW k \in Keys
             PROVE  /\ setters'[k] > 0 <=> readback'[k] # NoRecord
                    /\ setters'[k] > 0 =>
                          /\ setters'[k] = 1
                          /\ disk'[k] # NoRecord
                          /\ disk'[k].state \in Started
                          /\ readback'[k].token = TokenOf(k, disk'[k])
                          /\ disk'[k].gen <= generation'
                          /\ disk'[k].gen = generation' =>
                                /\ records'[k] # NoRecord
                                /\ records'[k].token = readback'[k].token
                                /\ records'[k].requested
  BY Zenon DEF SetterLeavesTrace, TokenOf
<1> DEFINE Trace ==
             setters[k] > 0 =>
                /\ setters[k] = 1
                /\ disk[k] # NoRecord
                /\ disk[k].state \in Started
                /\ readback[k].token = TokenOf(k, disk[k])
                /\ disk[k].gen <= generation
                /\ disk[k].gen = generation =>
                      /\ records[k] # NoRecord
                      /\ records[k].token = readback[k].token
                      /\ records[k].requested
<1>1. (setters[k] > 0 <=> readback[k] # NoRecord) /\ Trace
  BY DEF SafetyInvariant, SetterLeavesTrace
<1>2. /\ disk[k] \in DurablePauseRecord \cup {NoRecord}
      /\ records \in [Keys -> NativeRecord \cup {NoRecord}]
      /\ readback \in [Keys -> Readback \cup {NoRecord}]
      /\ setters \in [Keys -> Nat]
      /\ generation \in Generations
      /\ generation \in Nat
  BY ControlAssumption DEF SafetyInvariant, TypeOK, StoreTypeOK, BridgeTypeOK,
     Generations
<1>3. CASE UNCHANGED <<generation, records, setters, readback>>
  <2>1. CASE disk'[k] = disk[k]
    BY <1>1, <1>3, <2>1
  <2>2. CASE Onward(k) /\ setters[k] > 0
    <3>1. /\ TokenOf(k, disk'[k]) = TokenOf(k, disk[k])
          /\ disk'[k].gen = disk[k].gen
          /\ disk'[k].state \in Started
      BY Zenon, <1>1, <1>2, <2>2, AdvanceKeeps DEF Onward
    <3>2. disk'[k] # NoRecord
      BY <2>2 DEF Onward
    <3> QED
      BY <1>1, <1>3, <2>2, <3>1, <3>2
  <2>3. CASE ~(setters[k] > 0)
    BY <1>1, <1>3, <2>3
  <2> QED
    BY <2>1, <2>2, <2>3, DiskAdvances
<1>4. CASE Cleared /\ UNCHANGED storeVars
  <2>1. CASE ~(setters[k] > 0)
    BY <1>1, <1>4, <2>1 DEF Cleared
  <2>2. CASE setters[k] > 0
    <3>1. disk'[k] = disk[k] /\ disk[k].gen \in Nat
      BY <1>1, <1>2, <1>4, <2>2, ControlAssumption
         DEF storeVars, DurablePauseRecord, Generations
    <3>2. disk[k].gen <= generation' /\ disk[k].gen # generation'
      <4>1. CASE generation' > generation
        BY <1>1, <1>2, <2>2, <3>1, <4>1, <1>4, ControlAssumption
           DEF Cleared, Generations
      <4>2. CASE generation' = MaxGeneration /\ ~(generation' > generation)
        <5>1. generation = MaxGeneration
          BY <1>2, <4>2, ControlAssumption DEF Generations
        <5>2. records[k] = NoRecord
          BY SMTT(30), <5>1 DEF SafetyInvariant, NativeRecordsSound
        <5> QED
          BY <1>1, <2>2, <4>2, <5>1, <5>2
      <4> QED
        BY <4>1, <4>2, <1>4 DEF Cleared
    <3> QED
      BY <1>1, <1>4, <2>2, <3>1, <3>2 DEF Cleared
  <2> QED
    BY <2>1, <2>2
<1>5. ASSUME NEW j \in Keys, Rewritten(j), UNCHANGED storeVars
      PROVE  Trace' /\ (setters'[k] > 0 <=> readback'[k] # NoRecord)
  <2>1. PICK r \in NativeRecord : RewrittenAs(j, r)
    BY <1>5 DEF Rewritten
  <2>2. records'[k] = IF k = j THEN r ELSE records[k]
    BY <1>2, <2>1 DEF RewrittenAs
  <2>3. r # NoRecord
    BY NativeAbsent
  <2>4. UNCHANGED <<generation, setters, readback, disk>>
    BY SMTT(30), <1>5, <2>1 DEF RewrittenAs, storeVars
  <2> QED
    BY <1>1, <2>1, <2>2, <2>3, <2>4 DEF RewrittenAs, TokenOf
<1>6. ASSUME NEW t \in Token, NEW ab \in BOOLEAN, Attempted(t, ab),
             UNCHANGED storeVars
      PROVE  Trace' /\ (setters'[k] > 0 <=> readback'[k] # NoRecord)
  <2>1. PICK flag \in BOOLEAN, n \in NativeRecord :
          AttemptLeaves(t, ab, flag, n)
    BY <1>6, AttemptShape
  <2>2. UNCHANGED <<generation, disk>>
    BY <1>6, <2>1 DEF AttemptLeaves, storeVars
  <2>3. CASE k # t.key
    <3>1. /\ records'[k] = records[k]
          /\ setters'[k] = setters[k]
          /\ readback'[k] = readback[k]
      BY SMTT(30), <1>2, <2>1, <2>3 DEF AttemptLeaves
    <3> QED
      BY SMTT(30), <1>1, <2>2, <3>1 DEF TokenOf
  <2>4. CASE k = t.key
    <3>1. setters[k] = 0
      BY <1>6, <2>4, FirstAttempt
    <3>2. /\ records'[k] = n
          /\ setters'[k] = 1
          /\ readback'[k] = [token |-> t, paused |-> flag]
      BY <1>2, <2>1, <2>4, <3>1 DEF AttemptLeaves
    <3>3. n # NoRecord /\ [token |-> t, paused |-> flag] # NoRecord
      BY NativeAbsent DEF Readback
    <3>4. n.token = t /\ n.requested
      BY <2>1 DEF AttemptLeaves
    <3>5. /\ disk[k] # NoRecord
          /\ disk[k].state \in Started
          /\ t = TokenOf(k, disk[k])
      BY <1>6, <2>4 DEF Attempted
    <3>6. disk[k].gen = generation
      BY <1>6, <2>4, AttemptIsCurrent
    <3> QED
      BY <1>2, <2>2, <3>2, <3>3, <3>4, <3>5, <3>6 DEF TokenOf
  <2> QED
    BY <2>3, <2>4
<1> QED
  BY <1>3, <1>4, <1>5, <1>6 DEF NativeStep, TokenOf

\* Verified outcomes stay true, and new ones are.
LEMMA VerifiedStep ==
    ASSUME SafetyInvariant, StoreStep, NativeStep
    PROVE  VerifiedOutcomeIsTrue'
<1> SUFFICES ASSUME NEW k \in Keys, disk'[k] # NoRecord
             PROVE  Proven(k, disk[k])'
  BY DEF VerifiedOutcomeIsTrue, Proven, TokenOf
<1>1. CASE disk'[k] = disk[k]
  <2>1. Proven(k, disk[k])
    BY <1>1 DEF SafetyInvariant, VerifiedOutcomeIsTrue, Proven
  <2> QED
    BY <1>1, <2>1, ReadbackStays DEF Proven, TokenOf
<1>2. CASE Onward(k)
  BY Zenon, <1>2 DEF Onward, Proven, TokenOf, nativeVars
<1> QED
  BY <1>1, <1>2, DiskAdvances

\* A commit request keeps its intent.
LEMMA IntentStays ==
    ASSUME SafetyInvariant, StoreStep, NEW m \in Msg, CommitHasIntent(m)
    PROVE  CommitHasIntent(m)'
<1> DEFINE k == m.token.key
<1> SUFFICES ASSUME m.op = "commit"
             PROVE  /\ disk'[k] # NoRecord
                    /\ disk'[k].state \in Started
                    /\ m.token = TokenOf(k, disk'[k])
  BY DEF CommitHasIntent, TokenOf
<1>1. k \in Keys
  BY DEF Msg, Token
<1>2. /\ disk[k] # NoRecord
      /\ disk[k].state \in Started
      /\ m.token = TokenOf(k, disk[k])
  BY DEF CommitHasIntent
<1>3. disk[k] \in DurablePauseRecord
  BY <1>1, <1>2 DEF SafetyInvariant, TypeOK, StoreTypeOK
<1> HIDE DEF k
<1>4. CASE Onward(k)
  BY Zenon, <1>1, <1>2, <1>3, <1>4, AdvanceKeeps DEF Onward
<1> QED
  BY <1>1, <1>2, <1>4, DiskAdvances

\* Requests become late only by being abandoned.
LEMMA LateSteps ==
    ASSUME SafetyInvariant, [Next]_vars
    PROVE  late' \subseteq late \/ (wire # NoMsg /\ late' = late \cup {wire})
<1>1. CASE UNCHANGED vars \/ Coordinator
  BY Zenon, <1>1 DEF vars, coordVars, Coordinator, fortress_open_session,
     open_recovery_only, close_session, Crash, fortress_plan, plan_reply,
     plan_fails, Report, explain_prepared, begin_commit, cancel_prepared,
     commit_prepared, commit_expires, commit_reply, commit_fails,
     fortress_wait, query_effect, query_reply, query_fails, batch_ends, Abandon
<1>2. CASE Environment
  BY Zenon, <1>2
     DEF Environment, ServeCall, ServeLate, BridgeRestart, coordVars
<1> QED
  BY <1>1, <1>2 DEF Next

\* A request on the wire stays, goes, or is sent by the call that needs it.
LEMMA WireSteps ==
    ASSUME SafetyInvariant, [Next]_vars
    PROVE  \/ wire' = wire
           \/ wire' = NoMsg
           \/ \E t \in Token : wire' = [op |-> "prepare", token |-> t]
           \/ \E t \in Token : wire' = [op |-> "query", token |-> t]
           \/ /\ call.op = "started"
              /\ wire' = [op |-> "commit", token |-> call.token]
              /\ UNCHANGED storeVars
<1>1. CASE \/ UNCHANGED vars
           \/ \E truncate \in BOOLEAN : fortress_open_session(truncate)
           \/ open_recovery_only \/ close_session \/ Crash
           \/ plan_reply \/ plan_fails
           \/ \E k \in Keys : \/ Report(k) \/ explain_prepared(k)
                              \/ begin_commit(k) \/ cancel_prepared(k)
           \/ commit_prepared \/ commit_expires \/ commit_reply
           \/ commit_fails
           \/ \E selected \in SUBSET Keys, explain \in BOOLEAN :
                 fortress_wait(selected, explain)
           \/ query_reply \/ query_fails \/ batch_ends
  BY Zenon, <1>1
     DEF vars, coordVars, fortress_open_session, open_recovery_only,
     close_session, Crash, plan_reply, plan_fails, Report, explain_prepared,
     begin_commit, cancel_prepared, commit_prepared, Send, commit_expires,
     commit_reply, commit_fails, fortress_wait, query_reply, query_fails,
     batch_ends, Abandon
<1>2. ASSUME NEW e \in Effect, fortress_plan(e)
      PROVE  wire' = NoMsg
             \/ \E t \in Token : wire' = [op |-> "prepare", token |-> t]
  <2>1. Armed \in Conn
    BY <1>2, LiveHasClient, ArmedType DEF fortress_plan
  <2> DEFINE t == [key |-> e.key, plan |-> e.plan, desired |-> e.desired,
                   tick |-> e.tick, gen |-> Armed.gen]
  <2>2. t \in Token
    BY <2>1 DEF Conn, Effect, Token
  <2>3. wire' = NoMsg \/ wire' = [op |-> "prepare", token |-> t]
    BY <1>2 DEF fortress_plan, Send
  <2> HIDE DEF t
  <2> QED
    BY <2>2, <2>3
<1>3. ASSUME NEW k \in Keys, query_effect(k)
      PROVE  wire' = NoMsg
             \/ \E t \in Token : wire' = [op |-> "query", token |-> t]
  <2>1. TokenOf(k, mem[k]) \in Token
    BY <1>3, CallIsCurrent, MemState
       DEF query_effect, SafetyInvariant, CallKnows
  <2> QED
    BY <1>3, <2>1 DEF query_effect, Send
<1>4. CASE Environment
  BY Zenon, <1>4
     DEF Environment, ServeCall, ServeLate, BridgeRestart, coordVars
<1> QED
  BY Zenon, <1>1, <1>2, <1>3, <1>4 DEF Next, Coordinator

\* Every commit request, waiting or abandoned, keeps its durable intent.
LEMMA IntentStep ==
    ASSUME SafetyInvariant, [Next]_vars
    PROVE  /\ \A m \in late' : CommitHasIntent(m)'
           /\ wire' # NoMsg => CommitHasIntent(wire)'
<1>1. StoreStep
  BY StoreSteps
<1>2. late \subseteq Msg /\ wire \in Msg \cup {NoMsg}
  BY DEF SafetyInvariant, TypeOK
<1>3. \A m \in late : CommitHasIntent(m)'
  BY <1>1, <1>2, IntentStays DEF SafetyInvariant
<1>4. ASSUME wire # NoMsg, NEW m, m = wire
      PROVE  CommitHasIntent(m)'
  BY <1>1, <1>2, <1>4, IntentStays DEF SafetyInvariant
<1>5. \A m \in late' : CommitHasIntent(m)'
  BY <1>3, <1>4, LateSteps
<1>6. ASSUME NEW t \in Token, NEW op \in {"prepare", "query"},
             wire' = [op |-> op, token |-> t]
      PROVE  CommitHasIntent(wire)'
  BY <1>6 DEF CommitHasIntent
<1>7. ASSUME call.op = "started", UNCHANGED storeVars,
             wire' = [op |-> "commit", token |-> call.token]
      PROVE  CommitHasIntent(wire)'
  BY Zenon, <1>7
     DEF CommitHasIntent, SafetyInvariant, CallKnows, storeVars, Started,
     DurablePauseState, TokenOf
<1>8. wire' = wire /\ wire # NoMsg => CommitHasIntent(wire)'
  BY <1>4 DEF CommitHasIntent
<1> QED
  BY <1>5, <1>6, <1>7, <1>8, WireSteps

\* A reply carries no receipt, or that of a record the plugin then holds.
LEMMA ServeReply ==
    ASSUME SafetyInvariant, NEW m \in Msg, CommitHasIntent(m), Serve(m, FALSE),
           UNCHANGED storeVars
    PROVE  \/ out'.receipt = NoReceipt
           \/ \E k \in Keys : /\ records'[k] # NoRecord
                             /\ out'.receipt = records'[k].receipt
                             /\ out'.paused = records'[k].paused
                             /\ out'.tick = records'[k].tick
<1> DEFINE t == m.token
           r == records[t.key]
           Carries(n) == /\ out'.receipt = n.receipt
                         /\ out'.paused = n.paused
                         /\ out'.tick = n.tick
<1>1. t \in Token /\ t.key \in Keys /\ EffectOf(t).key = t.key
  BY SMTT(30) DEF Msg, Token, EffectOf
<1>2. /\ BridgeTypeOK
      /\ records \in [Keys -> NativeRecord \cup {NoRecord}]
      /\ r \in NativeRecord \cup {NoRecord}
  BY <1>1 DEF SafetyInvariant, TypeOK, BridgeTypeOK
<1>3. ASSUME NEW n
      PROVE  /\ out' = fill_record(n) => Carries(n)
             /\ out' = [fill_record(n) EXCEPT !.token = n.token] => Carries(n)
  BY Zenon DEF fill_record, Blank
<1>4. CASE out' = Refusal \/ out' = Blank
           \/ out' = [Blank EXCEPT !.token = hash_token(EffectOf(t))]
  BY <1>4 DEF Refusal, Blank
<1>5. CASE /\ r # NoRecord /\ UNCHANGED nativeVars
           /\ \/ out' = fill_record(r)
              \/ out' = [fill_record(r) EXCEPT !.token = r.token]
  <2>1. records'[t.key] = r /\ Carries(r)
    BY <1>3, <1>5 DEF nativeVars
  <2> QED
    BY <1>1, <1>5, <2>1
<1>6. CASE Attempted(t, FALSE)
  <2>1. PICK flag \in BOOLEAN, n \in NativeRecord :
          AttemptLeaves(t, FALSE, flag, n)
    BY Zenon, <1>1, <1>6, AttemptShape
  <2>2. out' = fill_record(n) /\ records'[t.key] = n
    BY <1>1, <1>2, <2>1 DEF AttemptLeaves
  <2>3. n # NoRecord /\ Carries(n)
    BY <1>3, <2>2, NativeAbsent
  <2> QED
    BY <1>1, <2>2, <2>3
<1>7. CASE m.op = "prepare"
  BY <1>1, <1>4, <1>5, <1>7 DEF Serve, PreparePause, Refuse, Respond
<1>8. CASE m.op = "commit"
  <2>1. CASE r # NoRecord /\ r.token = t /\ auth /\ ~r.requested /\ Attempt(t, FALSE)
    BY Zenon, <1>1, <1>6, <1>8, <2>1 DEF Attempted, CommitHasIntent
  <2> QED
    BY Zenon, <1>4, <1>5, <1>8, <2>1 DEF Serve, CommitPause, Refuse, Respond
<1>9. CASE m.op = "query"
  BY <1>4, <1>5, <1>9 DEF Serve, QueryPause, Respond
<1> QED
  BY Zenon, <1>7, <1>8, <1>9 DEF Serve

\* A late request is served without a reply.
LEMMA LateIsSilent ==
    ASSUME NEW m \in Msg, Serve(m, TRUE)
    PROVE  out' = out
BY Zenon
   DEF Serve, PreparePause, CommitPause, QueryPause, Refuse, Respond, Attempt,
       SetPauseState

\* The reply in hand stays, goes, or comes from serving the call's request.
LEMMA OutSteps ==
    ASSUME SafetyInvariant, [Next]_vars
    PROVE  out' = out \/ out' = NoReply \/ ServeCall
<1>1. CASE UNCHANGED vars \/ Coordinator
  BY Zenon, <1>1 DEF vars, bridgeVars, Coordinator, fortress_open_session,
     open_recovery_only, close_session, Crash, fortress_plan, plan_reply,
     plan_fails, Report, explain_prepared, begin_commit, cancel_prepared,
     commit_prepared, commit_expires, commit_reply, commit_fails,
     fortress_wait, query_effect, query_reply, query_fails, batch_ends, Abandon
<1>2. CASE ServeLate
  BY Zenon, <1>2, LateIsSilent DEF ServeLate, SafetyInvariant, TypeOK
<1>3. CASE BridgeRestart \/ plugin_onstatechange \/ GameStep
  BY <1>3 DEF BridgeRestart, plugin_init, plugin_onstatechange, GameStep
<1> QED
  BY <1>1, <1>2, <1>3 DEF Next, Environment

\* Replies in hand stay sound.
LEMMA ReplyStep ==
    ASSUME SafetyInvariant, [Next]_vars
    PROVE  ReplySound'
<1>1. NativeStep
  BY NativeSteps
<1>2. CASE out' = out
  <2> SUFFICES ASSUME out # NoReply, out.receipt # NoReceipt
               PROVE  LET k == out.receipt.key IN
                      /\ readback'[k] # NoRecord
                      /\ out.receipt = receipt_digest(readback'[k].token, out.tick)
                      /\ out.paused = readback'[k].paused
    BY <1>2 DEF ReplySound, receipt_digest
  <2> DEFINE k == out.receipt.key
  <2>1. k \in Keys
    BY DEF SafetyInvariant, TypeOK, BridgeTypeOK, Reply, Token
  <2>2. /\ readback[k] # NoRecord
        /\ out.receipt = receipt_digest(readback[k].token, out.tick)
        /\ out.paused = readback[k].paused
    BY DEF SafetyInvariant, ReplySound
  <2>3. readback'[k] = readback[k]
    BY <1>1, <2>1, <2>2, ReadbackStays
  <2> QED
    BY SMTT(30), <2>2, <2>3
<1>3. CASE out' = NoReply
  BY <1>3 DEF ReplySound
<1>4. CASE ServeCall
  <2>1. \/ out'.receipt = NoReceipt
        \/ \E k \in Keys : /\ records'[k] # NoRecord
                          /\ out'.receipt = records'[k].receipt
                          /\ out'.paused = records'[k].paused
                          /\ out'.tick = records'[k].tick
    BY Zenon, <1>4, ServeReply DEF ServeCall, SafetyInvariant, TypeOK
  <2>2. CASE out'.receipt = NoReceipt
    BY SMTT(30), <2>2 DEF ReplySound
  <2>3. ASSUME NEW k \in Keys, records'[k] # NoRecord,
               out'.receipt = records'[k].receipt,
               out'.paused = records'[k].paused,
               out'.tick = records'[k].tick,
               out'.receipt # NoReceipt
        PROVE  ReplySound'
    <3> DEFINE r == records'[k]
    <3>1. NativeRecordsSound'
      BY SMTT(30), <1>1, NativeSoundStep
    <3>2. /\ r.token.key = k
          /\ readback'[k] = [token |-> r.token, paused |-> r.paused]
          /\ r.receipt = receipt_digest(r.token, r.tick)
      BY SMTT(30), <2>3, <3>1 DEF NativeRecordsSound, receipt_digest
    <3>3. out'.receipt.key = k
      BY <2>3, <3>2 DEF receipt_digest
    <3>4. [token |-> r.token, paused |-> r.paused] # NoRecord
      <4>1. r \in NativeRecord
        BY <2>3, BridgeTypes DEF BridgeTypeOK
      <4> QED
        BY <4>1, NativeAbsent DEF NativeRecord, Readback
    <3> QED
      BY <2>3, <3>2, <3>3, <3>4 DEF ReplySound, receipt_digest
  <2> QED
    BY <2>1, <2>2, <2>3
<1> QED
  BY <1>2, <1>3, <1>4, OutSteps

==============================================================================
