------------------------- MODULE PauseControlProofs -------------------------
(***************************************************************************)
(* Proofs, for every set of keys and plans and every bound, that the       *)
(* control/1.7 composition keeps its safety properties.                    *)
(*                                                                         *)
(* SafetyInvariant is inductive.  Its proof classifies every step by what  *)
(* it does to the journal (PauseTypeProofs) and to the plugin              *)
(* (PauseStepProofs), and then treats each conjunct against these few      *)
(* shapes.  Here: the coordinator, and the theorems.                       *)
(***************************************************************************)
EXTENDS PauseStepProofs

-----------------------------------------------------------------------------
(* The coordinator *)

\* A journal operation that succeeded leaves its record in the file.
LEMMA RecordedIsOnDisk ==
    ASSUME SafetyInvariant, NEW k \in Keys, NEW next \in DurablePauseRecord,
           Recorded(k, next)
    PROVE  disk'[k] = next /\ disk'[k] # NoRecord
<1>1. disk \in [Keys -> DurablePauseRecord \cup {NoRecord}]
  BY DEF SafetyInvariant, TypeOK, StoreTypeOK
<1>2. next # NoRecord
  BY DurableAbsent
<1> QED
  BY <1>1, <1>2 DEF Recorded, AppendSynced, storeVars, SafetyInvariant,
     SessionIsCurrent

\* A client is told only what the file holds at that moment.
LEMMA ToldSteps ==
    ASSUME SafetyInvariant, [Next]_vars, NEW k \in Keys
    PROVE  told'[k] = told[k]
           \/ (disk'[k] # NoRecord /\ told'[k] = disk'[k].state)
<1>1. told \in [Keys -> DurablePauseState \cup {"unknown"}]
      /\ disk \in [Keys -> DurablePauseRecord \cup {NoRecord}]
  BY DEF SafetyInvariant, TypeOK, StoreTypeOK
<1>2. ASSUME NEW j, NEW s, Tell(j, s), j = k => disk'[k] # NoRecord
                                               /\ s = disk'[k].state
      PROVE  told'[k] = told[k]
             \/ (disk'[k] # NoRecord /\ told'[k] = disk'[k].state)
  BY <1>1, <1>2 DEF Tell
<1>3. CASE UNCHANGED told
  BY <1>3
<1>4. CASE plan_reply /\ ~UNCHANGED told
  <2> DEFINE j == call.token.key
             next == prepared(call.token.plan, call.token.desired,
                              call.token.tick, out.gen)
  <2>1. call.token \in Token /\ out \in Reply
    BY <1>4 DEF SafetyInvariant, CallKnows, TypeOK, BridgeTypeOK, plan_reply
  <2>2. j \in Keys /\ next \in DurablePauseRecord /\ next.state = "Prepared"
    BY <2>1 DEF Token, Reply, prepared, DurablePauseRecord, DurablePauseState
  <2>3. Recorded(j, next) /\ Tell(j, "Prepared")
    BY <1>4, <2>1 DEF plan_reply, Token
  <2> HIDE DEF j, next
  <2> QED
    BY <1>2, <2>2, <2>3, RecordedIsOnDisk
<1>5. CASE (commit_reply \/ query_reply) /\ ~UNCHANGED told
  <2> DEFINE j == call.token.key
             next == reconcile_reply(j, mem[j], out)
  <2>1. /\ call.op \in {"commit", "query"}
        /\ out # NoReply
        /\ Unproven(mem[j], out) \/ verified_receipt(j, mem[j], out)
        /\ Recorded(j, next) /\ Tell(j, next.state)
    BY <1>5 DEF commit_reply, query_reply
  <2>2. j \in Keys /\ next \in DurablePauseRecord
    BY <2>1, ReplyProves
  <2> HIDE DEF j, next
  <2> QED
    BY <1>2, <2>1, <2>2, RecordedIsOnDisk
<1>6. ASSUME NEW j \in Keys, Report(j) \/ explain_prepared(j)
      PROVE  told'[k] = told[k]
             \/ (disk'[k] # NoRecord /\ told'[k] = disk'[k].state)
  <2>1. mem = disk /\ disk' = disk
    BY <1>6 DEF Report, explain_prepared, storeVars, SafetyInvariant,
       SessionIsCurrent, writable, healthy
  <2> QED
    BY <1>2, <1>6, <2>1 DEF Report, explain_prepared
<1>7. ASSUME NEW j \in Keys, cancel_prepared(j)
      PROVE  told'[k] = told[k]
             \/ (disk'[k] # NoRecord /\ told'[k] = disk'[k].state)
  <2> DEFINE next == cancelled(mem[j])
  <2>1. next \in DurablePauseRecord /\ next.state = "CancelledBeforeDispatch"
    BY <1>7, MemState, BuiltRecords DEF cancel_prepared
  <2>2. UNCHANGED told
        \/ (AppendSynced(j, next) /\ Tell(j, "CancelledBeforeDispatch"))
    BY <1>7 DEF cancel_prepared
  <2> HIDE DEF next
  <2>3. AppendSynced(j, next) => disk'[j] = next /\ disk'[j] # NoRecord
    BY <2>1, RecordedIsOnDisk DEF Recorded
  <2> QED
    BY <1>2, <2>1, <2>2, <2>3
<1>8. CASE \/ UNCHANGED vars
           \/ \E truncate \in BOOLEAN : fortress_open_session(truncate)
           \/ open_recovery_only \/ close_session \/ Crash
           \/ \E e \in Effect : fortress_plan(e)
           \/ plan_fails
           \/ \E j \in Keys : begin_commit(j) \/ query_effect(j)
           \/ commit_prepared \/ commit_expires \/ commit_fails
           \/ \E selected \in SUBSET Keys, explain \in BOOLEAN :
                 fortress_wait(selected, explain)
           \/ query_fails \/ batch_ends \/ Environment
  BY Zenon, <1>3, <1>8 DEF vars, coordVars, fortress_open_session,
     open_recovery_only, close_session, Crash, fortress_plan, plan_fails,
     begin_commit, query_effect, commit_prepared, commit_expires, commit_fails,
     fortress_wait, query_fails, batch_ends, Environment, ServeCall, ServeLate,
     BridgeRestart
<1> QED
  BY <1>3, <1>4, <1>5, <1>6, <1>7, <1>8 DEF Next, Coordinator

\* What was reported survives every step.
LEMMA ReportedStep ==
    ASSUME SafetyInvariant, [Next]_vars
    PROVE  ReportedSurvives'
<1> SUFFICES ASSUME NEW k \in Keys, told'[k] # "unknown"
             PROVE  disk'[k] # NoRecord /\ disk'[k].state \in Later(told'[k])
  BY DEF ReportedSurvives, Later
<1>1. StoreStep
  BY StoreSteps
<1>2. disk'[k] \in DurablePauseRecord \cup {NoRecord}
  BY <1>1, StoreStepType DEF SafetyInvariant, TypeOK, StoreTypeOK
<1>3. CASE disk'[k] # NoRecord /\ told'[k] = disk'[k].state
  BY <1>2, <1>3 DEF Later, Started, DurablePauseRecord, DurablePauseState
<1>4. CASE told'[k] = told[k]
  <2>1. disk[k] # NoRecord /\ disk[k].state \in Later(told[k])
    BY <1>4 DEF SafetyInvariant, ReportedSurvives
  <2>2. disk[k] \in DurablePauseRecord
    BY <2>1 DEF SafetyInvariant, TypeOK, StoreTypeOK
  <2>3. CASE disk'[k] = disk[k]
    BY <1>4, <2>1, <2>3
  <2>4. CASE Onward(k)
    <3>1. /\ disk'[k] # NoRecord
          /\ disk'[k] \in DurablePauseRecord
          /\ <<disk[k].state, disk'[k].state>> \in AllowedTransitions
      BY <2>1, <2>2, <2>4, AdvanceKeeps DEF Onward
    <3>2. told[k] \in DurablePauseState
      BY <1>4 DEF SafetyInvariant, TypeOK
    <3> QED
      BY <1>4, <2>1, <3>1, <3>2 DEF AllowedTransitions, Later, Started,
         DurablePauseState, DurablePauseRecord
  <2> QED
    BY <1>1, <2>3, <2>4, DiskAdvances
<1> QED
  BY <1>3, <1>4, ToldSteps

\* A live session has a client after every step.
LEMMA ClientStep ==
    ASSUME SafetyInvariant, [Next]_vars
    PROVE  session' = "live" => conn' \in Conn
<1>1. session = "live" => conn \in Conn
  BY DEF SafetyInvariant, SessionIsCurrent
<1>2. CASE UNCHANGED <<session, conn>>
  BY <1>1, <1>2
<1>3. ASSUME NEW truncate \in BOOLEAN, fortress_open_session(truncate)
      PROVE  conn' \in Conn
  BY <1>3 DEF fortress_open_session, Connected, Conn, SafetyInvariant, TypeOK,
     BridgeTypeOK
<1>4. CASE open_recovery_only \/ close_session \/ Crash
  BY <1>4 DEF open_recovery_only, OpenRecovery, close_session, Crash, Release
<1>5. CASE \/ \E e \in Effect : fortress_plan(e)
           \/ \E k \in Keys : explain_prepared(k) \/ query_effect(k)
  <2>1. writable /\ conn' = Armed
    BY Zenon, <1>5, CallIsCurrent
       DEF fortress_plan, explain_prepared, query_effect
  <2> QED
    BY <2>1, LiveHasClient, ArmedType
<1>6. CASE plan_fails \/ commit_fails \/ query_fails
  <2>1. conn \in Conn /\ conn' = Poisoned
    BY <1>6, CallIsCurrent DEF plan_fails, commit_fails, query_fails
  <2> QED
    BY <2>1, ArmedType
<1>7. CASE plan_reply \/ commit_reply \/ query_reply
  <2>1. conn \in Conn /\ out \in Reply
    BY <1>7, CallIsCurrent DEF plan_reply, commit_reply, query_reply,
       SafetyInvariant, TypeOK, BridgeTypeOK
  <2>2. [conn EXCEPT !.gen = out.gen] \in Conn
    BY <2>1, ArmedType DEF Reply
  <2> QED
    BY Zenon, <1>7, <2>2 DEF plan_reply, commit_reply, query_reply, Conn
<1>8. CASE BridgeRestart
  BY Zenon, <1>1, <1>8 DEF BridgeRestart, storeVars, Conn
<1>9. CASE \/ UNCHANGED vars
           \/ \E k \in Keys : Report(k) \/ begin_commit(k) \/ cancel_prepared(k)
           \/ commit_prepared \/ commit_expires \/ batch_ends
           \/ \E selected \in SUBSET Keys, explain \in BOOLEAN :
                 fortress_wait(selected, explain)
           \/ ServeCall \/ ServeLate
           \/ UNCHANGED <<storeVars, coordVars>>
  BY Zenon, <1>2, <1>9 DEF vars, storeVars, coordVars, Report, begin_commit,
     cancel_prepared, AppendSynced, AppendUncertain, commit_prepared,
     commit_expires, ambiguous, Recorded, NotRecorded, batch_ends,
     fortress_wait, ServeCall, ServeLate
<1> QED
  BY <1>3, <1>4, <1>5, <1>6, <1>7, <1>8, <1>9
     DEF Next, Coordinator, Environment

\* A finished call knows nothing that could become false.
LEMMA IdleKnows ==
    ASSUME call' = Idle, wire' = NoMsg, out' = NoReply
    PROVE  CallKnows'
BY SMTT(30) DEF CallKnows, Idle

\* A call whose surroundings do not change knows what it knew.
LEMMA SameKnows ==
    ASSUME SafetyInvariant, UNCHANGED <<call, disk>>,
           call.op # "idle" => writable',
           UNCHANGED <<wire, out>> \/ (wire' = NoMsg /\ out' = NoReply)
    PROVE  CallKnows'
BY DEF SafetyInvariant, CallKnows, TokenOf

\* Starting and answering calls: fortress.plan, fortress.commit up to the
\* dispatch, and the passes of fortress.wait.
LEMMA StartKnows ==
    ASSUME SafetyInvariant,
           \/ \E e \in Effect : fortress_plan(e)
           \/ \E k \in Keys : begin_commit(k) \/ query_effect(k)
           \/ commit_prepared
           \/ \E selected \in SUBSET Keys, explain \in BOOLEAN :
                 fortress_wait(selected, explain)
    PROVE  CallKnows'
<1>1. /\ disk \in [Keys -> DurablePauseRecord \cup {NoRecord}]
      /\ call \in Call
  BY DEF SafetyInvariant, TypeOK, StoreTypeOK
<1>2. call = Idle => wire = NoMsg /\ out = NoReply
  BY DEF SafetyInvariant, CallKnows, Idle
<1>3. ASSUME NEW e \in Effect, fortress_plan(e)
      PROVE  CallKnows'
  <2>1. mem = disk /\ Armed \in Conn
    BY Zenon, <1>3, LiveHasClient, ArmedType DEF fortress_plan
  <2> DEFINE t == [key |-> e.key, plan |-> e.plan, desired |-> e.desired,
                   tick |-> e.tick, gen |-> Armed.gen]
  <2>2. t \in Token /\ t.key = e.key
    BY <2>1 DEF Conn, Effect, Token
  <2> HIDE DEF t
  <2>3. /\ call' = [Idle EXCEPT !.op = "plan", !.token = t]
        /\ wire' = NoMsg \/ wire' = [op |-> "prepare", token |-> t]
        /\ disk' = disk /\ out' = NoReply
        /\ writable'
        /\ disk[t.key] = NoRecord
    BY Zenon, <1>2, <1>3, <2>1, <2>2
       DEF fortress_plan, Send, t, storeVars, bridgeVars, writable
  <2>4. call'.op = "plan" /\ call'.token = t /\ call'.todo = {}
    BY <2>3 DEF Idle
  <2> QED
    BY <2>2, <2>3, <2>4 DEF CallKnows
<1>4. ASSUME NEW k \in Keys, begin_commit(k)
      PROVE  CallKnows'
  <2>1. mem = disk /\ wire' = NoMsg /\ out' = NoReply
    BY Zenon, <1>2, <1>4, LiveHasClient DEF begin_commit, bridgeVars
  <2>2. CASE call' = Idle
    BY SMTT(30), <2>1, <2>2, IdleKnows
  <2>3. CASE AppendSynced(k, commit_started(mem[k]))
             /\ call' = [Idle EXCEPT !.op = "started",
                                     !.token = TokenOf(k, mem[k])]
    <3> DEFINE r == mem[k]
               n == commit_started(r)
    <3>1. r \in DurablePauseRecord /\ TokenOf(k, r) \in Token
      BY Zenon, <1>4, MemState DEF begin_commit
    <3>2. n \in DurablePauseRecord /\ n.state = "CommitStarted"
          /\ TokenOf(k, n) = TokenOf(k, r)
      BY <3>1, BuiltRecords DEF commit_started, DurablePauseRecord, TokenOf
    <3>3. disk'[k] = n /\ writable'
      BY <1>1, <2>3 DEF AppendSynced, appendable, writable
    <3>4. n # NoRecord
      BY <3>2, DurableAbsent
    <3> DEFINE t == TokenOf(k, r)
    <3>5. t.key = k
      BY DEF TokenOf
    <3>6. t = TokenOf(k, disk'[k])
      BY <3>2, <3>3
    <3> HIDE DEF t, n
    <3>7. call'.op = "started" /\ call'.token = t /\ call'.todo = {}
      BY <2>3 DEF Idle, t
    <3> QED
      BY <2>1, <3>1, <3>2, <3>3, <3>4, <3>5, <3>6, <3>7
         DEF CallKnows, TokenOf, t
  <2> QED
    BY Zenon, <1>4, <2>2, <2>3 DEF begin_commit
<1>5. ASSUME NEW k \in Keys, query_effect(k)
      PROVE  CallKnows'
  <2> DEFINE t == TokenOf(k, mem[k])
  <2>1. writable /\ mem = disk
    BY Zenon, <1>5, CallIsCurrent DEF query_effect
  <2>2. /\ disk[k] # NoRecord
        /\ reconciliation_required(disk[k].state)
        /\ out = NoReply
        /\ \A j \in call.todo :
              disk[j] # NoRecord /\ reconciliation_required(disk[j].state)
    BY Zenon, <1>5 DEF query_effect, SafetyInvariant, CallKnows
  <2>3. t \in Token /\ t.key = k
    BY <2>1, <2>2, MemState DEF TokenOf
  <2>4. t = TokenOf(k, disk[k])
    BY <2>1
  <2> HIDE DEF t
  <2>5. /\ call' = [call EXCEPT !.op = "query", !.token = t, !.todo = @ \ {k}]
        /\ wire' = NoMsg \/ wire' = [op |-> "query", token |-> t]
        /\ disk' = disk /\ out' = NoReply
        /\ writable'
    BY Zenon, <1>5, <2>1, <2>2
       DEF query_effect, Send, t, storeVars, bridgeVars, writable
  <2>6. call'.op = "query" /\ call'.token = t /\ call'.todo = call.todo \ {k}
    BY SMTT(30), <1>1, <2>5 DEF Call
  <2> QED
    BY <2>2, <2>3, <2>4, <2>5, <2>6 DEF CallKnows, TokenOf
<1>6. CASE commit_prepared
  <2>1. /\ call'.op = "commit" /\ call'.token = call.token
        /\ call'.todo = call.todo
    BY <1>1, <1>6 DEF commit_prepared, Call
  <2>2. /\ wire' = NoMsg \/ wire' = [op |-> "commit", token |-> call.token]
        /\ UNCHANGED <<storeVars, out>>
    BY <1>6 DEF commit_prepared, Send, bridgeVars
  <2> QED
    BY <1>6, <2>1, <2>2 DEF commit_prepared, SafetyInvariant, CallKnows,
       storeVars, writable, TokenOf
<1>7. ASSUME NEW selected \in SUBSET Keys, NEW explain \in BOOLEAN,
             fortress_wait(selected, explain)
      PROVE  CallKnows'
  <2>1. mem = disk /\ writable
    BY Zenon, <1>7, LiveHasClient DEF fortress_wait
  <2>2. call'.op = "batch" /\ call'.todo = selected
    BY Zenon, <1>7 DEF fortress_wait, Idle
  <2>3. /\ wire' = NoMsg /\ out' = NoReply
        /\ UNCHANGED storeVars
    BY Zenon, <1>2, <1>7 DEF fortress_wait, bridgeVars
  <2>4. \A j \in selected :
          disk'[j] # NoRecord /\ reconciliation_required(disk'[j].state)
    BY Zenon, <1>7, <2>1, <2>3 DEF fortress_wait, storeVars
  <2>5. writable'
    BY <2>1, <2>3 DEF writable, storeVars
  <2> QED
    BY <2>2, <2>3, <2>4, <2>5 DEF CallKnows
<1> QED
  BY <1>3, <1>4, <1>5, <1>6, <1>7

\* The reply to a query: the pass goes on with the keys that are left.
LEMMA QueryReplyKnows ==
    ASSUME SafetyInvariant, query_reply
    PROVE  CallKnows'
<1> DEFINE k == call.token.key
           next == reconcile_reply(k, mem[k], out)
<1>1. /\ call.op = "query"
      /\ out # NoReply
      /\ Unproven(mem[k], out) \/ verified_receipt(k, mem[k], out)
      /\ out' = NoReply /\ wire' = wire
      /\ \/ Recorded(k, next)
            /\ call' = [Idle EXCEPT !.op = "batch", !.todo = call.todo]
         \/ call' = Idle
  BY DEF query_reply
<1>2. k \in Keys /\ next \in DurablePauseRecord
  BY <1>1, ReplyProves
<1>3. writable /\ wire' = NoMsg /\ k \notin call.todo
  BY <1>1, CallIsCurrent DEF SafetyInvariant, CallKnows
<1>4. CASE call' = Idle
  BY <1>1, <1>3, <1>4, IdleKnows
<1>5. CASE Recorded(k, next)
           /\ call' = [Idle EXCEPT !.op = "batch", !.todo = call.todo]
  <2>1. call'.op = "batch" /\ call'.todo = call.todo
    BY <1>5 DEF Idle
  <2>2. writable'
    BY <1>3, <1>5 DEF Recorded, AppendSynced, storeVars, writable
  <2>3. \A j \in Keys : j # k => disk'[j] = disk[j]
    <3> HIDE DEF k, next
    <3>1. disk \in [Keys -> DurablePauseRecord \cup {NoRecord}]
      BY DEF SafetyInvariant, TypeOK, StoreTypeOK
    <3> QED
      BY <1>5, <3>1 DEF Recorded, AppendSynced, storeVars
  <2>4. call.todo \subseteq Keys
    BY DEF SafetyInvariant, TypeOK, Call
  <2>5. \A j \in call.todo :
          disk[j] # NoRecord /\ reconciliation_required(disk[j].state)
    BY DEF SafetyInvariant, CallKnows
  <2>6. \A j \in call.todo :
          disk'[j] # NoRecord /\ reconciliation_required(disk'[j].state)
    BY <1>3, <2>3, <2>4, <2>5
  <2> QED
    BY <1>1, <1>3, <2>1, <2>2, <2>6 DEF CallKnows
<1> QED
  BY <1>1, <1>4, <1>5

\* A failed query ends the pass or, for fortress.explain, asks once more.
LEMMA QueryFailsKnows ==
    ASSUME SafetyInvariant, query_fails
    PROVE  CallKnows'
<1> DEFINE k == call.token.key
<1>1. /\ call.op = "query"
      /\ wire' = NoMsg /\ out' = NoReply
      /\ UNCHANGED storeVars
      /\ \/ call' = Idle
         \/ call' = [Idle EXCEPT !.op = "batch", !.todo = {k}]
  BY DEF query_fails, Abandon
<1>2. CASE call' = Idle
  BY <1>1, <1>2, IdleKnows
<1>3. CASE call' = [Idle EXCEPT !.op = "batch", !.todo = {k}]
  <2>1. call'.op = "batch" /\ call'.todo = {k}
    BY <1>3 DEF Idle
  <2>2. writable' /\ disk' = disk
    BY <1>1, CallIsCurrent DEF storeVars, writable
  <2>3. disk[k] # NoRecord /\ reconciliation_required(disk[k].state)
    BY <1>1 DEF SafetyInvariant, CallKnows
  <2> QED
    BY <1>1, <2>1, <2>2, <2>3 DEF CallKnows
<1> QED
  BY <1>1, <1>2, <1>3

\* What a call in progress knows stays true.
LEMMA CallStep ==
    ASSUME SafetyInvariant, [Next]_vars
    PROVE  CallKnows'
<1>1. call.op # "idle" => writable
  BY DEF SafetyInvariant, CallKnows
<1>2. call.op = "idle" => wire = NoMsg /\ out = NoReply
  BY DEF SafetyInvariant, CallKnows
<1>3. CASE UNCHANGED <<storeVars, call, wire, out>>
  BY <1>1, <1>3, SameKnows DEF storeVars, writable
<1>4. CASE \/ \E truncate \in BOOLEAN : fortress_open_session(truncate)
           \/ open_recovery_only
  <2>1. session = "closed" /\ UNCHANGED <<call, disk, wire, out>>
    BY <1>4 DEF fortress_open_session, OpenLive, open_recovery_only,
       OpenRecovery, coordVars, bridgeVars
  <2> QED
    BY <1>1, <2>1, SameKnows DEF writable
<1>5. CASE close_session \/ \E k \in Keys : cancel_prepared(k)
  <2>1. call = Idle /\ UNCHANGED <<call, wire, out>>
    BY <1>5 DEF close_session, cancel_prepared, bridgeVars
  <2> QED
    BY <1>2, <2>1, IdleKnows DEF Idle
<1>6. CASE Crash \/ plan_fails \/ commit_fails
  BY <1>6, IdleKnows DEF Crash, plan_fails, commit_fails, Abandon
<1>7. CASE plan_reply \/ commit_reply
  <2>1. out # NoReply /\ call' = Idle /\ wire' = wire /\ out' = NoReply
    BY <1>7 DEF plan_reply, commit_reply
  <2>2. wire = NoMsg
    BY <2>1 DEF SafetyInvariant, CallKnows
  <2> QED
    BY <2>1, <2>2, IdleKnows
<1>8. CASE commit_expires \/ batch_ends
  <2>1. call.op \in {"started", "batch"} /\ call' = Idle
        /\ UNCHANGED <<wire, out>>
    BY <1>8 DEF commit_expires, batch_ends, bridgeVars
  <2>2. wire = NoMsg /\ out = NoReply
    BY SMTT(30), <2>1 DEF SafetyInvariant, CallKnows
  <2> QED
    BY <2>1, <2>2, IdleKnows
<1>9. CASE ServeCall
  <2>1. wire # NoMsg /\ wire' = NoMsg /\ UNCHANGED <<storeVars, call>>
    BY <1>9 DEF ServeCall
  <2> QED
    BY <2>1 DEF SafetyInvariant, CallKnows, storeVars, writable, TokenOf
<1>10. CASE ServeLate
  <2>1. UNCHANGED <<storeVars, call, wire>>
    BY <1>10 DEF ServeLate
  <2>2. out' = out
    BY Zenon, <1>10, LateIsSilent DEF ServeLate, SafetyInvariant, TypeOK
  <2> QED
    BY <1>3, <2>1, <2>2
<1>11. CASE BridgeRestart
  <2>1. UNCHANGED <<storeVars, call>> /\ wire' = NoMsg /\ out' = NoReply
    BY <1>11 DEF BridgeRestart, plugin_init
  <2> QED
    BY <1>1, <2>1, SameKnows DEF storeVars, writable
<1>12. CASE \/ UNCHANGED vars
            \/ \E k \in Keys : Report(k) \/ explain_prepared(k)
            \/ (plugin_onstatechange \/ GameStep)
                  /\ UNCHANGED <<storeVars, coordVars>>
  BY <1>3, <1>12 DEF vars, bridgeVars, coordVars, Report, explain_prepared,
     plugin_onstatechange, GameStep
<1> QED
  BY SMTT(30), <1>4, <1>5, <1>6, <1>7, <1>8, <1>9, <1>10, <1>11, <1>12, StartKnows,
     QueryReplyKnows, QueryFailsKnows DEF Next, Coordinator, Environment

-----------------------------------------------------------------------------
(* Results *)

\* The program starts in SafetyInvariant: an empty journal, no session, a
\* plugin without records.
LEMMA InitIsSafe == Init => SafetyInvariant
<1> SUFFICES ASSUME Init PROVE SafetyInvariant
  OBVIOUS
<1> USE DEF Init
<1>1. StoreTypeOK
  BY Zenon DEF StoreInit, StoreTypeOK, Empty
<1>2. BridgeTypeOK
  <2>1. generation \in Generations /\ sequence \in 0 .. MaxSequence
        /\ wall \in 0 .. MaxWall
    BY ControlAssumption, BridgeAssumption DEF BridgeInit, Generations
  <2> QED
    BY <2>1 DEF BridgeInit, BridgeTypeOK
<1>3. TypeOK
  BY Zenon, <1>1, <1>2 DEF TypeOK, Idle, Call
<1>4. CallKnows
  BY DEF CallKnows, Idle, BridgeInit
<1>5. SessionIsCurrent
  BY DEF SessionIsCurrent, StoreInit, healthy
<1>6. NativeRecordsSound /\ SetterLeavesTrace /\ ReplySound
  BY DEF NativeRecordsSound, SetterLeavesTrace, ReplySound, BridgeInit
<1>7. VerifiedOutcomeIsTrue /\ ReportedSurvives
  BY DEF VerifiedOutcomeIsTrue, ReportedSurvives, StoreInit, Empty
<1> QED
  BY <1>3, <1>4, <1>5, <1>6, <1>7 DEF SafetyInvariant

\* Every step of coordinator, journal, plugin, game and faults keeps it.
LEMMA StepIsSafe == SafetyInvariant /\ [Next]_vars => SafetyInvariant'
<1> SUFFICES ASSUME SafetyInvariant, [Next]_vars
             PROVE  SafetyInvariant'
  OBVIOUS
<1>1. StoreStep /\ NativeStep
  BY StoreSteps, NativeSteps
<1>2. TypeOK'
  BY <1>1, StoreStepType, BridgeTypes, CoordTypes
     DEF SafetyInvariant, TypeOK, CoordTypeOK
<1>3. SessionIsCurrent'
  BY <1>1, StoreStepCurrent, ClientStep DEF SessionIsCurrent
<1>4. NativeRecordsSound' /\ SetterLeavesTrace' /\ VerifiedOutcomeIsTrue'
  BY <1>1, NativeSoundStep, TraceStep, VerifiedStep
<1> QED
  BY <1>2, <1>3, <1>4, CallStep, IntentStep, ReplyStep, ReportedStep
     DEF SafetyInvariant

\* The inductive invariant holds in every reachable state, whatever the keys,
\* plans, limits and generations: the base of the theorems below.
THEOREM Safety == Spec => []SafetyInvariant
  BY InitIsSafe, StepIsSafe, PTL DEF Spec

\* Every variable of the composition keeps its type.
THEOREM TypeCorrect == Spec => []TypeOK
<1>1. SafetyInvariant => TypeOK
  BY DEF SafetyInvariant
<1> QED
  BY <1>1, Safety, PTL

\* The pause setter is called at most once per idempotency key, across
\* retries, late requests, reloads and crashes of either process.
THEOREM AtMostOnce == Spec => []AtMostOneSetter
<1>1. SafetyInvariant => AtMostOneSetter
  BY DEF SafetyInvariant, SetterLeavesTrace, AtMostOneSetter, TypeOK,
     BridgeTypeOK
<1> QED
  BY <1>1, Safety, PTL

\* A key whose setter was called is in the journal file with a started commit:
\* begin_commit's synced record precedes the dispatch of commit_prepared.
THEOREM WriteAheadIntent == Spec => []IntentBeforeSetter
<1>1. SafetyInvariant => IntentBeforeSetter
  BY DEF SafetyInvariant, SetterLeavesTrace, IntentBeforeSetter
<1> QED
  BY <1>1, Safety, PTL

\* An outcome the journal records as verified is what the setter call made for
\* exactly this preparation read back.
THEOREM VerifiedTruth == Spec => []VerifiedOutcomeIsTrue
<1>1. SafetyInvariant => VerifiedOutcomeIsTrue
  BY DEF SafetyInvariant
<1> QED
  BY <1>1, Safety, PTL

\* What a client was told about an effect stays in the file.
THEOREM ReportedIsDurable == Spec => []ReportedSurvives
<1>1. SafetyInvariant => ReportedSurvives
  BY DEF SafetyInvariant
<1> QED
  BY <1>1, Safety, PTL

\* The file's records move along validate_transition only.
THEOREM OnlyAdvances == Spec => JournalOnlyAdvances
<1> DEFINE Advance ==
      \A k \in Keys : disk[k] # NoRecord /\ disk'[k] # disk[k] =>
          /\ disk'[k] # NoRecord
          /\ SameIdentity(disk[k], disk'[k])
          /\ <<disk[k].state, disk'[k].state>> \in AllowedTransitions
<1>1. SafetyInvariant /\ [Next]_vars => [Advance]_vars
  <2> SUFFICES ASSUME SafetyInvariant, [Next]_vars, NEW k \in Keys,
                      disk[k] # NoRecord, disk'[k] # disk[k]
               PROVE  /\ disk'[k] # NoRecord
                      /\ SameIdentity(disk[k], disk'[k])
                      /\ <<disk[k].state, disk'[k].state>> \in AllowedTransitions
    OBVIOUS
  <2>1. Onward(k)
    BY StoreSteps, DiskAdvances
  <2>2. disk[k] \in DurablePauseRecord
    BY DEF SafetyInvariant, TypeOK, StoreTypeOK
  <2> QED
    BY <2>1, <2>2, AdvanceKeeps DEF Onward
<1> HIDE DEF Advance
<1>2. Spec => [][Advance]_vars
  BY <1>1, Safety, PTL DEF Spec
<1> QED
  BY <1>2 DEF JournalOnlyAdvances, Advance
=============================================================================
