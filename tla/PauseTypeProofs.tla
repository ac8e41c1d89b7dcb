-------------------------- MODULE PauseTypeProofs ---------------------------
(***************************************************************************)
(* Proofs about PauseControl, first part: what each step does to the       *)
(* journal (StoreStep), and that every variable keeps its type.            *)
(***************************************************************************)
EXTENDS PauseControl, TLAPS

-----------------------------------------------------------------------------
(* Shapes of steps *)

\* What VerifiedOutcomeIsTrue says of one record
Proven(k, r) ==
    r.state \in {"VerifiedApplied", "VerifiedNotApplied"} =>
        /\ readback[k] # NoRecord
        /\ readback[k].token = TokenOf(k, r)
        /\ r.evidence.paused = readback[k].paused
        /\ r.state = "VerifiedApplied" <=> readback[k].paused = r.desired

Write(k, next) == AppendSynced(k, next) \/ AppendUncertain(k, next)

StoreStep ==
    \/ UNCHANGED storeVars
    \/ \E truncate \in BOOLEAN : OpenLive(truncate)
    \/ OpenRecovery
    \/ Release
    \/ \E k \in Keys, next \in DurablePauseRecord :
          Write(k, next) /\ Proven(k, next) /\ UNCHANGED nativeVars

\* The records that the operations of the journal build are records in the
\* state the operation is named for.
LEMMA BuiltRecords ==
    ASSUME NEW r \in DurablePauseRecord
    PROVE  /\ commit_started(r) \in DurablePauseRecord
           /\ commit_started(r).state = "CommitStarted"
           /\ indeterminate(r) \in DurablePauseRecord
           /\ indeterminate(r).state = "Indeterminate"
           /\ cancelled(r) \in DurablePauseRecord
           /\ cancelled(r).state = "CancelledBeforeDispatch"
BY DEF DurablePauseRecord, DurablePauseState, commit_started, indeterminate,
       cancelled

\* record_reconciliation builds a record.
LEMMA ReconciledRecord ==
    ASSUME NEW r \in DurablePauseRecord, NEW ev \in Evidence, NEW a \in BOOLEAN
    PROVE  reconciled(r, a, ev) \in DurablePauseRecord
BY Zenon DEF DurablePauseRecord, DurablePauseState, reconciled

\* An append keeps the journal's variables in their types.
LEMMA WriteType ==
    ASSUME StoreTypeOK, NEW k \in Keys, NEW next \in DurablePauseRecord,
           Write(k, next)
    PROVE  StoreTypeOK'
<1>1. CASE AppendSynced(k, next)
  BY <1>1 DEF StoreTypeOK, AppendSynced
<1>2. CASE AppendUncertain(k, next)
  BY <1>2 DEF StoreTypeOK, AppendUncertain
<1> QED
  BY <1>1, <1>2 DEF Write

\* Every shape of a journal step keeps the journal's variables in their types.
LEMMA StoreStepType ==
    ASSUME StoreTypeOK, StoreStep
    PROVE  StoreTypeOK'
<1>1. CASE UNCHANGED storeVars
  BY <1>1 DEF StoreTypeOK, storeVars
<1>2. CASE \E truncate \in BOOLEAN : OpenLive(truncate)
  BY Zenon, <1>2 DEF StoreTypeOK, OpenLive
<1>3. CASE OpenRecovery
  BY Zenon, <1>3 DEF StoreTypeOK, OpenRecovery
<1>4. CASE Release
  BY Zenon, <1>4 DEF StoreTypeOK, Release, Empty
<1>5. CASE \E k \in Keys, next \in DurablePauseRecord : Write(k, next)
  BY <1>5, WriteType
<1> QED
  BY <1>1, <1>2, <1>3, <1>4, <1>5 DEF StoreStep

\* While a call is in progress its session serves, and memory is the file.
LEMMA CallIsCurrent ==
    ASSUME SafetyInvariant, call.op # "idle"
    PROVE  writable /\ healthy /\ mem = disk /\ conn \in Conn
BY DEF SafetyInvariant, CallKnows, SessionIsCurrent, writable, healthy, TypeOK

\* verified_receipt accepts only replies that speak of the setter call made for
\* this very record, so what reconcile_reply records is proven.
LEMMA ReplyProves ==
    ASSUME SafetyInvariant, call.op \in {"commit", "query"}, out # NoReply,
           Unproven(mem[call.token.key], out)
           \/ verified_receipt(call.token.key, mem[call.token.key], out)
    PROVE  LET k == call.token.key
               next == reconcile_reply(k, mem[k], out)
           IN  /\ k \in Keys
               /\ next \in DurablePauseRecord
               /\ Proven(k, next)
<1> DEFINE k == call.token.key
           r == mem[k]
           next == reconcile_reply(k, r, out)
           ev == [paused |-> out.paused, tick |-> out.tick, receipt |-> TRUE]
<1> SUFFICES k \in Keys /\ next \in DurablePauseRecord /\ Proven(k, next)
  OBVIOUS
<1>1. mem = disk
  BY CallIsCurrent
<1>2. /\ call.token \in Token /\ k \in Keys
      /\ disk[k] # NoRecord /\ call.token = TokenOf(k, disk[k])
  <2>1. call.token \in Token
    BY DEF SafetyInvariant, CallKnows
  <2>2. k \in Keys
    BY <2>1 DEF Token
  <2> QED
    BY <2>1, <2>2 DEF SafetyInvariant, CallKnows
<1>3. r \in DurablePauseRecord /\ out \in Reply /\ ev \in Evidence
  BY <1>1, <1>2
     DEF SafetyInvariant, TypeOK, StoreTypeOK, BridgeTypeOK, Reply, Evidence
<1>4. CASE Unproven(r, out)
  <2>1. next = indeterminate(r)
    BY <1>4 DEF reconcile_reply
  <2>2. next \in DurablePauseRecord /\ next.state = "Indeterminate"
    BY <2>1, <1>3, BuiltRecords
  <2> HIDE DEF next
  <2> QED
    BY <2>2, <1>2 DEF Proven
<1>5. CASE ~Unproven(r, out) /\ verified_receipt(k, r, out)
  <2>1. next = reconciled(r, out.applied, ev)
    BY <1>5 DEF reconcile_reply
  <2>2. next \in DurablePauseRecord
    BY SMTT(30), <2>1, <1>3, ReconciledRecord DEF Reply
  <2>3. /\ out.receipt # NoReceipt
        /\ out.receipt.key = k
        /\ out.applied = (out.paused = r.desired)
    BY <1>5, <1>3 DEF verified_receipt, Unproven, TokenOf, receipt_digest
  <2>4. readback[k] # NoRecord /\ out.paused = readback[k].paused
    BY <2>3 DEF SafetyInvariant, ReplySound
  <2>5. readback[k].token = TokenOf(k, r)
    BY <2>4, <1>1, <1>2 DEF SafetyInvariant, SetterLeavesTrace
  <2>6. /\ next.evidence.paused = out.paused
        /\ next.state = IF out.applied THEN "VerifiedApplied"
                                       ELSE "VerifiedNotApplied"
        /\ next.desired = r.desired
        /\ TokenOf(k, next) = TokenOf(k, r)
    BY <2>1, <1>3 DEF reconciled, DurablePauseRecord, TokenOf
  <2>7. next.state = "VerifiedApplied" <=> readback[k].paused = next.desired
    BY Zenon, <2>3, <2>4, <2>6
  <2> HIDE DEF next, k
  <2> QED
    BY <1>2, <2>2, <2>4, <2>5, <2>6, <2>7 DEF Proven
<1> QED
  BY <1>4, <1>5 DEF verified_receipt

\* A journal operation that succeeds or fails is a step of the journal.
LEMMA RecordedStep ==
    ASSUME NEW k \in Keys, NEW next \in DurablePauseRecord, Proven(k, next),
           UNCHANGED nativeVars, Recorded(k, next) \/ NotRecorded(k, next)
    PROVE  StoreStep
BY DEF Recorded, NotRecorded, StoreStep, Write

\* The record a call in progress works on.
LEMMA CallRecord ==
    ASSUME SafetyInvariant, call.op \in {"started", "commit", "query"}
    PROVE  /\ call.token.key \in Keys
           /\ mem[call.token.key] \in DurablePauseRecord
<1>1. call.token \in Token
  BY DEF SafetyInvariant, CallKnows
<1>2. call.token.key \in Keys
  BY <1>1 DEF Token
<1>3. disk[call.token.key] # NoRecord
  BY <1>2 DEF SafetyInvariant, CallKnows
<1> QED
  BY <1>2, <1>3, CallIsCurrent DEF SafetyInvariant, TypeOK, StoreTypeOK

\* ambiguous is a step of the journal.
LEMMA AmbiguousStep ==
    ASSUME SafetyInvariant, call.op \in {"started", "commit"},
           UNCHANGED nativeVars, ambiguous(call.token.key)
    PROVE  StoreStep
<1> DEFINE k == call.token.key
           next == indeterminate(mem[k])
<1>1. k \in Keys /\ mem[k] \in DurablePauseRecord
  BY CallRecord
<1>2. next \in DurablePauseRecord /\ next.state = "Indeterminate"
  BY <1>1, BuiltRecords
<1>3. Recorded(k, next) \/ NotRecorded(k, next)
  BY DEF ambiguous
<1> HIDE DEF k, next
<1> QED
  BY <1>1, <1>2, <1>3, RecordedStep DEF Proven

\* Every step is, for the journal, one of the shapes of StoreStep.
LEMMA StoreSteps ==
    ASSUME SafetyInvariant, [Next]_vars
    PROVE  StoreStep
<1>1. CASE UNCHANGED storeVars
  BY <1>1 DEF StoreStep
<1>2. ASSUME NEW truncate \in BOOLEAN, fortress_open_session(truncate)
      PROVE  StoreStep
  BY <1>2 DEF fortress_open_session, StoreStep
<1>3. CASE open_recovery_only
  BY <1>3 DEF open_recovery_only, StoreStep
<1>4. CASE close_session \/ Crash
  BY <1>4 DEF close_session, Crash, StoreStep
<1>5. CASE plan_reply
  <2> DEFINE k == call.token.key
             next == prepared(call.token.plan, call.token.desired,
                              call.token.tick, out.gen)
  <2>1. call.token \in Token /\ out \in Reply
    BY <1>5 DEF SafetyInvariant, CallKnows, TypeOK, BridgeTypeOK, plan_reply
  <2>2. k \in Keys /\ next \in DurablePauseRecord /\ next.state = "Prepared"
    BY <2>1 DEF Token, Reply, prepared, DurablePauseRecord, DurablePauseState
  <2>3. \/ UNCHANGED storeVars
        \/ Recorded(k, next) \/ NotRecorded(k, next)
    BY <1>5, <2>1 DEF plan_reply, Token
  <2>4. UNCHANGED nativeVars
    BY <1>5 DEF plan_reply
  <2> HIDE DEF k, next
  <2> QED
    BY <1>1, <2>2, <2>3, <2>4, RecordedStep DEF Proven
<1>6. ASSUME NEW k \in Keys, begin_commit(k)
      PROVE  StoreStep
  <2> DEFINE next == commit_started(mem[k])
  <2>1. mem[k] \in DurablePauseRecord
    BY <1>6 DEF begin_commit, SafetyInvariant, TypeOK, StoreTypeOK
  <2>2. next \in DurablePauseRecord /\ next.state = "CommitStarted"
    BY <2>1, BuiltRecords
  <2>3. Write(k, next) /\ UNCHANGED nativeVars
    BY <1>6 DEF begin_commit, Write, bridgeVars
  <2> HIDE DEF next
  <2> QED
    BY <2>2, <2>3 DEF StoreStep, Proven
<1>7. ASSUME NEW k \in Keys, cancel_prepared(k)
      PROVE  StoreStep
  <2> DEFINE next == cancelled(mem[k])
  <2>1. mem[k] \in DurablePauseRecord
    BY <1>7 DEF cancel_prepared, SafetyInvariant, TypeOK, StoreTypeOK
  <2>2. next \in DurablePauseRecord /\ next.state = "CancelledBeforeDispatch"
    BY <2>1, BuiltRecords
  <2>3. Write(k, next) /\ UNCHANGED nativeVars
    BY <1>7 DEF cancel_prepared, Write, bridgeVars
  <2> HIDE DEF next
  <2> QED
    BY <2>2, <2>3 DEF StoreStep, Proven
<1>8. CASE commit_expires
  BY <1>8, AmbiguousStep DEF commit_expires, bridgeVars
<1>9. CASE commit_fails
  BY <1>9, AmbiguousStep DEF commit_fails
<1>10. CASE commit_reply \/ query_reply
  <2> DEFINE k == call.token.key
             next == reconcile_reply(k, mem[k], out)
  <2>1. /\ call.op \in {"commit", "query"}
        /\ out # NoReply
        /\ Unproven(mem[k], out) \/ verified_receipt(k, mem[k], out)
    BY <1>10 DEF commit_reply, query_reply
  <2>2. k \in Keys /\ next \in DurablePauseRecord /\ Proven(k, next)
    BY <2>1, ReplyProves
  <2>3. Recorded(k, next) \/ NotRecorded(k, next)
    BY <1>10 DEF commit_reply, query_reply
  <2>4. UNCHANGED nativeVars
    BY <1>10 DEF commit_reply, query_reply
  <2> HIDE DEF k, next
  <2> QED
    BY <2>2, <2>3, <2>4, RecordedStep
<1>11. CASE \/ plan_fails \/ commit_prepared \/ query_fails \/ batch_ends
            \/ \E e \in Effect : fortress_plan(e)
            \/ \E k \in Keys : \/ Report(k) \/ explain_prepared(k)
                               \/ query_effect(k)
            \/ \E selected \in SUBSET Keys, explain \in BOOLEAN :
                  fortress_wait(selected, explain)
  BY Zenon, <1>1, <1>11
     DEF plan_fails, commit_prepared, query_fails, batch_ends,
     fortress_plan, Report, explain_prepared, query_effect, fortress_wait
<1>12. CASE Environment
  BY Zenon, <1>1, <1>12 DEF Environment, ServeCall, ServeLate, BridgeRestart
<1>13. CASE UNCHANGED vars
  BY <1>1, <1>13 DEF vars
<1> QED
  BY <1>2, <1>3, <1>4, <1>5, <1>6, <1>7, <1>8, <1>9, <1>10, <1>11, <1>12,
     <1>13 DEF Next, Coordinator

-----------------------------------------------------------------------------
(* The plugin's types *)

\* The replies that the handlers build are replies.
LEMMA BuiltReplies ==
    ASSUME BridgeTypeOK
    PROVE  /\ Blank \in Reply
           /\ Refusal \in Reply
           /\ \A t \in Token : [Blank EXCEPT !.token = t] \in Reply
           /\ \A r \in NativeRecord :
                 /\ fill_record(r) \in Reply
                 /\ [fill_record(r) EXCEPT !.token = r.token] \in Reply
<1>1. 0 \in Ticks
  BY ControlAssumption DEF Ticks
<1>2. Blank \in Reply
  BY <1>1 DEF BridgeTypeOK, Blank, Reply
<1>3. Refusal \in Reply
  BY Zenon, <1>2 DEF Refusal, Reply
<1>4. ASSUME NEW t \in Token
      PROVE  [Blank EXCEPT !.token = t] \in Reply
  BY <1>2 DEF Reply
<1>5. ASSUME NEW r \in NativeRecord
      PROVE  fill_record(r) \in Reply
  BY Zenon, <1>2 DEF fill_record, Reply, NativeRecord
<1>6. ASSUME NEW r \in NativeRecord
      PROVE  [fill_record(r) EXCEPT !.token = r.token] \in Reply
  BY <1>5 DEF Reply, NativeRecord
<1> QED
  BY <1>2, <1>3, <1>4, <1>5, <1>6

\* A reply that is a reply keeps out in its type.
LEMMA RespondType ==
    ASSUME BridgeTypeOK, NEW r \in Reply, NEW ab \in BOOLEAN, Respond(ab, r)
    PROVE  out' \in Reply \cup {NoReply}
BY DEF BridgeTypeOK, Respond

\* PreparePause keeps the plugin's variables in their types.
LEMMA PrepareType ==
    ASSUME BridgeTypeOK, NEW e \in Effect, NEW ab \in BOOLEAN,
           PreparePause(e, ab)
    PROVE  BridgeTypeOK'
<1> DEFINE r == records[e.key]
<1>1. e.key \in Keys /\ r \in NativeRecord \cup {NoRecord}
  BY DEF Effect, BridgeTypeOK
<1>2. CASE /\ r # NoRecord
           /\ Respond(ab, [fill_record(r) EXCEPT !.token = r.token])
           /\ UNCHANGED nativeVars
  <2>1. out' \in Reply \cup {NoReply}
    BY <1>1, <1>2, BuiltReplies, RespondType
  <2> QED
    BY <1>2, <2>1 DEF BridgeTypeOK, nativeVars, gameVars
<1>3. CASE /\ records' = [records EXCEPT ![e.key] = prepare(e)]
           /\ raced' = raced \ {e.key}
           /\ Respond(ab, [Blank EXCEPT !.token = hash_token(e)])
           /\ UNCHANGED <<generation, sequence, gameVars, setters, readback>>
  <2>1. hash_token(e) \in Token
    BY DEF hash_token, Token, Effect, BridgeTypeOK
  <2>2. prepare(e) \in NativeRecord
    BY <2>1, BridgeAssumption
       DEF prepare, NativeRecord, BridgeTypeOK, GuardStates
  <2>3. out' \in Reply \cup {NoReply}
    BY <2>1, <1>3, BuiltReplies, RespondType
  <2> QED
    BY Zenon, <1>3, <2>2, <2>3 DEF BridgeTypeOK, gameVars
<1>4. CASE Refuse(ab)
  <2>1. out' \in Reply \cup {NoReply}
    BY <1>4, BuiltReplies, RespondType DEF Refuse
  <2> QED
    BY <1>4, <2>1 DEF Refuse, BridgeTypeOK, nativeVars, gameVars
<1> QED
  BY <1>2, <1>3, <1>4 DEF PreparePause

\* The setter and its readback keep the plugin's variables in their types.
LEMMA AttemptType ==
    ASSUME BridgeTypeOK, NEW t \in Token, NEW ab \in BOOLEAN,
           records[t.key] # NoRecord, available, Attempt(t, ab)
    PROVE  BridgeTypeOK'
<1> DEFINE r == records[t.key]
<1>1. t.key \in Keys /\ r \in NativeRecord
  BY DEF Token, BridgeTypeOK
<1>2. PICK flag \in {paused, t.desired}, read \in BOOLEAN :
        SetPauseState(t, flag, read, ab)
  BY DEF Attempt
<1> DEFINE after == attempted(r, t, flag, read)
<1>3. flag \in BOOLEAN
  BY DEF Token, BridgeTypeOK
<1>4. receipt(t, tick) \in Token
  BY DEF receipt, Token, BridgeTypeOK
<1>5. after \in NativeRecord
  BY Zenon, <1>1, <1>3, <1>4
     DEF attempted, NativeRecord, GuardStates, BridgeTypeOK
<1> HIDE DEF after
<1>6. /\ records' = [records EXCEPT ![t.key] = after]
      /\ Respond(ab, fill_record(after))
  BY <1>2 DEF SetPauseState, after
<1>7. out' \in Reply \cup {NoReply}
  BY Zenon, <1>5, <1>6, BuiltReplies, RespondType
<1>8. sequence' \in 0 .. MaxSequence
  BY <1>2, BridgeAssumption DEF SetPauseState, available, BridgeTypeOK
<1>9. setters' \in [Keys -> Nat]
  BY <1>1, <1>2 DEF SetPauseState, BridgeTypeOK
<1>10. readback' \in [Keys -> Readback \cup {NoRecord}]
  BY <1>1, <1>2, <1>3 DEF SetPauseState, BridgeTypeOK, Readback
<1>11. records' \in [Keys -> NativeRecord \cup {NoRecord}]
  BY <1>1, <1>5, <1>6 DEF BridgeTypeOK
<1>12. raced' \in SUBSET Keys
  BY SMTT(30), <1>2 DEF SetPauseState, BridgeTypeOK
<1> QED
  BY <1>2, <1>3, <1>7, <1>8, <1>9, <1>10, <1>11, <1>12
     DEF SetPauseState, BridgeTypeOK

\* CommitPause keeps the plugin's variables in their types.
LEMMA CommitType ==
    ASSUME BridgeTypeOK, NEW t \in Token, NEW ab \in BOOLEAN,
           CommitPause(t, ab)
    PROVE  BridgeTypeOK'
<1> DEFINE r == records[t.key]
<1>1. t.key \in Keys /\ r \in NativeRecord \cup {NoRecord}
  BY DEF Token, BridgeTypeOK
<1>2. CASE Refuse(ab)
  <2>1. out' \in Reply \cup {NoReply}
    BY <1>2, BuiltReplies, RespondType DEF Refuse
  <2> QED
    BY <1>2, <2>1 DEF Refuse, BridgeTypeOK, nativeVars, gameVars
<1>3. CASE r # NoRecord /\ Respond(ab, fill_record(r)) /\ UNCHANGED nativeVars
  <2>1. out' \in Reply \cup {NoReply}
    BY Zenon, <1>1, <1>3, BuiltReplies, RespondType
  <2> QED
    BY <1>3, <2>1 DEF BridgeTypeOK, nativeVars, gameVars
<1>4. CASE r # NoRecord /\ claimable(r) /\ Attempt(t, ab)
  BY <1>4, AttemptType DEF claimable
<1>5. CASE /\ r # NoRecord
           /\ records' = [records EXCEPT ![t.key] = retire(r)]
           /\ Respond(ab, Refusal)
           /\ UNCHANGED <<generation, sequence, gameVars, setters,
                          readback, raced>>
  <2>1. retire(r) \in NativeRecord
    BY <1>1, <1>5 DEF retire, NativeRecord, GuardStates
  <2>2. out' \in Reply \cup {NoReply}
    BY <1>5, BuiltReplies, RespondType
  <2> QED
    BY <1>1, <1>5, <2>1, <2>2 DEF BridgeTypeOK, gameVars
<1> QED
  BY <1>2, <1>3, <1>4, <1>5 DEF CommitPause

\* QueryPause keeps the plugin's variables in their types.
LEMMA QueryType ==
    ASSUME BridgeTypeOK, NEW k \in Keys, NEW p, NEW ab \in BOOLEAN,
           QueryPause(k, p, ab)
    PROVE  BridgeTypeOK'
<1> DEFINE r == records[k]
<1>1. r \in NativeRecord \cup {NoRecord}
  BY DEF BridgeTypeOK
<1>2. CASE Respond(ab, Refusal) \/ Respond(ab, Blank)
  <2>1. out' \in Reply \cup {NoReply}
    BY <1>2, BuiltReplies, RespondType
  <2> QED
    BY <2>1 DEF QueryPause, BridgeTypeOK, nativeVars, gameVars
<1>3. CASE /\ r # NoRecord
           /\ Respond(ab, [fill_record(r) EXCEPT !.token = r.token])
  <2>1. out' \in Reply \cup {NoReply}
    BY <1>1, <1>3, BuiltReplies, RespondType
  <2> QED
    BY <2>1 DEF QueryPause, BridgeTypeOK, nativeVars, gameVars
<1> QED
  BY <1>2, <1>3 DEF QueryPause

\* Whatever request the plugin serves, its variables keep their types.
LEMMA ServeType ==
    ASSUME BridgeTypeOK, NEW m \in Msg, NEW ab \in BOOLEAN, Serve(m, ab)
    PROVE  BridgeTypeOK'
<1>1. m.token \in Token /\ m.token.key \in Keys /\ EffectOf(m.token) \in Effect
  BY DEF Msg, Token, EffectOf, Effect
<1> QED
  BY <1>1, PrepareType, CommitType, QueryType DEF Serve

\* Every step keeps the plugin's variables in their types.
LEMMA BridgeTypes ==
    ASSUME SafetyInvariant, [Next]_vars
    PROVE  BridgeTypeOK'
<1> USE DEF SafetyInvariant, TypeOK
<1>1. CASE UNCHANGED bridgeVars
  BY <1>1 DEF BridgeTypeOK, bridgeVars, nativeVars, gameVars
<1>2. CASE UNCHANGED nativeVars /\ out' = NoReply
  BY <1>2 DEF BridgeTypeOK, nativeVars, gameVars
<1>3. CASE \/ \E truncate \in BOOLEAN : fortress_open_session(truncate)
           \/ open_recovery_only \/ close_session
           \/ \E e \in Effect : fortress_plan(e)
           \/ \E k \in Keys : \/ Report(k) \/ explain_prepared(k)
                              \/ begin_commit(k) \/ cancel_prepared(k)
                              \/ query_effect(k)
           \/ commit_prepared \/ commit_expires \/ batch_ends
           \/ \E selected \in SUBSET Keys, explain \in BOOLEAN :
                 fortress_wait(selected, explain)
  BY Zenon, <1>1, <1>3
     DEF fortress_open_session, open_recovery_only, close_session,
     fortress_plan, Report, explain_prepared, begin_commit, cancel_prepared,
     query_effect, commit_prepared, commit_expires, batch_ends, fortress_wait
<1>4. CASE \/ Crash \/ plan_reply \/ plan_fails \/ commit_reply
           \/ commit_fails \/ query_reply \/ query_fails
  BY <1>2, <1>4 DEF Crash, plan_reply, plan_fails, commit_reply, commit_fails,
     query_reply, query_fails, Abandon
<1>5. CASE ServeCall \/ ServeLate
  BY Zenon, <1>5, ServeType DEF ServeCall, ServeLate
<1>6. CASE BridgeRestart
  <2>1. plugin_init
    BY <1>6 DEF BridgeRestart
  <2>2. generation' \in Generations
    BY <2>1, ControlAssumption DEF plugin_init, BridgeTypeOK, Generations
  <2>3. sequence' \in 0 .. MaxSequence
    BY <2>1, BridgeAssumption DEF plugin_init
  <2> QED
    BY Zenon, <2>1, <2>2, <2>3 DEF plugin_init, BridgeTypeOK
<1>7. CASE plugin_onstatechange
  BY <1>7, ControlAssumption DEF plugin_onstatechange, BridgeTypeOK,
     Generations
<1>8. CASE GameStep
  <2>1. tick' \in Ticks
    BY <1>8, ControlAssumption DEF GameStep, BridgeTypeOK, Ticks
  <2>2. wall' \in 0 .. MaxWall
    BY <1>8, BridgeAssumption DEF GameStep, BridgeTypeOK
  <2>3. paused' \in BOOLEAN
    BY Zenon, <1>8 DEF GameStep, BridgeTypeOK
  <2> QED
    BY <1>8, <2>1, <2>2, <2>3 DEF GameStep, BridgeTypeOK
<1>9. CASE UNCHANGED vars
  BY <1>1, <1>9 DEF vars
<1> QED
  BY <1>3, <1>4, <1>5, <1>6, <1>7, <1>8, <1>9
     DEF Next, Coordinator, Environment

-----------------------------------------------------------------------------
(* The coordinator's types *)

CoordTypeOK ==
    /\ conn \in Conn \cup {NoConn}
    /\ call \in Call
    /\ wire \in Msg \cup {NoMsg}
    /\ late \in SUBSET Msg
    /\ told \in [Keys -> DurablePauseState \cup {"unknown"}]

\* Arming replaces a poisoned client by a new one, both clients.
LEMMA ArmedType ==
    ASSUME SafetyInvariant, conn \in Conn
    PROVE  Armed \in Conn /\ Poisoned \in Conn
           /\ \A g \in Generations : [conn EXCEPT !.gen = g] \in Conn
BY Zenon
   DEF SafetyInvariant, TypeOK, BridgeTypeOK, Armed, Connected, Poisoned, Conn

\* A live session has a client.
LEMMA LiveHasClient ==
    ASSUME SafetyInvariant, writable
    PROVE  conn \in Conn /\ mem = disk
BY DEF SafetyInvariant, SessionIsCurrent, TypeOK, writable, healthy

\* The states of the records a session holds are states.
LEMMA MemState ==
    ASSUME SafetyInvariant, NEW k \in Keys, mem[k] # NoRecord
    PROVE  mem[k] \in DurablePauseRecord /\ mem[k].state \in DurablePauseState
           /\ TokenOf(k, mem[k]) \in Token
BY DEF SafetyInvariant, TypeOK, StoreTypeOK, DurablePauseRecord, TokenOf, Token

\* Every step keeps the coordinator's variables in their types.
LEMMA CoordTypes ==
    ASSUME SafetyInvariant, [Next]_vars
    PROVE  CoordTypeOK'
<1>1. CoordTypeOK
  BY DEF SafetyInvariant, TypeOK, CoordTypeOK
<1>2. Idle \in Call
  BY DEF Idle, Call
<1>3. CASE UNCHANGED coordVars
  BY <1>1, <1>3 DEF CoordTypeOK, coordVars
<1>4. ASSUME NEW truncate \in BOOLEAN, fortress_open_session(truncate)
      PROVE  CoordTypeOK'
  BY <1>1, <1>4 DEF fortress_open_session, Connected, Conn, CoordTypeOK,
     SafetyInvariant, TypeOK, BridgeTypeOK
<1>5. CASE open_recovery_only
  BY <1>3, <1>5 DEF open_recovery_only
<1>6. CASE close_session
  BY <1>1, <1>6 DEF close_session, CoordTypeOK
<1>7. CASE Crash
  BY <1>1, <1>2, <1>7 DEF Crash, Abandon, CoordTypeOK
<1>8. ASSUME NEW e \in Effect, fortress_plan(e)
      PROVE  CoordTypeOK'
  <2>1. Armed \in Conn
    BY <1>8, LiveHasClient, ArmedType DEF fortress_plan
  <2> DEFINE t == [key |-> e.key, plan |-> e.plan, desired |-> e.desired,
                   tick |-> e.tick, gen |-> Armed.gen]
  <2>2. t \in Token
    BY <2>1 DEF Conn, Effect, Token
  <2> HIDE DEF t
  <2>3. /\ conn' = Armed
        /\ Send("prepare", t, Armed)
        /\ call' = [Idle EXCEPT !.op = "plan", !.token = t]
        /\ UNCHANGED <<late, told>>
    BY <1>8 DEF fortress_plan, t
  <2>4. call' \in Call
    BY Zenon, <2>2, <2>3, <1>2 DEF Call
  <2>5. wire' \in Msg \cup {NoMsg}
    BY <2>2, <2>3 DEF Send, Msg, Ops
  <2> QED
    BY <1>1, <2>1, <2>3, <2>4, <2>5 DEF CoordTypeOK
<1>9. CASE plan_reply
  <2>1. conn \in Conn /\ out \in Reply
    BY <1>9, CallIsCurrent
       DEF plan_reply, SafetyInvariant, TypeOK, BridgeTypeOK
  <2>2. conn' \in Conn
    BY <1>9, <2>1, ArmedType DEF plan_reply, Reply
  <2>3. told' = told
        \/ told' = [told EXCEPT ![call.token.key] = "Prepared"]
    BY <1>9 DEF plan_reply, Tell
  <2>4. told' \in [Keys -> DurablePauseState \cup {"unknown"}]
    BY <1>1, <2>3 DEF CoordTypeOK, DurablePauseState
  <2> QED
    BY <1>1, <1>2, <1>9, <2>2, <2>4 DEF plan_reply, CoordTypeOK
<1>10. CASE plan_fails
  <2>1. conn' \in Conn
    BY <1>10, CallIsCurrent, ArmedType DEF plan_fails
  <2> QED
    BY <1>1, <1>2, <1>10, <2>1 DEF plan_fails, Abandon, CoordTypeOK
<1>11. ASSUME NEW k \in Keys, Report(k)
       PROVE  CoordTypeOK'
  <2>1. mem[k].state \in DurablePauseState
    BY <1>11, MemState DEF Report
  <2> QED
    BY <1>1, <1>11, <2>1 DEF Report, Tell, CoordTypeOK
<1>12. ASSUME NEW k \in Keys, explain_prepared(k)
       PROVE  CoordTypeOK'
  <2>1. Armed \in Conn
    BY <1>12, LiveHasClient, ArmedType DEF explain_prepared
  <2> QED
    BY <1>1, <1>12, <2>1
       DEF explain_prepared, Tell, CoordTypeOK, DurablePauseState
<1>13. ASSUME NEW k \in Keys, begin_commit(k)
       PROVE  CoordTypeOK'
  <2>1. TokenOf(k, mem[k]) \in Token
    BY <1>13, MemState DEF begin_commit
  <2>2. call' \in Call
    BY Zenon, <1>1, <1>2, <1>13, <2>1 DEF begin_commit, Call, CoordTypeOK
  <2> QED
    BY <1>1, <1>13, <2>2 DEF begin_commit, CoordTypeOK
<1>14. ASSUME NEW k \in Keys, cancel_prepared(k)
       PROVE  CoordTypeOK'
  BY <1>1, <1>14 DEF cancel_prepared, Tell, CoordTypeOK, DurablePauseState
<1>15. CASE commit_prepared
  <2>1. call.token \in Token
    BY <1>15 DEF commit_prepared, SafetyInvariant, CallKnows
  <2>2. wire' \in Msg \cup {NoMsg}
    BY <1>15, <2>1 DEF commit_prepared, Send, Msg, Ops
  <2>3. call' \in Call
    BY <1>1, <1>15 DEF commit_prepared, Call, CoordTypeOK
  <2> QED
    BY <1>1, <1>15, <2>2, <2>3 DEF commit_prepared, CoordTypeOK
<1>16. CASE commit_expires
  BY <1>1, <1>2, <1>16 DEF commit_expires, CoordTypeOK
<1>17. CASE commit_reply \/ query_reply
  <2> DEFINE k == call.token.key
             next == reconcile_reply(k, mem[k], out)
  <2>1. /\ call.op \in {"commit", "query"}
        /\ out # NoReply
        /\ Unproven(mem[k], out) \/ verified_receipt(k, mem[k], out)
    BY <1>17 DEF commit_reply, query_reply
  <2>2. next \in DurablePauseRecord
    BY <2>1, ReplyProves
  <2>3. told' = told \/ told' = [told EXCEPT ![k] = next.state]
    BY <1>17 DEF commit_reply, query_reply, Tell
  <2>4. told' \in [Keys -> DurablePauseState \cup {"unknown"}]
    <3> HIDE DEF k, next
    <3> QED
      BY SMTT(30), <1>1, <2>2, <2>3 DEF CoordTypeOK, DurablePauseRecord
  <2>5. conn \in Conn /\ out \in Reply
    BY <2>1, CallIsCurrent DEF SafetyInvariant, TypeOK, BridgeTypeOK
  <2>6. [conn EXCEPT !.gen = out.gen] \in Conn
    BY <2>5, ArmedType DEF Reply
  <2>7. conn' \in Conn
    BY Zenon, <1>17, <2>6 DEF commit_reply, query_reply, Conn
  <2>8. call' \in Call
    BY Zenon, <1>1, <1>2, <1>17
       DEF commit_reply, query_reply, Call, CoordTypeOK
  <2> QED
    BY SMTT(30), <1>1, <1>17, <2>4, <2>7, <2>8
       DEF commit_reply, query_reply, CoordTypeOK
<1>18. CASE commit_fails
  <2>1. conn' \in Conn
    BY <1>18, CallIsCurrent, ArmedType DEF commit_fails
  <2> QED
    BY <1>1, <1>2, <1>18, <2>1 DEF commit_fails, Abandon, CoordTypeOK
<1>19. ASSUME NEW selected \in SUBSET Keys, NEW explain \in BOOLEAN,
              fortress_wait(selected, explain)
       PROVE  CoordTypeOK'
  <2>1. call' \in Call
    BY Zenon, <1>2, <1>19 DEF fortress_wait, Call
  <2> QED
    BY <1>1, <1>19, <2>1 DEF fortress_wait, CoordTypeOK
<1>20. ASSUME NEW k \in Keys, query_effect(k)
       PROVE  CoordTypeOK'
  <2> DEFINE t == TokenOf(k, mem[k])
  <2>1. conn \in Conn /\ mem[k] # NoRecord
    BY <1>20, CallIsCurrent DEF query_effect, SafetyInvariant, CallKnows
  <2>2. Armed \in Conn /\ t \in Token
    BY <2>1, ArmedType, MemState
  <2> HIDE DEF t
  <2>3. /\ conn' = Armed
        /\ Send("query", t, Armed)
        /\ call' = [call EXCEPT !.op = "query", !.token = t, !.todo = @ \ {k}]
        /\ UNCHANGED <<late, told>>
    BY <1>20 DEF query_effect, t
  <2>4. call' \in Call
    BY Zenon, <1>1, <2>2, <2>3 DEF Call, CoordTypeOK
  <2>5. wire' \in Msg \cup {NoMsg}
    BY <2>2, <2>3 DEF Send, Msg, Ops
  <2> QED
    BY <1>1, <2>2, <2>3, <2>4, <2>5 DEF CoordTypeOK
<1>21. CASE query_fails
  <2>1. conn' \in Conn
    BY <1>21, CallIsCurrent, ArmedType DEF query_fails
  <2>2. call.token.key \in Keys
    BY <1>21, CallRecord DEF query_fails
  <2>3. call' \in Call
    BY Zenon, <1>2, <1>21, <2>2 DEF query_fails, Call
  <2> QED
    BY <1>1, <1>21, <2>1, <2>3 DEF query_fails, Abandon, CoordTypeOK
<1>22. CASE batch_ends
  BY <1>1, <1>2, <1>22 DEF batch_ends, CoordTypeOK
<1>23. CASE ServeCall \/ ServeLate
  BY Zenon, <1>1, <1>23 DEF ServeCall, ServeLate, CoordTypeOK
<1>24. CASE BridgeRestart
  BY Zenon, <1>1, <1>24 DEF BridgeRestart, CoordTypeOK, Conn
<1>25. CASE UNCHANGED vars
  BY <1>3, <1>25 DEF vars
<1> QED
  BY SMTT(30), <1>3, <1>4, <1>5, <1>6, <1>7, <1>8, <1>9, <1>10, <1>11, <1>12, <1>13,
     <1>14, <1>15, <1>16, <1>17, <1>18, <1>19, <1>20, <1>21, <1>22, <1>23,
     <1>24, <1>25 DEF Next, Coordinator, Environment
==============================================================================
