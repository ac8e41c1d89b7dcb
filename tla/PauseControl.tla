---------------------------- MODULE PauseControl ----------------------------
(***************************************************************************)
(* The control/1.7 coordinator (crates/dfmcp-mcp/src/live_control_server.rs *)
(* with pause_commit.rs, pause_reconciliation.rs and live_control_rpc.rs)   *)
(* between its durable journal (EffectStore) and the native plugin          *)
(* (ControlBridge).                                                         *)
(*                                                                          *)
(* A session serves one tool call at a time.  A call that talks to the      *)
(* plugin sends one request and waits; it may time out, the process may     *)
(* die, and the request it leaves behind may still be served much later.    *)
(* told is the last state of each effect a client was given in a successful *)
(* response.                                                                *)
(***************************************************************************)
EXTENDS EffectStore, ControlBridge

CONSTANTS
    MaxLate,  \* abandoned requests the wire may still hold
    NoMsg,    \* no request on the wire
    NoConn    \* no connection

VARIABLES
    conn,  \* the session's ControlRpcClient, or NoConn
    call,  \* the tool call in progress
    wire,  \* the request of that call, until the plugin serves it
    late,  \* requests whose callers gave up
    told   \* Keys -> the last state reported, or "unknown"

coordVars == <<conn, call, wire, late, told>>
vars == <<storeVars, bridgeVars, coordVars>>

Ops == {"prepare", "commit", "query"}
Msg == [op : Ops, token : Token]
Conn == [gen : Generations, poisoned : BOOLEAN, alive : BOOLEAN]
Call ==
    [op : {"idle", "plan", "started", "commit", "batch", "query"},
     token : Token \cup {NoMsg}, todo : SUBSET Keys, retry : BOOLEAN]

TypeOK ==
    /\ StoreTypeOK
    /\ BridgeTypeOK
    /\ conn \in Conn \cup {NoConn}
    /\ call \in Call
    /\ wire \in Msg \cup {NoMsg}
    /\ late \in SUBSET Msg
    /\ told \in [Keys -> DurablePauseState \cup {"unknown"}]

Idle == [op |-> "idle", token |-> NoMsg, todo |-> {}, retry |-> FALSE]

Init ==
    /\ StoreInit
    /\ BridgeInit
    /\ conn = NoConn
    /\ call = Idle
    /\ wire = NoMsg
    /\ late = {}
    /\ told = [k \in Keys |-> "unknown"]

-----------------------------------------------------------------------------
(* The connection *)

\* ControlRpcClient::connect: the handshake caches the plugin's generation
Connected == [gen |-> generation, poisoned |-> FALSE, alive |-> TRUE]

\* ControlConnection::arm: only a poisoned client is replaced
Armed == IF conn.poisoned THEN Connected ELSE conn
CanArm == conn.poisoned => auth

\* ControlRpcClient::invoke: a request written to a dead peer goes nowhere
Send(op, token, c) ==
    wire' = IF c.alive THEN [op |-> op, token |-> token] ELSE NoMsg

Poisoned == [conn EXCEPT !.poisoned = TRUE]

\* The caller stops waiting: its reply is dropped, its request may survive
Abandon ==
    /\ wire' = NoMsg
    /\ out' = NoReply
    /\ \/ late' = late
       \/ /\ wire # NoMsg
          /\ wire \notin late
          /\ Cardinality(late) < MaxLate
          /\ late' = late \cup {wire}

\* The identity a durable record commits to
TokenOf(k, r) ==
    [key |-> k, plan |-> r.plan, desired |-> r.desired, tick |-> r.tick,
     gen |-> r.gen]

-----------------------------------------------------------------------------
(* Evidence *)

\* receipt_digest: what a receipt for this preparation and clock reading must be
receipt_digest(t, now) ==
    [key |-> t.key, plan |-> t.plan, desired |-> t.desired, tick |-> now,
     gen |-> t.gen]

\* Mutant of Unproven: a reply with a prepare token counts as only prepared
Unproven_if_token(r, o) ==
    o.gen # r.gen \/ ~o.known \/ o.receipt = NoReceipt \/ o.token # NoReceipt

\* verified_receipt answering None: lost generation, unknown or no receipt
Unproven(r, o) == o.gen # r.gen \/ ~o.known \/ o.receipt = NoReceipt

\* verified_receipt answering Some
verified_receipt(k, r, o) ==
    /\ ~Unproven(r, o)
    /\ o.token \in {NoReceipt, TokenOf(k, r)}
    /\ o.tick >= r.tick
    /\ o.applied = (o.paused = r.desired)
    /\ o.receipt = receipt_digest(TokenOf(k, r), o.tick)

\* Mutant of reconcile_reply: no proof of the effect is proof of no effect
reconcile_reply_assumes_failure(k, r, o) ==
    reconciled(r, ~Unproven(r, o) /\ o.applied,
               [paused |-> o.paused, tick |-> o.tick, receipt |-> TRUE])

\* reconcile_reply: what a valid reply turns the durable record into
reconcile_reply(k, r, o) ==
    IF Unproven(r, o) THEN indeterminate(r)
    ELSE reconciled(r, o.applied,
                    [paused |-> o.paused, tick |-> o.tick, receipt |-> TRUE])

\* Mutant of Recorded: a failed sync is reported as success
Recorded_ignores_sync(k, next) ==
    \/ AppendSynced(k, next)
    \/ AppendUncertain(k, next)
    \/ healthy /\ next = mem[k] /\ UNCHANGED storeVars

\* The journal operation succeeds: appended and synced, or already so
Recorded(k, next) ==
    \/ AppendSynced(k, next)
    \/ healthy /\ next = mem[k] /\ UNCHANGED storeVars

\* The journal operation fails: an uncertain write, or a limit
NotRecorded(k, next) ==
    \/ AppendUncertain(k, next)
    \/ next # mem[k] /\ ~appendable(k, next) /\ UNCHANGED storeVars

Tell(k, s) == told' = [told EXCEPT ![k] = s]

-----------------------------------------------------------------------------
(* Sessions *)

fortress_open_session(truncate) ==
    /\ auth
    /\ OpenLive(truncate)
    /\ conn' = Connected
    /\ UNCHANGED <<bridgeVars, call, wire, late, told>>

open_recovery_only ==
    /\ OpenRecovery
    /\ UNCHANGED <<bridgeVars, coordVars>>

\* session_release::close
close_session ==
    /\ call = Idle
    /\ Release
    /\ conn' = NoConn
    /\ UNCHANGED <<bridgeVars, call, wire, late, told>>

Crash ==
    /\ Release
    /\ Abandon
    /\ conn' = NoConn
    /\ call' = Idle
    /\ UNCHANGED <<nativeVars, told>>

\* fortress.query, fortress.explain of settled effects, fortress.plan of an
\* existing key, and the replays of fortress.commit and fortress.cancel
Report(k) ==
    /\ healthy
    /\ call = Idle
    /\ mem[k] # NoRecord
    /\ Tell(k, mem[k].state)
    /\ UNCHANGED <<storeVars, bridgeVars, conn, call, wire, late>>

\* fortress.explain of a prepared effect replaces a poisoned client
explain_prepared(k) ==
    /\ writable
    /\ call = Idle
    /\ mem[k] # NoRecord
    /\ mem[k].state = "Prepared"
    /\ conn.poisoned /\ CanArm
    /\ conn' = Armed
    /\ Tell(k, "Prepared")
    /\ UNCHANGED <<storeVars, bridgeVars, call, wire, late>>

-----------------------------------------------------------------------------
(* fortress.plan *)

fortress_plan(e) ==
    LET t == [key |-> e.key, plan |-> e.plan, desired |-> e.desired,
              tick |-> e.tick, gen |-> Armed.gen]
    IN
    /\ writable
    /\ call = Idle
    /\ mem[e.key] = NoRecord
    /\ CanArm
    /\ conn' = Armed
    /\ Send("prepare", t, Armed)
    /\ call' = [Idle EXCEPT !.op = "plan", !.token = t]
    /\ UNCHANGED <<storeVars, bridgeVars, late, told>>

\* The new preparation is recorded; a key the bridge already knows is refused
plan_reply ==
    LET k == call.token.key
        t == [call.token EXCEPT !.gen = out.gen]
        next == prepared(t.plan, t.desired, t.tick, t.gen)
    IN
    /\ call.op = "plan"
    /\ out # NoReply
    /\ out.accepted
    /\ \/ /\ out.known
          /\ UNCHANGED <<storeVars, told>>
       \/ /\ ~out.known /\ out.token = t
          /\ Recorded(k, next)
          /\ Tell(k, "Prepared")
       \/ /\ ~out.known /\ out.token = t
          /\ NotRecorded(k, next)
          /\ UNCHANGED told
    /\ conn' = [conn EXCEPT !.gen = out.gen]
    /\ call' = Idle
    /\ out' = NoReply
    /\ UNCHANGED <<nativeVars, wire, late>>

\* A refusal, a malformed reply or the deadline
plan_fails ==
    /\ call.op = "plan"
    /\ conn' = Poisoned
    /\ call' = Idle
    /\ Abandon
    /\ UNCHANGED <<storeVars, nativeVars, told>>

-----------------------------------------------------------------------------
(* fortress.commit: commit_with_clock *)

\* Mutant of begin_commit: the request is sent before the intent is recorded
begin_commit_unrecorded(k) ==
    /\ writable
    /\ call = Idle
    /\ mem[k] # NoRecord
    /\ ~conn.poisoned
    /\ safe_to_dispatch(mem[k], conn.gen)
    /\ call' = [Idle EXCEPT !.op = "started", !.token = TokenOf(k, mem[k])]
    /\ UNCHANGED <<storeVars, bridgeVars, conn, wire, late, told>>

\* Durable intent first.  Preflight only looks at the session's own client.
begin_commit(k) ==
    LET next == commit_started(mem[k]) IN
    /\ writable
    /\ call = Idle
    /\ mem[k] # NoRecord
    /\ ~conn.poisoned
    /\ safe_to_dispatch(mem[k], conn.gen)
    /\ \/ /\ AppendSynced(k, next)
          /\ call' = [Idle EXCEPT !.op = "started", !.token = TokenOf(k, mem[k])]
       \/ /\ AppendUncertain(k, next)
          /\ UNCHANGED call
    /\ UNCHANGED <<bridgeVars, conn, wire, late, told>>

\* The only place a mutation is sent
commit_prepared ==
    /\ call.op = "started"
    /\ Send("commit", call.token, conn)
    /\ call' = [call EXCEPT !.op = "commit"]
    /\ UNCHANGED <<storeVars, bridgeVars, conn, late, told>>

\* ambiguous: a best-effort note that the attempt is unresolved
ambiguous(k) ==
    LET next == indeterminate(mem[k]) IN
    Recorded(k, next) \/ NotRecorded(k, next)

\* The deadline passes between the intent and the dispatch
commit_expires ==
    /\ call.op = "started"
    /\ ambiguous(call.token.key)
    /\ call' = Idle
    /\ UNCHANGED <<bridgeVars, conn, wire, late, told>>

commit_reply ==
    LET k == call.token.key
        r == mem[k]
        next == reconcile_reply(k, r, out)
        current == [conn EXCEPT !.gen = out.gen]
    IN
    /\ call.op = "commit"
    /\ out # NoReply
    /\ out.accepted
    /\ Unproven(r, out) \/ verified_receipt(k, r, out)
    /\ \/ /\ Recorded(k, next)
          /\ Tell(k, next.state)
          /\ conn' = current
       \/ /\ NotRecorded(k, next)
          /\ conn' = [current EXCEPT !.poisoned = TRUE]
          /\ UNCHANGED told
    /\ call' = Idle
    /\ out' = NoReply
    /\ UNCHANGED <<nativeVars, wire, late>>

\* A refusal, contradictory evidence or the deadline
commit_fails ==
    /\ call.op = "commit"
    /\ ambiguous(call.token.key)
    /\ conn' = Poisoned
    /\ call' = Idle
    /\ Abandon
    /\ UNCHANGED <<nativeVars, told>>

-----------------------------------------------------------------------------
(* fortress.wait, and fortress.explain of an unresolved effect *)

\* reconcile_batch over a selection; explain selects one key and may retry
fortress_wait(selected, explain) ==
    /\ writable
    /\ call = Idle
    /\ explain => Cardinality(selected) = 1
    /\ selected # {}
    /\ \A k \in selected : mem[k] # NoRecord
                           /\ reconciliation_required(mem[k].state)
    /\ call' = [Idle EXCEPT !.op = "batch", !.todo = selected,
                            !.retry = explain]
    /\ UNCHANGED <<storeVars, bridgeVars, conn, wire, late, told>>

query_effect(k) ==
    LET t == TokenOf(k, mem[k]) IN
    /\ call.op = "batch"
    /\ k \in call.todo
    /\ CanArm
    /\ conn' = Armed
    /\ Send("query", t, Armed)
    /\ call' = [call EXCEPT !.op = "query", !.token = t, !.todo = @ \ {k}]
    /\ UNCHANGED <<storeVars, bridgeVars, late, told>>

query_reply ==
    LET k == call.token.key
        r == mem[k]
        next == reconcile_reply(k, r, out)
    IN
    /\ call.op = "query"
    /\ out # NoReply
    /\ out.accepted
    /\ Unproven(r, out) \/ verified_receipt(k, r, out)
    /\ \/ /\ Recorded(k, next)
          /\ Tell(k, next.state)
          /\ call' = [Idle EXCEPT !.op = "batch", !.todo = call.todo]
       \/ /\ NotRecorded(k, next)
          /\ UNCHANGED told
          /\ call' = Idle
    /\ conn' = [conn EXCEPT !.gen = out.gen]
    /\ out' = NoReply
    /\ UNCHANGED <<nativeVars, wire, late>>

\* The first failure ends a batch; explain asks once more on a new connection
query_fails ==
    /\ call.op = "query"
    /\ conn' = Poisoned
    /\ Abandon
    /\ call' = IF call.retry
               THEN [Idle EXCEPT !.op = "batch", !.todo = {call.token.key}]
               ELSE Idle
    /\ UNCHANGED <<storeVars, nativeVars, told>>

\* Nothing is left to ask, or the deadline or a failed connection ends the pass
batch_ends ==
    /\ call.op = "batch"
    /\ call' = Idle
    /\ UNCHANGED <<storeVars, bridgeVars, conn, wire, late, told>>

-----------------------------------------------------------------------------
(* fortress.cancel *)

cancel_prepared(k) ==
    /\ writable
    /\ call = Idle
    /\ mem[k] # NoRecord
    /\ mem[k].state = "Prepared"
    /\ \/ AppendSynced(k, cancelled(mem[k])) /\ Tell(k, "CancelledBeforeDispatch")
       \/ AppendUncertain(k, cancelled(mem[k])) /\ UNCHANGED told
    /\ UNCHANGED <<bridgeVars, conn, call, wire, late>>

-----------------------------------------------------------------------------
(* The wire and the game *)

EffectOf(t) == [key |-> t.key, plan |-> t.plan, desired |-> t.desired,
                tick |-> t.tick]

Serve(m, abandoned) ==
    \/ m.op = "prepare" /\ PreparePause(EffectOf(m.token), abandoned)
    \/ m.op = "commit" /\ CommitPause(m.token, abandoned)
    \/ m.op = "query" /\ QueryPause(m.token.key, m.token.plan, abandoned)

ServeCall ==
    /\ wire # NoMsg
    /\ Serve(wire, FALSE)
    /\ wire' = NoMsg
    /\ UNCHANGED <<storeVars, conn, call, late, told>>

ServeLate ==
    /\ \E m \in late : Serve(m, TRUE) /\ late' = late \ {m}
    /\ UNCHANGED <<storeVars, conn, call, wire, told>>

\* A new DFHack process drops every connection and whatever they still carry
BridgeRestart ==
    /\ plugin_init
    /\ wire' = NoMsg
    /\ late' = {}
    /\ conn' = IF conn = NoConn THEN NoConn ELSE [conn EXCEPT !.alive = FALSE]
    /\ UNCHANGED <<storeVars, call, told>>

Coordinator ==
    \/ \E truncate \in BOOLEAN : fortress_open_session(truncate)
    \/ open_recovery_only
    \/ close_session
    \/ Crash
    \/ \E e \in Effect : fortress_plan(e)
    \/ plan_reply
    \/ plan_fails
    \/ \E k \in Keys : Report(k) \/ explain_prepared(k)
    \/ \E k \in Keys : begin_commit(k) \/ cancel_prepared(k)
    \/ commit_prepared
    \/ commit_expires
    \/ commit_reply
    \/ commit_fails
    \/ \E selected \in SUBSET Keys, explain \in BOOLEAN :
          fortress_wait(selected, explain)
    \/ \E k \in Keys : query_effect(k)
    \/ query_reply
    \/ query_fails
    \/ batch_ends

Environment ==
    \/ ServeCall
    \/ ServeLate
    \/ BridgeRestart
    \/ (plugin_onstatechange \/ GameStep) /\ UNCHANGED <<storeVars, coordVars>>

Next == Coordinator \/ Environment

Spec == Init /\ [][Next]_vars

-----------------------------------------------------------------------------
(* Properties *)

Started == DurablePauseState \ {"Prepared", "CancelledBeforeDispatch"}

\* No key's pause setter is called twice, however often calls are repeated,
\* time out, are served late or are cut off by crashes of either process.
AtMostOneSetter == \A k \in Keys : setters[k] <= 1

\* Write-ahead intent: when the setter has been called for a key, the journal
\* file holds that key with a started commit.  In particular an effect that
\* the file holds as prepared or cancelled has never been executed.
IntentBeforeSetter ==
    \A k \in Keys : setters[k] > 0 =>
        disk[k] # NoRecord /\ disk[k].state \in Started

\* A verified outcome is the truth: the file says applied (not applied) only
\* when the setter was called for exactly this preparation, and the flag read
\* back right after it was (was not) the desired one.
VerifiedOutcomeIsTrue ==
    \A k \in Keys :
        disk[k] # NoRecord
        /\ disk[k].state \in {"VerifiedApplied", "VerifiedNotApplied"} =>
            /\ readback[k] # NoRecord
            /\ readback[k].token = TokenOf(k, disk[k])
            /\ disk[k].evidence.paused = readback[k].paused
            /\ disk[k].state = "VerifiedApplied"
                  <=> readback[k].paused = disk[k].desired

\* States an effect may be in once it has been reported in state s
Later(s) ==
    CASE s = "Prepared" -> DurablePauseState
      [] s = "CommitStarted" -> Started
      [] s = "Indeterminate" -> Started \ {"CommitStarted"}
      [] OTHER -> {s}

\* What a client was told survives: after crashes and tail repair the file still
\* holds every reported effect, in the reported state or a later one.
ReportedSurvives ==
    \A k \in Keys : told[k] # "unknown" =>
        disk[k] # NoRecord /\ disk[k].state \in Later(told[k])

\* The file moves along the lifecycle of an effect only: no step, not even tail
\* repair, drops a complete record, changes its identity or takes it back.
JournalOnlyAdvances ==
    [][\A k \in Keys : disk[k] # NoRecord /\ disk'[k] # disk[k] =>
          /\ disk'[k] # NoRecord
          /\ SameIdentity(disk[k], disk'[k])
          /\ <<disk[k].state, disk'[k].state>> \in AllowedTransitions]_vars

-----------------------------------------------------------------------------
(* Why the safety properties hold *)

\* What a call in progress knows about the record it works on
CallKnows ==
    LET k == call.token.key IN
    /\ call.op # "idle" => writable
    /\ call.op \in {"idle", "batch"} \/ call.token \in Token
    /\ call.op \in {"idle", "started", "batch"} => wire = NoMsg /\ out = NoReply
    /\ call.op = "plan" =>
          /\ disk[k] = NoRecord
          /\ wire = NoMsg \/ wire.op = "prepare"
    /\ call.op \in {"started", "commit"} =>
          /\ disk[k] # NoRecord
          /\ disk[k].state = "CommitStarted"
          /\ call.token = TokenOf(k, disk[k])
    /\ call.op = "commit" => wire = NoMsg \/ wire.op = "commit"
    /\ call.op = "query" =>
          /\ disk[k] # NoRecord
          /\ reconciliation_required(disk[k].state)
          /\ call.token = TokenOf(k, disk[k])
          /\ k \notin call.todo
          /\ wire = NoMsg \/ wire.op = "query"
    /\ \A j \in call.todo :
          disk[j] # NoRecord /\ reconciliation_required(disk[j].state)
    /\ wire # NoMsg => wire.token = call.token /\ out = NoReply

\* An open session that still serves holds what the file holds
SessionIsCurrent ==
    /\ healthy => mem = disk
    /\ session = "live" => conn \in Conn
    /\ session = "closed" => ~fenced

\* A commit request, waiting or abandoned, is for a started attempt
CommitHasIntent(m) ==
    m.op = "commit" =>
        LET k == m.token.key IN
        /\ disk[k] # NoRecord
        /\ disk[k].state \in Started
        /\ m.token = TokenOf(k, disk[k])

\* Native records belong to this generation, and their evidence to a setter call
NativeRecordsSound ==
    \A k \in Keys : records[k] # NoRecord =>
        LET r == records[k] IN
        /\ r.token.key = k
        /\ r.token.gen = generation
        /\ generation # MaxGeneration
        /\ r.receipt # NoReceipt =>
              /\ readback[k] = [token |-> r.token, paused |-> r.paused]
              /\ r.receipt = receipt_digest(r.token, r.tick)

\* A setter call leaves an attempt in the file and, for as long as the plugin is
\* in the attempt's generation, a requested record in the plugin
SetterLeavesTrace ==
    \A k \in Keys :
        /\ setters[k] > 0 <=> readback[k] # NoRecord
        /\ setters[k] > 0 =>
              /\ setters[k] = 1
              /\ disk[k] # NoRecord
              /\ disk[k].state \in Started
              /\ readback[k].token = TokenOf(k, disk[k])
              /\ disk[k].gen <= generation
              /\ disk[k].gen = generation =>
                    /\ records[k] # NoRecord
                    /\ records[k].token = readback[k].token
                    /\ records[k].requested

\* A reply in hand that carries a receipt speaks of a setter call that was made
ReplySound ==
    out # NoReply /\ out.receipt # NoReceipt =>
        LET k == out.receipt.key IN
        /\ readback[k] # NoRecord
        /\ out.receipt = receipt_digest(readback[k].token, out.tick)
        /\ out.paused = readback[k].paused

\* The inductive invariant behind AtMostOneSetter, IntentBeforeSetter,
\* VerifiedOutcomeIsTrue and ReportedSurvives.
SafetyInvariant ==
    /\ TypeOK
    /\ CallKnows
    /\ SessionIsCurrent
    /\ \A m \in late : CommitHasIntent(m)
    /\ wire # NoMsg => CommitHasIntent(wire)
    /\ NativeRecordsSound
    /\ SetterLeavesTrace
    /\ ReplySound
    /\ VerifiedOutcomeIsTrue
    /\ ReportedSurvives

-----------------------------------------------------------------------------
(* Liveness *)

\* A tool call in progress ends: every wait has a deadline
CallEnds == plan_reply \/ plan_fails \/ commit_prepared \/ commit_expires
            \/ commit_reply \/ commit_fails \/ query_reply \/ query_fails
            \/ batch_ends

\* The client keeps asking about its unresolved effects, replaces sessions that
\* no longer serve, and not every one of its attempts meets a fault.
Fairness ==
    /\ WF_vars(CallEnds)
    /\ WF_vars((fenced \/ session = "recovery") /\ close_session)
    /\ SF_vars(fortress_open_session(TRUE))
    /\ SF_vars(ServeCall)
    /\ \A k \in Keys :
         /\ SF_vars(fortress_wait({k}, FALSE))
         /\ SF_vars(query_effect(k))
         /\ SF_vars(call.token # NoMsg /\ call.token.key = k
                    /\ query_reply /\ ~fenced')

FairSpec == Spec /\ Fairness

\* The plugin retains proof of the outcome of an attempt the file has open
Resolvable(k) ==
    /\ disk[k] # NoRecord
    /\ reconciliation_required(disk[k].state)
    /\ records[k] # NoRecord
    /\ records[k].token = TokenOf(k, disk[k])
    /\ records[k].receipt # NoReceipt
    /\ transitions < MAX_TRANSITIONS

\* Recovery works: an unresolved attempt whose receipt the plugin retains is
\* eventually recorded with its outcome, unless the plugin drops the record or
\* the journal fills up first.  Lost replies, crashes and uncertain writes on
\* the way only delay it.
UnresolvedIsReconciled == \A k \in Keys : Resolvable(k) ~> ~Resolvable(k)
=============================================================================
