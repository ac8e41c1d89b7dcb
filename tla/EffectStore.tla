----------------------------- MODULE EffectStore -----------------------------
(***************************************************************************)
(* What the durable pause-effect journal promises its callers              *)
(* (crates/dfmcp-adapter/src/control_effect_journal.rs): a map from        *)
(* idempotency keys to records that survives process crashes, changes only *)
(* along the lifecycle of an effect, and stops serving as soon as the      *)
(* outcome of a write is uncertain.                                        *)
(*                                                                         *)
(* disk is the map the complete frames of the file replay to, mem the map  *)
(* the open session holds.  ControlEffectJournal refines this module with  *)
(* the frames themselves.                                                  *)
(***************************************************************************)
EXTENDS ControlTypes

CONSTANTS
    MAX_TRANSITIONS,  \* frames a journal may hold
    MAX_EFFECTS,      \* keys a journal may hold
    NoEvidence        \* a record without a reconciled outcome

ASSUME StoreAssumption ==
    /\ MAX_TRANSITIONS \in Nat
    /\ MAX_EFFECTS \in Nat

VARIABLES
    disk,         \* Keys -> record or NoRecord, as the file replays
    transitions,  \* complete frames in the file
    torn,         \* the file ends in an incomplete frame
    mem,          \* Keys -> record or NoRecord, in the open session
    session,      \* "closed", "live" or "recovery" (read-only)
    fenced        \* the session met an uncertain write

storeVars == <<disk, transitions, torn, mem, session, fenced>>

DurablePauseState ==
    {"Prepared", "CommitStarted", "VerifiedApplied", "VerifiedNotApplied",
     "Indeterminate", "CancelledBeforeDispatch"}

\* observed_paused, observed_game_tick and whether a receipt digest is present
Evidence == [paused : BOOLEAN, tick : Ticks, receipt : BOOLEAN]

DurablePauseRecord ==
    [plan : Plans, desired : BOOLEAN, tick : Ticks, gen : Generations,
     state : DurablePauseState, evidence : Evidence \cup {NoEvidence}]

ASSUME DurableAbsent == NoRecord \notin DurablePauseRecord

StoreTypeOK ==
    /\ disk \in [Keys -> DurablePauseRecord \cup {NoRecord}]
    /\ transitions \in Nat
    /\ torn \in BOOLEAN
    /\ mem \in [Keys -> DurablePauseRecord \cup {NoRecord}]
    /\ session \in {"closed", "live", "recovery"}
    /\ fenced \in BOOLEAN

Empty == [k \in Keys |-> NoRecord]

StoreInit ==
    /\ disk = Empty
    /\ transitions = 0
    /\ torn = FALSE
    /\ mem = Empty
    /\ session = "closed"
    /\ fenced = FALSE

-----------------------------------------------------------------------------
(* The lifecycle of one effect *)

\* DurablePauseState::terminal
terminal(s) ==
    s \in {"VerifiedApplied", "VerifiedNotApplied", "CancelledBeforeDispatch"}

\* DurablePauseState::reconciliation_required
reconciliation_required(s) == s \in {"CommitStarted", "Indeterminate"}

\* DurablePauseRecord::safe_to_dispatch
safe_to_dispatch(r, gen) == r.state = "Prepared" /\ r.gen = gen

AllowedTransitions ==
    {<<"Prepared", "CommitStarted">>,
     <<"Prepared", "CancelledBeforeDispatch">>,
     <<"CommitStarted", "Indeterminate">>,
     <<"CommitStarted", "VerifiedApplied">>,
     <<"CommitStarted", "VerifiedNotApplied">>,
     <<"Indeterminate", "VerifiedApplied">>,
     <<"Indeterminate", "VerifiedNotApplied">>}

SameIdentity(r, s) ==
    r.plan = s.plan /\ r.desired = s.desired /\ r.tick = s.tick
    /\ r.gen = s.gen

\* A terminal outcome carries a complete observation, anything else none
EvidenceComplete(r) ==
    IF r.state \in {"VerifiedApplied", "VerifiedNotApplied"}
    THEN /\ r.evidence # NoEvidence
         /\ r.state = "VerifiedApplied" =>
               r.evidence.receipt /\ r.evidence.paused = r.desired
    ELSE r.evidence = NoEvidence

validate_transition(prev, next) ==
    /\ IF prev = NoRecord
       THEN next.state = "Prepared"
       ELSE /\ SameIdentity(prev, next)
            /\ <<prev.state, next.state>> \in AllowedTransitions
    /\ EvidenceComplete(next)

-----------------------------------------------------------------------------
(* Writes *)

\* ensure_healthy: an unfenced session serves its records
healthy == session # "closed" /\ ~fenced

\* authorize_write: recovery sessions never write
writable == session = "live" /\ ~fenced

\* append_with, up to the write: limits and the lifecycle
appendable(k, next) ==
    /\ writable
    /\ transitions < MAX_TRANSITIONS
    /\ mem[k] = NoRecord =>
          Cardinality({j \in Keys : mem[j] # NoRecord}) < MAX_EFFECTS
    /\ validate_transition(mem[k], next)

\* append_with: the frame is written and synced, then published in memory
AppendSynced(k, next) ==
    /\ appendable(k, next)
    /\ disk' = [disk EXCEPT ![k] = next]
    /\ mem' = [mem EXCEPT ![k] = next]
    /\ transitions' = transitions + 1
    /\ UNCHANGED <<torn, session, fenced>>

\* append_with: writing or syncing fails.  The file may hold none, a part or
\* all of the frame; memory is not touched and the session is fenced.
AppendUncertain(k, next) ==
    /\ appendable(k, next)
    /\ \/ /\ disk' = [disk EXCEPT ![k] = next]
          /\ transitions' = transitions + 1
          /\ UNCHANGED torn
       \/ /\ torn' \in BOOLEAN
          /\ UNCHANGED <<disk, transitions>>
    /\ fenced' = TRUE
    /\ UNCHANGED <<mem, session>>

-----------------------------------------------------------------------------
(* The records callers ask the journal to append *)

\* record_prepared, for a key the journal does not hold
prepared(plan, desired, tick, gen) ==
    [plan |-> plan, desired |-> desired, tick |-> tick, gen |-> gen,
     state |-> "Prepared", evidence |-> NoEvidence]

\* begin_commit
commit_started(r) == [r EXCEPT !.state = "CommitStarted"]

\* mark_indeterminate
indeterminate(r) == [r EXCEPT !.state = "Indeterminate"]

\* cancel_prepared_with
cancelled(r) == [r EXCEPT !.state = "CancelledBeforeDispatch"]

\* record_reconciliation, for evidence of the record's own generation
reconciled(r, applied, ev) ==
    [r EXCEPT !.state = IF applied THEN "VerifiedApplied"
                                   ELSE "VerifiedNotApplied",
              !.evidence = ev]

-----------------------------------------------------------------------------
(* Sessions *)

\* Mutant of OpenLive: repairing the tail truncates the whole file
OpenLive_truncates_all(truncate) ==
    /\ session = "closed"
    /\ torn => truncate
    /\ torn' = FALSE
    /\ disk' = IF torn THEN Empty ELSE disk
    /\ mem' = disk'
    /\ session' = "live"
    /\ fenced' = FALSE
    /\ UNCHANGED transitions

\* open: replay the file; an incomplete tail is truncated only on request
OpenLive(truncate) ==
    /\ session = "closed"
    /\ torn => truncate
    /\ torn' = FALSE
    /\ mem' = disk
    /\ session' = "live"
    /\ fenced' = FALSE
    /\ UNCHANGED <<disk, transitions>>

\* open_read_only: an incomplete tail is refused, nothing is written
OpenRecovery ==
    /\ session = "closed"
    /\ ~torn
    /\ mem' = disk
    /\ session' = "recovery"
    /\ fenced' = FALSE
    /\ UNCHANGED <<disk, transitions, torn>>

\* The session is dropped, by its owner or by the death of the process
Release ==
    /\ session # "closed"
    /\ session' = "closed"
    /\ mem' = Empty
    /\ fenced' = FALSE
    /\ UNCHANGED <<disk, transitions, torn>>

-----------------------------------------------------------------------------
(* The journal on its own, under any caller *)

Candidates(k) ==
    IF mem[k] = NoRecord
    THEN {prepared(p, d, t, g) : p \in Plans, d \in BOOLEAN, t \in Ticks,
                                 g \in 1 .. MaxGeneration - 1}
    ELSE {commit_started(mem[k]), indeterminate(mem[k]), cancelled(mem[k])}
         \cup {reconciled(mem[k], a, ev) : a \in BOOLEAN, ev \in Evidence}

StoreNext ==
    \/ \E k \in Keys : \E next \in Candidates(k) :
          AppendSynced(k, next) \/ AppendUncertain(k, next)
    \/ \E truncate \in BOOLEAN : OpenLive(truncate)
    \/ OpenRecovery
    \/ Release

StoreSpec == StoreInit /\ [][StoreNext]_storeVars
=============================================================================
