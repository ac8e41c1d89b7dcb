------------------------ MODULE ControlEffectJournal ------------------------
(***************************************************************************)
(* The pause-effect journal at the level of its frames                     *)
(* (crates/dfmcp-adapter/src/control_effect_journal.rs, with                *)
(* control_effect_cancellation.rs): an append-only file of chained frames, *)
(* written and synced one at a time, replayed and validated on open.       *)
(*                                                                         *)
(* A frame's digest chains it to its predecessor.  No two frames of one    *)
(* file have the same transition number, so the number of the predecessor  *)
(* stands for its digest.  synced counts the frames a successful sync      *)
(* covers: the process may die between writing a frame and syncing it, and *)
(* the next process reads the frame back all the same.                     *)
(***************************************************************************)
EXTENDS ControlTypes, Sequences

CONSTANTS MAX_TRANSITIONS, MAX_EFFECTS, NoEvidence

VARIABLES
    header,    \* "absent", "partial" or "complete"
    frames,    \* the complete frames of the file
    synced,    \* how many of them are known to be on stable storage
    torn,      \* the file ends in an incomplete frame
    mem,       \* records of the open session
    count,     \* transitions of the open session
    session,   \* "closed", "live" or "recovery"
    fenced,    \* the session met an uncertain write
    reported   \* history: Keys -> frame of the last state reported, or 0

vars == <<header, frames, synced, torn, mem, count, session, fenced, reported>>

\* The map that the first n frames of the file replay to
ReplayOf(n) ==
    [k \in Keys |->
        LET mine == {i \in 1 .. n : frames[i].key = k} IN
        IF mine = {} THEN NoRecord
        ELSE frames[CHOOSE i \in mine : \A j \in mine : j <= i].record]

\* What callers are promised
Store == INSTANCE EffectStore WITH
    disk <- ReplayOf(Len(frames)), transitions <- Len(frames)

Frame == [key : Keys, record : Store!DurablePauseRecord, revision : Nat,
          number : Nat, previous : Nat]

JournalTypeOK ==
    /\ header \in {"absent", "partial", "complete"}
    /\ frames \in Seq(Frame)
    /\ synced \in 0 .. Len(frames)
    /\ torn \in BOOLEAN
    /\ mem \in [Keys -> Store!DurablePauseRecord \cup {NoRecord}]
    /\ count \in 0 .. MAX_TRANSITIONS
    /\ session \in {"closed", "live", "recovery"}
    /\ fenced \in BOOLEAN
    /\ reported \in [Keys -> 0 .. Len(frames)]

JournalInit ==
    /\ header = "absent"
    /\ frames = << >>
    /\ synced = 0
    /\ torn = FALSE
    /\ mem = Store!Empty
    /\ count = 0
    /\ session = "closed"
    /\ fenced = FALSE
    /\ reported = [k \in Keys |-> 0]

-----------------------------------------------------------------------------
(* Replay *)

Earlier(i) == {j \in 1 .. i - 1 : frames[j].key = frames[i].key}

\* accept_replay: frame i follows from the ones before it
accept_replay(i) ==
    LET f == frames[i]
        before == ReplayOf(i - 1)
    IN  /\ f.number = i
        /\ f.previous = i - 1
        /\ f.revision = Cardinality(Earlier(i)) + 1
        /\ Store!validate_transition(before[f.key], f.record)
        /\ Earlier(i) = {} =>
              Cardinality({k \in Keys : before[k] # NoRecord}) < MAX_EFFECTS

Replayable ==
    /\ Len(frames) <= MAX_TRANSITIONS
    /\ \A i \in 1 .. Len(frames) : accept_replay(i)

\* open_inner, creating the file: the header is written and synced
CreateJournal ==
    /\ header = "absent"
    /\ header' \in {"partial", "complete"}
    /\ UNCHANGED <<frames, synced, torn, mem, count, session, fenced, reported>>

\* Mutant of Loaded: the last complete frame is taken for the tail
Loaded_drops_last ==
    /\ mem' = ReplayOf(IF Len(frames) = 0 THEN 0 ELSE Len(frames) - 1)
    /\ count' = Len(frames)
    /\ fenced' = FALSE

Loaded ==
    /\ mem' = ReplayOf(Len(frames))
    /\ count' = Len(frames)
    /\ fenced' = FALSE

\* open_inner: replay, then truncate an incomplete tail if the operator asked
\* for it.  Only the truncation is followed by a sync.
open_inner(truncate) ==
    /\ session = "closed"
    /\ header = "complete"
    /\ Replayable
    /\ torn => truncate
    /\ Loaded
    /\ session' = "live"
    /\ torn' = FALSE
    /\ synced' = IF torn THEN Len(frames) ELSE synced
    /\ UNCHANGED <<header, frames, reported>>

open_read_only ==
    /\ session = "closed"
    /\ header = "complete"
    /\ Replayable
    /\ ~torn
    /\ Loaded
    /\ session' = "recovery"
    /\ UNCHANGED <<header, frames, synced, torn, reported>>

\* The session is dropped, or its process dies
Drop ==
    /\ session # "closed"
    /\ session' = "closed"
    /\ mem' = Store!Empty
    /\ count' = 0
    /\ fenced' = FALSE
    /\ UNCHANGED <<header, frames, synced, torn, reported>>

-----------------------------------------------------------------------------
(* append_with *)

ensure_healthy == session # "closed" /\ ~fenced
authorize_write == session = "live" /\ ~fenced

\* Mutant of within_limits: one transition too many
within_limits_inclusive(k) ==
    /\ count <= MAX_TRANSITIONS
    /\ mem[k] = NoRecord =>
          Cardinality({j \in Keys : mem[j] # NoRecord}) < MAX_EFFECTS

\* The limits append_with checks
within_limits(k) ==
    /\ count < MAX_TRANSITIONS
    /\ mem[k] = NoRecord =>
          Cardinality({j \in Keys : mem[j] # NoRecord}) < MAX_EFFECTS

\* Mutant of encode_frame: the revision of the previous frame is written
encode_frame_stale_revision(k, next) ==
    [key |-> k, record |-> next, number |-> count + 1, previous |-> count,
     revision |->
        Cardinality({i \in 1 .. count : frames[i].key = k})]

\* The frame that records next for key k
encode_frame(k, next) ==
    [key |-> k, record |-> next, number |-> count + 1, previous |-> count,
     revision |->
        Cardinality({i \in 1 .. count : frames[i].key = k}) + 1]

\* Written, synced, published, acknowledged
append_synced(k, next) ==
    /\ frames' = Append(frames, encode_frame(k, next))
    /\ synced' = Len(frames')
    /\ mem' = [mem EXCEPT ![k] = next]
    /\ count' = count + 1
    /\ reported' = [reported EXCEPT ![k] = Len(frames')]
    /\ UNCHANGED <<torn, fenced>>

\* Mutant of append_uncertain: the session is not fenced
append_uncertain_unfenced(k, next) ==
    /\ \/ frames' = Append(frames, encode_frame(k, next)) /\ torn' = torn
       \/ frames' = frames /\ torn' \in BOOLEAN
    /\ UNCHANGED <<synced, mem, count, reported, fenced>>

\* The write or the sync fails: all, some or none of the frame is there
append_uncertain(k, next) ==
    /\ \/ frames' = Append(frames, encode_frame(k, next)) /\ torn' = torn
       \/ frames' = frames /\ torn' \in BOOLEAN
    /\ fenced' = TRUE
    /\ UNCHANGED <<synced, mem, count, reported>>

append_with(k, next) ==
    /\ authorize_write
    /\ within_limits(k)
    /\ Store!validate_transition(mem[k], next)
    /\ append_synced(k, next) \/ append_uncertain(k, next)
    /\ UNCHANGED <<header, session>>

-----------------------------------------------------------------------------
(* Operations.  Each starts from the record the session holds; a request the  *)
(* operation refuses changes nothing and is no step.                          *)

\* require: the key is held under this plan
require(k, plan) == mem[k] # NoRecord /\ mem[k].plan = plan

\* An operation that answers from the record already held
Answer(k) ==
    /\ ensure_healthy
    /\ mem[k] # NoRecord
    /\ reported' = [reported EXCEPT ![k] =
          CHOOSE i \in 1 .. count :
             frames[i].key = k /\ \A j \in i + 1 .. count : frames[j].key # k]
    /\ UNCHANGED <<header, frames, synced, torn, mem, count, session, fenced>>

record_prepared(k, plan, desired, at, gen) ==
    LET next == Store!prepared(plan, desired, at, gen) IN
    \/ mem[k] = NoRecord /\ append_with(k, next)
    \/ /\ authorize_write /\ mem[k] # NoRecord
       /\ Store!SameIdentity(mem[k], next)
       /\ Answer(k)

begin_commit(k, plan, gen) ==
    /\ authorize_write
    /\ require(k, plan)
    /\ mem[k].state # "CancelledBeforeDispatch"
    /\ mem[k].gen = gen
    /\ \/ /\ mem[k].state = "Prepared"
          /\ append_with(k, Store!commit_started(mem[k]))
       \/ /\ Store!terminal(mem[k].state)
          /\ Answer(k)

mark_indeterminate(k, plan) ==
    /\ authorize_write
    /\ require(k, plan)
    /\ \/ mem[k].state = "Indeterminate" /\ Answer(k)
       \/ /\ mem[k].state = "CommitStarted"
          /\ append_with(k, Store!indeterminate(mem[k]))

\* o is the evidence offered: known, applied, paused, tick and receipt present
record_reconciliation(k, plan, gen, o) ==
    LET r == mem[k]
        seen == [paused |-> o.paused, tick |-> o.tick, receipt |-> o.receipt]
    IN
    /\ authorize_write
    /\ require(k, plan)
    /\ r.state \notin {"CancelledBeforeDispatch", "Prepared"}
    /\ \/ Store!terminal(r.state) /\ Answer(k)
       \/ /\ ~Store!terminal(r.state)
          /\ gen # r.gen \/ ~o.known
          /\ mark_indeterminate(k, plan)
       \/ /\ ~Store!terminal(r.state)
          /\ gen = r.gen /\ o.known
          /\ o.applied => o.paused = r.desired /\ o.receipt
          /\ append_with(k, Store!reconciled(r, o.applied, seen))

cancel_prepared_with(k, plan) ==
    /\ authorize_write
    /\ require(k, plan)
    /\ \/ /\ mem[k].state = "Prepared"
          /\ append_with(k, Store!cancelled(mem[k]))
       \/ mem[k].state = "CancelledBeforeDispatch" /\ Answer(k)

Offers == [known : BOOLEAN, applied : BOOLEAN, paused : BOOLEAN,
           tick : Ticks, receipt : BOOLEAN]

JournalNext ==
    \/ CreateJournal
    \/ \E truncate \in BOOLEAN : open_inner(truncate)
    \/ open_read_only
    \/ Drop
    \/ \E k \in Keys : Answer(k)
    \/ \E k \in Keys, p \in Plans, d \in BOOLEAN, t \in Ticks,
          g \in 1 .. MaxGeneration - 1 : record_prepared(k, p, d, t, g)
    \/ \E k \in Keys, p \in Plans :
          \/ \E g \in Generations : begin_commit(k, p, g)
          \/ mark_indeterminate(k, p)
          \/ cancel_prepared_with(k, p)
          \/ \E g \in Generations, o \in Offers :
                record_reconciliation(k, p, g, o)

JournalSpec == JournalInit /\ [][JournalNext]_vars

-----------------------------------------------------------------------------
(* Properties *)

\* The frames implement the store that the coordinator relies on: every append,
\* failed append, crash and reopening is a step of EffectStore or invisible.
ImplementsStore == Store!StoreSpec

\* Recovery is never stuck on the journal's own writes: whatever was appended,
\* torn or left unsynced, the complete frames pass the replay validation.
OwnWritesReplay == Replayable

\* A live or recovery session that is not fenced holds exactly what the file
\* replays to, so no decision is taken on a record the file does not hold.
UnfencedSessionIsCurrent ==
    ensure_healthy => /\ mem = ReplayOf(Len(frames))
                      /\ count = Len(frames)
                      /\ ~torn

\* docs/LIVE_CONTROL.md: "The Rust coordinator syncs VerifiedApplied or
\* VerifiedNotApplied before acknowledging a terminal outcome."  So the frame of
\* a verified outcome that a caller was given is covered by a successful sync.
VerifiedIsSyncedBeforeAcknowledged ==
    \A k \in Keys :
        reported[k] # 0
        /\ frames[reported[k]].record.state
              \in {"VerifiedApplied", "VerifiedNotApplied"}
          => reported[k] <= synced
=============================================================================
