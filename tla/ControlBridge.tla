---------------------------- MODULE ControlBridge ----------------------------
(***************************************************************************)
(* The native DFHack plugin of control/1.7                                 *)
(* (bridge/dfhack-control-v1_7/dfmcp_control_v1_7.cpp): the game clock and  *)
(* pause flag it acts on, the in-memory records of prepared effects, the   *)
(* bridge generation, and the DispatchFence that lets one preparation      *)
(* claim the setter.                                                       *)
(*                                                                         *)
(* Every handler runs under DFHack's CoreSuspender, so each is one atomic  *)
(* step.  A handler's reply goes to out, unless the caller has already     *)
(* given up on the call (late).  Digests and tokens are modelled as the    *)
(* tuple of what they hash: two are equal exactly when their contents are. *)
(***************************************************************************)
EXTENDS ControlTypes

CONSTANTS
    MaxSequence,       \* stands for u64::MAX as a fence sequence
    MaxWall,           \* the last instant of the steady clock
    PREPARE_LIFETIME,  \* how long a preparation may be claimed
    MAX_RECORDS,       \* capacity of the record map
    NoReceipt,         \* an empty digest or token
    NoReply            \* no reply to read

ASSUME BridgeAssumption ==
    /\ MaxSequence \in Nat
    /\ MaxWall \in Nat
    /\ PREPARE_LIFETIME \in Nat \ {0}
    /\ MAX_RECORDS \in Nat

VARIABLES
    generation,  \* the bridge generation
    sequence,    \* DispatchFence::sequence
    records,     \* Keys -> native record or NoRecord
    tick,        \* the game clock
    paused,      \* the game's pause flag
    loaded,      \* a fortress-mode world is loaded
    wall,        \* the steady clock of the plugin
    out,         \* the reply of the call just served
    setters,     \* history: SetPauseState calls made for each key
    readback,    \* history: what the last of them was for and read back
    raced        \* history: prepared keys that another setter call overtook

gameVars == <<tick, paused, loaded, wall>>
nativeVars == <<generation, sequence, records, gameVars, setters, readback,
                raced>>
bridgeVars == <<nativeVars, out>>

Effect == [key : Keys, plan : Plans, desired : BOOLEAN, tick : Ticks]
Token == [key : Keys, plan : Plans, desired : BOOLEAN, tick : Ticks,
          gen : Generations]
GuardStates == {"Pending", "Claimed", "Retired"}
NativeRecord ==
    [token : Token, requested : BOOLEAN, applied : BOOLEAN, paused : BOOLEAN,
     tick : Ticks, receipt : Token \cup {NoReceipt}, guardSeq : Nat,
     guardPaused : BOOLEAN, created : Nat, guard : GuardStates]
Reply ==
    [accepted : BOOLEAN, gen : Generations, known : BOOLEAN,
     applied : BOOLEAN, paused : BOOLEAN, tick : Ticks,
     token : Token \cup {NoReceipt}, receipt : Token \cup {NoReceipt}]

Readback == [token : Token, paused : BOOLEAN]

ASSUME NativeAbsent == NoRecord \notin NativeRecord \cup Readback

BridgeTypeOK ==
    /\ generation \in Generations
    /\ sequence \in 0 .. MaxSequence
    /\ records \in [Keys -> NativeRecord \cup {NoRecord}]
    /\ tick \in Ticks
    /\ paused \in BOOLEAN
    /\ loaded \in BOOLEAN
    /\ wall \in 0 .. MaxWall
    /\ out \in Reply \cup {NoReply}
    /\ setters \in [Keys -> Nat]
    /\ readback \in [Keys -> Readback \cup {NoRecord}]
    /\ raced \in SUBSET Keys

BridgeInit ==
    /\ generation \in 1 .. MaxGeneration - 1
    /\ sequence = 0
    /\ records = [k \in Keys |-> NoRecord]
    /\ tick \in Ticks
    /\ paused \in BOOLEAN
    /\ loaded \in BOOLEAN
    /\ wall = 0
    /\ out = NoReply
    /\ setters = [k \in Keys |-> 0]
    /\ readback = [k \in Keys |-> NoRecord]
    /\ raced = {}

-----------------------------------------------------------------------------
(* DispatchFence *)

\* DispatchFence::available
available == sequence # MaxSequence

\* hash_token: what a preparation of this effect is bound to now
hash_token(e) ==
    [key |-> e.key, plan |-> e.plan, desired |-> e.desired, tick |-> e.tick,
     gen |-> generation]

\* receipt: what terminal evidence of a record is bound to at a clock reading
receipt(t, now) ==
    [key |-> t.key, plan |-> t.plan, desired |-> t.desired, tick |-> now,
     gen |-> generation]

\* DispatchFence::prepare and the rest of a new native record
prepare(e) ==
    [token |-> hash_token(e), requested |-> FALSE, applied |-> FALSE,
     paused |-> paused, tick |-> tick, receipt |-> NoReceipt,
     guardSeq |-> sequence, guardPaused |-> paused, created |-> wall,
     guard |-> "Pending"]

\* Mutant of claimable: the captured sequence is not compared
claimable_any_sequence(r) ==
    /\ r.guard = "Pending"
    /\ available
    /\ tick >= r.token.tick
    /\ paused = r.guardPaused
    /\ wall < r.created + PREPARE_LIFETIME

\* DispatchFence::claim: the conditions under which a preparation may take the
\* setter.  The preparation's game tick is its token's tick.
claimable(r) ==
    /\ r.guard = "Pending"
    /\ available
    /\ r.guardSeq = sequence
    /\ tick >= r.token.tick
    /\ paused = r.guardPaused
    /\ wall < r.created + PREPARE_LIFETIME

\* DispatchFence::retire
retire(r) ==
    [r EXCEPT !.guard = IF @ = "Pending" THEN "Retired" ELSE @]

-----------------------------------------------------------------------------
(* Handlers *)

\* auth: no method is served once the generation has saturated
auth == generation # MaxGeneration

\* Deliver a reply, or drop it when the caller's connection is gone
Respond(late, r) == out' = IF late THEN out ELSE r

Blank ==
    [accepted |-> TRUE, gen |-> generation, known |-> FALSE,
     applied |-> FALSE, paused |-> FALSE, tick |-> 0, token |-> NoReceipt,
     receipt |-> NoReceipt]

\* accepted = false: decode carries no effect field out of such a reply
Refusal == [Blank EXCEPT !.accepted = FALSE]

\* fill_record
fill_record(r) ==
    [Blank EXCEPT !.known = TRUE, !.applied = r.applied, !.paused = r.paused,
                  !.tick = r.tick, !.receipt = r.receipt]

\* Any handler that turns a request away and leaves no trace of it
Refuse(late) ==
    /\ Respond(late, Refusal)
    /\ UNCHANGED nativeVars

SameEffect(t, e) ==
    t.plan = e.plan /\ t.desired = e.desired /\ t.tick = e.tick

\* Mutant of PreparePause: the key is not looked up first
PreparePause_overwrites(e, late) ==
    /\ auth /\ loaded /\ tick = e.tick /\ available
    /\ records' = [records EXCEPT ![e.key] = prepare(e)]
    /\ raced' = raced \ {e.key}
    /\ Respond(late, [Blank EXCEPT !.token = hash_token(e)])
    /\ UNCHANGED <<generation, sequence, gameVars, setters, readback>>

PreparePause(e, late) ==
    LET r == records[e.key] IN
    \/ /\ auth /\ loaded
       /\ r # NoRecord
       /\ SameEffect(r.token, e)
       /\ Respond(late, [fill_record(r) EXCEPT !.token = r.token])
       /\ UNCHANGED nativeVars
    \/ /\ auth /\ loaded
       /\ r = NoRecord
       /\ tick = e.tick
       /\ Cardinality({k \in Keys : records[k] # NoRecord}) < MAX_RECORDS
       /\ available
       /\ records' = [records EXCEPT ![e.key] = prepare(e)]
       /\ raced' = raced \ {e.key}
       /\ Respond(late, [Blank EXCEPT !.token = hash_token(e)])
       /\ UNCHANGED <<generation, sequence, gameVars, setters, readback>>
    \/ /\ \/ ~auth
          \/ ~loaded
          \/ r # NoRecord /\ ~SameEffect(r.token, e)
          \/ r = NoRecord /\ \/ tick # e.tick
                             \/ Cardinality({k \in Keys : records[k] # NoRecord})
                                    >= MAX_RECORDS
                             \/ ~available
       /\ Refuse(late)

\* Mutant of attempted: a failed readback forgets that the setter was called
attempted_unrequested(r, t, flag, read) ==
    IF read /\ tick >= t.tick
    THEN [r EXCEPT !.guard = "Claimed", !.requested = TRUE, !.tick = tick,
                   !.paused = flag, !.applied = (flag = t.desired),
                   !.receipt = receipt(t, tick)]
    ELSE [r EXCEPT !.guard = "Claimed"]

\* The record after the setter: evidence if flag and clock could be read back
attempted(r, t, flag, read) ==
    IF read /\ tick >= t.tick
    THEN [r EXCEPT !.guard = "Claimed", !.requested = TRUE, !.tick = tick,
                   !.paused = flag, !.applied = (flag = t.desired),
                   !.receipt = receipt(t, tick)]
    ELSE [r EXCEPT !.guard = "Claimed", !.requested = TRUE]

\* Mutant of SetPauseState: the setter is called again when it had no effect
SetPauseState_retries(t, flag, read, late) ==
    LET after == attempted(records[t.key], t, flag, read) IN
    /\ paused' = flag
    /\ records' = [records EXCEPT ![t.key] = after]
    /\ Respond(late, fill_record(after))
    /\ sequence' = sequence + 1
    /\ setters' = [setters EXCEPT ![t.key] =
                      @ + IF flag = t.desired THEN 1 ELSE 2]
    /\ readback' = [readback EXCEPT ![t.key] = [token |-> t, paused |-> flag]]
    /\ raced' = raced \cup {k \in Keys \ {t.key} : records[k] # NoRecord}
    /\ UNCHANGED <<generation, tick, loaded, wall>>

SetPauseState(t, flag, read, late) ==
    LET after == attempted(records[t.key], t, flag, read) IN
    /\ paused' = flag
    /\ records' = [records EXCEPT ![t.key] = after]
    /\ Respond(late, fill_record(after))
    /\ sequence' = sequence + 1
    /\ setters' = [setters EXCEPT ![t.key] = @ + 1]
    /\ readback' = [readback EXCEPT ![t.key] = [token |-> t, paused |-> flag]]
    /\ raced' = raced \cup {k \in Keys \ {t.key} : records[k] # NoRecord}
    /\ UNCHANGED <<generation, tick, loaded, wall>>

\* The setter and its readback.  SetPauseState may leave the flag as it was;
\* an exception, an unreadable clock or a clock behind the preparation leaves
\* the requested record without a receipt.
Attempt(t, late) ==
    \E flag \in {paused, t.desired}, read \in BOOLEAN :
        SetPauseState(t, flag, read, late)

CommitPause(t, late) ==
    LET r == records[t.key]
        matches == auth /\ r # NoRecord /\ r.token = t
    IN
    \/ ~matches /\ Refuse(late)
    \/ /\ matches /\ r.requested
       /\ Respond(late, fill_record(r))
       /\ UNCHANGED nativeVars
    \/ /\ matches /\ ~r.requested /\ loaded /\ claimable(r)
       /\ Attempt(t, late)
    \/ \* no world, an unreadable clock, or a claim the fence refuses
       /\ matches /\ ~r.requested
       /\ records' = [records EXCEPT ![t.key] = retire(r)]
       /\ Respond(late, Refusal)
       /\ UNCHANGED <<generation, sequence, gameVars, setters,
                      readback, raced>>

QueryPause(k, p, late) ==
    LET r == records[k] IN
    /\ UNCHANGED nativeVars
    /\ Respond(late,
         IF ~auth \/ (r # NoRecord /\ r.token.plan # p) THEN Refusal
         ELSE IF r = NoRecord THEN Blank
         ELSE [fill_record(r) EXCEPT !.token = r.token])

-----------------------------------------------------------------------------
(* The world around the plugin *)

\* Mutant of plugin_onstatechange: the generation does not saturate
plugin_onstatechange_unsaturated ==
    /\ generation' = generation + 1
    /\ records' = [k \in Keys |-> NoRecord]
    /\ raced' = {}
    /\ loaded' \in BOOLEAN
    /\ tick' \in Ticks
    /\ paused' \in BOOLEAN
    /\ UNCHANGED <<sequence, wall, out, setters, readback>>

\* plugin_onstatechange: a world or map is loaded or unloaded.  The generation
\* saturates, the records go, the fence sequence stays.
plugin_onstatechange ==
    /\ generation' = IF generation # MaxGeneration THEN generation + 1
                                                   ELSE generation
    /\ records' = [k \in Keys |-> NoRecord]
    /\ raced' = {}
    /\ loaded' \in BOOLEAN
    /\ tick' \in Ticks
    /\ paused' \in BOOLEAN
    /\ UNCHANGED <<sequence, wall, out, setters, readback>>

\* The game runs, a player or another tool pauses or resumes it, time passes
GameStep ==
    /\ \/ /\ loaded /\ ~paused /\ tick < MaxTick
          /\ tick' = tick + 1
          /\ UNCHANGED <<paused, wall>>
       \/ /\ loaded
          /\ paused' = ~paused
          /\ UNCHANGED <<tick, wall>>
       \/ /\ wall < MaxWall
          /\ wall' = wall + 1
          /\ UNCHANGED <<tick, paused>>
    /\ UNCHANGED <<generation, sequence, records, loaded, out, setters,
                   readback, raced>>

\* A new DFHack process: the static state is initialised again.  The generation
\* is the steady clock's reading, later than every earlier one of this boot.
plugin_init ==
    /\ generation' \in generation + 1 .. MaxGeneration - 1
    /\ sequence' = 0
    /\ records' = [k \in Keys |-> NoRecord]
    /\ raced' = {}
    /\ loaded' = FALSE
    /\ tick' \in Ticks
    /\ paused' \in BOOLEAN
    /\ out' = NoReply
    /\ UNCHANGED <<wall, setters, readback>>

-----------------------------------------------------------------------------
(* The plugin on its own, serving any number of clients *)

BridgeNext ==
    \/ \E e \in Effect : PreparePause(e, FALSE)
    \/ \E t \in Token : CommitPause(t, FALSE)
    \/ \E k \in Keys, p \in Plans : QueryPause(k, p, FALSE)
    \/ plugin_onstatechange
    \/ plugin_init
    \/ GameStep

BridgeSpec == BridgeInit /\ [][BridgeNext]_bridgeVars

\* A setter is called only for a preparation that no other setter call has
\* overtaken, whatever any client sends: the fence compares the sequence the
\* preparation captured, and the sequence advances before every setter.
NoStaleSetter ==
    [][\A k \in Keys : setters'[k] # setters[k] => k \notin raced]_bridgeVars

\* Terminal evidence is final: while the plugin retains a record that has a
\* receipt, no replayed commit, new preparation or query changes the outcome.
ReceiptIsFinal ==
    [][\A k \in Keys :
          records[k] # NoRecord /\ records[k] # records'[k]
          /\ records[k].receipt # NoReceipt
            => records'[k] = NoRecord]_bridgeVars

\* A retained record is attempted at most once: a requested record has used its
\* claim, evidence exists only of an attempt, and no record outlives the
\* generation its token names (world and map events clear the map).
OneClaimPerRecord ==
    \A k \in Keys : records[k] # NoRecord =>
        /\ records[k].requested <=> records[k].guard = "Claimed"
        /\ records[k].receipt # NoReceipt => records[k].requested
        /\ records[k].token.gen = generation
=============================================================================
