----------------------------- MODULE ControlTypes -----------------------------
(* The value spaces that the control/1.7 coordinator, its journal and the     *)
(* native plugin share.                                                       *)
EXTENDS Naturals, FiniteSets

CONSTANTS
    Keys,           \* idempotency keys
    Plans,          \* plan digests
    MaxTick,        \* the last game tick of the instance
    MaxGeneration,  \* stands for u64::MAX as a bridge generation
    NoRecord        \* an absent record

ASSUME ControlAssumption ==
    /\ MaxTick \in Nat
    /\ MaxGeneration \in Nat \ {0}

Ticks == 0 .. MaxTick
Generations == 1 .. MaxGeneration
==============================================================================
