------------------------- MODULE MCOutputScheduler -------------------------
(* Small instances of the output scheduler for TLC.  Holds and capacity are *)
(* two ways into trouble that multiply when they meet, so a behaviour has   *)
(* the inputs of one of them; the properties are those of OutputScheduler   *)
(* with the larger of each bound.                                           *)
EXTENDS OutputScheduler

VARIABLE part       \* "holds" or "capacity"

\* Frames, bells and control bytes while an application opens and closes
\* synchronized output: no effects, no wrapper, no empty frames.
Holds == INSTANCE OutputScheduler WITH
    ControlLimit <- 1, Wrapper <- 0, EffectKinds <- {}, RenderSizes <- {2}, Support <- {}

\* Both limits, with terminal effects and the DEC 2026 wrapper: no holds.
Capacity == INSTANCE OutputScheduler WITH Opens <- {}, MaxGen <- 2

PartInit ==
    /\ part \in {"holds", "capacity"}
    /\ Init
    /\ part = "holds" => ~supported

InHolds == part = "holds" /\ Holds!Next /\ UNCHANGED part
InCapacity == part = "capacity" /\ Capacity!Next /\ UNCHANGED part

PartNext == InHolds \/ InCapacity
PartSpec == PartInit /\ [][PartNext]_<<vars, part>>

=============================================================================
