---------------------------- MODULE MCSourceSlot ----------------------------
(* SourceSlot on small instances: what the client and the simulation do. *)
EXTENDS SourceSlotInv

\* frames; plays, stops and readbacks; the occlusion simulation
Frames == {{"create", "destroy", "play", "move"},
           {"create", "destroy", "play", "stop", "poll"},
           {"create", "destroy", "play", "simulate"}}
\* occlusion from game logic, no simulation
Manual == {{"create", "play", "manual"}}
=============================================================================
