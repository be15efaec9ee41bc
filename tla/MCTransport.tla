----------------------------- MODULE MCTransport -----------------------------
(***************************************************************************)
(* Transport on a small instance: two sounds of different lengths, and the *)
(* clients the run tries, each with part of the calls.                     *)
(***************************************************************************)
EXTENDS Transport, TLC

TwoSounds == {"long", "short"}
Lengths == "long" :> 4 @@ "short" :> 2

Regions == {"play", "loop", "region", "pitch"}
Chains == {"play", "region", "queue", "clear", "unload", "stop", "pitch"}
Pauses == {"play", "loop", "seek", "pause", "hold", "stop", "steal"}
Schedules == {"play_at", "stop_at", "stop", "sweep", "queue", "steal", "destroy"}
Profiles == {Regions, Chains, Pauses, Schedules}
=============================================================================
