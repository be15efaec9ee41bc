----------------------------- MODULE MCVoicePool -----------------------------
(* Small instances of VoicePool: the client profiles (sets of API calls) the runs use. *)
EXTENDS VoicePoolInv

NoPriorities == {128}
Extremes == {0, 255}

\* sources that share loaded sounds: play, chain, stop, unload
SharedSounds == {"create", "play", "queue", "stop", "load", "unload"}
\* a pool under pressure: create beyond the pool, destroy, re-prioritise
Pressure == {"create", "destroy", "priority"}
\* push sources, and everything that gives a slot or a sound back without an unload
Returns == {"stream", "destroy", "oneshot", "load", "stop_all"}
\* fire and forget
Oneshots == {"oneshot", "load", "unload", "stop_all"}
=============================================================================
