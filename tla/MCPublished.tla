----------------------------- MODULE MCPublished -----------------------------
(* Every publication of cave-audio, one per behaviour. *)
EXTENDS PublishedInv

All == {"pose", "clock", "room", "monitor", "path", "eq"}
=============================================================================
