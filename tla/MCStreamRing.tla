---------------------------- MODULE MCStreamRing ----------------------------
(***************************************************************************)
(* StreamRing on small instances: file streams, push streams, or both.     *)
(***************************************************************************)
EXTENDS StreamRingInv

Files == {FALSE}
FilesAndPush == BOOLEAN
=============================================================================
