---------------------------- MODULE MCAssetCache ----------------------------
(***************************************************************************)
(* AssetCache on a small instance: one file, so that every acquisition     *)
(* meets the entry of the one before; one sound slot, so that a load still *)
(* decoding meets its successor in the same slot.                          *)
(***************************************************************************)
EXTENDS AssetCacheInv
=============================================================================
