-------------------------- MODULE MCSceneGeometry --------------------------
(***************************************************************************)
(* SceneGeometry on small instances: which calls the client makes.         *)
(***************************************************************************)
EXTENDS SceneGeometryInv

MeshCalls == {"set_mesh", "flush"}
MoverCalls == {"add", "move", "remove"}
AllCalls == MeshCalls \cup MoverCalls
=============================================================================
