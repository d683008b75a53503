----------------------- MODULE MCLevelOrderHeadPointer -----------------------
(* LevelOrderHeadPointer on every binary tree of up to MaxSize nodes. *)
EXTENDS LevelOrderHeadPointer, MCTrees
=============================================================================
