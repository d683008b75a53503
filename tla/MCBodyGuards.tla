----------------------------- MODULE MCBodyGuards -----------------------------
(* BodyGuards on every body of up to MaxLength characters, in any chunks. *)
EXTENDS BodyGuards
=============================================================================
