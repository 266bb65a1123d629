--------------------------- MODULE MCBlockStates ---------------------------
(* Small histories for TLC. *)
EXTENDS BlockStates
=============================================================================
