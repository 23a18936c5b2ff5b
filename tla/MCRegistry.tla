----------------------------- MODULE MCRegistry -----------------------------
(* Instances of Registry: every graph is of a drained type. *)
EXTENDS Registry, TLC

MCAll == Keys
=============================================================================
