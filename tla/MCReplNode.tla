----------------------------- MODULE MCReplNode -----------------------------
(* An instance of ReplNode for TLC. *)
EXTENDS ReplNode, TLC
=============================================================================
