----------------------------- MODULE MCCloseAll -----------------------------
(* Small instances of CloseAll for TLC. *)
EXTENDS CloseAll
=============================================================================
