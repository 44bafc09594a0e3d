--------------------------- MODULE MCTaskWorktrees ---------------------------
(* Small instances of TaskWorktrees for TLC. *)
EXTENDS TaskWorktrees
=============================================================================
