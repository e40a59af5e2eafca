----------------------- MODULE MCWorkspaceLifecycle -----------------------
(* Small instances of WorkspaceLifecycle for TLC. *)
EXTENDS WorkspaceLifecycle

CONSTANTS d1, j1, e1, w1, w2
=============================================================================
