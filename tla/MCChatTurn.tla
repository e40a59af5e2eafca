----------------------------- MODULE MCChatTurn -----------------------------
(* Small instances of ChatTurn for TLC. *)
EXTENDS ChatTurn, TLC

CONSTANTS p1, p2, ta

\* A turn, and its retry.
Retried == {p1, p2}
RetriedTurn == (p1 :> ta) @@ (p2 :> ta)
=============================================================================
