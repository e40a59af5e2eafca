--------------------------- MODULE MCModelRouter ---------------------------
(* Small instances of ModelRouter for TLC. *)
EXTENDS ModelRouter, TLC

CONSTANTS c1, c2, c3

\* No key at all, or a provider of each wire format.
TwoOrNone == {{}, {"anthropic", "groq"}}
=============================================================================
