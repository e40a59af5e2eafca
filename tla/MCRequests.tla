----------------------------- MODULE MCRequests -----------------------------
(* A request, for TLC: the gate it passes, and the transaction of one that  *)
(* changes a workspace.  The two share no state, and every property is      *)
(* about one of them: a behaviour runs one part, chosen at the start, and   *)
(* leaves the other at its initial state.                                   *)
EXTENDS Tenancy, RequestGate, TLC

VARIABLE part

CONSTANTS r1, r2, r3, s1, s2, u1, u2, u3

\* A request is nothing but its name.
AnyRequest == Permutations(Requests)

PartInit ==
  /\ part \in {"tenancy", "gate"}
  /\ Init /\ GateInit

PartNext ==
  /\ UNCHANGED part
  /\ \/ part = "tenancy" /\ Next /\ UNCHANGED gateVars
     \/ part = "gate" /\ GateNext /\ UNCHANGED vars

PartSpec == PartInit /\ [][PartNext]_<<part, vars, gateVars>>
=============================================================================
