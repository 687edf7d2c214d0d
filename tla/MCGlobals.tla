----------------------------- MODULE MCGlobals -----------------------------
(***************************************************************************)
(* Globals with three names: an array of two elements, a semaphore also    *)
(* used with negative indices, and a third name.  Any insertion may move   *)
(* the table under a pair that another program has found.                  *)
(***************************************************************************)
EXTENDS Globals

CONSTANTS k1, k2, k3

Called(n, k, i) == [name |-> n, key |-> k, idx |-> i, val |-> 0]

MCOperations ==
  {Called(n, k1, 0) : n \in {"LOAD", "STORE", "UP", "DOWN"}}
  \cup {Called(n, k2, -1) : n \in {"LOAD", "UP", "DOWN"}}
  \cup {Called("UP", k1, 1), Called("LOAD", k2, -2), Called("LOAD", k3, 0)}
  \cup {Called(n, k2, 0) : n \in {"UP", "DOWN"}}

=============================================================================
