------------------------------ MODULE MCSessions ------------------------------
(* Two controllers and a cleanup of the handoff, two runner sessions and   *)
(* two watchers of the registry's bridge.                                  *)
EXTENDS Sessions, TLC

CONSTANTS r1, r2, q1, q2, c1, c2

(* Wherever the next request but one is a renewal, in the waits, and in    *)
(* the second verification; never between a renewal and what it protects.  *)
Punctual == {"seal", "injectrenew", "start", "startrenew", "startpoll", "run",
             "runpoll", "reverify", "stop", "stoppoll", "estop", "estoppoll",
             "release", "restorerenew", "delete", "unlock", "cread", "cstop",
             "cstoprenew", "cstoppoll", "crestoreread", "crestorerenew"}
(* Every session runs under an authority generation of its own.            *)
OwnGeneration == [r \in {r1, r2} |-> r]

Symmetry == Permutations({c1, c2}) \cup Permutations({q1, q2})
=============================================================================
