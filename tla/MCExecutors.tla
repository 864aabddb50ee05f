----------------------------- MODULE MCExecutors -----------------------------
(* Two operators, processes or executions of each program (three of the    *)
(* ledger's), two authorizations or requests, three payload files of which *)
(* two differ between the requests.                                        *)
EXTENDS Executors, TLC

CONSTANTS h1, h2, r1, r2, h3

(* The two assignments of the 559c recovery.                               *)
Assignments == <<"packageAdd", "packageRead">>
(* cloud-mutation-0001.json to 0008: two mutations of the plan and two     *)
(* that compensate for them.                                               *)
IntentFiles == <<"intent 1", "intent 2", "intent 3", "intent 4">>
ResultFiles == <<"result 1", "result 2", "result 3", "result 4">>

Symmetry == Permutations({h1, h2})
=============================================================================
