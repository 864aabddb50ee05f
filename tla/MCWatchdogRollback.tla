--------------------------- MODULE MCWatchdogRollback ---------------------------
(* The watchdog with small sets of candidates, runs and provider processes. *)
EXTENDS WatchdogRollback, TLC

Symmetry == Permutations(Handlers) \cup Permutations(Watchdogs)

(* Bound: a third watchdog run has its turn only once a claim has lapsed,  *)
(* where no reviewer has reconciled and no authorized rollback deploys.    *)
Crew ==
    Cardinality(deciding) >= Cardinality(Watchdogs) - 2
    \/ /\ lapsed # {}
       /\ \A r \in sent : r.op # "repair"
       /\ \A k \in Runs : control[k].pc \notin {"deploy", "verify", "done"}

CrewSpec == Init /\ [][Next /\ Crew']_vars
=============================================================================
