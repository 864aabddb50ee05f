------------------------------- MODULE MCReads -------------------------------
(* Four reads by two threads; the seconds of the loops are real, in        *)
(* quarters.  The reserve of the cleanup begins late, or so early that it  *)
(* cuts the loops; the grants come at once, near the end of the interval,  *)
(* at its end, or never.  A request that needs its full ninety seconds is  *)
(* a lost one.                                                             *)
EXTENDS Reads

SomeHosts == [k \in 1 .. N |-> IF k = 2 THEN "graph" ELSE "arm"]

SomeHards == {4 * h : h \in {6000, 2700, 850, 331, 200}}
SomeGrants == {<<4 * g[1], 4 * g[2]>> : g \in
    {<<0, 0>>, <<0, 90>>, <<119, 119>>, <<120, 120>>, <<121, 121>>,
     <<599, 599>>, <<600, 600>>, <<600, 700>>, <<1800, 1800>>, <<9999, 9999>>}}

(* Two executions which between them make and find each thing.             *)
SomeContexts ==
    {[group |-> "apply", roles |-> {"role 1", "role 2"}, upload |-> "adopt",
      fence |-> "apply", worm |-> "extend"],
     [group |-> "adopt", roles |-> {"role 2"}, upload |-> "apply",
      fence |-> "adopt", worm |-> "put-lock"]}
=============================================================================
