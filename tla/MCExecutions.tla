----------------------------- MODULE MCExecutions ----------------------------
(* Two polls, two attempts, two details of a census and three runs; two    *)
(* changes by others at any time, and one interruption at one of four      *)
(* operations.                                                             *)
EXTENDS Executions

(* Nothing, one finished or one unfinished run of somebody else before.    *)
SomeHistories == {<<>>, <<[who |-> "other", status |-> "Success"]>>,
                  <<[who |-> "other", status |-> "Running"]>>}

(* What may be otherwise than authorized; one of each family is enough.    *)
SomeDrifts ==
    {<<"application", {}>>, <<"service", 0>>, <<"grant", "foreign">>,
     <<"credential", "foreign">>, <<"identity", 3>>, <<"identity", 0>>,
     <<"writer", 2>>, <<"lock", "used">>, <<"key", "exact">>,
     <<"key", "short">>, <<"definitions", [fence |-> "exact", others |-> "absent"]>>,
     <<"definitions", [fence |-> "foreign", others |-> "exact"]>>,
     <<"site", "foreign">>, <<"site", "absent">>, <<"scm", "on">>,
     <<"rule", "foreign">>, <<"package", "foreign">>, <<"fence", "none">>,
     <<"settings", "desired">>, <<"worm", "tombstone">>, <<"accepted", 91>>,
     <<"legacy", "detached">>, <<"writerResult", "absent">>,
     <<"legacyFic", "absent">>, <<"locks", "other">>, <<"production", 2>>}
=============================================================================
