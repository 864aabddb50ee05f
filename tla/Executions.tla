------------------------------ MODULE Executions ------------------------------
(* The canary of the bridge's WebJob, and the observation of Azure that a  *)
(* bootstrap is authorized by. They share nothing; a behaviour is one of   *)
(* the two.                                                                *)
EXTENDS Integers, Sequences, FiniteSets

CONSTANTS
    Histories,    \* of the canary: the runs there may be before it
    MaxRuns,      \* ... bound: runs of the job
    MaxBoundary,  \* ... attempts to read the boundary
    MaxPolls,     \* ... and the history
    PerCensus,    \* ... details read of one history
    Fences,       \* of the observation: the fence at the start
    Drifts,       \* ... what others may do
    MaxDrifts,    \* ... bound
    Stops,        \* ... operations before which a run may end
    MaxStops,     \* ... bound
    AbsentSite    \* ... the answer for the settings of a site that is absent

(* A singleton job has one run under way at most, its last one.            *)
Past(h) ==
    /\ h \in Seq([who : {"other"}, status : {"Running", "Success", "Failed"}])
    /\ Len(h) <= MaxRuns
    /\ \A k \in DOMAIN h : h[k].status = "Running" => k = Len(h)

(* Others create an application of the name, 1, or delete the one there    *)
(* is, and leave every other resource in some state that it can be in.     *)
(* The temporary roles are named after the authorization of the run        *)
(* (derive_temporary_role_ids), so nobody else assigns one.                *)
Foreign(d) ==
    \/ d[1] = "application" /\ d[2] \in {{}, {1}}
    \/ d[1] \in {"identity", "assigned"} /\ d[2] \in 0 .. 3
    \/ d[1] \in {"service", "writer", "accepted", "production"} /\ d[2] \in Nat
    \/ d[1] = "definitions" /\ d[2] \in [{"fence", "others"} -> {"absent", "exact", "foreign"}]
    \/ /\ d[1] \in {"grant", "credential", "lock", "key", "site", "scm", "rule", "package",
                    "fence", "settings", "worm", "legacy", "writerResult", "legacyFic", "locks"}
       /\ d[2] \in STRING

ASSUME ExecutionsOK ==
    /\ MaxRuns \in Nat /\ MaxBoundary \in Nat /\ MaxPolls \in Nat \ {0} /\ PerCensus \in Nat
    /\ \A h \in Histories : Past(h)
    /\ Fences \subseteq {"none", "pinned"} /\ AbsentSite \in STRING
    /\ \A d \in Drifts : d = <<d[1], d[2]>> /\ Foreign(d)

VARIABLES
    program,  \* the one that runs
    runs, site, coming, pcCanary, stage, triesCanary, meta, http, entries, todo,
    told, left, reserve, boundary, place, terminal, closing, whyCanary,
    seenCanary, asOf,
    az, pinned, pcObserved, beganObserved, seenObserved, spare, pos, own,
    whyObserved, drifts, stops, made, deleted, still

Canary == INSTANCE CanaryProof WITH
    MaxTries <- MaxBoundary, tries <- triesCanary,
    pc <- pcCanary, why <- whyCanary, seen <- seenCanary

Observed == INSTANCE Observation WITH
    pc <- pcObserved, began <- beganObserved, seen <- seenObserved, why <- whyObserved

canaryVars ==
    <<runs, site, coming, pcCanary, stage, triesCanary, meta, http, entries, todo,
      told, left, reserve, boundary, place, terminal, closing, whyCanary,
      seenCanary, asOf>>
observedVars ==
    <<az, pinned, pcObserved, beganObserved, seenObserved, spare, pos, own,
      whyObserved, drifts, stops, made, deleted, still>>

EitherInit ==
    /\ program \in {"canary", "observation"}
    /\ Canary!Init
    /\ Observed!Init
    /\ program # "canary" => runs = <<>>
    /\ program # "observation" => ~pinned

Turn(p) == program = p /\ UNCHANGED program

EitherNext ==
    \/ Turn("canary") /\ Canary!Next /\ UNCHANGED observedVars
    \/ Turn("observation") /\ Observed!Next /\ UNCHANGED canaryVars

either == <<program, canaryVars, observedVars>>
EitherSpec == EitherInit /\ [][EitherNext]_either

-----------------------------------------------------------------------------
(* Whoever else runs the job and whatever the history leaves out: a canary *)
(* that succeeds ran alone, a failure told as its own is its own, the      *)
(* trigger is sent once, polls never use up the reads of the census, and   *)
(* the validator of evidence takes the proof of every success              *)
(* (CanaryProof).                                                          *)
CanarySafe ==
    program = "canary" =>
        /\ Canary!TypeOK
        /\ Canary!Attributed
        /\ Canary!FailureTruth
        /\ Canary!BoundaryAdjacent
        /\ Canary!TriggeredOnce
        /\ Canary!BudgetRefusal
        /\ Canary!ProofAccepted
(* Over all observations and interrupted runs one application is created,  *)
(* and a bootstrap that ends left every resource as planned (Observation). *)
ObservedSafe ==
    program = "observation" =>
        /\ Observed!TypeOK
        /\ Observed!CreatedOnce
        /\ Observed!DoneIsTarget
(* A run is admitted only in the world that its evidence describes, and    *)
(* not while the temporary access or settings of a dead run are left       *)
(* (Observation).                                                          *)
ObservedSteps ==
    /\ Observed!AuthorizedWorld
    /\ Observed!LeftoverBlocks
=============================================================================
