----------------------------- MODULE MCEventually ----------------------------
(* What must happen in the end, on instances that are small enough for it: *)
(* one production worker, two cleaners of the registry's bridge, two hosts *)
(* or operators of each program that takes effect once, the bootstrap's    *)
(* observation, and a batch of two threads. They share nothing; a          *)
(* behaviour is one of them.                                               *)
EXTENDS Naturals, Sequences, FiniteSets

CONSTANTS None, r1, k1, k2, w1, h1, h2, a1, NoPlan, NoReceipt

(* One candidate that replaces package a by b, and a rollback to a.        *)
MCReleases == {"candidate", "rollback"}
MCTarget == [r \in MCReleases |-> IF r = "candidate" THEN "b" ELSE "a"]
MCBaseline == [r \in MCReleases |-> "a"]
MCInitial == [pkg |-> "a", rest |-> "x"]

OwnGeneration == [r \in {r1} |-> r]
(* The two assignments of the 559c recovery.                               *)
Assignments == <<"packageAdd", "packageRead">>
(* A bootstrap may be stopped at any operation.                            *)
Names ==
    {"claim", "application", "service", "grant", "identity", "writer",
     "lock", "key", "definitions", "bridge", "assignments", "attach",
     "addRule", "addController", "empty", "dropController", "addPackage",
     "package", "dropPackage", "addFence", "fence", "dropFence",
     "removeRule", "settings", "worm", "canary", "accepted", "detach",
     "writerResult", "legacyFic", "fic"}

VARIABLES
    program,  \* the one that runs
    state, lateWatcher, bridge, revoked, fences, resultsWatcher, evidence,
    markers, runner, cleaner, beats, faultsWatcher, closings,
    fence, leaseFence, leasesFence, settingsFence, running, consumed, aborted,
    plans, pcFence, req, grant, mineFence, owner, crossed, crashesFence,
    fic, claim, flightRepin, papers, pcRepin, seenRepin, ledgerRepin, torn,
    faultsRepin,
    blobs, manifest, lateAccepted, grants, bound, request, pcAccepted,
    atAccepted, completed, created, proved, result, envelope, success, after,
    canary, faultsAccepted,
    settingsSettings, broken, docSettings, ledgerSettings, terminalSettings,
    puts, flightSettings, edited, pcSettings, auth, triesSettings, dead,
    faultsSettings, edits,
    lockRole, present, docRole, used, issued, intents, flightRole, pcRole,
    err, n, terminalRole, excused, faultsRole,
    az, pinned, pcObserved, beganObserved, seenObserved, spare, pos, own, why,
    drifts, stops, made, deleted, still,
    world, beganBatch, outcome, answers, pcBatch, atBatch, turn, triesBatch,
    got, stopped, tokens, lockBatch, faultsBatch, batches, lateBatch

Watcher == INSTANCE CleanupWatcher WITH
    Runners <- {r1}, Generation <- OwnGeneration, Cleaners <- {k1, k2},
    MaxFence <- 3, MaxBeats <- 0, MaxFaults <- 1,
    late <- lateWatcher, results <- resultsWatcher, faults <- faultsWatcher

Fence == INSTANCE ActivationFence WITH
    Workers <- {w1}, Releases <- MCReleases, Candidates <- {"candidate"},
    Packages <- {"a", "b"}, Rests <- {"x", "y"}, Target <- MCTarget,
    Baseline <- MCBaseline, Initial <- MCInitial, Flaky <- {}, StallAt <- {},
    MaxLeases <- 4, MaxOwner <- 0, MaxCrashes <- 2, lease <- leaseFence,
    leases <- leasesFence, settings <- settingsFence, pc <- pcFence,
    mine <- mineFence, crashes <- crashesFence

Repin == INSTANCE FicRepin WITH
    Hosts <- {h1, h2}, MaxFaults <- 1, flight <- flightRepin, pc <- pcRepin,
    seen <- seenRepin, ledger <- ledgerRepin, faults <- faultsRepin

Accepted == INSTANCE Registry WITH
    Runs <- {h1, h2}, Requests <- {h1, h2}, NFiles <- 1, Differs <- {1},
    MaxFaults <- 1, late <- lateAccepted, pc <- pcAccepted, at <- atAccepted,
    faults <- faultsAccepted

Settings == INSTANCE SettingsRecovery WITH
    Auths <- {a1}, Runs <- {h1, h2}, MaxFaults <- 1, MaxEdits <- 2,
    MaxReads <- 2, settings <- settingsSettings, doc <- docSettings,
    ledger <- ledgerSettings, terminal <- terminalSettings,
    flight <- flightSettings, pc <- pcSettings, tries <- triesSettings,
    faults <- faultsSettings

Role == INSTANCE RoleRecovery WITH
    Auths <- {h1, h2}, Targets <- Assignments, MaxFaults <- 1,
    lock <- lockRole, doc <- docRole, flight <- flightRole, pc <- pcRole,
    terminal <- terminalRole, faults <- faultsRole

Observed == INSTANCE Observation WITH
    Fences <- {"none", "pinned"}, Drifts <- {}, MaxDrifts <- 0,
    Stops <- Names, MaxStops <- 2, AbsentSite <- "empty", pc <- pcObserved,
    began <- beganObserved, seen <- seenObserved

Batch == INSTANCE BatchRead WITH
    N <- 3, W <- 2, Hosts <- <<"arm", "graph", "arm">>, MaxTries <- 2,
    MaxWorld <- 1, MaxFaults <- 2, MaxBatches <- 1, began <- beganBatch,
    pc <- pcBatch, at <- atBatch, tries <- triesBatch, lock <- lockBatch,
    faults <- faultsBatch, late <- lateBatch

watcherVars ==
    <<state, lateWatcher, bridge, revoked, fences, resultsWatcher, evidence,
      markers, runner, cleaner, beats, faultsWatcher, closings>>
fenceVars ==
    <<fence, leaseFence, leasesFence, settingsFence, running, consumed,
      aborted, plans, pcFence, req, grant, mineFence, owner, crossed,
      crashesFence>>
repinVars ==
    <<fic, claim, flightRepin, papers, pcRepin, seenRepin, ledgerRepin, torn,
      faultsRepin>>
acceptedVars ==
    <<blobs, manifest, lateAccepted, grants, bound, request, pcAccepted,
      atAccepted, completed, created, proved, result, envelope, success,
      after, canary, faultsAccepted>>
settingsVars ==
    <<settingsSettings, broken, docSettings, ledgerSettings, terminalSettings,
      puts, flightSettings, edited, pcSettings, auth, triesSettings, dead,
      faultsSettings, edits>>
roleVars ==
    <<lockRole, present, docRole, used, issued, intents, flightRole, pcRole,
      err, n, terminalRole, excused, faultsRole>>
observedVars ==
    <<az, pinned, pcObserved, beganObserved, seenObserved, spare, pos, own,
      why, drifts, stops, made, deleted, still>>
batchVars ==
    <<world, beganBatch, outcome, answers, pcBatch, atBatch, turn, triesBatch,
      got, stopped, tokens, lockBatch, faultsBatch, batches, lateBatch>>

EitherInit ==
    /\ program \in {"cleanup", "fence", "repin", "registry",
       "settings", "role", "observation", "batch"}
    /\ Watcher!Init
    /\ Fence!Init
    /\ Repin!Init
    /\ Accepted!Init
    /\ Settings!Init
    /\ Role!Init
    /\ Observed!Init
    /\ Batch!Init
    /\ grants = {}
    /\ program # "registry" =>
           bound = [p \in {h1, h2} |-> CHOOSE a \in Accepted!Artifacts : TRUE]
    /\ program # "observation" => ~pinned

Turn(p) == program = p /\ UNCHANGED program

EitherNext ==
    \/ Turn("cleanup") /\ Watcher!Next /\ UNCHANGED <<fenceVars, repinVars, acceptedVars, settingsVars, roleVars, observedVars,
           batchVars>>
    \/ Turn("fence") /\ Fence!Next /\ UNCHANGED <<watcherVars, repinVars, acceptedVars, settingsVars, roleVars, observedVars,
           batchVars>>
    \/ Turn("repin") /\ Repin!Next /\ UNCHANGED <<watcherVars, fenceVars,
           acceptedVars, settingsVars, roleVars, observedVars,
           batchVars>>
    \/ Turn("registry") /\ Accepted!Next /\ UNCHANGED <<watcherVars,
           fenceVars, repinVars, settingsVars, roleVars,
           observedVars, batchVars>>
    \/ Turn("settings") /\ Settings!Next /\ UNCHANGED <<watcherVars,
           fenceVars, repinVars, acceptedVars, roleVars,
           observedVars, batchVars>>
    \/ Turn("role") /\ Role!Next /\ UNCHANGED <<watcherVars, fenceVars,
           repinVars, acceptedVars, settingsVars, observedVars,
           batchVars>>
    \/ Turn("observation") /\ Observed!Next /\ UNCHANGED <<watcherVars,
           fenceVars, repinVars, acceptedVars, settingsVars,
           roleVars, batchVars>>
    \/ Turn("batch") /\ Batch!Next /\ UNCHANGED <<watcherVars, fenceVars,
           repinVars, acceptedVars, settingsVars, roleVars,
           observedVars>>

either ==
    <<program, watcherVars, fenceVars, repinVars, acceptedVars,
      settingsVars, roleVars, observedVars, batchVars>>
EitherSpec == EitherInit /\ [][EitherNext]_either

-----------------------------------------------------------------------------
(* Each program with the fairness of its module.                           *)
WatcherFair ==
    /\ \A k \in {k1, k2} : /\ WF_watcherVars(Watcher!Reconcile(k))
                           /\ SF_watcherVars(Watcher!Sweep(k))
                           /\ SF_watcherVars(Watcher!Act(k) /\ bridge' = "sealed")
    /\ WF_watcherVars(Watcher!Revoke) /\ WF_watcherVars(Watcher!Publish)
    /\ SF_watcherVars(Watcher!Lapse)
FenceFair ==
    /\ WF_fenceVars(Fence!Expire) /\ WF_fenceVars(Fence!Recycle)
    /\ WF_fenceVars(Fence!Run(w1)) /\ SF_fenceVars(Fence!Retry(w1))
RepinFair ==
    /\ \A h \in {h1, h2} : WF_repinVars(Repin!Apply(h))
    /\ WF_repinVars(Repin!Land)
AcceptedFair ==
    /\ \A p \in {h1, h2} : WF_acceptedVars(Accepted!Step(p))
    /\ WF_acceptedVars(Accepted!Land)
SettingsFair == \A r \in {h1, h2} : WF_settingsVars(Settings!Step(r))
RoleFair == \A a \in {h1, h2} : WF_roleVars(Role!Step(a))
ObservedFair ==
    /\ WF_observedVars(Observed!Work)
    /\ WF_observedVars(Observed!Observe \/ Observed!UseSpare)
    /\ SF_observedVars(Observed!Start) /\ SF_observedVars(Observed!Recover)
BatchFair ==
    /\ WF_batchVars(Batch!Collect \/ Batch!Drain \/ Batch!Return)
    /\ \A w \in 1 .. 2 : SF_batchVars(Batch!Work(w))

(* The observer, the validator and the operations agree on every permanent *)
(* prefix that an interrupted bootstrap leaves, up to the detach of the    *)
(* legacy bridge: none of them refuses it (Observation).                   *)
ResumeAccepts == program = "observation" => Observed!ResumeAccepts
(* A committed terminal marker frees the fence: see ActivationFence.       *)
TerminalRecovers == program = "fence" /\ FenceFair => Fence!TerminalRecovers
(* A lost session is closed: see CleanupWatcher.                           *)
CleanupRecovers ==
    program = "cleanup" /\ WatcherFair => Watcher!CleanupRecovers
(* An emptied inventory gets its credential: see FicRepin.                 *)
Repinned == program = "repin" /\ RepinFair => Repin!Repinned
(* A release that is bound to is completed: see Registry.                  *)
Completed == program = "registry" /\ AcceptedFair => Accepted!Completed
(* A used authorization is closed: see SettingsRecovery.                   *)
Closed == program = "settings" /\ SettingsFair => Settings!Closed
(* A suspended lock is restored: see RoleRecovery.                         *)
Restored == program = "role" /\ RoleFair => Role!Restored
(* An undisturbed bootstrap ends: see Observation.                         *)
Completes == program = "observation" /\ ObservedFair => Observed!Completes
(* Every batch ends: see BatchRead.                                        *)
BatchEnds == program = "batch" /\ BatchFair => Batch!Ends
(* What a worker or a runner leaves behind when it dies is put right by    *)
(* those who come after it, which may die as well: the fence is freed, the *)
(* lost session closed.                                                    *)
SessionsRecover ==
    /\ TerminalRecovers
    /\ CleanupRecovers
(* A program that takes effect once does not stop halfway for good: an     *)
(* emptied inventory gets its credential, a release its manifest, a used   *)
(* authorization its terminal record, a vault its lock.                    *)
ExecutorsEnd ==
    /\ Repinned
    /\ Completed
    /\ Closed
    /\ Restored
(* An interrupted bootstrap is observed, resumed and finished, and no      *)
(* batch of its reads hangs, whichever thread fails with the lock of the   *)
(* CLI in hand.                                                            *)
BootstrapEnds ==
    /\ Completes
    /\ BatchEnds
=============================================================================
