# A specification of the PaperDesk release verifier

This directory holds TLA+ specifications of the PaperDesk release verifier, the
independent control root that prepares, activates, accepts, rolls back and
cleans up after releases of a production site it does not own.  The modules are
translated from the Python source; TLC checks them on small instances, and
TLAPS proves theorems about thirteen of them for every value of their constants.

`PROJECT.json` lists the components, the runs, for each property a plausible
bug that breaks it (mutants), the source lines each definition stands for
(map), the disagreements between code and documentation (findings), the hazards
and the theorems.

Running:

    tlasany ActivationFence.tla
    tlc -workers 2 -config MCActivationFence.cfg MCActivationFence
    tlc -workers 2 -config MCExecutors.cfg MCExecutors
    tlapm ActivationFence_proofs.tla
    tlapm Executors_proofs.tla

# 1  Inventory

The system is a set of short-lived programs (GitHub workflow jobs, an App
Service with a few routes, WebJobs, a watcher that sweeps every minute) that
share no memory.  They meet in cloud state: blobs with leases and ETags,
write-once (WORM) blobs, the App Settings of a site, the ARM API and GitHub's.
Most of these offer no transaction across two requests, so that every program
is a sequence of single requests, any of which may fail, be lost on the way
back, or be followed by the death of the program.  That is what the models
keep: one action per request that changes something or reads something used
later.

| component | source | state | operations |
|---|---|---|---|
| Production activation, activation fence | `provider/private_release_bridge_azure.py`, `private_release_bridge_runtime.py`, `scripts/private_release_mailbox.py` (activate, consume, abort) | the fence blob (idle, or a receipt: plan, version, lease), its 60 second lease, the production site's App Settings, `consumed.json` / `aborted.json` / `completed.json` | prepare, consume, rollback, recover, complete |
| Write-once lifecycle | `scripts/private_release_mailbox.py` | claim, result, manifest, marker blobs | create, read back, create-or-read |
| Bridge handoff | `scripts/private_release_external_controller.py`, `private_release_mailbox.py` (MailboxClient, WebJobClient), `provider/private_release_bridge_entry.py` | the controller's container lease, the bridge's App Settings (durable, or with a transient token map), the bridge's running state, WebJob history, request and result deployments | run one request, emergency stop, scheduled cleanup |
| Deadline watchdog and rollback | `provider/watchdog_state_provider.py`, `scripts/check_deadline.py`, `scripts/watchdog_rollback_control.py`, `provider/wsgi.py` | one state blob under compare-and-swap, WORM receipts, GitHub's runs | publish, accept, claim, dispatch, the three rollback transitions, reconcile (automatic, manual), replay |
| Registry cleanup watcher | `provider/registry_bridge_cleanup_watcher.py`, `_azure.py`, `_runtime.py` | one session record under compare-and-swap, receipts, closure markers, the registry bridge | open, heartbeat, claim, bind, stage, refresh, receipt, finalize |
| Accepted-release registry | `scripts/accepted_release_registry.py`, `validate_registry_webjob_result.py` | payload blobs, the completion manifest, a result attestation per execution | persist, canary, overwrite negative, attest, pair two executions |
| Publisher credential repin | `scripts/private_release_v2_fic_repin.py` | a local ledger of numbered files, a global ARM claim, the federated credential inventory | observe, claim, delete S1, prove empty, create S2, resume |
| Cleanup locks | `scripts/private_release_v2_cleanup_locks.py` | management locks, role assignments | suspend, delete, restore |
| Bootstrap executor | `scripts/private_release_v2_bootstrap.py` | a one-use ledger directory, the journal in it, temporary grants, the plan's operations, the history of the bridge's WebJob | run, wait for a grant, run the canary, compensate, judge the journal, resume finalization |
| Bootstrap receipts, observers and terminal evidence | `private_release_v2_bootstrap_receipts.py`, `_observe.py`, `_terminal_s2.py`, `_webjob_evidence.py`, ... | none of their own: they read Azure, and build and validate documents | observe, read in batches, validate |
| Recovery executors | six `*_recovery.py` scripts | a ledger directory and documents per authorization | observe, confirm, intend, mutate once, read back, close |
| Key expiry maintenance | `private_release_key_expiry_maintenance.py` | a claim file, a temporary grant, a lock, the key's expiry | grant, PATCH, reconcile, clean up, prove |
| Production release control, verifiers, package builders, workflows | the remaining scripts and `.github/workflows` | none of their own | read, compare, archive |

How they interact:

  - The external controller (a workflow job) takes the controller lease, writes
    a mailbox request, injects a transient map with a GitHub token into the
    bridge's App Settings, starts the bridge, triggers the WebJob, and waits
    for a signed result.  The WebJob's entry runs the bridge runtime, which
    takes the activation fence and writes production.
  - A release workflow publishes its candidate to the watchdog's provider and
    later accepts it; the scheduled watchdog claims an overdue candidate and
    has the provider dispatch a rollback run at GitHub; that run walks through
    three transitions at the provider while it redeploys the baseline.
  - The cleanup watcher closes the session of a registry workflow that died,
    after another party has revoked its authority and published a fence
    document about that.

What is hard, and what makes each component correct:

  - *Activation.*  A site's App Settings have no conditional update, so the
    lease on the fence blob is all that orders the workers; it expires after 60
    seconds, and a lost answer of a PUT or of a marker's creation leaves a
    worker not knowing what it did.  Correct: production is written only under
    the receipt in force; a candidate is consumed or aborted, never both; an
    idle fence tells what production carries; a crash does not leave the fence
    held for good.
  - *Handoff.*  Three independent parties may write the bridge's map and two
    may stop it, and the verification of provisioning decides which of them
    gets to do it.  Correct: a WebJob never runs without its map, a bridge
    without a map is stopped, the map with the token never outlives its owner
    for good (the code does not keep the last one: run `token_left`).
  - *Watchdog.*  Receipts are written before the compare-and-swap they
    announce, and a repeated request is answered from its receipt.  Correct: at
    most one rollback is dispatched per candidate; an accepted candidate is
    never rolled back; no receipt takes effect twice.
  - *Cleanup.*  The cleaner's claim is a time in a document that no storage
    service enforces.  Correct: a claimed session never comes back, a closing
    that says "sealed" is true, every closing keeps its marker, a lost session
    is closed in the end.
  - *Repin, recoveries, maintenance.*  A destructive request between two
    ledger entries, from several hosts or processes that hold one
    authorization, with answers that are lost and requests that take effect
    later.  Correct: never two credentials, one request per authorization, the
    locks back in place, a terminal record that stays true.
  - *Registry.*  Nothing under a release's prefix can ever be replaced.
    Correct: a manifest stands for complete payloads of one acceptance, no lost
    answer or second acceptance blocks the prefix, repeated executions pair up.
  - *Bootstrap.*  A hundred requests under one authorization that is used once.
    Correct: no mutation without its durable intent, a failed run's receipt
    accounts for what it left, a temporary grant or an open network is never
    left unmarked, the journal of a complete execution passes the terminal
    policy and no other does, the canary's run is told from those of others,
    and the permanent prefix that an interrupted run leaves is observed,
    authorized and adopted as it is.

# 2  Plan

| order | module | composes / refines | state |
|---|---|---|---|
| 1 | `ActivationFence` | refines `ReleaseSettlement` | written, checked, safety proved |
| 2 | `BridgeHandoff` | runs `process_authorized` as one step | written, checked, safety proved |
| 3 | `WatchdogRollback` | provider, watchdog, control | written, checked, safety proved |
| 4 | `CleanupWatcher` | runner, cleaner, authority publisher; with `BridgeHandoff` in `Sessions` | written, checked, safety proved |
| 5 | `BootstrapCloud`, `CleanupLocks`, `BoundedCanary`, `BootstrapExecutor` | the executor EXTENDS guard and canary, all three the cloud | written, checked, safety proved |
| 6 | `FicRepin`, `Registry` | | written, checked, safety proved |
| 7 | `SettingsRecovery`, `BridgeRecovery`, `RoleRecovery`, `KeyMaintenance` | with row 6 and `EvidenceLedger` in `Executors` | written, checked, safety proved |
| 8 | `EvidenceLedger`, `TerminalJournal`, `ReadinessWindow` | what the executor's ledger, journal and timed loops promise the models of row 5 | written, checked, safety proved but for the journal's |
| 9 | `CanaryRun`, `CanaryProof` | the history inside `BoundedCanary`; the proof EXTENDS the run; with row 10 in `Executions` | written, checked, safety proved |
| 10 | `Observation` | the plan's operations seen from the observer | written, checked, safety and steps proved |
| 11 | `BatchRead` | refines `ReadWindow`, on whose promise the answers of `Observation` rest; with two of row 8 in `Reads` | written, checked, safety and the refinement proved |
| 12 | `BridgeHandoff` with `ActivationFence` instead of `RunEnds` | composition | open: the fence under a controller that gives up |
| 13 | proofs for the rest of rows 8 and 10 | | open: `JournalSafe`, `ResumeAccepts` |

Two abstract specifications are stated: `ReleaseSettlement` for the activation
and `ReadWindow` for the observer's batches.  Others worth stating: a rollback
as "accepted or rolled back, once" over `WatchdogRollback`, a session as
"active, claimed, closed" over `CleanupWatcher`.

# 3  The models

Conventions.  A process has a program counter, and one action stands for the
code between two requests together with the request itself; guards come from
the code's conditions, and a check that fails leads to the action that models
the exception's way out (`Fail`, `End`, `Skip`).  A request that changes cloud
state and whose answer may be lost is one action with a disjunct for "applied
but not heard of" where the code treats that case differently.  Digests and
identifiers are compared for equality only, so that a document stands for its
own digest.  `StallAt` names the program counters at which a process may be
paused for longer than the lease it holds.

**ActivationFence.**  `fence` is the fence blob's body, `lease` the lease
active on it, `settings` the production site's App Settings split into the
package URL and the rest, `running` what the site serves (restart and recycle
bring it in line), `consumed` and `aborted` the markers' bodies (the receipt
they name).  A worker goes through `PrepareObserve` or `Request`, `Acquire` /
`TakeLease` / `Bind` (BlobActivationFence.acquire), `Read` .. `Probe`
(activate_run_from_package, rollback_run_from_package; `Undo*` is the
restoration of the old map), `Consume` / `CreateConsumed`, `Abort` /
`CreateAborted`, and `Fence*` (complete).  `Expire` is the lease's time limit,
`OwnerWrite` an out-of-band write by a subscription owner, `Recycle` App
Service restarting a site on its own.  The reads of ProductionActivation.put
around its two renewals are one action (`PutRead`); the PUT is another.

**ReleaseSettlement** is what activation promises with none of that: one plan
in force, production moving between its two maps, the plan recorded done or
undone under the right map, freed once recorded.  An owner's out-of-band write
is its `Meddle`, after which it promises nothing about the map.

**BridgeHandoff.**  `lease` is the container lease, `settings` the owner of the
map in the bridge's App Settings or `Durable`, `site` and `order` the App
Service's state and what it was last asked, `runs` the WebJob history,
`requests` / `results` the mailbox.  A controller goes through `Lock`,
`PutRequest`, `Seal` .. `InjectBack` (BridgeLease.acquire), `Start*`, `Run*`
(WebJobClient.run_and_wait), `Result`, then the cleanup list of _run_bridge:
`Reverify`, `Stop*` or `EmergencyCheck`, `Release*` / `Restore*`,
`DeleteRequest`, `Unlocked`, each of which may fail and be skipped.  Any request
before that list may raise (`Fail`): the wait for a start ends with its POST,
with any poll or with the last of the sixty, and `gaveUp` remembers who left a
start behind that may still show.  `Clean*` is cleanup_expired_transient as it is
scheduled.  Both functions are handed a `verifier`, and ask it before they draw
a lease (`Verify`) and again (`Reverify`, `CleanVerify`, at three places).  The
code's, ProvisioningVerifier, wants the App Settings to be exactly the durable
map (`Exact`): it passes no bridge with a transient map in it, so that a
controller that has injected one releases nothing but the lease, and the cleanup
ends before it reads the map.  Everything behind those checks can only be
reached with a verifier that does not compare the settings; the runs and the
proofs cover both.  `Unverified` names who may fail for any other reason.

**WatchdogRollback.**  `storage` is the state blob (document, ETag, digest of
the last transition's receipt) and the WORM blobs; `sent` the requests ever
sent, so that each may arrive late or twice; `job` the provider's processes,
each at one point of one request; `github`, `control` and `deployed` the
rollback runs and the control script in them.  A provider process takes a
request, evaluates it against the state it read (`Transit`, `ClaimRollback`,
`Rebind`, `Arm`, `Reconcile`, or from a receipt found: `Replay`, `Recover`),
writes its receipt (`Write`), and replaces the state under the ETag it read
(`Swap`).  The time stamps the documents carry are `Instants`: `Stamp` is
generatedAt, and two documents made at one instant are equal bytes.
`Responses` says whether a transition's answer carries the digest the control
compares: never for the provider, always for the test double the repository
tests the control with; the passing run has both.  A rejection ends the process without trace; a GitHub
rejection is a crash before the outcome.

**CleanupWatcher.**  `state` is the session record (document with ETag),
`late` whether its lease has passed, `cloud` the bridge, the revoked
authorities, the published fence documents and the results; `worm` the
receipts and closure markers.  A runner opens (after retaining the marker of
the session before), beats, works and finishes or is lost.  A cleaner claims,
binds the history, makes two rounds of `Load` / `Act` / `Assess` / `Reload` /
`Renew` (stage_assessment, refresh_claim_for_evidence), writes the receipt,
closes and marks.  The bridge is sealed or open: stop, reseal and deletion of
the transient settings are one action, which may fail.

**BootstrapCloud, CleanupLocks, BoundedCanary, BootstrapExecutor.**  `cloud`
says of each resource the executor touches whether it is there (or enabled, or
running, or as desired).  One `Send` is a whole `_mutation_request`: the intent
is counted in `asked`, and the answer is an expected status in time, a refusal,
or nothing to rely on (a transport error, a server error, a late or unjournaled
success: one class, because each leaves the outcome open; `doubt` keeps the
request).  In the last case the request may have taken effect, may be ignored,
or may take effect at any later time (`flight`, `Land`); so may a request that
ARM accepted with 202.  A wait for a creation's settlement window assumes
that the window is as long as the code takes it to be: `Settled`.  `Operation`
is the loop's head, with `live` for the authorization (`Expire`); `AddRule`,
`Grant`, `CreateBlob`, `Configure` are the temporary operations, `RemoveRole` ..
`RoleRemoved`, `SettleBlob` .. `BlobGone`, `RemoveRule`, `RestoreStop` ..
`SettingsRestored` their removals, used by the plan (`i` > 0) and by
compensation (`i` = 0) alike; `Advance`, `Abort`, `Removed` and `RemovalFailed`
are the ends of an operation, with the bookkeeping of temporary_owned and
cleanup_proofs.  `CleanupLocks` is the guard `RemoveRole` calls, `BoundedCanary`
the try/finally of startBridgeForBoundedCanary with the ledger's marker.
`Finalize`, `Assemble` and `Resume` write the evidence files, `Crash` is the
death of the process.  The plan's four role phases never overlap, so that a
behaviour has one of them (`role`), between the rule's addition and removal;
one guarded retirement of a legacy assignment (`Retire`) stands for the four of
the plan, and the other permanent operations only succeed or fail.

**EvidenceLedger** has what the executor's models take for granted, its files:
`view` is what a reader finds in a file (nothing, a torn one, a full one),
`safe` the files that survive a loss of power.  `Begin`, `Write` and `Sync` are
UseLedger._write and write_create_only_artifact between two calls of the file
system; a process may die at each (`Dies`), the power may go (`PowerLoss`, which
may take anything unsafe with it).  `Apply`, `Mkdir`, `Parent` and `Claim` are
the use of an authorization, `Intent` / `Send` / `Answered` one mutation, `Mark`,
`Enable` and `Clear` the marker of an opened network, `Verified`, `Artifact`,
`Readback` and `Terminal` the evidence, `Resume` its completion by another
process, `Undo` a compensating mutation between an exception (`Raise`) and the
terminal receipt, with records of its own, `Admit` a bootstrap of another authorization.  The names of the
journal's files are constants (`IntentOf`, `ResultOf`), which only have to be
names of their own.

**TerminalJournal** has the journal from its two sides.  `Start`, `Send`,
`Answer`, `Denied`, `Trouble`, `Release` (the lease that may be held after a
failed acquisition or renewal), `Compensate` and `Finish` write it, operation by
operation of the whole plan, each with the script of its requests (`Script`);
`Accepts` is the terminal policy that reads it afterwards: the records are
well-formed (`WellFormed`), each operation has the requests its path requires
and no other (`Covered`), locks are bracketed, denied attempts are a prefix, the
lease, the canary and the settings are exact.  `slow` tells that the read
between the time of the control and the settings' PUT took longer than the
policy allows.  `Edit` puts any journal with one
or two records lost, doubled, exchanged or relabelled before that policy.

**ReadinessWindow** has the timed loops, one of `Kinds` per behaviour, with the
code's own numbers: what a loop may use (`Work`, `Deadline`), when its last
observation must be made (`FinalAt`) and what is left for what follows.  `Look`
requires the whole envelope of a request, `Answer` and `Lose` end it, `Sleep`
waits, `Put` is the conditional create with its own retry.

**CanaryRun, CanaryProof.**  `runs` is what the WebJob's history will list,
written by this executor and by others (`Begin`, `Finish`).  A history read is
`ReadList` (throttled, 404, or the list), then one `ReadDetail` for every run
listed without its fields, so that its entries are of different times.  It is
read for three purposes (`stage`), judged by `JudgeBoundary`, `JudgePoll` and
`JudgeFinal`; `Trigger` may be lost or late (`Arrives`).  CanaryProof adds the
document the canary hands on (`Proof`) and the validator of retained evidence
(`Accepted`).

**Observation.**  `az` is Azure as the plan sees it, one field per resource,
`seen` the answers of an observation.  `Observe` opens the window, `CloseBatch`
takes the answers of the batch, each as of some time of the window (`Answers`),
and then those of the boundary reads; `Judge` is the observer's decision for
every operation (`Admission`) and the validator's check of them (`Unfit`, from
`StatusFits`, `ContextFits` and `CrossFits`); `Keep` and `UseSpare` put a
reviewed document aside; `Start` and `Admit` are the executor's fresh reads and
the comparison with its authorization.  `Operation` then applies or adopts what
it finds (`Proved`, `Does`); a run that fails is compensated, one that is
interrupted (`Interrupt`) may leave its temporary access, which `Recover` takes
away.  `Drift` is anybody else's write.

**ReadWindow, BatchRead.**  ReadWindow is what Observation relies on: a batch
raises, or every answer is of its window.  BatchRead is read_many: each thread
goes through its share of the requests (`Check`, `Token`, `Cli`, `Respond` or `Trouble`
with its three attempts), an error sets the event that stops the others, and the
caller collects.  Its refinement mapping is the caller's variables with `open`
for "reading or raising".

**FicRepin.**  `fic` is the credential inventory, `claim` the ARM deployment,
`ledger` and `torn` each host's files.  A host's run goes through `Read`,
`ClaimRead` / `ClaimPut` / `ClaimBack`, `Claimed`, the deletion, `ProveEmpty`,
the creation, `Final` and `Terminal`; every file it records may be torn by its
death, every request may be lost and take effect later (`Land`), and `Expire` is
the authorization's end.

**Registry.**  `blobs` and `manifest` are the immutable prefix.  An execution
goes through `Download`, `Preflight`, per payload `Get` / `Upload` / `Negative` /
`Probe` (the overwrite that must be refused), `PutManifest`, `ReadManifest`, `Return`
and `Attest`, each write create-only (`Create`) and possibly late (`Land`);
`CanaryCreate` / `CanaryProbe` are the storage canary, `ResultSet` what the control
accepts as a pair of executions.

**SettingsRecovery, BridgeRecovery, RoleRecovery.**  Each has the observation,
the confirmation and the expiry of its documents (`doc`), the ledger directory
of an authorization, and the steps of apply with every intent before its
request.  SettingsRecovery: `FinalSafety`, `FinalSite`, `FinalMap`, `Intent`,
`Put`, `ReadBack` while an administrator writes (`Edit`).  BridgeRecovery: the
plan of four mutations, each `Mutate` / `AwaitResult` / `WaitEffect` / `Live`, the
stop repeated when Azure restarts the site (`Restop`), then the archive of the
marker (`Pending`, `Archive`).  RoleRecovery: `Unlock`, per assignment `Check` /
`Drop` / `Dropped`, and in finally `Relock`.

**KeyMaintenance.**  Time in seconds from the authorization's start, as the code
counts it.  `Absent`, `Put` and `Settle` grant the role, `Propagate`, `GetKey`,
`Patch` and `Reread` renew the key, `Reconcile*` waits for what it is not sure
of, `Unlock` / `Delete` / `Relock` / `Definition` clean up within their phase
budgets (after an error of the guard the lock is restored, and nothing but the
proof follows), `Proof` ends with the receipt.

**Sessions, Executors, Reads, Executions.**  Each puts several components side by side, with
those variables renamed that two of them share; the variable `program` picks at
the start the one that runs (`reading` in `Reads`), the others stand still.  This is a disjoint sum: a
behaviour of the sum is a behaviour of one component.  `Sessions` has the
handoff and the cleanup sessions, which stop and seal a bridge; `Executors` the
programs that are to take effect once; `Reads` the executor's batch, timed loops
and journal; `Executions` the canary and the observation.  Their properties conjoin the
component's own under `program = "..."`, so that one run answers one question
about several programs (those of the handoff stand in `BridgeHandoff` itself and
hold while it stands still, too, and those of the batch in `BatchRead`).  The assumptions on the constants, on which
the proofs rest, are stated there (`SessionsOK`, `ExecutorsOK`,
`ReadsOK`, `ExecutionsOK`) and evaluated by the runs.

**The MC modules.**  Each gives one of these, or one component, its constants.
`MCEventually` composes its components itself, in the same way.

# 4  The runs

Passing runs.  A property that is a conjunction is given with its parts; the
comment before each part, in its component's module, says what it means.

| run | configuration | what it shows |
|---|---|---|
| fence | two workers, one candidate, one rollback, 3 leases, 1 crash, 1 owner write | `TypeOK`, `TerminalExclusive`, `FenceInv` (the inductive invariant), `SettledProduction`, `WritesUnderFence`, `FenceDiscipline`, and `Implements`: the workers refine `ReleaseSettlement` |
| sessions | two controllers, one cleanup, the code's verifier or another, 3 leases, 1 crash; or two runner sessions, two cleaners, 3 fences, 1 fault, 1 heartbeat | `HandoffSafe` (TypeOK, OwnerKeepsMap, RunUnderItsMap, DurableIsStopped), `HandoffSteps` (MapUnderLease, InjectStopped); `CleanupSafe` (TypeOK, SealedTruth, ClosingRetained), `CleanupSteps` (OnlyClaimant, NoRevival) |
| watchdog | one candidate, three watchdog runs, a reviewer, two provider processes, both kinds of responses, up to the end of the rollback | `TypeOK`, `RollbackOnce` (DispatchOnce, AcceptedOrRolledBack), `RollbackTold` (ControlOwns, EvidenceFirst), `AppliedOnce` |
| bootstrap | one execution, 2 conditional PUTs of the canary blob | `TypeOK`, `ReceiptTruth` (Accounted, EvidenceTruth), `ExposedIsMarked`, `NoRetry`, `BlobBeforeRole` |
| executors | each program with two operators or processes and 1 or 2 faults, the ledger with three processes and two compensating mutations; three payload files of which two differ between two acceptances; two restarts of the bridge, two writes of the administrator; the key ceremony begun at 0, 60 or 116 s | `RepinSafe` (NoOverlap, ReceiptTruth, Resumable), `SettingsSafe` (OnePut, LedgerTruth), `OnlyAcceptedRace`, `BridgeSafe` (OrderSafe, ArchivedTruth, OnceEach), `RoleSafe` (LockBack, SuccessTruth, InOrder), `KeySafe` (ReceiptTruth, CleanupFits, NothingForgotten), `RegistrySafe` (CompleteManifest, NoMixture, Provenance, ReportTrue, NeverRejected, IdempotentPair, AccessProven), `LedgerSafe` (SingleUse, JournalAhead, EvidenceFromJournal, BundleLast, OpenIsMarked), each with its TypeOK |
| reads | four requests, two threads, two hosts, 2 faults, 2 batches, 3 attempts, 2 changes of Azure; the five loops in quarter seconds under five reserves and ten times of the grant; two executions that between them take every path of the plan, with up to 3 denials of one request or a slow read | `NeverIncomplete`, `BatchSafe` (TypeOK, Drained), `Implements`: read_many refines `ReadWindow`; `WindowSafe` (FullInterval, CreateFits, TimeEndsIt, ReserveKept, AbsentIsLate); `JournalSafe` (NominalAccepted, AcceptedIsTrue) |
| executions | three runs of the job, two attempts, two polls, two details per census; one representative of each family of foreign writes, two of them at any time, one interruption at four operations | `CanarySafe` (Attributed, FailureTruth, BoundaryAdjacent, TriggeredOnce, BudgetRefusal, ProofAccepted); `ObservedSafe` (CreatedOnce, DoneIsTarget), `ObservedSteps` (AuthorizedWorld, LeftoverBlocks) |
| eventually | one worker with two crashes; one runner session, two cleaners; two hosts, executions or operators of each program; two interruptions at any operation; two threads | `ResumeAccepts`; `SessionsRecover` (TerminalRecovers, CleanupRecovers), `ExecutorsEnd` (Repinned, Completed, Closed, Restored), `BootstrapEnds` (Completes, BatchEnds) |

Why the bounds are enough.  Two workers, controllers, provider processes,
hosts or executions are what a race needs; a third lease identifier lets the
second holder lose its lease too; one crash between any two steps, with the
processes that find what it left.  Three watchdog runs are what a released claim
and a new one need; the third has its turn only when a claim has lapsed, no
reviewer has reconciled and no authorized rollback deploys (`Crew` in
`MCWatchdogRollback`).  Three denials are the limit of the lease's actions (the
creates' is 63), all of one request, and in an execution without a slow read.
A slow read takes 3 steps where the policy allows 2.  Two compensating mutations
let the second meet what the first left in the journal.  `MaxWrites` bounds the ETag of the watchdog's state and is
set above what the runs' requests can produce.  `MaxCreates` is 2 for the code's
64: each refused PUT of the canary blob leaves everything as it was.  A
liveness property that meets the bound on leases or fences says so: "or the
bound is reached first".  The ledger has three processes: one dies, one loses
power or resumes, one finds what is left.  Three payload files let a mixture
appear in the two that differ; with one it cannot.  Four requests over two
threads give each thread a second request, and two hosts a token that one
thread has and the other fetches.  The canary's budget is small enough that
a history does exceed it.  Two foreign writes suffice to change a resource
between two reads and back before a third.  The loops use the code's own
intervals; a quarter second is fine enough to tell its slack of one second from
none.

The violation runs are findings: a documented statement that the code does not
keep.

| run | statement | what happens |
|---|---|---|
| aborted_replay | an aborted candidate is not activated again | a repeated consume request is activated first and refused afterwards |
| token_left | the cleanup reverifies provisioning and removes the transient keys of a dead controller | provisioning is the exact durable map, so the cleanup fails while a transient map is there, in `main` and again in the function |
| overdue | an overdue candidate is claimed | a state a day old never passes the freshness limit of 15 minutes |
| authorized | an authorized rollback deploys | the field the control compares is not in the provider's answer |

Eight more documented statements are stated in the component modules, and TLC
refutes them; they have no run here.  To see the counterexample, check the
definition on the module with the constants of its composite run.

| definition | statement | what happens |
|---|---|---|
| `FicRepin!SingleReceipt` | the ARM claim is "permanent single-use", only the same host resumes (the repository's `README.md:684`, `scripts/private_release_v2_fic_repin.py:1282`) | `_ensure_global_claim` takes over a claim that another host created: two hosts end with a terminal receipt of one authorization |
| `KeyMaintenance!ConvergedCleanup` | "A first404 after an ambiguous creation is not a convergence proof" (`scripts/private_release_key_expiry_maintenance.py:705`) | an exception of the reconciliation ends the cleanup, and the final proof may still precede the late creation (`:848`) |
| `EvidenceLedger!SuccessIsDurable` | "exact bytes are fsynced then read back before success is returned" (`scripts/private_release_v2_bootstrap.py:22878`) | a file that already exists counts as written, although the process that wrote it died before its fsync |
| `ReadinessWindow!ControllerInterval` | "Preserve the full readiness interval" (`scripts/private_release_v2_bootstrap.py:17638`) | without a second of slack the last request is refused at the boundary |
| `ReadinessWindow!SettlementDecides` | "Preserve the final envelope for a GET begun at the boundary" (`:21835`) | the deadline of the final observation is one reading of the clock plus 90 s, and the envelope is checked by a later reading: it is always refused |
| `CanaryProof!ClosedIsProven` | evidence has a form for a network that was found disabled (`scripts/private_release_v2_webjob_evidence.py:276`) | the canary itself fails that case as "incomplete" (`scripts/private_release_v2_bootstrap.py:21008`) |
| `Observation!DetachedResumes`, `Observation!RetiredResumes` | "the exact permanent prefix remains for fresh observation and adopt-exact resume" (the repository's `README.md:380`) | behind the detach the observer says "exact" where the validator expects "absent"; behind the retirement of the legacy credential the observer refuses the empty collection |

Pauses that the code cannot detect.  A service that carries out an effect knows
nothing of the lease its caller holds.  `StallAt` is therefore, in the safety
runs, every program counter but those between a last renewal (or the check of
a claim's time) and the one effect it protects; with `StallAt` the whole of
`Counter`, TLC refutes `WritesUnderFence` (a worker paused for a minute before
its PUT writes production after another worker took over), `MapUnderLease` (the
same for the bridge's map, against the comment at
`scripts/private_release_external_controller.py:580`).  No property is claimed for
that pause, and nothing in the code bounds it.  Likewise a cleaner of the
registry's bridge that is slower than its claim stops and reseals the bridge of
the next session; `CleanupSteps` only says that it records nothing in that
session's claim.  And the conjuncts of the handoff about a stopped bridge
(`DurableIsStopped`, `InjectStopped`) carry `Settled`: with a verifier that does not
compare the settings, a controller that gave up its own pending start would
remove its map before the start shows.  With the code's verifier it cannot, at
the price of `token_left`.  With two workers it refutes
`TerminalRecovers`: `process_request` looks for the terminal marker before it
takes the fence and not again, so that a worker may rebind the fence after
another committed the marker and died, and the marker then names a receipt that
is no longer in force; `eventually` has the case of one worker.

`NominalAccepted`, that the policy takes every honest complete journal, exempts an
execution with a slow read: the read before the settings' PUT has 90 seconds of its
own (`scripts/private_release_v2_bootstrap.py:19589`), and the policy refuses an intent
later than 30 seconds after the control was issued (`:3280`), so that a successful,
irreversible execution can be left without acceptable evidence.

Two statements of the bootstrap's runs have exceptions, which say what the code
does not do.  `Accounted` exempts the firewall rule and the settings whose own
request had no answer to rely on: `addOwnedUploaderIpv4Rule` does not own a rule
whose PATCH answered late, with a server error or not at all
(`scripts/private_release_v2_bootstrap.py:19261`), so nothing removes it and the
terminal receipt is silent; the settings are owned, but their compensation reads
them at once, and a PUT that takes effect later stays.  A lock that a retirement's guard
did not restore has no owner and is told by the exception alone.  `EvidenceTruth` exempts
settings that a failed run restored: if the directory's fsync fails after the
terminal source input was written, the settings are still owned and restored,
and a resume then completes a bundle from that input.  `EvidenceFromJournal` is true
of such a run, too, since the mutations of its plan are all on record, followed by
those of the compensation; no property says that the bundle takes notice of these.

# 5  Fairness

A liveness property of `eventually` has its module's fairness as antecedent,
since each behaviour is of one program:

  - `FenceFair`: a worker that serves a request goes on (weak fairness of its
    own steps; a request is repeated by its caller while the fence is held,
    `Retry`), and a lease that is not renewed expires.
  - `WatcherFair`: the watcher sweeps every 60 seconds
    (`registry_bridge_cleanup_runtime.py`), time passes, the authority of
    whoever is claimed is revoked and the fence document published by another
    party, and ARM requests do not fail for ever.
  - `RepinFair`, `AcceptedFair`: a run that goes takes its next step, and one
    that failed is started again, by the operator of the repin and by the WebJob
    or the bridge's caller of the registry; what Graph, ARM and Storage have
    accepted takes effect.
  - `SettingsFair`, `RoleFair`: a process that runs takes its next step.
    Nobody starts a second one: the ledger directory admits one.
  - `ObservedFair`: a run goes on; its operator observes again after a refusal,
    starts what was reviewed and recovers what a dead run left (both are
    disabled for a while by other steps, hence strong fairness).
  - `BatchFair`: the caller collects; a thread goes on, and the lock around the
    Azure CLI is given to each thread that waits for it in the end.  Both the
    CLI and an exchange have time limits, so that none holds it for ever.

The run `token_left`, of `BridgeHandoff` alone: the cleanup workflow is scheduled and
triggered by the end of every controller run, so its steps recur; App Service
carries out what it accepted; leases expire; its verifications, its stop and its
PUT are not refused for ever where they may succeed at all (strong fairness).
The token stays all the same.

The run `overdue`: the watchdog is scheduled every ten minutes (`Decide`), and a
provider process finishes what it took.

No run assumes that a process survives: crashes are actions of every fair
specification except where the bound on them is used up.

# 6  Proofs

`ActivationFence_proofs` proves, for any set of workers, releases, packages and
any bounds, from `ConstantsOK` alone:

  - `TypeSafe`: Spec => []TypeOK.  The inductive invariant is `Typed`, TypeOK
    with BusyOK: what a step writes comes out of the plan and the receipt of
    the worker, so these must be known to be there while it is busy.
  - `DisciplineSafe`: a held fence is only rebound by the same plan and only
    released for a plan with a terminal marker.  It rests on what a worker that
    completes the fence acts for, and on nothing about time.

and under `NoWindowStall` (no worker is paused for a whole lease term between
a last renewal and the one effect it protects):

  - `FenceSafe`: []FenceInv.  `TerminalExclusive` and `WritesUnderFence` are
    not inductive: that the other marker does not appear between the check and
    one's own creation depends on nobody else acting under the fence meanwhile.
    FenceInv says so in parts: no lease identifier is used before it is drawn
    (LeaseOK), two workers never present the same one (DistinctOK), a worker
    acts for its own plan under its own lease (GrantOK), in a window the fence
    and the lease are its own (WindowOK), only candidates are undone (UndoOK),
    and what it checked before a window still holds in it (CheckOK).  The last
    part, MapOK, is about production while no owner interferes: whoever has the
    receipt in force knows the map production carries after its PUT (Carrying)
    and after its restoration (Restored), and a marker records that map until
    another settlement binds the fence (Truthful).
  - `ExclusiveSafe`: []TerminalExclusive, `WritesSafe`: WritesUnderFence,
    both from FenceSafe.
  - `ProductionSafe`: []SettledProduction, from MapOK, and
    `SettlementImplemented`: Spec => Implements, that the workers refine
    `ReleaseSettlement`.  It goes action by action (NextImplements): most steps
    stutter, the PUTs are the abstract moves between the two maps, the markers
    its records, the release of the fence its end, the owner's write its
    `Meddle`.

The assumption is needed: with a pause there TLC refutes WritesUnderFence.

`BootstrapExecutor_proofs` proves, for any bound on the conditional PUTs of the
canary blob (`MaxCreatesAssumption`):

  - `MarkedSafe`: Spec => []ExposedIsMarked.  The marker is removed when the
    executor believes the enabling of the network complete (`opened`) and
    undone, so the inductive invariant, `MarkedInv`, says when it is right to:
    a completed enabling has no request under way, and the network is closed
    where the marker goes (NetworkOK).  That this belief is not left over from
    an earlier enabling rests on the order of the plan (OrderOK): the canary is
    its tenth operation, what follows it is the retirement only, and
    compensation never enters it again.  Most operations then need one lemma:
    they neither ask for the network nor leave that order (ExecPath, PathKeeps).
  - `RetrySafe`: Spec => []NoRetry, and `TypeSafe`: Spec => []TypeOK, with the
    distinct owners of temporary_owned.  A request would be sent twice if a step
    led back to where it is sent.  So the inductive invariant, `SentInv`, says
    where the executor is (PlaceOK: an operation, its step, and one of the five
    stacks of owners), names for each request the stages at which it is still
    ahead (Ahead: through the plan's own removals, the guard's and the canary's
    finally and compensation), and that it has not been sent while it is
    (OnceOK).  No step enters a stage again (Onward), and every request leaves
    its stage when it is sent (Due): the one lemma per operation.  What the code
    repeats on purpose is counted along the stages: the blob's DELETE (BlobOK)
    and the stop of the site (StopOK), four times at most.  For the
    lock (LockOK) the order does not suffice: a restoration must not PUT a lock
    that its own group did not delete, so no deletion of an earlier group may
    still be on its way when a group begins, and there the guard's memory of an
    ambiguous answer (`broken`, then `blocked`) decides.
  - `ReceiptHolds`: Spec => []ReceiptTruth (Accounted and EvidenceTruth), and
    `BlobFirstHolds`: Spec => BlobBeforeRole.  SentInv says what may still be
    sent; here the question is what may be there.  Whatever is there or under
    way was asked for, and from one place (CauseOK, At).  So the inductive
    invariant, `TruthInv`, can say of each thing that the run grants who answers
    for it until it is gone and no late request will make it (Gone): the owner
    on the stack or the step at work (RuleHeld, BlobHeld, RoleHeld,
    SettingsHeld), or the report of its failed removal, or a doubt that is on
    record; for the lock, the guard at work or its failure.  The lemmas
    RuleLeaves, BlobLeaves and their like show that an owner leaves only with a
    report or with a readback, and that the readback is final: nothing is then
    on its way that could undo it.  Once a file of the evidence exists all is
    done (DoneTruth), which no later landing and no resume changes.  The blob
    is deleted before its role because the blob's owner lies above the role's.

`BootstrapParts_proofs` proves, under `BatchAssumption`, `ReadsOK` and
`ExecutionsOK`, for any number of requests and threads, any hosts and any bounds:

  - `BatchNeverIncomplete`: Spec => []NeverIncomplete, the error that read_many
    keeps for a batch whose threads all ended and left a request unanswered.
    The inductive invariant `Inv` says where the answers are: a thread has
    answered its own requests before the one it is at (AllPlaced), every
    request is some thread's (lemma Owner), and a thread that ended early
    was stopped by one that raised (StoppedEarly, StoppedByOne), whose error
    the caller meets first.
  - `BatchImplements`: Spec => Implements, that the threads, their retries,
    tokens and the lock refine `ReadWindow`.  An answer is written as of a version
    of Azure not before the batch began, and versions only grow (in Shapes).
  - `BatchHolds`: []BatchSafe, that is TypeOK and Drained.  Its invariant counts
    the exchanges that a thread began after the first error: no more than its
    attempts, and none once it looked at the event (Asking); whoever calls the
    CLI holds the lock.
  - `WindowHolds`: []WindowSafe, for any latencies, grants, reserves and ticks of
    a second.  `ReadsOK` bounds what two readings of the clock may be apart by
    half a second, and an answered request, with one of them, by its ninety
    seconds.  The invariant relates the clock to the place of the loop: before a
    request its envelope lies before its deadline (Requesting), a loop sleeps
    before its boundary only (Sleeping), and the clock has run at least a full
    delay for every attempt behind the sixth (Driven), so that the boundary is
    reached before the 64 attempts are.
  - `CanaryHolds`: []CanarySafe, for any history in which only the last run is
    under way (a singleton job), any number of runs, polls, attempts and details.
    A history that was read is what is there now, but for runs that were under
    way (Snapshot); the token is unused, on its way, or of one run (OneToken).
    The run that was found stands just behind the boundary and nothing came
    between (Behind, Found), and the census, of a site that is down, shows
    nothing else (Census).  Budget counts what the polls may still take from the
    reads of the census.  For the proof the invariant follows the records that
    were told, one by one (Polling, Telling): the validator's order of a success
    is the order in which the run tells it.
  - `ObservedHolds`: []ObservedSafe, and `ObservedStepsHold`: ObservedSteps, for any
    foreign changes that `Foreign` admits (an application of the name is created,
    or those there are deleted; any other resource takes any of its states; a
    temporary role's name is derived from the authorization, so nobody else
    assigns it), any number of them and of interruptions.  Evidence that was judged has no refused
    member (Judged).  The applications of the executor's own are as many as it
    created and nobody deleted, one at most (Created), because a POST is
    authorized only by an answer that there is none, and behind that answer
    nobody but another creates one until the POST (NoneThere).  While
    nobody changes what a run has proved, each operation that is behind it
    has left its resource as planned (Reached); the lemmas Does_claim to
    Does_fic show it for adoption and for application of each of the 31.
    Undisturbed says that without foreign changes the window shows one world, and
    a site that is absent has no settings: so what a dead run left is in
    the fresh answers and was refused.

`BridgeHandoff_proofs` proves, for any number of controllers and cleaners and
any bounds, whichever verifier they are handed and however late a start shows,
under `Punctual` (nobody is paused for a whole lease term between a last renewal
and the request it protects):

  - `OwnerSafe`: []HandoffSafe, that is TypeOK, OwnerKeepsMap, RunUnderItsMap
    and DurableIsStopped, and `LeaseSafe`: HandoffSteps, that is MapUnderLease
    and InjectStopped.  The App Settings and App
    Service's orders know of no lease, so the invariant is about what a sender
    may still rely on: a lease identifier is drawn once and a lost one never
    returns (Drawn), a request is sent under the lease (Covered, lemma Sender),
    a controller's map is there until it restores it (Relies), a cleaner's
    target is a controller that is gone (Cleans).  The core is a start that is
    accepted and not visible yet (Awaited): its controller waits for it, or has
    lost the lease, or gave it up, which is where `Settled` comes in, and a cleaner
    sends a stop before it takes the map away.

`WatchdogRollback_proofs` proves, for any candidates, watchdog runs, reviewers
and provider processes, from `WatchdogOK` and at least one instant:

  - `RollbackSafe`: []RollbackOnce, `ToldSafe`: []RollbackTold.  Documents are
    numbered by their stamps, so a compare-and-swap acts on the very document
    its process looked at (SnapOK), and what a process or a receipt holds is one
    legal move from a document (Moves) that says what it did (Tells).  At most
    one token exists for an armed candidate, the process about to dispatch it or
    the run that was dispatched (TokenOK, OneToken); a publication's
    receipt takes effect once, so that the candidate does not come back (PastOK);
    only an authorized run holds the state in that condition (ControlOK).
  - `TypeSafe`: []TypeOK, by `Typed`: a document that was read, kept in a receipt
    or carried by a request is one, since each is made from another.
  - `OnceSafe`: the action property AppliedOnce.  A receipt that took effect
    names a document behind the state's for good, so that neither its repetition
    nor the provider's own recovery from it can swap again.

`Registry_proofs` proves, for any number of executions, requests and payload
files, under `RegistryConstants` (there is a file and a request, and "nothing" is
neither a payload nor a manifest):

  - `ManifestSafe`: []CompleteManifest, `MixtureSafe`: []NoMixture.  A stored
    file stays as it is, and one is only written when all before it were found to
    be of the same request (Mine), also when the write is late (LateOK): so
    whatever is there is a prefix of one request (Chain), and a manifest stands
    behind a whole one (Complete).
  - `RegistryHolds`: []RegistrySafe, with these and the other parts the run
    checks: where a file came from, that a report and a pair of them are true,
    that no execution is refused for ever, and that success proves the grants.

`Executors_proofs` proves, under `ExecutorsOK` (bounds are numbers, there is an
assignment to delete and it is not a lock, a ceremony begins at a time, the
journal's files have names of their own), for any number of hosts, processes or
authorizations of each program.  For each, `EitherSpec` implements the component's
own specification (lemmas `RepinRun`, `SettingsRun`, ...), and the component's
invariant is inductive there:

  - `OverlapSafe`, `ReceiptSafe`, `RepinHolds` ([]RepinSafe).  As long as S1 is
    there it is alone, no creation of S2 is under way and no host has found the
    inventory empty; so neither a run nor a request that takes effect late
    creates S2 beside it.  A host that proved S2 to be alone is right for good.
    That a host can resume needs its ledger: each file in it is written before
    the request it is about.
  - `OnePutSafe`, `SettingsLedgerSafe`, `SettingsHold` ([]SettingsSafe): whoever
    creates the authorization's ledger directory is alone with it (Alone, Made),
    so what it knows at each step (At) is what the ledger says; and
    `RaceAccepted` (OnlyAcceptedRace): a PUT, also one under way, can only meet a
    map that was written after the last look of its run, because
    the look itself finds the incident's map.
  - `BridgeHolds`: []BridgeSafe.  The plan opens nothing that it has shut: each
    mutation is read back before the next is sent, a request under way belongs
    to a step that is waiting for it, and the stops that Azure's restarts
    require are counted by their files.
  - `RoleHolds`: []RoleSafe.  The place in the sequence tells what was sent; whoever
    has the lock off has its restoration ahead, unless a request for or a read of the
    lock was lost, or the process died; and a success saw all of them
    absent with nothing under way.
  - `KeyHolds`: []KeySafe.  Each step has a latest time to begin (OnTime); the last
    is 3912 s, and the proof that follows it takes at most 1592 of the 5700 s.
    The windows of the two creations end by 900 s (Windows), and a creation under
    way is of a grant that is owned, or its window is over (Grants).  Nothing is
    under way behind a run without a failure, so that its PASS stays true
    (KeyTruth).
  - `LedgerHolds`: []LedgerSafe.  One process lives, the one that created the
    directory (LedgerAlone); what is durable stays as long as the directory
    does, and the directory is durable before the first record
    (LedgerKept); the evidence files come one after the other (Chain), the first
    behind a journal that is complete and durable (Sealed, Source).

`Sessions_proofs` proves, under `SessionsOK`, for any number of runners, cleaners
and authority generations:

  - `CleanupHolds`: []CleanupSafe, that is TypeOK, SealedTruth and
    ClosingRetained.  A step is about the session and the fence it read: the
    state is replaced only over the record that was read, a fence number is
    never used twice (Moved, Advance), and whoever can still work on the bridge
    belongs to the session in the state, which must not be fenced (RunnerOK,
    StateOK).  So the seal that a cleaner saw behind a fence document is still
    there when the closing says so (CleanerOK); and a closed record goes only
    when it is retained under a path of its own (RecordsOK).
  - `CleanupStepsHold`: CleanupSteps, that is OnlyClaimant and NoRevival, with no
    assumption on how slow a cleaner is: whoever replaces the record of a claim
    without moving the fence read it as its claimant, under its own session and
    fence.

Model-checked only:

- `JournalSafe`, what the terminal journal's policy accepts.  `TerminalJournal` reads the
  journal through `SelectSeq` with a test passed as an operator and compares strings it
  joins together; the installed provers take neither.
- `ResumeAccepts`, that an undisturbed prefix of the plan is never refused.  It needs, for
  each of the plan's operations in turn, that the step just made shows exactly the site,
  the settings and the roles the next observation asks for, and it holds only under
  the answer `MCEventually` assumes for the settings of an absent site.
- Every liveness property: liveness under fairness, ENABLED and induction over data are
  out of the prover's reach.

# 7  What is left out

Within the modelled components: signatures and key handling, the grammar of
documents, OIDC claims (a caller is who it says), the inventories of
the ProvisioningVerifier other than the App Settings (they hold or fail), the mailbox retention (`cleanup_mailbox`), the
bootstrap variants of prepare and consume, the validation of settings in the
bridge entry, the registry evidence an acceptance cites, the cleanup's
evidence policy, and of the bootstrap the preflight, the lease exercise of the
canary blob as requests of their own (the journal has them), and the projections
of single Azure documents.  That a cleanup receipt may be written without
results, against `contracts/registry_bridge_cleanup_contract.json:144`, is
visible in `CleanupWatcher` (`Renew`) and not stated as a run.  A provider or
storage service is modelled by how the source uses it and marked external in
the map.

Of the registry: archives and receipts are valid or not; the runtime canary and
the HTTP framing of the bridge are left out.  Of the recoveries: the incident
that a document is bound to is data, so that one module stands for the scripts
that differ in it only.  Of the key maintenance: the observation mode, which
changes nothing, and the grammar of plan and authorization.

In `Observation`: evidence does not grow old (its 300 seconds of validity are
left out), and a value that changes and changes back within one window is seen
as it was.  One operation stands for those of one kind: an identity for three,
the lock container for three, one WORM extension, one retired assignment.
"denied" stands for both of the answers that Storage gives to a reader without
access, "empty" for the controller's own canary blobs.  A fence that this
bootstrap created without an incident's receipts stops later runs, which the
repository's README says (`README.md:294`) and `Completes` exempts.  `AbsentSite` is
how ARM answers for the settings of a site that does not exist.

Not modelled: `private_release_v2_bootstrap_receipts.py` and
`private_release_v2_terminal_s2.py`, whose functions check single documents field
by field and keep no state; the watchdog's evidence, contract and manifest
grammar; the production release control and the verification tools, which read
and compare; package builders; and the dormant deployment helpers.
