------------------------------- MODULE Registry -------------------------------
(***************************************************************************)
(* accepted_release_registry: an accepted release is persisted under its   *)
(* prefix of an immutable container, payload by payload and the completion *)
(* manifest last, by WebJob executions and by the threads of the bridge;   *)
(* an execution attests its result in a container of its own, and the      *)
(* control builds a result set from two attested executions.               *)
(***************************************************************************)
EXTENDS Naturals, FiniteSets

CONSTANTS
    Runs,       \* executions of persist-actions-artifact
    Requests,   \* well-formed requests that have the one prefix
    NFiles,     \* the payload files, in their sorted order
    Differs,    \* files that differ between the requests (the receipts)
    MaxFaults,  \* bound: answers lost, processes dead
    None

VARIABLES
    blobs,      \* file -> the content that is stored
    manifest,   \* the completion manifest: its request and who stamped it
    late,       \* create-only requests that still may take effect
    grants,     \* what the identities may do beyond their grants
    bound,      \* run -> the artifact its environment names
    request,    \* run -> the artifact it has downloaded
    pc, at, completed, created, proved,
    result,     \* run -> what persist_actions_artifact has returned
    envelope,   \* run -> its result attestation is stored
    success,    \* run -> its WebJob history says Success
    after,      \* run -> the runs that had succeeded when it began
    canary,     \* the storage canary
    faults

store == <<blobs, manifest, late>>
local == <<at, completed, created, proved>>
proof == <<result, envelope, success, after>>
inputs == <<grants, bound, request>>
vars  == <<store, inputs, pc, local, proof, canary, faults>>

Files == 1 .. NFiles
Completion == 0   \* registry-manifest.json

(* build_request: the verified files are those of the candidate, the        *)
(* receipts those of one acceptance.                                       *)
Content(r, f) == IF f \in Differs THEN <<r, f>> ELSE <<"any", f>>

Artifacts == Requests \union {"alien"}

(* validate_request                                                        *)
Valid(a) == a \in Requests

Go(p, label) == pc' = [pc EXCEPT ![p] = label]
Fail(p)      == Go(p, "idle")
Fault        == faults < MaxFaults /\ faults' = faults + 1

(***************************************************************************)
(* The storage account: a create-only PUT                                  *)
(***************************************************************************)

Stored(n) == IF n = Completion THEN manifest # None ELSE blobs[n] # None

(* Mutant: the request is sent without If-None-Match.                      *)
CreateAlways(n, v) ==
    IF n = Completion
    THEN manifest' = v /\ UNCHANGED blobs
    ELSE blobs' = [blobs EXCEPT ![n] = v] /\ UNCHANGED manifest

Create(n, v) ==
    /\ ~Stored(n)
    /\ IF n = Completion
       THEN manifest' = v /\ UNCHANGED blobs
       ELSE blobs' = [blobs EXCEPT ![n] = v] /\ UNCHANGED manifest

(* An answer that is lost leaves a request that took effect, did not, or   *)
(* will; the helper fails.                                                 *)
Put(p, n, v, label) ==
    \/ Create(n, v) /\ Go(p, label) /\ UNCHANGED <<late, faults>>
    \/ Stored(n) /\ Fail(p) /\ UNCHANGED <<store, faults>>
    \/ /\ Fault
       /\ Fail(p)
       /\ \/ UNCHANGED store
          \/ Create(n, v) /\ UNCHANGED late
          \/ late' = late \union {<<n, v>>} /\ UNCHANGED <<blobs, manifest>>

Land ==
    \E m \in late :
        /\ late' = late \ {m}
        /\ Create(m[1], m[2]) \/ (Stored(m[1]) /\ UNCHANGED <<blobs, manifest>>)
        /\ UNCHANGED <<inputs, pc, local, proof, canary, faults>>

(***************************************************************************)
(* persist_actions_artifact                                                *)
(***************************************************************************)

(* result_attestation_coordinates: an execution that is repeated has a      *)
(* result blob of its own.                                                 *)
NewCoordinates(p) == envelope' = [envelope EXCEPT ![p] = FALSE]

(* Mutant: the downloaded bytes are not compared with the digest.          *)
DownloadAny(p) ==
    /\ pc[p] = "idle" /\ ~success[p]
    /\ \E a \in Artifacts :
        /\ Valid(a)
        /\ request' = [request EXCEPT ![p] = a]
    /\ Go(p, "preflight")
    /\ after' = [after EXCEPT ![p] = {q \in Runs : success[q]}]
    /\ NewCoordinates(p)
    /\ UNCHANGED <<store, grants, bound, local, result, success, canary, faults>>

(* Whatever the download returns, it must have the digest the environment  *)
(* names and be a valid request of the expected prefix, before the storage *)
(* is touched.                                                             *)
Download(p) ==
    /\ pc[p] = "idle" /\ ~success[p]
    /\ \E a \in Artifacts :
        /\ a = bound[p]
        /\ Valid(a)
        /\ request' = [request EXCEPT ![p] = a]
    /\ Go(p, "preflight")
    /\ after' = [after EXCEPT ![p] = {q \in Runs : success[q]}]
    /\ NewCoordinates(p)
    /\ UNCHANGED <<store, grants, bound, local, result, success, canary, faults>>

(* validate_existing_manifest: the whole request is compared.              *)
Matches(p) == manifest.request = request[p]

Preflight(p) ==
    /\ pc[p] = "preflight"
    /\ \/ /\ manifest # None /\ ~Matches(p)
          /\ Fail(p)
          /\ UNCHANGED local
       \/ /\ manifest # None => Matches(p)
          /\ completed' = [completed EXCEPT ![p] = manifest # None]
          /\ at' = [at EXCEPT ![p] = 1]
          /\ created' = [created EXCEPT ![p] = 0]
          /\ proved' = [proved EXCEPT ![p] = FALSE]
          /\ Go(p, "get")
    /\ UNCHANGED <<store, inputs, proof, canary, faults>>

(* Mutant: a payload that is there is not compared with the request.       *)
VerifiedAny(p) == blobs[at[p]] # None

(* verify_readback                                                         *)
Verified(p) == blobs[at[p]] = Content(request[p], at[p])

(* Mutant: the loop runs once too often.                                   *)
AfterPayloadPast(p) ==
    IF at[p] <= NFiles
    THEN at' = [at EXCEPT ![p] = @ + 1] /\ Go(p, "get")
    ELSE Go(p, "probe") /\ UNCHANGED at

AfterPayload(p) ==
    IF at[p] < NFiles
    THEN at' = [at EXCEPT ![p] = @ + 1] /\ Go(p, "get")
    ELSE Go(p, "probe") /\ UNCHANGED at

(* Mutant: a payload is created without looking whether it is there.       *)
GetBlind(p) ==
    /\ pc[p] = "get"
    /\ Go(p, "put")
    /\ UNCHANGED <<store, local, inputs, proof, canary, faults>>

Get(p) ==
    /\ pc[p] = "get"
    /\ \/ /\ blobs[at[p]] = None
          /\ IF completed[p] THEN Fail(p) ELSE Go(p, "put")
          /\ UNCHANGED at
       \/ /\ blobs[at[p]] # None
          /\ IF Verified(p) THEN AfterPayload(p) ELSE Fail(p) /\ UNCHANGED at
    /\ UNCHANGED <<store, completed, created, proved, inputs, proof, canary, faults>>

Upload(p) ==
    /\ pc[p] = "put"
    /\ Put(p, at[p], Content(request[p], at[p]), "negative")
    /\ UNCHANGED <<local, inputs, proof, canary>>

(* The first payload a run creates is created once more, which must be     *)
(* refused; then it is read back.                                          *)
Negative(p) ==
    /\ pc[p] = "negative"
    /\ created' = [created EXCEPT ![p] = @ + 1]
    /\ proved' = [proved EXCEPT ![p] = TRUE]
    /\ IF Verified(p) THEN AfterPayload(p) ELSE Fail(p) /\ UNCHANGED at
    /\ UNCHANGED <<store, completed, inputs, proof, canary, faults>>

(* Mutant: only what a run has created itself is probed.                   *)
ProbeOwn(p) ==
    /\ pc[p] = "probe"
    /\ Go(p, IF completed[p] THEN "return" ELSE "putManifest")
    /\ UNCHANGED <<store, local, inputs, proof, canary, faults>>

(* A run that has created nothing probes the first payload.                *)
Probe(p) ==
    /\ pc[p] = "probe"
    /\ proved' = [proved EXCEPT ![p] = ~completed[p]]
    /\ Go(p, IF completed[p] THEN "return" ELSE "putManifest")
    /\ UNCHANGED <<store, at, completed, created, inputs, proof, canary, faults>>

Stamp(p) == [request |-> request[p], by |-> p]

PutManifest(p) ==
    /\ pc[p] = "putManifest"
    /\ Put(p, Completion, Stamp(p), "readManifest")
    /\ UNCHANGED <<local, inputs, proof, canary>>

ReadManifest(p) ==
    /\ pc[p] = "readManifest"
    /\ IF manifest = Stamp(p) THEN Go(p, "return") ELSE Fail(p)
    /\ UNCHANGED <<store, local, inputs, proof, canary, faults>>

(* Mutant: the manifest that is reported is the run's own.                 *)
ReportOwn(p) == [manifest |-> Stamp(p), created |-> created[p] + (IF completed[p] THEN 0 ELSE 1),
                 negative |-> IF completed[p] THEN "not-run-completed"
                              ELSE IF proved[p] THEN "passed" ELSE "not-run"]

(* What persist_request reports.                                           *)
Report(p) == [manifest |-> manifest, created |-> created[p] + (IF completed[p] THEN 0 ELSE 1),
              negative |-> IF completed[p] THEN "not-run-completed"
                           ELSE IF proved[p] THEN "passed" ELSE "not-run"]

(* bounded_one_shot_result, and again validate_attested_helper_result      *)
Bounded(r) ==
    \/ r.created = 0 /\ r.negative = "not-run-completed"
    \/ r.created \in 1 .. NFiles + 1 /\ r.negative = "passed"

Return(p) ==
    /\ pc[p] = "return"
    /\ IF Bounded(Report(p))
       THEN result' = [result EXCEPT ![p] = Report(p)] /\ Go(p, "attest")
       ELSE Go(p, "rejected") /\ UNCHANGED result
    /\ UNCHANGED <<store, local, inputs, envelope, success, after, canary, faults>>

(***************************************************************************)
(* write_attested_webjob_result and storage_rbac_canary: each writes once, *)
(* reads back, and tries what the identities must not do.                  *)
(***************************************************************************)

(* The requests by which StorageClient tries what must be denied.          *)
Tried == {"writerReads", "writerOverwrites", "readerCreates"}

(* Mutant: what the writer may read is not tried.                          *)
DeniedWrites == grants \intersect Tried \subseteq {"writerReads"}

Denied == grants \intersect Tried = {}

Attest(p) ==
    /\ pc[p] = "attest"
    /\ \/ /\ envelope' = [envelope EXCEPT ![p] = TRUE]
          /\ Go(p, "probeResult")
          /\ UNCHANGED faults
       \/ /\ Fault
          /\ Fail(p)
          /\ envelope' \in {envelope, [envelope EXCEPT ![p] = TRUE]}
    /\ UNCHANGED <<store, local, inputs, result, success, after, canary>>

ProbeResult(p) ==
    /\ pc[p] = "probeResult"
    /\ success' = [success EXCEPT ![p] = Denied]
    /\ Fail(p)
    /\ UNCHANGED <<store, local, inputs, result, envelope, after, canary, faults>>

CanaryCreate ==
    /\ canary = "none"
    /\ \/ canary' = "written" /\ UNCHANGED faults
       \/ canary' = "failed" /\ Fault
    /\ UNCHANGED <<store, inputs, pc, local, proof>>

CanaryProbe ==
    /\ canary = "written"
    /\ canary' = IF Denied THEN "ready" ELSE "failed"
    /\ UNCHANGED <<store, inputs, pc, local, proof, faults>>

(* A request fails, or the process is gone; an execution is repeated by    *)
(* its operator under new coordinates.                                     *)
Crash(p) ==
    /\ pc[p] \notin {"idle", "rejected"}
    /\ Fault
    /\ Fail(p)
    /\ UNCHANGED <<store, local, inputs, proof, canary>>

(***************************************************************************)
(* validate_registry_webjob_result                                         *)
(***************************************************************************)

(* validate_envelope: an attestation counts with a successful history.     *)
Proven(p) == envelope[p] /\ success[p]

(* persistence_case                                                        *)
PersistenceCase(a, b) ==
    /\ a.manifest = b.manifest
    /\ b.created = 0 /\ b.negative = "not-run-completed"
    /\ \/ a.created > 0 /\ a.negative = "passed"
       \/ a.created = 0 /\ a.negative = "not-run-completed"

(* build_result_set                                                        *)
ResultSet(p, q) == p # q /\ Proven(p) /\ Proven(q) /\ PersistenceCase(result[p], result[q])

Step(p) ==
    \/ Download(p) \/ Preflight(p) \/ Get(p) \/ Upload(p) \/ Negative(p) \/ Probe(p)
    \/ PutManifest(p) \/ ReadManifest(p) \/ Return(p) \/ Attest(p) \/ ProbeResult(p)

Next ==
    \/ \E p \in Runs : Step(p) \/ Crash(p)
    \/ Land \/ CanaryCreate \/ CanaryProbe

Init ==
    /\ blobs = [f \in Files |-> None]
    /\ manifest = None
    /\ late = {}
    /\ grants \in {{}, {"writerReads"}, {"writerOverwrites"}, {"readerCreates"}}
    /\ bound \in [Runs -> Artifacts]
    /\ request = [p \in Runs |-> None]
    /\ pc = [p \in Runs |-> "idle"]
    /\ at = [p \in Runs |-> 1]
    /\ completed = [p \in Runs |-> FALSE]
    /\ created = [p \in Runs |-> 0]
    /\ proved = [p \in Runs |-> FALSE]
    /\ result = [p \in Runs |-> None]
    /\ envelope = [p \in Runs |-> FALSE]
    /\ success = [p \in Runs |-> FALSE]
    /\ after = [p \in Runs |-> {}]
    /\ canary = "none"
    /\ faults = 0

Spec == Init /\ [][Next]_vars
FairSpec == Spec /\ (\A p \in Runs : WF_vars(Step(p))) /\ WF_vars(Land)

(***************************************************************************)
(* Properties                                                              *)
(***************************************************************************)

Contents == {Content(r, f) : r \in Requests, f \in Files}
Manifests == [request : Requests, by : Runs]

(* There is a payload, and None is neither one nor a manifest.             *)
WellChosen ==
    /\ NFiles \in Nat \ {0} /\ Differs \subseteq Files
    /\ None \notin Contents /\ None \notin Manifests

ASSUME RegistryConstants == WellChosen

(* Types.                                                                  *)
TypeOK ==
    /\ blobs \in [Files -> Contents \union {None}]
    /\ manifest \in Manifests \union {None}
    /\ \A m \in late : m \in Files \X Contents \/ m \in {Completion} \X Manifests
    /\ request \in [Runs -> Artifacts \union {None}]
    /\ at \in [Runs -> Files]
    /\ created \in [Runs -> 0 .. NFiles]
    /\ completed \in [Runs -> BOOLEAN] /\ proved \in [Runs -> BOOLEAN]
    /\ envelope \in [Runs -> BOOLEAN] /\ success \in [Runs -> BOOLEAN]
    /\ canary \in {"none", "written", "ready", "failed"}

(* A completion manifest stands for the release it names: every payload of *)
(* that request is stored, whoever wrote it and however late.              *)
CompleteManifest ==
    manifest # None => \A f \in Files : blobs[f] = Content(manifest.request, f)

(* Receipts of two acceptances are never mixed under one prefix, where     *)
(* nothing could ever be replaced, although two requests race for it.      *)
NoMixture ==
    \A f, g \in Differs :
        blobs[f] # None /\ blobs[g] # None => blobs[f][1] = blobs[g][1]

(* Nothing is stored that no execution was bound to.                       *)
Provenance ==
    /\ \A f \in Files : blobs[f] # None => \E p \in Runs : blobs[f] = Content(bound[p], f)
    /\ manifest # None => manifest.request = bound[manifest.by]

(* A reported manifest is the one that is stored, for good.                *)
ReportTrue == \A p \in Runs : result[p] # None => result[p].manifest = manifest

(* The report of a persistence that succeeded is never refused by the      *)
(* bounds that the helper and the validator put on it.                     *)
NeverRejected == \A p \in Runs : pc[p] # "rejected"

(* An execution that began after another one had succeeded, and succeeded  *)
(* as well, forms an idempotent pair with it.                              *)
IdempotentPair ==
    \A p, q \in Runs : Proven(q) /\ p \in after[q] => ResultSet(p, q)

(* A canary that is ready, and an execution that succeeded, prove that the *)
(* two identities have no more than their grants.                          *)
AccessProven == canary = "ready" \/ (\E p \in Runs : success[p]) => grants = {}

(* Executions that race, fail and are repeated under one prefix, where     *)
(* nothing can be replaced: a manifest stands for the complete payloads of *)
(* one acceptance that some execution was bound to, a report is true and   *)
(* never refused, repeated executions pair up, and success proves the      *)
(* grants of the identities.                                               *)
RegistrySafe ==
    /\ TypeOK /\ CompleteManifest /\ NoMixture /\ Provenance
    /\ ReportTrue /\ NeverRejected /\ IdempotentPair /\ AccessProven

(* A release that some execution is bound to is completed, as long as the  *)
(* executions are repeated: a lost answer, a dead process or the receipts  *)
(* of another acceptance never block every one of them.                    *)
Completed == (\E p \in Runs : Valid(bound[p])) ~> manifest # None
===============================================================================
