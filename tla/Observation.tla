------------------------------ MODULE Observation ------------------------------
(***************************************************************************)
(* A bootstrap that was interrupted leaves a permanent prefix of the plan. *)
(* The next one begins with a read-only observation of Azure, which says   *)
(* of every operation whether it is to be applied or adopted.  Its         *)
(* evidence is reviewed, validated by the executor, read once more, and    *)
(* only then claimed and applied in the order of the plan.                 *)
(*                                                                         *)
(* The reads of a window are not one snapshot: each answers with the world *)
(* as it was at some time of the window.  Others change Azure meanwhile.   *)
(* Operations of one kind have one representative: an identity for three,  *)
(* the lock container for three, one WORM extension and one retired        *)
(* assignment.                                                             *)
(***************************************************************************)
EXTENDS Integers, Sequences, FiniteSets, SequencesExt

CONSTANTS
    Fences,      \* fence at the start: "none", or "pinned" by an incident's receipts
    Drifts,      \* <<resource, value>>: what others may do
    MaxDrifts,   \* bound: how often they do it
    Stops,       \* operations before which a run may end
    MaxStops,    \* bound
    AbsentSite   \* the answer of ARM for the settings of a site that is absent

VARIABLES
    az,       \* Azure
    pinned,   \* the receipts of the incident are there
    pc,       \* "idle", "batch", "tail", "template", "fresh", "apply", "done"
    began,    \* Azure when the open window was opened
    seen,     \* the answers of the observation
    spare,    \* an earlier observation, reviewed as well and not used yet
    pos,      \* the operation of the run
    own,      \* the application and the identity the run has proved
    why,      \* of the last refusal: <<where, operation>>
    drifts, stops,
    made,     \* applications the executor has created
    deleted,  \* ... others have deleted
    still     \* nobody else changed what the run had proved already

vars == <<az, pinned, pc, began, seen, spare, pos, own, why, drifts, stops, made, deleted, still>>

Plan == <<"claim", "application", "service", "grant", "identity", "writer", "lock", "key",
          "definitions", "bridge", "assignments", "attach", "addRule",
          "addController", "empty", "dropController", "addPackage", "package", "dropPackage",
          "addFence", "fence", "dropFence", "removeRule", "settings", "worm", "canary",
          "accepted", "detach", "writerResult", "legacyFic", "fic">>
Ops == Range(Plan)
Adds  == {"addController", "addPackage", "addFence"}
Drops == {"dropController", "dropPackage", "dropFence"}

(* The kinds the validator tells apart.                                    *)
Deletes       == {"detach", "writerResult", "legacyFic", "removeRule"} \cup Drops
CreateOnly    == {"claim", "package", "fence", "addRule"} \cup Adds
CreateOrAdopt == {"application", "service", "grant", "identity", "lock", "bridge"}
MayBeDenied   == {"empty", "package", "fence"}

Principals   == {1, 2, 3}
Definitions  == {"fence", "others"}
NoneOwned    == [application |-> 0, identity |-> 0]

AzureInit(f) ==
    [application |-> {}, service |-> 0, grant |-> "none", credential |-> "none",
     identity |-> 0, writer |-> 1, lock |-> "absent", key |-> "absent",
     definitions |-> [d \in Definitions |-> "absent"], site |-> "absent", scm |-> "off",
     assigned |-> 0, rule |-> "none", role |-> "none", package |-> "none", fence |-> f,
     settings |-> "empty", worm |-> "absent", accepted |-> 30, legacy |-> "attached",
     writerResult |-> "present", legacyFic |-> "present", locks |-> "exact", production |-> 1]

(* What a read of w answers.  One answer serves all operations that use    *)
(* its URL.                                                                *)
Batch == {"application", "service", "inventory", "identity", "writer", "lock", "key",
          "definitions", "fenceDefinition", "site", "scm", "assignments", "storage",
          "settings", "worm", "accepted", "legacy", "writerResult", "legacyFic"}
Boundary == {"locks", "markers", "production"}
Shown(r, w) ==
    CASE r = "service"         -> [of |-> w.service, grant |-> w.grant]
      [] r = "inventory"       -> [of |-> w.application, credential |-> w.credential]
      [] r = "fenceDefinition" -> w.definitions["fence"]
      [] r = "scm"             -> IF w.site = "absent" THEN "absent" ELSE w.scm
      [] r = "assignments"     -> [to |-> w.assigned, role |-> w.role]
      [] r = "storage"         -> w.rule
      [] r = "settings"        -> IF w.site = "absent" THEN AbsentSite ELSE w.settings
      [] r = "markers"         -> w.role
      [] OTHER                 -> w[r]

(* What the reads of a window that is closed now may have answered.        *)
Answers(reads) ==
    {[r \in reads |-> Shown(r, IF r \in Late THEN az ELSE began)] :
        Late \in SUBSET {r \in reads : Shown(r, began) # Shown(r, az)}}

-----------------------------------------------------------------------------
(* _operation_admission, by families.  s holds the answers.                *)
As(status, decision) == [status |-> status, decision |-> decision]
Refused == As("refused", "none")
IsAdopted(a) == a.decision = "adopt"
Present(value, absent) == IF value = absent THEN As("absent", "apply") ELSE As("exact", "adopt")

Claim(s) == IF s["locks"] = "exact" THEN As("absent", "apply") ELSE Refused

Application(s) == IF Cardinality(s["application"]) > 1 THEN Refused ELSE Present(s["application"], {})

Service(s) ==
    IF s["service"].of = 0 THEN As("absent", "apply")
    ELSE IF IsAdopted(Application(s)) /\ s["service"].of \in s["application"] THEN As("exact", "adopt")
    ELSE Refused

Grant(s) ==
    IF s["service"].of = 0 THEN As("absent", "apply")
    ELSE IF Service(s) = Refused \/ s["service"].grant = "foreign" THEN Refused
    ELSE Present(s["service"].grant, "none")

(* The inventory is a second read of the application.                      *)
Credential(s) ==
    IF s["inventory"].of # s["application"] \/ s["inventory"].credential = "foreign" THEN Refused
    ELSE Present(s["inventory"].credential, "none")

Writer(s) == IF s["writer"] = 1 THEN As("exact", "adopt") ELSE Refused

(* Whether the container is empty cannot be read before the role is given. *)
LockContainer(s) == IF s["lock"] = "absent" THEN As("absent", "apply") ELSE As("pending", "pending")

RoleDefinitions(s) ==
    LET states == Range(s["definitions"])
    IN IF "foreign" \in states THEN Refused
       ELSE As(IF states = {"absent"} THEN "absent" ELSE IF states = {"exact"} THEN "exact" ELSE "owned-present", "apply")

TemporaryRole(op, s) ==
    IF op \in {"addFence", "dropFence"} /\ s["fenceDefinition"] = "foreign" THEN Refused
    ELSE As(IF op \in Adds THEN "absent" ELSE "owned-present", "apply")

(* _reject_residual_temporary_role_assignments: what another authorization *)
(* has left has another name, and is known by its marker.                  *)
Residual(role) == role # "none"

Assignments(s) ==
    IF Residual(s["assignments"].role) THEN Refused
    ELSE IF s["assignments"].to = 0 THEN As("absent", "apply")
    ELSE IF s["assignments"].to = s["identity"] THEN As("exact", "apply") ELSE Refused

(* Mutant: a site that is there is to be attached to.                      *)
AttachmentAnyway(s) ==
    IF s["site"] = "foreign" THEN Refused
    ELSE As(IF s["site"] = "absent" THEN "absent" ELSE "exact", "apply")

(* The inventories of markers, which cover every scope.                    *)
Marked(s) == Residual(s["markers"])

Bridge(s) == IF s["site"] = "foreign" THEN Refused ELSE Present(s["site"], "absent")
Attachment(s) ==
    IF s["site"] = "foreign" THEN Refused
    ELSE IF s["site"] = "attached" THEN As("exact", "adopt")
    ELSE As(IF s["site"] = "absent" THEN "absent" ELSE "exact", "apply")

(* Mutant: any rule but one's own.                                         *)
UploaderRuleAny(s) == As("absent", "apply")
UploaderRule(s) == IF s["storage"] = "none" THEN As("absent", "apply") ELSE Refused

FenceBlob == IF pinned THEN As("exact", "adopt") ELSE As("denied", "apply")

Settings(s) == IF s["settings"] = "empty" THEN As("exact", "apply") ELSE Refused

(* A deleted policy may still answer, as a tombstone.                      *)
PackageWorm(s) ==
    CASE s["worm"] \in {"absent", "tombstone"} -> As("absent", "apply")
      [] s["worm"] = "unlocked"                -> As("exact", "apply")
      [] s["worm"] = "locked"                  -> As("exact", "adopt")
ExtendWorm(s) == As("exact", IF s["accepted"] = 91 THEN "adopt" ELSE "apply")

Canary(s) ==
    CASE s["site"] = "absent" /\ s["scm"] = "absent"           -> As("absent", "apply")
      [] s["site"] \notin {"absent", "foreign"} /\ s["scm"] = "off" -> As("exact", "apply")
      [] OTHER                                                 -> Refused

Detach(s) == As("exact", IF s["legacy"] = "detached" THEN "adopt" ELSE "apply")
LegacyAssignment(s) == IF s["writerResult"] = "absent" THEN As("absent", "adopt") ELSE As("exact", "apply")

(* _graph_one: an empty collection is no answer here.                      *)
LegacyFic(s) == IF s["legacyFic"] = "absent" THEN Refused ELSE As("exact", "apply")

Admission(op, s) ==
    CASE op = "claim"        -> Claim(s)
      [] op = "application"  -> Application(s)
      [] op = "service"      -> Service(s)
      [] op = "grant"        -> Grant(s)
      [] op = "identity"     -> Present(s["identity"], 0)
      [] op = "writer"       -> Writer(s)
      [] op = "lock"         -> LockContainer(s)
      [] op = "key"          -> Present(s["key"], "absent")
      [] op = "definitions"  -> RoleDefinitions(s)
      [] op = "bridge"       -> Bridge(s)
      [] op = "assignments"  -> Assignments(s)
      [] op = "attach"       -> Attachment(s)
      [] op = "addRule"      -> UploaderRule(s)
      [] op = "removeRule"   -> As("owned-present", "apply")
      [] op \in Adds \cup Drops -> TemporaryRole(op, s)
      [] op \in {"empty", "package"} -> As("denied", "apply")
      [] op = "fence"        -> FenceBlob
      [] op = "settings"     -> Settings(s)
      [] op = "worm"         -> PackageWorm(s)
      [] op = "canary"       -> Canary(s)
      [] op = "accepted"     -> ExtendWorm(s)
      [] op = "detach"       -> Detach(s)
      [] op = "writerResult" -> LegacyAssignment(s)
      [] op = "legacyFic"    -> LegacyFic(s)
      [] op = "fic"          -> Credential(s)

FirstOf(ops) == Plan[CHOOSE i \in DOMAIN Plan : Plan[i] \in ops /\ \A j \in 1 .. i - 1 : Plan[j] \notin ops]

-----------------------------------------------------------------------------
(* validate_preflight_evidence.                                            *)
StatusFits(op, a) ==
    CASE a.decision = "pending"    -> op = "lock" /\ a.status = "pending"
      [] a.decision = "adopt"      -> a.status = IF op \in Deletes THEN "absent" ELSE "exact"
      [] a.status = "denied"       -> op \in MayBeDenied
      [] op = "worm"               -> a.status \in {"absent", "exact"}
      [] op = "accepted"           -> a.status = "exact"
      [] op \in Deletes            -> a.status \in {"exact", "owned-present"}
      [] op \in CreateOnly \cup CreateOrAdopt -> a.status = "absent"
      [] OTHER                     -> TRUE

(* The validity of the authorization is thirty days shorter than the key's.*)
ContextFits(op, s) == op = "key" => s["key"] # "short"

(* What two answers say of one thing; what is adopted with what.           *)
CrossFits(op, s) ==
    CASE op \in {"addFence", "dropFence"} -> s["fenceDefinition"] = s["definitions"]["fence"]
      [] op = "service" -> IsAdopted(Service(s)) =>
                               IsAdopted(Application(s)) /\ s["service"].of \in s["application"]
      [] op = "grant"   -> IsAdopted(Grant(s)) => IsAdopted(Service(s))
      [] OTHER          -> TRUE

Unfit(s) == {op \in Ops : ~ (StatusFits(op, Admission(op, s)) /\ ContextFits(op, s) /\ CrossFits(op, s))}

-----------------------------------------------------------------------------
(* Mutant: the evidence may be used again.                                 *)
RefuseOnce(where, op) == pc' = "idle" /\ UNCHANGED seen /\ why' = <<where, op>>

Refuse(where, op) == pc' = "idle" /\ seen' = <<>> /\ why' = <<where, op>>
Counts == <<drifts, stops, made, deleted>>

(* main, build_read_only_observation: the reads of the operations first.   *)
Observe ==
    /\ pc = "idle" /\ pc' = "batch" /\ began' = az /\ why' = <<>>
    /\ UNCHANGED <<az, pinned, seen, spare, pos, own, Counts, still>>

(* Then the locks, the marked roles and the boundary of production.        *)
CloseBatch ==
    /\ pc = "batch" /\ pc' = "tail" /\ began' = az
    /\ seen' \in Answers(Batch)
    /\ UNCHANGED <<az, pinned, spare, pos, own, why, Counts, still>>

Judge ==
    /\ pc = "tail"
    /\ \E rest \in Answers(Boundary) :
           LET s   == [r \in Batch \cup Boundary |-> IF r \in Batch THEN seen[r] ELSE rest[r]]
               bad == {op \in Ops : Admission(op, s) = Refused}
           IN IF bad # {} THEN Refuse("observe", FirstOf(bad))
              ELSE IF Marked(s) THEN Refuse("observe", "markers")
              ELSE pc' = "template" /\ seen' = s /\ UNCHANGED why
    /\ UNCHANGED <<az, pinned, began, spare, pos, own, Counts, still>>

(* Two observations may be reviewed before one is used.                    *)
Keep ==
    /\ pc = "template" /\ spare = <<>>
    /\ pc' = "idle" /\ spare' = seen /\ seen' = <<>>
    /\ UNCHANGED <<az, pinned, began, pos, own, why, Counts, still>>

UseSpare ==
    /\ pc = "idle" /\ spare # <<>>
    /\ pc' = "template" /\ seen' = spare /\ spare' = <<>> /\ why' = <<>>
    /\ UNCHANGED <<az, pinned, began, pos, own, Counts, still>>

(* The executor validates the evidence, then reads everything once more.   *)
Start ==
    /\ pc = "template"
    /\ IF Unfit(seen) # {} THEN Refuse("validate", FirstOf(Unfit(seen))) /\ UNCHANGED <<began, still>>
       ELSE pc' = "fresh" /\ began' = az /\ still' = TRUE /\ UNCHANGED <<seen, why>>
    /\ UNCHANGED <<az, pinned, spare, pos, own, Counts>>

(* Mutants: only one of the windows is compared.                           *)
SameOperations(fresh) == \A r \in Batch : fresh[r] = seen[r]
SameBoundary(fresh) == \A r \in Boundary : fresh[r] = seen[r]

Same(fresh) == fresh = seen

Admit ==
    /\ pc = "fresh"
    /\ \E fresh \in Answers(Batch \cup Boundary) :
           IF Same(fresh)
           THEN pc' = "apply" /\ pos' = 1 /\ own' = NoneOwned /\ UNCHANGED <<seen, why>>
           ELSE Refuse("fresh", "projection") /\ UNCHANGED <<pos, own>>
    /\ UNCHANGED <<az, pinned, began, spare, Counts, still>>

-----------------------------------------------------------------------------
(* _validate_readback_response of what is adopted: of the publisher,       *)
ProvedPublisher(op) ==
    CASE op = "application"  -> az.application = seen["application"]
      [] op = "service"      -> /\ az.service = seen["service"].of
                                /\ az.grant = IF IsAdopted(Grant(seen)) THEN "exact" ELSE "none"
      [] op = "grant"        -> az.service = seen["service"].of /\ az.grant = "exact"
      [] op = "fic"          -> az.application = {own.application} /\ az.credential = "exact"

(* of the identities, the containers, the key and the site,                *)
ProvedResource(op) ==
    CASE op = "identity"     -> az.identity = seen["identity"]
      [] op = "writer"       -> az.writer = 1
      [] op = "lock"         -> az.lock # "absent"
      [] op = "key"          -> az.key = "exact"
      [] op = "bridge"       -> az.site = seen["site"]
      [] op = "attach"       -> az.site = "attached"
      [] op = "detach"       -> az.legacy = "detached"

(* and of the rest.                                                        *)
ProvedPolicy(op) ==
    CASE op = "fence"        -> az.fence = "pinned"
      [] op = "worm"         -> az.worm = "locked"
      [] op = "accepted"     -> az.accepted = 91
      [] op = "writerResult" -> az.writerResult = "absent"

(* Mutant: it is enough that the publisher's objects answer.               *)
ProvedAnswering(op) ==
    CASE op = "application"  -> az.application # {}
      [] op = "service"      -> az.service # 0
      [] op \in {"grant", "fic"} -> TRUE
      [] op \in {"identity", "writer", "lock", "key", "bridge", "attach", "detach"} -> ProvedResource(op)
      [] OTHER -> ProvedPolicy(op)

Proved(op) ==
    CASE op \in {"application", "service", "grant", "fic"} -> ProvedPublisher(op)
      [] op \in {"identity", "writer", "lock", "key", "bridge", "attach", "detach"} -> ProvedResource(op)
      [] OTHER -> ProvedPolicy(op)

Put(field, value) == [az EXCEPT ![field] = value]
Does(guard, w) == [ok |-> guard, w |-> IF guard THEN w ELSE az]

(* Graph creates another one of the same name.                             *)
PostApplication ==
    [ok |-> az.application = {}, w |-> Put("application", az.application \cup {10 + made})]

ApplyGraph(op) ==
    CASE op = "service" -> Does(az.service = 0 /\ own.application \in az.application, Put("service", own.application))
      [] op = "grant"   -> Does(az.service = own.application /\ az.grant = "none", Put("grant", "exact"))
      [] op = "fic"     -> Does(az.application = {own.application} /\ az.credential = "none", Put("credential", "exact"))

(* ARM's PUT finds the identity that is there.                             *)
ApplyResource(op) ==
    CASE op = "identity" -> Does(TRUE, IF az.identity # 0 THEN az
                                       ELSE Put("identity", CHOOSE p \in Principals : p # az.assigned))
      [] op = "lock"     -> Does(TRUE, IF az.lock # "absent" THEN az ELSE Put("lock", "empty"))
      [] op = "key"      -> Does(az.key = "absent", Put("key", "exact"))

ApplySite(op) ==
    CASE op = "bridge"   -> Does(az.site = "absent", Put("site", "pristine"))
      [] op = "attach"   -> Does(az.site \in {"pristine", "disabled"}, Put("site", "attached"))

(* Every member must still be in the state that was observed.              *)
ApplyMatrix(op) ==
    CASE op = "definitions" -> Does(az.definitions = seen["definitions"],
                                    Put("definitions", [d \in Definitions |-> "exact"]))
      [] op = "assignments" -> Does(/\ az.assigned = seen["assignments"].to
                                    /\ az.identity = own.identity /\ az.assigned \in {0, own.identity},
                                    Put("assigned", own.identity))

(* What a run owns for a time.                                             *)
RoleOf(op) == CASE op = "addController" -> "controller" [] op = "addPackage" -> "package" [] op = "addFence" -> "fence"
ApplyTemporary(op) ==
    CASE op = "addRule"    -> Does(az.rule = "none", Put("rule", "own"))
      [] op = "removeRule" -> Does(az.rule = "own", Put("rule", "none"))
      [] op \in Adds       -> Does(az.role = "none" /\ az.definitions[IF op = "addFence" THEN "fence" ELSE "others"] = "exact",
                                   Put("role", RoleOf(op)))
      [] op \in Drops      -> Does(TRUE, Put("role", "none"))

(* Without the network and a role the blobs cannot be read.                *)
ApplyBlob(op) ==
    CASE op = "empty"      -> Does(az.lock = "empty" /\ az.role = "controller" /\ az.rule = "own", az)
      [] op = "package"    -> Does(az.package # "foreign" /\ az.role = "package" /\ az.rule = "own", Put("package", "exact"))
      [] op = "fence"      -> Does(az.fence = "none" /\ az.role = "fence" /\ az.rule = "own", Put("fence", "ours"))

ApplyBridge(op) ==
    CASE op = "settings" -> Does(az.settings = "empty" /\ az.site = "attached", Put("settings", "desired"))
      [] op = "canary"   -> Does(az.site = "attached" /\ az.scm = "off" /\ az.settings = "desired", az)

ApplyWorm(op) ==
    CASE op = "worm"     -> Does(az.worm = seen["worm"], Put("worm", "locked"))
      [] op = "accepted" -> Does(az.accepted = 30, Put("accepted", 91))

ApplyRetirement(op) ==
    CASE op = "detach"       -> Does(az.legacy = "attached", Put("legacy", "detached"))
      [] op = "writerResult" -> Does(az.writerResult = "present" /\ az.locks = "exact", Put("writerResult", "absent"))
      [] op = "legacyFic"    -> Does(az.legacyFic = "present", Put("legacyFic", "absent"))

Result(op) ==
    CASE op = "claim"       -> Does(TRUE, az)
      [] op = "application" -> PostApplication
      [] op \in {"service", "grant", "fic"} -> ApplyGraph(op)
      [] op \in {"identity", "lock", "key"} -> ApplyResource(op)
      [] op \in {"bridge", "attach"} -> ApplySite(op)
      [] op \in {"definitions", "assignments"} -> ApplyMatrix(op)
      [] op \in {"addRule", "removeRule"} \cup Adds \cup Drops -> ApplyTemporary(op)
      [] op \in MayBeDenied -> ApplyBlob(op)
      [] op \in {"settings", "canary"} -> ApplyBridge(op)
      [] op \in {"worm", "accepted"} -> ApplyWorm(op)
      [] op \in {"detach", "writerResult", "legacyFic"} -> ApplyRetirement(op)

(* Mutant: the settings stay.                                              *)
CompensatedAccess(w) == [w EXCEPT !.rule = "none", !.role = "none"]

(* What ends a run takes its temporary access and its settings back.       *)
Compensated(w) == [w EXCEPT !.rule = "none", !.role = "none", !.settings = "empty"]
End == pc' = "idle" /\ pos' = 0 /\ seen' = <<>> /\ own' = NoneOwned

Adopting == Admission(Plan[pos], seen).decision \in {"adopt", "pending"}
Owned(op, w) ==
    CASE op = "application" -> [own EXCEPT !.application = CHOOSE a \in w.application : TRUE]
      [] op = "identity"    -> [own EXCEPT !.identity = w.identity]
      [] OTHER              -> own

Operation ==
    /\ pc = "apply"
    /\ LET op == Plan[pos]
           r  == IF Adopting THEN [ok |-> Proved(op), w |-> az] ELSE Result(op)
       IN IF r.ok
          THEN /\ az' = r.w /\ own' = Owned(op, r.w)
               /\ IF pos = Len(Plan) THEN pc' = "done" /\ pos' = 0 /\ seen' = <<>>
                  ELSE pc' = "apply" /\ pos' = pos + 1 /\ UNCHANGED seen
               /\ UNCHANGED why
          ELSE az' = Compensated(r.w) /\ End /\ why' = <<"apply", op>>
    /\ made' = made + IF Plan[pos] = "application" /\ ~ Adopting THEN 1 ELSE 0
    /\ UNCHANGED <<pinned, began, spare, drifts, stops, deleted, still>>

(* A run may end before an operation, and it may die there.                *)
Interrupt ==
    /\ pc = "apply" /\ Plan[pos] \in Stops /\ stops < MaxStops
    /\ az' \in {Compensated(az), az} /\ End
    /\ stops' = stops + 1
    /\ UNCHANGED <<pinned, began, spare, why, drifts, made, deleted, still>>

(* The recovery executors.                                                 *)
Recover ==
    /\ pc = "idle" /\ az # Compensated(az)
    /\ az' = Compensated(az) /\ why' = <<>>
    /\ UNCHANGED <<pinned, pc, began, seen, spare, pos, own, Counts, still>>

(* Somebody else changes a resource.                                       *)
Changed(field, value) ==
    CASE field = "application" /\ value = {} -> [az EXCEPT !.application = {}, !.service = 0,
                                                           !.grant = "none", !.credential = "none"]
      [] field = "application" /\ value # {} -> Put(field, az.application \cup value)
      [] field = "service" /\ value = 0 -> [az EXCEPT !.service = 0, !.grant = "none"]
      [] OTHER -> Put(field, value)

(* The operation that proves it.                                           *)
ProvedBy(field) ==
    CASE field = "site"          -> "bridge"
      [] field = "assigned"      -> "assignments"
      [] field = "credential"    -> "fic"
      [] field = "legacy"        -> "detach"
      [] field = "scm"           -> "canary"
      [] field = "lock"          -> "empty"
      [] field = "rule"          -> "removeRule"
      [] OTHER                   -> field

Drift ==
    /\ drifts < MaxDrifts /\ drifts' = drifts + 1
    /\ \E d \in Drifts :
           /\ az' = Changed(d[1], d[2]) /\ az' # az
           /\ deleted' = deleted + IF d = <<"application", {}>> THEN Cardinality(az.application \ {1}) ELSE 0
           /\ still' = /\ still /\ pc # "done"
                       /\ pc = "apply" => \A i \in 1 .. pos - 1 : Plan[i] # ProvedBy(d[1])
    /\ UNCHANGED <<pinned, pc, began, seen, spare, pos, own, why, stops, made>>

Init ==
    /\ \E f \in Fences : az = AzureInit(f) /\ pinned = (f = "pinned")
    /\ pc = "idle" /\ began = az /\ seen = <<>> /\ spare = <<>> /\ pos = 0 /\ own = NoneOwned
    /\ why = <<>> /\ drifts = 0 /\ stops = 0 /\ made = 0 /\ deleted = 0 /\ still = TRUE

Work == CloseBatch \/ Judge \/ Admit \/ Operation
Next == Observe \/ Work \/ Keep \/ UseSpare \/ Start \/ Interrupt \/ Recover \/ Drift

(* Those who want the bootstrap observe again, use what they have, and     *)
(* recover; nobody has to interrupt or to disturb it.                      *)
Spec == Init /\ [][Next]_vars
FairSpec == Spec /\ WF_vars(Work) /\ WF_vars(Observe \/ UseSpare) /\ SF_vars(Start) /\ SF_vars(Recover)

-----------------------------------------------------------------------------
(* The shapes of the state, and when there is evidence.                    *)
TypeOK ==
    /\ pc \in {"idle", "batch", "tail", "template", "fresh", "apply", "done"}
    /\ pos \in 0 .. Len(Plan) /\ (pos > 0 <=> pc = "apply")
    /\ DOMAIN seen = CASE pc \in {"idle", "batch", "done"} -> {} [] pc = "tail" -> Batch [] OTHER -> Batch \cup Boundary
    /\ spare = <<>> \/ DOMAIN spare = Batch \cup Boundary
    /\ az.identity \in {0} \cup Principals /\ az.assigned \in {0} \cup Principals
    /\ az.definitions \in [Definitions -> {"absent", "exact", "foreign"}]
    /\ az.role \in {"none", "controller", "package", "fence"}
    /\ why = <<>> \/ (pc = "idle" /\ Len(why) = 2)

(* Graph creates an application at every request; yet over all runs the    *)
(* executor creates one, and another only for one that was deleted.        *)
CreatedOnce == made <= 1 + deleted

(* What the plan is to leave.                                              *)
Target(w) ==
    /\ \E a \in w.application : w.application = {a} /\ w.service = a
    /\ w.grant = "exact" /\ w.credential = "exact" /\ w.identity = w.assigned /\ w.identity # 0
    /\ w.writer = 1 /\ w.lock = "empty" /\ w.key = "exact" /\ Range(w.definitions) = {"exact"}
    /\ w.site = "attached" /\ w.scm = "off" /\ w.rule = "none" /\ w.role = "none"
    /\ w.package = "exact" /\ w.fence \in {"pinned", "ours"} /\ w.settings = "desired"
    /\ w.worm = "locked" /\ w.accepted = 91 /\ w.legacy = "detached"
    /\ w.writerResult = "absent" /\ w.legacyFic = "absent"

(* A run that ends has made or adopted every resource exactly as planned,  *)
(* whatever others changed before the run came to it.                      *)
DoneIsTarget == pc = "done" /\ still => Target(az)

(* A run is admitted only in the world its evidence describes, if nobody   *)
(* changed it while the fresh reads were under way.                        *)
AuthorizedWorld ==
    [][pc = "fresh" /\ pc' = "apply" /\ began = az =>
           \A r \in Batch \cup Boundary : Shown(r, az) = seen[r]]_vars

(* While temporary access or settings of a run that died are left, no      *)
(* other run is admitted; the recovery comes first.                        *)
LeftoverBlocks ==
    [][pc = "fresh" /\ pc' = "apply" /\ drifts = 0 => az = Compensated(az)]_vars

(* An undisturbed prefix of the plan, whose fence an incident's receipts   *)
(* pin, is never refused by the observer, the validator or the operations, *)
(* up to the detach of the legacy bridge.                                  *)
ResumeAccepts ==
    drifts = 0 /\ az.fence # "ours" /\ az.legacy = "attached" /\ az = Compensated(az) /\ why # <<>> =>
        why[1] = "fresh"

(* Undisturbed, and interrupted a bounded number of times, the bootstrap   *)
(* ends; unless it left a fence without receipts, or was stopped behind    *)
(* the detach.                                                             *)
Completes == <>(pc = "done") \/ <>[](az.fence = "ours") \/ <>[](az.legacy = "detached")

(* The README: "the exact permanent prefix remains for fresh observation   *)
(* and adopt-exact resume": the validator takes a bridge that is detached. *)
DetachedResumes == drifts = 0 => why # <<"validate", "detach">>

(* ... and the observer takes a credential that is retired.                *)
RetiredResumes == drifts = 0 => why # <<"observe", "legacyFic">>

=============================================================================
