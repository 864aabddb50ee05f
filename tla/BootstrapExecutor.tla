--------------------------- MODULE BootstrapExecutor ---------------------------
(***************************************************************************)
(* BootstrapExecutor.run: the operations of the plan in order, each under  *)
(* a live authorization; the temporary ones that succeeded, or that may    *)
(* have, are owned until the plan's own removal, or until compensation     *)
(* removes them newest first; then the terminal evidence, which a crashed  *)
(* or failed run may complete later from its ledger alone.                 *)
(***************************************************************************)
EXTENDS CleanupLocks, BoundedCanary

CONSTANT MaxCreates  \* bound: conditional PUTs of the canary blob (code: 64)
ASSUME MaxCreatesAssumption == MaxCreates \in Nat \ {0}

VARIABLES
    role,    \* the role phase of this plan
    i,       \* the operation; 0: compensating
    owned,   \* temporary_owned
    fact,    \* what is recorded of each creation of the role phase
    tag,     \* what is known of the blob's ETag: none, unknown, known
    again,   \* the blob's DELETE was replayed
    failed,  \* cleanup_proofs: the owners reported cleanup-failed
    blocked, \* _protected_cleanup_blocked
    files,   \* how many of the evidence files below are durable
    status   \* the terminal receipt's

grantVars == <<fact, tag, again, blocked>>
planVars  == <<i, owned, failed>>
endVars   == <<files, status>>
execVars  == <<role, grantVars, planVars, endVars>>
vars      == <<cloudVars, pc, live, guardVars, canaryVars, execVars>>

Owners == {"rule", "role", "blob", "settings"}

(* The terminal source input, the snapshot, the S2 files, the bundle.      *)
Evidence == <<"source", "snapshot", "s2", "bundle">>
Bundle   == files = Len(Evidence)

Parts       == {Grants[role][n] : n \in DOMAIN Grants[role]}
Assignments == Parts \intersect Locked

Plan == <<"permanent", "rule", "role",
          IF role = "controller" THEN "blob" ELSE "permanent",
          "permanent",
          IF role = "controller" THEN "unblob" ELSE "permanent",
          "unrole", "unrule", "settings", "canary", "retire", "permanent">>

OwnerOf == [unblob |-> "blob", unrole |-> "role", unrule |-> "rule"]

(***************************************************************************)
(* How an operation ends.                                                  *)
(***************************************************************************)
Stay(label) == pc' = label /\ UNCHANGED planVars

Advance(own) ==
    /\ pc' = "op"
    /\ i' = i + 1
    /\ owned' = own
    /\ UNCHANGED failed

Abort(own) ==
    /\ pc' = "compensate"
    /\ i' = 0
    /\ owned' = own
    /\ UNCHANGED failed

(* A removal, the plan's or compensation's, is proven.                     *)
Removed == IF i = 0 THEN Stay("compensate") ELSE Advance(owned)

(* Mutant: a removal that failed is tried again by compensation.           *)
RemovalRetried(x) ==
    /\ pc' = "compensate"
    /\ i' = 0
    /\ failed' = failed \union {x}
    /\ owned' = Append(owned, x)

(* It is not: the owner is reported, and not asked again.                  *)
RemovalFailed(x) ==
    /\ pc' = "compensate"
    /\ i' = 0
    /\ failed' = failed \union {x}
    /\ UNCHANGED owned

Remove(x) == CASE x = "blob"     -> "settleBlob"
               [] x = "role"     -> "removeRole"
               [] x = "rule"     -> "removeRule"
               [] x = "settings" -> "restoreStop"

(* The owners other than x; none is owned twice.                           *)
Without(seq, x) ==
    IF \E n \in DOMAIN seq : seq[n] = x
    THEN LET n == CHOOSE n \in DOMAIN seq : seq[n] = x
         IN  SubSeq(seq, 1, n - 1) \o SubSeq(seq, n + 1, Len(seq))
    ELSE seq

(* The operation loop.  A removal retires the owner before it is tried.    *)
Operation ==
    /\ pc = "op"
    /\ i <= Len(Plan)
    /\ UNCHANGED <<cloudVars, grantVars, endVars>>
    /\ \/ Abort(owned)
       \/ live /\ Plan[i] = "permanent" /\ Advance(owned)
       \/ live /\ Plan[i] \in Owners \union {"canary", "retire"} /\ Stay(Plan[i])
       \/ /\ live
          /\ Plan[i] \in DOMAIN OwnerOf
          /\ owned' = Without(owned, OwnerOf[Plan[i]])
          /\ pc' = Remove(OwnerOf[Plan[i]])
          /\ UNCHANGED <<i, failed>>

(***************************************************************************)
(* addOwnedUploaderIpv4Rule: an answer that is not known is not owned.     *)
(***************************************************************************)
AddRule ==
    /\ pc = "rule"
    /\ UNCHANGED <<grantVars, endVars>>
    /\ \/ Abort(owned) /\ UNCHANGED cloudVars
       \/ \E a \in Answers :
            /\ live /\ ~cloud["rule"]
            /\ Send("rule", TRUE, a)
            /\ IF a = "ok" THEN Stay("ruleAdded") ELSE Abort(owned)

RuleAdded ==
    /\ pc = "ruleAdded"
    /\ UNCHANGED <<cloudVars, grantVars, endVars>>
    /\ LET own == Append(owned, "rule") IN
       Abort(own) \/ (cloud["rule"] /\ Advance(own))

(***************************************************************************)
(* addOwned...Role: each creation is recorded as made, as read back, or as *)
(* ambiguous; one that is any of these makes the role owned.               *)
(***************************************************************************)
IsNext(x) ==
    \E n \in DOMAIN Grants[role] :
        /\ x = Grants[role][n]
        /\ fact[x] = "none"
        /\ \A m \in 1 .. n - 1 : fact[Grants[role][m]] = "exact"

(* Mutant: a creation with an unknown answer is taken for one not made.    *)
AttemptedKnown(facts) == \E x \in Parts : facts[x] \notin {"none", "ambiguous"}

Attempted(facts) == \E x \in Parts : facts[x] # "none"
WithRole(facts)  == IF Attempted(facts) THEN Append(owned, "role") ELSE owned

Grant ==
    /\ pc = "role"
    /\ UNCHANGED <<tag, again, blocked, endVars>>
    /\ \/ Abort(WithRole(fact)) /\ UNCHANGED <<cloudVars, fact>>
       \/ \E x \in Parts, a \in Answers :
            /\ live /\ IsNext(x) /\ ~cloud[x]
            /\ Send(x, TRUE, a)
            /\ fact' = [fact EXCEPT ![x] =
                          [ok |-> "created", denied |-> "none", lost |-> "ambiguous"][a]]
            /\ IF a = "ok" THEN Stay("granted") ELSE Abort(WithRole(fact'))

(* The readback of the part, and after the last one of the whole grant.    *)
Granted ==
    /\ pc = "granted"
    /\ UNCHANGED <<cloudVars, tag, again, blocked, endVars>>
    /\ \/ Abort(WithRole(fact)) /\ UNCHANGED fact
       \/ \E x \in Parts :
            /\ fact[x] = "created" /\ cloud[x]
            /\ fact' = [fact EXCEPT ![x] = "exact"]
            /\ IF \A y \in Parts : fact'[y] = "exact"
               THEN Advance(WithRole(fact)) \/ Abort(WithRole(fact))
               ELSE Stay("role")

(***************************************************************************)
(* removeOwned...Role: creations without a readback are settled, nothing   *)
(* unowned is touched, the assignments are deleted under the guard, then   *)
(* the temporary definition, and everything is read absent.                *)
(***************************************************************************)
Pending == {x \in Parts : fact[x] \in {"created", "ambiguous"}}

RemoveRole ==
    /\ pc = "removeRole"
    /\ UNCHANGED <<cloudVars, fact, tag, again, endVars>>
    /\ \/ RemovalFailed("role") /\ blocked' = TRUE /\ UNCHANGED guardVars
       \/ /\ ~blocked
          /\ \A x \in Pending : cloud[x] \/ Settled(x)
          /\ \A x \in Parts : cloud[x] => fact[x] # "none"
          /\ UNCHANGED blocked
          /\ IF \E x \in Assignments : cloud[x] \/ fact[x] = "exact"
             THEN EnterGuard(Assignments) /\ Stay("guard")
             ELSE cloud["lock"] /\ EnterGuard({}) /\ Stay("guarded")

(* A permanent operation that removes an assignment under the guard.       *)
Retiring == members = {"legacy"}

Retire ==
    /\ pc = "retire"
    /\ UNCHANGED <<cloudVars, grantVars, endVars>>
    /\ \/ ~blocked /\ EnterGuard({"legacy"}) /\ Stay("guard")
       \/ Abort(owned) /\ UNCHANGED guardVars

Unguarded ==
    /\ pc = "guardFailed"
    /\ blocked' = TRUE
    /\ IF Retiring THEN Abort(owned) ELSE RemovalFailed("role")
    /\ UNCHANGED <<cloudVars, fact, tag, again, endVars>>

Retired ==
    /\ pc = "guarded"
    /\ Retiring
    /\ UNCHANGED <<cloudVars, fact, tag, again, endVars>>
    /\ \/ ~cloud["legacy"] /\ cloud["lock"] /\ UNCHANGED blocked /\ Advance(owned)
       \/ Abort(owned) /\ blocked' = TRUE

RemoveDefinition ==
    /\ pc = "guarded"
    /\ ~Retiring
    /\ UNCHANGED <<fact, tag, again, endVars>>
    /\ LET present == "definition" \in Parts /\ cloud["definition"] IN
       \/ ~present /\ UNCHANGED <<cloudVars, blocked>> /\ Stay("unroled")
       \/ RemovalFailed("role") /\ blocked' = TRUE /\ UNCHANGED cloudVars
       \/ \E a \in Answers :
            /\ present /\ fact["definition"] # "none"
            /\ Send("definition", FALSE, a)
            /\ blocked' = (a # "ok")
            /\ IF a = "ok" THEN Stay("unroled") ELSE RemovalFailed("role")

RoleRemoved ==
    /\ pc = "unroled"
    /\ UNCHANGED <<cloudVars, fact, tag, again, endVars>>
    /\ \/ (\A x \in Parts : ~cloud[x]) /\ cloud["lock"] /\ UNCHANGED blocked /\ Removed
       \/ RemovalFailed("role") /\ blocked' = TRUE

(***************************************************************************)
(* createControllerLeaseCanaryBlob: a 403 is retried, another refusal      *)
(* proves that nothing was created, and after an unknown answer the blob   *)
(* is owned, with its ETag if one GET finds it.                            *)
(***************************************************************************)
CreateBlob ==
    /\ pc = "blob"
    /\ UNCHANGED <<fact, again, blocked, endVars>>
    /\ \/ Abort(owned) /\ UNCHANGED <<cloudVars, tag>>
       \/ \E a \in Answers :
            /\ live /\ ~cloud["blob"]
            /\ asked[<<"blob", TRUE>>] < MaxCreates
            /\ Send("blob", TRUE, a)
            /\ tag' = [ok |-> "known", denied |-> "none", lost |-> "unknown"][a]
            /\ \/ a = "denied" /\ Stay("blob")
               \/ a = "denied" /\ Abort(owned)
               \/ a # "denied" /\ Stay("blobCreated")

BlobCreated ==
    /\ pc = "blobCreated"
    /\ UNCHANGED <<cloudVars, fact, again, blocked, endVars>>
    /\ LET own == Append(owned, "blob") IN
       \/ Abort(own) /\ UNCHANGED tag
       \/ tag = "unknown" /\ cloud["blob"] /\ Abort(own) /\ tag' = "known"
       \/ tag = "known" /\ cloud["blob"] /\ Advance(own) /\ UNCHANGED tag

(***************************************************************************)
(* removeControllerLeaseCanaryBlob: the identity is settled, one DELETE    *)
(* with If-Match is sent, and once more if its answer is unknown.          *)
(***************************************************************************)
BlobFailed ==
    IF i = 0 THEN RemovalFailed("blob") ELSE Abort(Append(owned, "blob"))

SettleBlob ==
    /\ pc = "settleBlob"
    /\ again' = FALSE
    /\ UNCHANGED <<cloudVars, fact, blocked, endVars>>
    /\ \/ tag = "known" /\ UNCHANGED tag /\ Stay("deleteBlob")
       \/ tag = "unknown" /\ cloud["blob"] /\ tag' = "known" /\ Stay("deleteBlob")
       \/ /\ tag = "unknown" /\ ~cloud["blob"] /\ Settled("blob")
          /\ UNCHANGED tag
          /\ Stay("blobGone")
       \/ BlobFailed /\ UNCHANGED tag

DeleteBlob ==
    /\ pc = "deleteBlob"
    /\ UNCHANGED <<fact, tag, blocked, endVars>>
    /\ \E a \in Answers :
        /\ Send("blob", FALSE, a)
        /\ \/ a = "ok" /\ UNCHANGED again /\ Stay("blobGone")
           \/ a = "lost" /\ ~again /\ again' = TRUE /\ Stay("deleteBlob")
           \/ a # "ok" /\ UNCHANGED again /\ BlobFailed

(* The container is listed empty and the blob read absent.  After a replay *)
(* the plan's own removal still fails the run, with nothing left to remove.*)
BlobGone ==
    /\ pc = "blobGone"
    /\ UNCHANGED <<cloudVars, grantVars, endVars>>
    /\ \/ ~cloud["blob"] /\ ~(again /\ i # 0) /\ Removed
       \/ ~cloud["blob"] /\ again /\ i # 0 /\ Abort(owned)
       \/ BlobFailed

(***************************************************************************)
(* removeOwnedUploaderIpv4Rule                                             *)
(***************************************************************************)
RemoveRule ==
    /\ pc = "removeRule"
    /\ UNCHANGED <<grantVars, endVars>>
    /\ \/ RemovalFailed("rule") /\ UNCHANGED cloudVars
       \/ \E a \in Answers :
            /\ cloud["rule"]
            /\ Send("rule", FALSE, a)
            /\ IF a = "ok" THEN Stay("ruleRemoved") ELSE RemovalFailed("rule")

RuleRemoved ==
    /\ pc = "ruleRemoved"
    /\ UNCHANGED <<cloudVars, grantVars, endVars>>
    /\ (~cloud["rule"] /\ Removed) \/ RemovalFailed("rule")

(***************************************************************************)
(* configureBridge...: owned from its durable intent on.                   *)
(***************************************************************************)
Configure ==
    /\ pc = "settings"
    /\ UNCHANGED <<grantVars, endVars>>
    /\ LET own == Append(owned, "settings") IN
       \/ Abort(owned) /\ UNCHANGED cloudVars
       \/ \E a \in Answers :
            /\ live /\ ~cloud["settings"]
            /\ Send("settings", TRUE, a)
            /\ (a = "ok" /\ Advance(own)) \/ Abort(own)

(* _restore_owned_bridge_app_settings: the site is stopped, then settings  *)
(* that are not the prestate get one PUT of it.                            *)
RestoreStop ==
    /\ pc = "restoreStop"
    /\ UNCHANGED <<grantVars, endVars>>
    /\ \/ ~cloud["site"] /\ UNCHANGED cloudVars /\ Stay("restoreSettings")
       \/ RemovalFailed("settings") /\ UNCHANGED cloudVars
       \/ \E a \in Answers :
            /\ cloud["site"]
            /\ Send("site", FALSE, a)
            /\ IF a = "ok" THEN Stay("awaitStop") ELSE RemovalFailed("settings")

AwaitStop ==
    /\ pc = "awaitStop"
    /\ UNCHANGED <<cloudVars, grantVars, endVars>>
    /\ (~cloud["site"] /\ Stay("restoreSettings")) \/ RemovalFailed("settings")

RestoreSettings ==
    /\ pc = "restoreSettings"
    /\ UNCHANGED <<grantVars, endVars>>
    /\ \/ ~cloud["settings"] /\ UNCHANGED cloudVars /\ Removed
       \/ RemovalFailed("settings") /\ UNCHANGED cloudVars
       \/ \E a \in Answers :
            /\ cloud["settings"]
            /\ Send("settings", FALSE, a)
            /\ IF a = "ok" THEN Stay("settingsRestored") ELSE RemovalFailed("settings")

SettingsRestored ==
    /\ pc = "settingsRestored"
    /\ UNCHANGED <<cloudVars, grantVars, endVars>>
    /\ (~cloud["settings"] /\ Removed) \/ RemovalFailed("settings")

(* The canary's own cleanup is complete, and nothing of it failed.         *)
CanaryEnd ==
    /\ pc = "canaryEnd"
    /\ UNCHANGED <<cloudVars, grantVars, endVars>>
    /\ IF ~hurt /\ ~marker /\ asked[<<"network", FALSE>>] > 0
       THEN Advance(owned) \/ Abort(owned)
       ELSE Abort(owned)

(***************************************************************************)
(* The end: postconditions and exact ownership; the source input is made   *)
(* durable, then the settings are owned no longer; the other files follow, *)
(* the bundle last.                                                        *)
(***************************************************************************)
Verified ==
    /\ \A x \in Resources : cloud[x] = (x \in {"lock", "settings"})
    /\ owned = <<"settings">>

Finalize ==
    /\ pc = "op"
    /\ i > Len(Plan)
    /\ UNCHANGED <<cloudVars, grantVars, status>>
    /\ \/ Abort(owned) /\ files' \in {files, 1}
       \/ /\ live /\ Verified
          /\ files' = 1
          /\ owned' = <<>>
          /\ pc' = "assemble"
          /\ UNCHANGED <<i, failed>>

Assemble ==
    /\ pc = "assemble"
    /\ UNCHANGED <<cloudVars, grantVars>>
    /\ \/ ~Bundle /\ files' \in {files, files + 1} /\ Abort(owned) /\ UNCHANGED status
       \/ ~Bundle /\ files' = files + 1 /\ Stay("assemble") /\ UNCHANGED status
       \/ Bundle /\ status' = "complete" /\ Stay("end") /\ UNCHANGED files

(* Mutant: the owned are removed oldest first.                             *)
CompensateForward ==
    /\ pc = "compensate"
    /\ UNCHANGED <<cloudVars, grantVars, files>>
    /\ \/ \E x \in Owners :
            /\ owned # <<>> /\ owned[1] = x
            /\ owned' = Tail(owned)
            /\ pc' = Remove(x)
            /\ UNCHANGED <<i, failed, status>>
       \/ /\ owned = <<>>
          /\ status' \in {"failed", "unwritten"}
          /\ Stay("end")

(* except: the owned are removed, newest first; finally: the receipt.      *)
Compensate ==
    /\ pc = "compensate"
    /\ UNCHANGED <<cloudVars, grantVars, files>>
    /\ \/ \E x \in Owners :
            /\ owned # <<>> /\ owned[Len(owned)] = x
            /\ owned' = SubSeq(owned, 1, Len(owned) - 1)
            /\ pc' = Remove(x)
            /\ UNCHANGED <<i, failed, status>>
       \/ /\ owned = <<>>
          /\ status' \in {"failed", "unwritten"}
          /\ Stay("end")

(* The process dies; its memory is gone, its ledger is not.                *)
Crash ==
    /\ pc # "end"
    /\ pc' = "end"
    /\ status' = "crashed"
    /\ i' = 0
    /\ owned' = <<>>
    /\ failed' = {}
    /\ fact' = [x \in DOMAIN fact |-> "none"]
    /\ tag' = "none"
    /\ again' = FALSE
    /\ blocked' = FALSE
    /\ EnterGuard({})
    /\ tried' = {} /\ opened' = FALSE /\ heard' = FALSE /\ hurt' = FALSE
    /\ UNCHANGED <<cloudVars, live, marker, role, files>>

(* Mutant: a resume that does not look at what the ledger holds.           *)
ResumeUnchecked ==
    /\ pc = "end"
    /\ files' = files + 1
    /\ UNCHANGED <<cloudVars, pc, live, guardVars, canaryVars, role, grantVars,
                   planVars, status>>

(* resume_local_finalization_from_snapshot: the ledger's prefix of the     *)
(* evidence is completed; nothing is sent.                                 *)
Resume ==
    /\ pc = "end"
    /\ files > 0 /\ ~Bundle
    /\ files' = files + 1
    /\ UNCHANGED <<cloudVars, pc, live, guardVars, canaryVars, role, grantVars,
                   planVars, status>>

ExecStep ==
    \/ Operation \/ AddRule \/ RuleAdded \/ Grant \/ Granted
    \/ Unguarded \/ Retired \/ RemoveDefinition \/ RoleRemoved
    \/ CreateBlob \/ BlobCreated \/ SettleBlob \/ DeleteBlob \/ BlobGone
    \/ RemoveRule \/ RuleRemoved \/ Configure \/ RestoreStop \/ AwaitStop
    \/ RestoreSettings \/ SettingsRestored \/ CanaryEnd \/ Finalize \/ Assemble \/ Compensate

Environment == Land \/ Expire

Next ==
    \/ ExecStep /\ UNCHANGED <<live, guardVars, canaryVars, role>>
    \/ (RemoveRole \/ Retire) /\ UNCHANGED <<live, canaryVars, role>>
    \/ GuardNext /\ UNCHANGED <<canaryVars, execVars>>
    \/ CanaryNext /\ UNCHANGED <<guardVars, execVars>>
    \/ Environment /\ UNCHANGED <<guardVars, canaryVars, execVars>>
    \/ Crash
    \/ Resume

Init ==
    /\ CloudInit
    /\ GuardInit
    /\ CanaryInit
    /\ role \in DOMAIN Grants
    /\ i = 1
    /\ owned = <<>>
    /\ fact = [x \in Locked \union {"definition"} |-> "none"]
    /\ tag = "none"
    /\ again = FALSE
    /\ failed = {}
    /\ blocked = FALSE
    /\ files = 0
    /\ status = "running"

Spec == Init /\ [][Next]_vars

(***************************************************************************)
(* Properties                                                              *)
(***************************************************************************)

(* Types.                                                                  *)
TypeOK ==
    /\ CloudOK /\ GuardOK /\ CanaryOK
    /\ role \in DOMAIN Grants
    /\ i \in 0 .. Len(Plan) + 1
    /\ \A n \in DOMAIN owned : owned[n] \in Owners
    /\ Cardinality({owned[n] : n \in DOMAIN owned}) = Len(owned)
    /\ fact \in [Locked \union {"definition"} -> {"none", "created", "exact", "ambiguous"}]
    /\ tag \in {"none", "unknown", "known"}
    /\ again \in BOOLEAN
    /\ failed \in SUBSET Owners
    /\ blocked \in BOOLEAN
    /\ files \in 0 .. Len(Evidence)
    /\ status \in {"running", "complete", "failed", "unwritten", "crashed"}

Left(x) == CASE x = "role" -> (~Retiring /\ ~cloud["lock"]) \/ \E y \in Parts : cloud[y]
             [] OTHER      -> cloud[x]

(* A failed run's receipt accounts for everything it left behind, also for *)
(* what only takes effect after the run: each temporary grant that is      *)
(* still there, and a lock that its removal suspended and that is missing, *)
(* is reported cleanup-failed; or it is the rule or the settings, whose    *)
(* own request had no answer to rely on; or the settings stay because the  *)
(* terminal source input was durable.                                      *)
Accounted ==
    (pc = "end" /\ status = "failed") =>
        \A x \in Owners : Left(x) =>
            \/ x \in failed
            \/ x \in {"rule", "settings"} /\ <<x, TRUE>> \in doubt
            \/ x = "settings" /\ files > 0

(* A complete bundle, written by the run or by a later resume, tells the   *)
(* truth: nothing temporary is left, the lock is back, the bridge is       *)
(* closed and stopped and has the settings, unless the journal shows that  *)
(* a failed run has restored them.                                         *)
EvidenceTruth ==
    Bundle => \A x \in Resources :
        \/ cloud[x] = (x \in {"lock", "settings"})
        \/ x = "settings" /\ asked[<<x, FALSE>>] > 0

(* What the executor tells of a run is true: a failed one's receipt names  *)
(* the role, the other grants and the package that it left, and a complete *)
(* bundle, be it written by a resume, is of a run that left nothing        *)
(* temporary.  Not covered are the cases in which the code is silent: a    *)
(* rule or settings whose own request had no answer, settings whose source *)
(* is on disk, settings that a failed run has restored, and a lock that    *)
(* the retirement of the role suspended.                                   *)
ReceiptTruth == Accounted /\ EvidenceTruth

(* Whenever the bridge is open to the public network, or may still become  *)
(* so, the incident marker that stops the next run exists: over every      *)
(* failure in the canary, and after a crash.                               *)
ExposedIsMarked ==
    (cloud["network"] \/ <<"network", TRUE>> \in flight) => marker

(* No request is sent twice, in whatever way the plan's removal, the       *)
(* guard's finally and compensation follow each other.  Except: the canary *)
(* blob's conditional PUTs and its DELETE, replayed once by the plan's     *)
(* removal and once by compensation; the stopping of the site, in the      *)
(* canary, by its finally, by its restoration and by compensation; and the *)
(* lock, suspended once per group and restored at most as often.           *)
NoRetry ==
    /\ \A r \in Requests : r[1] \notin {"blob", "site", "lock"} => asked[r] <= 1
    /\ asked[<<"blob", TRUE>>] <= MaxCreates
    /\ asked[<<"blob", FALSE>>] <= 4
    /\ asked[<<"site", TRUE>>] <= 1
    /\ asked[<<"site", FALSE>>] <= 4
    /\ asked[<<"lock", FALSE>>] <= 2
    /\ asked[<<"lock", TRUE>>] <= asked[<<"lock", FALSE>>]

(* The role that is needed to delete the canary blob is not deleted while  *)
(* the blob is there, unless the blob is reported, or the run has crashed. *)
BlobBeforeRole ==
    [][(cloud["assignment"] /\ ~cloud'["assignment"])
         => (~cloud["blob"] \/ "blob" \in failed \/ status = "crashed")]_vars
================================================================================
