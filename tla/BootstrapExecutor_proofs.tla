------------------------ MODULE BootstrapExecutor_proofs ------------------------
(***************************************************************************)
(* ExposedIsMarked, for every bound on the conditional PUTs.  It is not    *)
(* inductive: a marker is removed where the executor believes the enabling *)
(* complete and undone, so the invariant MarkedInv says when that belief   *)
(* is justified, and that no later operation enters the canary again with  *)
(* it still held.                                                          *)
(***************************************************************************)
EXTENDS BootstrapExecutor, SequenceTheorems, FiniteSetTheorems, TLAPS

Entering == {"canary", "enableNetwork"}
Inside   == {"awaitNetwork", "restop", "enableScm", "startSite", "runJob",
             "canaryStop", "census", "closeScm", "resolve", "closeNetwork",
             "closing", "finalStop", "clear", "canaryEnd"}
Guarding == {"guard", "suspend", "suspended", "unassign", "restore", "restored",
             "guarded", "guardFailed"}
Undoing  == Guarding \union
            {"compensate", "settleBlob", "deleteBlob", "blobGone", "removeRole",
             "unroled", "removeRule", "ruleRemoved", "restoreStop", "awaitStop",
             "restoreSettings", "settingsRestored", "end"}
After    == Guarding \union {"op", "retire", "assemble", "end"}

(* The network is on its way open, or open.                                *)
Exposed == cloud["network"] \/ <<"network", TRUE>> \in flight

StateOK ==
    /\ role \in DOMAIN Grants
    /\ i \in Nat
    /\ members \subseteq Locked /\ initial \subseteq Locked /\ todo \subseteq Locked
    /\ marker \in BOOLEAN /\ opened \in BOOLEAN
    /\ cloud \in [Resources -> BOOLEAN]
    /\ flight \in SUBSET Requests

(* The canary is the plan's tenth operation, and is entered once.          *)
OrderOK ==
    /\ pc \in Entering \union Inside => i = 10
    /\ pc \in {"op", "retire"} => i # 0
    /\ (i = 0 /\ pc \in Guarding) => ~Retiring
    /\ opened => \/ pc \in Inside
                 \/ pc \in Undoing /\ i = 0
                 \/ pc \in After /\ i > 10 /\ (pc \in Guarding => Retiring)
                 \/ pc = "end"

(* An opening that is known to be complete has no request under way, and   *)
(* is undone when the marker goes.                                         *)
NetworkOK ==
    /\ pc = "enableNetwork" => marker
    /\ opened => <<"network", TRUE>> \notin flight
    /\ (opened /\ pc \in {"finalStop", "clear"}) => ~cloud["network"]

MarkedInv == StateOK /\ OrderOK /\ NetworkOK /\ ExposedIsMarked

(* A step that leaves the network and the requests to open it alone.       *)
Quiet ==
    /\ cloud' \in [Resources -> BOOLEAN]
    /\ flight' \in SUBSET Requests
    /\ cloud'["network"] = cloud["network"]
    /\ <<"network", TRUE>> \in flight' <=> <<"network", TRUE>> \in flight

(* A request to another resource is quiet.                                 *)
LEMMA SendElsewhere ==
    ASSUME StateOK, NEW x \in Resources \ {"network"}, NEW v \in BOOLEAN, NEW a,
           Send(x, v, a)
    PROVE  Quiet
<1>1. <<x, v>> \in Requests /\ <<x, v>> # <<"network", TRUE>>
    BY DEF Requests
<1>2. CASE UNCHANGED <<cloud, flight>>
    BY <1>2 DEF StateOK, Quiet
<1>3. CASE Take(<<x, v>>)
    BY <1>3 DEF StateOK, Quiet, Take
<1>4. CASE Delay(<<x, v>>)
    BY <1>1, <1>4 DEF StateOK, Quiet, Delay
<1> QED  BY <1>2, <1>3, <1>4 DEF Send, Ignore

(* A step that sends nothing is quiet.                                     *)
LEMMA NoSend ==
    ASSUME StateOK, UNCHANGED cloudVars
    PROVE  Quiet
BY DEF StateOK, Quiet, cloudVars

(* A role phase grants nothing but the known parts.                        *)
LEMMA PartsKnown ==
    ASSUME StateOK
    PROVE  /\ Parts \subseteq Resources \ {"network", "lock", "legacy"}
           /\ Assignments \subseteq Locked
           /\ "legacy" \notin Assignments
<1>1. PICK r \in {"controller", "fence", "key", "package"} : role = r
    BY DEF StateOK, Grants
<1>2. Parts \subseteq {"assignment", "definition", "writer", "reader"}
    BY <1>1 DEF Parts, Grants
<1> QED  BY <1>2 DEF Assignments, Resources, Locked

(* Where the operations before the canary begin.                           *)
Early == Owners \union {"settleBlob", "removeRole", "removeRule"}

(* The canary comes tenth, and only the retirement follows it.             *)
LEMMA PlanOrder ==
    /\ Len(Plan) = 12
    /\ \A n \in 1 .. 9 : Plan[n] \in {"permanent"} \union Early \union DOMAIN OwnerOf
    /\ Plan[10] = "canary"
    /\ \A n \in 11 .. 12 : Plan[n] \in {"retire", "permanent"}
BY DEF Plan, Early, Owners, OwnerOf

(* A step of the operation loop and of the operations other than the       *)
(* canary: quiet, and on the way the order of the plan allows.             *)
Path ==
    /\ i' \in Nat
    /\ OrderOK'
    /\ pc' \notin {"enableNetwork", "finalStop", "clear"}

LEMMA ExecPath ==
    ASSUME StateOK, OrderOK, ExecStep, UNCHANGED <<members, opened>>
    PROVE  Quiet /\ Path
<1> USE DEF Stay, Advance, Abort, RemovalFailed, planVars
<1>1. CASE Operation
    <2>1. Quiet
        BY <1>1, NoSend DEF Operation
    <2>2. /\ pc = "op"
          /\ \/ pc' = "compensate" /\ i' = 0
             \/ pc' = "op" /\ i' = i + 1
             \/ i' = i /\ pc' = "canary" /\ i = 10
             \/ i' = i /\ pc' = "retire" /\ i > 10
             \/ i' = i /\ i < 10 /\ pc' \in Early
        <3>1. pc = "op" /\ i \in 1 .. 12
            BY <1>1, PlanOrder DEF Operation, StateOK, OrderOK
        <3>2. CASE Abort(owned)
            BY <3>1, <3>2
        <3>3. CASE Plan[i] = "permanent" /\ Advance(owned)
            BY <3>1, <3>3
        <3>4. CASE Plan[i] \in Owners \union {"canary", "retire"} /\ Stay(Plan[i])
            <4>1. i' = i /\ pc' = Plan[i]
                BY <3>4
            <4>2. i < 10 \/ i = 10 \/ i > 10
                BY <3>1
            <4> QED  BY <3>1, <3>4, <4>1, <4>2, PlanOrder DEF Early, Owners, OwnerOf
        <3>5. CASE Plan[i] \in DOMAIN OwnerOf /\ pc' = Remove(OwnerOf[Plan[i]])
                   /\ i' = i
            <4>1. i < 10
                BY <3>1, <3>5, PlanOrder DEF OwnerOf
            <4>2. pc' \in Early
                BY <3>5 DEF OwnerOf, Remove, Early
            <4> QED  BY <3>1, <3>5, <4>1, <4>2
        <3> QED  BY <1>1, <3>2, <3>3, <3>4, <3>5 DEF Operation
    <2>3. Path
        <3>1. opened => i > 10
            BY <2>2 DEF OrderOK, Inside, Undoing, Guarding
        <3>2. CASE pc' \in {"compensate", "op", "canary", "retire"}
            BY <2>2, <3>1, <3>2 DEF Path, StateOK, OrderOK, Retiring, Entering,
                   Inside, Guarding, Undoing, After, Early, Owners
        <3>3. CASE pc' \in Early /\ i' = i /\ i < 10
            BY <2>2, <3>1, <3>3 DEF Path, StateOK, OrderOK, Entering, Inside,
                   Guarding, Early, Owners
        <3> QED  BY <2>2, <3>2, <3>3
    <2> QED  BY <2>1, <2>3
<1>2. CASE AddRule
    <2>1. Quiet
        BY <1>2, NoSend, SendElsewhere DEF AddRule, Resources
    <2>2. /\ pc = "rule"
          /\ \/ pc' = "compensate" /\ i' = 0
             \/ pc' = "ruleAdded" /\ i' = i
        BY <1>2 DEF AddRule
    <2>3. Path
        BY <2>2 DEF Path, StateOK, OrderOK, Retiring, Entering, Inside, Guarding,
               Undoing, After
    <2> QED  BY <2>1, <2>3
<1>3. CASE RuleAdded
    <2>1. Quiet
        BY <1>3, NoSend DEF RuleAdded
    <2>2. Path
        BY <1>3 DEF RuleAdded, Path, StateOK, OrderOK, Retiring,
               Entering, Inside, Guarding, Undoing, After
    <2> QED  BY <2>1, <2>2
<1>4. CASE Grant
    <2>1. Quiet
        BY <1>4, NoSend, SendElsewhere, PartsKnown DEF Grant
    <2>2. /\ pc = "role"
          /\ \/ pc' = "compensate" /\ i' = 0
             \/ pc' = "granted" /\ i' = i
        BY <1>4 DEF Grant
    <2>3. Path
        BY <2>2 DEF Path, StateOK, OrderOK, Retiring, Entering, Inside, Guarding,
               Undoing, After
    <2> QED  BY <2>1, <2>3
<1>5. CASE Granted
    <2>1. Quiet
        BY <1>5, NoSend DEF Granted
    <2>2. Path
        BY <1>5 DEF Granted, Path, StateOK, OrderOK, Retiring,
               Entering, Inside, Guarding, Undoing, After
    <2> QED  BY <2>1, <2>2
<1>6. CASE Unguarded
    <2>1. Quiet
        BY <1>6, NoSend DEF Unguarded
    <2>2. Path
        BY <1>6 DEF Unguarded, Path, StateOK, OrderOK, Retiring,
               Entering, Inside, Guarding, Undoing, After
    <2> QED  BY <2>1, <2>2
<1>7. CASE Retired
    <2>1. Quiet
        BY <1>7, NoSend DEF Retired
    <2>2. Path
        BY <1>7 DEF Retired, Path, StateOK, OrderOK, Retiring,
               Entering, Inside, Guarding, Undoing, After
    <2> QED  BY <2>1, <2>2
<1>8. CASE RemoveDefinition
    <2>1. Quiet
        BY <1>8, NoSend, SendElsewhere DEF RemoveDefinition, Resources
    <2>2. /\ pc = "guarded" /\ ~Retiring
          /\ \/ pc' = "compensate" /\ i' = 0
             \/ pc' = "unroled" /\ i' = i
        BY <1>8 DEF RemoveDefinition
    <2>3. Path
        BY <2>2 DEF Path, StateOK, OrderOK, Retiring, Entering, Inside, Guarding,
               Undoing, After
    <2> QED  BY <2>1, <2>3
<1>9. CASE RoleRemoved
    <2>1. Quiet
        BY <1>9, NoSend DEF RoleRemoved
    <2>2. Path
        BY <1>9 DEF RoleRemoved, Removed, Path, StateOK, OrderOK, Retiring,
               Entering, Inside, Guarding, Undoing, After
    <2> QED  BY <2>1, <2>2
<1>10. CASE CreateBlob
    <2>1. Quiet
        BY <1>10, NoSend, SendElsewhere DEF CreateBlob, Resources
    <2>2. /\ pc = "blob"
          /\ \/ pc' = "compensate" /\ i' = 0
             \/ pc' = "blob" /\ i' = i
             \/ pc' = "blobCreated" /\ i' = i
        BY <1>10 DEF CreateBlob
    <2>3. Path
        BY <2>2 DEF Path, StateOK, OrderOK, Retiring, Entering, Inside, Guarding,
               Undoing, After
    <2> QED  BY <2>1, <2>3
<1>11. CASE BlobCreated
    <2>1. Quiet
        BY <1>11, NoSend DEF BlobCreated
    <2>2. Path
        BY <1>11 DEF BlobCreated, Path, StateOK, OrderOK, Retiring,
               Entering, Inside, Guarding, Undoing, After
    <2> QED  BY <2>1, <2>2
<1>12. CASE SettleBlob
    <2>1. Quiet
        BY <1>12, NoSend DEF SettleBlob
    <2>2. Path
        BY <1>12 DEF SettleBlob, BlobFailed, Path, StateOK, OrderOK, Retiring,
               Entering, Inside, Guarding, Undoing, After
    <2> QED  BY <2>1, <2>2
<1>13. CASE DeleteBlob
    <2>1. Quiet
        BY <1>13, NoSend, SendElsewhere DEF DeleteBlob, Resources
    <2>2. Path
        BY <1>13 DEF DeleteBlob, BlobFailed, Path, StateOK, OrderOK, Retiring,
               Entering, Inside, Guarding, Undoing, After
    <2> QED  BY <2>1, <2>2
<1>14. CASE BlobGone
    <2>1. Quiet
        BY <1>14, NoSend DEF BlobGone
    <2>2. Path
        BY <1>14 DEF BlobGone, BlobFailed, Removed, Path, StateOK, OrderOK, Retiring,
               Entering, Inside, Guarding, Undoing, After
    <2> QED  BY <2>1, <2>2
<1>15. CASE RemoveRule
    <2>1. Quiet
        BY <1>15, NoSend, SendElsewhere DEF RemoveRule, Resources
    <2>2. /\ pc = "removeRule"
          /\ \/ pc' = "compensate" /\ i' = 0
             \/ pc' = "ruleRemoved" /\ i' = i
        BY <1>15 DEF RemoveRule
    <2>3. Path
        BY <2>2 DEF Path, StateOK, OrderOK, Retiring, Entering, Inside, Guarding,
               Undoing, After
    <2> QED  BY <2>1, <2>3
<1>16. CASE RuleRemoved
    <2>1. Quiet
        BY <1>16, NoSend DEF RuleRemoved
    <2>2. Path
        BY <1>16 DEF RuleRemoved, Removed, Path, StateOK, OrderOK, Retiring,
               Entering, Inside, Guarding, Undoing, After
    <2> QED  BY <2>1, <2>2
<1>17. CASE Configure
    <2>1. Quiet
        BY <1>17, NoSend, SendElsewhere DEF Configure, Resources
    <2>2. /\ pc = "settings"
          /\ \/ pc' = "compensate" /\ i' = 0
             \/ pc' = "op" /\ i' = i + 1
        BY <1>17 DEF Configure
    <2>3. Path
        BY <2>2 DEF Path, StateOK, OrderOK, Retiring, Entering, Inside, Guarding,
               Undoing, After
    <2> QED  BY <2>1, <2>3
<1>18. CASE RestoreStop
    <2>1. Quiet
        BY <1>18, NoSend, SendElsewhere DEF RestoreStop, Resources
    <2>2. /\ pc = "restoreStop"
          /\ \/ pc' = "compensate" /\ i' = 0
             \/ pc' = "restoreSettings" /\ i' = i
             \/ pc' = "awaitStop" /\ i' = i
        BY <1>18 DEF RestoreStop
    <2>3. Path
        BY <2>2 DEF Path, StateOK, OrderOK, Retiring, Entering, Inside, Guarding,
               Undoing, After
    <2> QED  BY <2>1, <2>3
<1>19. CASE AwaitStop
    <2>1. Quiet
        BY <1>19, NoSend DEF AwaitStop
    <2>2. Path
        BY <1>19 DEF AwaitStop, Path, StateOK, OrderOK, Retiring,
               Entering, Inside, Guarding, Undoing, After
    <2> QED  BY <2>1, <2>2
<1>20. CASE RestoreSettings
    <2>1. Quiet
        BY <1>20, NoSend, SendElsewhere DEF RestoreSettings, Resources
    <2>2. /\ pc = "restoreSettings"
          /\ \/ pc' = "compensate" /\ i' = 0
             \/ pc' = "settingsRestored" /\ i' = i
             \/ pc' = "op" /\ i' = i + 1 /\ i # 0
             \/ pc' = "compensate" /\ i' = i /\ i = 0
        BY <1>20 DEF RestoreSettings, Removed
    <2>3. Path
        BY <2>2 DEF Path, StateOK, OrderOK, Retiring, Entering, Inside, Guarding,
               Undoing, After
    <2> QED  BY <2>1, <2>3
<1>21. CASE SettingsRestored
    <2>1. Quiet
        BY <1>21, NoSend DEF SettingsRestored
    <2>2. Path
        BY <1>21 DEF SettingsRestored, Removed, Path, StateOK, OrderOK, Retiring,
               Entering, Inside, Guarding, Undoing, After
    <2> QED  BY <2>1, <2>2
<1>22. CASE CanaryEnd
    <2>1. Quiet
        BY <1>22, NoSend DEF CanaryEnd
    <2>2. Path
        BY <1>22 DEF CanaryEnd, Path, StateOK, OrderOK, Retiring,
               Entering, Inside, Guarding, Undoing, After
    <2> QED  BY <2>1, <2>2
<1>23. CASE Finalize
    <2>1. Quiet
        BY <1>23, NoSend DEF Finalize
    <2>2. Path
        BY <1>23 DEF Finalize, Path, StateOK, OrderOK, Retiring,
               Entering, Inside, Guarding, Undoing, After
    <2> QED  BY <2>1, <2>2
<1>24. CASE Assemble
    <2>1. Quiet
        BY <1>24, NoSend DEF Assemble
    <2>2. Path
        BY <1>24 DEF Assemble, Path, StateOK, OrderOK, Retiring,
               Entering, Inside, Guarding, Undoing, After
    <2> QED  BY <2>1, <2>2
<1>25. CASE Compensate
    <2>1. Quiet
        BY <1>25, NoSend DEF Compensate
    <2>2. Path
        BY <1>25 DEF Compensate, Remove, Owners, Path, StateOK, OrderOK, Retiring,
               Entering, Inside, Guarding, Undoing, After
    <2> QED  BY <2>1, <2>2
<1> QED  BY <1>1, <1>2, <1>3, <1>4, <1>5, <1>6, <1>7, <1>8, <1>9, <1>10,
            <1>11, <1>12, <1>13, <1>14, <1>15, <1>16, <1>17, <1>18, <1>19,
            <1>20, <1>21, <1>22, <1>23, <1>24, <1>25 DEF ExecStep
(* A step on the way the plan allows that leaves the network, the marker   *)
(* and the canary's knowledge alone preserves the invariant.               *)
LEMMA PathKeeps ==
    ASSUME MarkedInv, Quiet, Path, UNCHANGED <<role, marker, opened>>,
           members' \subseteq Locked, initial' \subseteq Locked, todo' \subseteq Locked
    PROVE  MarkedInv'
BY DEF MarkedInv, StateOK, NetworkOK, ExposedIsMarked, Quiet, Path

(* The steps into a guarded deletion.                                      *)
LEMMA EnterKeeps ==
    ASSUME MarkedInv, RemoveRole \/ Retire, UNCHANGED <<live, canaryVars, role>>
    PROVE  MarkedInv'
<1> USE DEF Stay, Abort, RemovalFailed, planVars, MarkedInv
<1>1. Quiet
    BY NoSend DEF RemoveRole, Retire
<1>2. CASE RemoveRole
    <2>1. /\ pc = "removeRole"
          /\ \/ pc' = "compensate" /\ i' = 0
             \/ pc' \in {"guard", "guarded"} /\ i' = i /\ members' # {"legacy"}
        BY <1>2, PartsKnown DEF RemoveRole, EnterGuard
    <2>2. members' \subseteq Locked /\ initial' \subseteq Locked /\ todo' \subseteq Locked
        BY <1>2, PartsKnown DEF RemoveRole, EnterGuard, guardVars, StateOK
    <2>3. Path
        BY <2>1 DEF Path, StateOK, OrderOK, Retiring, Entering, Inside, Guarding,
               Undoing, After, canaryVars
    <2> QED  BY <1>1, <2>2, <2>3, PathKeeps DEF canaryVars
<1>3. CASE Retire
    <2>1. /\ pc = "retire"
          /\ \/ pc' = "compensate" /\ i' = 0
             \/ pc' = "guard" /\ i' = i /\ members' = {"legacy"}
        BY <1>3 DEF Retire, EnterGuard
    <2>2. members' \subseteq Locked /\ initial' \subseteq Locked /\ todo' \subseteq Locked
        BY <1>3 DEF Retire, EnterGuard, guardVars, StateOK, Locked
    <2>3. Path
        BY <2>1 DEF Path, StateOK, OrderOK, Retiring, Entering, Inside, Guarding,
               Undoing, After, canaryVars
    <2> QED  BY <1>1, <2>2, <2>3, PathKeeps DEF canaryVars
<1> QED  BY <1>2, <1>3

(* The steps of a guarded deletion.                                        *)
LEMMA GuardKeeps ==
    ASSUME MarkedInv, GuardNext, UNCHANGED <<canaryVars, execVars>>
    PROVE  MarkedInv'
<1> USE DEF Goto, MarkedInv
<1>1. Quiet
    <2>1. CASE GuardRead
        BY <2>1, NoSend DEF GuardRead
    <2>2. CASE Suspend
        BY <2>2, NoSend, SendElsewhere DEF Suspend, Resources
    <2>3. CASE Suspended
        BY <2>3, NoSend DEF Suspended
    <2>4. CASE Unassign
        BY <2>4, NoSend, SendElsewhere DEF Unassign, Resources, StateOK, Locked
    <2>5. CASE Unassigned
        BY <2>5, NoSend DEF Unassigned
    <2>6. CASE Restore
        BY <2>6, NoSend, SendElsewhere DEF Restore, Resources
    <2>7. CASE Restored
        BY <2>7, NoSend DEF Restored
    <2> QED  BY <2>1, <2>2, <2>3, <2>4, <2>5, <2>6, <2>7 DEF GuardNext
<1>2. pc \in Guarding /\ pc' \in Guarding /\ members' = members
    BY DEF GuardNext, GuardRead, Suspend, Suspended, Unassign, Unassigned,
           Restore, Restored, Guarding, guardVars
<1>3. initial' \subseteq Locked /\ todo' \subseteq Locked
    BY DEF GuardNext, GuardRead, Suspend, Suspended, Unassign, Unassigned,
           Restore, Restored, guardVars, Present, StateOK
<1>4. UNCHANGED <<i, role, marker, opened>>
    BY DEF canaryVars, execVars, planVars
<1>5. Path
    BY <1>2, <1>4 DEF Path, StateOK, OrderOK, Retiring, Entering, Inside, Guarding,
           Undoing, After
<1> QED  BY <1>1, <1>2, <1>3, <1>4, <1>5, PathKeeps DEF StateOK

(* A request for the network leaves everything else alone, and one to      *)
(* close it opens nothing.                                                 *)
LEMMA SendNetwork ==
    ASSUME StateOK, NEW v \in BOOLEAN, NEW a, Send("network", v, a)
    PROVE  /\ cloud' \in [Resources -> BOOLEAN]
           /\ flight' \in SUBSET Requests
           /\ ~v => /\ cloud'["network"] => cloud["network"]
                    /\ <<"network", TRUE>> \in flight' => <<"network", TRUE>> \in flight
<1>1. <<"network", v>> \in Requests /\ "network" \in Resources
    BY DEF Requests, Resources
<1>2. CASE UNCHANGED <<cloud, flight>>
    BY <1>2 DEF StateOK
<1>3. CASE Take(<<"network", v>>)
    BY <1>1, <1>3 DEF StateOK, Take
<1>4. CASE Delay(<<"network", v>>)
    BY <1>1, <1>4 DEF StateOK, Delay
<1> QED  BY <1>2, <1>3, <1>4 DEF Send, Ignore

(* The order of the canary: it begins with nothing opened.                 *)
LEMMA CanaryOrder ==
    ASSUME StateOK, OrderOK, CanaryNext, UNCHANGED <<guardVars, execVars>>
    PROVE  /\ pc \in Entering \union Inside /\ i = 10
           /\ pc \in Entering => ~opened
           /\ pc' \in Inside \union {"enableNetwork"}
           /\ OrderOK'
<1>1. pc \in Entering \union Inside /\ pc' \in Inside \union {"enableNetwork"}
    BY DEF CanaryNext, CanaryMark, EnableNetwork, AwaitNetwork, Restop, EnableScm,
           StartSite, RunJob, CanaryStop, Census, CloseScm, Resolve, CloseNetwork,
           Closing, FinalStop, ClearMarker, Goto, Entering, Inside
<1>2. i = 10 /\ i' = i
    BY <1>1 DEF OrderOK, execVars, planVars
<1>3. pc \in Entering => ~opened
    BY <1>2 DEF OrderOK, Entering, Inside, Undoing, Guarding, After
<1>4. pc' = "enableNetwork" => ~opened'
    BY <1>3 DEF CanaryNext, CanaryMark, EnableNetwork, AwaitNetwork, Restop, EnableScm,
           StartSite, RunJob, CanaryStop, Census, CloseScm, Resolve, CloseNetwork,
           Closing, FinalStop, ClearMarker, Goto, Entering
<1>5. OrderOK'
    BY <1>1, <1>2, <1>4 DEF OrderOK, Entering, Inside, Guarding
<1> QED  BY <1>1, <1>2, <1>3, <1>5

(* The steps of the canary.                                                *)
LEMMA CanaryKeeps ==
    ASSUME MarkedInv, CanaryNext, UNCHANGED <<guardVars, execVars>>
    PROVE  MarkedInv'
<1> USE DEF Goto, MarkedInv
<1>1. /\ OrderOK'
      /\ pc \in Entering => ~opened
    BY CanaryOrder
<1>2. UNCHANGED <<i, role, members, initial, todo>>
    BY DEF guardVars, execVars, planVars
<1> DEFINE Known == marker' \in BOOLEAN /\ opened' \in BOOLEAN
<1> DEFINE Safe  == NetworkOK' /\ ExposedIsMarked'
<1> DEFINE Typed == cloud' \in [Resources -> BOOLEAN] /\ flight' \in SUBSET Requests
<1>3. ASSUME Quiet, UNCHANGED <<marker, opened>>, pc' # "enableNetwork",
             pc' \in {"finalStop", "clear"} => pc \in {"finalStop", "clear"}
      PROVE  Typed /\ Known /\ Safe
    BY <1>3 DEF Quiet, StateOK, NetworkOK, ExposedIsMarked
<1>4. Typed /\ Known /\ Safe
    <2>1. CASE CanaryMark
        <3>1. Typed /\ UNCHANGED <<cloud, flight>> /\ ~opened /\ UNCHANGED opened
            BY <2>1, <1>1 DEF CanaryMark, cloudVars, StateOK, Entering
        <3>2. /\ marker' \in BOOLEAN
              /\ marker \/ pc' = "enableNetwork" => marker'
            BY <2>1 DEF CanaryMark, StateOK
        <3>3. pc' \notin {"finalStop", "clear"}
            BY <2>1 DEF CanaryMark
        <3>4. Known /\ NetworkOK'
            BY <3>1, <3>2, <3>3 DEF StateOK, NetworkOK
        <3>5. ExposedIsMarked'
            BY <3>1, <3>2 DEF StateOK, ExposedIsMarked
        <3> QED  BY <3>1, <3>4, <3>5
    <2>2. CASE EnableNetwork
        <3>1. Typed
            BY <2>2, SendNetwork DEF EnableNetwork, cloudVars, StateOK
        <3>2. marker' /\ ~opened' /\ marker' = marker /\ opened' = opened
            BY <2>2, <1>1 DEF EnableNetwork, NetworkOK, Entering
        <3> QED  BY <3>1, <3>2 DEF StateOK, NetworkOK, ExposedIsMarked
    <2>3. CASE AwaitNetwork
        <3>1. UNCHANGED <<cloud, flight, marker>> /\ pc' \in {"restop", "canaryStop"}
            BY <2>3 DEF AwaitNetwork, cloudVars
        <3>2. /\ opened' \in BOOLEAN
              /\ opened' => opened \/ <<"network", TRUE>> \notin flight
            <4>1. UNCHANGED opened \/ (opened' = TRUE /\ <<"network", TRUE>> \notin flight)
                BY <2>3 DEF AwaitNetwork
            <4>2. CASE UNCHANGED opened
                BY <4>2 DEF StateOK
            <4>3. CASE opened' = TRUE /\ <<"network", TRUE>> \notin flight
                BY <4>3
            <4> QED  BY <4>1, <4>2, <4>3
        <3> QED  BY <3>1, <3>2 DEF StateOK, NetworkOK, ExposedIsMarked
    <2>4. CASE Restop
        BY <2>4, <1>3, NoSend, SendElsewhere DEF Restop, Resources
    <2>5. CASE EnableScm
        BY <2>5, <1>3, NoSend, SendElsewhere DEF EnableScm, Resources
    <2>6. CASE StartSite
        BY <2>6, <1>3, NoSend, SendElsewhere DEF StartSite, Resources
    <2>7. CASE RunJob
        BY <2>7, <1>3, NoSend DEF RunJob
    <2>8. CASE CanaryStop
        BY <2>8, <1>3, NoSend, SendElsewhere DEF CanaryStop, Resources
    <2>9. CASE Census
        BY <2>9, <1>3, NoSend DEF Census
    <2>10. CASE CloseScm
        BY <2>10, <1>3, NoSend, SendElsewhere DEF CloseScm, Resources
    <2>11. CASE Resolve
        <3>1. /\ UNCHANGED <<cloud, flight, marker>>
              /\ pc' \in {"closeNetwork", "canaryEnd"}
            BY <2>11 DEF Resolve, cloudVars
        <3>2. /\ opened' \in BOOLEAN
              /\ opened' => opened \/ <<"network", TRUE>> \notin flight
            <4>1. UNCHANGED opened \/ (opened' = TRUE /\ <<"network", TRUE>> \notin flight)
                BY <2>11 DEF Resolve
            <4>2. CASE UNCHANGED opened
                BY <4>2 DEF StateOK
            <4>3. CASE opened' = TRUE /\ <<"network", TRUE>> \notin flight
                BY <4>3
            <4> QED  BY <4>1, <4>2, <4>3
        <3> QED  BY <3>1, <3>2 DEF StateOK, NetworkOK, ExposedIsMarked
    <2>12. CASE CloseNetwork
        <3>1. CASE opened /\ ~cloud["network"] /\ UNCHANGED cloudVars
            BY <2>12, <3>1 DEF CloseNetwork, cloudVars, StateOK, NetworkOK, ExposedIsMarked
        <3>2. CASE pc' = "canaryEnd" /\ UNCHANGED cloudVars
            BY <2>12, <3>2 DEF CloseNetwork, cloudVars, StateOK, NetworkOK, ExposedIsMarked
        <3>3. CASE \E a \in Answers : Send("network", FALSE, a)
                                        /\ pc' \in {"closing", "canaryEnd"}
            <4>1. UNCHANGED <<marker, opened>>
                BY <2>12 DEF CloseNetwork
            <4>2. /\ Typed
                  /\ cloud'["network"] => cloud["network"]
                  /\ <<"network", TRUE>> \in flight' => <<"network", TRUE>> \in flight
                BY <3>3, SendNetwork
            <4> QED  BY <3>3, <4>1, <4>2 DEF StateOK, NetworkOK, ExposedIsMarked
        <3> QED  BY <2>12, <3>1, <3>2, <3>3 DEF CloseNetwork
    <2>13. CASE Closing
        BY <2>13 DEF Closing, cloudVars, StateOK, NetworkOK, ExposedIsMarked
    <2>14. CASE FinalStop
        BY <2>14, <1>3, NoSend, SendElsewhere DEF FinalStop, Resources
    <2>15. CASE ClearMarker
        BY <2>15 DEF ClearMarker, cloudVars, StateOK, NetworkOK, ExposedIsMarked
    <2> QED  BY <2>1, <2>2, <2>3, <2>4, <2>5, <2>6, <2>7, <2>8, <2>9, <2>10,
                <2>11, <2>12, <2>13, <2>14, <2>15 DEF CanaryNext
<1> QED  BY <1>1, <1>2, <1>4 DEF StateOK

(* A request under way that reaches its service: only an opening of the    *)
(* network exposes it, and that one was already marked.                    *)
LEMMA LandKeeps ==
    ASSUME MarkedInv, Land, UNCHANGED <<guardVars, canaryVars, execVars>>
    PROVE  MarkedInv'
<1> USE DEF MarkedInv
<1>1. PICK r \in flight :
        /\ flight' = flight \ {r}
        /\ cloud' = IF Permitted(r) THEN [cloud EXCEPT ![r[1]] = r[2]] ELSE cloud
    BY DEF Land
<1>2. r \in Requests /\ r = <<r[1], r[2]>> /\ r[1] \in Resources /\ r[2] \in BOOLEAN
    BY DEF StateOK, Requests
<1>3. UNCHANGED <<pc, i, role, members, initial, todo, marker, opened>>
    BY DEF Land, guardVars, canaryVars, execVars, planVars
<1>4. cloud' \in [Resources -> BOOLEAN]
    BY <1>1, <1>2 DEF StateOK
<1>5. flight' \in SUBSET Requests
    BY <1>1 DEF StateOK
<1>6. cloud'["network"] => cloud["network"] \/ r = <<"network", TRUE>>
    <2>1. "network" \in Resources
        BY DEF Resources
    <2>2. CASE r[1] = "network"
        BY <1>1, <1>2, <2>1, <2>2 DEF StateOK
    <2>3. CASE r[1] # "network"
        BY <1>1, <1>2, <2>1, <2>3 DEF StateOK
    <2> QED  BY <2>2, <2>3
<1>7. StateOK' /\ OrderOK'
    BY <1>3, <1>4, <1>5 DEF StateOK, OrderOK, Retiring
<1>8. NetworkOK' /\ ExposedIsMarked'
    BY <1>1, <1>3, <1>6 DEF NetworkOK, ExposedIsMarked
<1> QED  BY <1>7, <1>8

(* The run begins with the bridge closed and nothing under way.            *)
LEMMA MarkedInit == Init => MarkedInv
<1> SUFFICES ASSUME Init PROVE MarkedInv
    OBVIOUS
<1>1. StateOK
    <2>1. cloud \in [Resources -> BOOLEAN] /\ flight \in SUBSET Requests
        BY DEF Init, CloudInit
    <2>2. members = {} /\ initial = {} /\ todo = {}
        BY DEF Init, GuardInit
    <2> QED  BY <2>1, <2>2 DEF Init, CanaryInit, StateOK
<1>2. OrderOK /\ NetworkOK
    BY DEF Init, CloudInit, CanaryInit, OrderOK, NetworkOK, Entering, Inside, Guarding
<1>3. ExposedIsMarked
    BY DEF Init, CloudInit, CanaryInit, ExposedIsMarked, Resources, Locked
<1> QED  BY <1>1, <1>2, <1>3 DEF MarkedInv

(* Every step of the run, of the services and of a crash preserves it.     *)
LEMMA MarkedStep == MarkedInv /\ [Next]_vars => MarkedInv'
<1> SUFFICES ASSUME MarkedInv, [Next]_vars PROVE MarkedInv'
    OBVIOUS
<1> USE DEF MarkedInv
<1>1. CASE ExecStep /\ UNCHANGED <<live, guardVars, canaryVars, role>>
    <2>1. Quiet /\ Path
        BY <1>1, ExecPath DEF guardVars, canaryVars
    <2> QED  BY <1>1, <2>1, PathKeeps DEF guardVars, canaryVars, StateOK
<1>2. CASE (RemoveRole \/ Retire) /\ UNCHANGED <<live, canaryVars, role>>
    BY <1>2, EnterKeeps
<1>3. CASE GuardNext /\ UNCHANGED <<canaryVars, execVars>>
    BY <1>3, GuardKeeps
<1>4. CASE CanaryNext /\ UNCHANGED <<guardVars, execVars>>
    BY <1>4, CanaryKeeps
<1>5. CASE Environment /\ UNCHANGED <<guardVars, canaryVars, execVars>>
    <2>1. CASE Land
        BY <1>5, <2>1, LandKeeps
    <2>2. CASE Expire
        BY <1>5, <2>2 DEF Expire, guardVars, canaryVars, execVars, planVars, StateOK,
               OrderOK, NetworkOK, ExposedIsMarked, Retiring
    <2> QED  BY <1>5, <2>1, <2>2 DEF Environment
<1>6. CASE Crash
    <2>1. /\ pc' = "end" /\ i' = 0 /\ opened' = FALSE
          /\ members' = {} /\ initial' = {} /\ todo' = {}
          /\ UNCHANGED <<cloud, flight, marker, role>>
        BY <1>6 DEF Crash, EnterGuard, cloudVars
    <2>2. StateOK'
        BY <2>1 DEF StateOK
    <2>3. OrderOK'
        BY <2>1 DEF OrderOK, Entering, Inside, Guarding
    <2>4. NetworkOK' /\ ExposedIsMarked'
        BY <2>1 DEF NetworkOK, ExposedIsMarked
    <2> QED  BY <2>2, <2>3, <2>4
<1>7. CASE Resume
    BY <1>7 DEF Resume, cloudVars, guardVars, canaryVars, planVars, StateOK, OrderOK,
           NetworkOK, ExposedIsMarked, Retiring
<1>8. CASE UNCHANGED vars
    BY <1>8 DEF vars, cloudVars, guardVars, canaryVars, execVars, planVars, StateOK,
           OrderOK, NetworkOK, ExposedIsMarked, Retiring
<1> QED  BY <1>1, <1>2, <1>3, <1>4, <1>5, <1>6, <1>7, <1>8 DEF Next

(* The bridge is never open to the public network, nor on the way there,   *)
(* without the incident marker that stops the next run                     *)
(* (startBridgeForBoundedCanary, its finally, and every crash).            *)
THEOREM MarkedSafe == Spec => []ExposedIsMarked
<1>1. MarkedInv => ExposedIsMarked
    BY DEF MarkedInv
<1> QED  BY <1>1, MarkedInit, MarkedStep, PTL DEF Spec

(***************************************************************************)
(* TypeOK and NoRetry, in the same generality.  A request is sent twice    *)
(* only if a step leads back to where it is sent, so the invariant SentInv *)
(* says where the executor can be (PlaceOK: the operation, the step and    *)
(* the stack of owners), which requests are still ahead of it there, and   *)
(* that these have not been sent (OnceOK); the requests that the code may  *)
(* send again are counted stage by stage (BlobOK, StopOK, LockOK).  That   *)
(* what is ahead after a step was ahead before it (Onward) is shown action *)
(* by action, for the plan, the guard, the canary, compensation, a crash.  *)
(***************************************************************************)

(* The stacks of owners that the plan can build.                           *)
Owned0 == <<>>
Owned1 == <<"rule">>
Owned2 == <<"rule", "role">>
Owned3 == <<"rule", "role", "blob">>
OwnedS == <<"settings">>

(* Whose removal is still to come, by the plan or by compensation.         *)
HasRule == owned \in {Owned1, Owned2, Owned3}
HasRole == owned \in {Owned2, Owned3}

(* Where the executor is: each step belongs to one operation of the        *)
(* plan, or to compensation (i = 0), and to a stack.                       *)
PlaceOK ==
    /\ i \in 0 .. 13
    /\ pc \in Entering \union Inside \union Guarding \union
              {"op", "rule", "ruleAdded", "role", "granted", "blob", "blobCreated",
               "settings", "retire", "settleBlob", "deleteBlob", "blobGone",
               "removeRole", "unroled", "removeRule", "ruleRemoved",
               "restoreStop", "awaitStop", "restoreSettings", "settingsRestored",
               "assemble", "compensate", "end"}
    /\ pc = "op" => /\ i # 0
                    /\ i \in {1, 2, 9} => owned = Owned0
                    /\ i \in {3, 8} => owned = Owned1
                    /\ i \in {4, 7} => owned = Owned2
                    /\ i \in {5, 6} => owned = IF role = "controller" THEN Owned3 ELSE Owned2
                    /\ i \in 10 .. 13 => owned = OwnedS
    /\ pc \in {"rule", "ruleAdded"} => i = 2 /\ owned = Owned0
    /\ pc \in {"role", "granted"} => i = 3 /\ owned = Owned1
    /\ pc \in {"blob", "blobCreated"} => i = 4 /\ owned = Owned2 /\ role = "controller"
    /\ pc \in {"settleBlob", "deleteBlob", "blobGone"} => i \in {0, 6} /\ owned = Owned2
    /\ pc \in {"removeRole", "unroled"} => i \in {0, 7} /\ owned = Owned1
    /\ pc \in {"removeRule", "ruleRemoved"} => i \in {0, 8} /\ owned = Owned0
    /\ pc = "settings" => i = 9 /\ owned = Owned0
    /\ pc \in Entering \union Inside => i = 10 /\ owned = OwnedS
    /\ pc = "retire" => i = 11 /\ owned = OwnedS
    /\ pc \in Guarding => IF Retiring THEN i = 11 /\ owned = OwnedS
                                      ELSE i \in {0, 7} /\ owned = Owned1
    /\ pc \in {"restoreStop", "awaitStop", "restoreSettings", "settingsRestored"}
         => i = 0 /\ owned = Owned0
    /\ pc = "assemble" => i = 13 /\ owned = Owned0
    /\ pc = "compensate" => i = 0 /\ owned \in {Owned0, Owned1, Owned2, Owned3, OwnedS}
    /\ pc = "end" => i \in {0, 13} /\ owned = Owned0

(* A group of assignments under the guard; only a retirement has the       *)
(* legacy one.                                                             *)
GroupOK ==
    /\ todo \subseteq members
    /\ initial \subseteq members
    /\ ("legacy" \in members) => Retiring

(* The stages at which a request is still ahead. Each is a region of the   *)
(* plan that no step enters again once it has left it: this is what        *)
(* Onward says, and what the failures, the finally blocks and              *)
(* compensation must respect.                                              *)
ToRule   == i \in 1 .. 2 /\ pc \in {"op", "rule"}
ToGrant(x) == x \in Parts /\ i \in 1 .. 3 /\ fact[x] = "none"
ToSet    == i \in 1 .. 9
ToOpen   == i \in 1 .. 9 \/ (i = 10 /\ pc \in {"op"} \union Entering)
ToScm    == ToOpen \/ pc \in {"awaitNetwork", "restop", "enableScm"}
ToStart  == ToScm \/ pc = "startSite"
ToShut   == ToStart \/ pc \in {"runJob", "canaryStop", "census", "closeScm"}
ToClose  == ToShut \/ pc \in {"resolve", "closeNetwork"}
ToRetire == ToClose \/ pc \in {"closing", "finalStop", "clear", "canaryEnd"}
            \/ (i = 11 /\ pc \in {"op", "retire"})
            \/ (Retiring /\ pc \in {"guard", "suspend"})
ToUnrule == i \in 1 .. 2 \/ HasRule \/ pc = "removeRule"
ToUnrole == i \in 1 .. 3 \/ HasRole \/ pc = "removeRole"
              \/ (~Retiring /\ pc \in {"guard", "suspend"})
ToDrop   == ToUnrole \/ (~Retiring /\ pc \in Guarding)
ToUnassign(x) == \/ ToUnrole \/ (~Retiring /\ pc = "suspended")
                 \/ pc = "unassign" /\ x \in todo
ToRemove == \/ ToRetire \/ (Retiring /\ pc = "suspended")
            \/ pc = "unassign" /\ "legacy" \in todo
ToRestore == \/ i \in 1 .. 9 \/ owned = OwnedS
             \/ pc \in {"restoreStop", "awaitStop", "restoreSettings"}

(* The request that sets x to v is still ahead.                            *)
Ahead(x, v) ==
    \/ v /\ \/ x = "rule" /\ ToRule
            \/ ToGrant(x)
            \/ x = "settings" /\ ToSet
            \/ x = "network" /\ ToOpen
            \/ x = "scm" /\ ToScm
            \/ x = "site" /\ ToStart
    \/ ~v /\ \/ x = "rule" /\ ToUnrule
             \/ x = "definition" /\ ToDrop
             \/ x \in Locked \ {"legacy"} /\ ToUnassign(x)
             \/ x = "legacy" /\ ToRemove
             \/ x = "settings" /\ ToRestore
             \/ x = "scm" /\ ToShut
             \/ x = "network" /\ ToClose

(* The requests that are sent at most once.                                *)
Single(x, v) == x \notin {"blob", "lock"} /\ (x = "site" => v)

(* A request that is still ahead has not been sent.                        *)
OnceOK ==
    \A x \in Resources, v \in BOOLEAN : Single(x, v) =>
        /\ asked[<<x, v>>] <= 1
        /\ Ahead(x, v) => asked[<<x, v>>] = 0

(* The DELETE of the blob: two by the plan, two by compensation.           *)
ToUnblob == i \in 1 .. 5 \/ (i = 6 /\ pc \in {"op", "settleBlob"})
Dels == asked[<<"blob", FALSE>>]
BlobOK ==
    /\ Dels <= 4
    /\ ToUnblob => Dels = 0
    /\ (i = 6 /\ pc = "deleteBlob") => Dels <= (IF again THEN 1 ELSE 0)
    /\ (i = 6 \/ owned = Owned3 \/ pc = "settleBlob") => Dels <= 2
    /\ (i = 0 /\ pc = "deleteBlob") => Dels <= (IF again THEN 3 ELSE 2)

(* The stop of the site: by the canary, its finally, its restoration,      *)
(* and by compensation.                                                    *)
Stops == asked[<<"site", FALSE>>]
StopOK ==
    /\ Stops <= 4
    /\ (ToOpen \/ pc \in {"awaitNetwork", "restop"}) => Stops = 0
    /\ (ToStart \/ pc \in {"runJob", "canaryStop"}) => Stops <= 1
    /\ (ToClose \/ pc \in {"closing", "finalStop"}) => Stops <= 2
    /\ (owned = OwnedS \/ pc = "restoreStop") => Stops <= 3

(* The lock: deleted at most once per group, and put back only after       *)
(* that, for in a restoration that reads the lock as there no deletion     *)
(* of it is under way. An ambiguous answer is remembered by the guard      *)
(* (broken), and later by the run (blocked), so that no second group is    *)
(* entered.                                                                *)
Drops == asked[<<"lock", FALSE>>]
Puts  == asked[<<"lock", TRUE>>]
Dropping == <<"lock", FALSE>> \in flight
LockOK ==
    /\ Drops <= 2 /\ Puts <= Drops
    /\ ToUnrole => Drops = 0
    /\ ToRetire => Drops <= 1
    /\ pc \in {"suspended", "unassign"} => Puts < Drops
    /\ pc = "restore" => Puts < Drops \/ (cloud["lock"] /\ ~Dropping)
    /\ pc = "suspend" => cloud["lock"]
    /\ pc = "suspended" => cloud["lock"] \/ ~Dropping
    /\ \/ pc \in {"guard", "suspend", "unassign", "guarded"}
       \/ pc \in {"restore", "restored"} /\ ~broken
       \/ pc \notin Guarding \union {"end"} /\ ~blocked
       => ~Dropping
    /\ pc = "guard" => ~broken

(* The conditional PUTs of the blob.                                       *)
PutOK  == asked[<<"blob", TRUE>>] <= MaxCreates

(* The stacks as sequences.                                                *)
LEMMA OwnedSeqs ==
    /\ Owned0 \in Seq(Owners) /\ Owned1 \in Seq(Owners) /\ Owned2 \in Seq(Owners)
    /\ Owned3 \in Seq(Owners) /\ OwnedS \in Seq(Owners)
    /\ Len(Owned0) = 0 /\ Len(Owned1) = 1 /\ Len(Owned2) = 2 /\ Len(Owned3) = 3
    /\ Len(OwnedS) = 1
    /\ Owned1[1] = "rule" /\ Owned2[1] = "rule" /\ Owned3[1] = "rule"
    /\ Owned2[2] = "role" /\ Owned3[2] = "role" /\ Owned3[3] = "blob"
    /\ OwnedS[1] = "settings"
    /\ Owned0 = <<>>
BY DEF Owned0, Owned1, Owned2, Owned3, OwnedS, Owners

(* No two of the stacks are the same.                                      *)
LEMMA OwnedDistinct ==
    /\ Owned0 # Owned1 /\ Owned0 # Owned2 /\ Owned0 # Owned3 /\ Owned0 # OwnedS
    /\ Owned1 # Owned2 /\ Owned1 # Owned3 /\ Owned1 # OwnedS
    /\ Owned2 # Owned3 /\ Owned2 # OwnedS /\ Owned3 # OwnedS
<1>1. /\ Len(Owned0) = 0 /\ Len(Owned1) = 1 /\ Len(Owned2) = 2 /\ Len(Owned3) = 3
      /\ Len(OwnedS) = 1
      /\ Owned1[1] = "rule" /\ OwnedS[1] = "settings"
    BY OwnedSeqs
<1>2. /\ Owned0 # Owned1 /\ Owned0 # Owned2 /\ Owned0 # Owned3 /\ Owned0 # OwnedS
    BY ONLY <1>1
<1>3. Owned1 # Owned2 /\ Owned1 # Owned3
    BY ONLY <1>1
<1>4. Owned1 # OwnedS
    BY ONLY <1>1
<1>5. Owned2 # Owned3 /\ Owned2 # OwnedS /\ Owned3 # OwnedS
    BY ONLY <1>1, SMTT(60)
<1> QED  BY <1>2, <1>3, <1>4, <1>5

(* The owners with a new one, element by element.                          *)
LEMMA AppendIs ==
    ASSUME NEW s \in Seq(Owners), NEW e \in Owners, NEW t \in Seq(Owners),
           Len(t) = Len(s) + 1, t[Len(t)] = e,
           \A n \in 1 .. Len(s) : t[n] = s[n]
    PROVE  Append(s, e) = t
<1>1. /\ Append(s, e) \in Seq(Owners)
      /\ Len(Append(s, e)) = Len(s) + 1
      /\ \A n \in 1 .. Len(s) : Append(s, e)[n] = s[n]
      /\ Append(s, e)[Len(s) + 1] = e
    BY AppendProperties
<1>2. Len(s) \in Nat /\ \A n \in 1 .. Len(t) : n \in 1 .. Len(s) \/ n = Len(s) + 1
    OBVIOUS
<1>3. \A n \in 1 .. Len(t) : Append(s, e)[n] = t[n]
    BY <1>1, <1>2
<1> QED  BY <1>1, <1>3, SeqEqual

(* A new owner is the newest.                                              *)
LEMMA OwnedAppend ==
    /\ Append(Owned0, "rule") = Owned1 /\ Append(Owned1, "role") = Owned2
    /\ Append(Owned2, "blob") = Owned3 /\ Append(Owned0, "settings") = OwnedS
<1>1. Append(Owned0, "rule") = Owned1 /\ Append(Owned0, "settings") = OwnedS
    BY DEF Owned0, Owned1, OwnedS
<1>2. Append(Owned1, "role") = Owned2
    <2>1. \A n \in 1 .. Len(Owned1) : Owned2[n] = Owned1[n]
        <3> SUFFICES ASSUME NEW n \in 1 .. 1 PROVE Owned2[n] = Owned1[n]
            BY OwnedSeqs
        <3>1. n = 1
            OBVIOUS
        <3> QED  BY <3>1, OwnedSeqs
    <2>2. Len(Owned2) = Len(Owned1) + 1 /\ Owned2[Len(Owned2)] = "role" /\ "role" \in Owners
        BY OwnedSeqs DEF Owners
    <2> QED  BY <2>1, <2>2, OwnedSeqs, AppendIs
<1>3. Append(Owned2, "blob") = Owned3
    <2>1. \A n \in 1 .. Len(Owned2) : Owned3[n] = Owned2[n]
        <3> SUFFICES ASSUME NEW n \in 1 .. 2 PROVE Owned3[n] = Owned2[n]
            BY OwnedSeqs
        <3>1. n = 1 \/ n = 2
            OBVIOUS
        <3> QED  BY <3>1, OwnedSeqs
    <2>2. Len(Owned3) = Len(Owned2) + 1 /\ Owned3[Len(Owned3)] = "blob" /\ "blob" \in Owners
        BY OwnedSeqs DEF Owners
    <2> QED  BY <2>1, <2>2, OwnedSeqs, AppendIs
<1> QED  BY <1>1, <1>2, <1>3

(* The newest owner is the first one removed.                              *)
LEMMA OwnedFront ==
    /\ SubSeq(Owned1, 1, 0) = Owned0 /\ SubSeq(Owned2, 1, 1) = Owned1
    /\ SubSeq(Owned3, 1, 2) = Owned2 /\ SubSeq(OwnedS, 1, 0) = Owned0
<1>1. SubSeq(Owned1, 1, 0) = Owned0 /\ SubSeq(OwnedS, 1, 0) = Owned0
    BY DEF Owned0, Owned1, OwnedS
<1>2. SubSeq(Owned2, 1, 1) = Owned1
    <2>1. /\ SubSeq(Owned2, 1, 1) \in Seq(Owners)
          /\ Len(SubSeq(Owned2, 1, 1)) = 1 /\ SubSeq(Owned2, 1, 1)[1] = "rule"
        BY OwnedSeqs, SubSeqProperties
    <2> QED  BY <2>1, OwnedSeqs, SeqEqual
<1>3. SubSeq(Owned3, 1, 2) = Owned2
    <2>1. /\ SubSeq(Owned3, 1, 2) \in Seq(Owners)
          /\ Len(SubSeq(Owned3, 1, 2)) = 2
          /\ SubSeq(Owned3, 1, 2)[1] = "rule" /\ SubSeq(Owned3, 1, 2)[2] = "role"
        BY OwnedSeqs, SubSeqProperties
    <2> QED  BY <2>1, OwnedSeqs, SeqEqual
<1> QED  BY <1>1, <1>2, <1>3

(* Without the newest, a stack is its front.                               *)
LEMMA WithoutLast ==
    ASSUME NEW s \in Seq(Owners), NEW x,
           s # <<>>, s[Len(s)] = x, \A n \in 1 .. Len(s) - 1 : s[n] # x
    PROVE  Without(s, x) = SubSeq(s, 1, Len(s) - 1)
<1> DEFINE n == CHOOSE n \in DOMAIN s : s[n] = x
<1>1. Len(s) \in DOMAIN s /\ Len(s) \in Nat
    OBVIOUS
<1>2. n \in DOMAIN s /\ s[n] = x
    BY <1>1
<1>3. n = Len(s)
    BY <1>1, <1>2
<1>4. Without(s, x) = SubSeq(s, 1, Len(s) - 1) \o SubSeq(s, Len(s) + 1, Len(s))
    BY <1>1, <1>3 DEF Without
<1>5. SubSeq(s, Len(s) + 1, Len(s)) = <<>>
    BY <1>1
<1>6. SubSeq(s, 1, Len(s) - 1) \in Seq(Owners)
    BY <1>1
<1> QED  BY <1>4, <1>5, <1>6, ConcatEmptySeq

(* Without its newest owner, a stack is the one below it.                  *)
LEMMA WithoutOwned ==
    /\ Without(Owned3, "blob") = Owned2
    /\ Without(Owned2, "role") = Owned1
    /\ Without(Owned1, "rule") = Owned0
<1>1. Owned1 # <<>> /\ Owned2 # <<>> /\ Owned3 # <<>>
    BY OwnedSeqs, OwnedDistinct
<1>2. Without(Owned3, "blob") = SubSeq(Owned3, 1, 2)
    <2>1. Len(Owned3) = 3 /\ Owned3[Len(Owned3)] = "blob"
        BY OwnedSeqs
    <2>2. \A n \in 1 .. Len(Owned3) - 1 : Owned3[n] # "blob"
        <3> SUFFICES ASSUME NEW n \in 1 .. 2 PROVE Owned3[n] # "blob"
            BY <2>1
        <3>1. n = 1 \/ n = 2
            OBVIOUS
        <3> QED  BY <3>1, OwnedSeqs
    <2>3. Without(Owned3, "blob") = SubSeq(Owned3, 1, Len(Owned3) - 1)
        BY <1>1, <2>1, <2>2, OwnedSeqs, WithoutLast
    <2> QED  BY <2>1, <2>3
<1>3. Without(Owned2, "role") = SubSeq(Owned2, 1, 1)
    <2>1. Len(Owned2) = 2 /\ Owned2[Len(Owned2)] = "role"
        BY OwnedSeqs
    <2>2. \A n \in 1 .. Len(Owned2) - 1 : Owned2[n] # "role"
        <3> SUFFICES ASSUME NEW n \in 1 .. 1 PROVE Owned2[n] # "role"
            BY <2>1
        <3>1. n = 1
            OBVIOUS
        <3> QED  BY <3>1, OwnedSeqs
    <2>3. Without(Owned2, "role") = SubSeq(Owned2, 1, Len(Owned2) - 1)
        BY <1>1, <2>1, <2>2, OwnedSeqs, WithoutLast
    <2> QED  BY <2>1, <2>3
<1>4. Without(Owned1, "rule") = SubSeq(Owned1, 1, 0)
    <2>1. Len(Owned1) = 1 /\ Owned1[Len(Owned1)] = "rule"
        BY OwnedSeqs
    <2>2. \A n \in 1 .. Len(Owned1) - 1 : Owned1[n] # "rule"
        BY <2>1
    <2> QED  BY SMTT(60), <1>1, <2>1, <2>2, OwnedSeqs, WithoutLast
<1> QED  BY <1>2, <1>3, <1>4, OwnedFront

(* What a request does to the journal and to the lock.                     *)
Asks(x, v) ==
    /\ cloud' \in [Resources -> BOOLEAN]
    /\ flight' \in SUBSET Requests
    /\ doubt' \in SUBSET Requests
    /\ asked' \in [Requests -> Nat]
    /\ asked'[<<x, v>>] = asked[<<x, v>>] + 1
    /\ \A y \in Resources, w \in BOOLEAN :
         <<y, w>> # <<x, v>> => asked'[<<y, w>>] = asked[<<y, w>>]
    /\ x # "lock" => cloud'["lock"] = cloud["lock"]
    /\ \A r \in Requests \ {<<x, v>>} : r \in flight' => r \in flight

(* A request is journaled once.                                            *)
LEMMA SendAsks ==
    ASSUME CloudOK, NEW x \in Resources, NEW v \in BOOLEAN, NEW a, Send(x, v, a)
    PROVE  Asks(x, v)
<1>1. <<x, v>> \in Requests /\ "lock" \in Resources
    BY DEF Requests, Resources
<1>2. asked' = [asked EXCEPT ![<<x, v>>] = @ + 1]
    BY DEF Send
<1>3. /\ asked' \in [Requests -> Nat]
      /\ asked'[<<x, v>>] = asked[<<x, v>>] + 1
    BY <1>1, <1>2 DEF CloudOK
<1>4. ASSUME NEW y \in Resources, NEW w \in BOOLEAN, <<y, w>> # <<x, v>>
      PROVE  asked'[<<y, w>>] = asked[<<y, w>>]
    <2>1. <<y, w>> \in Requests
        BY DEF Requests
    <2> QED  BY <1>1, <1>2, <1>4, <2>1 DEF CloudOK
<1>5. doubt' \in SUBSET Requests
    BY <1>1 DEF Send, CloudOK
<1>6. CASE UNCHANGED <<cloud, flight>>
    BY <1>3, <1>4, <1>5, <1>6 DEF Asks, CloudOK
<1>7. CASE Take(<<x, v>>)
    <2>1. /\ cloud' \in [Resources -> BOOLEAN]
          /\ x # "lock" => cloud'["lock"] = cloud["lock"]
        BY <1>1, <1>7 DEF CloudOK, Take
    <2> QED  BY <1>3, <1>4, <1>5, <1>7, <2>1 DEF Asks, CloudOK, Take
<1>8. CASE Delay(<<x, v>>)
    BY <1>1, <1>3, <1>4, <1>5, <1>8 DEF Asks, CloudOK, Delay
<1> QED  BY <1>6, <1>7, <1>8 DEF Send, Ignore

(* No stage is entered again.                                              *)
Onward ==
    /\ ToRule' => ToRule
    /\ \A x \in Resources : ToGrant(x)' => ToGrant(x)
    /\ ToSet' => ToSet
    /\ ToOpen' => ToOpen
    /\ ToScm' => ToScm
    /\ ToStart' => ToStart
    /\ ToShut' => ToShut
    /\ ToClose' => ToClose
    /\ ToRetire' => ToRetire
    /\ ToUnrule' => ToUnrule
    /\ ToUnrole' => ToUnrole
    /\ ToDrop' => ToDrop
    /\ \A x \in Locked \ {"legacy"} : ToUnassign(x)' => ToUnassign(x)
    /\ ToRemove' => ToRemove
    /\ ToRestore' => ToRestore

(* The operations of the plan.                                             *)
LEMMA PlanAt ==
    /\ Len(Plan) = 12
    /\ Plan[1] = "permanent" /\ Plan[2] = "rule" /\ Plan[3] = "role"
    /\ Plan[4] = IF role = "controller" THEN "blob" ELSE "permanent"
    /\ Plan[5] = "permanent"
    /\ Plan[6] = IF role = "controller" THEN "unblob" ELSE "permanent"
    /\ Plan[7] = "unrole" /\ Plan[8] = "unrule" /\ Plan[9] = "settings"
    /\ Plan[10] = "canary" /\ Plan[11] = "retire" /\ Plan[12] = "permanent"
BY DEF Plan

(* A step into compensation keeps nothing ahead but the removals.          *)
LEMMA IntoCompensation ==
    ASSUME PlaceOK, pc' = "compensate", i' = 0, UNCHANGED <<role, members, initial, todo>>,
           owned' \in {Owned0, Owned1, Owned2, Owned3, OwnedS},
           HasRule' => ToUnrule, HasRole' => ToUnrole, owned' = OwnedS => ToRestore
    PROVE  PlaceOK' /\ Onward
<1>1. PlaceOK'
    BY DEF PlaceOK, Entering, Inside, Guarding
<1>2. Onward
    BY DEF Onward, ToRule, ToGrant, ToSet, ToOpen, ToScm, ToStart, ToShut, ToClose,
           ToRetire, ToUnrule, ToUnrole, ToDrop, ToUnassign, ToRemove, ToRestore, Entering,
           Guarding
<1> QED  BY <1>1, <1>2

(* A removal by the plan is that of the newest owner.                      *)
LEMMA OperationRemoves ==
    ASSUME PlaceOK, pc = "op", i \in 1 .. 12, Plan[i] \in DOMAIN OwnerOf,
           owned' = Without(owned, OwnerOf[Plan[i]]), pc' = Remove(OwnerOf[Plan[i]])
    PROVE  /\ i \in {6, 7, 8} /\ (i = 6 => role = "controller")
           /\ i = 6 => pc' = "settleBlob" /\ owned' = Owned2 /\ owned = Owned3
           /\ i = 7 => pc' = "removeRole" /\ owned' = Owned1 /\ owned = Owned2
           /\ i = 8 => pc' = "removeRule" /\ owned' = Owned0 /\ owned = Owned1
<1>1. i \in {6, 7, 8} /\ (i = 6 => role = "controller")
    BY PlanAt DEF OwnerOf
<1>2. /\ i = 6 => OwnerOf[Plan[i]] = "blob"
      /\ i = 7 => OwnerOf[Plan[i]] = "role"
      /\ i = 8 => OwnerOf[Plan[i]] = "rule"
    BY <1>1, PlanAt DEF OwnerOf
<1> QED  BY <1>1, <1>2, WithoutOwned DEF Remove, PlaceOK

(* The operation loop.                                                     *)
LEMMA OperationMoves ==
    ASSUME PlaceOK, Operation, UNCHANGED <<role, members, initial, todo>>
    PROVE  PlaceOK' /\ Onward
<1>1. pc = "op" /\ i \in 1 .. 12 /\ UNCHANGED <<fact, Parts>>
    BY PlanAt DEF Operation, PlaceOK, grantVars, Parts
<1>2. CASE Abort(owned)
    <2>1. /\ pc' = "compensate" /\ i' = 0 /\ owned' = owned
          /\ owned \in {Owned0, Owned1, Owned2, Owned3, OwnedS}
        BY <1>1, <1>2 DEF Abort, PlaceOK
    <2>2. /\ HasRule' => ToUnrule
          /\ HasRole' => ToUnrole
          /\ owned' = OwnedS => ToRestore
        BY <2>1 DEF HasRule, HasRole, ToUnrule, ToUnrole, ToRestore
    <2> QED  BY <2>1, <2>2, IntoCompensation
<1>3. CASE Plan[i] = "permanent" /\ Advance(owned)
    <2>1. i \in {1, 4, 5, 6, 12} /\ (i \in {4, 6} => role # "controller")
        BY <1>1, <1>3, PlanAt
    <2>2. pc' = "op" /\ i' = i + 1 /\ owned' = owned
        BY <1>3 DEF Advance
    <2>3. PlaceOK'
        BY <1>1, <2>1, <2>2 DEF PlaceOK, Entering, Inside, Guarding
    <2>4. /\ i = 1 => owned = Owned0
          /\ i \in {4, 5, 6} => owned \in {Owned2, Owned3}
          /\ i = 12 => owned = OwnedS
        BY <1>1, <2>1 DEF PlaceOK
    <2>5. Onward
        BY <1>1, <2>1, <2>2, <2>4, OwnedDistinct
           DEF Onward, ToRule, ToGrant, ToSet, ToOpen, ToScm, ToStart, ToShut, ToClose,
               ToRetire, ToUnrule, ToUnrole, ToDrop, ToUnassign, ToRemove, ToRestore,
               Entering, Guarding, HasRule, HasRole
    <2> QED  BY <2>3, <2>5
<1>4. CASE Plan[i] \in Owners \union {"canary", "retire"} /\ Stay(Plan[i])
    <2>1. i \in {2, 3, 4, 9, 10, 11} /\ (i = 4 => role = "controller") /\ pc' = Plan[i]
        BY <1>1, <1>4, PlanAt DEF Owners, Stay
    <2>2. i' = i /\ owned' = owned
        BY <1>4 DEF Stay, planVars
    <2>3. /\ i = 2 => pc' = "rule"
          /\ i = 3 => pc' = "role"
          /\ i = 4 => pc' = "blob"
          /\ i = 9 => pc' = "settings"
          /\ i = 10 => pc' = "canary"
          /\ i = 11 => pc' = "retire"
        BY <2>1, PlanAt
    <2>4. PlaceOK'
        BY <1>1, <2>1, <2>2, <2>3 DEF PlaceOK, Entering, Inside, Guarding
    <2>5. /\ i \in {2, 9} => owned = Owned0
          /\ i = 3 => owned = Owned1
          /\ i = 4 => owned = Owned2
          /\ i \in {10, 11} => owned = OwnedS
        BY <1>1, <2>1 DEF PlaceOK
    <2>6. Onward
        BY <1>1, <2>1, <2>2, <2>3, <2>5, OwnedDistinct
           DEF Onward, ToRule, ToGrant, ToSet, ToOpen, ToScm, ToStart, ToShut, ToClose,
               ToRetire, ToUnrule, ToUnrole, ToDrop, ToUnassign, ToRemove, ToRestore,
               Entering, Guarding, HasRule, HasRole
    <2> QED  BY <2>4, <2>6
<1>5. CASE /\ Plan[i] \in DOMAIN OwnerOf
           /\ owned' = Without(owned, OwnerOf[Plan[i]])
           /\ pc' = Remove(OwnerOf[Plan[i]])
           /\ UNCHANGED <<i, failed>>
    <2>1. i \in {6, 7, 8} /\ (i = 6 => role = "controller")
        BY <1>1, <1>5, OperationRemoves
    <2>3. /\ i = 6 => pc' = "settleBlob" /\ owned' = Owned2
          /\ i = 7 => pc' = "removeRole" /\ owned' = Owned1
          /\ i = 8 => pc' = "removeRule" /\ owned' = Owned0
        BY <1>1, <1>5, OperationRemoves
    <2>4. PlaceOK'
        BY <1>1, <1>5, <2>1, <2>3 DEF PlaceOK, Entering, Inside, Guarding
    <2>5. Onward
        BY <1>1, <1>5, <2>1, <2>3, OwnedDistinct
           DEF Onward, ToRule, ToGrant, ToSet, ToOpen, ToScm, ToStart, ToShut, ToClose,
               ToRetire, ToUnrule, ToUnrole, ToDrop, ToUnassign, ToRemove, ToRestore,
               Entering, Guarding, PlaceOK, HasRule, HasRole
    <2> QED  BY <2>4, <2>5
<1> QED  BY <1>1, <1>2, <1>3, <1>4, <1>5 DEF Operation

(* A step that sends no DELETE of the blob, and no stop, keeps their count *)
(* within what the stage it leads to allows.                               *)
Calm ==
    /\ Dels' = Dels => BlobOK'
    /\ Stops' = Stops => StopOK'

(* The types that the order of the steps needs.                            *)
FactOK ==
    /\ role \in DOMAIN Grants
    /\ fact \in [Locked \union {"definition"} -> {"none", "created", "exact", "ambiguous"}]
    /\ again \in BOOLEAN
    /\ asked \in [Requests -> Nat]

(* The rule is added, or removed.                                          *)
LEMMA RuleOnward ==
    ASSUME PlaceOK, FactOK, BlobOK, StopOK, UNCHANGED <<role, members, initial, todo>>,
           AddRule \/ RuleAdded \/ RemoveRule \/ RuleRemoved
    PROVE  PlaceOK' /\ Onward /\ Calm
<1>1. UNCHANGED Parts /\ Dels \in Nat /\ Stops \in Nat
    BY DEF Parts, FactOK, Requests, Resources, Dels, Stops
<1>2. UNCHANGED <<fact, again>>
    BY DEF AddRule, RuleAdded, RemoveRule, RuleRemoved, grantVars
<1>3. \/ /\ pc = "rule" /\ i = 2 /\ owned = Owned0
         /\ \/ pc' = "compensate" /\ i' = 0 /\ owned' = owned
            \/ pc' = "ruleAdded" /\ i' = i /\ owned' = owned
      \/ /\ pc = "ruleAdded" /\ i = 2 /\ owned = Owned0
         /\ \/ pc' = "compensate" /\ i' = 0 /\ owned' = Owned1
            \/ pc' = "op" /\ i' = 3 /\ owned' = Owned1
      \/ /\ pc = "removeRule" /\ i \in {0, 8} /\ owned = Owned0
         /\ \/ pc' = "compensate" /\ i' = 0 /\ owned' = owned
            \/ pc' = "ruleRemoved" /\ i' = i /\ owned' = owned
      \/ /\ pc = "ruleRemoved" /\ i \in {0, 8} /\ owned = Owned0
         /\ \/ pc' = "compensate" /\ i' = 0 /\ owned' = owned
            \/ pc' = "op" /\ i' = i + 1 /\ owned' = owned /\ i # 0
    <2>1. CASE AddRule
        BY <2>1 DEF AddRule, PlaceOK, Stay, planVars, Abort, grantVars
    <2>2. CASE RuleAdded
        <3>1. owned = Owned0 /\ Append(owned, "rule") = Owned1
            BY <2>2, OwnedAppend DEF RuleAdded, PlaceOK
        <3> QED
            BY <2>2, <3>1 DEF RuleAdded, PlaceOK, Abort, Advance, grantVars
    <2>3. CASE RemoveRule
        BY <2>3 DEF RemoveRule, PlaceOK, Stay, planVars, RemovalFailed, grantVars
    <2>4. CASE RuleRemoved
        BY <2>4
           DEF RuleRemoved, PlaceOK, RemovalFailed, Removed, Stay, planVars, Advance,
               grantVars
    <2> QED  BY <2>1, <2>2, <2>3, <2>4
<1>4. PlaceOK'
    BY <1>3 DEF PlaceOK, Entering, Inside, Guarding
<1>5. Onward
    BY <1>1, <1>2, <1>3, OwnedDistinct
       DEF Onward, ToRule, ToGrant, ToSet, ToOpen, ToScm, ToStart, ToShut, ToClose,
           ToRetire, ToUnrule, ToUnrole, ToDrop, ToUnassign, ToRemove, ToRestore, Entering,
           Inside, Guarding, HasRule, HasRole
<1>6. Calm
    BY <1>1, <1>2, <1>3, OwnedDistinct
       DEF Calm, BlobOK, StopOK, ToUnblob, ToOpen, ToScm, ToStart, ToShut, ToClose, Entering
<1> QED  BY <1>4, <1>5, <1>6

(* The settings are made, or restored.                                     *)
LEMMA SettingsOnward ==
    ASSUME PlaceOK, FactOK, BlobOK, StopOK, UNCHANGED <<role, members, initial, todo>>,
           Configure \/ RestoreStop \/ AwaitStop \/ RestoreSettings \/ SettingsRestored
    PROVE  PlaceOK' /\ Onward /\ Calm
<1>1. UNCHANGED Parts /\ Dels \in Nat /\ Stops \in Nat
    BY DEF Parts, FactOK, Requests, Resources, Dels, Stops
<1>2. UNCHANGED <<fact, again>>
    BY DEF Configure, RestoreStop, AwaitStop, RestoreSettings, SettingsRestored, grantVars
<1>3. \/ /\ pc = "settings" /\ i = 9 /\ owned = Owned0
         /\ \/ pc' = "compensate" /\ i' = 0 /\ owned' = owned
            \/ pc' = "compensate" /\ i' = 0 /\ owned' = OwnedS
            \/ pc' = "op" /\ i' = 10 /\ owned' = OwnedS
      \/ /\ pc = "restoreStop" /\ i = 0 /\ owned = Owned0
         /\ \/ pc' = "compensate" /\ i' = 0 /\ owned' = owned
            \/ pc' = "restoreSettings" /\ i' = i /\ owned' = owned
            \/ pc' = "awaitStop" /\ i' = i /\ owned' = owned
      \/ /\ pc = "awaitStop" /\ i = 0 /\ owned = Owned0
         /\ \/ pc' = "compensate" /\ i' = 0 /\ owned' = owned
            \/ pc' = "restoreSettings" /\ i' = i /\ owned' = owned
      \/ /\ pc = "restoreSettings" /\ i = 0 /\ owned = Owned0
         /\ \/ pc' = "compensate" /\ i' = 0 /\ owned' = owned
            \/ pc' = "settingsRestored" /\ i' = i /\ owned' = owned
      \/ /\ pc = "settingsRestored" /\ i = 0 /\ owned = Owned0
         /\ pc' = "compensate" /\ i' = 0 /\ owned' = owned
    <2>1. CASE Configure
        <3>1. owned = Owned0 /\ Append(owned, "settings") = OwnedS
            BY <2>1, OwnedAppend DEF Configure, PlaceOK
        <3>2. \/ Abort(owned) \/ Abort(Append(owned, "settings"))
              \/ Advance(Append(owned, "settings"))
            BY <2>1, Zenon DEF Configure
        <3> QED
            BY <2>1, <3>1, <3>2 DEF Configure, PlaceOK, Abort, Advance, grantVars
    <2>2. CASE RestoreStop
        BY <2>2 DEF RestoreStop, PlaceOK, Stay, planVars, RemovalFailed, grantVars
    <2>3. CASE AwaitStop
        BY <2>3 DEF AwaitStop, PlaceOK, Stay, planVars, RemovalFailed, grantVars
    <2>4. CASE RestoreSettings
        BY <2>4
           DEF RestoreSettings, PlaceOK, Stay, planVars, RemovalFailed, Removed, Advance,
               grantVars
    <2>5. CASE SettingsRestored
        BY <2>5
           DEF SettingsRestored, PlaceOK, RemovalFailed, Removed, Stay, planVars, Advance,
               grantVars
    <2> QED  BY <2>1, <2>2, <2>3, <2>4, <2>5
<1>4. PlaceOK'
    BY <1>3 DEF PlaceOK, Entering, Inside, Guarding
<1>5. Onward
    BY <1>1, <1>2, <1>3, OwnedDistinct
       DEF Onward, ToRule, ToGrant, ToSet, ToOpen, ToScm, ToStart, ToShut, ToClose,
           ToRetire, ToUnrule, ToUnrole, ToDrop, ToUnassign, ToRemove, ToRestore, Entering,
           Inside, Guarding, HasRule, HasRole
<1>6. Calm
    BY <1>1, <1>2, <1>3, OwnedDistinct
       DEF Calm, BlobOK, StopOK, ToUnblob, ToOpen, ToScm, ToStart, ToShut, ToClose, Entering
<1> QED  BY <1>4, <1>5, <1>6

(* The blob is created, or removed.                                        *)
LEMMA BlobOnward ==
    ASSUME PlaceOK, FactOK, BlobOK, StopOK, UNCHANGED <<role, members, initial, todo>>,
           CreateBlob \/ BlobCreated \/ SettleBlob \/ DeleteBlob \/ BlobGone
    PROVE  PlaceOK' /\ Onward /\ Calm
<1>1. UNCHANGED Parts /\ Dels \in Nat /\ Stops \in Nat
    BY DEF Parts, FactOK, Requests, Resources, Dels, Stops
<1>2. UNCHANGED fact
    BY DEF CreateBlob, BlobCreated, SettleBlob, DeleteBlob, BlobGone, grantVars
<1>3. \/ /\ pc = "blob" /\ i = 4 /\ role = "controller" /\ owned = Owned2 /\ again' = again
         /\ \/ pc' = "compensate" /\ i' = 0 /\ owned' = owned
            \/ pc' = "blob" /\ i' = i /\ owned' = owned
            \/ pc' = "blobCreated" /\ i' = i /\ owned' = owned
      \/ /\ pc = "blobCreated" /\ i = 4 /\ role = "controller"
         /\ owned = Owned2 /\ again' = again
         /\ \/ pc' = "compensate" /\ i' = 0 /\ owned' = Owned3
            \/ pc' = "op" /\ i' = 5 /\ owned' = Owned3
      \/ /\ pc = "settleBlob" /\ i \in {0, 6} /\ owned = Owned2 /\ again' = FALSE
         /\ \/ pc' = "deleteBlob" /\ i' = i /\ owned' = owned
            \/ pc' = "blobGone" /\ i' = i /\ owned' = owned
            \/ pc' = "compensate" /\ i' = 0 /\ owned' = owned
            \/ pc' = "compensate" /\ i' = 0 /\ owned' = Owned3 /\ i # 0
      \/ /\ pc = "deleteBlob" /\ i \in {0, 6} /\ owned = Owned2
         /\ \/ pc' = "deleteBlob" /\ i' = i /\ owned' = owned /\ again' = TRUE
            \/ pc' = "blobGone" /\ i' = i /\ owned' = owned /\ again' = again
            \/ pc' = "compensate" /\ i' = 0 /\ owned' = owned /\ again' = again
            \/ pc' = "compensate" /\ i' = 0 /\ owned' = Owned3 /\ i # 0 /\ again' = again
      \/ /\ pc = "blobGone" /\ i \in {0, 6} /\ owned = Owned2 /\ again' = again
         /\ \/ pc' = "compensate" /\ i' = 0 /\ owned' = owned
            \/ pc' = "op" /\ i' = i + 1 /\ owned' = owned /\ i # 0
            \/ pc' = "compensate" /\ i' = 0 /\ owned' = Owned3 /\ i # 0
    <2>1. CASE CreateBlob
        BY <2>1 DEF CreateBlob, PlaceOK, Stay, planVars, Abort
    <2>2. CASE BlobCreated
        <3>1. owned = Owned2 /\ Append(owned, "blob") = Owned3
            BY <2>2, OwnedAppend DEF BlobCreated, PlaceOK
        <3> QED
            BY <2>2, <3>1 DEF BlobCreated, PlaceOK, Abort, Advance
    <2>3. CASE SettleBlob
        <3>1. owned = Owned2 /\ Append(owned, "blob") = Owned3
            BY <2>3, OwnedAppend DEF SettleBlob, PlaceOK
        <3> QED
            BY <2>3, <3>1
               DEF SettleBlob, PlaceOK, Stay, planVars, BlobFailed, Abort, RemovalFailed
    <2>4. CASE DeleteBlob
        <3>1. owned = Owned2 /\ Append(owned, "blob") = Owned3
            BY <2>4, OwnedAppend DEF DeleteBlob, PlaceOK
        <3> QED
            BY <2>4, <3>1
               DEF DeleteBlob, PlaceOK, Stay, planVars, BlobFailed, Abort, RemovalFailed
    <2>5. CASE BlobGone
        <3>1. owned = Owned2 /\ Append(owned, "blob") = Owned3
            BY <2>5, OwnedAppend DEF BlobGone, PlaceOK
        <3> QED
            BY <2>5, <3>1
               DEF BlobGone, PlaceOK, Abort, Removed, Stay, planVars, Advance, BlobFailed,
                   RemovalFailed, grantVars
    <2> QED  BY <2>1, <2>2, <2>3, <2>4, <2>5
<1>4. PlaceOK'
    BY <1>3 DEF PlaceOK, Entering, Inside, Guarding
<1>5. Onward
    BY <1>1, <1>2, <1>3, OwnedDistinct
       DEF Onward, ToRule, ToGrant, ToSet, ToOpen, ToScm, ToStart, ToShut, ToClose,
           ToRetire, ToUnrule, ToUnrole, ToDrop, ToUnassign, ToRemove, ToRestore, Entering,
           Inside, Guarding, HasRule, HasRole
<1>6. Calm
    BY <1>1, <1>2, <1>3, OwnedDistinct
       DEF Calm, BlobOK, StopOK, ToUnblob, ToOpen, ToScm, ToStart, ToShut, ToClose, Entering
<1> QED  BY <1>4, <1>5, <1>6

(* A guarded deletion is over: the role is removed, or the retirement done.*)
LEMMA RoleOnward ==
    ASSUME PlaceOK, FactOK, BlobOK, StopOK, UNCHANGED <<role, members, initial, todo>>,
           Unguarded \/ Retired \/ RemoveDefinition \/ RoleRemoved
    PROVE  PlaceOK' /\ Onward /\ Calm
<1>1. UNCHANGED Parts /\ Dels \in Nat /\ Stops \in Nat
    BY DEF Parts, FactOK, Requests, Resources, Dels, Stops
<1>2. UNCHANGED <<fact, again>>
    BY DEF Unguarded, Retired, RemoveDefinition, RoleRemoved, grantVars
<1>3. \/ /\ pc = "guardFailed" /\ i \in {0, 7, 11} /\ owned = IF i = 11 THEN OwnedS ELSE Owned1
         /\ pc' = "compensate" /\ i' = 0 /\ owned' = owned
      \/ /\ pc = "guarded" /\ i = 11 /\ owned = OwnedS
         /\ \/ pc' = "compensate" /\ i' = 0 /\ owned' = owned
            \/ pc' = "op" /\ i' = i + 1 /\ owned' = owned
      \/ /\ pc = "guarded" /\ i \in {0, 7} /\ ~Retiring /\ owned = Owned1
         /\ \/ pc' = "compensate" /\ i' = 0 /\ owned' = owned
            \/ pc' = "unroled" /\ i' = i /\ owned' = owned
      \/ /\ pc = "unroled" /\ i \in {0, 7} /\ owned = Owned1
         /\ \/ pc' = "compensate" /\ i' = 0 /\ owned' = owned
            \/ pc' = "op" /\ i' = i + 1 /\ owned' = owned /\ i # 0
    <2>1. CASE Unguarded
        BY <2>1 DEF Unguarded, PlaceOK, Abort, RemovalFailed, Guarding
    <2>2. CASE Retired
        BY <2>2 DEF Retired, PlaceOK, Abort, Advance, Guarding
    <2>3. CASE RemoveDefinition
        BY <2>3 DEF RemoveDefinition, PlaceOK, Stay, planVars, RemovalFailed, Guarding
    <2>4. CASE RoleRemoved
        BY <2>4
           DEF RoleRemoved, PlaceOK, RemovalFailed, Removed, Stay, planVars, Advance,
               Guarding
    <2> QED  BY <2>1, <2>2, <2>3, <2>4
<1>4. PlaceOK'
    BY <1>3 DEF PlaceOK, Entering, Inside, Guarding
<1>5. Onward
    BY <1>1, <1>2, <1>3, OwnedDistinct
       DEF Onward, ToRule, ToGrant, ToSet, ToOpen, ToScm, ToStart, ToShut, ToClose,
           ToRetire, ToUnrule, ToUnrole, ToDrop, ToUnassign, ToRemove, ToRestore, Entering,
           Inside, Guarding, HasRule, HasRole
<1>6. Calm
    BY <1>1, <1>2, <1>3, OwnedDistinct
       DEF Calm, BlobOK, StopOK, ToUnblob, ToOpen, ToScm, ToStart, ToShut, ToClose, Entering
<1> QED  BY <1>4, <1>5, <1>6

(* The parts of a grant.                                                   *)
LEMMA GrantsKnown ==
    ASSUME FactOK
    PROVE  /\ Parts \subseteq Locked \union {"definition"}
           /\ Parts \subseteq Resources \ {"lock", "blob", "site", "legacy"}
           /\ Assignments \subseteq Locked \ {"legacy"}
<1>1. PICK r \in {"controller", "fence", "key", "package"} : role = r
    BY DEF FactOK, Grants
<1>2. Parts \subseteq {"assignment", "definition", "writer", "reader"}
    BY <1>1 DEF Parts, Grants
<1> QED  BY <1>2 DEF Assignments, Resources, Locked

(* A role that is owned, or not, by what is recorded.                      *)
LEMMA RoleOwned ==
    ASSUME owned = Owned1, NEW f
    PROVE  WithRole(f) \in {Owned1, Owned2}
BY OwnedAppend DEF WithRole

(* The role is granted, part by part.                                      *)
LEMMA GrantOnward ==
    ASSUME PlaceOK, FactOK, BlobOK, StopOK, UNCHANGED <<role, members, initial, todo>>,
           Grant \/ Granted
    PROVE  PlaceOK' /\ Onward /\ Calm
<1>1. UNCHANGED Parts /\ Dels \in Nat /\ Stops \in Nat
    BY DEF Parts, FactOK, Requests, Resources, Dels, Stops
<1>2. ASSUME NEW f, Abort(WithRole(f)), pc \in {"role", "granted"}, UNCHANGED again
      PROVE  PlaceOK' /\ Onward /\ Calm
    <2>1. /\ i = 3 /\ owned = Owned1 /\ pc' = "compensate" /\ i' = 0
          /\ owned' \in {Owned1, Owned2} /\ pc \in {"role", "granted"}
        BY <1>2, RoleOwned DEF PlaceOK, Abort
    <2>2. PlaceOK' /\ Onward
        BY <2>1, OwnedDistinct, IntoCompensation
           DEF HasRule, HasRole, ToUnrule, ToUnrole, ToRestore
    <2>3. Calm
        BY <1>1, <1>2, <2>1, OwnedDistinct
           DEF Calm, BlobOK, StopOK, ToUnblob, ToOpen, ToScm, ToStart, ToShut, ToClose,
               Entering
    <2> QED  BY <2>2, <2>3
<1>3. ASSUME pc \in {"role", "granted"}, pc' \in {"role", "granted"},
             UNCHANGED <<again, i, owned>>,
             \A x \in Parts : fact'[x] = "none" => fact[x] = "none"
      PROVE  PlaceOK' /\ Onward /\ Calm
    <2>1. /\ i = 3 /\ owned = Owned1
        BY <1>3 DEF PlaceOK
    <2>2. PlaceOK'
        BY <1>3, <2>1 DEF PlaceOK, Entering, Inside, Guarding
    <2>3. Onward
        BY <1>1, <1>3, <2>1, OwnedDistinct
           DEF Onward, ToRule, ToGrant, ToSet, ToOpen, ToScm, ToStart, ToShut, ToClose,
               ToRetire, ToUnrule, ToUnrole, ToDrop, ToUnassign, ToRemove, ToRestore,
               Entering, Guarding, HasRule, HasRole
    <2>4. Calm
        BY <1>1, <1>3, <2>1, OwnedDistinct
           DEF Calm, BlobOK, StopOK, ToUnblob, ToOpen, ToScm, ToStart, ToShut, ToClose,
               Entering
    <2> QED  BY <2>2, <2>3, <2>4
<1>4. CASE Grant
    <2>1. pc = "role" /\ UNCHANGED again
        BY <1>4 DEF Grant
    <2>2. CASE Abort(WithRole(fact))
        BY <1>2, <2>1, <2>2
    <2>3. ASSUME NEW x \in Parts, NEW a \in Answers,
                 fact' = [fact EXCEPT ![x] =
                          [ok |-> "created", denied |-> "none", lost |-> "ambiguous"][a]],
                 IF a = "ok" THEN Stay("granted") ELSE Abort(WithRole(fact'))
          PROVE  PlaceOK' /\ Onward /\ Calm
        <3>1. CASE a = "ok"
            <4>1. pc' = "granted" /\ UNCHANGED <<i, owned>>
                BY <2>3, <3>1 DEF Stay, planVars
            <4>2. fact' = [fact EXCEPT ![x] = "created"]
                BY <2>3, <3>1
            <4>3. \A y \in Parts : fact'[y] = "none" => fact[y] = "none"
                BY <4>2, GrantsKnown DEF FactOK
            <4> QED  BY <1>3, <2>1, <4>1, <4>3
        <3>2. CASE a # "ok"
            <4>1. Abort(WithRole(fact'))
                BY <2>3, <3>2
            <4> QED  BY <1>2, <2>1, <4>1
        <3> QED  BY <3>1, <3>2
    <2> QED  BY <1>4, <2>2, <2>3 DEF Grant
<1>5. CASE Granted
    <2>1. pc = "granted" /\ UNCHANGED again
        BY <1>5 DEF Granted
    <2>2. CASE Abort(WithRole(fact))
        BY <1>2, <2>1, <2>2
    <2>3. ASSUME NEW x \in Parts, fact[x] = "created",
                 fact' = [fact EXCEPT ![x] = "exact"],
                 IF \A y \in Parts : fact'[y] = "exact"
                 THEN Advance(WithRole(fact)) \/ Abort(WithRole(fact))
                 ELSE Stay("role")
          PROVE  PlaceOK' /\ Onward /\ Calm
        <3>1. \A y \in Parts : fact'[y] = "none" => fact[y] = "none"
            BY <2>3, GrantsKnown DEF FactOK
        <3>2. CASE Stay("role")
            BY <1>3, <2>1, <3>1, <3>2 DEF Stay, planVars
        <3>3. CASE Advance(WithRole(fact))
            <4>1. WithRole(fact) = Owned2
                <5>1. Attempted(fact)
                    BY <2>3 DEF Attempted
                <5>2. owned = Owned1
                    BY <2>1 DEF PlaceOK
                <5> QED  BY <5>1, <5>2, OwnedAppend DEF WithRole
            <4>2. /\ pc = "granted" /\ i = 3 /\ owned = Owned1
                  /\ pc' = "op" /\ i' = 4 /\ owned' = Owned2 /\ UNCHANGED again
                BY <2>1, <3>3, <4>1 DEF PlaceOK, Advance
            <4>3. PlaceOK'
                BY <4>2 DEF PlaceOK, Entering, Inside, Guarding
            <4>4. Onward
                BY <1>1, <4>2, OwnedDistinct
                   DEF Onward, ToRule, ToGrant, ToSet, ToOpen, ToScm, ToStart, ToShut,
                       ToClose, ToRetire, ToUnrule, ToUnrole, ToDrop, ToUnassign, ToRemove,
                       ToRestore, Entering, Guarding, HasRule, HasRole
            <4>5. Calm
                BY <1>1, <4>2, OwnedDistinct
                   DEF Calm, BlobOK, StopOK, ToUnblob, ToOpen, ToScm, ToStart, ToShut,
                       ToClose, Entering
            <4> QED  BY <4>3, <4>4, <4>5
        <3>4. CASE Abort(WithRole(fact))
            BY <1>2, <2>1, <3>4
        <3> QED  BY <2>3, <3>2, <3>3, <3>4
    <2> QED  BY <1>5, <2>2, <2>3 DEF Granted
<1> QED  BY <1>4, <1>5

(* Compensation begins the removal of the newest owner.                    *)
LEMMA CompensateMoves ==
    ASSUME PlaceOK, Compensate
    PROVE  /\ i' = 0
           /\ \/ owned = Owned1 /\ owned' = Owned0 /\ pc' = "removeRule"
              \/ owned = Owned2 /\ owned' = Owned1 /\ pc' = "removeRole"
              \/ owned = Owned3 /\ owned' = Owned2 /\ pc' = "settleBlob"
              \/ owned = OwnedS /\ owned' = Owned0 /\ pc' = "restoreStop"
              \/ owned = Owned0 /\ owned' = Owned0 /\ pc' = "end"
<1>0. i = 0 /\ owned \in {Owned0, Owned1, Owned2, Owned3, OwnedS}
    BY DEF Compensate, PlaceOK
<1>1. CASE owned = <<>> /\ Stay("end")
    BY <1>0, <1>1, OwnedSeqs DEF Stay, planVars
<1>2. ASSUME NEW x \in Owners, owned # <<>>, owned[Len(owned)] = x,
             owned' = SubSeq(owned, 1, Len(owned) - 1), pc' = Remove(x), UNCHANGED i
      PROVE  /\ i' = 0
             /\ \/ owned = Owned1 /\ owned' = Owned0 /\ pc' = "removeRule"
                \/ owned = Owned2 /\ owned' = Owned1 /\ pc' = "removeRole"
                \/ owned = Owned3 /\ owned' = Owned2 /\ pc' = "settleBlob"
                \/ owned = OwnedS /\ owned' = Owned0 /\ pc' = "restoreStop"
    <2>1. CASE owned = Owned1
        <3>1. x = "rule" /\ owned' = SubSeq(Owned1, 1, 0)
            BY <1>2, <2>1, OwnedSeqs
        <3> QED  BY <1>0, <1>2, <2>1, <3>1, OwnedFront DEF Remove
    <2>2. CASE owned = Owned2
        <3>1. x = "role" /\ owned' = SubSeq(Owned2, 1, 1)
            BY <1>2, <2>2, OwnedSeqs
        <3> QED  BY <1>0, <1>2, <2>2, <3>1, OwnedFront DEF Remove
    <2>3. CASE owned = Owned3
        <3>1. x = "blob" /\ owned' = SubSeq(Owned3, 1, 2)
            BY <1>2, <2>3, OwnedSeqs
        <3> QED  BY <1>0, <1>2, <2>3, <3>1, OwnedFront DEF Remove
    <2>4. CASE owned = OwnedS
        <3>1. x = "settings" /\ owned' = SubSeq(OwnedS, 1, 0)
            BY <1>2, <2>4, OwnedSeqs
        <3> QED  BY <1>0, <1>2, <2>4, <3>1, OwnedFront DEF Remove
    <2> QED  BY <1>0, <1>2, <2>1, <2>2, <2>3, <2>4, OwnedSeqs
<1> QED  BY <1>1, <1>2 DEF Compensate

(* The canary is over, the evidence is written, or the owned are           *)
(* removed.                                                                *)
LEMMA EndOnward ==
    ASSUME PlaceOK, FactOK, BlobOK, StopOK, UNCHANGED <<role, members, initial, todo>>,
           CanaryEnd \/ Finalize \/ Assemble \/ Compensate
    PROVE  PlaceOK' /\ Onward /\ Calm
<1>1. UNCHANGED Parts /\ Dels \in Nat /\ Stops \in Nat
    BY DEF Parts, FactOK, Requests, Resources, Dels, Stops
<1>2. ASSUME UNCHANGED again, pc' = "compensate", i' = 0, UNCHANGED owned,
             pc \in {"canaryEnd", "op", "assemble"}
      PROVE  PlaceOK' /\ Onward /\ Calm
    <2>1. owned \in {Owned0, Owned1, Owned2, Owned3, OwnedS}
        BY <1>2 DEF PlaceOK, Inside
    <2>2. PlaceOK' /\ Onward
        BY <1>2, <2>1, OwnedDistinct, IntoCompensation
           DEF HasRule, HasRole, ToUnrule, ToUnrole, ToRestore
    <2>3. Calm
        BY <1>1, <1>2, <2>1, OwnedDistinct
           DEF Calm, BlobOK, StopOK, ToUnblob, ToOpen, ToScm, ToStart, ToShut, ToClose,
               Entering
    <2> QED  BY <2>2, <2>3
<1>3. CASE CanaryEnd
    <2>1. /\ pc = "canaryEnd" /\ i = 10 /\ owned = OwnedS /\ UNCHANGED <<fact, again>>
        BY <1>3 DEF CanaryEnd, PlaceOK, Inside, grantVars
    <2>2. CASE Abort(owned)
        BY <1>2, <2>1, <2>2 DEF Abort
    <2>3. CASE Advance(owned)
        <3>1. pc' = "op" /\ i' = 11 /\ owned' = OwnedS
            BY <2>1, <2>3 DEF Advance
        <3>2. PlaceOK'
            BY <3>1 DEF PlaceOK, Entering, Inside, Guarding
        <3>3. Onward
            BY <1>1, <2>1, <3>1, OwnedDistinct
               DEF Onward, ToRule, ToGrant, ToSet, ToOpen, ToScm, ToStart, ToShut, ToClose,
                   ToRetire, ToUnrule, ToUnrole, ToDrop, ToUnassign, ToRemove, ToRestore,
                   Entering, Guarding, HasRule, HasRole
        <3>4. Calm
            BY <1>1, <2>1, <3>1, OwnedDistinct
               DEF Calm, BlobOK, StopOK, ToUnblob, ToOpen, ToScm, ToStart, ToShut, ToClose,
                   Entering
        <3> QED  BY <3>2, <3>3, <3>4
    <2> QED  BY <1>3, <2>2, <2>3 DEF CanaryEnd
<1>4. CASE Finalize
    <2>1. pc = "op" /\ i = 13
        <3>1. pc = "op" /\ i > 12
            BY <1>4, PlanAt DEF Finalize
        <3> QED  BY <3>1 DEF PlaceOK
    <2>2. /\ pc = "op" /\ i = 13 /\ owned = OwnedS /\ UNCHANGED <<fact, again>>
        BY <1>4, <2>1 DEF Finalize, PlaceOK, grantVars
    <2>3. CASE Abort(owned)
        BY <1>2, <2>2, <2>3 DEF Abort
    <2>4. CASE owned' = <<>> /\ pc' = "assemble" /\ UNCHANGED <<i, failed>>
        <3>1. pc' = "assemble" /\ i' = 13 /\ owned' = Owned0
            BY <2>2, <2>4, OwnedSeqs
        <3>2. PlaceOK'
            BY <3>1 DEF PlaceOK, Entering, Inside, Guarding
        <3>3. Onward
            BY <1>1, <2>2, <3>1, OwnedDistinct
               DEF Onward, ToRule, ToGrant, ToSet, ToOpen, ToScm, ToStart, ToShut, ToClose,
                   ToRetire, ToUnrule, ToUnrole, ToDrop, ToUnassign, ToRemove, ToRestore,
                   Entering, Guarding, HasRule, HasRole
        <3>4. Calm
            BY <1>1, <2>2, <3>1, OwnedDistinct
               DEF Calm, BlobOK, StopOK, ToUnblob, ToOpen, ToScm, ToStart, ToShut, ToClose,
                   Entering
        <3> QED  BY <3>2, <3>3, <3>4
    <2> QED  BY <1>4, <2>3, <2>4 DEF Finalize
<1>5. CASE Assemble
    <2>1. /\ pc = "assemble" /\ i = 13 /\ owned = Owned0 /\ UNCHANGED <<fact, again>>
        BY <1>5 DEF Assemble, PlaceOK, grantVars
    <2>2. CASE Abort(owned)
        BY <1>2, <2>1, <2>2 DEF Abort
    <2>3. CASE Stay("assemble") \/ Stay("end")
        <3>1. pc' \in {"assemble", "end"} /\ i' = 13 /\ owned' = Owned0
            BY <2>1, <2>3 DEF Stay, planVars
        <3>2. PlaceOK'
            BY <3>1 DEF PlaceOK, Entering, Inside, Guarding
        <3>3. Onward
            BY <1>1, <2>1, <3>1, OwnedDistinct
               DEF Onward, ToRule, ToGrant, ToSet, ToOpen, ToScm, ToStart, ToShut, ToClose,
                   ToRetire, ToUnrule, ToUnrole, ToDrop, ToUnassign, ToRemove, ToRestore,
                   Entering, Guarding, HasRule, HasRole
        <3>4. Calm
            BY <1>1, <2>1, <3>1, OwnedDistinct
               DEF Calm, BlobOK, StopOK, ToUnblob, ToOpen, ToScm, ToStart, ToShut, ToClose,
                   Entering
        <3> QED  BY <3>2, <3>3, <3>4
    <2> QED  BY <1>5, <2>2, <2>3 DEF Assemble
<1>6. CASE Compensate
    <2>1. /\ pc = "compensate" /\ i = 0 /\ owned \in {Owned0, Owned1, Owned2, Owned3, OwnedS}
          /\ UNCHANGED <<fact, again>>
        BY <1>6 DEF Compensate, PlaceOK, grantVars
    <2>2. /\ i' = 0
          /\ \/ owned = Owned1 /\ owned' = Owned0 /\ pc' = "removeRule"
             \/ owned = Owned2 /\ owned' = Owned1 /\ pc' = "removeRole"
             \/ owned = Owned3 /\ owned' = Owned2 /\ pc' = "settleBlob"
             \/ owned = OwnedS /\ owned' = Owned0 /\ pc' = "restoreStop"
             \/ owned = Owned0 /\ owned' = Owned0 /\ pc' = "end"
        BY <1>6, CompensateMoves
    <2>3. PlaceOK'
        BY <2>1, <2>2 DEF PlaceOK, Entering, Inside, Guarding
    <2>4. Onward
        BY <1>1, <2>1, <2>2, OwnedDistinct
           DEF Onward, ToRule, ToGrant, ToSet, ToOpen, ToScm, ToStart, ToShut, ToClose,
               ToRetire, ToUnrule, ToUnrole, ToDrop, ToUnassign, ToRemove, ToRestore,
               Entering, Guarding, HasRule, HasRole
    <2>5. Calm
        BY <1>1, <2>1, <2>2, OwnedDistinct
           DEF Calm, BlobOK, StopOK, ToUnblob, ToOpen, ToScm, ToStart, ToShut, ToClose,
               Entering
    <2> QED  BY <2>3, <2>4, <2>5
<1> QED  BY <1>3, <1>4, <1>5, <1>6

(* The operation loop sends nothing.                                       *)
LEMMA OperationCalm ==
    ASSUME PlaceOK, FactOK, BlobOK, StopOK, Operation
    PROVE  Calm
<1>1. Dels \in Nat /\ Stops \in Nat
    BY DEF FactOK, Requests, Resources, Dels, Stops
<1>2. pc = "op" /\ i \in 1 .. 12 /\ UNCHANGED again
    BY PlanAt DEF Operation, PlaceOK, grantVars
<1>3. CASE Abort(owned)
    <2>1. pc' = "compensate" /\ i' = 0 /\ owned' = owned
        BY <1>3 DEF Abort
    <2> QED
        BY <1>1, <1>2, <2>1, OwnedDistinct
           DEF Calm, BlobOK, StopOK, ToUnblob, ToOpen, ToScm, ToStart, ToShut, ToClose,
               Entering
<1>4. CASE Plan[i] = "permanent" /\ Advance(owned)
    <2>1. i \in {1, 4, 5, 6, 12} /\ pc' = "op" /\ i' = i + 1 /\ owned' = owned
        BY <1>2, <1>4, PlanAt DEF Advance
    <2> QED
        BY <1>1, <1>2, <2>1, OwnedDistinct
           DEF Calm, BlobOK, StopOK, ToUnblob, ToOpen, ToScm, ToStart, ToShut, ToClose,
               Entering
<1>5. CASE Plan[i] \in Owners \union {"canary", "retire"} /\ Stay(Plan[i])
    <2>1. i \in {2, 3, 4, 9, 10, 11} /\ pc' = Plan[i] /\ i' = i /\ owned' = owned
        BY <1>2, <1>5, PlanAt DEF Owners, Stay, planVars
    <2>2. /\ i = 2 => pc' = "rule"
          /\ i = 3 => pc' = "role"
          /\ i = 4 => pc' \in {"blob", "permanent"}
          /\ i = 9 => pc' = "settings"
          /\ i = 10 => pc' = "canary"
          /\ i = 11 => pc' = "retire"
        BY <2>1, PlanAt
    <2> QED
        BY <1>1, <1>2, <2>1, <2>2, OwnedDistinct
           DEF Calm, BlobOK, StopOK, ToUnblob, ToOpen, ToScm, ToStart, ToShut, ToClose,
               Entering
<1>6. CASE /\ Plan[i] \in DOMAIN OwnerOf
           /\ owned' = Without(owned, OwnerOf[Plan[i]])
           /\ pc' = Remove(OwnerOf[Plan[i]])
           /\ UNCHANGED <<i, failed>>
    <2>1. i \in {6, 7, 8} /\ (i = 6 => role = "controller") /\ i' = i
        BY <1>2, <1>6, PlanAt DEF OwnerOf
    <2>2. /\ i = 6 => OwnerOf[Plan[i]] = "blob"
          /\ i = 7 => OwnerOf[Plan[i]] = "role"
          /\ i = 8 => OwnerOf[Plan[i]] = "rule"
        BY <2>1, PlanAt DEF OwnerOf
    <2>3. /\ i = 6 => pc' = "settleBlob" /\ owned' = Owned2
          /\ i = 7 => pc' = "removeRole" /\ owned' = Owned1
          /\ i = 8 => pc' = "removeRule" /\ owned' = Owned0
        BY <1>2, <1>6, <2>1, <2>2, WithoutOwned DEF Remove, PlaceOK
    <2> QED
        BY <1>1, <1>2, <2>1, <2>3, OwnedDistinct
           DEF Calm, BlobOK, StopOK, ToUnblob, ToOpen, ToScm, ToStart, ToShut, ToClose,
               Entering
<1> QED  BY <1>2, <1>3, <1>4, <1>5, <1>6 DEF Operation

(* Into a guarded deletion.                                                *)
LEMMA EnterOnward ==
    ASSUME PlaceOK, GroupOK, FactOK, BlobOK, StopOK, RemoveRole \/ Retire, UNCHANGED role
    PROVE  PlaceOK' /\ GroupOK' /\ Onward /\ Calm
<1>1. UNCHANGED <<Parts, fact, again>> /\ Dels \in Nat /\ Stops \in Nat
    BY DEF Parts, FactOK, Requests, Resources, Dels, Stops, RemoveRole, Retire, grantVars
<1>2. \/ /\ pc = "removeRole" /\ i \in {0, 7} /\ owned = Owned1
         /\ \/ pc' = "compensate" /\ i' = 0 /\ owned' = owned
               /\ UNCHANGED guardVars
            \/ pc' \in {"guard", "guarded"} /\ i' = i /\ owned' = owned
               /\ \E g : EnterGuard(g) /\ g \in {{}, Assignments}
      \/ /\ pc = "retire" /\ i = 11 /\ owned = OwnedS
         /\ \/ pc' = "compensate" /\ i' = 0 /\ owned' = owned
               /\ UNCHANGED guardVars
            \/ pc' = "guard" /\ i' = i /\ owned' = owned /\ EnterGuard({"legacy"})
    BY DEF RemoveRole, Retire, PlaceOK, RemovalFailed, Stay, Abort, planVars
<1>3. CASE UNCHANGED guardVars /\ pc' = "compensate"
    <2>1. /\ pc \in {"removeRole", "retire"} /\ pc' = "compensate" /\ i' = 0
          /\ owned' = owned /\ owned \in {Owned1, OwnedS}
          /\ owned = OwnedS => pc = "retire"
        BY <1>2, <1>3, OwnedDistinct
    <2>2. UNCHANGED <<members, initial, todo>>
        BY <1>3 DEF guardVars
    <2>3. PlaceOK' /\ Onward
        BY <2>1, <2>2, OwnedDistinct, IntoCompensation
           DEF HasRule, HasRole, ToUnrule, ToUnrole, ToRestore
    <2>4. GroupOK'
        BY <2>2 DEF GroupOK, Retiring
    <2>5. Calm
        BY <1>1, <2>1, OwnedDistinct
           DEF Calm, BlobOK, StopOK, ToUnblob, ToOpen, ToScm, ToStart, ToShut, ToClose,
               Entering
    <2> QED  BY <2>3, <2>4, <2>5
<1>4. ASSUME NEW g, EnterGuard(g), g \in {{}, Assignments}, pc = "removeRole", i \in {0, 7},
             owned = Owned1, pc' \in {"guard", "guarded"}, UNCHANGED <<i, owned>>
      PROVE  PlaceOK' /\ GroupOK' /\ Onward /\ Calm
    <2>1. "legacy" \notin members' /\ members' = g /\ initial' = {} /\ todo' = {}
        BY <1>4, GrantsKnown DEF EnterGuard
    <2>2. ~Retiring'
        BY <2>1 DEF Retiring
    <2>3. PlaceOK'
        BY <1>4, <2>2 DEF PlaceOK, Entering, Inside, Guarding
    <2>4. GroupOK'
        BY <2>1 DEF GroupOK
    <2>5. Onward
        BY <1>1, <1>4, <2>1, <2>2, OwnedDistinct
           DEF Onward, ToRule, ToGrant, ToSet, ToOpen, ToScm, ToStart, ToShut, ToClose,
               ToRetire, ToUnrule, ToUnrole, ToDrop, ToUnassign, ToRemove, ToRestore,
               Entering, Guarding, HasRule, HasRole
    <2>6. Calm
        BY <1>1, <1>4, OwnedDistinct
           DEF Calm, BlobOK, StopOK, ToUnblob, ToOpen, ToScm, ToStart, ToShut, ToClose,
               Entering
    <2> QED  BY <2>3, <2>4, <2>5, <2>6
<1>5. CASE /\ pc = "retire" /\ i = 11 /\ owned = OwnedS
           /\ pc' = "guard" /\ i' = i /\ owned' = owned /\ EnterGuard({"legacy"})
    <2>1. members' = {"legacy"} /\ initial' = {} /\ todo' = {}
        BY <1>5 DEF EnterGuard
    <2>2. Retiring'
        BY <2>1 DEF Retiring
    <2>3. PlaceOK'
        BY <1>5, <2>2 DEF PlaceOK, Entering, Inside, Guarding
    <2>4. GroupOK'
        BY <2>1, <2>2 DEF GroupOK
    <2>5. Onward
        BY <1>1, <1>5, <2>1, <2>2, OwnedDistinct
           DEF Onward, ToRule, ToGrant, ToSet, ToOpen, ToScm, ToStart, ToShut, ToClose,
               ToRetire, ToUnrule, ToUnrole, ToDrop, ToUnassign, ToRemove, ToRestore,
               Entering, Guarding, HasRule, HasRole
    <2>6. Calm
        BY <1>1, <1>5, OwnedDistinct
           DEF Calm, BlobOK, StopOK, ToUnblob, ToOpen, ToScm, ToStart, ToShut, ToClose,
               Entering
    <2> QED  BY <2>3, <2>4, <2>5, <2>6
<1> QED  BY <1>2, <1>3, <1>4, <1>5

(* A guarded deletion goes on.                                             *)
GuardMove ==
    \/ pc = "guard" /\ pc' \in {"guarded", "suspend", "guardFailed"} /\ UNCHANGED todo
    \/ pc = "suspend" /\ pc' \in {"suspended", "restore"} /\ UNCHANGED todo
    \/ pc = "suspended" /\ pc' \in {"unassign", "restore"}
    \/ pc = "unassign" /\ pc' \in {"unassign", "restore"}
    \/ pc = "restore" /\ pc' \in {"guarded", "guardFailed", "restored"} /\ UNCHANGED todo
    \/ pc = "restored" /\ pc' \in {"guarded", "guardFailed"} /\ UNCHANGED todo

(* A step of the guard stays with its group.                               *)
LEMMA GuardOnward ==
    ASSUME PlaceOK, GroupOK, FactOK, BlobOK, StopOK, GuardNext, UNCHANGED execVars
    PROVE  PlaceOK' /\ GroupOK' /\ Onward /\ Calm
<1>1. /\ UNCHANGED <<Parts, fact, again, i, owned, role, members>>
      /\ Dels \in Nat /\ Stops \in Nat
    BY DEF Parts, FactOK, Requests, Resources, Dels, Stops, execVars, grantVars, planVars,
           GuardNext, GuardRead, Suspend, Suspended, Unassign, Unassigned, Restore,
           Restored, guardVars
<1>2. GuardMove
    BY DEF GuardMove, GuardNext, GuardRead, Suspend, Suspended, Unassign, Unassigned,
           Restore, Restored, guardVars, Goto
<1>3. /\ initial' \subseteq members /\ todo' \subseteq members
      /\ pc = "unassign" => todo' \subseteq todo
    BY DEF GuardNext, GuardRead, Suspend, Suspended, Unassign, Unassigned, Restore,
           Restored, guardVars, Goto, Present, GroupOK
<1>4. GroupOK' /\ Retiring' = Retiring
    BY <1>1, <1>3 DEF GroupOK, Retiring
<1>5. PlaceOK'
    BY <1>1, <1>2, <1>4 DEF PlaceOK, GuardMove, Entering, Inside, Guarding
<1>6. /\ pc \in Guarding
      /\ IF Retiring THEN i = 11 /\ owned = OwnedS ELSE i \in {0, 7} /\ owned = Owned1
      /\ "legacy" \in todo' => Retiring
      /\ \A x \in todo' : x # "legacy" => ~Retiring
    BY <1>2, <1>3 DEF PlaceOK, GuardMove, Guarding, GroupOK, Retiring
<1>7. Onward
    BY <1>1, <1>2, <1>3, <1>4, <1>6, OwnedDistinct
       DEF GuardMove, Onward, ToRule, ToGrant, ToSet, ToOpen, ToScm, ToStart, ToShut,
           ToClose, ToRetire, ToUnrule, ToUnrole, ToDrop, ToUnassign, ToRemove, ToRestore,
           Entering, Guarding, HasRule, HasRole
<1>8. Calm
    BY <1>1, <1>2, <1>6, OwnedDistinct
       DEF GuardMove, Calm, BlobOK, StopOK, ToUnblob, ToOpen, ToScm, ToStart, ToShut,
           ToClose, Entering
<1> QED  BY <1>4, <1>5, <1>7, <1>8

(* The canary goes forward only.                                           *)
CanaryMove ==
    \/ pc = "canary" /\ pc' \in {"enableNetwork", "canaryStop"}
    \/ pc = "enableNetwork" /\ pc' \in {"awaitNetwork", "canaryStop"}
    \/ pc = "awaitNetwork" /\ pc' \in {"restop", "canaryStop"}
    \/ pc = "restop" /\ pc' \in {"enableScm", "canaryStop"}
    \/ pc = "enableScm" /\ pc' \in {"startSite", "canaryStop"}
    \/ pc = "startSite" /\ pc' \in {"runJob", "canaryStop"}
    \/ pc = "runJob" /\ pc' = "canaryStop"
    \/ pc = "canaryStop" /\ pc' = "census"
    \/ pc = "census" /\ pc' = "closeScm"
    \/ pc = "closeScm" /\ pc' = "resolve"
    \/ pc = "resolve" /\ pc' \in {"closeNetwork", "canaryEnd"}
    \/ pc = "closeNetwork" /\ pc' \in {"finalStop", "closing", "canaryEnd"}
    \/ pc = "closing" /\ pc' \in {"finalStop", "canaryEnd"}
    \/ pc = "finalStop" /\ pc' \in {"clear", "canaryEnd"}
    \/ pc = "clear" /\ pc' = "canaryEnd"

(* So do its steps.                                                        *)
LEMMA CanaryMoves == CanaryNext => CanaryMove
BY DEF CanaryMove, CanaryNext, CanaryMark, EnableNetwork, AwaitNetwork, Restop, EnableScm,
       StartSite, RunJob, CanaryStop, Census, CloseScm, Resolve, CloseNetwork, Closing,
       FinalStop, ClearMarker, Goto

(* A step of the canary is one of the tenth operation.                     *)
LEMMA CanaryOnward ==
    ASSUME PlaceOK, GroupOK, FactOK, BlobOK, StopOK,
           CanaryNext, UNCHANGED <<guardVars, execVars>>
    PROVE  PlaceOK' /\ GroupOK' /\ Onward /\ Calm
<1>1. /\ UNCHANGED <<Parts, fact, again, i, owned, role, members, initial, todo>>
      /\ Dels \in Nat /\ Stops \in Nat
    BY DEF Parts, FactOK, Requests, Resources, Dels, Stops, execVars, grantVars, planVars,
           guardVars
<1>2. CanaryMove
    BY CanaryMoves
<1>3. i = 10 /\ owned = OwnedS
    BY <1>2 DEF CanaryMove, PlaceOK, Entering, Inside
<1>4. PlaceOK'
    BY <1>1, <1>2, <1>3 DEF CanaryMove, PlaceOK, Entering, Inside, Guarding
<1>5. GroupOK' /\ Retiring' = Retiring
    BY <1>1 DEF GroupOK, Retiring
<1>6. Onward
    BY <1>1, <1>2, <1>3, <1>5, OwnedDistinct
       DEF CanaryMove, Onward, ToRule, ToGrant, ToSet, ToOpen, ToScm, ToStart, ToShut,
           ToClose, ToRetire, ToUnrule, ToUnrole, ToDrop, ToUnassign, ToRemove, ToRestore,
           Entering, Guarding, HasRule, HasRole
<1>7. Calm
    BY <1>1, <1>2, <1>3, OwnedDistinct
       DEF CanaryMove, Calm, BlobOK, StopOK, ToUnblob, ToOpen, ToScm, ToStart, ToShut,
           ToClose, Entering
<1> QED  BY <1>4, <1>5, <1>6, <1>7

(* A step that moves nobody.                                               *)
LEMMA StillOnward ==
    ASSUME PlaceOK, GroupOK, BlobOK, StopOK,
           UNCHANGED <<pc, role, i, owned, fact, again, members, initial, todo>>
    PROVE  PlaceOK' /\ GroupOK' /\ Onward /\ Calm
<1>1. UNCHANGED Parts /\ Retiring' = Retiring
    BY DEF Parts, Retiring
<1>2. PlaceOK' /\ GroupOK'
    BY <1>1 DEF PlaceOK, GroupOK
<1>3. Onward
    BY <1>1
       DEF Onward, ToRule, ToGrant, ToSet, ToOpen, ToScm, ToStart, ToShut, ToClose,
           ToRetire, ToUnrule, ToUnrole, ToDrop, ToUnassign, ToRemove, ToRestore, HasRule,
           HasRole
<1>4. Calm
    BY DEF Calm, BlobOK, StopOK, ToUnblob, ToOpen, ToScm, ToStart, ToShut, ToClose
<1> QED  BY <1>2, <1>3, <1>4

(* After a crash nothing is ahead.                                         *)
LEMMA CrashOnward ==
    ASSUME PlaceOK, FactOK, BlobOK, StopOK, Crash
    PROVE  PlaceOK' /\ GroupOK' /\ Onward /\ Calm
<1>1. /\ pc' = "end" /\ i' = 0 /\ owned' = Owned0 /\ again' = FALSE
      /\ members' = {} /\ initial' = {} /\ todo' = {}
      /\ Dels \in Nat /\ Stops \in Nat /\ UNCHANGED role
    BY OwnedSeqs DEF Crash, EnterGuard, FactOK, Requests, Resources, Dels, Stops
<1>2. PlaceOK' /\ GroupOK'
    BY <1>1 DEF PlaceOK, GroupOK, Entering, Inside, Guarding
<1>3. Onward
    BY <1>1, OwnedDistinct
       DEF Onward, ToRule, ToGrant, ToSet, ToOpen, ToScm, ToStart, ToShut, ToClose,
           ToRetire, ToUnrule, ToUnrole, ToDrop, ToUnassign, ToRemove, ToRestore, Entering,
           Guarding, HasRule, HasRole
<1>4. Calm
    BY <1>1, OwnedDistinct
       DEF Calm, BlobOK, StopOK, ToUnblob, ToOpen, ToScm, ToStart, ToShut, ToClose, Entering
<1> QED  BY <1>2, <1>3, <1>4

(* What the order of the steps rests on.                                   *)
Ctrl == PlaceOK /\ GroupOK /\ FactOK /\ BlobOK /\ StopOK

(* Every step stays in the order of the plan, and brings nothing back.     *)
LEMMA StepOnward ==
    ASSUME Ctrl, Next
    PROVE  PlaceOK' /\ GroupOK' /\ Onward /\ Calm
<1> USE DEF Ctrl
<1>1. CASE ExecStep /\ UNCHANGED <<live, guardVars, canaryVars, role>>
    <2>1. UNCHANGED <<role, members, initial, todo>>
        BY <1>1 DEF guardVars
    <2>2. GroupOK'
        BY <2>1 DEF GroupOK, Retiring
    <2>3. CASE Operation
        BY <2>1, <2>2, <2>3, OperationMoves, OperationCalm
    <2>4. CASE AddRule \/ RuleAdded \/ RemoveRule \/ RuleRemoved
        BY <2>1, <2>2, <2>4, RuleOnward
    <2>5. CASE Configure \/ RestoreStop \/ AwaitStop \/ RestoreSettings \/ SettingsRestored
        BY <2>1, <2>2, <2>5, SettingsOnward
    <2>6. CASE CreateBlob \/ BlobCreated \/ SettleBlob \/ DeleteBlob \/ BlobGone
        BY <2>1, <2>2, <2>6, BlobOnward
    <2>7. CASE Unguarded \/ Retired \/ RemoveDefinition \/ RoleRemoved
        BY <2>1, <2>2, <2>7, RoleOnward
    <2>8. CASE Grant \/ Granted
        BY <2>1, <2>2, <2>8, GrantOnward
    <2>9. CASE CanaryEnd \/ Finalize \/ Assemble \/ Compensate
        BY <2>1, <2>2, <2>9, EndOnward
    <2> QED  BY <1>1, <2>3, <2>4, <2>5, <2>6, <2>7, <2>8, <2>9 DEF ExecStep
<1>2. CASE (RemoveRole \/ Retire) /\ UNCHANGED <<live, canaryVars, role>>
    BY <1>2, EnterOnward
<1>3. CASE GuardNext /\ UNCHANGED <<canaryVars, execVars>>
    BY <1>3, GuardOnward
<1>4. CASE CanaryNext /\ UNCHANGED <<guardVars, execVars>>
    BY <1>4, CanaryOnward
<1>5. CASE Environment /\ UNCHANGED <<guardVars, canaryVars, execVars>>
    <2>1. UNCHANGED <<pc, role, i, owned, fact, again, members, initial, todo>>
        BY <1>5 DEF Environment, Land, Expire, guardVars, execVars, planVars, grantVars
    <2> QED  BY <2>1, StillOnward
<1>6. CASE Crash
    BY <1>6, CrashOnward
<1>7. CASE Resume
    <2>1. UNCHANGED <<pc, role, i, owned, fact, again, members, initial, todo>>
        BY <1>7 DEF Resume, guardVars, planVars, grantVars
    <2> QED  BY <2>1, StillOnward
<1> QED  BY <1>1, <1>2, <1>3, <1>4, <1>5, <1>6, <1>7 DEF Next

(* A request in the order of the plan.                                     *)
Due(x, v) ==
    /\ Asks(x, v)
    /\ Single(x, v) => Ahead(x, v) /\ ~Ahead(x, v)'
    /\ (x = "blob" /\ v) => asked[<<"blob", TRUE>>] < MaxCreates
    /\ (x = "blob" /\ ~v) => BlobOK'
    /\ (x = "site" /\ ~v) => StopOK'

(* What is counted of the requests but the lock's.                         *)
Counted == OnceOK /\ PutOK /\ BlobOK /\ StopOK

(* What is ahead after a step was ahead before it.                         *)
LEMMA AheadOnward ==
    ASSUME Onward, NEW x \in Resources, NEW v \in BOOLEAN, Ahead(x, v)'
    PROVE  Ahead(x, v)
BY DEF Ahead, Onward

(* A step that sends nothing counts nothing.                               *)
LEMMA SilentCounts ==
    ASSUME Counted, Onward, Calm, UNCHANGED asked
    PROVE  Counted'
<1>1. OnceOK'
    BY AheadOnward DEF Counted, OnceOK, Single
<1> QED  BY <1>1 DEF Counted, PutOK, Calm, Dels, Stops

(* A request in the order of the plan is within its count.                 *)
LEMMA DueCounts ==
    ASSUME Counted, FactOK, Onward, Calm, NEW x \in Resources, NEW v \in BOOLEAN, Due(x, v)
    PROVE  Counted'
<1>1. OnceOK'
    <2> SUFFICES ASSUME NEW y \in Resources, NEW w \in BOOLEAN, Single(y, w)
                 PROVE  /\ asked'[<<y, w>>] <= 1
                        /\ Ahead(y, w)' => asked'[<<y, w>>] = 0
        BY DEF OnceOK, Single
    <2>1. asked[<<y, w>>] <= 1 /\ (Ahead(y, w) => asked[<<y, w>>] = 0)
        BY DEF Counted, OnceOK
    <2>2. CASE <<y, w>> = <<x, v>>
        BY <2>1, <2>2 DEF Due, Asks
    <2>3. CASE <<y, w>> # <<x, v>>
        BY <2>1, <2>3, AheadOnward DEF Due, Asks
    <2> QED  BY <2>2, <2>3
<1>2. "blob" \in Resources /\ "site" \in Resources
    BY DEF Resources
<1>3. PutOK'
    <2>1. asked[<<"blob", TRUE>>] \in Nat
        BY <1>2 DEF FactOK, Requests
    <2>2. CASE <<x, v>> = <<"blob", TRUE>>
        <3>1. asked'[<<"blob", TRUE>>] = asked[<<"blob", TRUE>>] + 1
              /\ asked[<<"blob", TRUE>>] < MaxCreates
            BY <2>2 DEF Due, Asks
        <3> QED  BY <2>1, <3>1, MaxCreatesAssumption DEF PutOK
    <2>3. CASE <<x, v>> # <<"blob", TRUE>>
        BY <1>2, <2>3 DEF Due, Asks, Counted, PutOK
    <2> QED  BY <2>2, <2>3
<1>4. BlobOK'
    <2>1. CASE <<x, v>> = <<"blob", FALSE>>
        BY <2>1 DEF Due
    <2>2. CASE <<x, v>> # <<"blob", FALSE>>
        <3>1. Dels' = Dels
            BY <1>2, <2>2 DEF Due, Asks, Dels
        <3> QED  BY <3>1 DEF Calm
    <2> QED  BY <2>1, <2>2
<1>5. StopOK'
    <2>1. CASE <<x, v>> = <<"site", FALSE>>
        BY <2>1 DEF Due
    <2>2. CASE <<x, v>> # <<"site", FALSE>>
        <3>1. Stops' = Stops
            BY <1>2, <2>2 DEF Due, Asks, Stops
        <3> QED  BY <3>1 DEF Calm
    <2> QED  BY <2>1, <2>2
<1> QED  BY <1>1, <1>3, <1>4, <1>5 DEF Counted

(* A step that sends nothing.                                              *)
Silent == UNCHANGED cloudVars

(* The requests of each operation are in the order of the plan: the        *)
(* rule.                                                                   *)
LEMMA RuleAsks ==
    ASSUME Ctrl, CloudOK, UNCHANGED role, AddRule \/ RemoveRule
    PROVE  Silent \/ \E v \in BOOLEAN : Due("rule", v)
<1> USE DEF Ctrl
<1>1. "rule" \notin Parts' /\ "rule" \in Resources
    BY GrantsKnown DEF Parts, Resources, Locked
<1>2. CASE AddRule
    <2>1. CASE UNCHANGED cloudVars
        BY <2>1 DEF Silent
    <2>2. ASSUME NEW a \in Answers, Send("rule", TRUE, a),
                 IF a = "ok" THEN Stay("ruleAdded") ELSE Abort(owned)
          PROVE  Due("rule", TRUE)
        <3>1. pc = "rule" /\ i = 2 /\ pc' \in {"ruleAdded", "compensate"}
            BY <1>2, <2>2 DEF AddRule, PlaceOK, Stay, Abort
        <3>2. Ahead("rule", TRUE) /\ ~Ahead("rule", TRUE)'
            BY <1>1, <3>1 DEF Ahead, ToRule, ToGrant
        <3> QED  BY <1>1, <2>2, <3>2, SendAsks DEF Due
    <2> QED  BY <1>2, <2>1, <2>2 DEF AddRule
<1>3. CASE RemoveRule
    <2>1. CASE UNCHANGED cloudVars
        BY <2>1 DEF Silent
    <2>2. ASSUME NEW a \in Answers, Send("rule", FALSE, a),
                 IF a = "ok" THEN Stay("ruleRemoved") ELSE RemovalFailed("rule")
          PROVE  Due("rule", FALSE)
        <3>1. /\ pc = "removeRule" /\ i \in {0, 8} /\ i' \in {0, 8} /\ owned' = Owned0
              /\ pc' \in {"ruleRemoved", "compensate"}
            BY <1>3, <2>2 DEF RemoveRule, PlaceOK, Stay, RemovalFailed, planVars
        <3>2. Ahead("rule", FALSE) /\ ~Ahead("rule", FALSE)'
            BY <1>1, <3>1, OwnedDistinct DEF Ahead, ToUnrule, HasRule, Locked
        <3> QED  BY <1>1, <2>2, <3>2, SendAsks DEF Due
    <2> QED  BY <1>3, <2>1, <2>2 DEF RemoveRule
<1> QED  BY <1>2, <1>3

(* The parts of the grant.                                                 *)
LEMMA RoleAsks ==
    ASSUME Ctrl, CloudOK, UNCHANGED <<role, members>>, Grant \/ RemoveDefinition
    PROVE  Silent \/ \E x \in Parts, v \in BOOLEAN : Due(x, v)
<1> USE DEF Ctrl
<1>1. Parts' = Parts /\ Parts \subseteq Resources \ {"lock", "blob", "site", "legacy"}
    BY GrantsKnown DEF Parts
<1>2. CASE Grant
    <2>1. CASE UNCHANGED cloudVars
        BY <2>1 DEF Silent
    <2>2. ASSUME NEW x \in Parts, NEW a \in Answers, IsNext(x), Send(x, TRUE, a),
                 fact' = [fact EXCEPT ![x] =
                          [ok |-> "created", denied |-> "none", lost |-> "ambiguous"][a]],
                 IF a = "ok" THEN Stay("granted") ELSE Abort(WithRole(fact'))
          PROVE  Due(x, TRUE)
        <3>1. pc = "role" /\ i = 3 /\ fact[x] = "none"
            BY <1>2, <2>2 DEF Grant, PlaceOK, IsNext
        <3>2. i' = 0 \/ fact'[x] # "none"
            <4>1. CASE a = "ok"
                <5>1. fact' = [fact EXCEPT ![x] = "created"]
                    BY <2>2, <4>1
                <5> QED  BY <5>1, GrantsKnown DEF FactOK
            <4>2. CASE a # "ok"
                BY <2>2, <4>2 DEF Abort
            <4> QED  BY <4>1, <4>2
        <3>3. Ahead(x, TRUE)
            BY <3>1 DEF Ahead, ToGrant
        <3>4. x \in Locked \union {"definition"}
            BY GrantsKnown
        <3>5. ~Ahead(x, TRUE)'
            BY <3>2, <3>4 DEF Ahead, ToGrant, Locked
        <3> QED  BY <1>1, <2>2, <3>3, <3>5, SendAsks DEF Due
    <2> QED  BY <1>2, <2>1, <2>2 DEF Grant
<1>3. CASE RemoveDefinition
    <2>1. CASE UNCHANGED cloudVars
        BY <2>1 DEF Silent
    <2>2. ASSUME NEW a \in Answers, Send("definition", FALSE, a), "definition" \in Parts,
                 IF a = "ok" THEN Stay("unroled") ELSE RemovalFailed("role")
          PROVE  Due("definition", FALSE)
        <3>1. /\ pc = "guarded" /\ ~Retiring /\ i \in {0, 7} /\ i' \in {0, 7} /\ owned' = Owned1
              /\ pc' \in {"unroled", "compensate"}
            BY <1>3, <2>2
               DEF RemoveDefinition, PlaceOK, Stay, RemovalFailed, planVars, Guarding
        <3>2. Ahead("definition", FALSE) /\ ~Ahead("definition", FALSE)'
            BY <3>1, OwnedDistinct DEF Ahead, ToDrop, ToUnrole, HasRole, Guarding, Locked
        <3> QED  BY <1>1, <2>2, <3>2, SendAsks DEF Due
    <2> QED  BY <1>3, <2>1, <2>2 DEF RemoveDefinition
<1> QED  BY <1>2, <1>3

(* The blob: as many PUTs as are permitted, and a DELETE replayed once.    *)
LEMMA BlobAsks ==
    ASSUME Ctrl, CloudOK, CreateBlob \/ DeleteBlob
    PROVE  Silent \/ \E v \in BOOLEAN : Due("blob", v)
<1> USE DEF Ctrl
<1>1. "blob" \in Resources /\ Dels \in Nat
    BY DEF Resources, FactOK, Requests, Dels
<1>2. CASE CreateBlob
    <2>1. CASE UNCHANGED cloudVars
        BY <2>1 DEF Silent
    <2>2. ASSUME NEW a \in Answers, Send("blob", TRUE, a), asked[<<"blob", TRUE>>] < MaxCreates
          PROVE  Due("blob", TRUE)
        BY <1>1, <2>2, SendAsks DEF Due, Single
    <2> QED  BY <1>2, <2>1, <2>2 DEF CreateBlob
<1>3. CASE DeleteBlob
    <2>1. PICK a \in Answers : Send("blob", FALSE, a)
        BY <1>3 DEF DeleteBlob
    <2>2. Asks("blob", FALSE)
        BY <1>1, <2>1, SendAsks
    <2>3. Dels' = Dels + 1
        BY <2>2 DEF Asks, Dels
    <2>4. /\ pc = "deleteBlob" /\ i \in {0, 6} /\ owned = Owned2 /\ again \in BOOLEAN
          /\ \/ pc' = "blobGone" /\ i' = i /\ owned' = Owned2
             \/ pc' = "deleteBlob" /\ i' = i /\ owned' = Owned2 /\ ~again /\ again'
             \/ pc' = "compensate" /\ i' = 0 /\ (i = 0 => owned' = Owned2)
        BY <1>3
           DEF DeleteBlob, PlaceOK, Stay, BlobFailed, RemovalFailed, Abort, planVars, FactOK
    <2>5. BlobOK'
        BY <1>1, <2>3, <2>4, OwnedDistinct DEF BlobOK, ToUnblob
    <2> QED  BY <1>1, <2>2, <2>5 DEF Due, Single
<1> QED  BY <1>2, <1>3

(* The settings, and the stop before they are restored.                    *)
LEMMA SettingsAsks ==
    ASSUME Ctrl, CloudOK, UNCHANGED role, Configure \/ RestoreStop \/ RestoreSettings
    PROVE  Silent \/ \E x \in {"settings", "site"}, v \in BOOLEAN : Due(x, v)
<1> USE DEF Ctrl
<1>1. /\ "settings" \in Resources /\ "site" \in Resources /\ Stops \in Nat
      /\ "settings" \notin Parts' /\ "settings" \notin Locked
    BY GrantsKnown DEF Parts, Resources, Locked, FactOK, Requests, Stops
<1>2. CASE Configure
    <2>1. CASE UNCHANGED cloudVars
        BY <2>1 DEF Silent
    <2>2. ASSUME NEW a \in Answers, Send("settings", TRUE, a), i' \in {0, 10}
          PROVE  Due("settings", TRUE)
        <3>1. i = 9
            BY <1>2 DEF Configure, PlaceOK
        <3>2. Ahead("settings", TRUE) /\ ~Ahead("settings", TRUE)'
            BY <1>1, <2>2, <3>1 DEF Ahead, ToSet, ToGrant
        <3> QED  BY <1>1, <2>2, <3>2, SendAsks DEF Due
    <2>3. i = 9
        BY <1>2 DEF Configure, PlaceOK
    <2>4. i' = 0 \/ i' = i + 1
        BY <1>2 DEF Configure, Abort, Advance
    <2>5. UNCHANGED cloudVars \/ \E a \in Answers : Send("settings", TRUE, a)
        BY <1>2, Zenon DEF Configure
    <2>6. CASE \E a \in Answers : Send("settings", TRUE, a)
        <3>1. i' \in {0, 10}
            BY <2>3, <2>4
        <3> QED  BY <2>2, <2>6, <3>1
    <2> QED  BY <2>1, <2>5, <2>6
<1>3. CASE RestoreStop
    <2>1. CASE UNCHANGED cloudVars
        BY <2>1 DEF Silent
    <2>2. ASSUME NEW a \in Answers, Send("site", FALSE, a),
                 IF a = "ok" THEN Stay("awaitStop") ELSE RemovalFailed("settings")
          PROVE  Due("site", FALSE)
        <3>1. Asks("site", FALSE)
            BY <1>1, <2>2, SendAsks
        <3>2. Stops' = Stops + 1
            BY <3>1 DEF Asks, Stops
        <3>3. /\ pc = "restoreStop" /\ i' = 0 /\ owned' = Owned0
              /\ pc' \in {"awaitStop", "compensate"}
            BY <1>3, <2>2 DEF RestoreStop, PlaceOK, Stay, RemovalFailed, planVars
        <3>4. StopOK'
            BY <1>1, <3>2, <3>3, OwnedDistinct
               DEF StopOK, ToOpen, ToScm, ToStart, ToShut, ToClose, Entering
        <3> QED  BY <3>1, <3>4 DEF Due, Single
    <2> QED  BY <1>3, <2>1, <2>2 DEF RestoreStop
<1>4. CASE RestoreSettings
    <2>1. CASE UNCHANGED cloudVars
        BY <2>1 DEF Silent
    <2>2. ASSUME NEW a \in Answers, Send("settings", FALSE, a),
                 IF a = "ok" THEN Stay("settingsRestored") ELSE RemovalFailed("settings")
          PROVE  Due("settings", FALSE)
        <3>1. /\ pc = "restoreSettings" /\ i' = 0 /\ owned' = Owned0
              /\ pc' \in {"settingsRestored", "compensate"}
            BY <1>4, <2>2 DEF RestoreSettings, PlaceOK, Stay, RemovalFailed, planVars
        <3>2. Ahead("settings", FALSE) /\ ~Ahead("settings", FALSE)'
            BY <1>1, <3>1, OwnedDistinct DEF Ahead, ToRestore
        <3> QED  BY <1>1, <2>2, <3>2, SendAsks DEF Due
    <2> QED  BY <1>4, <2>1, <2>2 DEF RestoreSettings
<1> QED  BY <1>2, <1>3, <1>4

(* The operations ask one thing at a time, and never for the lock.         *)
LEMMA ExecAsks ==
    ASSUME Ctrl, CloudOK, ExecStep, UNCHANGED <<guardVars, role>>
    PROVE  Silent \/ \E x \in Resources \ {"lock"}, v \in BOOLEAN : Due(x, v)
<1>1. CASE AddRule \/ RemoveRule
    BY <1>1, RuleAsks DEF Resources
<1>2. CASE Grant \/ RemoveDefinition
    BY <1>2, RoleAsks, GrantsKnown DEF guardVars, Ctrl
<1>3. CASE CreateBlob \/ DeleteBlob
    BY <1>3, BlobAsks DEF Resources
<1>4. CASE Configure \/ RestoreStop \/ RestoreSettings
    BY <1>4, SettingsAsks DEF Resources
<1>5. CASE \/ Operation \/ RuleAdded \/ Granted \/ Unguarded \/ Retired \/ RoleRemoved
           \/ BlobCreated \/ SettleBlob \/ BlobGone \/ RuleRemoved \/ AwaitStop
           \/ SettingsRestored \/ CanaryEnd \/ Finalize \/ Assemble \/ Compensate
    BY <1>5
       DEF Silent, Operation, RuleAdded, Granted, Unguarded, Retired, RoleRemoved,
           BlobCreated, SettleBlob, BlobGone, RuleRemoved, AwaitStop, SettingsRestored,
           CanaryEnd, Finalize, Assemble, Compensate
<1> QED  BY <1>1, <1>2, <1>3, <1>4, <1>5 DEF ExecStep

(* So does the canary.                                                     *)
LEMMA CanaryAsks ==
    ASSUME Ctrl, CloudOK, CanaryNext, UNCHANGED <<guardVars, execVars>>
    PROVE  Silent \/ \E x \in {"network", "scm", "site"}, v \in BOOLEAN : Due(x, v)
<1> USE DEF Ctrl
<1>1. /\ "network" \in Resources /\ "scm" \in Resources /\ "site" \in Resources
      /\ Stops \in Nat
      /\ \A x \in {"network", "scm", "site"} : x \notin Parts' /\ x \notin Locked
      /\ UNCHANGED <<i, owned>>
    BY GrantsKnown DEF Parts, Resources, Locked, FactOK, Requests, Stops, execVars, planVars
<1>2. i = 10 /\ owned = OwnedS /\ CanaryMove
    BY CanaryMoves DEF CanaryMove, PlaceOK, Entering, Inside
<1>3. ASSUME NEW x \in {"network", "scm", "site"}, NEW v \in BOOLEAN, NEW a, Send(x, v, a),
             x = "site" => v, Ahead(x, v), ~Ahead(x, v)'
      PROVE  Due(x, v)
    BY <1>1, <1>3, SendAsks DEF Due
<1>4. ASSUME NEW a, Send("site", FALSE, a), pc \in {"restop", "canaryStop", "finalStop"}
      PROVE  Due("site", FALSE)
    <2>1. Asks("site", FALSE)
        BY <1>1, <1>4, SendAsks
    <2>2. Stops' = Stops + 1
        BY <2>1 DEF Asks, Stops
    <2>3. StopOK'
        BY <1>1, <1>2, <1>4, <2>2, OwnedDistinct
           DEF CanaryMove, StopOK, ToOpen, ToScm, ToStart, ToShut, ToClose, Entering
    <2> QED  BY <2>1, <2>3 DEF Due, Single
<1>5. CASE EnableNetwork
    <2>1. Ahead("network", TRUE) /\ ~Ahead("network", TRUE)'
        BY <1>1, <1>2, <1>5 DEF EnableNetwork, CanaryMove, Ahead, ToGrant, ToOpen, Entering
    <2> QED  BY <1>3, <1>5, <2>1 DEF EnableNetwork, Goto, Silent
<1>6. CASE EnableScm
    <2>1. Ahead("scm", TRUE) /\ ~Ahead("scm", TRUE)'
        BY <1>1, <1>2, <1>6
           DEF EnableScm, CanaryMove, Ahead, ToGrant, ToScm, ToOpen, Entering
    <2> QED  BY <1>3, <1>6, <2>1 DEF EnableScm, Goto, Silent
<1>7. CASE StartSite
    <2>1. Ahead("site", TRUE) /\ ~Ahead("site", TRUE)'
        BY <1>1, <1>2, <1>7
           DEF StartSite, CanaryMove, Ahead, ToGrant, ToStart, ToScm, ToOpen, Entering
    <2> QED  BY <1>3, <1>7, <2>1 DEF StartSite, Goto, Silent
<1>8. CASE CloseScm
    <2>1. Ahead("scm", FALSE) /\ ~Ahead("scm", FALSE)'
        BY <1>1, <1>2, <1>8
           DEF CloseScm, CanaryMove, Ahead, ToShut, ToStart, ToScm, ToOpen, Entering
    <2> QED  BY <1>3, <1>8, <2>1 DEF CloseScm, Goto, Silent
<1>9. CASE CloseNetwork
    <2>1. Ahead("network", FALSE) /\ ~Ahead("network", FALSE)'
        BY <1>1, <1>2, <1>9
           DEF CloseNetwork, CanaryMove, Ahead, ToClose, ToShut, ToStart, ToScm, ToOpen,
               Entering
    <2> QED  BY <1>3, <1>9, <2>1 DEF CloseNetwork, Goto, Silent
<1>10. CASE Restop
    BY <1>4, <1>10 DEF Restop, Goto, Silent
<1>11. CASE CanaryStop
    BY <1>4, <1>11 DEF CanaryStop, Goto, Silent
<1>12. CASE FinalStop
    BY <1>4, <1>12 DEF FinalStop, Goto, Silent
<1>13. CASE CanaryMark \/ AwaitNetwork \/ RunJob \/ Census \/ Resolve \/ Closing \/ ClearMarker
    BY <1>13
       DEF CanaryMark, AwaitNetwork, RunJob, Census, Resolve, Closing, ClearMarker, Goto,
           Silent
<1> QED  BY <1>5, <1>6, <1>7, <1>8, <1>9, <1>10, <1>11, <1>12, <1>13 DEF CanaryNext

(* A step outside the guarded deletion leaves the lock alone.              *)
LEMMA LockElsewhere ==
    ASSUME LockOK, Onward,
           Silent \/ \E x \in Resources \ {"lock"}, v \in BOOLEAN : Due(x, v),
           pc' \notin Guarding,
           ~blocked' /\ pc' # "end" => ~Dropping
    PROVE  LockOK'
<1>1. UNCHANGED <<Drops, Puts>> /\ (Dropping' => Dropping)
    <2>1. CASE Silent
        BY <2>1 DEF Silent, cloudVars, Drops, Puts, Dropping
    <2>2. ASSUME NEW x \in Resources \ {"lock"}, NEW v \in BOOLEAN, Due(x, v)
          PROVE  UNCHANGED <<Drops, Puts>> /\ (Dropping' => Dropping)
        <3>1. "lock" \in Resources /\ <<"lock", FALSE>> \in Requests
            BY DEF Resources, Requests
        <3>2. <<x, v>> # <<"lock", FALSE>> /\ <<x, v>> # <<"lock", TRUE>>
            OBVIOUS
        <3> QED  BY <2>2, <3>1, <3>2 DEF Due, Asks, Drops, Puts, Dropping
    <2> QED  BY <2>1, <2>2
<1> QED  BY <1>1 DEF LockOK, Onward, Guarding

(* Outside of the guard a step that leaves it blocked, or was blocked.     *)
LEMMA ExecBlocked ==
    ASSUME ExecStep
    PROVE  /\ pc' \notin Guarding
           /\ pc # "end"
           /\ pc \in Guarding => pc \in {"guarded", "guardFailed"}
           /\ blocked' \/ (blocked' = blocked /\ pc # "guardFailed") \/ pc = "guarded"
<1> USE DEF Stay, Abort, Advance, RemovalFailed, Removed, BlobFailed, Guarding, grantVars
<1>1. CASE Operation
    <2>1. pc = "op" /\ UNCHANGED blocked
        BY <1>1 DEF Operation
    <2>2. \/ pc' \in {"op", "compensate"}
          \/ pc' = Plan[i] /\ Plan[i] \in Owners \union {"canary", "retire"}
          \/ pc' = Remove(OwnerOf[Plan[i]]) /\ Plan[i] \in DOMAIN OwnerOf
        BY <1>1 DEF Operation
    <2>3. pc' \notin Guarding
        BY <2>2 DEF Owners, Remove, OwnerOf
    <2> QED  BY <2>1, <2>3
<1>2. CASE AddRule \/ RuleAdded \/ RemoveRule \/ RuleRemoved
    BY <1>2 DEF AddRule, RuleAdded, RemoveRule, RuleRemoved
<1>3. CASE Grant \/ Granted
    BY <1>3 DEF Grant, Granted
<1>4. CASE Unguarded
    BY <1>4 DEF Unguarded
<1>5. CASE Retired \/ RemoveDefinition
    BY <1>5 DEF Retired, RemoveDefinition
<1>6. CASE RoleRemoved
    BY <1>6 DEF RoleRemoved
<1>7. CASE CreateBlob \/ BlobCreated
    BY <1>7 DEF CreateBlob, BlobCreated
<1>8. CASE SettleBlob \/ DeleteBlob \/ BlobGone
    BY <1>8 DEF SettleBlob, DeleteBlob, BlobGone
<1>9. CASE Configure \/ RestoreStop \/ AwaitStop \/ RestoreSettings \/ SettingsRestored
    BY <1>9 DEF Configure, RestoreStop, AwaitStop, RestoreSettings, SettingsRestored
<1>10. CASE CanaryEnd \/ Finalize \/ Assemble
    BY <1>10 DEF CanaryEnd, Finalize, Assemble
<1>11. CASE Compensate
    BY <1>11 DEF Compensate, Remove, Owners
<1> QED  BY <1>1, <1>2, <1>3, <1>4, <1>5, <1>6, <1>7, <1>8, <1>9, <1>10, <1>11 DEF ExecStep

(* An operation leaves the lock alone.                                     *)
LEMMA ExecLock ==
    ASSUME Ctrl, CloudOK, LockOK, Onward, ExecStep, UNCHANGED <<guardVars, role>>
    PROVE  LockOK'
<1>1. ~blocked' /\ pc' # "end" => ~Dropping
    BY ExecBlocked DEF LockOK
<1> QED  BY <1>1, ExecBlocked, ExecAsks, LockElsewhere

(* So does the canary.                                                     *)
LEMMA CanaryLock ==
    ASSUME Ctrl, CloudOK, LockOK, Onward, CanaryNext, UNCHANGED <<guardVars, execVars>>
    PROVE  LockOK'
<1>1. CanaryMove /\ UNCHANGED blocked
    BY CanaryMoves DEF execVars, grantVars
<1>2. /\ pc' \notin Guarding /\ pc \notin Guarding \union {"end"}
    BY <1>1 DEF CanaryMove, Guarding
<1>3. ~blocked' /\ pc' # "end" => ~Dropping
    BY <1>1, <1>2 DEF LockOK
<1>4. Silent \/ \E x \in Resources \ {"lock"}, v \in BOOLEAN : Due(x, v)
    BY CanaryAsks DEF Resources
<1> QED  BY <1>2, <1>3, <1>4, LockElsewhere

(* A group is entered only where no deletion of the lock is under way.     *)
LEMMA EnterLock ==
    ASSUME PlaceOK, FactOK, LockOK, Onward, RemoveRole \/ Retire
    PROVE  LockOK'
<1>1. /\ UNCHANGED <<Drops, Puts, Dropping>>
      /\ pc \in {"removeRole", "retire"}
      /\ pc' \in {"guard", "guarded", "compensate"}
      /\ pc' # "compensate" => ~blocked
      /\ pc' = "guard" => ~broken'
      /\ ~blocked' => ~blocked
    BY DEF RemoveRole, Retire, RemovalFailed, Stay, Abort, EnterGuard, cloudVars, grantVars,
           Drops, Puts, Dropping
<1> QED  BY <1>1 DEF LockOK, Onward, Guarding

(* A request to the lock: one more, and it is taken or on its way.         *)
LEMMA SendLock ==
    ASSUME CloudOK, NEW v \in BOOLEAN, NEW a, Send("lock", v, a)
    PROVE  /\ ~v => Drops' = Drops + 1 /\ Puts' = Puts
           /\ v => Drops' = Drops /\ Puts' = Puts + 1 /\ (Dropping' => Dropping)
           /\ a = "ok" => (cloud'["lock"] = v /\ flight' = flight) \/ UNCHANGED cloud
           /\ Drops \in Nat /\ Puts \in Nat
<1>1. "lock" \in Resources
    BY DEF Resources
<1>2. Asks("lock", v) /\ Drops \in Nat /\ Puts \in Nat
    BY <1>1, SendAsks DEF CloudOK, Requests, Drops, Puts
<1>3. <<"lock", FALSE>> \in Requests
    BY <1>1 DEF Requests
<1>4. a = "ok" => (cloud'["lock"] = v /\ flight' = flight) \/ UNCHANGED cloud
    BY <1>1 DEF Send, Take, Delay, CloudOK
<1>5. ~v => Drops' = Drops + 1 /\ Puts' = Puts
    BY <1>1, <1>2 DEF Asks, Drops, Puts
<1>6. v => Drops' = Drops /\ Puts' = Puts + 1 /\ (Dropping' => Dropping)
    BY <1>1, <1>2, <1>3 DEF Asks, Drops, Puts, Dropping
<1> QED  BY <1>2, <1>4, <1>5, <1>6

(* Each assignment of the group is deleted once.                           *)
LEMMA UnassignAsks ==
    ASSUME Ctrl, CloudOK, GuardOK, Unassign, UNCHANGED execVars,
           NEW x \in todo, NEW a \in Answers, Send(x, FALSE, a),
           todo' = todo \ {x}, pc' = IF a = "ok" THEN "unassign" ELSE "restore"
    PROVE  x \in Locked /\ Due(x, FALSE)
<1> USE DEF Ctrl
<1>1. /\ pc = "unassign" /\ pc' \in {"unassign", "restore"} /\ UNCHANGED <<i, owned, members>>
      /\ IF Retiring THEN i = 11 /\ owned = OwnedS ELSE i \in {0, 7} /\ owned = Owned1
    BY DEF Unassign, execVars, planVars, PlaceOK, Guarding
<1>2. x \in Locked /\ x \in members /\ x \in Resources
    BY DEF GroupOK, GuardOK, Resources
<1>3. Retiring' = Retiring /\ (x = "legacy" => Retiring) /\ x \notin todo'
    BY <1>1, <1>2 DEF Retiring, GroupOK
<1>4. CASE x = "legacy"
    <2>1. Ahead(x, FALSE)
        BY <1>1, <1>4 DEF Ahead, ToRemove
    <2>2. i' = 11 /\ owned' = OwnedS
        BY <1>1, <1>3, <1>4
    <2>3. ~ToRemove'
        BY <1>1, <1>3, <1>4, <2>2
           DEF ToRemove, ToRetire, ToClose, ToShut, ToStart, ToScm, ToOpen, Entering
    <2>4. ~Ahead(x, FALSE)'
        BY <1>4, <2>3 DEF Ahead
    <2> QED  BY <1>2, <1>4, <2>1, <2>4, SendAsks DEF Due
<1>5. CASE x # "legacy"
    <2>1. Ahead(x, FALSE)
        BY <1>1, <1>2, <1>5 DEF Ahead, ToUnassign
    <2>2. ~ToUnassign(x)'
        BY <1>1, <1>3, OwnedDistinct DEF ToUnassign, ToUnrole, HasRole
    <2>3. ~Ahead(x, FALSE)'
        BY <1>2, <1>5, <2>2 DEF Ahead, Locked
    <2> QED  BY <1>2, <2>1, <2>3, SendAsks DEF Due, Single, Locked
<1> QED  BY <1>4, <1>5

(* The guard deletes its group, and asks for the lock.                     *)
LEMMA GuardAsks ==
    ASSUME Ctrl, CloudOK, GuardOK, GuardNext, UNCHANGED execVars
    PROVE  \/ Silent
           \/ \E x \in Locked : Due(x, FALSE)
           \/ \E v \in BOOLEAN, a \in Answers : Send("lock", v, a)
<1>1. CASE GuardRead \/ Suspended \/ Unassigned \/ Restored
    BY <1>1 DEF GuardRead, Suspended, Unassigned, Restored, Goto, Silent
<1>2. CASE Suspend
    BY <1>2 DEF Suspend, Goto, Silent
<1>3. CASE Restore
    BY <1>3 DEF Restore, Goto, Silent
<1>4. CASE Unassign
    BY <1>4, UnassignAsks DEF Unassign, Goto, Silent
<1> QED  BY <1>1, <1>2, <1>3, <1>4 DEF GuardNext

(* The guard deletes the lock once for its group, and puts it back at      *)
(* most as often.                                                          *)
LEMMA GuardLock ==
    ASSUME Ctrl, CloudOK, GuardOK, LockOK, Onward, GuardNext, UNCHANGED execVars
    PROVE  LockOK'
<1>1. /\ UNCHANGED <<i, owned, blocked, members>>
      /\ Drops \in Nat /\ Puts \in Nat
    BY DEF GuardNext, GuardRead, Suspend, Suspended, Unassign, Unassigned, Restore,
           Restored, guardVars, execVars, planVars, grantVars, CloudOK, Requests, Resources,
           Drops, Puts
<1>2. ASSUME UNCHANGED <<Drops, Puts, Dropping>>, UNCHANGED cloud, pc \in Guarding,
             pc' \in {"restore", "restored", "guardFailed"} => broken' \/ ~Dropping,
             pc' = "guarded" => ~Dropping,
             pc' = "restore" => pc \in {"suspend", "suspended", "unassign"},
             pc' = "suspend" => pc = "guard" /\ cloud["lock"],
             pc' = "unassign" => pc \in {"suspended", "unassign"} /\ ~Dropping,
             pc' \in {"suspend", "unassign", "restore", "guardFailed", "guarded"}
      PROVE  LockOK'
    <2>1. pc' = "restore" /\ pc # "suspend" => Puts' < Drops'
        BY <1>2 DEF LockOK
    <2>2. pc' = "restore" /\ pc = "suspend" => cloud'["lock"] /\ ~Dropping'
        BY <1>2 DEF LockOK
    <2>3. pc' = "unassign" => Puts' < Drops'
        BY <1>2 DEF LockOK
    <2>4. /\ Drops' <= 2 /\ Puts' <= Drops'
          /\ ToUnrole' => Drops' = 0
          /\ ToRetire' => Drops' <= 1
        BY <1>2 DEF LockOK, Onward
    <2>5. pc' \in Guarding
        BY <1>2 DEF Guarding
    <2>6. pc' = "suspend" => cloud'["lock"] /\ ~Dropping'
        BY <1>2 DEF LockOK
    <2>7. pc' \in {"unassign", "guarded"} \/ (pc' = "restore" /\ ~broken') => ~Dropping'
        BY <1>2
    <2> QED  BY <1>2, <2>1, <2>2, <2>3, <2>4, <2>5, <2>6, <2>7 DEF LockOK
<1>3. CASE GuardRead
    <2>1. /\ pc = "guard" /\ pc' \in {"guarded", "suspend", "guardFailed"}
          /\ UNCHANGED <<cloud, Drops, Puts, Dropping>>
          /\ pc' = "suspend" => cloud["lock"]
        BY <1>3 DEF GuardRead, Goto, cloudVars, Drops, Puts, Dropping
    <2> QED  BY <1>2, <2>1 DEF LockOK, Guarding
<1>4. CASE Suspended
    <2>1. /\ pc = "suspended"
          /\ \/ pc' = "unassign" /\ ~cloud["lock"]
             \/ pc' = "restore" /\ broken'
          /\ UNCHANGED <<cloud, Drops, Puts, Dropping>>
        BY <1>4 DEF Suspended, Goto, cloudVars, Drops, Puts, Dropping
    <2> QED  BY <1>2, <2>1 DEF LockOK, Guarding
<1>5. CASE Unassigned
    <2>1. pc = "unassign" /\ pc' = "restore" /\ UNCHANGED <<cloud, Drops, Puts, Dropping>>
        BY <1>5 DEF Unassigned, Goto, cloudVars, Drops, Puts, Dropping
    <2> QED  BY <1>2, <2>1 DEF LockOK, Guarding
<1>6. CASE Restored
    <2>1. /\ pc = "restored"
          /\ \/ pc' = "guarded" /\ ~broken
             \/ pc' = "guardFailed"
          /\ UNCHANGED <<cloud, Drops, Puts, Dropping, broken>>
        BY <1>6 DEF Restored, Goto, cloudVars, guardVars, Drops, Puts, Dropping
    <2> QED  BY <2>1 DEF LockOK, Guarding, Onward
<1>7. CASE Suspend
    <2>1. CASE broken' = TRUE /\ Goto("restore") /\ pc = "suspend"
        <3>1. pc' = "restore" /\ UNCHANGED <<cloud, Drops, Puts, Dropping>>
            BY <2>1 DEF Goto, cloudVars, Drops, Puts, Dropping
        <3> QED  BY <1>2, <2>1, <3>1 DEF LockOK, Guarding
    <2>2. ASSUME NEW a \in Answers, Send("lock", FALSE, a), broken' = (a # "ok"),
                 pc = "suspend",
                 pc' = IF a = "ok" THEN "suspended" ELSE "restore"
          PROVE  LockOK'
        <3>1. Drops' = Drops + 1 /\ Puts' = Puts
            BY <2>2, SendLock
        <3>2. cloud["lock"] /\ ~Dropping /\ Puts <= Drops
            BY <2>2 DEF LockOK
        <3>3. pc' = "suspended" => cloud'["lock"] \/ ~Dropping'
            BY <2>2, <3>2, SendLock DEF Dropping
        <3>4. Drops' <= 2 /\ Puts' < Drops' /\ Puts' <= Drops'
            <4>1. IF Retiring THEN Drops <= 1 ELSE Drops = 0
                BY <2>2 DEF LockOK, ToRetire, ToUnrole
            <4> QED  BY <1>1, <3>1, <3>2, <4>1
        <3>5. ~ToUnrole' /\ (ToRetire' => Drops' <= 1)
            <4>1. /\ IF Retiring THEN i = 11 /\ owned = OwnedS
                                 ELSE i \in {0, 7} /\ owned = Owned1
                  /\ pc' \in {"suspended", "restore"} /\ Retiring' = Retiring
                BY <1>1, <2>2 DEF Ctrl, PlaceOK, Guarding, Retiring
            <4>2. ~ToUnrole'
                BY <1>1, <4>1, OwnedDistinct DEF ToUnrole, HasRole
            <4>3. Retiring => ~ToRetire'
                BY <1>1, <4>1
                   DEF ToRetire, ToClose, ToShut, ToStart, ToScm, ToOpen, Entering
            <4>4. ~Retiring => Drops' = 1
                <5>1. ~Retiring => Drops = 0
                    BY <2>2 DEF LockOK, ToUnrole
                <5> QED  BY <1>1, <3>1, <5>1
            <4> QED  BY <4>2, <4>3, <4>4
        <3>6. pc' = "suspended" \/ (pc' = "restore" /\ broken')
            BY <2>2
        <3> QED  BY <3>3, <3>4, <3>5, <3>6 DEF LockOK, Guarding
    <2> QED  BY <1>7, <2>1, <2>2 DEF Suspend
<1>8. CASE Restore
    <2>1. CASE (~broken /\ Goto("guarded")) \/ Goto("guardFailed")
        <3>1. /\ pc = "restore" /\ UNCHANGED <<cloud, Drops, Puts, Dropping>>
              /\ (pc' = "guarded" /\ ~broken) \/ pc' = "guardFailed"
            BY <1>8, <2>1 DEF Restore, Goto, cloudVars, Drops, Puts, Dropping
        <3> QED  BY <3>1 DEF LockOK, Guarding, Onward
    <2>2. ASSUME NEW a \in Answers, ~cloud["lock"], Send("lock", TRUE, a),
                 broken' = (broken \/ a # "ok"), pc = "restore", pc' = "restored"
          PROVE  LockOK'
        <3>1. Drops' = Drops /\ Puts' = Puts + 1 /\ (Dropping' => Dropping) /\ Puts < Drops
            BY <2>2, SendLock DEF LockOK
        <3>2. Drops' <= 2 /\ Puts' <= Drops'
            BY <1>1, <3>1 DEF LockOK
        <3>3. ~broken' => ~Dropping'
            BY <2>2, <3>1 DEF LockOK
        <3> QED  BY <2>2, <3>1, <3>2, <3>3 DEF LockOK, Guarding, Onward
    <2> QED  BY <1>8, <2>1, <2>2 DEF Restore
<1>9. CASE Unassign
    <2>1. CASE Goto("restore")
        <3>1. pc = "unassign" /\ pc' = "restore" /\ UNCHANGED <<cloud, Drops, Puts, Dropping>>
            BY <1>9, <2>1 DEF Unassign, Goto, cloudVars, Drops, Puts, Dropping
        <3> QED  BY <1>2, <3>1 DEF LockOK, Guarding
    <2>2. ASSUME NEW x \in todo, NEW a \in Answers, Send(x, FALSE, a), todo' = todo \ {x},
                 pc' = IF a = "ok" THEN "unassign" ELSE "restore"
          PROVE  LockOK'
        <3>1. x \in Locked /\ Asks(x, FALSE)
            BY <1>9, <2>2, UnassignAsks DEF Due
        <3>2. x # "lock" /\ "lock" \in Resources /\ <<"lock", FALSE>> \in Requests
            BY <3>1 DEF Locked, Resources, Requests
        <3>3. UNCHANGED <<Drops, Puts>> /\ (Dropping' => Dropping)
            BY <3>1, <3>2 DEF Asks, Drops, Puts, Dropping
        <3>4. pc = "unassign" /\ pc' \in {"unassign", "restore"}
            BY <1>9, <2>2 DEF Unassign
        <3> QED  BY <1>1, <3>3, <3>4 DEF LockOK, Guarding, Onward
    <2> QED  BY <1>9, <2>1, <2>2 DEF Unassign
<1> QED  BY <1>3, <1>4, <1>5, <1>6, <1>7, <1>8, <1>9 DEF GuardNext

(* Without a request, outside of the guard's steps: what is on its way     *)
(* lands, the run dies, or nothing happens.                                *)
LEMMA LandLock ==
    ASSUME CloudOK, LockOK, Onward, Land, UNCHANGED <<guardVars, execVars>>
    PROVE  LockOK'
<1>1. PICK r \in flight : /\ flight' = flight \ {r}
                          /\ cloud' = IF Permitted(r) THEN [cloud EXCEPT ![r[1]] = r[2]]
                                                      ELSE cloud
                          /\ UNCHANGED <<pc, asked>>
    BY DEF Land
<1>2. UNCHANGED <<Drops, Puts>> /\ (Dropping' => Dropping)
    BY <1>1 DEF Drops, Puts, Dropping
<1>3. UNCHANGED <<pc, members, broken, blocked>>
    BY <1>1 DEF guardVars, execVars, grantVars
<1>4. cloud["lock"] /\ (Dropping => Dropping') => cloud'["lock"]
    <2>1. r \in Requests /\ "lock" \in Resources
        BY <1>1 DEF CloudOK, Resources
    <2>2. r = <<r[1], r[2]>> /\ r[1] \in Resources /\ r[2] \in BOOLEAN
        BY <2>1 DEF Requests
    <2>3. (Dropping => Dropping') /\ r[1] = "lock" => r[2] = TRUE
        BY <1>1, <2>2 DEF Dropping
    <2> QED  BY <1>1, <2>1, <2>2, <2>3 DEF CloudOK
<1> QED  BY <1>2, <1>3, <1>4 DEF LockOK, Onward

(* A crash ends the run.                                                   *)
LEMMA CrashLock ==
    ASSUME LockOK, Onward, Crash
    PROVE  LockOK'
<1>1. /\ pc' = "end" /\ UNCHANGED <<Drops, Puts, Dropping>>
    BY DEF Crash, cloudVars, Drops, Puts, Dropping
<1> QED  BY <1>1 DEF LockOK, Onward, Guarding

(* A step that touches neither the lock nor the guard.                     *)
LEMMA StillLock ==
    ASSUME LockOK, Onward,
           UNCHANGED <<cloud, flight, asked, pc, members, broken, blocked>>
    PROVE  LockOK'
<1>1. UNCHANGED <<Drops, Puts, Dropping>>
    BY DEF Drops, Puts, Dropping
<1> QED  BY <1>1 DEF LockOK, Onward

(* What is counted of the requests.                                        *)
Sent == Counted /\ LockOK

(* Every request is counted, and the lock's among them.                    *)
LEMMA StepCounts ==
    ASSUME Ctrl, CloudOK, GuardOK, Sent, Next
    PROVE  Sent'
<1>1. Onward /\ Calm /\ FactOK
    BY StepOnward DEF Ctrl
<1>2. CASE ExecStep /\ UNCHANGED <<live, guardVars, canaryVars, role>>
    <2>1. LockOK'
        BY <1>1, <1>2, ExecLock DEF Sent
    <2>2. CASE Silent
        BY <1>1, <2>1, <2>2, SilentCounts DEF Sent, Silent, cloudVars
    <2>3. CASE \E x \in Resources \ {"lock"}, v \in BOOLEAN : Due(x, v)
        BY <1>1, <2>1, <2>3, DueCounts DEF Sent
    <2> QED  BY <1>2, <2>2, <2>3, ExecAsks
<1>3. CASE (RemoveRole \/ Retire) /\ UNCHANGED <<live, canaryVars, role>>
    <2>1. UNCHANGED asked
        BY <1>3 DEF RemoveRole, Retire, cloudVars
    <2>2. LockOK'
        BY <1>1, <1>3, EnterLock DEF Sent, Ctrl
    <2> QED  BY <1>1, <2>1, <2>2, SilentCounts DEF Sent
<1>4. CASE GuardNext /\ UNCHANGED <<canaryVars, execVars>>
    <2>1. LockOK'
        BY <1>1, <1>4, GuardLock DEF Sent
    <2>2. CASE Silent
        BY <1>1, <2>1, <2>2, SilentCounts DEF Sent, Silent, cloudVars
    <2>3. CASE \E x \in Locked : Due(x, FALSE)
        BY <1>1, <2>1, <2>3, DueCounts DEF Sent, Resources
    <2>4. CASE \E v \in BOOLEAN, a \in Answers : Send("lock", v, a)
        <3>1. PICK v \in BOOLEAN, a \in Answers : Send("lock", v, a)
            BY <2>4
        <3>2. "lock" \in Resources
            BY DEF Resources
        <3>3. Due("lock", v)
            BY <3>1, <3>2, SendAsks DEF Due, Single
        <3> QED  BY <1>1, <2>1, <3>2, <3>3, DueCounts DEF Sent
    <2> QED  BY <1>4, <2>2, <2>3, <2>4, GuardAsks
<1>5. CASE CanaryNext /\ UNCHANGED <<guardVars, execVars>>
    <2>1. LockOK'
        BY <1>1, <1>5, CanaryLock DEF Sent
    <2>2. CASE Silent
        BY <1>1, <2>1, <2>2, SilentCounts DEF Sent, Silent, cloudVars
    <2>3. CASE \E x \in {"network", "scm", "site"}, v \in BOOLEAN : Due(x, v)
        BY <1>1, <2>1, <2>3, DueCounts DEF Sent, Resources
    <2> QED  BY <1>5, <2>2, <2>3, CanaryAsks
<1>6. CASE Environment /\ UNCHANGED <<guardVars, canaryVars, execVars>>
    <2>1. UNCHANGED asked
        BY <1>6 DEF Environment, Land, Expire
    <2>2. CASE Land
        BY <1>1, <1>6, <2>1, <2>2, LandLock, SilentCounts DEF Sent
    <2>3. CASE Expire
        BY <1>1, <1>6, <2>1, <2>3, StillLock, SilentCounts
           DEF Sent, Expire, guardVars, execVars, grantVars
    <2> QED  BY <1>6, <2>2, <2>3 DEF Environment
<1>7. CASE Crash
    BY <1>1, <1>7, CrashLock, SilentCounts DEF Sent, Crash, cloudVars
<1>8. CASE Resume
    BY <1>1, <1>8, StillLock, SilentCounts DEF Sent, Resume, cloudVars, guardVars, grantVars
<1> QED  BY <1>2, <1>3, <1>4, <1>5, <1>6, <1>7, <1>8 DEF Next

(* Types: of the cloud, from what a request does to it.                    *)
LEMMA DueTyped ==
    ASSUME CloudOK, NEW x \in Resources, NEW v \in BOOLEAN, Due(x, v), live' \in BOOLEAN
    PROVE  CloudOK'
BY DEF Due, Asks, CloudOK

(* Without a request.                                                      *)
LEMMA SilentTyped ==
    ASSUME CloudOK, Silent, live' \in BOOLEAN
    PROVE  CloudOK'
BY DEF Silent, cloudVars, CloudOK

(* In every step.                                                          *)
LEMMA CloudTyped ==
    ASSUME Ctrl, CloudOK, GuardOK, Next
    PROVE  CloudOK'
<1>1. CASE ExecStep /\ UNCHANGED <<live, guardVars, canaryVars, role>>
    <2>1. live' \in BOOLEAN
        BY <1>1 DEF CloudOK
    <2> QED  BY <1>1, <2>1, ExecAsks, SilentTyped, DueTyped
<1>2. CASE (RemoveRole \/ Retire) /\ UNCHANGED <<live, canaryVars, role>>
    <2>1. live' \in BOOLEAN /\ Silent
        BY <1>2 DEF CloudOK, RemoveRole, Retire, Silent
    <2> QED  BY <2>1, SilentTyped
<1>3. CASE GuardNext /\ UNCHANGED <<canaryVars, execVars>>
    <2>1. live' \in BOOLEAN
        BY <1>3 DEF GuardNext, CloudOK
    <2>2. CASE \E x \in Locked : Due(x, FALSE)
        BY <2>1, <2>2, DueTyped DEF Resources
    <2>3. CASE \E v \in BOOLEAN, a \in Answers : Send("lock", v, a)
        <3>1. PICK v \in BOOLEAN : Asks("lock", v)
            BY <2>3, SendAsks DEF Resources
        <3> QED  BY <2>1, <3>1 DEF Asks, CloudOK
    <2> QED  BY <1>3, <2>1, <2>2, <2>3, GuardAsks, SilentTyped
<1>4. CASE CanaryNext /\ UNCHANGED <<guardVars, execVars>>
    <2>1. live' \in BOOLEAN
        BY <1>4 DEF CanaryNext, CloudOK
    <2>2. CASE \E x \in {"network", "scm", "site"}, v \in BOOLEAN : Due(x, v)
        BY <2>1, <2>2, DueTyped DEF Resources
    <2> QED  BY <1>4, <2>1, <2>2, CanaryAsks, SilentTyped
<1>5. CASE Environment /\ UNCHANGED <<guardVars, canaryVars, execVars>>
    <2>1. CASE Land
        <3>1. PICK r \in flight :
                /\ flight' = flight \ {r}
                /\ cloud' = IF Permitted(r) THEN [cloud EXCEPT ![r[1]] = r[2]] ELSE cloud
                /\ UNCHANGED <<asked, doubt, live>>
            BY <2>1 DEF Land
        <3>2. r[1] \in Resources /\ r[2] \in BOOLEAN
            BY <3>1 DEF CloudOK, Requests
        <3> QED  BY <3>1, <3>2 DEF CloudOK
    <2>2. CASE Expire
        BY <2>2 DEF Expire, CloudOK
    <2> QED  BY <1>5, <2>1, <2>2 DEF Environment
<1>6. CASE Crash
    BY <1>6, SilentTyped DEF Crash, Silent, CloudOK
<1>7. CASE Resume
    BY <1>7, SilentTyped DEF Resume, Silent, CloudOK
<1> QED  BY <1>1, <1>2, <1>3, <1>4, <1>5, <1>6, <1>7 DEF Next

(* Of the guard.                                                           *)
LEMMA GuardTyped ==
    ASSUME FactOK, GuardOK, Next
    PROVE  GuardOK'
<1>1. CASE UNCHANGED guardVars
    BY <1>1 DEF guardVars, GuardOK
<1>2. CASE RemoveRole \/ Retire
    <2>1. \/ UNCHANGED guardVars \/ EnterGuard({})
          \/ EnterGuard(Assignments) \/ EnterGuard({"legacy"})
        BY <1>2 DEF RemoveRole, Retire
    <2>2. Assignments \subseteq Locked /\ "legacy" \in Locked
        BY DEF Assignments, Locked
    <2> QED  BY <1>1, <2>1, <2>2 DEF EnterGuard, GuardOK
<1>3. CASE GuardNext
    <2>1. CASE GuardRead
        BY <2>1 DEF GuardRead, GuardOK, Present
    <2>2. CASE Suspend
        BY <2>2 DEF Suspend, GuardOK
    <2>3. CASE Suspended
        BY <2>3 DEF Suspended, GuardOK
    <2>4. CASE Unassign
        BY <2>4 DEF Unassign, GuardOK
    <2>5. CASE Unassigned
        BY <2>5 DEF Unassigned, GuardOK
    <2>6. CASE Restore
        BY <2>6 DEF Restore, GuardOK
    <2>7. CASE Restored
        BY <1>1, <2>7 DEF Restored
    <2> QED  BY <1>3, <2>1, <2>2, <2>3, <2>4, <2>5, <2>6, <2>7 DEF GuardNext
<1>4. CASE Crash
    BY <1>4 DEF Crash, EnterGuard, GuardOK
<1> QED  BY <1>1, <1>2, <1>3, <1>4 DEF Next, Resume

(* Of the canary.                                                          *)
LEMMA CanaryTyped ==
    ASSUME CanaryOK, Next
    PROVE  CanaryOK'
<1>1. CASE UNCHANGED canaryVars
    BY <1>1 DEF canaryVars, CanaryOK
<1>2. CASE CanaryNext
    <2>1. CASE CanaryMark \/ AwaitNetwork \/ Restop \/ RunJob
        BY <2>1 DEF CanaryMark, AwaitNetwork, Restop, RunJob, Break, CanaryOK
    <2>2. CASE EnableNetwork
        BY <2>2 DEF EnableNetwork, Break, CanaryOK
    <2>3. CASE EnableScm \/ StartSite
        BY <2>3 DEF EnableScm, StartSite, Break, CanaryOK
    <2>4. CASE CanaryStop
        BY <2>4 DEF CanaryStop, CanaryOK
    <2>5. CASE Census \/ Resolve \/ Closing
        BY <2>5 DEF Census, Resolve, Closing, Break, CanaryOK
    <2>6. CASE CloseScm
        BY <2>6 DEF CloseScm, Break, CanaryOK
    <2>7. CASE CloseNetwork
        BY <2>7 DEF CloseNetwork, Break, CanaryOK
    <2>8. CASE FinalStop
        BY <2>8 DEF FinalStop, Break, CanaryOK
    <2>9. CASE ClearMarker
        BY <2>9 DEF ClearMarker, Break, CanaryOK
    <2> QED  BY <1>2, <2>1, <2>2, <2>3, <2>4, <2>5, <2>6, <2>7, <2>8, <2>9 DEF CanaryNext
<1>3. CASE Crash
    BY <1>3 DEF Crash, CanaryOK
<1> QED  BY <1>1, <1>2, <1>3 DEF Next, Resume

(* What the executor remembers, and its files.                             *)
MemoryOK ==
    /\ tag \in {"none", "unknown", "known"}
    /\ failed \in SUBSET Owners
    /\ blocked \in BOOLEAN
    /\ files \in 0 .. 4
    /\ status \in {"running", "complete", "failed", "unwritten", "crashed"}

(* The facts of the role phase.                                            *)
LEMMA FactTyped ==
    ASSUME FactOK, CloudOK', Next
    PROVE  FactOK'
<1>1. asked' \in [Requests -> Nat]
    BY DEF CloudOK
<1>2. role' = role
    BY DEF Next, GuardNext, CanaryNext, Crash, Resume, execVars
<1>3. CASE UNCHANGED <<fact, again>>
    BY <1>1, <1>2, <1>3 DEF FactOK
<1>4. CASE Grant
    <2>1. CASE UNCHANGED fact
        BY <1>3, <1>4, <2>1 DEF Grant
    <2>2. ASSUME NEW x \in Parts, NEW a \in Answers,
                 fact' = [fact EXCEPT ![x] =
                            [ok |-> "created", denied |-> "none", lost |-> "ambiguous"][a]]
          PROVE  FactOK'
        <3>1. a \in {"ok", "denied", "lost"}
            BY DEF Answers
        <3>2. [ok |-> "created", denied |-> "none", lost |-> "ambiguous"][a]
                \in {"none", "created", "exact", "ambiguous"}
            BY <3>1
        <3> QED  BY <1>1, <1>2, <1>4, <2>2, <3>2 DEF Grant, FactOK
    <2> QED  BY <1>4, <2>1, <2>2 DEF Grant
<1>5. CASE Granted
    BY <1>1, <1>2, <1>5 DEF Granted, FactOK
<1>6. CASE SettleBlob \/ DeleteBlob
    BY <1>1, <1>2, <1>6 DEF SettleBlob, DeleteBlob, FactOK
<1>7. CASE Crash
    BY <1>1, <1>2, <1>7 DEF Crash, FactOK
<1>8. CASE ExecStep
    <2>1. CASE Operation \/ AddRule \/ RuleAdded \/ Unguarded \/ Retired \/ RemoveDefinition
                 \/ RoleRemoved \/ CreateBlob \/ BlobCreated
        BY <1>3, <2>1
           DEF Operation, AddRule, RuleAdded, Unguarded, Retired, RemoveDefinition,
               RoleRemoved, CreateBlob, BlobCreated, grantVars
    <2>2. CASE BlobGone \/ RemoveRule \/ RuleRemoved \/ Configure \/ RestoreStop \/ AwaitStop
                 \/ RestoreSettings \/ SettingsRestored \/ CanaryEnd \/ Finalize \/ Assemble
                 \/ Compensate
        BY <1>3, <2>2
           DEF BlobGone, RemoveRule, RuleRemoved, Configure, RestoreStop, AwaitStop,
               RestoreSettings, SettingsRestored, CanaryEnd, Finalize, Assemble, Compensate,
               grantVars
    <2> QED  BY <1>4, <1>5, <1>6, <1>8, <2>1, <2>2 DEF ExecStep
<1>9. CASE RemoveRole \/ Retire \/ Resume \/ UNCHANGED execVars
    BY <1>3, <1>9 DEF RemoveRole, Retire, Resume, execVars, grantVars
<1> QED  BY <1>7, <1>8, <1>9 DEF Next

(* An owner reported is an owner.                                          *)
LEMMA FailedOK ==
    ASSUME MemoryOK, NEW x \in Owners, RemovalFailed(x)
    PROVE  failed' \in SUBSET Owners
BY DEF MemoryOK, RemovalFailed

(* The rest, field by field.                                               *)
LEMMA MemoryTyped ==
    ASSUME MemoryOK, FactOK, Next
    PROVE  MemoryOK'
<1>1. CASE UNCHANGED <<tag, failed, blocked, files, status>>
    BY <1>1 DEF MemoryOK
<1>2. {"blob", "role", "rule", "settings"} = Owners
    BY DEF Owners
<1>3. failed' \in SUBSET Owners
    <2>1. CASE UNCHANGED failed
        BY <2>1 DEF MemoryOK
    <2>2. CASE \E x \in Owners : RemovalFailed(x)
        BY <2>2, FailedOK
    <2>3. CASE ExecStep
        <3>1. CASE Operation \/ AddRule \/ RuleAdded \/ Grant \/ Granted \/ Retired
                     \/ CreateBlob \/ BlobCreated \/ Configure \/ CanaryEnd \/ Finalize
                     \/ Assemble \/ Compensate
            BY <2>1, <3>1
               DEF Operation, AddRule, RuleAdded, Grant, Granted, Retired, CreateBlob,
                   BlobCreated, Configure, CanaryEnd, Finalize, Assemble, Compensate, Stay,
                   Advance, Abort, planVars
        <3>2. CASE Unguarded \/ RemoveDefinition \/ RoleRemoved
            BY <1>2, <2>1, <2>2, <3>2
               DEF Unguarded, RemoveDefinition, RoleRemoved, Stay, Advance, Abort, Removed,
                   planVars
        <3>3. CASE SettleBlob \/ DeleteBlob \/ BlobGone
            BY <1>2, <2>1, <2>2, <3>3
               DEF SettleBlob, DeleteBlob, BlobGone, BlobFailed, Stay, Advance, Abort,
                   Removed, planVars
        <3>4. CASE RemoveRule \/ RuleRemoved
            BY <1>2, <2>1, <2>2, <3>4
               DEF RemoveRule, RuleRemoved, Stay, Advance, Removed, planVars
        <3>5. CASE RestoreStop \/ AwaitStop \/ RestoreSettings \/ SettingsRestored
            BY <1>2, <2>1, <2>2, <3>5
               DEF RestoreStop, AwaitStop, RestoreSettings, SettingsRestored, Stay, Advance,
                   Removed, planVars
        <3> QED  BY <2>3, <3>1, <3>2, <3>3, <3>4, <3>5 DEF ExecStep
    <2>4. CASE RemoveRole \/ Retire
        BY <1>2, <2>1, <2>2, <2>4 DEF RemoveRole, Retire, Stay, Abort, planVars
    <2>5. CASE Crash
        BY <2>5 DEF Crash
    <2>6. CASE Resume \/ UNCHANGED execVars
        BY <2>1, <2>6 DEF Resume, execVars, planVars
    <2> QED  BY <2>3, <2>4, <2>5, <2>6 DEF Next
<1>4. tag' \in {"none", "unknown", "known"} /\ blocked' \in BOOLEAN
    <2>1. CASE UNCHANGED <<tag, blocked>>
        BY <2>1 DEF MemoryOK
    <2>2. CASE CreateBlob
        <3>1. CASE UNCHANGED tag
            BY <2>1, <2>2, <3>1 DEF CreateBlob
        <3>2. ASSUME NEW a \in Answers,
                     tag' = [ok |-> "known", denied |-> "none", lost |-> "unknown"][a]
              PROVE  tag' \in {"none", "unknown", "known"}
            BY <3>2 DEF Answers
        <3> QED  BY <2>2, <3>1, <3>2 DEF CreateBlob, MemoryOK
    <2>3. CASE BlobCreated \/ SettleBlob
        BY <2>3 DEF BlobCreated, SettleBlob, MemoryOK
    <2>4. CASE Unguarded \/ Retired \/ RemoveDefinition \/ RoleRemoved \/ RemoveRole
        BY <2>4 DEF Unguarded, Retired, RemoveDefinition, RoleRemoved, RemoveRole, MemoryOK
    <2>5. CASE Operation \/ AddRule \/ RuleAdded \/ Grant \/ Granted \/ DeleteBlob \/ BlobGone
                 \/ RemoveRule \/ RuleRemoved \/ Configure \/ Retire
        BY <2>1, <2>5
           DEF Operation, AddRule, RuleAdded, Grant, Granted, DeleteBlob, BlobGone,
               RemoveRule, RuleRemoved, Configure, Retire, grantVars
    <2>6. CASE RestoreStop \/ AwaitStop \/ RestoreSettings \/ SettingsRestored \/ CanaryEnd
                 \/ Finalize \/ Assemble \/ Compensate
        BY <2>1, <2>6
           DEF RestoreStop, AwaitStop, RestoreSettings, SettingsRestored, CanaryEnd,
               Finalize, Assemble, Compensate, grantVars
    <2>7. CASE Crash
        BY <2>7 DEF Crash
    <2>8. CASE Resume \/ UNCHANGED execVars
        BY <2>1, <2>8 DEF Resume, execVars, grantVars
    <2> QED  BY <2>2, <2>3, <2>4, <2>5, <2>6, <2>7, <2>8 DEF Next, ExecStep
<1>5. /\ files' \in 0 .. 4
      /\ status' \in {"running", "complete", "failed", "unwritten", "crashed"}
    <2>1. Bundle <=> files = 4
        BY DEF Bundle, Evidence
    <2>2. CASE UNCHANGED endVars
        BY <2>2 DEF endVars, MemoryOK
    <2>3. CASE Finalize
        BY <2>3 DEF Finalize, MemoryOK
    <2>4. CASE Assemble
        BY <2>1, <2>4 DEF Assemble, MemoryOK
    <2>5. CASE Compensate
        BY <2>5 DEF Compensate, MemoryOK
    <2>6. CASE Crash
        BY <2>6 DEF Crash, MemoryOK
    <2>7. CASE Resume
        BY <2>1, <2>7 DEF Resume, MemoryOK
    <2>8. CASE ExecStep /\ ~(Finalize \/ Assemble \/ Compensate)
        BY <2>2, <2>8
           DEF ExecStep, Operation, AddRule, RuleAdded, Grant, Granted, Unguarded, Retired,
               RemoveDefinition, RoleRemoved, CreateBlob, BlobCreated, SettleBlob,
               DeleteBlob, BlobGone, RemoveRule, RuleRemoved, Configure, RestoreStop,
               AwaitStop, RestoreSettings, SettingsRestored, CanaryEnd
    <2>9. CASE RemoveRole \/ Retire \/ UNCHANGED execVars
        BY <2>2, <2>9 DEF RemoveRole, Retire, execVars, endVars
    <2> QED  BY <2>3, <2>4, <2>5, <2>6, <2>7, <2>8, <2>9 DEF Next
<1> QED  BY <1>3, <1>4, <1>5 DEF MemoryOK

(* The inductive invariant of both theorems.                               *)
SentInv ==
    /\ PlaceOK /\ GroupOK /\ FactOK /\ MemoryOK
    /\ CloudOK /\ GuardOK /\ CanaryOK
    /\ OnceOK /\ PutOK /\ BlobOK /\ StopOK /\ LockOK

(* It holds at the start.                                                  *)
LEMMA SentInit == Init => SentInv
<1> SUFFICES ASSUME Init PROVE SentInv
    OBVIOUS
<1> USE DEF Init, CloudInit, GuardInit, CanaryInit
<1>1. /\ pc = "op" /\ i = 1 /\ owned = Owned0
      /\ members = {} /\ initial = {} /\ todo = {}
    BY OwnedSeqs
<1>2. PlaceOK /\ GroupOK
    BY <1>1 DEF PlaceOK, GroupOK, Entering, Inside, Guarding
<1>3. CloudOK /\ GuardOK /\ CanaryOK
    <2>1. cloud \in [Resources -> BOOLEAN]
        OBVIOUS
    <2>2. asked \in [Requests -> Nat]
        OBVIOUS
    <2> QED  BY <2>1, <2>2 DEF CloudOK, GuardOK, CanaryOK
<1>4. FactOK /\ MemoryOK
    <2>1. fact \in [Locked \union {"definition"} -> {"none", "created", "exact", "ambiguous"}]
        OBVIOUS
    <2>2. asked \in [Requests -> Nat]
        OBVIOUS
    <2>3. MemoryOK
        <3>1. tag = "none" /\ failed = {} /\ blocked = FALSE /\ files = 0 /\ status = "running"
            OBVIOUS
        <3> HIDE DEF Init, CloudInit, GuardInit, CanaryInit
        <3>2. blocked \in BOOLEAN
            BY <3>1
        <3>3. failed \in SUBSET Owners
            BY <3>1
        <3>4. files \in 0 .. 4
            BY <3>1
        <3> QED  BY <3>1, <3>2, <3>3, <3>4, Zenon DEF MemoryOK
    <2> QED  BY <2>1, <2>2, <2>3 DEF FactOK
<1>5. \A x \in Resources, v \in BOOLEAN : asked[<<x, v>>] = 0
    BY DEF Requests
<1>6. Dels = 0 /\ Stops = 0 /\ Drops = 0 /\ Puts = 0 /\ asked[<<"blob", TRUE>>] = 0 /\ ~Dropping
    BY <1>5 DEF Dels, Stops, Drops, Puts, Resources, Dropping
<1>7. OnceOK /\ PutOK
    BY <1>5, <1>6, MaxCreatesAssumption DEF OnceOK, PutOK
<1>8. BlobOK /\ StopOK /\ LockOK
    BY <1>1, <1>6 DEF BlobOK, StopOK, LockOK, Guarding
<1> QED  BY <1>2, <1>3, <1>4, <1>7, <1>8 DEF SentInv

(* Every step keeps it.                                                    *)
LEMMA SentStep == SentInv /\ [Next]_vars => SentInv'
<1> SUFFICES ASSUME SentInv, [Next]_vars PROVE SentInv'
    OBVIOUS
<1> USE DEF SentInv
<1>1. CASE Next
    <2>1. PlaceOK' /\ GroupOK'
        BY <1>1, StepOnward DEF Ctrl
    <2>2. Sent'
        BY <1>1, StepCounts DEF Ctrl, Sent, Counted
    <2>3. CloudOK' /\ GuardOK' /\ CanaryOK'
        BY <1>1, CloudTyped, GuardTyped, CanaryTyped DEF Ctrl
    <2>4. FactOK' /\ MemoryOK'
        BY <1>1, <2>3, FactTyped, MemoryTyped
    <2> QED  BY <2>1, <2>2, <2>3, <2>4 DEF Sent, Counted
<1>2. CASE UNCHANGED vars
    <2>1. Onward /\ Calm /\ PlaceOK' /\ GroupOK'
        BY <1>2, StillOnward DEF vars, guardVars, execVars, grantVars, planVars
    <2>2. Counted' /\ LockOK'
        BY <1>2, <2>1, SilentCounts, StillLock
           DEF Counted, vars, cloudVars, guardVars, execVars, grantVars
    <2>3. /\ CloudOK' /\ GuardOK' /\ CanaryOK'
        BY <1>2 DEF vars, cloudVars, guardVars, canaryVars, CloudOK, GuardOK, CanaryOK
    <2>4. FactOK' /\ MemoryOK'
        BY <1>2
           DEF vars, cloudVars, execVars, grantVars, planVars, endVars, FactOK, MemoryOK
    <2> QED  BY <2>1, <2>2, <2>3, <2>4 DEF Counted
<1> QED  BY <1>1, <1>2

(* The owned are distinct.                                                 *)
LEMMA OwnedTyped ==
    ASSUME owned \in {Owned0, Owned1, Owned2, Owned3, OwnedS}
    PROVE  /\ \A n \in DOMAIN owned : owned[n] \in Owners
           /\ Cardinality({owned[n] : n \in DOMAIN owned}) = Len(owned)
<1>1. owned \in Seq(Owners) /\ \A n \in DOMAIN owned : owned[n] \in Owners
    <2>1. owned \in Seq(Owners)
        BY OwnedSeqs, Zenon
    <2>2. \A n \in DOMAIN owned : owned[n] \in Owners
        BY ONLY <2>1
    <2> QED  BY <2>1, <2>2
<1>2. CASE owned = Owned0
    <2>1. {owned[n] : n \in DOMAIN owned} = {}
        BY <1>2, OwnedSeqs
    <2> QED  BY <1>1, <1>2, <2>1, OwnedSeqs, FS_EmptySet
<1>3. CASE owned = Owned1 \/ owned = OwnedS
    <2>1. {owned[n] : n \in DOMAIN owned} = {owned[1]} /\ Len(owned) = 1
        BY <1>3, OwnedSeqs
    <2> QED  BY <1>1, <2>1, FS_Singleton
<1>4. CASE owned = Owned2
    <2>1. Len(owned) = 2 /\ owned[1] = "rule" /\ owned[2] = "role" /\ DOMAIN owned = {1, 2}
        BY <1>1, <1>4, OwnedSeqs
    <2>2. {owned[n] : n \in DOMAIN owned} = {"rule"} \union {"role"}
        BY <2>1
    <2>3. IsFiniteSet({"rule"}) /\ Cardinality({"rule"}) = 1
        BY FS_Singleton
    <2>4. Cardinality({"rule"} \union {"role"}) = 2
        BY <2>3, FS_AddElement
    <2> QED  BY <1>1, <2>1, <2>2, <2>4
<1>5. CASE owned = Owned3
    <2>1. /\ Len(owned) = 3 /\ owned[1] = "rule" /\ owned[2] = "role" /\ owned[3] = "blob"
          /\ DOMAIN owned = {1, 2, 3}
        BY <1>1, <1>5, OwnedSeqs
    <2>2. {owned[n] : n \in DOMAIN owned} = ({"rule"} \union {"role"}) \union {"blob"}
        BY <2>1
    <2>3. IsFiniteSet({"rule"}) /\ Cardinality({"rule"}) = 1
        BY FS_Singleton
    <2>4. /\ IsFiniteSet({"rule"} \union {"role"})
          /\ Cardinality({"rule"} \union {"role"}) = 2
        BY <2>3, FS_AddElement
    <2>5. Cardinality(({"rule"} \union {"role"}) \union {"blob"}) = 3
        BY <2>4, FS_AddElement
    <2> QED  BY <1>1, <2>1, <2>2, <2>5
<1> QED  BY <1>2, <1>3, <1>4, <1>5

(* It gives the types.                                                     *)
LEMMA SentTyped == SentInv => TypeOK
<1> SUFFICES ASSUME SentInv PROVE TypeOK
    OBVIOUS
<1> USE DEF SentInv
<1>1. i \in 0 .. Len(Plan) + 1
    BY PlanAt DEF PlaceOK
<1>2. owned \in {Owned0, Owned1, Owned2, Owned3, OwnedS}
    <2>1. CASE pc = "op"
        BY <2>1 DEF PlaceOK
    <2>2. CASE pc # "op"
        BY <2>2 DEF PlaceOK, Entering, Inside, Guarding
    <2> QED  BY <2>1, <2>2
<1>3. Len(Evidence) = 4
    BY DEF Evidence
<1> QED  BY <1>1, <1>2, <1>3, OwnedTyped DEF TypeOK, FactOK, MemoryOK

(* It gives the bounds on the requests.                                    *)
LEMMA SentNoRetry == SentInv => NoRetry
<1> SUFFICES ASSUME SentInv PROVE NoRetry
    OBVIOUS
<1> USE DEF SentInv
<1>1. ASSUME NEW r \in Requests, r[1] \notin {"blob", "site", "lock"}
      PROVE  asked[r] <= 1
    <2>1. r = <<r[1], r[2]>> /\ r[1] \in Resources /\ r[2] \in BOOLEAN
        BY DEF Requests
    <2>2. Single(r[1], r[2])
        BY <1>1 DEF Single
    <2> QED  BY <2>1, <2>2 DEF OnceOK
<1>2. asked[<<"site", TRUE>>] <= 1
    BY DEF OnceOK, Single, Resources
<1> QED  BY <1>1, <1>2 DEF NoRetry, PutOK, BlobOK, StopOK, LockOK, Dels, Stops, Drops, Puts

(* Every state of the executor is one of the types its code gives it       *)
(* (BootstrapExecutor.run), and no owner is owned twice                    *)
(* (temporary_owned).                                                      *)
THEOREM TypeSafe == Spec => []TypeOK
<1>1. Spec => []SentInv
    BY SentInit, SentStep, PTL DEF Spec
<1> QED  BY <1>1, SentTyped, PTL

(* No request is sent twice but those the code repeats on purpose, and     *)
(* these no more often than it says: over the plan's own removals, the     *)
(* guard's finally, the canary's finally and compensation, lost answers    *)
(* and requests that land late, and a crash at any point                   *)
(* (BootstrapExecutor.run, _compensate_temporary_owned,                    *)
(* _with_cleanup_locks_suspended).                                         *)
THEOREM RetrySafe == Spec => []NoRetry
<1>1. Spec => []SentInv
    BY SentInit, SentStep, PTL DEF Spec
<1> QED  BY <1>1, SentNoRetry, PTL

(***************************************************************************)
(* ReceiptTruth and BlobBeforeRole, in the same generality.  Whatever is   *)
(* there, or is under way, was asked for (CauseOK), from the one place     *)
(* where it is asked for (At).  For each thing that a run grants the       *)
(* invariant then says who answers for it until it is gone: the owner on   *)
(* the stack or the step at work (RuleHeld, SettingsHeld, BlobHeld,        *)
(* RoleHeld), a report of its failure, or a doubt that is on record; the   *)
(* lock, unless the guard is at work or has failed; the canary's closings, *)
(* unless it is hurt; and, once a file of the evidence exists, that all is *)
(* done (DoneTruth).  An owner is shown to leave only with a report or     *)
(* with a readback (RuleLeaves, ...), and the readback to be final.        *)
(***************************************************************************)

(* Where each request is sent.                                             *)
At(x, v) ==
    \/ v /\ \/ x = "rule" /\ pc = "rule"
            \/ x \in Parts /\ pc = "role" /\ fact[x] = "none"
            \/ x = "blob" /\ pc = "blob"
            \/ x = "settings" /\ pc = "settings"
            \/ x = "network" /\ pc = "enableNetwork"
            \/ x = "scm" /\ pc = "enableScm"
            \/ x = "site" /\ pc = "startSite"
            \/ x = "lock" /\ pc = "restore"
    \/ ~v /\ \/ x = "rule" /\ pc = "removeRule"
             \/ x = "definition" /\ pc = "guarded"
             \/ x \in Locked /\ pc = "unassign"
             \/ x = "blob" /\ pc = "deleteBlob"
             \/ x = "settings" /\ pc = "restoreSettings"
             \/ x = "network" /\ pc = "closeNetwork"
             \/ x = "scm" /\ pc = "closeScm"
             \/ x = "site" /\ pc \in {"restop", "canaryStop", "finalStop", "restoreStop"}
             \/ x = "lock" /\ pc = "suspend"

(* A step that sends a request, from there.                                *)
Sending == \E x \in Resources, v \in BOOLEAN, a \in Answers : Send(x, v, a) /\ At(x, v)

(* The operations send from where they are.                                *)
LEMMA ExecSends ==
    ASSUME FactOK, ExecStep
    PROVE  Silent \/ Sending
<1>1. CASE AddRule \/ RemoveRule
    BY <1>1 DEF AddRule, RemoveRule, At, Sending, Silent, Resources
<1>2. CASE Grant
    BY <1>2, GrantsKnown DEF Grant, IsNext, At, Sending, Silent, Resources
<1>3. CASE RemoveDefinition
    BY <1>3 DEF RemoveDefinition, At, Sending, Silent, Resources
<1>4. CASE CreateBlob \/ DeleteBlob
    BY <1>4 DEF CreateBlob, DeleteBlob, At, Sending, Silent, Resources
<1>5. CASE Configure \/ RestoreStop \/ RestoreSettings
    BY <1>5 DEF Configure, RestoreStop, RestoreSettings, At, Sending, Silent, Resources
<1>6. CASE \/ Operation \/ RuleAdded \/ Granted \/ Unguarded \/ Retired \/ RoleRemoved
           \/ BlobCreated \/ SettleBlob \/ BlobGone \/ RuleRemoved \/ AwaitStop
           \/ SettingsRestored \/ CanaryEnd \/ Finalize \/ Assemble \/ Compensate
    BY <1>6
       DEF Silent, Operation, RuleAdded, Granted, Unguarded, Retired, RoleRemoved,
           BlobCreated, SettleBlob, BlobGone, RuleRemoved, AwaitStop, SettingsRestored,
           CanaryEnd, Finalize, Assemble, Compensate
<1> QED  BY <1>1, <1>2, <1>3, <1>4, <1>5, <1>6 DEF ExecStep

(* So do the guard and the canary.                                         *)
LEMMA GuardSends ==
    ASSUME GuardOK, GuardNext
    PROVE  Silent \/ Sending
<1>1. CASE GuardRead \/ Suspended \/ Unassigned \/ Restored
    BY <1>1 DEF GuardRead, Suspended, Unassigned, Restored, Goto, Silent
<1>2. CASE Suspend
    BY <1>2 DEF Suspend, Goto, Silent, At, Sending, Resources
<1>3. CASE Restore
    BY <1>3 DEF Restore, Goto, Silent, At, Sending, Resources
<1>4. CASE Unassign
    BY <1>4 DEF Unassign, Goto, Silent, At, Sending, Resources, GuardOK
<1> QED  BY <1>1, <1>2, <1>3, <1>4 DEF GuardNext

(* And the canary.                                                         *)
LEMMA CanarySends ==
    ASSUME CanaryNext
    PROVE  Silent \/ Sending
<1> USE DEF Goto, Silent, At, Sending, Resources
<1>1. CASE EnableNetwork
    BY <1>1 DEF EnableNetwork
<1>2. CASE EnableScm
    BY <1>2 DEF EnableScm
<1>3. CASE StartSite
    BY <1>3 DEF StartSite
<1>4. CASE CloseScm
    BY <1>4 DEF CloseScm
<1>5. CASE CloseNetwork
    BY <1>5 DEF CloseNetwork
<1>6. CASE Restop
    BY <1>6 DEF Restop
<1>7. CASE CanaryStop
    BY <1>7 DEF CanaryStop
<1>8. CASE FinalStop
    BY <1>8 DEF FinalStop
<1>9. CASE CanaryMark \/ AwaitNetwork \/ RunJob \/ Census \/ Resolve \/ Closing \/ ClearMarker
    BY <1>9 DEF CanaryMark, AwaitNetwork, RunJob, Census, Resolve, Closing, ClearMarker
<1> QED  BY <1>1, <1>2, <1>3, <1>4, <1>5, <1>6, <1>7, <1>8, <1>9 DEF CanaryNext

(* Every step sends nothing, sends a request from where it is sent, or     *)
(* lets one land.                                                          *)
LEMMA StepSends ==
    ASSUME FactOK, GuardOK, Next
    PROVE  Silent \/ Sending \/ Land
<1>1. CASE ExecStep
    BY <1>1, ExecSends
<1>2. CASE GuardNext
    BY <1>2, GuardSends
<1>3. CASE CanaryNext
    BY <1>3, CanarySends
<1>4. CASE RemoveRole \/ Retire \/ Crash \/ Resume \/ Expire
    BY <1>4 DEF RemoveRole, Retire, Crash, Resume, Expire, Silent, cloudVars
<1> QED  BY <1>1, <1>2, <1>3, <1>4 DEF Next, Environment

(* What a request does, and nothing else.                                  *)
LEMMA SendEffect ==
    ASSUME CloudOK, NEW x \in Resources, NEW v \in BOOLEAN, NEW a \in Answers, Send(x, v, a)
    PROVE  /\ cloud' \in [Resources -> BOOLEAN]
           /\ \A y \in Resources \ {x} : cloud'[y] = cloud[y]
           /\ cloud'[x] \in {cloud[x], v}
           /\ <<x, v>> \in flight' => <<x, v>> \in flight \/ cloud'[x] = cloud[x]
           /\ \A r \in Requests \ {<<x, v>>} :
                /\ r \in flight' <=> r \in flight
                /\ r \in doubt' <=> r \in doubt
                /\ asked'[r] = asked[r]
           /\ asked'[<<x, v>>] = asked[<<x, v>>] + 1
           /\ asked[<<x, v>>] \in Nat
           /\ a = "ok" /\ <<x, v>> \notin Deferred => cloud'[x] = v /\ flight' = flight
           /\ a = "denied" => UNCHANGED <<cloud, flight>>
           /\ IF a = "lost" THEN <<x, v>> \in doubt' ELSE doubt' = doubt
<1>1. <<x, v>> \in Requests
    BY DEF Requests
<1>2. /\ asked' = [asked EXCEPT ![<<x, v>>] = @ + 1]
      /\ doubt' = IF a = "lost" THEN doubt \union {<<x, v>>} ELSE doubt
    BY DEF Send
<1>3. /\ asked'[<<x, v>>] = asked[<<x, v>>] + 1 /\ asked[<<x, v>>] \in Nat
      /\ \A r \in Requests \ {<<x, v>>} : asked'[r] = asked[r]
    BY <1>1, <1>2 DEF CloudOK
<1>4. \A r \in Requests \ {<<x, v>>} : r \in doubt' <=> r \in doubt
    BY <1>2
<1>5. CASE Take(<<x, v>>) /\ a # "denied"
    <2>1. /\ cloud' \in [Resources -> BOOLEAN] /\ cloud'[x] = v /\ flight' = flight
          /\ \A y \in Resources \ {x} : cloud'[y] = cloud[y]
        BY <1>5 DEF Take, CloudOK
    <2> QED  BY <1>2, <1>3, <1>4, <1>5, <2>1
<1>6. CASE /\ Delay(<<x, v>>) /\ a # "denied"
           /\ a = "ok" => <<x, v>> \in Deferred
    <2>1. /\ UNCHANGED cloud
          /\ \A r \in Requests \ {<<x, v>>} : r \in flight' <=> r \in flight
        BY <1>6 DEF Delay
    <2> QED  BY <1>2, <1>3, <1>4, <1>6, <2>1 DEF CloudOK
<1>7. CASE UNCHANGED <<cloud, flight>> /\ a # "ok"
    BY <1>2, <1>3, <1>4, <1>7 DEF CloudOK
<1> QED  BY <1>5, <1>6, <1>7 DEF Send, Ignore, Answers

(* What a request under way does when it lands.                            *)
LEMMA LandEffect ==
    ASSUME CloudOK, Land
    PROVE  \E x \in Resources, v \in BOOLEAN :
             /\ <<x, v>> \in flight
             /\ flight' = flight \ {<<x, v>>}
             /\ \A y \in Resources \ {x} : cloud'[y] = cloud[y]
             /\ cloud'[x] \in {cloud[x], v}
             /\ UNCHANGED <<pc, asked, doubt>>
<1>1. PICK r \in flight : /\ flight' = flight \ {r}
                          /\ cloud' = IF Permitted(r) THEN [cloud EXCEPT ![r[1]] = r[2]]
                                                      ELSE cloud
                          /\ UNCHANGED <<pc, asked, doubt>>
    BY DEF Land
<1>2. r = <<r[1], r[2]>> /\ r[1] \in Resources /\ r[2] \in BOOLEAN
    BY DEF CloudOK, Requests
<1>3. (\A y \in Resources \ {r[1]} : cloud'[y] = cloud[y]) /\ cloud'[r[1]] \in {cloud[r[1]], r[2]}
    BY <1>1, <1>2 DEF CloudOK
<1> QED  BY <1>1, <1>2, <1>3

(* The cloud, request by request: what is not asked for does not begin,    *)
(* and comes into effect only by landing.                                  *)
LEMMA StepCloud ==
    ASSUME FactOK, GuardOK, CloudOK, Next, NEW x \in Resources, NEW v \in BOOLEAN
    PROVE  /\ asked[<<x, v>>] \in Nat /\ asked'[<<x, v>>] \in Nat
           /\ asked'[<<x, v>>] >= asked[<<x, v>>]
           /\ <<x, v>> \in flight' => <<x, v>> \in flight \/ asked'[<<x, v>>] > 0
           /\ asked'[<<x, v>>] = asked[<<x, v>>] =>
                /\ <<x, v>> \in flight' => <<x, v>> \in flight
                /\ cloud'[x] = v /\ cloud[x] # v
                     => <<x, v>> \in flight /\ <<x, v>> \notin flight'
                /\ <<x, v>> \in doubt' <=> <<x, v>> \in doubt
           /\ <<x, v>> \notin flight /\ cloud[x] # v
                => ~(cloud'[x] = v /\ <<x, v>> \in flight')
           /\ asked'[<<x, v>>] # asked[<<x, v>>] => At(x, v)
<1>1. <<x, v>> \in Requests /\ asked[<<x, v>>] \in Nat /\ cloud[x] \in BOOLEAN
    BY DEF Requests, CloudOK
<1>2. CASE Silent
    BY <1>1, <1>2 DEF Silent, cloudVars
<1>3. CASE Sending
    <2>1. PICK y \in Resources, w \in BOOLEAN, a \in Answers : Send(y, w, a) /\ At(y, w)
        BY <1>3 DEF Sending
    <2>2. CASE <<x, v>> = <<y, w>>
        <3>1. x = y /\ v = w
            BY <2>2
        <3> QED  BY <1>1, <2>1, <3>1, SendEffect
    <2>3. CASE <<x, v>> # <<y, w>>
        <3>1. /\ <<x, v>> \in flight' <=> <<x, v>> \in flight
              /\ <<x, v>> \in doubt' <=> <<x, v>> \in doubt
              /\ asked'[<<x, v>>] = asked[<<x, v>>]
            BY ZenonT(60), <1>1, <2>1, <2>3, SendEffect
        <3>2. x # y => cloud'[x] = cloud[x]
            BY <2>1, SendEffect
        <3>3. x = y => w # v /\ cloud'[x] \in {cloud[x], w}
            BY <2>1, <2>3, SendEffect
        <3> QED  BY <1>1, <3>1, <3>2, <3>3
    <2> QED  BY <2>2, <2>3
<1>4. CASE Land
    <2>1. PICK y \in Resources, w \in BOOLEAN :
             /\ <<y, w>> \in flight
             /\ flight' = flight \ {<<y, w>>}
             /\ \A z \in Resources \ {y} : cloud'[z] = cloud[z]
             /\ cloud'[y] \in {cloud[y], w}
             /\ UNCHANGED <<asked, doubt>>
        BY <1>4, LandEffect
    <2> QED  BY <1>1, <2>1
<1> QED  BY <1>2, <1>3, <1>4, StepSends

(* The run has crashed.                                                    *)
Crashed == status = "crashed"

(* While the plan goes on nothing has failed.                              *)
RunOK ==
    /\ i # 0 => failed = {} /\ ~Crashed
    /\ Crashed => pc = "end"

(* Where the parts of the run may be there, because the executor still has *)
(* them to remove.                                                         *)
BlobHeld == \/ owned = Owned3
            \/ pc \in {"blobCreated", "settleBlob", "deleteBlob", "blobGone"}
RuleHeld == HasRule \/ pc \in {"ruleAdded", "removeRule", "ruleRemoved"}
RoleHeld == \/ HasRole
            \/ pc \in {"role", "granted", "removeRole", "unroled"}
            \/ pc \in Guarding /\ ~Retiring
SettingsHeld == \/ owned = OwnedS
                \/ pc \in {"restoreStop", "awaitStop", "restoreSettings", "settingsRestored"}

(* A step that leaves the executor where it is.                            *)
Outside == (Environment /\ UNCHANGED <<guardVars, canaryVars, execVars>>) \/ Resume

(* Which operation is at work where.                                       *)
Working ==
    \/ pc = "op" /\ Operation
    \/ pc = "rule" /\ AddRule
    \/ pc = "ruleAdded" /\ RuleAdded
    \/ pc = "role" /\ Grant
    \/ pc = "granted" /\ Granted
    \/ pc = "guardFailed" /\ Unguarded
    \/ pc = "guarded" /\ Retired
    \/ pc = "guarded" /\ RemoveDefinition
    \/ pc = "unroled" /\ RoleRemoved
    \/ pc = "blob" /\ CreateBlob
    \/ pc = "blobCreated" /\ BlobCreated
    \/ pc = "settleBlob" /\ SettleBlob
    \/ pc = "deleteBlob" /\ DeleteBlob
    \/ pc = "blobGone" /\ BlobGone
    \/ pc = "removeRule" /\ RemoveRule
    \/ pc = "ruleRemoved" /\ RuleRemoved
    \/ pc = "settings" /\ Configure
    \/ pc = "restoreStop" /\ RestoreStop
    \/ pc = "awaitStop" /\ AwaitStop
    \/ pc = "restoreSettings" /\ RestoreSettings
    \/ pc = "settingsRestored" /\ SettingsRestored
    \/ pc = "canaryEnd" /\ CanaryEnd
    \/ pc = "op" /\ Finalize
    \/ pc = "assemble" /\ Assemble
    \/ pc = "compensate" /\ Compensate

EntersGuard ==
    \/ pc = "removeRole" /\ RemoveRole
    \/ pc = "retire" /\ Retire

(* Every step is of one of them.                                           *)
LEMMA Works ==
    ASSUME Next
    PROVE  \/ Crash
           \/ Outside
           \/ Working /\ UNCHANGED <<live, guardVars, canaryVars, role>>
           \/ EntersGuard /\ UNCHANGED <<live, canaryVars, role>>
           \/ /\ GuardNext /\ UNCHANGED <<canaryVars, execVars>>
              /\ pc \in Guarding \ {"guarded", "guardFailed"} /\ pc' \in Guarding
           \/ /\ CanaryNext /\ UNCHANGED <<guardVars, execVars>>
              /\ pc \in (Entering \union Inside) \ {"canaryEnd"}
<1>1. CASE ExecStep /\ UNCHANGED <<live, guardVars, canaryVars, role>>
    <2>1. /\ Operation => pc = "op"
          /\ AddRule => pc = "rule"
          /\ RuleAdded => pc = "ruleAdded"
          /\ Grant => pc = "role"
          /\ Granted => pc = "granted"
          /\ Unguarded => pc = "guardFailed"
          /\ Retired => pc = "guarded"
          /\ RemoveDefinition => pc = "guarded"
        BY DEF Operation, AddRule, RuleAdded, Grant, Granted, Unguarded, Retired,
               RemoveDefinition
    <2>2. /\ RoleRemoved => pc = "unroled"
          /\ CreateBlob => pc = "blob"
          /\ BlobCreated => pc = "blobCreated"
          /\ SettleBlob => pc = "settleBlob"
          /\ DeleteBlob => pc = "deleteBlob"
          /\ BlobGone => pc = "blobGone"
          /\ RemoveRule => pc = "removeRule"
          /\ RuleRemoved => pc = "ruleRemoved"
        BY DEF RoleRemoved, CreateBlob, BlobCreated, SettleBlob, DeleteBlob, BlobGone,
               RemoveRule, RuleRemoved
    <2>3. /\ Configure => pc = "settings"
          /\ RestoreStop => pc = "restoreStop"
          /\ AwaitStop => pc = "awaitStop"
          /\ RestoreSettings => pc = "restoreSettings"
          /\ SettingsRestored => pc = "settingsRestored"
          /\ CanaryEnd => pc = "canaryEnd"
          /\ Finalize => pc = "op"
          /\ Assemble => pc = "assemble"
          /\ Compensate => pc = "compensate"
        BY DEF Configure, RestoreStop, AwaitStop, RestoreSettings, SettingsRestored,
               CanaryEnd, Finalize, Assemble, Compensate
    <2> QED  BY <1>1, <2>1, <2>2, <2>3, Zenon DEF ExecStep, Working
<1>2. CASE (RemoveRole \/ Retire) /\ UNCHANGED <<live, canaryVars, role>>
    <2>1. (RemoveRole => pc = "removeRole") /\ (Retire => pc = "retire")
        BY DEF RemoveRole, Retire
    <2> QED  BY <1>2, <2>1, Zenon DEF EntersGuard
<1>3. CASE GuardNext /\ UNCHANGED <<canaryVars, execVars>>
    <2>1. pc \in Guarding \ {"guarded", "guardFailed"} /\ pc' \in Guarding
        BY <1>3
           DEF GuardNext, GuardRead, Suspend, Suspended, Unassign, Unassigned, Restore,
               Restored, Goto, Guarding
    <2> QED  BY <1>3, <2>1, Zenon
<1>4. CASE CanaryNext /\ UNCHANGED <<guardVars, execVars>>
    <2>1. pc \in (Entering \union Inside) \ {"canaryEnd"}
        BY <1>4, CanaryMoves DEF CanaryMove, Entering, Inside
    <2> QED  BY <1>4, <2>1, Zenon
<1>5. CASE (Environment /\ UNCHANGED <<guardVars, canaryVars, execVars>>) \/ Crash \/ Resume
    BY <1>5, Zenon DEF Outside
<1> QED  BY <1>1, <1>2, <1>3, <1>4, <1>5 DEF Next

(* Nothing outside moves the executor.                                     *)
LEMMA OutsideStill ==
    ASSUME Outside
    PROVE  /\ UNCHANGED <<pc, role, i, owned, failed, fact, tag, again, blocked, status>>
           /\ UNCHANGED <<guardVars, canaryVars>>
           /\ files' = files \/ (files' = files + 1 /\ files > 0 /\ pc = "end")
BY DEF Outside, Environment, Land, Expire, Resume, execVars, planVars, grantVars, endVars

(* An owner stays until its removal begins.                                *)
LEMMA OwnersStay ==
    ASSUME PlaceOK, Next, ~Crash
    PROVE  /\ HasRule => HasRule' \/ pc' = "removeRule"
           /\ HasRole => HasRole' \/ pc' = "removeRole"
           /\ owned = Owned3 => owned' = Owned3 \/ pc' = "settleBlob"
           /\ owned = OwnedS => owned' = OwnedS \/ pc' = "restoreStop" \/ files' > 0
<1> USE DEF HasRule, HasRole
<1> DEFINE Stays == /\ HasRule => HasRule' \/ pc' = "removeRule"
                    /\ HasRole => HasRole' \/ pc' = "removeRole"
                    /\ owned = Owned3 => owned' = Owned3 \/ pc' = "settleBlob"
                    /\ owned = OwnedS => owned' = OwnedS \/ pc' = "restoreStop" \/ files' > 0
<1>1. CASE owned' = owned
    BY <1>1
<1>2. ASSUME Working PROVE Stays
    <2> USE DEF Stay, Advance, Abort, RemovalFailed, Removed, planVars
    <2>1. CASE pc = "op" /\ Operation
        <3>1. i \in 1 .. 12
            BY <2>1, PlanAt DEF Operation, PlaceOK
        <3>2. CASE Plan[i] \in DOMAIN OwnerOf /\ owned' = Without(owned, OwnerOf[Plan[i]])
                   /\ pc' = Remove(OwnerOf[Plan[i]])
            BY <2>1, <3>1, <3>2, OperationRemoves, OwnedDistinct
        <3> QED  BY <1>1, <2>1, <3>2 DEF Operation
    <2>2. CASE pc = "ruleAdded" /\ RuleAdded
        <3>1. owned' = Owned1 /\ owned = Owned0
            BY <2>2, OwnedAppend DEF RuleAdded, PlaceOK
        <3> QED  BY <3>1, OwnedDistinct
    <2>3. CASE (pc = "role" /\ Grant) \/ (pc = "granted" /\ Granted)
        <3>1. owned = Owned1 /\ owned' \in {Owned1, Owned2}
            BY <2>3, RoleOwned DEF Grant, Granted, PlaceOK
        <3> QED  BY <3>1, OwnedDistinct
    <2>4. CASE pc = "blobCreated" /\ BlobCreated
        <3>1. owned' = Owned3 /\ owned = Owned2
            BY <2>4, OwnedAppend DEF BlobCreated, PlaceOK
        <3> QED  BY <3>1, OwnedDistinct
    <2>5. CASE \/ pc = "settleBlob" /\ SettleBlob
               \/ pc = "deleteBlob" /\ DeleteBlob
               \/ pc = "blobGone" /\ BlobGone
        <3>1. owned' \in {Owned2, Owned3} /\ owned = Owned2
            BY <2>5, OwnedAppend DEF SettleBlob, DeleteBlob, BlobGone, BlobFailed, PlaceOK
        <3> QED  BY <3>1, OwnedDistinct
    <2>6. CASE pc = "settings" /\ Configure
        <3>1. owned' \in {Owned0, OwnedS} /\ owned = Owned0
            BY <2>6, OwnedAppend DEF Configure, PlaceOK
        <3> QED  BY <3>1, OwnedDistinct
    <2>7. CASE pc = "op" /\ Finalize
        <3>1. i = 13 /\ owned = OwnedS
            BY <2>7, PlanAt DEF Finalize, PlaceOK
        <3> QED  BY <1>1, <2>7, <3>1, OwnedDistinct DEF Finalize
    <2>8. CASE pc = "compensate" /\ Compensate
        BY <2>8, CompensateMoves, OwnedDistinct
    <2>9. CASE \/ AddRule \/ Unguarded \/ Retired \/ RemoveDefinition \/ RoleRemoved
               \/ CreateBlob \/ RemoveRule \/ RuleRemoved
        BY <1>1, <2>9
           DEF AddRule, Unguarded, Retired, RemoveDefinition, RoleRemoved, CreateBlob,
               RemoveRule, RuleRemoved
    <2>10. CASE \/ RestoreStop \/ AwaitStop \/ RestoreSettings \/ SettingsRestored
                \/ CanaryEnd \/ Assemble
        BY <1>1, <2>10
           DEF RestoreStop, AwaitStop, RestoreSettings, SettingsRestored, CanaryEnd, Assemble
    <2> QED  BY <1>2, <2>1, <2>2, <2>3, <2>4, <2>5, <2>6, <2>7, <2>8, <2>9, <2>10 DEF Working
<1>3. CASE EntersGuard
    BY <1>1, <1>3 DEF EntersGuard, RemoveRole, Retire, Stay, Abort, RemovalFailed, planVars
<1>4. CASE Outside \/ UNCHANGED execVars
    BY <1>1, <1>4, OutsideStill DEF execVars, planVars
<1> QED  BY <1>2, <1>3, <1>4, Works

(* What has failed stays so, and while the plan goes on nothing has.       *)
LEMMA MemoryStays ==
    ASSUME PlaceOK, RunOK, Next, ~Crash
    PROVE  /\ failed \subseteq failed'
           /\ i' # 0 => i # 0 /\ failed' = failed
           /\ Crashed' <=> Crashed
           /\ pc = "end" => pc' = "end"
<1> DEFINE Stays == /\ failed \subseteq failed'
                    /\ i' # 0 => i # 0 /\ failed' = failed
                    /\ Crashed' <=> Crashed
                    /\ pc = "end" => pc' = "end"
<1> USE DEF Crashed
<1>0. /\ i \in Nat
      /\ pc \in {"op", "rule", "ruleAdded", "role", "granted", "blob", "blobCreated",
                "settings", "canaryEnd"} => i # 0
      /\ pc = "guarded" /\ Retiring => i # 0
      /\ Crashed => pc = "end"
    BY DEF PlaceOK, RunOK, Inside, Guarding
<1>1. ASSUME Working PROVE Stays
    <2> USE DEF Stay, Advance, Abort, RemovalFailed, Removed, planVars, endVars
    <2>1. CASE \/ AddRule \/ RuleAdded \/ RemoveRule \/ RuleRemoved \/ Grant \/ Granted
               \/ CreateBlob
        BY <1>0, <2>1
           DEF AddRule, RuleAdded, RemoveRule, RuleRemoved, Grant, Granted, CreateBlob
    <2>2. CASE \/ Unguarded \/ Retired \/ RemoveDefinition \/ RoleRemoved
        BY <1>0, <2>2
           DEF Unguarded, Retired, RemoveDefinition, RoleRemoved
    <2>3. CASE BlobCreated \/ SettleBlob \/ DeleteBlob \/ BlobGone
        BY <1>0, <2>3 DEF BlobCreated, SettleBlob, DeleteBlob, BlobGone, BlobFailed
    <2>4. CASE \/ Configure \/ RestoreStop \/ AwaitStop \/ RestoreSettings
               \/ SettingsRestored
        BY <1>0, <2>4
           DEF Configure, RestoreStop, AwaitStop, RestoreSettings, SettingsRestored
    <2>5. CASE CanaryEnd \/ Finalize \/ Assemble \/ Compensate
        BY <1>0, <2>5 DEF CanaryEnd, Finalize, Assemble, Compensate
    <2>6. CASE Operation
        BY <1>0, <2>6 DEF Operation
    <2> QED  BY <1>1, <2>1, <2>2, <2>3, <2>4, <2>5, <2>6 DEF Working
<1>2. CASE EntersGuard
    BY <1>2
       DEF EntersGuard, RemoveRole, Retire, Stay, Abort, RemovalFailed, planVars, endVars,
           PlaceOK
<1>3. CASE Outside
    BY <1>3, OutsideStill
<1>4. CASE UNCHANGED execVars /\ pc # "end"
    BY <1>4 DEF execVars, planVars, endVars
<1> QED  BY <1>1, <1>2, <1>3, <1>4, Works DEF Guarding, Entering, Inside

(* The ways out of holding the rule: it is reported, or read absent.       *)
LEMMA RuleLeaves ==
    ASSUME PlaceOK, Next, ~Crash, RuleHeld
    PROVE  \/ RuleHeld'
           \/ "rule" \in failed'
           \/ Silent /\ ~cloud["rule"]
<1>1. CASE HasRule
    BY <1>1, OwnersStay DEF RuleHeld
<1>2. CASE pc \in {"ruleAdded", "removeRule", "ruleRemoved"} /\ Working
    <2>1. CASE RuleAdded
        BY <2>1, OwnedAppend DEF RuleAdded, PlaceOK, RuleHeld, HasRule, Abort, Advance
    <2>2. CASE RemoveRule
        BY <2>2 DEF RemoveRule, RuleHeld, Stay, RemovalFailed
    <2>3. CASE RuleRemoved
        BY <2>3 DEF RuleRemoved, Silent, RemovalFailed
    <2> QED  BY <1>2, <2>1, <2>2, <2>3 DEF Working
<1>3. CASE pc \in {"ruleAdded", "removeRule", "ruleRemoved"} /\ Outside
    BY <1>3, OutsideStill DEF RuleHeld
<1> QED  BY <1>1, <1>2, <1>3, Works DEF RuleHeld, EntersGuard, Guarding, Entering, Inside

(* The settings: they are reported, read restored, or the evidence has     *)
(* begun.                                                                  *)
LEMMA SettingsLeaves ==
    ASSUME PlaceOK, Next, ~Crash, SettingsHeld
    PROVE  \/ SettingsHeld'
           \/ "settings" \in failed'
           \/ files' > 0
           \/ Silent /\ ~cloud["settings"]
<1>1. CASE owned = OwnedS
    BY <1>1, OwnersStay DEF SettingsHeld
<1>2. CASE /\ pc \in {"restoreStop", "awaitStop", "restoreSettings", "settingsRestored"}
           /\ Working
    <2>1. CASE RestoreStop \/ AwaitStop
        BY <2>1 DEF RestoreStop, AwaitStop, SettingsHeld, Stay, RemovalFailed
    <2>2. CASE RestoreSettings \/ SettingsRestored
        BY <2>2 DEF RestoreSettings, SettingsRestored, SettingsHeld, Silent, Stay, RemovalFailed
    <2> QED  BY <1>2, <2>1, <2>2 DEF Working
<1>3. CASE /\ pc \in {"restoreStop", "awaitStop", "restoreSettings", "settingsRestored"}
           /\ Outside
    BY <1>3, OutsideStill DEF SettingsHeld
<1> QED  BY <1>1, <1>2, <1>3, Works DEF SettingsHeld, EntersGuard, Guarding, Entering, Inside

(* The blob: it is reported, or read absent.                               *)
LEMMA BlobLeaves ==
    ASSUME PlaceOK, Next, ~Crash, BlobHeld
    PROVE  \/ BlobHeld'
           \/ "blob" \in failed'
           \/ Silent /\ ~cloud["blob"] /\ pc = "blobGone"
<1> DEFINE Steps == {"blobCreated", "settleBlob", "deleteBlob", "blobGone"}
<1>1. CASE owned = Owned3
    BY <1>1, OwnersStay DEF BlobHeld
<1>2. CASE pc \in Steps /\ Working
    <2>1. owned = Owned2 /\ Append(owned, "blob") = Owned3
        BY <1>2, OwnedAppend DEF PlaceOK
    <2>2. BlobFailed => "blob" \in failed' \/ owned' = Owned3
        BY <2>1 DEF BlobFailed, RemovalFailed, Abort
    <2>3. CASE BlobCreated
        BY <2>1, <2>3 DEF BlobCreated, BlobHeld, Abort, Advance
    <2>4. CASE SettleBlob \/ DeleteBlob
        BY <2>2, <2>4 DEF SettleBlob, DeleteBlob, BlobHeld, Stay
    <2>5. CASE BlobGone
        BY <2>2, <2>5 DEF BlobGone, BlobHeld, Silent
    <2> QED  BY <1>2, <2>3, <2>4, <2>5 DEF Working
<1>3. CASE pc \in Steps /\ Outside
    BY <1>3, OutsideStill DEF BlobHeld
<1> QED  BY <1>1, <1>2, <1>3, Works DEF BlobHeld, EntersGuard, Guarding, Entering, Inside

(* The role: it is reported, read absent, or nothing of it is on record.   *)
LEMMA RoleLeaves ==
    ASSUME PlaceOK, FactOK, Next, ~Crash, RoleHeld
    PROVE  \/ RoleHeld'
           \/ "role" \in failed'
           \/ pc = "unroled" /\ Silent /\ \A x \in Parts : ~cloud[x]
           \/ \A x \in Parts : fact'[x] = "none"
<1>1. CASE HasRole
    BY <1>1, OwnersStay DEF RoleHeld
<1>2. CASE pc \in {"role", "granted"} /\ Working
    <2>1. owned = Owned1 /\ Append(owned, "role") = Owned2
        BY <1>2, OwnedAppend DEF PlaceOK
    <2>2. WithRole(fact') = Owned2 \/ \A x \in Parts : fact'[x] = "none"
        BY <2>1 DEF WithRole, Attempted
    <2>3. CASE Grant
        BY <2>2, <2>3 DEF Grant, RoleHeld, HasRole, Abort, Stay
    <2>4. CASE Granted
        <3>1. CASE Abort(WithRole(fact)) /\ UNCHANGED fact
            BY <2>2, <3>1 DEF RoleHeld, HasRole, Abort
        <3>2. ASSUME NEW x \in Parts, fact[x] = "created"
              PROVE  WithRole(fact) = Owned2
            BY <2>1, <3>2 DEF WithRole, Attempted
        <3> QED  BY <2>4, <3>1, <3>2 DEF Granted, RoleHeld, HasRole, Abort, Advance, Stay
    <2> QED  BY <1>2, <2>3, <2>4 DEF Working
<1>3. CASE pc \in {"removeRole", "unroled"} /\ Working
    <2>1. RoleRemoved
        BY <1>3 DEF Working
    <2> QED  BY <2>1 DEF RoleRemoved, Silent, RemovalFailed
<1>4. CASE EntersGuard
    <2>1. CASE RemoveRole
        <3>1. Assignments # {"legacy"} /\ {} # {"legacy"}
            BY GrantsKnown DEF Assignments, Locked
        <3> QED  BY <2>1, <3>1
                 DEF RemoveRole, RoleHeld, Guarding, Retiring, EnterGuard, RemovalFailed, Stay
    <2>2. CASE pc = "retire"
        BY <2>2, OwnedDistinct DEF RoleHeld, HasRole, PlaceOK, Guarding
    <2> QED  BY <1>4, <2>1, <2>2 DEF EntersGuard
<1>5. CASE pc \in Guarding /\ ~Retiring /\ Working
    <2>1. CASE Unguarded
        BY <1>5, <2>1 DEF Unguarded, RemovalFailed
    <2>2. CASE RemoveDefinition
        BY <2>2 DEF RemoveDefinition, RemovalFailed, Stay, RoleHeld
    <2> QED  BY <1>5, <2>1, <2>2 DEF Working, Guarding, Retired
<1>6. CASE GuardNext /\ pc \in Guarding /\ pc' \in Guarding
    <2>1. UNCHANGED members
        BY <1>6
           DEF GuardNext, GuardRead, Suspend, Suspended, Unassign, Unassigned, Restore,
               Restored, guardVars
    <2>2. owned # Owned2 /\ owned # Owned3
        BY <1>6, OwnedDistinct DEF PlaceOK
    <2> QED  BY <1>6, <2>1, <2>2 DEF RoleHeld, HasRole, Retiring, Guarding
<1>7. CASE Outside
    BY <1>7, OutsideStill DEF RoleHeld, HasRole, Retiring, guardVars
<1> QED  BY <1>1, <1>2, <1>3, <1>4, <1>5, <1>6, <1>7, Works DEF RoleHeld, Guarding, Entering, Inside

(* The thing is not there, and no request under way will make it.          *)
Coming(x) == <<x, TRUE>> \in flight
Gone(x)   == ~cloud[x] /\ ~Coming(x)

(* What is there, or under way, was asked for; what is there is not under  *)
(* way as well; and a plan asks for no parts but its own.                  *)
CauseOK ==
    /\ \A x \in Resources, v \in BOOLEAN : <<x, v>> \in flight => asked[<<x, v>>] > 0
    /\ \A x \in Resources \ {"lock", "legacy", "blob"} :
         /\ asked[<<x, TRUE>>] = 0 => Gone(x)
         /\ cloud[x] => ~Coming(x)
    /\ \A x \in (Locked \union {"definition"}) \ Parts : asked[<<x, TRUE>>] = 0

(* What was not asked for is not under way.                                *)
LEMMA Unasked ==
    ASSUME CauseOK, NEW x \in Resources, NEW v \in BOOLEAN, asked[<<x, v>>] = 0
    PROVE  <<x, v>> \notin flight
<1>1. <<x, v>> \in flight => asked[<<x, v>>] > 0
    BY DEF CauseOK
<1> QED  BY <1>1

(* Nothing is there at the start but the lock and the legacy assignment.   *)
LEMMA CauseInit == Init => CauseOK
<1> SUFFICES ASSUME Init PROVE CauseOK
    OBVIOUS
<1>1. \A r \in Requests : asked[r] = 0
    BY DEF Init, CloudInit
<1>2. flight = {} /\ \A x \in Resources \ {"lock", "legacy"} : ~cloud[x]
    BY DEF Init, CloudInit
<1>3. Locked \union {"definition"} \subseteq Resources
    BY DEF Resources
<1> QED  BY <1>1, <1>2, <1>3 DEF CauseOK, Gone, Coming, Requests

(* The types of the cloud before and after a step.                         *)
LEMMA StepTyped ==
    ASSUME SentInv, Next
    PROVE  /\ CloudOK /\ CloudOK'
           /\ \A x \in Resources : cloud[x] \in BOOLEAN /\ cloud'[x] \in BOOLEAN
           /\ \A x \in Resources, v \in BOOLEAN :
                asked[<<x, v>>] \in Nat /\ asked'[<<x, v>>] \in Nat
<1>1. CloudOK /\ CloudOK'
    BY SentStep DEF SentInv
<1> QED  BY <1>1 DEF CloudOK, Requests

(* Every step keeps it.                                                    *)
LEMMA CauseStep ==
    ASSUME SentInv, CauseOK, Next
    PROVE  CauseOK'
<1>0. PlaceOK /\ FactOK /\ GuardOK /\ CloudOK /\ OnceOK
    BY DEF SentInv, Sent, Counted
<1>1. ASSUME NEW x \in Resources, NEW v \in BOOLEAN, <<x, v>> \in flight'
      PROVE  asked'[<<x, v>>] > 0
    <2>1. <<x, v>> \in flight \/ asked'[<<x, v>>] > 0
        BY <1>0, <1>1, StepCloud
    <2>2. asked'[<<x, v>>] >= asked[<<x, v>>]
        BY <1>0, StepCloud
    <2>3. <<x, v>> \in flight => asked[<<x, v>>] > 0
        BY DEF CauseOK
    <2> QED  BY <2>1, <2>2, <2>3, StepTyped
<1>2. ASSUME NEW x \in Resources \ {"lock", "legacy", "blob"}
      PROVE  /\ asked'[<<x, TRUE>>] = 0 => Gone(x)'
             /\ cloud'[x] => ~Coming(x)'
    <2>0. /\ cloud[x] \in BOOLEAN /\ cloud'[x] \in BOOLEAN
          /\ asked[<<x, TRUE>>] \in Nat /\ asked'[<<x, TRUE>>] \in Nat
        BY StepTyped
    <2>1. /\ asked[<<x, TRUE>>] = 0 => Gone(x)
          /\ cloud[x] => ~Coming(x)
        BY DEF CauseOK
    <2>2. CASE asked'[<<x, TRUE>>] = asked[<<x, TRUE>>]
        <3>1. /\ <<x, TRUE>> \in flight' => <<x, TRUE>> \in flight
              /\ cloud'[x] = TRUE /\ cloud[x] # TRUE
                   => <<x, TRUE>> \in flight /\ <<x, TRUE>> \notin flight'
            BY <1>0, <2>2, StepCloud
        <3> QED  BY <2>0, <2>1, <2>2, <3>1 DEF Gone, Coming
    <2>3. CASE asked'[<<x, TRUE>>] # asked[<<x, TRUE>>]
        <3>1. At(x, TRUE)
            BY <1>0, <2>3, StepCloud
        <3>2. Ahead(x, TRUE) /\ Single(x, TRUE)
            BY <1>0, <1>2, <3>1
               DEF At, Ahead, Single, PlaceOK, Entering, ToRule, ToGrant, ToSet, ToOpen, ToScm,
                   ToStart
        <3>3. Gone(x)
            BY <1>0, <2>1, <3>2 DEF OnceOK
        <3>4. /\ asked'[<<x, TRUE>>] >= asked[<<x, TRUE>>]
              /\ <<x, TRUE>> \notin flight /\ cloud[x] # TRUE
                   => ~(cloud'[x] = TRUE /\ <<x, TRUE>> \in flight')
            BY <1>0, StepCloud
        <3>5. asked'[<<x, TRUE>>] # 0
            BY <2>0, <2>3, <3>4
        <3>6. ~(cloud'[x] /\ <<x, TRUE>> \in flight')
            BY <3>3, <3>4 DEF Gone, Coming
        <3> QED  BY <3>5, <3>6 DEF Gone, Coming
    <2> QED  BY <2>2, <2>3
<1>3. ASSUME NEW x \in (Locked \union {"definition"}) \ Parts'
      PROVE  asked'[<<x, TRUE>>] = 0
    <2>1. Parts' = Parts /\ x \in Resources
        BY DEF Next, GuardNext, CanaryNext, Crash, Resume, execVars, Parts, Resources
    <2>2. ~At(x, TRUE)
        BY <1>3, <2>1 DEF At, Locked
    <2>3. asked'[<<x, TRUE>>] = asked[<<x, TRUE>>]
        BY <1>0, <2>1, <2>2, StepCloud
    <2> QED  BY <1>3, <2>1, <2>3 DEF CauseOK
<1> QED  BY <1>1, <1>2, <1>3 DEF CauseOK

(* Every step keeps it.                                                    *)
LEMMA RunStep ==
    ASSUME PlaceOK, RunOK, Next
    PROVE  RunOK'
<1>1. CASE Crash
    BY <1>1 DEF Crash, RunOK, Crashed
<1>2. CASE ~Crash
    BY <1>2, MemoryStays DEF RunOK
<1> QED  BY <1>1, <1>2

(* A step from outside asks for nothing.                                   *)
LEMMA OutsideSilent ==
    ASSUME Outside
    PROVE  asked' = asked
BY DEF Outside, Environment, Land, Expire, Resume, cloudVars

(* What is gone stays so unless it is asked for, and so does what is not   *)
(* under way.                                                              *)
LEMMA GoneStays ==
    ASSUME SentInv, Next, NEW x \in Resources, ~At(x, TRUE) \/ Outside
    PROVE  /\ Gone(x) => Gone(x)'
           /\ Coming(x)' => Coming(x)
           /\ <<x, TRUE>> \in doubt' <=> <<x, TRUE>> \in doubt
           /\ cloud'[x] => cloud[x] \/ Coming(x)
           /\ cloud'[x] /\ ~cloud[x] => ~Coming(x)'
<1>0. cloud[x] \in BOOLEAN /\ cloud'[x] \in BOOLEAN
    BY StepTyped
<1>1. asked'[<<x, TRUE>>] = asked[<<x, TRUE>>]
    BY StepCloud, OutsideSilent DEF SentInv
<1>2. /\ <<x, TRUE>> \in flight' => <<x, TRUE>> \in flight
      /\ cloud'[x] = TRUE /\ cloud[x] # TRUE
           => <<x, TRUE>> \in flight /\ <<x, TRUE>> \notin flight'
      /\ <<x, TRUE>> \in doubt' <=> <<x, TRUE>> \in doubt
    BY <1>1, StepCloud DEF SentInv
<1> QED  BY <1>0, <1>2 DEF Gone, Coming

(* What is there goes away only by its removal, or when the request for it *)
(* lands.                                                                  *)
LEMMA ThereStays ==
    ASSUME SentInv, Next, NEW x \in Resources, ~At(x, FALSE) \/ Outside
    PROVE  /\ <<x, FALSE>> \in flight' => <<x, FALSE>> \in flight
           /\ cloud[x] => cloud'[x] \/ <<x, FALSE>> \in flight
           /\ asked'[<<x, FALSE>>] = asked[<<x, FALSE>>]
<1>0. cloud[x] \in BOOLEAN /\ cloud'[x] \in BOOLEAN
    BY StepTyped
<1>1. asked'[<<x, FALSE>>] = asked[<<x, FALSE>>]
    BY StepCloud, OutsideSilent DEF SentInv
<1>2. /\ <<x, FALSE>> \in flight' => <<x, FALSE>> \in flight
      /\ cloud'[x] = FALSE /\ cloud[x] # FALSE => <<x, FALSE>> \in flight
    BY <1>1, StepCloud DEF SentInv
<1> QED  BY <1>0, <1>1, <1>2

(* The rule.                                                               *)
RuleTruth ==
    /\ Coming("rule") => <<"rule", TRUE>> \in doubt
    /\ i # 0 => <<"rule", TRUE>> \notin doubt
    /\ \/ Crashed \/ ~cloud["rule"] \/ <<"rule", TRUE>> \in doubt
       \/ "rule" \in failed \/ RuleHeld

(* Every step keeps it.                                                    *)
LEMMA RuleStep ==
    ASSUME SentInv, RunOK, RuleTruth, Next
    PROVE  RuleTruth'
<1> USE DEF SentInv
<1>1. "rule" \in Resources /\ <<"rule", TRUE>> \notin Deferred
    BY DEF Resources, Deferred, Locked
<1>2. CASE Crash
    BY <1>2 DEF Crash, RuleTruth, Crashed, cloudVars, Coming
<1>3. CASE ~Crash /\ ~(pc = "rule" /\ AddRule)
    <2>0. ~At("rule", TRUE) \/ Outside
        BY <1>3, GrantsKnown, Works
           DEF At, Working, EntersGuard, Guarding, Entering, Inside, Locked
    <2>1. /\ Coming("rule")' => Coming("rule")
          /\ <<"rule", TRUE>> \in doubt' <=> <<"rule", TRUE>> \in doubt
          /\ cloud'["rule"] => cloud["rule"] \/ Coming("rule")
        BY <1>1, <2>0, GoneStays
    <2>2. /\ failed \subseteq failed'
          /\ i' # 0 => i # 0
          /\ Crashed' <=> Crashed
        BY <1>3, MemoryStays
    <2>3. CASE RuleHeld
        <3>1. RuleHeld' \/ "rule" \in failed' \/ ~cloud'["rule"]
            BY <1>3, <2>3, RuleLeaves DEF Silent, cloudVars
        <3> QED  BY <2>1, <2>2, <3>1 DEF RuleTruth
    <2> QED  BY <2>1, <2>2, <2>3 DEF RuleTruth
<1>4. CASE pc = "rule" /\ AddRule
    <2>1. i = 2 /\ owned = Owned0 /\ ~RuleHeld
        BY <1>4, OwnedDistinct DEF PlaceOK, RuleHeld, HasRule
    <2>2. /\ failed = {} /\ ~Crashed
          /\ ~cloud["rule"] /\ <<"rule", TRUE>> \notin doubt /\ ~Coming("rule")
        BY <2>1 DEF RunOK, RuleTruth
    <2>3. CASE Abort(owned) /\ UNCHANGED cloudVars
        BY <2>2, <2>3 DEF RuleTruth, Abort, cloudVars, Coming
    <2>4. ASSUME NEW a \in Answers, Send("rule", TRUE, a),
                 IF a = "ok" THEN Stay("ruleAdded") ELSE Abort(owned)
          PROVE  RuleTruth'
        <3>1. CASE a = "ok"
            <4>1. flight' = flight /\ doubt' = doubt /\ pc' = "ruleAdded"
                BY <1>1, <2>4, <3>1, SendEffect DEF Stay
            <4> QED  BY <2>2, <4>1 DEF RuleTruth, Coming, RuleHeld
        <3>2. CASE a = "denied"
            <4>1. UNCHANGED <<cloud, flight, doubt>>
                BY <1>1, <2>4, <3>2, SendEffect
            <4> QED  BY <2>2, <2>4, <3>2, <4>1 DEF RuleTruth, Coming, Abort
        <3>3. CASE a = "lost"
            <4>1. <<"rule", TRUE>> \in doubt' /\ i' = 0
                BY <1>1, <2>4, <3>3, SendEffect DEF Abort
            <4> QED  BY <4>1 DEF RuleTruth
        <3> QED  BY <3>1, <3>2, <3>3 DEF Answers
    <2> QED  BY <1>4, <2>3, <2>4 DEF AddRule
<1> QED  BY <1>2, <1>3, <1>4

(* How the plan goes on.                                                   *)
LEMMA PlanSteps ==
    ASSUME PlaceOK, Next, ~Crash
    PROVE  \/ i' = i
           \/ i' = 0
           \/ /\ i' = i + 1
              /\ i = 9 => Configure /\ pc' = "op"
              /\ i = 10 => CanaryEnd /\ Advance(owned)
              /\ i = 11 => Retired /\ Advance(owned)
<1> DEFINE Goes == \/ i' = i
                   \/ i' = 0
                   \/ /\ i' = i + 1
                      /\ i = 9 => Configure /\ pc' = "op"
                      /\ i = 10 => CanaryEnd /\ Advance(owned)
                      /\ i = 11 => Retired /\ Advance(owned)
<1>0. /\ i \in Nat
      /\ pc = "ruleAdded" => i = 2
      /\ pc = "granted" => i = 3
      /\ pc = "blobCreated" => i = 4
      /\ pc = "blobGone" => i \in {0, 6}
      /\ pc = "unroled" => i \in {0, 7}
      /\ pc = "ruleRemoved" => i \in {0, 8}
      /\ pc = "settings" => i = 9
      /\ pc = "canaryEnd" => i = 10
      /\ pc = "guarded" /\ Retiring => i = 11
      /\ pc \in {"restoreSettings", "settingsRestored"} => i = 0
    BY DEF PlaceOK, Inside, Guarding
<1>1. ASSUME Working PROVE Goes
    <2> USE DEF Stay, Advance, Abort, RemovalFailed, Removed, planVars
    <2>1. CASE pc = "op" /\ Operation
        <3>1. i' = i \/ i' = 0 \/ (i' = i + 1 /\ Plan[i] = "permanent")
            BY <2>1 DEF Operation
        <3>2. Plan[9] # "permanent" /\ Plan[10] # "permanent" /\ Plan[11] # "permanent"
            BY PlanAt
        <3> QED  BY ONLY <3>1, <3>2
    <2>2. CASE AddRule \/ RemoveRule \/ Grant \/ Unguarded \/ RemoveDefinition
        BY <2>2 DEF AddRule, RemoveRule, Grant, Unguarded, RemoveDefinition
    <2>3. CASE \/ pc = "ruleAdded" /\ RuleAdded
               \/ pc = "ruleRemoved" /\ RuleRemoved
               \/ pc = "granted" /\ Granted
               \/ pc = "unroled" /\ RoleRemoved
        BY <1>0, <2>3 DEF RuleAdded, RuleRemoved, Granted, RoleRemoved
    <2>4. CASE pc = "guarded" /\ Retired
        <3>1. i = 11
            BY <1>0, <2>4 DEF Retired
        <3> QED  BY <2>4, <3>1 DEF Retired
    <2>5. CASE CreateBlob \/ SettleBlob \/ DeleteBlob
        BY <2>5 DEF CreateBlob, SettleBlob, DeleteBlob, BlobFailed
    <2>6. CASE \/ pc = "blobCreated" /\ BlobCreated
               \/ pc = "blobGone" /\ BlobGone
        BY <1>0, <2>6 DEF BlobCreated, BlobGone, BlobFailed
    <2>7. CASE pc = "settings" /\ Configure
        <3>1. i' = 0 \/ (i' = i + 1 /\ pc' = "op" /\ i = 9)
            BY <1>0, <2>7 DEF Configure
        <3> QED  BY <2>7, <3>1
    <2>8. CASE \/ RestoreStop
               \/ AwaitStop
               \/ pc = "restoreSettings" /\ RestoreSettings
               \/ pc = "settingsRestored" /\ SettingsRestored
        BY <1>0, <2>8 DEF RestoreStop, AwaitStop, RestoreSettings, SettingsRestored
    <2>9. CASE pc = "canaryEnd" /\ CanaryEnd
        <3>1. i = 10
            BY <1>0, <2>9
        <3>2. Advance(owned) \/ Abort(owned)
            BY <2>9 DEF CanaryEnd
        <3> QED  BY <2>9, <3>1, <3>2
    <2>10. CASE Finalize \/ Assemble \/ Compensate
        BY <2>10 DEF Finalize, Assemble, Compensate
    <2> QED  BY <1>1, <2>1, <2>2, <2>3, <2>4, <2>5, <2>6, <2>7, <2>8, <2>9, <2>10 DEF Working
<1>2. CASE EntersGuard
    BY <1>2 DEF EntersGuard, RemoveRole, Retire, Stay, Abort, RemovalFailed, planVars
<1>3. CASE Outside
    BY <1>3, OutsideStill
<1>4. CASE UNCHANGED execVars
    BY <1>4 DEF execVars, planVars
<1> QED  BY <1>1, <1>2, <1>3, <1>4, Works

(* The evidence files stay.                                                *)
LEMMA FilesStay ==
    ASSUME MemoryOK, Next
    PROVE  files > 0 => files' > 0
<1>1. files \in Nat
    BY DEF MemoryOK
<1>2. files' = files \/ files' = 1 \/ files' = files + 1
    <2>1. CASE Finalize \/ Assemble \/ Compensate \/ Crash \/ Resume
        BY <2>1 DEF Finalize, Assemble, Compensate, Crash, Resume
    <2>2. CASE ExecStep /\ ~(Finalize \/ Assemble \/ Compensate)
        BY <2>2
           DEF ExecStep, Operation, AddRule, RuleAdded, Grant, Granted, Unguarded, Retired,
               RemoveDefinition, RoleRemoved, CreateBlob, BlobCreated, SettleBlob,
               DeleteBlob, BlobGone, RemoveRule, RuleRemoved, Configure, RestoreStop,
               AwaitStop, RestoreSettings, SettingsRestored, CanaryEnd, endVars
    <2>3. CASE RemoveRole \/ Retire \/ UNCHANGED execVars
        BY <2>3 DEF RemoveRole, Retire, endVars, execVars
    <2> QED  BY <2>1, <2>2, <2>3 DEF Next
<1> QED  BY <1>1, <1>2

(* The settings.                                                           *)
SettingsTruth ==
    /\ Coming("settings") => <<"settings", TRUE>> \in doubt
    /\ i # 0 => <<"settings", TRUE>> \notin doubt /\ asked[<<"settings", FALSE>>] = 0
    /\ \/ Crashed \/ ~cloud["settings"] \/ <<"settings", TRUE>> \in doubt
       \/ "settings" \in failed \/ SettingsHeld \/ files > 0
    /\ i \in 10 .. 13 => cloud["settings"]

(* Every step keeps it.                                                    *)
LEMMA SettingsStep ==
    ASSUME SentInv, RunOK, CauseOK, SettingsTruth, Next
    PROVE  SettingsTruth'
<1> USE DEF SentInv
<1>1. "settings" \in Resources /\ <<"settings", TRUE>> \notin Deferred
    BY DEF Resources, Deferred, Locked
<1>2. CASE Crash
    BY <1>2 DEF Crash, SettingsTruth, Crashed, cloudVars, Coming
<1>3. CASE ~Crash /\ ~(pc = "settings" /\ Configure)
    <2>0. ~At("settings", TRUE) \/ Outside
        BY <1>3, GrantsKnown, Works
           DEF At, Working, EntersGuard, Guarding, Entering, Inside, Locked
    <2>1. /\ Coming("settings")' => Coming("settings")
          /\ <<"settings", TRUE>> \in doubt' <=> <<"settings", TRUE>> \in doubt
          /\ cloud'["settings"] => cloud["settings"] \/ Coming("settings")
        BY <1>1, <2>0, GoneStays
    <2>2. /\ failed \subseteq failed'
          /\ i' # 0 => i # 0
          /\ Crashed' <=> Crashed
          /\ files > 0 => files' > 0
        BY <1>3, MemoryStays, FilesStay
    <2>3. \/ Crashed' \/ ~cloud'["settings"] \/ <<"settings", TRUE>> \in doubt'
          \/ "settings" \in failed' \/ SettingsHeld' \/ files' > 0
        <3>1. CASE SettingsHeld
            <4>1. \/ SettingsHeld' \/ "settings" \in failed' \/ files' > 0
                  \/ ~cloud'["settings"]
                BY <1>3, <3>1, SettingsLeaves DEF Silent, cloudVars
            <4> QED  BY <4>1
        <3>2. CASE ~SettingsHeld
            BY <2>1, <2>2, <3>2 DEF SettingsTruth
        <3> QED  BY <3>1, <3>2
    <2>4. i' # 0 => ~At("settings", FALSE) \/ Outside
        <3>1. At("settings", FALSE) => pc = "restoreSettings"
            BY DEF At, Locked
        <3>2. pc = "restoreSettings" => i = 0
            BY DEF PlaceOK
        <3> QED  BY <2>2, <3>1, <3>2
    <2>5. /\ i' # 0 => <<"settings", TRUE>> \notin doubt' /\ asked'[<<"settings", FALSE>>] = 0
        BY <1>1, <2>1, <2>2, <2>4, ThereStays DEF SettingsTruth
    <2>6. i' \in 10 .. 13 => cloud'["settings"]
        <3> SUFFICES ASSUME i' \in 10 .. 13 PROVE cloud'["settings"]
            OBVIOUS
        <3>1. i \in 0 .. 13 /\ (i = 9 => ~(i' = i + 1))
            <4>1. i \in 0 .. 13
                BY DEF PlaceOK
            <4>2. i = 9 /\ i' = i + 1 => Configure
                BY <1>3, <4>1, PlanSteps
            <4>3. Configure => pc = "settings"
                BY DEF Configure
            <4> QED  BY <1>3, <4>1, <4>2, <4>3
        <3>2. i' = i \/ i' = i + 1
            BY <1>3, PlanSteps
        <3>3. i \in 10 .. 13
            BY <3>1, <3>2
        <3>4. asked[<<"settings", FALSE>>] = 0 /\ cloud["settings"]
            BY <3>3 DEF SettingsTruth
        <3>5. <<"settings", FALSE>> \notin flight
            BY <1>1, <3>4, Unasked
        <3>6. i' # 0
            OBVIOUS
        <3>7. ~At("settings", FALSE) \/ Outside
            BY <2>4, <3>6, Zenon
        <3> QED  BY <1>1, <3>4, <3>5, <3>7, ThereStays
    <2> QED  BY <2>1, <2>3, <2>5, <2>6 DEF SettingsTruth
<1>4. CASE pc = "settings" /\ Configure
    <2>1. i = 9 /\ Append(owned, "settings") = OwnedS
        BY <1>4, OwnedAppend DEF PlaceOK
    <2>2. /\ <<"settings", TRUE>> \notin doubt /\ ~Coming("settings")
          /\ asked[<<"settings", FALSE>>] = 0
        BY <2>1 DEF SettingsTruth
    <2>3. CASE Abort(owned) /\ UNCHANGED cloudVars
        <3>1. \/ ~cloud["settings"] \/ "settings" \in failed \/ SettingsHeld \/ files > 0
              \/ Crashed
            BY <2>2 DEF SettingsTruth
        <3>2. ~SettingsHeld
            BY <1>4, <2>1, OwnedDistinct DEF SettingsHeld, PlaceOK
        <3> QED  BY <1>4, <2>2, <2>3, <3>1, <3>2
                 DEF SettingsTruth, Abort, cloudVars, Coming, Configure, endVars, Crashed
    <2>4. ASSUME NEW a \in Answers, Send("settings", TRUE, a),
                 \/ a = "ok" /\ Advance(Append(owned, "settings"))
                 \/ Abort(Append(owned, "settings"))
          PROVE  SettingsTruth'
        <3>1. SettingsHeld'
            BY <2>1, <2>4 DEF SettingsHeld, Advance, Abort
        <3>2. <<"settings", FALSE>> \in Requests \ {<<"settings", TRUE>>}
            BY <1>1 DEF Requests
        <3>3. asked'[<<"settings", FALSE>>] = 0
            BY <1>1, <2>2, <2>4, <3>2, SendEffect
        <3>4. CASE a = "lost"
            <4>1. <<"settings", TRUE>> \in doubt' /\ i' = 0
                BY <1>1, <2>4, <3>4, SendEffect DEF Abort
            <4> QED  BY <3>1, <4>1 DEF SettingsTruth
        <3>5. CASE a # "lost"
            <4>1. doubt' = doubt /\ flight' = flight
                BY <1>1, <2>4, <3>5, SendEffect DEF Answers
            <4>2. i' # 0 => cloud'["settings"]
                BY <1>1, <2>4, SendEffect DEF Abort
            <4> QED  BY <2>2, <3>1, <3>3, <4>1, <4>2 DEF SettingsTruth, Coming
        <3> QED  BY <3>4, <3>5
    <2> QED  BY <1>4, <2>3, <2>4 DEF Configure
<1> QED  BY <1>2, <1>3, <1>4

(* The blob.                                                               *)
BlobTruth ==
    /\ cloud["blob"] => ~Coming("blob")
    /\ Crashed \/ tag # "known" \/ ~Coming("blob")
    /\ Crashed \/ Gone("blob") \/ "blob" \in failed \/ BlobHeld
    /\ pc \in {"deleteBlob", "blobGone"} => ~Coming("blob")

(* Its ETag becomes known from its creation or by reading it, and it is    *)
(* deleted, or taken for gone, when it is known or settled.                *)
LEMMA BlobKnown ==
    ASSUME PlaceOK, Next, ~Crash, ~CreateBlob
    PROVE  /\ tag' = tag \/ (tag' = "known" /\ cloud["blob"])
           /\ pc' \in {"deleteBlob", "blobGone"} =>
                \/ pc \in {"deleteBlob", "blobGone"}
                \/ tag = "known"
                \/ cloud["blob"]
                \/ ~Coming("blob")
<1> DEFINE Known == /\ tag' = tag \/ (tag' = "known" /\ cloud["blob"])
                    /\ pc' \in {"deleteBlob", "blobGone"} =>
                         \/ pc \in {"deleteBlob", "blobGone"}
                         \/ tag = "known"
                         \/ cloud["blob"]
                         \/ ~Coming("blob")
<1>1. ASSUME Working PROVE Known
    <2> USE DEF Stay, Advance, Abort, RemovalFailed, Removed, planVars, grantVars
    <2>1. CASE SettleBlob \/ BlobCreated
        BY <2>1 DEF SettleBlob, BlobCreated, BlobFailed, Settled, Coming
    <2>2. CASE (pc = "deleteBlob" /\ DeleteBlob) \/ (pc = "blobGone" /\ BlobGone)
        BY <2>2 DEF DeleteBlob, BlobGone
    <2>3. CASE AddRule \/ RuleAdded \/ RemoveRule \/ RuleRemoved \/ Grant \/ Granted
        BY <2>3 DEF AddRule, RuleAdded, RemoveRule, RuleRemoved, Grant, Granted
    <2>4. CASE Unguarded \/ Retired \/ RemoveDefinition \/ RoleRemoved
        BY <2>4 DEF Unguarded, Retired, RemoveDefinition, RoleRemoved
    <2>5. CASE Configure \/ RestoreStop \/ AwaitStop \/ RestoreSettings \/ SettingsRestored
        BY <2>5 DEF Configure, RestoreStop, AwaitStop, RestoreSettings, SettingsRestored
    <2>6. CASE CanaryEnd \/ Finalize \/ Assemble
        BY <2>6 DEF CanaryEnd, Finalize, Assemble
    <2>7. CASE pc = "op" /\ Operation
        <3>1. i \in 1 .. 12 /\ UNCHANGED tag
            BY <2>7, PlanAt DEF Operation, PlaceOK
        <3>2. pc' \notin {"deleteBlob", "blobGone"}
            <4>1. CASE /\ Plan[i] \in DOMAIN OwnerOf
                       /\ owned' = Without(owned, OwnerOf[Plan[i]])
                       /\ pc' = Remove(OwnerOf[Plan[i]])
                BY <2>7, <3>1, <4>1, OperationRemoves
            <4>2. CASE pc' \in {"op", "compensate"} \union Owners \union {"canary", "retire"}
                BY <4>2 DEF Owners
            <4> QED  BY <2>7, <4>1, <4>2 DEF Operation
        <3> QED  BY <3>1, <3>2
    <2>8. CASE pc = "compensate" /\ Compensate
        <3>1. pc' \notin {"deleteBlob", "blobGone"} /\ UNCHANGED tag
            BY <2>8, CompensateMoves DEF Compensate
        <3> QED  BY <3>1
    <2> QED  BY <1>1, <2>1, <2>2, <2>3, <2>4, <2>5, <2>6, <2>7, <2>8 DEF Working
<1>2. CASE EntersGuard
    BY <1>2 DEF EntersGuard, RemoveRole, Retire, Stay, Abort, RemovalFailed, grantVars
<1>3. CASE Outside
    BY <1>3, OutsideStill
<1>4. CASE GuardNext /\ UNCHANGED execVars /\ pc' \in Guarding
    BY <1>4 DEF execVars, grantVars, Guarding
<1>5. CASE CanaryNext /\ UNCHANGED execVars
    <2>1. pc' \notin {"deleteBlob", "blobGone"}
        BY <1>5, CanaryMoves DEF CanaryMove, Entering, Inside
    <2> QED  BY <1>5, <2>1 DEF execVars, grantVars
<1> QED  BY <1>1, <1>2, <1>3, <1>4, <1>5, Works

(* Every step keeps it.                                                    *)
LEMMA BlobStep ==
    ASSUME SentInv, RunOK, BlobTruth, Next
    PROVE  BlobTruth'
<1> USE DEF SentInv
<1>1. "blob" \in Resources /\ <<"blob", TRUE>> \notin Deferred
    BY DEF Resources, Deferred, Locked
<1>2. CASE Crash
    BY <1>2 DEF Crash, BlobTruth, Crashed, cloudVars, Coming
<1>3. CASE ~Crash /\ ~CreateBlob
    <2>0. ~At("blob", TRUE) \/ Outside
        BY <1>3, GrantsKnown, Works
           DEF At, Working, EntersGuard, Guarding, Entering, Inside, Locked
    <2>1. /\ Gone("blob") => Gone("blob")'
          /\ Coming("blob")' => Coming("blob")
          /\ cloud'["blob"] => cloud["blob"] \/ ~Coming("blob")'
        BY <1>1, <2>0, GoneStays
    <2>2. /\ failed \subseteq failed'
          /\ Crashed' <=> Crashed
          /\ Crashed => pc' = "end"
        BY <1>3, MemoryStays DEF RunOK
    <2>3. /\ tag' = tag \/ (tag' = "known" /\ cloud["blob"])
          /\ pc' \in {"deleteBlob", "blobGone"} =>
                \/ pc \in {"deleteBlob", "blobGone"}
                \/ tag = "known"
                \/ cloud["blob"]
                \/ ~Coming("blob")
        BY <1>3, BlobKnown
    <2>4. Crashed' \/ Gone("blob")' \/ "blob" \in failed' \/ BlobHeld'
        <3>1. CASE BlobHeld
            <4>1. \/ BlobHeld' \/ "blob" \in failed'
                  \/ ~cloud'["blob"] /\ pc = "blobGone"
                BY <1>3, <3>1, BlobLeaves DEF Silent, cloudVars
            <4> QED  BY <2>1, <4>1 DEF BlobTruth, Gone, Coming
        <3>2. CASE ~BlobHeld
            BY <2>1, <2>2, <3>2 DEF BlobTruth
        <3> QED  BY <3>1, <3>2
    <2>5. Crashed' \/ tag' # "known" \/ ~Coming("blob")'
        BY <2>1, <2>2, <2>3 DEF BlobTruth
    <2>6. pc' \in {"deleteBlob", "blobGone"} => ~Coming("blob")'
        BY <2>1, <2>2, <2>3 DEF BlobTruth
    <2>7. cloud'["blob"] => ~Coming("blob")'
        BY <2>1 DEF BlobTruth
    <2> QED  BY <2>4, <2>5, <2>6, <2>7 DEF BlobTruth
<1>4. CASE CreateBlob
    <2>1. pc = "blob" /\ i = 4 /\ ~BlobHeld
        BY <1>4, OwnedDistinct DEF CreateBlob, BlobHeld, PlaceOK
    <2>2. failed = {} /\ ~Crashed /\ Gone("blob")
        BY <2>1 DEF RunOK, BlobTruth
    <2>3. CASE Abort(owned) /\ UNCHANGED <<cloudVars, tag>>
        BY <2>2, <2>3 DEF BlobTruth, Abort, cloudVars, Coming, Gone
    <2>4. ASSUME NEW a \in Answers, Send("blob", TRUE, a),
                 tag' = [ok |-> "known", denied |-> "none", lost |-> "unknown"][a],
                 \/ a = "denied" /\ Stay("blob")
                 \/ a = "denied" /\ Abort(owned)
                 \/ a # "denied" /\ Stay("blobCreated")
          PROVE  BlobTruth'
        <3>1. CASE a = "ok"
            <4>1. flight' = flight /\ pc' = "blobCreated"
                BY <1>1, <2>4, <3>1, SendEffect DEF Stay
            <4> QED  BY <2>2, <4>1 DEF BlobTruth, Gone, Coming, BlobHeld
        <3>2. CASE a = "denied"
            <4>1. UNCHANGED <<cloud, flight>>
                BY <1>1, <2>4, <3>2, SendEffect
            <4>2. Gone("blob")' /\ ~Coming("blob")'
                BY <2>2, <4>1 DEF Gone, Coming
            <4> QED  BY <4>2 DEF BlobTruth, Gone
        <3>3. CASE a = "lost"
            <4>1. pc' = "blobCreated" /\ tag' = "unknown"
                BY <2>4, <3>3 DEF Stay
            <4>2. Coming("blob")' => cloud'["blob"] = cloud["blob"]
                BY <1>1, <2>2, <2>4, SendEffect DEF Coming, Gone
            <4> QED  BY <2>2, <4>1, <4>2 DEF BlobTruth, BlobHeld, Gone
        <3> QED  BY <3>1, <3>2, <3>3 DEF Answers
    <2> QED  BY <1>4, <2>3, <2>4 DEF CreateBlob
<1> QED  BY <1>2, <1>3, <1>4

(* The role: what is recorded of its parts is true; it is gone, reported,  *)
(* or still held; and once its removal has begun none of it is under way.  *)
Unrolling == pc = "unroled" \/ (pc \in Guarding /\ ~Retiring)
RoleTruth ==
    /\ Crashed \/ \A x \in Parts : /\ fact[x] # "ambiguous" => ~Coming(x)
                                   /\ fact[x] = "none" => ~cloud[x]
    /\ Crashed \/ (\A x \in Parts : Gone(x)) \/ "role" \in failed \/ RoleHeld
    /\ Unrolling => \A x \in Parts : ~Coming(x)

(* The record changes with a creation, with its readback, and in a crash.  *)
LEMMA FactSteps ==
    ASSUME FactOK, Next, ~Crash, ~Grant
    PROVE  \A x \in Parts : fact'[x] = fact[x] \/ (fact'[x] = "exact" /\ fact[x] = "created")
<1>1. fact' = fact \/ Granted
    <2>1. CASE ExecStep /\ ~Granted
        BY <2>1
           DEF ExecStep, Operation, AddRule, RuleAdded, Unguarded, Retired,
               RemoveDefinition, RoleRemoved, CreateBlob, BlobCreated, SettleBlob,
               DeleteBlob, BlobGone, RemoveRule, RuleRemoved, Configure, RestoreStop,
               AwaitStop, RestoreSettings, SettingsRestored, CanaryEnd, Finalize, Assemble,
               Compensate, grantVars
    <2>2. CASE RemoveRole \/ Retire \/ Resume \/ UNCHANGED execVars
        BY <2>2 DEF RemoveRole, Retire, Resume, grantVars, execVars
    <2> QED  BY <2>1, <2>2 DEF Next
<1>2. CASE Granted
    BY <1>2, GrantsKnown DEF Granted, FactOK
<1> QED  BY <1>1, <1>2

(* The removal begins with a readback of what is not known.                *)
LEMMA Unrolls ==
    ASSUME PlaceOK, FactOK, Next, ~Crash, Unrolling'
    PROVE  \/ Unrolling
           \/ RemoveRole /\ \A x \in Pending : cloud[x] \/ Settled(x)
<1> USE DEF Unrolling, Retiring
<1>1. CASE Working /\ UNCHANGED guardVars
    <2> USE DEF Stay, Advance, Abort, RemovalFailed, Removed
    <2>0. UNCHANGED members
        BY <1>1 DEF guardVars
    <2>1. CASE AddRule \/ RuleAdded \/ RemoveRule \/ RuleRemoved \/ Grant \/ Granted
        BY <2>0, <2>1 DEF AddRule, RuleAdded, RemoveRule, RuleRemoved, Grant, Granted, Guarding
    <2>2. CASE Unguarded \/ Retired \/ RemoveDefinition \/ RoleRemoved
        BY <2>0, <2>2 DEF Unguarded, Retired, RemoveDefinition, RoleRemoved, Guarding
    <2>3. CASE Configure \/ RestoreStop \/ AwaitStop \/ RestoreSettings \/ SettingsRestored
        BY <2>0, <2>3
           DEF Configure, RestoreStop, AwaitStop, RestoreSettings, SettingsRestored, Guarding
    <2>4. CASE CanaryEnd \/ Finalize \/ Assemble
        BY <2>0, <2>4 DEF CanaryEnd, Finalize, Assemble, Guarding
    <2>5. CASE CreateBlob \/ BlobCreated \/ SettleBlob \/ DeleteBlob \/ BlobGone
        BY <2>0, <2>5
           DEF CreateBlob, BlobCreated, SettleBlob, DeleteBlob, BlobGone, BlobFailed, Guarding
    <2>6. CASE pc = "op" /\ Operation
        <3>1. i \in 1 .. 12
            BY <2>6, PlanAt DEF Operation, PlaceOK
        <3>2. pc' \notin Guarding \union {"unroled"}
            <4>1. CASE /\ Plan[i] \in DOMAIN OwnerOf
                       /\ owned' = Without(owned, OwnerOf[Plan[i]])
                       /\ pc' = Remove(OwnerOf[Plan[i]])
                BY <2>6, <3>1, <4>1, OperationRemoves DEF Guarding
            <4>2. CASE pc' \in {"op", "compensate"} \union Owners \union {"canary", "retire"}
                BY <4>2 DEF Owners, Guarding
            <4> QED  BY <2>6, <4>1, <4>2 DEF Operation
        <3> QED  BY <3>2
    <2>7. CASE pc = "compensate" /\ Compensate
        <3>1. pc' \notin Guarding \union {"unroled"}
            BY <2>7, CompensateMoves DEF Compensate, Guarding
        <3> QED  BY <3>1
    <2> QED  BY <1>1, <2>1, <2>2, <2>3, <2>4, <2>5, <2>6, <2>7 DEF Working
<1>2. CASE EntersGuard
    <2>1. CASE RemoveRole
        BY <2>1 DEF RemoveRole, RemovalFailed, Guarding
    <2>2. CASE Retire
        BY <2>2 DEF Retire, EnterGuard, Abort, Stay, Guarding
    <2> QED  BY <1>2, <2>1, <2>2 DEF EntersGuard
<1>3. CASE Outside
    BY <1>3, OutsideStill DEF guardVars
<1>4. CASE GuardNext /\ pc \in Guarding /\ pc' \in Guarding
    BY <1>4
       DEF GuardNext, GuardRead, Suspend, Suspended, Unassign, Unassigned, Restore,
           Restored, guardVars, Guarding
<1>5. CASE CanaryNext
    BY <1>5, CanaryMoves DEF CanaryMove, Entering, Inside, Guarding
<1> QED  BY <1>1, <1>2, <1>3, <1>4, <1>5, Works

(* The parts of a role phase do not change.                                *)
LEMMA PartsStay ==
    ASSUME FactOK, Next
    PROVE  /\ Parts' = Parts
           /\ \A x \in Parts : x \in Resources \ {"lock", "legacy", "blob"}
<1>1. role' = role
    BY DEF Next, GuardNext, CanaryNext, Crash, Resume, execVars
<1> QED  BY <1>1, GrantsKnown DEF Parts

(* Every step keeps it.                                                    *)
LEMMA RoleStep ==
    ASSUME SentInv, RunOK, CauseOK, RoleTruth, Next
    PROVE  RoleTruth'
<1> USE DEF SentInv
<1>1. /\ Parts' = Parts
      /\ \A x \in Parts : x \in Resources \ {"lock", "legacy", "blob"}
    BY PartsStay
<1>2. CASE Crash
    BY <1>2 DEF Crash, RoleTruth, Crashed, Unrolling, Guarding
<1>3. CASE ~Crash /\ ~Grant
    <2>0. ASSUME NEW x \in Parts PROVE ~At(x, TRUE) \/ Outside
        <3>1. At(x, TRUE) => pc = "role"
            BY GrantsKnown DEF At, Locked
        <3>2. pc = "role" => Outside
            BY <1>3, Works DEF Working, EntersGuard, Guarding, Entering, Inside
        <3> QED  BY <3>1, <3>2
    <2>1. ASSUME NEW x \in Parts
          PROVE  /\ Gone(x) => Gone(x)'
                 /\ Coming(x)' => Coming(x)
                 /\ cloud'[x] => cloud[x] \/ Coming(x)
        BY <1>1, <2>0, GoneStays
    <2>2. /\ failed \subseteq failed'
          /\ Crashed' <=> Crashed
          /\ Crashed => pc = "end"
        BY <1>3, MemoryStays DEF RunOK
    <2>3. Crashed' \/ \A x \in Parts : /\ fact'[x] # "ambiguous" => ~Coming(x)'
                                       /\ fact'[x] = "none" => ~cloud'[x]
        <3> SUFFICES ASSUME ~Crashed', NEW x \in Parts
                     PROVE  /\ fact'[x] # "ambiguous" => ~Coming(x)'
                            /\ fact'[x] = "none" => ~cloud'[x]
            OBVIOUS
        <3>1. fact'[x] = fact[x] \/ (fact'[x] = "exact" /\ fact[x] = "created")
            BY <1>3, FactSteps
        <3>2. /\ fact[x] # "ambiguous" => ~Coming(x)
              /\ fact[x] = "none" => ~cloud[x]
            BY <2>2 DEF RoleTruth
        <3> QED  BY <2>1, <3>1, <3>2
    <2>4. Crashed' \/ (\A x \in Parts : Gone(x)') \/ "role" \in failed' \/ RoleHeld'
        <3>1. CASE RoleHeld
            <4>1. \/ RoleHeld' \/ "role" \in failed'
                  \/ pc = "unroled" /\ \A x \in Parts : ~cloud'[x]
                  \/ \A x \in Parts : fact'[x] = "none"
                BY <1>3, <3>1, RoleLeaves DEF Silent, cloudVars
            <4>2. pc = "unroled" => \A x \in Parts : ~Coming(x)'
                BY <2>1 DEF RoleTruth, Unrolling
            <4> QED  BY <2>3, <4>1, <4>2 DEF Gone
        <3>2. CASE ~RoleHeld
            BY <2>1, <2>2, <3>2 DEF RoleTruth
        <3> QED  BY <3>1, <3>2
    <2>5. Unrolling' => \A x \in Parts : ~Coming(x)'
        <3> SUFFICES ASSUME Unrolling', NEW x \in Parts PROVE ~Coming(x)'
            OBVIOUS
        <3>1. CASE Unrolling
            BY <2>1, <3>1 DEF RoleTruth
        <3>2. CASE RemoveRole /\ \A y \in Pending : cloud[y] \/ Settled(y)
            <4>1. fact[x] # "ambiguous" => ~Coming(x)
                BY <2>2, <3>2 DEF RoleTruth, RemoveRole
            <4>2. cloud[x] => ~Coming(x)
                BY <1>1 DEF CauseOK
            <4>3. Settled(x) => ~Coming(x)
                BY DEF Settled, Coming
            <4>4. fact[x] = "ambiguous" => x \in Pending
                BY DEF Pending
            <4> QED  BY <2>1, <3>2, <4>1, <4>2, <4>3, <4>4
        <3> QED  BY <1>3, <3>1, <3>2, Unrolls
    <2> QED  BY <1>1, <2>3, <2>4, <2>5 DEF RoleTruth
<1>4. CASE Grant
    <2>1. pc = "role" /\ i = 3 /\ ~Crash
        BY <1>4 DEF Grant, PlaceOK, Crash, Abort, Stay
    <2>2. RoleHeld /\ ~Crashed /\ ~Unrolling'
        BY <1>4, <2>1 DEF RoleHeld, RunOK, Grant, Abort, Stay, Unrolling, Guarding
    <2>3. \A x \in Parts : /\ fact'[x] # "ambiguous" => ~Coming(x)'
                           /\ fact'[x] = "none" => ~cloud'[x]
        <3>0. \A x \in Parts : /\ fact[x] # "ambiguous" => ~Coming(x)
                               /\ fact[x] = "none" => ~cloud[x]
            BY <2>2 DEF RoleTruth
        <3>1. CASE UNCHANGED <<cloudVars, fact>>
            BY <3>0, <3>1 DEF cloudVars, Coming
        <3>2. ASSUME NEW x \in Parts, NEW a \in Answers, IsNext(x), ~cloud[x],
                     Send(x, TRUE, a),
                     fact' = [fact EXCEPT ![x] =
                          [ok |-> "created", denied |-> "none", lost |-> "ambiguous"][a]],
                     NEW y \in Parts
              PROVE  /\ fact'[y] # "ambiguous" => ~Coming(y)'
                     /\ fact'[y] = "none" => ~cloud'[y]
            <4>1. x \in Resources /\ y \in Resources /\ x \in DOMAIN fact /\ y \in DOMAIN fact
                BY <1>1, GrantsKnown DEF FactOK
            <4>2. CASE y # x
                <5>1. fact'[y] = fact[y] /\ cloud'[y] = cloud[y]
                    BY <3>2, <4>1, <4>2, SendEffect
                <5>2. <<y, TRUE>> \in Requests \ {<<x, TRUE>>}
                    BY <4>1, <4>2 DEF Requests
                <5>3. Coming(y)' => Coming(y)
                    BY <3>2, <4>1, <5>2, SendEffect DEF Coming
                <5> QED  BY <3>0, <5>1, <5>3
            <4>3. CASE y = x
                <5>1. fact[x] = "none" /\ ~Coming(x)
                    BY <3>0, <3>2 DEF IsNext
                <5>2. <<x, TRUE>> \notin Deferred
                    BY GrantsKnown DEF Deferred, Locked
                <5>3. CASE a = "ok"
                    <6>1. flight' = flight /\ fact'[x] = "created"
                        BY <3>2, <4>1, <5>2, <5>3, SendEffect
                    <6> QED  BY <4>3, <5>1, <6>1 DEF Coming
                <5>4. CASE a = "denied"
                    <6>1. UNCHANGED <<cloud, flight>>
                        BY <3>2, <4>1, <5>4, SendEffect
                    <6> QED  BY <3>2, <4>3, <5>1, <6>1 DEF Coming
                <5>5. CASE a = "lost"
                    BY <3>2, <4>1, <4>3, <5>5
                <5> QED  BY <3>2, <5>3, <5>4, <5>5 DEF Answers
            <4> QED  BY <4>2, <4>3
        <3> QED  BY <1>4, <3>1, <3>2 DEF Grant
    <2>4. (\A x \in Parts : Gone(x)') \/ "role" \in failed' \/ RoleHeld'
        <3>1. \/ RoleHeld' \/ "role" \in failed'
              \/ \A x \in Parts : fact'[x] = "none"
            BY <2>1, <2>2, RoleLeaves
        <3> QED  BY <2>3, <3>1 DEF Gone
    <2> QED  BY <1>1, <2>2, <2>3, <2>4 DEF RoleTruth
<1> QED  BY <1>2, <1>3, <1>4

(* The lock.                                                               *)
LockTruth ==
    /\ pc = "guarded" => cloud["lock"]
    /\ \/ Crashed
       \/ Retiring
       \/ "role" \in failed
       \/ pc \in Guarding
       \/ cloud["lock"] /\ ~Dropping
    /\ i \in 12 .. 13 => cloud["lock"] /\ ~Dropping /\ ~cloud["legacy"]

(* The lock stays wherever it is not suspended.                            *)
LEMMA LockStays ==
    ASSUME SentInv, Next, pc # "suspend", cloud["lock"], ~Dropping
    PROVE  cloud'["lock"] /\ ~Dropping'
<1>1. "lock" \in Resources /\ ~At("lock", FALSE)
    BY DEF Resources, At, Locked
<1> QED  BY <1>1, ThereStays DEF Dropping

(* A guarded section is entered, and left, with the lock read present.     *)
LEMMA GuardedLock ==
    ASSUME Next, ~Crash, pc' = "guarded", PlaceOK
    PROVE  (Outside /\ pc = "guarded") \/ (cloud["lock"] /\ Silent)
<1>1. CASE Working
    <2> USE DEF Stay, Advance, Abort, RemovalFailed, Removed
    <2>1. CASE AddRule \/ RuleAdded \/ RemoveRule \/ RuleRemoved \/ Grant \/ Granted
        BY <2>1 DEF AddRule, RuleAdded, RemoveRule, RuleRemoved, Grant, Granted
    <2>2. CASE Unguarded \/ Retired \/ RemoveDefinition \/ RoleRemoved
        BY <2>2 DEF Unguarded, Retired, RemoveDefinition, RoleRemoved
    <2>3. CASE Configure \/ RestoreStop \/ AwaitStop \/ RestoreSettings \/ SettingsRestored
        BY <2>3 DEF Configure, RestoreStop, AwaitStop, RestoreSettings, SettingsRestored
    <2>4. CASE CanaryEnd \/ Finalize \/ Assemble
        BY <2>4 DEF CanaryEnd, Finalize, Assemble
    <2>5. CASE CreateBlob \/ BlobCreated \/ SettleBlob \/ DeleteBlob \/ BlobGone
        BY <2>5 DEF CreateBlob, BlobCreated, SettleBlob, DeleteBlob, BlobGone, BlobFailed
    <2>6. CASE pc = "op" /\ Operation
        <3>1. i \in 1 .. 12
            BY <2>6, PlanAt DEF Operation, PlaceOK
        <3>2. CASE /\ Plan[i] \in DOMAIN OwnerOf
                   /\ owned' = Without(owned, OwnerOf[Plan[i]])
                   /\ pc' = Remove(OwnerOf[Plan[i]])
            BY <2>6, <3>1, <3>2, OperationRemoves
        <3>3. CASE pc' \in {"op", "compensate"} \union Owners \union {"canary", "retire"}
            BY <3>3 DEF Owners
        <3> QED  BY <2>6, <3>2, <3>3 DEF Operation
    <2>7. CASE pc = "compensate" /\ Compensate
        BY <2>7, CompensateMoves
    <2> QED  BY <1>1, <2>1, <2>2, <2>3, <2>4, <2>5, <2>6, <2>7 DEF Working
<1>2. CASE EntersGuard
    BY <1>2 DEF EntersGuard, RemoveRole, Retire, Stay, Abort, RemovalFailed, Silent
<1>3. CASE Outside
    BY <1>3, OutsideStill
<1>4. CASE GuardNext
    BY <1>4
       DEF GuardNext, GuardRead, Suspend, Suspended, Unassign, Unassigned, Restore,
           Restored, Goto, Silent
<1>5. CASE CanaryNext
    BY <1>5, CanaryMoves DEF CanaryMove
<1> QED  BY <1>1, <1>2, <1>3, <1>4, <1>5, Works

(* A guard that is left without a report leaves from where it has the lock.*)
LEMMA GuardLeft ==
    ASSUME PlaceOK, Next, ~Crash, pc \in Guarding, pc' \notin Guarding
    PROVE  \/ Retiring'
           \/ "role" \in failed'
           \/ pc = "guarded"
<1>1. CASE Working /\ UNCHANGED guardVars
    <2>1. CASE Unguarded
        BY <1>1, <2>1 DEF Unguarded, RemovalFailed, Retiring, guardVars
    <2>2. CASE pc = "guarded"
        BY <2>2
    <2> QED  BY <1>1, <2>1, <2>2 DEF Working, Guarding
<1> QED  BY <1>1, Works, OutsideStill DEF EntersGuard, Guarding, Entering, Inside

(* Every step keeps it.                                                    *)
LEMMA LockStep ==
    ASSUME SentInv, RunOK, CauseOK, LockTruth, Next
    PROVE  LockTruth'
<1> USE DEF SentInv
<1>1. CASE Crash
    BY <1>1 DEF Crash, LockTruth, Crashed
<1>2. CASE ~Crash
    <2>1. /\ failed \subseteq failed'
          /\ Crashed' <=> Crashed
        BY <1>2, MemoryStays
    <2>2. pc = "guarded" => ~Dropping /\ cloud["lock"]
        BY DEF LockOK, LockTruth
    <2>3. pc' = "guarded" => cloud'["lock"]
        <3>1. CASE Outside /\ pc = "guarded"
            BY <2>2, <3>1, LockStays
        <3>2. CASE cloud["lock"] /\ Silent
            BY <3>2 DEF Silent, cloudVars
        <3> QED  BY <1>2, <3>1, <3>2, GuardedLock
    <2>4. \/ Crashed'
          \/ Retiring'
          \/ "role" \in failed'
          \/ pc' \in Guarding
          \/ cloud'["lock"] /\ ~Dropping'
        <3>1. CASE pc \in Guarding /\ pc' \notin Guarding
            BY <1>2, <2>2, <3>1, GuardLeft, LockStays
        <3>2. CASE pc \notin Guarding
            <4>1. \/ Retiring => Retiring'
                  \/ "role" \in failed'
                  \/ pc' \in Guarding
                <5>1. CASE UNCHANGED guardVars
                    BY <5>1 DEF guardVars, Retiring
                <5>2. CASE EntersGuard
                    BY <5>2
                       DEF EntersGuard, RemoveRole, Retire, Stay, RemovalFailed, EnterGuard,
                           guardVars, Retiring, Guarding
                <5> QED  BY <1>2, <3>2, <5>1, <5>2, Works, OutsideStill DEF Guarding
            <4>2. pc # "suspend"
                BY <3>2 DEF Guarding
            <4> QED  BY <2>1, <3>2, <4>1, <4>2, LockStays DEF LockTruth
        <3> QED  BY <3>1, <3>2
    <2>5. i' \in 12 .. 13 => cloud'["lock"] /\ ~Dropping' /\ ~cloud'["legacy"]
        <3> SUFFICES ASSUME i' \in 12 .. 13
                     PROVE  cloud'["lock"] /\ ~Dropping' /\ ~cloud'["legacy"]
            OBVIOUS
        <3>0. "legacy" \in Resources
            BY DEF Resources, Locked
        <3>1. i \in 0 .. 13
            BY DEF PlaceOK
        <3>2. i' = i \/ i' = i + 1
            BY <1>2, PlanSteps
        <3>3. CASE i = 11
            <4>1. Retired /\ Advance(owned)
                BY <1>2, <3>2, <3>3, PlanSteps
            <4>2. pc = "guarded" /\ ~cloud["legacy"] /\ cloud["lock"] /\ UNCHANGED cloudVars
                BY <3>3, <4>1 DEF Retired, Advance, Abort
            <4> QED  BY <2>2, <4>2 DEF cloudVars, Dropping
        <3>4. CASE i \in 12 .. 13
            <4>1. pc \notin Guarding
                BY <3>4 DEF PlaceOK
            <4>2. cloud["lock"] /\ ~Dropping /\ ~cloud["legacy"]
                BY <3>4 DEF LockTruth
            <4>3. "legacy" \in (Locked \union {"definition"}) \ Parts /\ ~At("legacy", TRUE)
                BY GrantsKnown DEF Locked, At
            <4>4. ~Coming("legacy")
                BY <3>0, <4>3, Unasked DEF CauseOK, Coming
            <4>5. ~cloud'["legacy"]
                BY <3>0, <4>2, <4>3, <4>4, GoneStays
            <4> QED  BY <4>1, <4>2, <4>5, LockStays DEF Guarding
        <3> QED  BY <3>1, <3>2, <3>3, <3>4
    <2> QED  BY <2>3, <2>4, <2>5 DEF LockTruth
<1> QED  BY <1>1, <1>2

(* The bridge is being closed; its site has been asked to stop.            *)
Closed  == {"resolve", "closeNetwork", "closing", "finalStop", "clear", "canaryEnd"}
Stopped == Closed \union {"closeScm"}
Asked   == Stopped \union {"canaryStop", "census"}

(* The canary: an unhurt one has closed what it opened.                    *)
CanaryTruth ==
    /\ ToStart \/ pc = "runJob" => ~hurt
    /\ Crashed \/ hurt \/ ~Coming("scm")
    /\ Crashed \/ "scm" \in tried \/ Gone("scm")
    /\ ~hurt /\ pc \in Closed => ~cloud["scm"]
    /\ ~hurt /\ pc \in Asked => ~Coming("site")
    /\ ~hurt /\ pc \in Stopped => ~cloud["site"]
    /\ i \in 11 .. 13 => Gone("network") /\ Gone("scm") /\ Gone("site")

(* Outside the canary nothing moves within it.                             *)
LEMMA CanaryOnly ==
    ASSUME PlaceOK, Next, ~Crash, ~(CanaryNext /\ UNCHANGED execVars)
    PROVE  /\ UNCHANGED <<tried, hurt>>
           /\ pc' \in Asked \union {"runJob"} => pc' = pc /\ Outside
<1>1. CASE Working /\ UNCHANGED canaryVars
    <2> USE DEF Stay, Advance, Abort, RemovalFailed, Removed, Asked, Stopped, Closed
    <2>0. UNCHANGED <<tried, hurt>>
        BY <1>1 DEF canaryVars
    <2>1. CASE AddRule \/ RuleAdded \/ RemoveRule \/ RuleRemoved \/ Grant \/ Granted
        BY <2>0, <2>1 DEF AddRule, RuleAdded, RemoveRule, RuleRemoved, Grant, Granted
    <2>2. CASE Unguarded \/ Retired \/ RemoveDefinition \/ RoleRemoved
        BY <2>0, <2>2 DEF Unguarded, Retired, RemoveDefinition, RoleRemoved
    <2>3. CASE Configure \/ RestoreStop \/ AwaitStop \/ RestoreSettings \/ SettingsRestored
        BY <2>0, <2>3
           DEF Configure, RestoreStop, AwaitStop, RestoreSettings, SettingsRestored
    <2>4. CASE CanaryEnd \/ Finalize \/ Assemble
        BY <2>0, <2>4 DEF CanaryEnd, Finalize, Assemble
    <2>5. CASE CreateBlob \/ BlobCreated \/ SettleBlob \/ DeleteBlob \/ BlobGone
        BY <2>0, <2>5
           DEF CreateBlob, BlobCreated, SettleBlob, DeleteBlob, BlobGone, BlobFailed
    <2>6. CASE pc = "op" /\ Operation
        <3>1. i \in 1 .. 12
            BY <2>6, PlanAt DEF Operation, PlaceOK
        <3>2. CASE /\ Plan[i] \in DOMAIN OwnerOf
                   /\ owned' = Without(owned, OwnerOf[Plan[i]])
                   /\ pc' = Remove(OwnerOf[Plan[i]])
            BY <2>0, <2>6, <3>1, <3>2, OperationRemoves
        <3>3. CASE pc' \in {"op", "compensate"} \union Owners \union {"canary", "retire"}
            BY <2>0, <3>3 DEF Owners
        <3> QED  BY <2>6, <3>2, <3>3 DEF Operation
    <2>7. CASE pc = "compensate" /\ Compensate
        BY <2>0, <2>7, CompensateMoves
    <2> QED  BY <1>1, <2>1, <2>2, <2>3, <2>4, <2>5, <2>6, <2>7 DEF Working
<1>2. CASE EntersGuard /\ UNCHANGED canaryVars
    BY <1>2
       DEF EntersGuard, RemoveRole, Retire, Stay, Abort, RemovalFailed, canaryVars, Asked,
           Stopped, Closed
<1>3. CASE Outside
    BY <1>3, OutsideStill DEF canaryVars
<1>4. CASE GuardNext /\ UNCHANGED canaryVars /\ pc' \in Guarding
    BY <1>4 DEF canaryVars, Guarding, Asked, Stopped, Closed
<1> QED  BY <1>1, <1>2, <1>3, <1>4, Works

(* What the canary does to its record.                                     *)
LEMMA CanaryRecord ==
    ASSUME CanaryOK, CanaryTruth, PlaceOK, CanaryNext, UNCHANGED execVars
    PROVE  /\ hurt => hurt'
           /\ tried \subseteq tried'
           /\ ToStart' \/ pc' = "runJob" => ~hurt'
<1> USE DEF Goto, Break
<1>1. pc \in {"canary", "enableNetwork", "awaitNetwork", "restop", "enableScm", "startSite"}
        => ~hurt
    BY DEF CanaryTruth, ToStart, ToScm, ToOpen, Entering, PlaceOK
<1>2. hurt => hurt'
    <2>1. CASE CanaryMark \/ AwaitNetwork \/ RunJob \/ Census
        BY <2>1, Zenon DEF CanaryMark, AwaitNetwork, RunJob, Census
    <2>2. CASE EnableNetwork \/ Restop \/ EnableScm \/ StartSite
        BY <1>1, <2>2 DEF EnableNetwork, Restop, EnableScm, StartSite
    <2>3. CASE CanaryStop
        BY <2>3, Zenon DEF CanaryStop
    <2>4. CASE CloseScm \/ Resolve
        BY <2>4, Zenon DEF CloseScm, Resolve
    <2>5. CASE CloseNetwork
        BY <2>5, Zenon DEF CloseNetwork
    <2>6. CASE Closing \/ FinalStop
        BY <2>6, Zenon DEF Closing, FinalStop
    <2>7. CASE ClearMarker
        BY <2>7 DEF ClearMarker
    <2> QED  BY <2>1, <2>2, <2>3, <2>4, <2>5, <2>6, <2>7 DEF CanaryNext
<1>5. tried \subseteq tried'
    <2>1. CASE CanaryMark \/ EnableNetwork \/ AwaitNetwork \/ Restop \/ EnableScm \/ StartSite
        BY <2>1 DEF CanaryMark, EnableNetwork, AwaitNetwork, Restop, EnableScm, StartSite
    <2>2. CASE UNCHANGED tried
        BY <2>2
    <2> QED
        BY <2>1, <2>2
           DEF CanaryNext, RunJob, CanaryStop, Census, CloseScm, Resolve, CloseNetwork,
               Closing, FinalStop, ClearMarker
<1>3. pc' \in {"enableNetwork", "awaitNetwork", "restop", "enableScm", "startSite", "runJob"}
        => ~hurt'
    <2>1. CASE CanaryMark \/ AwaitNetwork
        BY <1>1, <2>1 DEF CanaryMark, AwaitNetwork
    <2>2. CASE EnableNetwork \/ Restop \/ EnableScm \/ StartSite
        BY <2>2 DEF EnableNetwork, Restop, EnableScm, StartSite, Answers
    <2>3. CASE RunJob \/ CanaryStop \/ Census \/ CloseScm \/ Resolve
        BY <2>3 DEF RunJob, CanaryStop, Census, CloseScm, Resolve
    <2>4. CASE CloseNetwork \/ Closing \/ FinalStop \/ ClearMarker
        BY <2>4 DEF CloseNetwork, Closing, FinalStop, ClearMarker
    <2> QED  BY <2>1, <2>2, <2>3, <2>4 DEF CanaryNext
<1>4. ToStart' => pc' \in {"enableNetwork", "awaitNetwork", "restop", "enableScm", "startSite"}
    <2>1. i' = 10 /\ pc' \notin {"op", "canary"}
        BY CanaryMoves DEF CanaryMove, PlaceOK, Entering, Inside, execVars, planVars
    <2> QED  BY <2>1 DEF ToStart, ToScm, ToOpen, Entering
<1> QED  BY <1>2, <1>3, <1>4, <1>5

(* Where the canary sends what it opens.                                   *)
LEMMA CanaryAt ==
    ASSUME FactOK
    PROVE  /\ At("network", TRUE) => pc = "enableNetwork"
           /\ At("scm", TRUE) => pc = "enableScm"
           /\ At("site", TRUE) => pc = "startSite"
           /\ "network" \in Resources /\ "scm" \in Resources /\ "site" \in Resources
           /\ <<"scm", TRUE>> \notin Deferred /\ <<"scm", FALSE>> \notin Deferred
<1>1. "network" \notin Parts /\ "scm" \notin Parts /\ "site" \notin Parts
    BY GrantsKnown DEF Locked
<1> QED  BY <1>1 DEF At, Resources, Deferred, Locked

(* Basic authentication of SCM is disabled, unless the canary is hurt.     *)
LEMMA ScmClosed ==
    ASSUME SentInv, CanaryTruth, CanaryNext, Next, pc = "closeScm", ~hurt', ~Crashed
    PROVE  ~cloud'["scm"]
<1>1. CloseScm
    BY DEF CanaryNext, CanaryMark, EnableNetwork, AwaitNetwork, Restop, EnableScm,
           StartSite, RunJob, CanaryStop, Census, Resolve, CloseNetwork, Closing,
           FinalStop, ClearMarker
<1>2. CASE ("scm" \notin tried \/ ~cloud["scm"]) /\ UNCHANGED cloudVars
    BY <1>2 DEF CanaryTruth, Gone, cloudVars
<1>3. ASSUME NEW a \in Answers, Send("scm", FALSE, a), a = "ok"
      PROVE  ~cloud'["scm"]
    <2>1. CloudOK /\ "scm" \in Resources /\ <<"scm", FALSE>> \notin Deferred
        BY CanaryAt DEF SentInv
    <2> QED  BY <1>3, <2>1, SendEffect
<1> QED  BY <1>1, <1>2, <1>3 DEF CloseScm, Goto, Break

(* Enabling it is recorded before it is asked for.                         *)
LEMMA ScmOpened ==
    ASSUME SentInv, CanaryTruth, EnableScm, Next, ~Crashed
    PROVE  /\ hurt' \/ ~Coming("scm")'
           /\ "scm" \in tried' \/ Gone("scm")'
<1>1. ~hurt /\ ~Coming("scm")
    BY DEF CanaryTruth, ToStart, ToScm, EnableScm
<1>2. CASE UNCHANGED cloudVars /\ hurt' = TRUE
    <2>1. "scm" \in tried \/ Gone("scm")
        BY DEF CanaryTruth
    <2> QED  BY <1>2, <2>1 DEF EnableScm, cloudVars, Gone, Coming
<1>3. ASSUME NEW a \in Answers, Send("scm", TRUE, a), hurt' = (a # "ok"),
             tried' = tried \union {"scm"}
      PROVE  /\ hurt' \/ ~Coming("scm")'
             /\ "scm" \in tried'
    <2>1. CloudOK /\ "scm" \in Resources /\ <<"scm", TRUE>> \notin Deferred
        BY CanaryAt DEF SentInv
    <2>2. a = "ok" => flight' = flight
        BY <1>3, <2>1, SendEffect
    <2> QED  BY <1>1, <1>3, <2>2 DEF Coming
<1> QED  BY <1>2, <1>3 DEF EnableScm, Goto, Break

(* A site that has run, or is read stopped, is not about to start.         *)
LEMMA SiteStopped ==
    ASSUME CauseOK, CanaryTruth, CanaryNext, ~hurt'
    PROVE  /\ pc' \in Asked => pc \in Asked \/ (~Coming("site") /\ UNCHANGED cloudVars)
           /\ pc' \in Stopped => pc \in Stopped \/ (~cloud["site"] /\ UNCHANGED cloudVars)
<1> USE DEF Goto, Break, Asked, Stopped, Closed
<1>1. cloud["site"] => ~Coming("site")
    BY DEF CauseOK, Resources, Locked
<1>2. CASE CanaryMark \/ EnableNetwork \/ AwaitNetwork \/ Restop \/ EnableScm \/ StartSite
    BY <1>2 DEF CanaryMark, EnableNetwork, AwaitNetwork, Restop, EnableScm, StartSite
<1>3. CASE RunJob
    BY <1>1, <1>3 DEF RunJob
<1>5. CASE CanaryStop
    BY <1>5 DEF CanaryStop
<1>6. CASE Census
    <2>1. pc = "census" /\ pc' = "closeScm" /\ UNCHANGED cloudVars
        BY <1>6 DEF Census
    <2>2. ~cloud["site"]
        BY <1>6 DEF Census
    <2> QED  BY <2>1, <2>2
<1>4. CASE CloseScm \/ Resolve \/ CloseNetwork \/ Closing \/ FinalStop \/ ClearMarker
    BY <1>4 DEF CloseScm, Resolve, CloseNetwork, Closing, FinalStop, ClearMarker
<1> QED  BY <1>2, <1>3, <1>4, <1>5, <1>6 DEF CanaryNext

(* A step of the canary keeps it.                                          *)
LEMMA CanaryInside ==
    ASSUME SentInv, RunOK, CauseOK, CanaryTruth, Next, CanaryNext, UNCHANGED execVars
    PROVE  CanaryTruth'
<1> USE DEF SentInv
<1>0. /\ pc \in Entering \union Inside /\ i' = 10 /\ ~Crashed /\ (Crashed' <=> Crashed)
    BY CanaryMoves
       DEF CanaryMove, Entering, Inside, PlaceOK, RunOK, Crashed, execVars, planVars, endVars
<1>1. /\ hurt => hurt'
      /\ tried \subseteq tried'
      /\ ToStart' \/ pc' = "runJob" => ~hurt'
    BY CanaryRecord
<1>2. (hurt' \/ ~Coming("scm")') /\ ("scm" \in tried' \/ Gone("scm")')
    <2>1. CASE pc = "enableScm"
        <3>1. EnableScm
            BY <2>1
               DEF CanaryNext, CanaryMark, EnableNetwork, AwaitNetwork, Restop, CloseScm,
                   StartSite, RunJob, CanaryStop, Census, Resolve, CloseNetwork, Closing,
                   FinalStop, ClearMarker
        <3> QED  BY <1>0, <3>1, ScmOpened
    <2>2. CASE pc # "enableScm"
        <3>1. "scm" \in Resources /\ ~At("scm", TRUE)
            BY <2>2, CanaryAt
        <3>2. (Coming("scm")' => Coming("scm")) /\ (Gone("scm") => Gone("scm")')
            BY <3>1, GoneStays
        <3> QED  BY <1>0, <1>1, <3>2 DEF CanaryTruth
    <2> QED  BY <2>1, <2>2
<1>3. ~hurt' /\ pc' \in Closed => ~cloud'["scm"]
    <2>1. pc' \in Closed => pc \in Closed \union {"closeScm"}
        BY CanaryMoves DEF CanaryMove, Closed
    <2>2. CASE pc \in Closed /\ ~hurt
        <3>1. "scm" \in Resources /\ ~At("scm", TRUE)
            BY <2>2, CanaryAt DEF Closed
        <3>2. Gone("scm")
            BY <1>0, <2>2 DEF CanaryTruth, Gone
        <3> QED  BY <3>1, <3>2, GoneStays DEF Gone
    <2>3. CASE pc = "closeScm" /\ ~hurt'
        BY <1>0, <2>3, ScmClosed
    <2> QED  BY <1>1, <2>1, <2>2, <2>3
<1>4. /\ ~hurt' /\ pc' \in Asked => ~Coming("site")'
      /\ ~hurt' /\ pc' \in Stopped => ~cloud'["site"]
    <2> SUFFICES ASSUME ~hurt'
                 PROVE  /\ pc' \in Asked => ~Coming("site")'
                        /\ pc' \in Stopped => ~cloud'["site"]
        OBVIOUS
    <2>1. pc \in Asked => /\ Coming("site")' => Coming("site")
                          /\ Gone("site") => Gone("site")'
        BY CanaryAt, GoneStays DEF Asked, Stopped, Closed
    <2>2. pc \in Asked => ~Coming("site")
        BY <1>1 DEF CanaryTruth
    <2>3. pc \in Stopped => pc \in Asked /\ Gone("site")
        BY <1>1, <2>2 DEF CanaryTruth, Gone, Asked
    <2>4. /\ pc' \in Asked => pc \in Asked \/ (~Coming("site") /\ UNCHANGED cloudVars)
          /\ pc' \in Stopped => pc \in Stopped \/ (~cloud["site"] /\ UNCHANGED cloudVars)
        BY SiteStopped
    <2> QED  BY <2>1, <2>2, <2>3, <2>4 DEF cloudVars, Coming, Gone
<1> QED  BY <1>0, <1>1, <1>2, <1>3, <1>4 DEF CanaryTruth

(* So does every other one.                                                *)
LEMMA CanaryOutside ==
    ASSUME SentInv, RunOK, CanaryTruth, ExposedIsMarked, Next, ~Crash,
           ~(CanaryNext /\ UNCHANGED execVars)
    PROVE  CanaryTruth'
<1> USE DEF SentInv
<1>1. /\ UNCHANGED <<tried, hurt>>
      /\ pc' \in Asked \union {"runJob"} => pc' = pc /\ Outside
    BY CanaryOnly
<1>2. (Crashed' <=> Crashed) /\ (ToStart' => ToStart)
    BY MemoryStays, StepOnward DEF Ctrl, Onward
<1>3. ASSUME NEW x \in {"network", "scm", "site"}
      PROVE  /\ Gone(x) => Gone(x)'
             /\ Coming(x)' => Coming(x)
    <2>1. pc \in {"enableNetwork", "enableScm", "startSite"} => Outside
        BY Works DEF Working, EntersGuard, Guarding
    <2>2. x \in Resources /\ (~At(x, TRUE) \/ Outside)
        BY <2>1, CanaryAt
    <2> QED  BY <2>2, GoneStays
<1>4. ~hurt' /\ pc' \in Closed => ~cloud'["scm"]
    <2> SUFFICES ASSUME ~hurt', pc' \in Closed PROVE ~cloud'["scm"]
        OBVIOUS
    <2>1. ~hurt /\ pc \in Closed /\ ~Crashed
        BY <1>1 DEF Asked, Stopped, RunOK, Closed
    <2>2. Gone("scm")
        BY <2>1 DEF CanaryTruth, Gone
    <2> QED  BY <1>3, <2>2 DEF Gone
<1>5. /\ ~hurt' /\ pc' \in Asked => ~Coming("site")'
      /\ ~hurt' /\ pc' \in Stopped => ~cloud'["site"]
    <2>1. pc \in Stopped => pc \in Asked
        BY DEF Asked
    <2>2. ~hurt /\ pc \in Asked => ~Coming("site")
        BY DEF CanaryTruth
    <2>3. ~hurt /\ pc \in Stopped => Gone("site")
        BY <2>1, <2>2 DEF CanaryTruth, Gone
    <2>4. pc' \in Stopped => pc' \in Asked
        BY DEF Asked
    <2> QED  BY <1>1, <1>3, <2>2, <2>3, <2>4 DEF Gone
<1>6. i' \in 11 .. 13 => Gone("network")' /\ Gone("scm")' /\ Gone("site")'
    <2> SUFFICES ASSUME i' \in 11 .. 13
                 PROVE  Gone("network")' /\ Gone("scm")' /\ Gone("site")'
        OBVIOUS
    <2>1. i \in 0 .. 13 /\ (i' = i \/ i' = i + 1)
        BY PlanSteps DEF PlaceOK
    <2>2. CASE i = 10
        <3>1. CanaryEnd /\ Advance(owned)
            BY <2>1, <2>2, PlanSteps
        <3>2. pc = "canaryEnd" /\ ~hurt /\ ~marker
            BY <2>2, <3>1 DEF CanaryEnd, Advance, Abort
        <3>3. Gone("network")
            BY <3>2 DEF ExposedIsMarked, Gone, Coming
        <3>4. ~Crashed
            BY <3>2 DEF RunOK
        <3>5. Gone("scm") /\ Gone("site")
            BY <3>2, <3>4 DEF CanaryTruth, Gone, Asked, Stopped, Closed
        <3> QED  BY <1>3, <3>3, <3>5
    <2>3. CASE i \in 11 .. 13
        BY <1>3, <2>3 DEF CanaryTruth
    <2> QED  BY <2>1, <2>2, <2>3
<1> QED  BY <1>1, <1>2, <1>3, <1>4, <1>5, <1>6 DEF CanaryTruth

(* Every step keeps it.                                                    *)
LEMMA CanaryStep ==
    ASSUME SentInv, RunOK, CauseOK, CanaryTruth, ExposedIsMarked, Next
    PROVE  CanaryTruth'
<1>1. CASE Crash
    BY <1>1
       DEF Crash, Crashed, CanaryTruth, ToStart, ToScm, ToOpen, Entering, Asked, Stopped, Closed
<1>2. CASE ~Crash
    BY <1>2, CanaryInside, CanaryOutside
<1> QED  BY <1>1, <1>2

(* Where the executor is once the evidence has begun.                      *)
Ending == {"op", "assemble", "compensate", "restoreStop", "awaitStop", "restoreSettings",
           "settingsRestored", "end"}

(* What the evidence may be written of.                                    *)
Done ==
    /\ \A x \in Resources \ {"lock", "settings"} : Gone(x)
    /\ cloud["lock"] /\ ~Dropping
    /\ cloud["settings"] \/ asked[<<"settings", FALSE>>] > 0

(* Evidence is written of a run that is done, and it stays so.             *)
DoneTruth ==
    files > 0 =>
        /\ Done
        /\ pc \in Ending
        /\ pc = "op" => i = 13
        /\ owned \in {Owned0, OwnedS}

(* What is true of the parts of a run, together.                           *)
Truth == /\ RunOK /\ CauseOK
         /\ RuleTruth /\ SettingsTruth /\ BlobTruth /\ RoleTruth /\ LockTruth /\ CanaryTruth

(* After its last operation a run is done.                                 *)
LEMMA PlanDone ==
    ASSUME SentInv, Truth, i = 13
    PROVE  Done
<1> USE DEF SentInv, Truth
<1>1. failed = {} /\ ~Crashed /\ pc \in {"op", "assemble", "end"} /\ owned \in {Owned0, OwnedS}
    BY DEF RunOK, PlaceOK, Entering, Inside, Guarding
<1>2. ~BlobHeld /\ ~RuleHeld /\ ~RoleHeld
    BY <1>1, OwnedDistinct DEF BlobHeld, RuleHeld, RoleHeld, HasRule, HasRole, Guarding
<1>3. Gone("blob")
    BY <1>1, <1>2 DEF BlobTruth
<1>4. Gone("rule")
    BY <1>1, <1>2 DEF RuleTruth, Gone
<1>5. \A x \in Parts : Gone(x)
    BY <1>1, <1>2 DEF RoleTruth
<1>6. Gone("network") /\ Gone("scm") /\ Gone("site")
    BY DEF CanaryTruth
<1>7. "legacy" \notin Parts /\ ~cloud["legacy"]
    BY GrantsKnown DEF LockTruth
<1>8. \A x \in (Locked \union {"definition"}) \ Parts : asked[<<x, TRUE>>] = 0
    BY DEF CauseOK
<1>9. Gone("legacy")
    BY <1>7, <1>8, Unasked DEF Gone, Coming, Locked, Resources
<1>10. \A x \in (Locked \union {"definition"}) \ {"legacy"} : Gone(x)
    BY <1>5, <1>8 DEF CauseOK, Resources, Locked
<1>11. \A x \in Resources \ {"lock", "settings"} : Gone(x)
    BY <1>3, <1>4, <1>6, <1>9, <1>10 DEF Resources
<1> QED  BY <1>11 DEF Done, LockTruth, SettingsTruth

(* What is done stays done, where no more is begun.                        *)
LEMMA DoneStays ==
    ASSUME SentInv, CauseOK, Done, pc \in Ending, Next
    PROVE  Done'
<1> USE DEF SentInv
<1>1. ASSUME NEW x \in Resources \ {"lock", "settings"} PROVE Gone(x)'
    <2>1. ~At(x, TRUE)
        BY DEF At, Ending
    <2> QED  BY <2>1, GoneStays DEF Done
<1>2. cloud'["lock"] /\ ~Dropping'
    BY LockStays DEF Done, Ending
<1>3. cloud'["settings"] \/ asked'[<<"settings", FALSE>>] > 0
    <2>0. "settings" \in Resources
        BY DEF Resources
    <2>1. /\ asked[<<"settings", FALSE>>] \in Nat /\ asked'[<<"settings", FALSE>>] \in Nat
          /\ asked'[<<"settings", FALSE>>] >= asked[<<"settings", FALSE>>]
        BY <2>0, StepCloud
    <2>2. CASE At("settings", FALSE) /\ asked'[<<"settings", FALSE>>] # asked[<<"settings", FALSE>>]
        BY <2>1, <2>2
    <2>3. CASE asked'[<<"settings", FALSE>>] = asked[<<"settings", FALSE>>] /\ cloud["settings"]
        <3>1. cloud'["settings"] = FALSE /\ cloud["settings"] # FALSE
                => <<"settings", FALSE>> \in flight
            BY <2>0, <2>3, StepCloud
        <3>2. <<"settings", FALSE>> \in flight => asked[<<"settings", FALSE>>] > 0
            BY <2>0 DEF CauseOK
        <3>3. cloud["settings"] \in BOOLEAN /\ cloud'["settings"] \in BOOLEAN
            BY <2>0, StepTyped
        <3> QED  BY <2>3, <3>1, <3>2, <3>3
    <2>4. asked[<<"settings", FALSE>>] > 0 \/ cloud["settings"]
        BY DEF Done
    <2>5. asked'[<<"settings", FALSE>>] # asked[<<"settings", FALSE>>] => At("settings", FALSE)
        BY <2>0, StepCloud
    <2> QED  BY <2>1, <2>2, <2>3, <2>4, <2>5
<1> QED  BY <1>1, <1>2, <1>3 DEF Done

(* Nor is more begun.                                                      *)
LEMMA EndingStays ==
    ASSUME PlaceOK, Next, pc \in Ending, pc = "op" => i = 13, owned \in {Owned0, OwnedS}
    PROVE  /\ pc' \in Ending
           /\ pc' = "op" => i' = 13
           /\ owned' \in {Owned0, OwnedS}
<1> DEFINE Stays == pc' \in Ending /\ (pc' = "op" => i' = 13) /\ owned' \in {Owned0, OwnedS}
<1> USE DEF Ending
<1>1. ASSUME Working PROVE Stays
    <2> USE DEF Stay, Advance, Abort, RemovalFailed, Removed, planVars
    <2>1. ~(pc = "op" /\ Operation)
        BY PlanAt DEF Operation
    <2>2. CASE Finalize \/ Assemble
        BY <2>2, OwnedSeqs DEF Finalize, Assemble
    <2>3. CASE pc = "compensate" /\ Compensate
        BY <2>3, CompensateMoves, OwnedDistinct
    <2>4. CASE /\ pc \in {"restoreStop", "awaitStop", "restoreSettings", "settingsRestored"}
               /\ RestoreStop \/ AwaitStop \/ RestoreSettings \/ SettingsRestored
        <3>1. i = 0
            BY <2>4 DEF PlaceOK
        <3> QED  BY <2>4, <3>1 DEF RestoreStop, AwaitStop, RestoreSettings, SettingsRestored
    <2> QED  BY <1>1, <2>1, <2>2, <2>3, <2>4 DEF Working
<1>2. CASE Outside
    BY <1>2, OutsideStill
<1>3. CASE Crash
    BY <1>3, OwnedSeqs DEF Crash
<1> QED  BY <1>1, <1>2, <1>3, Works DEF EntersGuard, Guarding, Entering, Inside

(* The first file is written at the end of the plan.                       *)
LEMMA FirstFile ==
    ASSUME PlaceOK, Next, ~(files > 0), files' > 0
    PROVE  /\ i = 13 /\ Silent
           /\ pc' \in Ending /\ pc' # "op"
           /\ owned' \in {Owned0, OwnedS}
<1>1. Finalize \/ Assemble
    <2>1. CASE ExecStep /\ ~(Finalize \/ Assemble)
        BY <2>1
           DEF ExecStep, Operation, AddRule, RuleAdded, Grant, Granted, Unguarded, Retired,
               RemoveDefinition, RoleRemoved, CreateBlob, BlobCreated, SettleBlob,
               DeleteBlob, BlobGone, RemoveRule, RuleRemoved, Configure, RestoreStop,
               AwaitStop, RestoreSettings, SettingsRestored, CanaryEnd, Compensate, endVars
    <2>2. CASE RemoveRole \/ Retire \/ Crash \/ Resume \/ UNCHANGED execVars
        BY <2>2 DEF RemoveRole, Retire, Crash, Resume, endVars, execVars
    <2> QED  BY <2>1, <2>2 DEF Next
<1>2. i = 13 /\ owned \in {Owned0, OwnedS}
    BY <1>1, PlanAt DEF Finalize, Assemble, PlaceOK
<1> QED  BY <1>1, <1>2, OwnedSeqs
         DEF Finalize, Assemble, Abort, Stay, planVars, Silent, Ending

(* Every step keeps it.                                                    *)
LEMMA DoneStep ==
    ASSUME SentInv, Truth, DoneTruth, Next
    PROVE  DoneTruth'
<1> USE DEF SentInv
<1>1. CASE files > 0
    BY <1>1, DoneStays, EndingStays DEF DoneTruth, Truth
<1>2. CASE ~(files > 0) /\ files' > 0
    <2>1. /\ i = 13 /\ Silent
          /\ pc' \in Ending /\ pc' # "op" /\ owned' \in {Owned0, OwnedS}
        BY <1>2, FirstFile
    <2>2. Done
        BY <2>1, PlanDone
    <2>3. Done'
        BY <2>1, <2>2 DEF Done, Gone, Coming, Dropping, Silent, cloudVars
    <2> QED  BY <2>1, <2>3 DEF DoneTruth
<1> QED  BY <1>1, <1>2 DEF DoneTruth

(* The inductive invariant of both theorems.                               *)
TruthInv == MarkedInv /\ SentInv /\ Truth /\ DoneTruth

(* It holds at the start.                                                  *)
LEMMA TruthInit == Init => TruthInv
<1> SUFFICES ASSUME Init PROVE TruthInv
    OBVIOUS
<1>1. MarkedInv /\ SentInv /\ CauseOK
    BY MarkedInit, SentInit, CauseInit
<1>2. /\ pc = "op" /\ i = 1 /\ tag = "none" /\ files = 0 /\ status = "running"
      /\ failed = {} /\ tried = {} /\ hurt = FALSE /\ flight = {} /\ doubt = {}
    BY DEF Init, CloudInit, CanaryInit
<1>3. \A x \in Resources \ {"lock", "legacy"} : Gone(x)
    BY <1>2 DEF Init, CloudInit, Gone, Coming
<1>4. cloud["lock"]
    BY DEF Init, CloudInit, Resources
<1>5. asked[<<"settings", FALSE>>] = 0
    BY DEF Init, CloudInit, Requests, Resources
<1>6. \A x \in Parts : Gone(x)
    BY <1>1, <1>3, GrantsKnown DEF SentInv
<1>7. /\ Gone("rule") /\ Gone("settings") /\ Gone("blob") /\ Gone("network") /\ Gone("scm")
      /\ Gone("site")
    BY <1>3 DEF Resources
<1>8. RunOK /\ RuleTruth /\ SettingsTruth /\ BlobTruth
    BY <1>2, <1>5, <1>7 DEF RunOK, RuleTruth, SettingsTruth, BlobTruth, Crashed, Gone, Coming
<1>9. RoleTruth
    BY <1>2, <1>6 DEF RoleTruth, Unrolling, Gone, Guarding
<1>10. LockTruth /\ CanaryTruth /\ DoneTruth
    BY <1>2, <1>4, <1>7
       DEF LockTruth, CanaryTruth, DoneTruth, Dropping, Closed, Stopped, Asked, Gone
<1> QED  BY <1>1, <1>8, <1>9, <1>10 DEF TruthInv, Truth

(* Every step keeps it.                                                    *)
LEMMA TruthStep == TruthInv /\ [Next]_vars => TruthInv'
<1> SUFFICES ASSUME TruthInv, [Next]_vars PROVE TruthInv'
    OBVIOUS
<1>1. MarkedInv' /\ SentInv'
    BY MarkedStep, SentStep DEF TruthInv
<1>2. CASE Next
    <2>1. /\ SentInv /\ PlaceOK /\ ExposedIsMarked
          /\ Truth /\ DoneTruth
        BY DEF TruthInv, SentInv, MarkedInv
    <2>2. RunOK' /\ CauseOK'
        BY <1>2, <2>1, RunStep, CauseStep DEF Truth
    <2>3. RuleTruth' /\ SettingsTruth' /\ BlobTruth'
        BY <1>2, <2>1, RuleStep, SettingsStep, BlobStep DEF Truth
    <2>4. RoleTruth' /\ LockTruth' /\ CanaryTruth'
        BY <1>2, <2>1, RoleStep, LockStep, CanaryStep DEF Truth
    <2>5. DoneTruth'
        BY <1>2, <2>1, DoneStep
    <2> QED  BY <1>1, <2>2, <2>3, <2>4, <2>5 DEF TruthInv, Truth
<1>3. CASE UNCHANGED vars
    <2> USE DEF vars, cloudVars, guardVars, canaryVars, execVars, grantVars, planVars, endVars
    <2>1. RunOK' /\ CauseOK'
        BY <1>3 DEF TruthInv, Truth, RunOK, CauseOK, Crashed, Gone, Coming, Parts
    <2>2. RuleTruth' /\ SettingsTruth' /\ BlobTruth'
        BY <1>3
           DEF TruthInv, Truth, RuleTruth, SettingsTruth, BlobTruth, Crashed, Gone, Coming,
               RuleHeld, SettingsHeld, BlobHeld, HasRule
    <2>3. RoleTruth' /\ LockTruth'
        BY <1>3
           DEF TruthInv, Truth, RoleTruth, LockTruth, Crashed, Gone, Coming, RoleHeld, HasRole,
               Retiring, Unrolling, Dropping, Parts
    <2>4. CanaryTruth' /\ DoneTruth'
        BY <1>3
           DEF TruthInv, Truth, CanaryTruth, DoneTruth, Done, Crashed, Gone, Coming, ToStart,
               ToScm, ToOpen, Dropping
    <2> QED  BY <1>1, <2>1, <2>2, <2>3, <2>4 DEF TruthInv, Truth
<1> QED  BY <1>2, <1>3

(* A failed run's receipt.                                                 *)
LEMMA TruthAccounts == TruthInv => Accounted
<1> SUFFICES ASSUME TruthInv, pc = "end", status = "failed", NEW x \in Owners, Left(x)
             PROVE  \/ x \in failed
                    \/ x \in {"rule", "settings"} /\ <<x, TRUE>> \in doubt
                    \/ x = "settings" /\ files > 0
    BY DEF Accounted
<1>1. Truth /\ ~Crashed /\ owned = Owned0
    BY DEF TruthInv, SentInv, PlaceOK, Crashed
<1>2. ~BlobHeld /\ ~RuleHeld /\ ~RoleHeld /\ ~SettingsHeld /\ pc \notin Guarding
    BY <1>1, OwnedDistinct
       DEF BlobHeld, RuleHeld, RoleHeld, SettingsHeld, HasRule, HasRole, Guarding
<1>3. CASE x = "rule"
    BY <1>1, <1>2, <1>3 DEF Left, Truth, RuleTruth
<1>4. CASE x = "settings"
    BY <1>1, <1>2, <1>4 DEF Left, Truth, SettingsTruth
<1>5. CASE x = "blob"
    BY <1>1, <1>2, <1>5 DEF Left, Truth, BlobTruth, Gone
<1>6. CASE x = "role"
    BY <1>1, <1>2, <1>6 DEF Left, Truth, RoleTruth, LockTruth, Gone
<1> QED  BY <1>3, <1>4, <1>5, <1>6 DEF Owners

(* The complete bundle.                                                    *)
LEMMA TruthBundles == TruthInv => EvidenceTruth
<1> SUFFICES ASSUME TruthInv, Bundle, NEW x \in Resources
             PROVE  \/ cloud[x] = (x \in {"lock", "settings"})
                    \/ x = "settings" /\ asked[<<x, FALSE>>] > 0
    BY DEF EvidenceTruth
<1>1. files > 0
    BY DEF Bundle, Evidence
<1>2. Done
    BY <1>1 DEF TruthInv, DoneTruth
<1>3. cloud[x] \in BOOLEAN
    BY DEF TruthInv, SentInv, CloudOK
<1>4. CASE x \notin {"lock", "settings"}
    <2>1. ~cloud[x]
        BY <1>2, <1>4 DEF Done, Gone
    <2> QED  BY <1>3, <1>4, <2>1
<1>5. CASE x = "lock"
    <2>1. cloud[x] = TRUE
        BY <1>2, <1>3, <1>5 DEF Done
    <2> QED  BY <1>5, <2>1
<1>6. CASE x = "settings"
    <2>1. cloud[x] = TRUE \/ asked[<<x, FALSE>>] > 0
        BY <1>2, <1>3, <1>6 DEF Done
    <2> QED  BY <1>6, <2>1
<1> QED  BY <1>4, <1>5, <1>6

(* What the executor tells of a run is true, where it tells anything: the  *)
(* exemptions are those of Accounted and EvidenceTruth, a rule or settings *)
(* in doubt, settings kept or restored, and the lock of the retirement.    *)
THEOREM ReceiptHolds == Spec => []ReceiptTruth
<1>1. TruthInv => ReceiptTruth
    BY TruthAccounts, TruthBundles DEF ReceiptTruth
<1> QED  BY <1>1, TruthInit, TruthStep, PTL DEF Spec

(* The assignment goes away only after the blob.                           *)
LEMMA BlobFirst ==
    ASSUME TruthInv, Next, cloud["assignment"], ~cloud'["assignment"]
    PROVE  ~cloud["blob"] \/ "blob" \in failed \/ status = "crashed"
<1> SUFFICES ASSUME BlobHeld PROVE FALSE
    BY DEF TruthInv, Truth, BlobTruth, Gone, Crashed
<1>0. SentInv /\ CauseOK /\ "assignment" \in Resources
    BY DEF TruthInv, Truth, Resources, Locked
<1>1. pc # "unassign" /\ ToUnrole
    BY <1>0, OwnedDistinct
       DEF SentInv, BlobHeld, PlaceOK, Guarding, ToUnrole, HasRole
<1>2. <<"assignment", FALSE>> \notin flight
    <2>1. Ahead("assignment", FALSE) /\ Single("assignment", FALSE)
        BY <1>1 DEF Ahead, Single, ToUnassign, Locked
    <2>2. asked[<<"assignment", FALSE>>] = 0
        BY <1>0, <2>1 DEF SentInv, OnceOK
    <2> QED  BY <1>0, <2>2, Unasked
<1>3. ~At("assignment", FALSE)
    BY <1>1 DEF At
<1> QED  BY <1>0, <1>2, <1>3, ThereStays

(* BlobBeforeRole: the role that is needed to delete the blob outlasts it. *)
THEOREM BlobFirstHolds == Spec => BlobBeforeRole
<1>1. TruthInv /\ [Next]_vars
        => [(cloud["assignment"] /\ ~cloud'["assignment"])
              => (~cloud["blob"] \/ "blob" \in failed \/ status = "crashed")]_vars
    BY BlobFirst
<1> QED  BY <1>1, TruthInit, TruthStep, PTL DEF Spec, BlobBeforeRole
=================================================================================
