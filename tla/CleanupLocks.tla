----------------------------- MODULE CleanupLocks -----------------------------
(***************************************************************************)
(* The guarded deletion of role assignments (CleanupLockGuard): the one    *)
(* reviewed CanNotDelete lock is suspended, the exact assignments are      *)
(* deleted, and the lock is put back in finally, with one PUT.             *)
(***************************************************************************)
EXTENDS BootstrapCloud

VARIABLES
    members,  \* the group's assignments
    initial,  \* those that were present before the suspension
    todo,     \* those still to delete
    broken    \* an exception is on its way through finally

guardVars == <<members, initial, todo, broken>>

Present(set) == {x \in set : cloud[x]}

(* A caller asks for the deletion of a group.                              *)
EnterGuard(group) ==
    /\ members' = group
    /\ initial' = {}
    /\ todo' = {}
    /\ broken' = FALSE

(* Before the suspension: the lock inventory is exact, and the assignments *)
(* are read; a group that is gone needs no suspension, a suspension needs  *)
(* a live authorization.                                                   *)
GuardRead ==
    /\ pc = "guard"
    /\ initial' = Present(members)
    /\ UNCHANGED <<members, todo, broken>>
    /\ \/ cloud["lock"] /\ initial' = {} /\ Goto("guarded")
       \/ cloud["lock"] /\ initial' # {} /\ live /\ Goto("suspend")
       \/ Goto("guardFailed")

(* The lock is deleted; from here on every way out leads through restore.  *)
Suspend ==
    /\ pc = "suspend"
    /\ UNCHANGED <<members, initial, todo>>
    /\ \/ ~live /\ broken' = TRUE /\ Goto("restore")
       \/ \E a \in Answers :
            /\ live
            /\ Send("lock", FALSE, a)
            /\ broken' = (a # "ok")
            /\ pc' = IF a = "ok" THEN "suspended" ELSE "restore"

(* Poll until the lock is absent, then read the group again: it must not   *)
(* have changed.                                                           *)
Suspended ==
    /\ pc = "suspended"
    /\ UNCHANGED <<members, initial>>
    /\ \/ /\ ~cloud["lock"]
          /\ Present(members) = initial
          /\ todo' = initial
          /\ UNCHANGED broken
          /\ Goto("unassign")
       \/ /\ broken' = TRUE
          /\ UNCHANGED todo
          /\ Goto("restore")

(* One DELETE per assignment that was present.                             *)
Unassign ==
    /\ pc = "unassign"
    /\ todo # {}
    /\ UNCHANGED <<members, initial>>
    /\ \/ ~live /\ broken' = TRUE /\ UNCHANGED todo /\ Goto("restore")
       \/ \E x \in todo, a \in Answers :
            /\ live
            /\ Send(x, FALSE, a)
            /\ todo' = todo \ {x}
            /\ broken' = (a # "ok")
            /\ pc' = IF a = "ok" THEN "unassign" ELSE "restore"

(* Poll until every assignment is absent.                                  *)
Unassigned ==
    /\ pc = "unassign"
    /\ todo = {}
    /\ UNCHANGED <<members, initial, todo>>
    /\ \/ Present(initial) = {} /\ UNCHANGED broken
       \/ broken' = TRUE
    /\ Goto("restore")

(* finally: a lock that is there is left alone, an absent one gets one PUT, *)
(* for which the authorization need not be live.                           *)
Restore ==
    /\ pc = "restore"
    /\ UNCHANGED <<members, initial, todo>>
    /\ \/ cloud["lock"] /\ UNCHANGED broken /\ Goto(IF broken THEN "guardFailed" ELSE "guarded")
       \/ broken' = TRUE /\ Goto("guardFailed")
       \/ \E a \in Answers :
            /\ ~cloud["lock"]
            /\ Send("lock", TRUE, a)
            /\ broken' = (broken \/ a # "ok")
            /\ pc' = "restored"

(* The PUT's readback; an ambiguous PUT is a failure whatever is read.     *)
Restored ==
    /\ pc = "restored"
    /\ UNCHANGED guardVars
    /\ \/ cloud["lock"] /\ ~broken /\ Goto("guarded")
       \/ Goto("guardFailed")

GuardNext ==
    /\ \/ GuardRead \/ Suspend \/ Suspended \/ Unassign \/ Unassigned
       \/ Restore \/ Restored
    /\ UNCHANGED live

GuardInit == members = {} /\ initial = {} /\ todo = {} /\ broken = FALSE

GuardOK ==
    /\ members \in SUBSET Locked
    /\ initial \in SUBSET Locked
    /\ todo \in SUBSET Locked
    /\ broken \in BOOLEAN
=============================================================================
