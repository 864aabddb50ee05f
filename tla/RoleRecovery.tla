----------------------------- MODULE RoleRecovery -----------------------------
(***************************************************************************)
(* private_release_v2_temp_package_assignments_559c_recovery, and the      *)
(* 8ca and dc3f recoveries of one assignment: role assignments that a dead *)
(* bootstrap left behind are deleted, the CanNotDelete lock above them     *)
(* being suspended meanwhile.                                              *)
(***************************************************************************)
EXTENDS Naturals, Sequences, FiniteSets

CONSTANTS
    Auths,       \* authorizations, each applied by one process
    Targets,     \* the assignments in the order of their deletion
    MaxFaults    \* bound: lost answers, refusals, failed reads, processes dead

VARIABLES
    lock,      \* the rollback cleanup lock is there
    present,   \* assignments that exist
    doc,       \* authorization -> its documents
    used,      \* authorizations whose ledger directory exists
    issued,    \* authorization -> the mutations that left the process
    intents,   \* authorization -> the mutations announced in the ledger
    flight,    \* lost requests that take effect later
    pc, err,   \* authorization -> its process; an exception is pending
    n,         \* authorization -> index of the assignment at hand
    terminal,  \* authorization -> the status of its terminal record
    excused,   \* a lock request or read was lost, or a process died
    faults

vars == <<lock, present, doc, used, issued, intents, flight, pc, err, n, terminal, excused, faults>>

Roles == {Targets[i] : i \in 1..Len(Targets)}

Fault == faults < MaxFaults /\ faults' = faults + 1
Go(a, label) == pc' = [pc EXCEPT ![a] = label]

(* What a request does in Azure; the lock forbids the deletion of what it  *)
(* covers, and the deletion of what is not there is answered 204.          *)
Accepted(r) == r \in Roles => ~lock
Effect(r) ==
    CASE r = "unlock" -> lock' = FALSE /\ UNCHANGED present
      [] r = "relock" -> lock' = TRUE /\ UNCHANGED present
      [] OTHER        -> present' = present \ {r} /\ UNCHANGED lock

Local == <<doc, used, n, terminal>>

(* live_state: the targets are all there or all gone, and the other        *)
(* temporary access, the definitions, Storage and the locks are exact.     *)
LiveState(state) ==
    /\ lock
    /\ IF state = "exact" THEN present = Roles ELSE present = {}

(***************************************************************************)
(* The documents                                                           *)
(***************************************************************************)

Observe(a) ==
    /\ doc[a] = "none"
    /\ LiveState("exact")
    /\ doc' = [doc EXCEPT ![a] = "observed"]
    /\ UNCHANGED <<lock, present, used, issued, intents, flight, pc, err, n, terminal, excused, faults>>

(* request_confirmation, then the user's file with the exact phrase.       *)
Confirm(a) ==
    /\ doc[a] = "observed"
    /\ doc' = [doc EXCEPT ![a] = "confirmed"]
    /\ UNCHANGED <<lock, present, used, issued, intents, flight, pc, err, n, terminal, excused, faults>>

(* validate_preflight: thirty minutes after the observation.               *)
Expire(a) ==
    /\ doc[a] \in {"observed", "confirmed"}
    /\ doc' = [doc EXCEPT ![a] = "expired"]
    /\ UNCHANGED <<lock, present, used, issued, intents, flight, pc, err, n, terminal, excused, faults>>

(***************************************************************************)
(* apply                                                                   *)
(***************************************************************************)

Still == UNCHANGED <<lock, present, issued, intents, flight>>

(* The documents are exact and live, so is the state, and the ledger is    *)
(* new: it is consumed before the first mutation.                          *)
Begin(a) ==
    /\ doc[a] = "confirmed" /\ a \notin used /\ pc[a] = "idle"
    /\ LiveState("exact")
    /\ used' = used \union {a}
    /\ Go(a, "inventory")
    /\ Still /\ UNCHANGED <<doc, err, n, terminal, excused, faults>>

(* A look at Azure that may fail; what is wrong is an exception, which the *)
(* finally clause of the core handles if the lock may be gone.             *)
Look(a, ok, label, otherwise) ==
    /\ \/ ok /\ Go(a, label) /\ UNCHANGED <<err, faults>>
       \/ ~ok /\ Go(a, otherwise) /\ err' = [err EXCEPT ![a] = TRUE] /\ UNCHANGED faults
       \/ Fault /\ Go(a, otherwise) /\ err' = [err EXCEPT ![a] = TRUE]
    /\ Still /\ UNCHANGED Local

(* Mutant: the assignments are deleted without suspending the lock.        *)
InventoryDirect(a) ==
    /\ pc[a] = "inventory"
    /\ Look(a, lock /\ present = Roles, "check", "end")
    /\ UNCHANGED excused

(* run_recovery_core: the lock inventory, the lock and every target.       *)
Inventory(a) ==
    /\ pc[a] = "inventory"
    /\ Look(a, lock /\ present = Roles, "unlock", "end")
    /\ UNCHANGED excused

(* Mutant: an expired authorization restores nothing either.               *)
MayMutateLive(a, r) == doc[a] = "confirmed" /\ r \notin issued[a]

(* mutate: an allowed request that was not issued before is announced in   *)
(* the ledger and leaves; deletions need a live authorization.             *)
MayMutate(a, r) == /\ r = "relock" \/ doc[a] = "confirmed"
                   /\ r \notin issued[a]

Mutate(a, r, label, otherwise) ==
    \/ /\ ~MayMutate(a, r)
       /\ Go(a, otherwise) /\ err' = [err EXCEPT ![a] = TRUE]
       /\ Still /\ UNCHANGED <<excused, faults>>
    \/ /\ MayMutate(a, r)
       /\ issued' = [issued EXCEPT ![a] = @ \union {r}]
       /\ intents' = [intents EXCEPT ![a] = Append(@, r)]
       /\ \/ Accepted(r) /\ Effect(r) /\ Go(a, label)
             /\ UNCHANGED <<flight, err, excused, faults>>
          \/ /\ ~Accepted(r) /\ Go(a, otherwise) /\ err' = [err EXCEPT ![a] = TRUE]
             /\ UNCHANGED <<lock, present, flight, excused, faults>>
          \/ /\ Fault /\ Go(a, otherwise) /\ err' = [err EXCEPT ![a] = TRUE]
             /\ excused' = (excused \/ r \notin Roles)
             /\ \/ Accepted(r) /\ Effect(r) /\ UNCHANGED flight
                \/ UNCHANGED <<lock, present, flight>>
                \/ flight' = flight \union {r} /\ UNCHANGED <<lock, present>>

Unlock(a) ==
    /\ pc[a] = "unlock"
    /\ Mutate(a, "unlock", "unlocked", "finally")
    /\ UNCHANGED Local

Unlocked(a) ==
    /\ pc[a] = "unlocked"
    /\ Look(a, ~lock, "check", "finally")
    /\ UNCHANGED excused

(* Each target is still exact after the lock is gone.                      *)
Check(a) ==
    /\ pc[a] = "check"
    /\ Look(a, Targets[n[a]] \in present, "drop", "finally")
    /\ UNCHANGED excused

Drop(a) ==
    /\ pc[a] = "drop"
    /\ Mutate(a, Targets[n[a]], "dropped", "finally")
    /\ UNCHANGED Local

(* Mutant: the index runs past the last target.                            *)
DroppedPast(a) ==
    /\ pc[a] = "dropped"
    /\ Targets[n[a]] \notin present
    /\ Go(a, IF n[a] = Len(Targets) THEN "finally" ELSE "check")
    /\ n' = [n EXCEPT ![a] = @ + 1]
    /\ Still /\ UNCHANGED <<doc, used, err, terminal, excused, faults>>

Dropped(a) ==
    /\ pc[a] = "dropped"
    /\ \/ /\ Targets[n[a]] \notin present
          /\ IF n[a] = Len(Targets)
             THEN Go(a, "finally") /\ UNCHANGED n
             ELSE Go(a, "check") /\ n' = [n EXCEPT ![a] = @ + 1]
          /\ UNCHANGED <<err, faults>>
       \/ /\ \/ Targets[n[a]] \in present /\ UNCHANGED faults
             \/ Fault
          /\ Go(a, "finally") /\ err' = [err EXCEPT ![a] = TRUE]
          /\ UNCHANGED n
    /\ Still /\ UNCHANGED <<doc, used, terminal, excused>>

(* Mutant: the lock is restored only if nothing went wrong.                *)
FinallyClean(a) ==
    /\ pc[a] = "finally"
    /\ \/ lock /\ Go(a, "locked") /\ UNCHANGED <<err, excused, faults>>
       \/ ~lock /\ Go(a, IF err[a] THEN "end" ELSE "relock") /\ UNCHANGED <<err, excused, faults>>
    /\ Still /\ UNCHANGED Local

(* The finally clause: the lock is read, and restored if it is absent.     *)
Finally(a) ==
    /\ pc[a] = "finally"
    /\ \/ lock /\ Go(a, "locked") /\ UNCHANGED <<err, excused, faults>>
       \/ ~lock /\ Go(a, "relock") /\ UNCHANGED <<err, excused, faults>>
       \/ Fault /\ Go(a, "end") /\ err' = [err EXCEPT ![a] = TRUE] /\ excused' = TRUE
    /\ Still /\ UNCHANGED Local

Relock(a) ==
    /\ pc[a] = "relock"
    /\ Mutate(a, "relock", "locked", "end")
    /\ UNCHANGED Local

(* require_exact_lock; a pending exception is raised again.                *)
Locked(a) ==
    /\ pc[a] = "locked"
    /\ Look(a, lock /\ ~err[a], "final", "end")
    /\ UNCHANGED excused

(* final_state_reader.                                                     *)
Final(a) ==
    /\ pc[a] = "final"
    /\ Look(a, LiveState("absent"), "end", "end")
    /\ UNCHANGED excused

(* Mutant: the status is that of the state found, not of the run.          *)
TerminalByState(a) ==
    /\ pc[a] = "end"
    /\ terminal' = [terminal EXCEPT ![a] = IF present = {} THEN "succeeded" ELSE "failed"]
    /\ Go(a, "idle")
    /\ Still /\ UNCHANGED <<doc, used, err, n, excused, faults>>

(* execution-terminal.json, whatever happened.                             *)
Terminal(a) ==
    /\ pc[a] = "end"
    /\ terminal' = [terminal EXCEPT ![a] = IF err[a] THEN "failed" ELSE "succeeded"]
    /\ Go(a, "idle")
    /\ Still /\ UNCHANGED <<doc, used, err, n, excused, faults>>

Step(a) == \/ Inventory(a) \/ Unlock(a) \/ Unlocked(a) \/ Check(a) \/ Drop(a) \/ Dropped(a)
           \/ Finally(a) \/ Relock(a) \/ Locked(a) \/ Final(a) \/ Terminal(a)

Land(r) ==
    /\ r \in flight
    /\ flight' = flight \ {r}
    /\ IF Accepted(r) THEN Effect(r) ELSE UNCHANGED <<lock, present>>
    /\ UNCHANGED <<doc, used, issued, intents, pc, err, n, terminal, excused, faults>>

Crash(a) ==
    /\ pc[a] # "idle"
    /\ Fault /\ excused' = TRUE
    /\ Go(a, "idle")
    /\ Still /\ UNCHANGED <<doc, used, err, n, terminal>>

(* verify_local: the incident's authorization was consumed and failed.     *)
Init ==
    /\ lock = TRUE
    /\ present = Roles
    /\ doc = [a \in Auths |-> "none"]
    /\ used = {}
    /\ issued = [a \in Auths |-> {}]
    /\ intents = [a \in Auths |-> <<>>]
    /\ flight = {}
    /\ pc = [a \in Auths |-> "idle"]
    /\ err = [a \in Auths |-> FALSE]
    /\ n = [a \in Auths |-> 1]
    /\ terminal = [a \in Auths |-> "none"]
    /\ excused = FALSE
    /\ faults = 0

Next == \/ \E a \in Auths : Observe(a) \/ Confirm(a) \/ Expire(a) \/ Begin(a) \/ Step(a) \/ Crash(a)
        \/ \E r \in Roles \union {"unlock", "relock"} : Land(r)

Spec == Init /\ [][Next]_vars

(* A process that was started goes on.                                     *)
FairSpec == Spec /\ \A a \in Auths : WF_vars(Step(a))

(***************************************************************************)
(* Properties                                                              *)
(***************************************************************************)

(* Every variable stays in its domain.                                     *)
TypeOK ==
    LET Mutations == Roles \union {"unlock", "relock"} IN
    /\ lock \in BOOLEAN /\ present \subseteq Roles /\ used \subseteq Auths
    /\ doc \in [Auths -> {"none", "observed", "confirmed", "expired"}]
    /\ issued \in [Auths -> SUBSET Mutations]
    /\ \A a \in Auths : intents[a] \in Seq(Mutations)
    /\ flight \subseteq Mutations
    /\ pc \in [Auths -> {"idle", "inventory", "unlock", "unlocked", "check", "drop", "dropped",
                         "finally", "relock", "locked", "final", "end"}]
    /\ err \in [Auths -> BOOLEAN] /\ n \in [Auths -> 1..Len(Targets)]
    /\ terminal \in [Auths -> {"none", "succeeded", "failed"}]
    /\ excused \in BOOLEAN /\ faults \in 0..MaxFaults

(* Deletion protection comes back: when no process runs, the lock is there *)
(* whatever failed, but for a lock request or lock read that was lost and  *)
(* a process that died, which the confirmation phrase accepts.             *)
LockBack == (\A a \in Auths : pc[a] = "idle") /\ ~excused => lock

(* "Definite success" is true and stays so: both assignments are gone, and *)
(* this authorization suspended the lock and deleted each of them.         *)
SuccessTruth ==
    \A a \in Auths : terminal[a] = "succeeded" =>
        /\ present = {}
        /\ Roles \union {"unlock"} \subseteq issued[a]

(* Each mutation is issued at most once per authorization, the next target *)
(* only after the one before, and nothing is deleted after the lock was    *)
(* restored.                                                               *)
InOrder ==
    \A a \in Auths : \E i \in 0..Len(Targets) + 1 :
        \E tail \in {<<>>, <<"relock">>} :
            intents[a] = SubSeq(<<"unlock">> \o Targets, 1, i) \o tail

(* A suspended lock is eventually restored.                                *)
Restored == (~lock /\ ~excused) ~> (lock \/ excused)
===============================================================================
