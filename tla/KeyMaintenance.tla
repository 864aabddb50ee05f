---------------------------- MODULE KeyMaintenance ----------------------------
(***************************************************************************)
(* private_release_key_expiry_maintenance.Maintenance.run: the operator    *)
(* grants himself one role on the signing key, patches its expiry once,    *)
(* and takes the grant back under the cleanup lock's guard, all within one *)
(* authorization of 5700 seconds.  Time is in seconds from its start.      *)
(***************************************************************************)
EXTENDS Integers

CONSTANTS
    MaxFaults,   \* bound: lost answers, failed reads, the process dead
    Starts       \* when the claimed run begins

End      == 5700
Request  == 92      \* REQUEST_ENVELOPE_SECONDS
Window   == 692     \* a creation takes effect within 600 s of its request
Quick    == 2
Poll     == 300     \* bound: the polls of a settlement, 2 s apart in the code
Kinds    == {"role", "assignment"}
(* The steps of a grant's creation.                                        *)
AbsentAt == [role |-> "absentRole", assignment |-> "absentAssignment"]
PutAt    == [role |-> "putRole", assignment |-> "putAssignment"]
SettleAt == [role |-> "settleRole", assignment |-> "settleAssignment"]

VARIABLES
    now, claimed,
    there,      \* grants that exist
    lock,       \* the vault's CanNotDelete lock is there
    exp,        \* the key's expiry
    flight,     \* creations and patches that take effect later
    owned,      \* grants this run may have created
    uncertain,  \* those of which it is not sure
    boundary,   \* kind -> end of its settlement window
    attempts,   \* mutations that were consumed
    pc, renewal, failure,
    late,       \* a request of the cleanup was not admitted for lack of time
    receipt,    \* "none", "PASS" or "NO_GO"
    faults

vars == <<now, claimed, there, lock, exp, flight, owned, uncertain, boundary,
          attempts, pc, renewal, failure, late, receipt, faults>>

Cloud == <<there, lock, exp, flight>>
Own   == <<owned, uncertain, boundary, attempts>>

Fault   == faults < MaxFaults /\ faults' = faults + 1
Take(d) == now' = now + d
(* _admit: a whole request envelope fits before the phase ends.            *)
Admit(end) == now + Request <= end

(* An exception ends the setup and leads to the cleanup.                   *)
Raise == pc' = "cleanup" /\ failure' = TRUE

(***************************************************************************)
(* Setup                                                                   *)
(***************************************************************************)

(* validate_preflight: nothing of an earlier ceremony is there, the locks, *)
(* the vault and the key are the reviewed ones.                            *)
Baseline == there = {} /\ lock /\ exp = "old"

(* The claim file admits one run on this host, early enough to grant.      *)
Claim ==
    /\ pc = "start" /\ ~claimed
    /\ Baseline
    /\ now + Request <= 208
    /\ claimed' = TRUE
    /\ pc' = "absentRole"
    /\ UNCHANGED <<now, Cloud, Own, renewal, failure, late, receipt, faults>>

Absent(k) ==
    /\ pc = AbsentAt[k]
    /\ \E d \in {Quick, Request} : Take(d)
    /\ \/ Admit(600) /\ k \notin there /\ pc' = PutAt[k] /\ UNCHANGED <<failure, faults>>
       \/ (~Admit(600) \/ k \in there) /\ Raise /\ UNCHANGED faults
       \/ Fault /\ Raise
    /\ UNCHANGED <<claimed, Cloud, Own, renewal, late, receipt>>

(* mutate, for a grant: admitted in the first 208 seconds, consumed before *)
(* it leaves; from then on the grant may be this run's.                    *)
Put(k) ==
    /\ pc = PutAt[k]
    /\ \/ now > 208 /\ Raise /\ UNCHANGED <<now, Cloud, Own, faults>>
       \/ /\ now <= 208
          /\ owned' = owned \union {k}
          /\ boundary' = [boundary EXCEPT ![k] = now + Window]
          /\ attempts' = attempts \union {k}
          /\ UNCHANGED <<lock, exp>>
          /\ \E d \in {Quick, Request} : Take(d)
          /\ \/ /\ there' = there \union {k} /\ pc' = SettleAt[k]
                /\ UNCHANGED <<flight, uncertain, failure, faults>>
             \/ /\ Fault /\ Raise
                /\ uncertain' = uncertain \union {k}
                /\ \/ UNCHANGED <<there, flight>>
                   \/ flight' = flight \union {k} /\ UNCHANGED there
                   \/ there' = there \union {k} /\ UNCHANGED flight
    /\ UNCHANGED <<claimed, renewal, late, receipt>>

(* settle: the grant is visible before the setup's 600 seconds are over.   *)
Settle(k) ==
    /\ pc = SettleAt[k]
    /\ \E d \in {Quick, Request} : Take(d)
    /\ \/ Admit(600) /\ k \in there
          /\ pc' = (IF k = "role" THEN "absentAssignment" ELSE "propagate")
          /\ UNCHANGED <<uncertain, failure, faults>>
       \/ /\ \/ ~Admit(600) /\ UNCHANGED faults
             \/ Fault
          /\ Raise /\ uncertain' = uncertain \union {k}
    /\ UNCHANGED <<claimed, Cloud, owned, boundary, attempts, renewal, late, receipt>>

(* The propagation wait, without a look at the key.                        *)
Propagate ==
    /\ pc = "propagate"
    /\ now' = IF now < 480 THEN 480 ELSE now
    /\ pc' = "getKey"
    /\ UNCHANGED <<claimed, Cloud, Own, renewal, failure, late, receipt, faults>>

(***************************************************************************)
(* The key                                                                 *)
(***************************************************************************)

(* validate_public_key, before: the exact key with its old expiry.         *)
GetKey ==
    /\ pc = "getKey"
    /\ \E d \in {Quick, Request} : Take(d)
    /\ \/ now <= 600 /\ Admit(900) /\ exp = "old" /\ pc' = "patch" /\ UNCHANGED <<failure, faults>>
       \/ ~(now <= 600 /\ Admit(900) /\ exp = "old") /\ Raise /\ UNCHANGED faults
       \/ Fault /\ Raise
    /\ UNCHANGED <<claimed, Cloud, Own, renewal, late, receipt>>

(* The one PATCH; whatever becomes of it, the key is read once more.       *)
Patch ==
    /\ pc = "patch"
    /\ pc' = "reread"
    /\ \/ /\ ~(now <= 690 /\ Admit(900) /\ End - now >= 4800)
          /\ failure' = TRUE /\ renewal' = "FAILED"
          /\ UNCHANGED <<now, exp, flight, attempts, faults>>
       \/ /\ now <= 690 /\ Admit(900) /\ End - now >= 4800
          /\ attempts' = attempts \union {"patch"}
          /\ \E d \in {Quick, Request} : Take(d)
          /\ \/ exp' = "new" /\ renewal' = "ACCEPTED" /\ UNCHANGED <<flight, failure, faults>>
             \/ /\ Fault /\ failure' = TRUE /\ renewal' = "FAILED"
                /\ \/ exp' \in {exp, "new"} /\ UNCHANGED flight
                   \/ flight' = flight \union {"patch"} /\ UNCHANGED exp
    /\ UNCHANGED <<claimed, there, lock, owned, uncertain, boundary, late, receipt>>

Reread ==
    /\ pc = "reread"
    /\ \E d \in {Quick, Request} : Take(d)
    /\ \/ /\ now <= 780 /\ Admit(900) /\ exp = "new"
          /\ pc' = "cleanup"
          /\ renewal' = (IF renewal = "ACCEPTED" THEN "PASS" ELSE renewal)
          /\ UNCHANGED <<failure, faults>>
       \/ ~(now <= 780 /\ Admit(900) /\ exp = "new") /\ Raise /\ UNCHANGED <<renewal, faults>>
       \/ Fault /\ Raise /\ UNCHANGED renewal
    /\ UNCHANGED <<claimed, Cloud, Own, late, receipt>>

(***************************************************************************)
(* Cleanup                                                                 *)
(***************************************************************************)

(* reconcile_creation reuses the window of the original request.           *)
Boundary(k) == boundary[k]

(* Mutant: a first 404 proves that nothing was created.                    *)
ReconcileAtOnce(k) ==
    /\ k \in uncertain
    /\ uncertain' = uncertain \ {k}
    /\ owned' = IF k \in there THEN owned ELSE owned \ {k}
    /\ \E d \in {Quick, Request} : Take(d)
    /\ UNCHANGED <<boundary, pc, failure, late, faults>>

(* Mutant: what is not there is no longer owned, but still uncertain.      *)
ReconcileHalf(k) ==
    /\ k \in uncertain
    /\ owned' = IF k \in there THEN owned ELSE owned \ {k}
    /\ uncertain' = IF k \in there THEN uncertain \ {k} ELSE uncertain
    /\ now' = now + Poll
    /\ UNCHANGED <<boundary, pc, failure, late, faults>>

(* An uncertain creation is looked for until its window is over.           *)
Reconcile(k) ==
    /\ k \in uncertain
    /\ UNCHANGED boundary
    /\ \/ /\ k \in there
          /\ uncertain' = uncertain \ {k}
          /\ \E d \in {Quick, Request} : Take(d)
          /\ UNCHANGED <<owned, pc, failure, late, faults>>
       \/ /\ k \notin there /\ now < Boundary(k)
          /\ now' = IF now + Poll < Boundary(k) THEN now + Poll ELSE Boundary(k)
          /\ UNCHANGED <<uncertain, owned, pc, failure, late, faults>>
       \/ /\ k \notin there /\ now >= Boundary(k)
          /\ uncertain' = uncertain \ {k}
          /\ owned' = owned \ {k}
          /\ \E d \in {Quick, Request} : Take(d)
          /\ UNCHANGED <<pc, failure, late, faults>>
       \/ /\ Fault
          /\ pc' = "proof" /\ failure' = TRUE
          /\ UNCHANGED <<now, uncertain, owned, late>>

Reconciling ==
    /\ pc = "cleanup" /\ uncertain # {}
    /\ \E k \in uncertain : Reconcile(k)
    /\ UNCHANGED <<claimed, Cloud, attempts, renewal, receipt>>

Reconciled ==
    /\ pc = "cleanup" /\ uncertain = {}
    /\ pc' = IF "assignment" \in owned THEN "unlock" ELSE "definition"
    /\ UNCHANGED <<now, claimed, Cloud, Own, renewal, failure, late, receipt, faults>>

(* Mutant: each deletion may take 1200 seconds to be visible.              *)
LongestSlow == [unlock |-> 3 * 92 + 214, delete |-> 3 * 92 + 1294, relock |-> 3 * 92 + 122,
                restore |-> 3 * 92 + 122, definition |-> 3 * 92 + 1294, proof |-> 16 * 92 + 120]

(* The cleanup's phases, with the longest time that phase_budget allows    *)
(* each; the final proof waits 120 seconds between its two snapshots.      *)
Longest == [unlock |-> 3 * 92 + 214, delete |-> 3 * 92 + 694, relock |-> 3 * 92 + 122,
            restore |-> 3 * 92 + 122, definition |-> 3 * 92 + 694, proof |-> 16 * 92 + 120]

Phase(name, end) ==
    /\ pc = name
    /\ now' \in {now + (IF name = "proof" THEN 120 ELSE Quick), now + Longest[name]}
    /\ late' = (late \/ now' > end)
InTime == now' <= End

(* The lock is suspended around the deletion; what goes wrong is raised    *)
(* after the lock is back, and ends the cleanup.                           *)
Unlock ==
    /\ Phase("unlock", End)
    /\ IF InTime
       THEN \/ pc' = "delete" /\ lock' = FALSE /\ UNCHANGED <<failure, faults>>
            \/ Fault /\ pc' = "restore" /\ failure' = TRUE /\ lock' \in BOOLEAN
       ELSE pc' = "proof" /\ failure' = TRUE /\ UNCHANGED <<lock, faults>>
    /\ UNCHANGED <<claimed, there, exp, flight, Own, renewal, receipt>>

Delete ==
    /\ Phase("delete", End)
    /\ \/ /\ InTime /\ pc' = "relock"
          /\ there' = there \ {"assignment"}
          /\ UNCHANGED <<failure, faults>>
       \/ /\ ~InTime /\ pc' = "restore"
          /\ failure' = TRUE /\ UNCHANGED <<there, faults>>
       \/ /\ Fault /\ pc' = "restore"
          /\ failure' = TRUE /\ there' \in {there, there \ {"assignment"}}
    /\ UNCHANGED <<claimed, lock, exp, flight, Own, renewal, receipt>>

(* The exact restoration may be admitted for 900 seconds after the end.    *)
Relock ==
    /\ Phase("relock", End + 900) \/ Phase("restore", End + 900)
    /\ \/ /\ now' <= End + 900
          /\ lock' = TRUE
          /\ pc' = (IF pc = "restore" THEN "proof" ELSE "definition")
          /\ UNCHANGED <<failure, faults>>
       \/ /\ \/ now' > End + 900 /\ UNCHANGED <<lock, faults>>
             \/ Fault /\ (UNCHANGED lock \/ lock' = TRUE)
          /\ failure' = TRUE /\ pc' = "proof"
    /\ UNCHANGED <<claimed, there, exp, flight, Own, renewal, receipt>>

(* The role definition goes when nothing refers to it.                     *)
Definition ==
    /\ pc' = "proof"
    /\ IF "role" \in owned
       THEN /\ Phase("definition", End)
            /\ \/ /\ InTime /\ "assignment" \notin there
                  /\ there' = there \ {"role"} /\ UNCHANGED <<failure, faults>>
               \/ /\ ~InTime \/ "assignment" \in there
                  /\ failure' = TRUE /\ UNCHANGED <<there, faults>>
               \/ Fault /\ failure' = TRUE /\ there' \in {there, there \ {"role"}}
       ELSE pc = "definition" /\ UNCHANGED <<now, late, there, failure, faults>>
    /\ UNCHANGED <<claimed, lock, exp, flight, Own, renewal, receipt>>

(* Mutant: the receipt does not wait for what the final proof finds.       *)
ProofIgnored ==
    /\ Phase("proof", End)
    /\ pc' = "done"
    /\ receipt' = IF renewal = "PASS" /\ ~failure THEN "PASS" ELSE "NO_GO"
    /\ UNCHANGED <<claimed, Cloud, Own, renewal, failure, faults>>

(* final_proof: nothing of the ceremony is seen in either snapshot; then   *)
(* the receipt, which is PASS only after a run without any failure.        *)
Proof ==
    /\ Phase("proof", End)
    /\ \/ /\ InTime /\ there = {} /\ lock
          /\ (renewal = "PASS" => exp = "new")
          /\ pc' = "done"
          /\ receipt' = IF renewal = "PASS" /\ ~failure THEN "PASS" ELSE "NO_GO"
          /\ UNCHANGED faults
       \/ /\ ~(InTime /\ there = {} /\ lock /\ (renewal = "PASS" => exp = "new"))
          /\ pc' = "raised" /\ UNCHANGED <<receipt, faults>>
       \/ Fault /\ pc' = "raised" /\ UNCHANGED receipt
    /\ UNCHANGED <<claimed, Cloud, Own, renewal, failure>>

(***************************************************************************)
(* Azure and the process                                                   *)
(***************************************************************************)

Land(r) ==
    /\ r \in flight
    /\ flight' = flight \ {r}
    /\ IF r = "patch"
       THEN "assignment" \in there /\ exp' = "new" /\ UNCHANGED there
       ELSE now <= boundary[r] - Request /\ there' = there \union {r} /\ UNCHANGED exp
    /\ UNCHANGED <<now, claimed, lock, Own, pc, renewal, failure, late, receipt, faults>>

Crash ==
    /\ pc \notin {"start", "done", "raised", "dead"}
    /\ Fault
    /\ pc' = "dead"
    /\ UNCHANGED <<now, claimed, Cloud, Own, renewal, failure, late, receipt>>

Init ==
    /\ now \in Starts
    /\ claimed = FALSE
    /\ there = {} /\ lock = TRUE /\ exp = "old" /\ flight = {}
    /\ owned = {} /\ uncertain = {}
    /\ boundary = [k \in Kinds |-> 0]
    /\ attempts = {}
    /\ pc = "start" /\ renewal = "NONE" /\ failure = FALSE
    /\ late = FALSE /\ receipt = "none" /\ faults = 0

Next == \/ Claim
        \/ \E k \in Kinds : Absent(k) \/ Put(k) \/ Settle(k)
        \/ Propagate \/ GetKey \/ Patch \/ Reread
        \/ Reconciling \/ Reconciled \/ Unlock \/ Delete \/ Relock \/ Definition \/ Proof
        \/ \E r \in Kinds \union {"patch"} : Land(r)
        \/ Crash

Spec == Init /\ [][Next]_vars

(***************************************************************************)
(* Properties                                                              *)
(***************************************************************************)

(* Every variable stays in its domain.                                     *)
TypeOK ==
    /\ now \in Nat /\ claimed \in BOOLEAN /\ there \subseteq Kinds /\ lock \in BOOLEAN
    /\ exp \in {"old", "new"} /\ flight \subseteq Kinds \union {"patch"}
    /\ owned \subseteq Kinds /\ uncertain \subseteq owned
    /\ boundary \in [Kinds -> Nat] /\ attempts \subseteq Kinds \union {"patch"}
    /\ pc \in {"start", "absentRole", "putRole", "settleRole", "absentAssignment",
               "putAssignment", "settleAssignment", "propagate", "getKey", "patch", "reread",
               "cleanup", "unlock", "delete", "relock", "restore",
               "definition", "proof", "done", "raised", "dead"}
    /\ renewal \in {"NONE", "ACCEPTED", "FAILED", "PASS"}
    /\ failure \in BOOLEAN /\ late \in BOOLEAN
    /\ receipt \in {"none", "PASS", "NO_GO"} /\ faults \in 0..MaxFaults

(* A PASS is true and stays so: the key was renewed, no grant is left or   *)
(* comes back; and behind any receipt the lock protects the vault.         *)
ReceiptTruth ==
    /\ receipt = "PASS" => there = {} /\ exp = "new"
    /\ receipt # "none" => lock

(* "A first404 after an ambiguous creation is not a convergence proof":    *)
(* every receipt states that the cleanup passed, so no grant exists then   *)
(* or appears later.                                                       *)
ConvergedCleanup == receipt # "none" => there = {}

(* phase_budget's arithmetic: whatever the setup spent, and however long   *)
(* an uncertain creation was looked for, no request of the cleanup comes   *)
(* too late to be admitted.                                                *)
CleanupFits == ~late

(* A grant that exists is never forgotten: while the run is alive it is    *)
(* among those that the cleanup will remove.                               *)
NothingForgotten == pc \notin {"raised", "dead"} => there \subseteq owned
===============================================================================
