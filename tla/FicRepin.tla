------------------------------- MODULE FicRepin -------------------------------
(***************************************************************************)
(* private_release_v2_fic_repin.apply: the one federated credential of the *)
(* publisher is moved from source S1 to source S2.  Hosts that hold one    *)
(* authorization run it, each with a create-only ledger of its own; they   *)
(* share the inventory in Graph and one claim in ARM.                      *)
(***************************************************************************)
EXTENDS Naturals, FiniteSets

CONSTANTS Hosts, MaxFaults   \* bound: answers lost, files torn, processes dead

VARIABLES
    fic,      \* the publisher's credentials
    claim,    \* the authorization's ARM deployment exists
    flight,   \* requests whose answer was lost and that take effect later
    papers,   \* the preflight document and the authorization that binds it
    pc,       \* host -> where its run is
    seen,     \* host -> the inventory its run found at first
    ledger,   \* host -> the files that are complete
    torn,     \* host -> the files that a dying process left incomplete
    faults

vars == <<fic, claim, flight, papers, pc, seen, ledger, torn, faults>>

Files == {"claim", "global", "deleted", "empty", "created", "terminal"}

(* Mutant: an empty inventory is a class of its own that nothing handles.  *)
StateOfLoose(set) == IF set = {} THEN "none" ELSE IF set = {"s1"} THEN "s1" ELSE "s2"

(* classify_fic_state; two credentials are refused.                        *)
StateOf(set) == CASE set = {}     -> "empty"
                  [] set = {"s1"} -> "s1"
                  [] set = {"s2"} -> "s2"
                  [] OTHER        -> "overlap"

Exists(h, f) == f \in ledger[h] \union torn[h]

Go(h, label) == pc' = [pc EXCEPT ![h] = label]
Fail(h)      == Go(h, "idle")
Fault        == faults < MaxFaults /\ faults' = faults + 1

(* Ledger.record: a file is created once, with O_EXCL; one that is there   *)
(* must have the same bytes, which an incomplete one has not.              *)
Record(h, f, label) ==
    /\ UNCHANGED <<fic, claim, flight, papers, seen>>
    /\ \/ /\ f \in ledger[h]
          /\ Go(h, label)
          /\ UNCHANGED <<ledger, torn, faults>>
       \/ /\ f \in torn[h]
          /\ Fail(h)
          /\ UNCHANGED <<ledger, torn, faults>>
       \/ /\ ~Exists(h, f)
          /\ ledger' = [ledger EXCEPT ![h] = @ \union {f}]
          /\ Go(h, label)
          /\ UNCHANGED <<torn, faults>>
       \/ /\ ~Exists(h, f)
          /\ torn' = [torn EXCEPT ![h] = @ \union {f}]
          /\ Fail(h)
          /\ Fault
          /\ UNCHANGED ledger

(* Mutant: a credential is deleted by its name, which both sources have.   *)
DeletedByName == {"s1", "s2"}

(* A credential is deleted by its identifier.                              *)
DeletedCredential == {"s1"}

(* What a request does when it reaches Graph or ARM.  A second credential  *)
(* of the same source is refused.                                          *)
Effect(r) ==
    CASE r = "claim"  -> claim' = TRUE /\ UNCHANGED fic
      [] r = "delete" -> fic' = fic \ DeletedCredential /\ UNCHANGED claim
      [] r = "create" -> fic' = fic \union {"s2"} /\ UNCHANGED claim

Accepted(r) == CASE r = "claim"  -> ~claim
                 [] r = "delete" -> fic \intersect DeletedCredential # {}
                 [] r = "create" -> "s2" \notin fic

(* A request is answered as expected, refused, or its answer is lost.      *)
Request(h, r, label) ==
    /\ UNCHANGED <<papers, seen, ledger, torn>>
    /\ \/ Accepted(r) /\ Effect(r) /\ Go(h, label) /\ UNCHANGED <<flight, faults>>
       \/ ~Accepted(r) /\ Fail(h) /\ UNCHANGED <<fic, claim, flight, faults>>
       \/ /\ Fault
          /\ Fail(h)
          /\ \/ UNCHANGED <<fic, claim, flight>>
             \/ Accepted(r) /\ Effect(r) /\ UNCHANGED flight
             \/ flight' = flight \union {r} /\ UNCHANGED <<fic, claim>>

Look == UNCHANGED <<fic, claim, flight, papers, ledger, torn, faults>>

(***************************************************************************)
(* apply                                                                   *)
(***************************************************************************)

(* build_preflight: S1 is the sole credential and the claim is absent.     *)
Observable == StateOf(fic) = "s1" /\ ~claim

Observe ==
    /\ papers = "none"
    /\ Observable
    /\ papers' = "observed"
    /\ UNCHANGED <<fic, claim, flight, pc, seen, ledger, torn, faults>>

(* The ceremony completes the authorization template.                      *)
Authorize ==
    /\ papers = "observed"
    /\ papers' = "authorized"
    /\ UNCHANGED <<fic, claim, flight, pc, seen, ledger, torn, faults>>

(* validate_authorization: it binds the preflight, and both are in time.   *)
Authorized == papers = "authorized"

(* The ledger is not terminal; the local claim is recorded.                *)
Begin(h) ==
    /\ pc[h] = "idle"
    /\ Authorized
    /\ ~Exists(h, "terminal")
    /\ Record(h, "claim", "read")

(* Mutant: only a deletion whose answer was recorded is resumed.           *)
MayStartDeleted(h, s) ==
    /\ s # "overlap"
    /\ s = "empty" => Exists(h, "deleted")
    /\ s = "s2"    => Exists(h, "empty")

(* From an empty inventory only a host resumes that has recorded the claim, *)
(* from S2 only one that has recorded the empty inventory.                 *)
MayStart(h, s) ==
    /\ s # "overlap"
    /\ s = "empty" => Exists(h, "global")
    /\ s = "s2"    => Exists(h, "empty")

Read(h) ==
    /\ pc[h] = "read"
    /\ LET s == StateOf(fic) IN
       IF MayStart(h, s)
       THEN seen' = [seen EXCEPT ![h] = s] /\ Go(h, "claim")
       ELSE Fail(h) /\ UNCHANGED seen
    /\ Look

(* _ensure_global_claim: read, created if absent while S1 is there, and    *)
(* read back.                                                              *)
ClaimRead(h) ==
    /\ pc[h] = "claim"
    /\ \/ claim /\ Go(h, "claimBack")
       \/ ~claim /\ seen[h] = "s1" /\ Go(h, "claimPut")
       \/ ~claim /\ seen[h] # "s1" /\ Fail(h)
    /\ Look /\ UNCHANGED seen

ClaimPut(h) == pc[h] = "claimPut" /\ Request(h, "claim", "claimBack")

ClaimBack(h) ==
    /\ pc[h] = "claimBack"
    /\ IF claim THEN Go(h, "global") ELSE Fail(h)
    /\ Look /\ UNCHANGED seen

(* Mutant: the new credential is created before the old one is deleted.    *)
ClaimedCreates(h) ==
    /\ pc[h] = "global"
    /\ Record(h, "global", [s1 |-> "empty", empty |-> "empty", s2 |-> "final"][seen[h]])

(* Mutant: the claim is not recorded before the deletion.                  *)
ClaimedUnrecorded(h) ==
    /\ pc[h] = "global"
    /\ Go(h, [s1 |-> "delete", empty |-> "empty", s2 |-> "final"][seen[h]])
    /\ Look /\ UNCHANGED seen

Claimed(h) ==
    /\ pc[h] = "global"
    /\ Record(h, "global", [s1 |-> "delete", empty |-> "empty", s2 |-> "final"][seen[h]])

Delete(h)  == pc[h] = "delete" /\ Request(h, "delete", "deleted")
Deleted(h) == pc[h] = "deleted" /\ Record(h, "deleted", "proveEmpty")

ProveEmpty(h) ==
    /\ pc[h] = "proveEmpty"
    /\ IF StateOf(fic) = "empty" THEN Go(h, "empty") ELSE Fail(h)
    /\ Look /\ UNCHANGED seen

Emptied(h) == pc[h] = "empty" /\ Record(h, "empty", "create")
Create(h)  == pc[h] = "create" /\ Request(h, "create", "final")

Final(h) ==
    /\ pc[h] = "final"
    /\ IF StateOf(fic) = "s2" THEN Go(h, "created") ELSE Fail(h)
    /\ Look /\ UNCHANGED seen

Created(h) == pc[h] = "created" /\ Record(h, "created", "terminal")

(* validate_terminal_receipt: whichever state the run began in, that the   *)
(* inventory was empty in between is proven.                               *)
Proven(h) == seen[h] = "s2" => Exists(h, "empty")

Terminal(h) ==
    /\ pc[h] = "terminal"
    /\ Proven(h)
    /\ Record(h, "terminal", "idle")

Apply(h) ==
    \/ Begin(h) \/ Read(h) \/ ClaimRead(h) \/ ClaimPut(h) \/ ClaimBack(h) \/ Claimed(h)
    \/ Delete(h) \/ Deleted(h) \/ ProveEmpty(h) \/ Emptied(h) \/ Create(h) \/ Final(h)
    \/ Created(h) \/ Terminal(h)

Crash(h) ==
    /\ pc[h] # "idle"
    /\ Fail(h)
    /\ Fault
    /\ UNCHANGED <<fic, claim, flight, papers, seen, ledger, torn>>

Land ==
    \E r \in flight :
        /\ flight' = flight \ {r}
        /\ IF Accepted(r) THEN Effect(r) ELSE UNCHANGED <<fic, claim>>
        /\ UNCHANGED <<papers, pc, seen, ledger, torn, faults>>

(* Five minutes after the observation, or at the authorization's end.      *)
Expire ==
    /\ papers \in {"observed", "authorized"}
    /\ papers' = "stale"
    /\ UNCHANGED <<fic, claim, flight, pc, seen, ledger, torn, faults>>

Next == (\E h \in Hosts : Apply(h) \/ Crash(h)) \/ Land
        \/ Observe \/ Authorize \/ Expire

Init ==
    /\ fic = {"s1"}
    /\ claim = FALSE
    /\ flight = {}
    /\ papers = "none"
    /\ pc = [h \in Hosts |-> "idle"]
    /\ seen = [h \in Hosts |-> "s1"]
    /\ ledger = [h \in Hosts |-> {}]
    /\ torn = [h \in Hosts |-> {}]
    /\ faults = 0

Spec == Init /\ [][Next]_vars

(* A run goes on; one that failed is started again by its operator; what   *)
(* Graph and ARM have accepted takes effect.                               *)
FairSpec == Spec /\ (\A h \in Hosts : WF_vars(Apply(h))) /\ WF_vars(Land)

(***************************************************************************)
(* Properties                                                              *)
(***************************************************************************)

(* Types.                                                                  *)
TypeOK ==
    /\ fic \subseteq {"s1", "s2"}
    /\ claim \in BOOLEAN
    /\ flight \subseteq {"claim", "delete", "create"}
    /\ papers \in {"none", "observed", "authorized", "stale"}
    /\ pc \in [Hosts -> {"idle", "read", "claim", "claimPut", "claimBack", "global",
                         "delete", "deleted", "proveEmpty", "empty", "create",
                         "final", "created", "terminal"}]
    /\ seen \in [Hosts -> {"s1", "empty", "s2"}]
    /\ ledger \in [Hosts -> SUBSET Files]
    /\ torn \in [Hosts -> SUBSET Files]
    /\ faults \in 0 .. MaxFaults

(* The two credentials never exist together: whatever hosts run at a time, *)
(* and however late a lost deletion or creation takes effect.              *)
NoOverlap == ~({"s1", "s2"} \subseteq fic)

(* A terminal receipt is true when it is written and stays so: S2 is the   *)
(* sole credential, and nothing under way takes it away.                   *)
ReceiptTruth == \A h \in Hosts : "terminal" \in ledger[h] => fic = {"s2"}

(* The credential is never removed by a host that has no durable record of *)
(* the claim, without which it could not resume from the empty inventory   *)
(* it has left behind.                                                     *)
Resumable ==
    \A h \in Hosts :
        /\ pc[h] \in {"delete", "deleted", "proveEmpty"} => "global" \in ledger[h]
        /\ fic = {} => \E k \in Hosts : "global" \in ledger[k]
        /\ fic = {"s2"} => \E k \in Hosts : {"global", "empty"} \subseteq ledger[k]

(* Whatever hosts apply the authorization at a time and however late a     *)
(* lost request takes effect: the two credentials never exist together, a  *)
(* terminal receipt is true and stays so, and an emptied inventory has a   *)
(* record from which it can be resumed.                                    *)
RepinSafe == TypeOK /\ NoOverlap /\ ReceiptTruth /\ Resumable

(* The authorization has expired, or a ledger file was torn, which is left *)
(* to manual reconciliation.                                               *)
Stranded == papers = "stale" \/ \E h \in Hosts : torn[h] # {}

(* An inventory that was emptied gets its S2 credential from a run that is *)
(* repeated, unless it is stranded.                                        *)
Repinned == (fic = {}) ~> (fic = {"s2"} \/ Stranded)

(* README: the claim is single use, and only the same host resumes; so one *)
(* authorization ends in one terminal receipt.                             *)
SingleReceipt == Cardinality({h \in Hosts : "terminal" \in ledger[h]}) <= 1
===============================================================================
