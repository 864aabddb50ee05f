---------------------------- MODULE EvidenceLedger ----------------------------
(***************************************************************************)
(* UseLedger: the directory that consumes one authorization, the journal   *)
(* of its mutations, the marker of an opened network, and the evidence     *)
(* files that an apply and any number of resumes write create-only.  A     *)
(* process may die between any two calls of the file system; the machine   *)
(* may lose power and with it what was not synchronised.                   *)
(***************************************************************************)
EXTENDS Naturals, Sequences, FiniteSets

CONSTANTS
    Procs,          \* bound: the processes that are ever started
    IntentOf,       \* cloud-mutation-0001.json and its successors: the file
    ResultOf,       \* of each mutation's intent and of its result
    MaxMutations,   \* bound: mutations of the plan
    MaxUndone,      \* bound: mutations that compensate for them
    MaxFaults       \* bound: failed calls, dead processes, power losses

(* Each record has a name of its own: first those of the plan, then those  *)
(* of the compensation.                                                    *)
Records(ms) == {IntentOf[n] : n \in ms} \union {ResultOf[n] : n \in ms}
Undoing  == (MaxMutations + 1) .. (MaxMutations + MaxUndone)
Journal  == Records(1..MaxMutations)
(* persist_finalization_artifacts: the S2 files (two of five), then the    *)
(* bundle; before them the terminal source and the snapshot.               *)
Evidence == <<"source", "snapshot", "s2a", "s2b", "bundle">>
Written  == {Evidence[n] : n \in DOMAIN Evidence}
Files    == {"dir", "state", "marker", "terminal"}
              \union Journal \union Records(Undoing) \union Written

VARIABLES
    view,     \* file -> what a reader sees: "none", "torn" or "full"
    safe,     \* files that survive a loss of power as they are
    mode,     \* process -> "none", "apply" or "resume"
    pc,       \* process -> its next call
    at,       \* process -> the file it writes, and where it goes then
    sent,     \* <<process, mutation>>: what may have reached Azure
    next,     \* the mutation that the execution is at
    net,      \* the bridge's public network
    status,   \* what the execution's terminal receipt is to say
    admitted, \* a bootstrap of another authorization was let in
    power,    \* power was lost
    faults

world == <<sent, next, net, status, admitted>>
vars  == <<view, safe, mode, pc, at, world, power, faults>>

Nothing == [file |-> "none", then |-> "none"]
Fault   == faults < MaxFaults /\ faults' = faults + 1
Go(p, label) == pc' = [pc EXCEPT ![p] = label]

(***************************************************************************)
(* Files                                                                   *)
(***************************************************************************)

(* open(O_CREAT | O_EXCL), write, fsync of the file and of its directory.  *)
Begin(p, f, label) ==
    /\ view[f] = "none"
    /\ view' = [view EXCEPT ![f] = "torn"]
    /\ at' = [at EXCEPT ![p] = [file |-> f, then |-> label]]
    /\ Go(p, "write")
    /\ UNCHANGED safe

Write(p) ==
    /\ pc[p] = "write"
    /\ view' = [view EXCEPT ![at[p].file] = "full"]
    /\ Go(p, "sync")
    /\ UNCHANGED <<safe, mode, at, world, power, faults>>

(* Mutant: nothing is synchronised; the close of the file is trusted.      *)
SyncNothing(p) ==
    /\ pc[p] = "sync"
    /\ Go(p, at[p].then)
    /\ at' = [at EXCEPT ![p] = Nothing]
    /\ UNCHANGED <<view, safe, mode, world, power, faults>>

Sync(p) ==
    /\ pc[p] = "sync"
    /\ safe' = safe \union {at[p].file}
    /\ Go(p, at[p].then)
    /\ at' = [at EXCEPT ![p] = Nothing]
    /\ UNCHANGED <<view, mode, world, power, faults>>

(* retire_bridge_settings_after_terminal_source_snapshot: an execution     *)
(* whose source was persisted owns nothing any more.                       *)
Persisted(p) == {pc[p], at[p].file} \cap (Written \ {"source"}) # {}

(* An exception of the execution leads through its compensation to its     *)
(* terminal receipt, except while it claims or writes that receipt.        *)
Raise(p) ==
    Go(p, IF mode[p] # "apply" \/ at[p].file \in {"state", "terminal"} THEN "failed"
          ELSE IF Persisted(p) THEN "retired" ELSE "raised")

(* Mutant: a record that could not be written is passed over.              *)
CallPassed(p) ==
    /\ pc[p] \in {"write", "sync"}
    /\ Fault
    /\ Go(p, at[p].then)
    /\ at' = [at EXCEPT ![p] = Nothing]
    /\ UNCHANGED <<view, safe, mode, world, power>>

(* Mutant: the exception's target is looked up after it was reset.         *)
CallLost(p) ==
    /\ pc[p] \in {"write", "sync"}
    /\ Fault
    /\ at' = [at EXCEPT ![p] = Nothing]
    /\ Go(p, at'[p].then)
    /\ UNCHANGED <<view, safe, mode, world, power>>

(* A call of the file system fails; what was begun stays as it is.         *)
CallFails(p) ==
    /\ pc[p] \in {"write", "sync"}
    /\ Fault
    /\ Raise(p)
    /\ at' = [at EXCEPT ![p] = Nothing]
    /\ UNCHANGED <<view, safe, mode, world, power>>

(***************************************************************************)
(* One execution                                                           *)
(***************************************************************************)

(* Mutant: a directory that is there is taken for the execution's own.     *)
MkdirAnyway(p) == view' = [view EXCEPT !["dir"] = "full"] /\ Go(p, "parent")

(* The directory is created once: that is the consumed authorization.      *)
Mkdir(p) ==
    \/ view["dir"] = "none" /\ view' = [view EXCEPT !["dir"] = "full"] /\ Go(p, "parent")
    \/ view["dir"] # "none" /\ UNCHANGED view /\ Go(p, "failed")

(* No execution begins while a marker is left by any earlier one.          *)
NoIncident == view["marker"] = "none"

Apply(p) ==
    /\ pc[p] = "idle" /\ NoIncident
    /\ mode' = [mode EXCEPT ![p] = "apply"]
    /\ Mkdir(p)
    /\ UNCHANGED <<safe, at, world, power, faults>>

(* Mutant: the new directory is not made durable.                          *)
ParentUnsynced(p) ==
    /\ pc[p] = "parent"
    /\ next' = 1 /\ status' = "none"
    /\ Go(p, "claim")
    /\ UNCHANGED <<view, safe, mode, at, sent, net, admitted, power, faults>>

Parent(p) ==
    /\ pc[p] = "parent"
    /\ safe' = safe \union {"dir"}
    /\ next' = 1 /\ status' = "none"
    /\ Go(p, "claim")
    /\ UNCHANGED <<view, mode, at, sent, net, admitted, power, faults>>

Claim(p) ==
    /\ pc[p] = "claim" /\ Begin(p, "state", "run")
    /\ UNCHANGED <<mode, world, power, faults>>

(* append_cloud_mutation: the intent is durable before the request leaves. *)
Intent(p) ==
    /\ pc[p] = "run" /\ next <= MaxMutations
    /\ Begin(p, IntentOf[next], "send")
    /\ UNCHANGED <<mode, world, power, faults>>

(* Mutant: a compensation sends its request without a record of it.        *)
UndoUnrecorded(p) ==
    /\ pc[p] = "raised"
    /\ \E x \in sent : x[1] = p
    /\ \E n \in Undoing : sent' = sent \union {<<p, n>>}
    /\ UNCHANGED <<view, safe, mode, pc, at, next, net, status, admitted, power, faults>>

(* compensate_temporary: what an execution may own, because it has sent    *)
(* for it, is undone by a mutation that is journaled as the others are; an *)
(* error of it is noted and the next one is tried.                         *)
Undo(p) ==
    /\ pc[p] = "raised"
    /\ \E x \in sent : x[1] = p
    /\ \E n \in Undoing :
          /\ \A m \in Undoing : m < n => view[IntentOf[m]] # "none"
          /\ Begin(p, IntentOf[n], "undo")
          /\ next' = n
    /\ UNCHANGED <<mode, sent, net, status, admitted, power, faults>>

Send(p) ==
    /\ pc[p] \in {"send", "undo"}
    /\ sent' = sent \union {<<p, next>>}
    /\ \/ Go(p, IF pc[p] = "send" THEN "answered" ELSE "undone") /\ UNCHANGED faults
       \/ Go(p, "raised") /\ Fault
    /\ UNCHANGED <<view, safe, mode, at, next, net, status, admitted, power>>

Answered(p) ==
    /\ \/ /\ pc[p] = "answered" /\ Begin(p, ResultOf[next], "run")
          /\ next' = next + 1
       \/ /\ pc[p] = "undone" /\ Begin(p, ResultOf[next], "raised")
          /\ UNCHANGED next
    /\ UNCHANGED <<mode, sent, net, status, admitted, power, faults>>

(* Mutant: the network is opened first and marked once it is.              *)
MarkLate(p) ==
    /\ pc[p] = "run" /\ net = "closed" /\ view["marker"] = "none"
    /\ view["source"] = "none"
    /\ net' = "open"
    /\ Begin(p, "marker", "open")
    /\ UNCHANGED <<mode, sent, next, status, admitted, power, faults>>

(* write_unresolved_public_network_enable, before the network is opened.   *)
Mark(p) ==
    /\ pc[p] = "run" /\ net = "closed"
    /\ Begin(p, "marker", "enable")
    /\ UNCHANGED <<mode, world, power, faults>>

Enable(p) ==
    /\ pc[p] = "enable"
    /\ net' = "open"
    /\ \/ Go(p, "open") /\ UNCHANGED faults
       \/ Go(p, "raised") /\ Fault
    /\ UNCHANGED <<view, safe, mode, at, sent, next, status, admitted, power>>

(* The marker is removed only after the network is proved closed.          *)
Clear(p) ==
    /\ pc[p] = "open"
    /\ \/ /\ net' = "closed"
          /\ view' = [view EXCEPT !["marker"] = "none"]
          /\ safe' = safe \ {"marker"}
          /\ Go(p, "run")
          /\ UNCHANGED faults
       \/ /\ Fault /\ Go(p, "raised")
          /\ net' \in {"open", "closed"}
          /\ UNCHANGED <<view, safe>>
    /\ UNCHANGED <<mode, at, sent, next, status, admitted, power>>

(* read_cloud_mutations, for the postconditions: every record is there,    *)
(* complete and in its place.                                              *)
Verified(p) ==
    /\ pc[p] = "run" /\ next > MaxMutations
    /\ Go(p, IF \A j \in Journal : view[j] = "full" THEN "source" ELSE "raised")
    /\ UNCHANGED <<view, safe, mode, at, world, power, faults>>

(***************************************************************************)
(* The evidence                                                            *)
(***************************************************************************)

(* Mutant: the bundle is written before the last of the S2 files.          *)
AfterSwapped(f) == CASE f = "source"   -> "snapshot"
                     [] f = "snapshot" -> "s2a"
                     [] f = "s2a"      -> "bundle"
                     [] f = "s2b"      -> "readback"
                     [] f = "bundle"   -> "s2b"

After(f) == CASE f = "source"   -> "snapshot"
              [] f = "snapshot" -> "s2a"
              [] f = "s2a"      -> "s2b"
              [] f = "s2b"      -> "bundle"
              [] f = "bundle"   -> "readback"

(* write_create_only_artifact: a file that is there is accepted if a       *)
(* reader sees the exact bytes.                                            *)
Artifact(p, f) ==
    /\ pc[p] = f
    /\ \/ Begin(p, f, After(f))
       \/ view[f] = "full" /\ Go(p, After(f)) /\ UNCHANGED <<view, safe, at>>
       \/ view[f] = "torn" /\ Raise(p) /\ UNCHANGED <<view, safe, at>>
    /\ UNCHANGED <<mode, world, power, faults>>

Readback(p) ==
    /\ pc[p] = "readback"
    /\ IF mode[p] = "apply"
       THEN Go(p, "complete") /\ status' = "complete"
       ELSE Go(p, "done") /\ UNCHANGED status
    /\ UNCHANGED <<view, safe, mode, at, sent, next, net, admitted, power, faults>>

(* write_terminal, in the finally clause; a failure of it never hides the  *)
(* one before it.                                                          *)
Terminal(p) ==
    /\ pc[p] \in {"raised", "retired", "complete"}
    /\ status' = IF pc[p] = "complete" THEN status ELSE "failed"
    /\ \/ Begin(p, "terminal", IF pc[p] = "complete" THEN "done" ELSE "failed")
       \/ view["terminal"] # "none" /\ Go(p, "failed") /\ UNCHANGED <<view, safe, at>>
    /\ UNCHANGED <<mode, sent, next, net, admitted, power, faults>>

(* A file is loaded if it is complete, canonical and this authorization's; *)
(* the persist operation's checks are applied to what was loaded.          *)
StateLoads    == view["state"] = "full"
SourceLoads   == view["source"] = "full"
SnapshotLoads == view["snapshot"] = "full"

(* resume_local_finalization_from_snapshot.                                *)
Resume(p) ==
    /\ pc[p] = "idle" /\ view["dir"] = "full"
    /\ mode' = [mode EXCEPT ![p] = "resume"]
    /\ Go(p, CASE StateLoads /\ SnapshotLoads -> "snapshot"
                [] StateLoads /\ view["snapshot"] = "none" /\ SourceLoads -> "source"
                [] OTHER -> "failed")
    /\ UNCHANGED <<view, safe, at, world, power, faults>>

(* Another authorization's execution looks for markers as well.            *)
Admit ==
    /\ ~admitted /\ NoIncident
    /\ admitted' = TRUE
    /\ UNCHANGED <<view, safe, mode, pc, at, sent, next, net, status, power, faults>>

(***************************************************************************)
(* Crashes                                                                 *)
(***************************************************************************)

Running == {p \in Procs : pc[p] \notin {"idle", "done", "failed"}}

Dies(p) ==
    /\ p \in Running
    /\ Fault
    /\ Go(p, "failed")
    /\ at' = [at EXCEPT ![p] = Nothing]
    /\ UNCHANGED <<view, safe, mode, world, power>>

(* What was not synchronised may be lost, whole or in part; a directory    *)
(* that is lost takes its files with it.                                   *)
Unsafe == {f \in Files \ safe : view[f] # "none"}
Left(f) == IF view[f] = "full" /\ f # "dir" THEN {"none", "torn", "full"} ELSE {"none", view[f]}

PowerLoss ==
    /\ Fault /\ power' = TRUE
    /\ \E left \in [Unsafe -> {"none", "torn", "full"}] :
          /\ \A f \in Unsafe : left[f] \in Left(f)
          /\ view' = [f \in Files |->
                        IF "dir" \in Unsafe /\ left["dir"] = "none" THEN "none"
                        ELSE IF f \in Unsafe THEN left[f] ELSE view[f]]
    /\ safe' = {f \in Files : view'[f] # "none"}
    /\ pc' = [p \in Procs |-> IF p \in Running THEN "failed" ELSE pc[p]]
    /\ at' = [p \in Procs |-> Nothing]
    /\ UNCHANGED <<mode, world>>

Init ==
    /\ view = [f \in Files |-> "none"]
    /\ safe = {}
    /\ mode = [p \in Procs |-> "none"]
    /\ pc = [p \in Procs |-> "idle"]
    /\ at = [p \in Procs |-> Nothing]
    /\ sent = {} /\ next = 1 /\ net = "closed" /\ status = "none"
    /\ admitted = FALSE /\ power = FALSE /\ faults = 0

Next ==
    \/ \E p \in Procs :
         \/ Apply(p) \/ Parent(p) \/ Claim(p) \/ Resume(p)
         \/ Intent(p) \/ Send(p) \/ Answered(p) \/ Undo(p)
         \/ Mark(p) \/ Enable(p) \/ Clear(p) \/ Verified(p)
         \/ \E f \in Written : Artifact(p, f)
         \/ Readback(p) \/ Terminal(p)
         \/ Write(p) \/ Sync(p) \/ CallFails(p) \/ Dies(p)
    \/ Admit \/ PowerLoss

Spec == Init /\ [][Next]_vars

(***************************************************************************)
(* Properties                                                              *)
(***************************************************************************)

(* Every variable stays in its domain.                                     *)
TypeOK ==
    /\ view \in [Files -> {"none", "torn", "full"}] /\ safe \subseteq Files
    /\ mode \in [Procs -> {"none", "apply", "resume"}]
    /\ pc \in [Procs -> Written \union
                 {"idle", "parent", "claim", "run", "send", "answered", "undo", "undone", "enable",
                  "open", "write", "sync", "readback", "raised", "retired", "complete", "done",
                  "failed"}]
    /\ \A p \in Procs : at[p].file \in Files \union {"none"}
    /\ sent \subseteq Procs \X (1..(MaxMutations + MaxUndone))
    /\ next \in 1..(MaxMutations + MaxUndone + 1)
    /\ net \in {"open", "closed"} /\ status \in {"none", "failed", "complete"}
    /\ admitted \in BOOLEAN /\ power \in BOOLEAN /\ faults \in 0..MaxFaults

(* One authorization mutates Azure in one execution only, also when power  *)
(* is lost between the creation of its directory and a mutation.           *)
SingleUse == \A x, y \in sent : x[1] = y[1]

(* What may have reached Azure is in the journal for good: no crash and no *)
(* loss of power leaves a mutation without its intent.                     *)
JournalAhead == \A x \in sent : view[IntentOf[x[2]]] = "full" /\ IntentOf[x[2]] \in safe

(* The evidence is derived only from an execution that went through the    *)
(* plan: each mutation of it has a complete result on record, whatever a   *)
(* compensation, where the source itself could not be made durable, adds   *)
(* to the journal afterwards.                                              *)
EvidenceFromJournal == view["source"] # "none" => \A j \in Journal : view[j] = "full"

(* The bundle is last: whoever sees it sees every file that it binds,      *)
(* however many executions and resumes were interrupted; and a complete    *)
(* terminal receipt has its bundle.  (Until power is lost, see below.)     *)
BundleLast ==
    ~power => /\ view["bundle"] # "none" => \A f \in Written \ {"bundle"} : view[f] = "full"
              /\ status = "complete" => view["bundle"] = "full"

(* An open network has its durable marker, so that no other execution is   *)
(* admitted before it is closed.                                           *)
OpenIsMarked == net = "open" => view["marker"] = "full" /\ "marker" \in safe

(* write_create_only_artifact: "exact bytes are fsynced then read back     *)
(* before success is returned"; so a bundle that survives a loss of power  *)
(* does so with every file that it binds.                                  *)
SuccessIsDurable == "bundle" \in safe => \A f \in Written : f \in safe
===============================================================================
