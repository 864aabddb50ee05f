---------------------------- MODULE BridgeRecovery ----------------------------
(***************************************************************************)
(* private_release_v2_bridge_b24d_recovery and ..._794f_recovery, which    *)
(* differ in the incident they are bound to: a bridge left running, public *)
(* and open to SCM is stopped, closed and emptied, one journaled mutation  *)
(* after the other, and the marker of the incident is archived.  Azure     *)
(* may restart the site after each change.                                 *)
(***************************************************************************)
EXTENDS Naturals, Sequences, FiniteSets

CONSTANTS
    Auths,        \* authorizations, each applied by one process
    MaxFaults,    \* bound: lost answers, refused requests, processes dead
    MaxRestarts   \* bound: restarts of the site by Azure

VARIABLES
    site,      \* [running, public, scm : BOOLEAN, settings : "incident" | "empty"]
    marker,    \* the incident's marker is still in place
    doc,       \* authorization -> its documents
    ledger,    \* authorization -> the files in its ledger directory
    issued,    \* authorization -> mutation -> requests that left the process
    flight,    \* mutations accepted or lost that take effect later
    pc,        \* authorization -> where its process is
    step,      \* authorization -> which mutation of the plan is next
    changed,   \* Azure may restart the site
    faults, restarts

vars == <<site, marker, doc, ledger, issued, flight, pc, step, changed, faults, restarts>>

(* Mutant: the settings are emptied while the site is still public.        *)
PlanSwapped == <<"stop", "scm", "settings", "public">>
(* Mutant: basic authentication of SCM is left on.                         *)
PlanShort   == <<"stop", "public", "settings">>

(* RECOVERY_PLAN: the bodies the session admits, in the order of apply.    *)
Plan == <<"stop", "scm", "public", "settings">>

Mutations == {"stop", "scm", "public", "settings"}
Labels == {"idle", "claim", "mutate", "poll", "wait", "restop", "stopped", "live", "archive", "pending", "rename", "terminal"}

Exposed == [running |-> TRUE, public |-> TRUE, scm |-> TRUE, settings |-> "incident"]

(* Mutant: the PUT of the settings leaves no map at all.                   *)
EffectNoMap(m, s) ==
    CASE m = "stop"     -> [s EXCEPT !.running = FALSE]
      [] m = "scm"      -> [s EXCEPT !.scm = FALSE]
      [] m = "public"   -> [s EXCEPT !.public = FALSE]
      [] m = "settings" -> [s EXCEPT !.settings = "none"]

Effect(m, s) ==
    CASE m = "stop"     -> [s EXCEPT !.running = FALSE]
      [] m = "scm"      -> [s EXCEPT !.scm = FALSE]
      [] m = "public"   -> [s EXCEPT !.public = FALSE]
      [] m = "settings" -> [s EXCEPT !.settings = "empty"]

(* The exact posture live() demands after the first n mutations.           *)
Posture[n \in 0..Len(Plan)] ==
    IF n = 0 THEN Exposed ELSE Effect(Plan[n], Posture[n - 1])

Done(a)      == step[a] - 1          \* mutations whose effect was read back
Go(a, label) == pc' = [pc EXCEPT ![a] = label]
Stop(a)      == Go(a, "idle")        \* an uncertain result ends the process
Fault        == faults < MaxFaults /\ faults' = faults + 1
Write(a, f)  == /\ f \notin ledger[a]
                /\ ledger' = [ledger EXCEPT ![a] = @ \union {f}]
(* The ledger: files of the process, the intents of the plan and those of  *)
(* the stops after a change.                                               *)
File(f)   == <<"file", f>>
Intent(m) == <<"intent", m>>
Again(m)  == <<"again", m>>

Look == UNCHANGED <<site, marker, doc, issued, flight, changed, faults, restarts>>

(***************************************************************************)
(* The documents                                                           *)
(***************************************************************************)

Observe(a) ==
    /\ doc[a] = "none"
    /\ marker
    /\ site = Posture[0]
    /\ doc' = [doc EXCEPT ![a] = "observed"]
    /\ UNCHANGED <<site, marker, ledger, issued, flight, pc, step, changed, faults, restarts>>

(* prepare: the confirmation matches the template, which has not expired.  *)
Prepare(a) ==
    /\ doc[a] = "observed"
    /\ doc' = [doc EXCEPT ![a] = "prepared"]
    /\ UNCHANGED <<site, marker, ledger, issued, flight, pc, step, changed, faults, restarts>>

Expire(a) ==
    /\ doc[a] \in {"observed", "prepared"}
    /\ doc' = [doc EXCEPT ![a] = "expired"]
    /\ UNCHANGED <<site, marker, ledger, issued, flight, pc, step, changed, faults, restarts>>

(***************************************************************************)
(* apply                                                                   *)
(***************************************************************************)

(* The incident is still open, the documents are live, the posture is the  *)
(* reviewed one, and the ledger directory is created by this process.      *)
Begin(a) ==
    /\ pc[a] = "idle"
    /\ marker /\ doc[a] = "prepared"
    /\ site = Posture[0]
    /\ Write(a, File("claim"))
    /\ Go(a, "claim")
    /\ UNCHANGED step /\ Look

(* The posture is read once more before the first mutation.                *)
PreRead(a) ==
    /\ pc[a] = "claim"
    /\ IF site = Posture[0] THEN Go(a, "mutate") ELSE Stop(a)
    /\ UNCHANGED <<ledger, step>> /\ Look

(* Mutant: a request whose answer is lost is sent again.                   *)
SentAgain(a, m, label) ==
    /\ issued' = [issued EXCEPT ![a][m] = @ + 1]
    /\ changed' = (m # "stop" \/ changed)
    /\ UNCHANGED flight
    /\ \/ site' = Effect(m, site) /\ Go(a, label) /\ UNCHANGED faults
       \/ site' = Effect(m, site) /\ Fault /\ UNCHANGED pc

(* BoundSession.request, then the result in the ledger: 200; 202, which    *)
(* takes effect later; or no usable answer, which ends the process.        *)
Sent(a, m, label) ==
    /\ issued' = [issued EXCEPT ![a][m] = @ + 1]
    /\ \/ /\ site' = Effect(m, site)
          /\ changed' = (m # "stop" \/ changed)
          /\ Go(a, label)
          /\ UNCHANGED <<flight, faults>>
       \/ /\ flight' = flight \union {m}
          /\ Go(a, label)
          /\ UNCHANGED <<site, changed, faults>>
       \/ /\ Fault
          /\ Stop(a)
          /\ \/ UNCHANGED <<site, flight, changed>>
             \/ flight' = flight \union {m} /\ UNCHANGED <<site, changed>>

(* mutation: the intent is on disk, then the request leaves.               *)
Mutate(a) ==
    LET m == Plan[step[a]] IN
    /\ pc[a] = "mutate"
    /\ \/ Intent(m) \notin ledger[a] /\ Write(a, Intent(m)) /\ UNCHANGED <<pc, site, issued, flight, changed, faults>>
       \/ /\ Intent(m) \in ledger[a] 
          /\ Sent(a, m, IF m = "stop" THEN "stopped" ELSE "poll")
          /\ UNCHANGED ledger
    /\ UNCHANGED <<marker, doc, step, restarts>>

(* await_result: the operation succeeded, or the polls are used up.        *)
AwaitResult(a) ==
    /\ pc[a] = "poll"
    /\ \/ Plan[step[a]] \notin flight /\ Go(a, "wait")
       \/ Stop(a)
    /\ UNCHANGED <<ledger, step>> /\ Look

(* wait_scm_disabled, wait_public_disabled, wait_settings_empty.           *)
Converged(m) == Effect(m, site) = site

WaitEffect(a) ==
    /\ pc[a] = "wait"
    /\ \/ Converged(Plan[step[a]]) /\ Go(a, "restop")
       \/ Stop(a)
    /\ UNCHANGED <<ledger, step>> /\ Look

(* A site that Azure restarted is stopped again, once after each mutation. *)
Restop(a) ==
    LET f == Again(Plan[step[a]]) IN
    /\ pc[a] = "restop"
    /\ \/ ~site.running /\ f \notin ledger[a]
          /\ Go(a, "stopped") /\ UNCHANGED <<ledger, site, issued, flight, changed, faults>>
       \/ /\ site.running /\ f \notin ledger[a]
          /\ Write(a, f) /\ UNCHANGED <<pc, site, issued, flight, changed, faults>>
       \/ /\ f \in ledger[a]
          /\ Sent(a, "stop", "stopped") /\ UNCHANGED ledger
    /\ UNCHANGED <<marker, doc, step, restarts>>

(* wait_site: stopped, with the network as the plan has left it.           *)
WaitSite(a) ==
    /\ pc[a] = "stopped"
    /\ \/ /\ ~site.running /\ site.public = Posture[step[a]].public
          /\ Go(a, "live")
       \/ Stop(a)
    /\ UNCHANGED <<ledger, step>> /\ Look

(* live: the whole posture is exact, or the process ends.                  *)
Live(a) ==
    /\ pc[a] = "live"
    /\ IF site = Posture[step[a]]
       THEN /\ step' = [step EXCEPT ![a] = @ + 1]
            /\ Go(a, IF step[a] = Len(Plan) THEN "archive" ELSE "mutate")
       ELSE Stop(a) /\ UNCHANGED step
    /\ UNCHANGED ledger /\ Look

(* final-proof.json; the marker is unchanged.                              *)
FinalProof(a) ==
    /\ pc[a] = "archive"
    /\ Write(a, File("final"))
    /\ IF marker THEN Go(a, "pending") ELSE Stop(a)
    /\ UNCHANGED step /\ Look

(* Where the marker goes is on disk before it is renamed.                  *)
Pending(a) ==
    /\ pc[a] = "pending"
    /\ Write(a, File("pending"))
    /\ Go(a, "rename")
    /\ UNCHANGED step /\ Look

(* The rename fails if another process has renamed the marker.             *)
Archive(a) ==
    /\ pc[a] = "rename"
    /\ IF marker THEN marker' = FALSE /\ Go(a, "terminal")
                 ELSE Stop(a) /\ UNCHANGED marker
    /\ UNCHANGED <<site, doc, ledger, issued, flight, step, changed, faults, restarts>>

Terminal(a) ==
    /\ pc[a] = "terminal"
    /\ Write(a, File("terminal"))
    /\ Stop(a)
    /\ UNCHANGED step /\ Look

(***************************************************************************)
(* Azure and the process                                                   *)
(***************************************************************************)

Land(m) ==
    /\ m \in flight
    /\ flight' = flight \ {m}
    /\ site' = Effect(m, site)
    /\ changed' = (m # "stop" \/ changed)
    /\ UNCHANGED <<marker, doc, ledger, issued, pc, step, faults, restarts>>

(* A change of configuration makes Azure start the site again.             *)
Restart ==
    /\ changed /\ restarts < MaxRestarts
    /\ restarts' = restarts + 1
    /\ site' = [site EXCEPT !.running = TRUE]
    /\ changed' = FALSE
    /\ UNCHANGED <<marker, doc, ledger, issued, flight, pc, step, faults>>

Crash(a) ==
    /\ pc[a] # "idle" /\ Fault /\ Stop(a)
    /\ UNCHANGED <<site, marker, doc, ledger, issued, flight, step, changed, restarts>>

(* incident: what the interrupted canary left.                             *)
Init ==
    /\ site = Exposed
    /\ marker = TRUE
    /\ doc = [a \in Auths |-> "none"]
    /\ ledger = [a \in Auths |-> {}]
    /\ issued = [a \in Auths |-> [m \in Mutations |-> 0]]
    /\ flight = {}
    /\ pc = [a \in Auths |-> "idle"]
    /\ step = [a \in Auths |-> 1]
    /\ changed = FALSE
    /\ faults = 0 /\ restarts = 0

Apply(a) == \/ PreRead(a) \/ Mutate(a) \/ AwaitResult(a) \/ WaitEffect(a) \/ Restop(a)
            \/ WaitSite(a) \/ Live(a) \/ FinalProof(a) \/ Pending(a) \/ Archive(a) \/ Terminal(a)

Next == \/ \E a \in Auths : Observe(a) \/ Prepare(a) \/ Expire(a) \/ Begin(a) \/ Apply(a) \/ Crash(a)
        \/ \E m \in Mutations : Land(m)
        \/ Restart

Spec == Init /\ [][Next]_vars

(***************************************************************************)
(* Properties                                                              *)
(***************************************************************************)

(* Every variable stays in its domain.                                     *)
TypeOK ==
    /\ site \in [running : BOOLEAN, public : BOOLEAN, scm : BOOLEAN, settings : {"incident", "empty"}]
    /\ marker \in BOOLEAN
    /\ doc \in [Auths -> {"none", "observed", "prepared", "expired"}]
    /\ \A a \in Auths : ledger[a] \subseteq
           {"file", "intent", "again"} \X (Mutations \union {"claim", "final", "pending", "terminal"})
    /\ issued \in [Auths -> [Mutations -> 0..4]]
    /\ flight \subseteq Mutations
    /\ pc \in [Auths -> Labels]
    /\ step \in [Auths -> 1..(Len(Plan) + 1)]
    /\ changed \in BOOLEAN
    /\ faults \in 0..MaxFaults /\ restarts \in 0..MaxRestarts

(* Settings are given up only behind a closed door: whichever process's    *)
(* requests take effect in whatever order, the map is never empty while    *)
(* the site is public or SCM is open.                                      *)
OrderSafe == site.settings = "empty" => ~site.public /\ ~site.scm

(* The marker is archived only for a bridge that is private, closed to SCM *)
(* and empty (Azure may have started it again), by a process that proved   *)
(* it and said in its ledger where the marker goes.                        *)
ArchivedTruth ==
    ~marker =>
        /\ ~site.public /\ ~site.scm /\ site.settings = "empty"
        /\ \E a \in Auths : {File("final"), File("pending")} \subseteq ledger[a]

(* "Each mutation is attempted at most once without retry": per            *)
(* authorization one request of each kind leaves, and four stops at most,  *)
(* each after its durable intent.                                          *)
OnceEach ==
    \A a \in Auths, m \in Mutations :
        /\ m # "stop" => issued[a][m] <= 1
        /\ m # "stop" /\ issued[a][m] > 0 => Intent(m) \in ledger[a]
        /\ issued[a]["stop"] <= Cardinality(
               {f \in ledger[a] : f = Intent("stop") \/ f[1] = "again"})
===============================================================================
