----------------------------- MODULE BridgeHandoff -----------------------------
(***************************************************************************)
(* The handoff of the private bridge between external controllers          *)
(* (_run_bridge) and the cleanup of what a dead controller leaves behind   *)
(* (cleanup_expired_transient).  Both hold the same finite resource        *)
(* provider lease (ControllerLease); neither the App Settings of the       *)
(* bridge nor its start, stop and run requests know of that lease.         *)
(*                                                                         *)
(* Settings are Durable, or the controller whose transient control record  *)
(* and GitHub token are injected.  A start or stop that App Service has    *)
(* accepted becomes visible later.                                         *)
(*                                                                         *)
(* Every actor is handed a provisioning verifier.  The one of the code     *)
(* (ProvisioningVerifier) wants the whole App Settings to be the durable   *)
(* map, so it rejects the bridge as long as any transient map is in place: *)
(* exact.  The rest of the cleanup parts can only be reached with one that *)
(* does not compare them.                                                  *)
(***************************************************************************)
EXTENDS Naturals, Sequences, FiniteSets

CONSTANTS
    Controllers,   \* _run_bridge invocations, each for a request of its own
    Cleaners,      \* cleanup invocations
    Durable,       \* the App Settings without any transient key
    StallAt,       \* where a process may outlive the lease it holds
    Verifiers,     \* the verifiers handed in: "exact" compares the App Settings
    Unverified,    \* actors whose verification may fail for any other reason
    MaxLeases,     \* bound: lease identifiers ever drawn
    MaxCrashes     \* bound: processes that die

Actors == Controllers \cup Cleaners

(* A request whose protecting renewal is behind it.                        *)
Window == {"inject", "startpost", "runpost", "stoppost", "estoppost", "restore",
           "cstoppost", "crestore"}

Counter == Window \cup
           {"idle", "ready", "post", "seal", "injectread", "injectrenew",
            "injectback", "start", "startrenew", "startpoll", "run", "runpoll",
            "result", "reverify", "stop", "stoppoll", "estop", "estoppoll",
            "release", "restoreread", "restorerenew", "restoreback", "delete",
            "unlock", "done", "cverify", "cread", "cstop", "cstopverify",
            "cstoprenew", "cstoppoll", "crestoreverify", "crestoreread",
            "crestorerenew"}

ASSUME HandoffConstants ==
    /\ Controllers \cap Cleaners = {}
    /\ Durable \notin Controllers
    /\ StallAt \subseteq Counter
    /\ Verifiers \subseteq {"exact", "other"}
    /\ Unverified \subseteq Actors
    /\ MaxLeases \in Nat /\ MaxCrashes \in Nat

VARIABLES
    lease,      \* the lease active on the controller lock container, 0 if none
    leases,     \* lease identifiers drawn so far
    settings,   \* the App Settings of the bridge
    site,       \* its observed state
    order,      \* a start or stop that is accepted and not yet visible
    runs,       \* WebJob history: whose control a run read, and its status
    requests,   \* controllers whose request deployment exists
    results,    \* controllers whose signed result exists
    pc,
    mine,       \* the lease identifier each process presents
    owns,       \* controllers with owns_transient
    started,    \* controllers with started_by_this
    asked,      \* controllers with request_owned
    before,     \* the length of the history each controller read
    target,     \* the transient map a cleaner decided to remove
    verifier,   \* the one that is used
    gaveUp,     \* history: who stopped waiting for a start that may yet show
    crashes

cloud == <<lease, leases, settings, site, order, runs, requests, results>>
flags == <<owns, started, asked>>
others == <<verifier, gaveUp, crashes>>
vars == <<cloud, pc, mine, flags, before, target, others>>

-----------------------------------------------------------------------------
(* Mutated forms of the operators below; no action uses them.              *)

(* A renewal inside the 20 second throttle is taken for a held lease.      *)
HoldsThrottled(a) == mine[a] # 0

(* The transient map is removed while the bridge may still be running.     *)
MayRestoreRunning(c) == settings = c

(* Cleanup removes the map of any owner it finds.                          *)
RunOverAny(c) == TRUE

(* A bridge on its way down passes for a stopped one.                      *)
HaltedSoon == site \in {"Stopped", "Stopping"}

(* A history entry ends under the name ARM gives a finished deployment.    *)
FinalAsDeployment == {"Succeeded", "Failed"}

-----------------------------------------------------------------------------
(* Helpers *)

Goto(a, l) == pc' = [pc EXCEPT ![a] = l]

Holds(a) == mine[a] # 0 /\ lease = mine[a]

(* A process that ends, or dies, takes its memory along.                   *)
Gone(c) == pc[c] = "done"
Forget(a) ==
    /\ mine' = [mine EXCEPT ![a] = 0]
    /\ owns' = owns \ {a} /\ started' = started \ {a} /\ asked' = asked \ {a}
    /\ IF a \in Controllers
       THEN Goto(a, "done") /\ before' = [before EXCEPT ![a] = 0] /\ target' = target
       ELSE Goto(a, "idle") /\ target' = [target EXCEPT ![a] = Durable] /\ before' = before

(* The owner run of a control record is completed; when nobody can tell,   *)
(* the record is older than a run can become.                              *)
RunOver(c) == Gone(c)

(* How a history entry ends of itself.                                     *)
Final == {"Success", "Failed"}

(* verify: with a transient map in place the code's verifier never passes, *)
(* and any verifier may fail for reasons that lie elsewhere.               *)
Exact == verifier = "exact"
MayVerify == Exact => settings = Durable
MayReject(a) == ~ MayVerify \/ a \in Unverified

Halted == site = "Stopped"

(* release: the map is this controller's own and the bridge is stopped.    *)
MayRestore(c) == Halted /\ settings = c

(* POST start or stop: accepted, or lost on the way.                       *)
Post(what) == order' \in {order, what}

(* PUT of the full map: it takes effect whatever is there, or is lost.     *)
PutSettings(s) == settings' \in {settings, s}

(* The actions of the finally section, in their order.                     *)
Delete(c) == IF c \in asked THEN "delete" ELSE "unlock"
Release(c) == IF c \in owns THEN "release" ELSE Delete(c)
Stop(c) == IF c \in started THEN "stop" ELSE Release(c)

Init ==
    /\ lease = 0 /\ leases = 0
    /\ settings = Durable /\ site = "Stopped" /\ order = "none"
    /\ runs = <<>> /\ requests = {} /\ results = {}
    /\ pc = [a \in Actors |-> "idle"]
    /\ mine = [a \in Actors |-> 0]
    /\ owns = {} /\ started = {} /\ asked = {}
    /\ before = [c \in Controllers |-> 0]
    /\ target = [k \in Cleaners |-> Durable]
    /\ verifier \in Verifiers /\ gaveUp = {} /\ crashes = 0

-----------------------------------------------------------------------------
(* ControllerLease *)

(* Provisioning is verified before anybody draws a lease.  A controller    *)
(* that fails it ends; a cleanup ends too, and is scheduled again.         *)
Verify(a) ==
    /\ pc[a] = "idle"
    /\ \/ MayVerify /\ Goto(a, "ready")
       \/ MayReject(a) /\ a \in Controllers /\ Goto(a, "done")
    /\ UNCHANGED <<cloud, mine, flags, before, target, others>>

(* A fresh random capability; a busy container is never joined.            *)
Lock(a) ==
    /\ pc[a] = "ready" /\ lease = 0 /\ leases < MaxLeases
    /\ leases' = leases + 1 /\ lease' = leases'
    /\ mine' = [mine EXCEPT ![a] = leases']
    /\ Goto(a, IF a \in Controllers THEN "post" ELSE "cverify")
    /\ UNCHANGED <<settings, site, order, runs, requests, results, flags,
                   before, target, others>>

(* A controller finds the lease busy: nothing was touched.  A cleanup      *)
(* retries over more than a lease term and is scheduled again.             *)
Busy(a) ==
    /\ pc[a] = "ready" /\ lease # 0
    /\ Goto(a, IF a \in Controllers THEN "done" ELSE "idle")
    /\ UNCHANGED <<cloud, mine, flags, before, target, others>>

(* release: renew, release, read back; a lease that is lost is not touched.*)
Unlocked(a) ==
    /\ pc[a] = "unlock"
    /\ lease' \in IF Holds(a) THEN {0, lease} ELSE {lease}
    /\ Forget(a)
    /\ UNCHANGED <<leases, settings, site, order, runs, requests, results, others>>

-----------------------------------------------------------------------------
(* BridgeLease.acquire *)

PutRequest(c) ==
    /\ pc[c] = "post"
    /\ requests' = requests \cup {c}
    /\ \/ asked' = asked \cup {c} /\ Goto(c, "seal")
       \/ asked' = asked /\ Goto(c, "reverify")
    /\ UNCHANGED <<lease, leases, settings, site, order, runs, results, mine,
                   owns, started, before, target, others>>

Seal(c) ==
    /\ pc[c] = "seal" /\ Holds(c) /\ Halted /\ settings = Durable
    /\ Goto(c, "injectread")
    /\ UNCHANGED <<cloud, mine, flags, before, target, others>>

(* put_if_digest: the final read, a renewal, and the PUT.                  *)
InjectRead(c) ==
    /\ pc[c] = "injectread" /\ settings = Durable
    /\ Goto(c, "injectrenew")
    /\ UNCHANGED <<cloud, mine, flags, before, target, others>>

InjectRenew(c) ==
    /\ pc[c] = "injectrenew" /\ Holds(c)
    /\ Goto(c, "inject")
    /\ UNCHANGED <<cloud, mine, flags, before, target, others>>

Inject(c) ==
    /\ pc[c] = "inject"
    /\ PutSettings(c)
    /\ Goto(c, "injectback")
    /\ UNCHANGED <<lease, leases, site, order, runs, requests, results, mine,
                   flags, before, target, others>>

InjectBack(c) ==
    /\ pc[c] = "injectback" /\ settings = c
    /\ owns' = owns \cup {c}
    /\ Goto(c, "start")
    /\ UNCHANGED <<cloud, mine, started, asked, before, target, others>>

-----------------------------------------------------------------------------
(* BridgeLease.action("start") and WebJobClient.run_and_wait *)

StartCheck(c) ==
    /\ pc[c] = "start" /\ Holds(c) /\ Halted
    /\ Goto(c, "startrenew")
    /\ UNCHANGED <<cloud, mine, flags, before, target, others>>

StartRenew(c) ==
    /\ pc[c] = "startrenew" /\ Holds(c)
    /\ Goto(c, "startpost")
    /\ UNCHANGED <<cloud, mine, flags, before, target, others>>

StartPost(c) ==
    /\ pc[c] = "startpost"
    /\ Post("start")
    /\ Goto(c, "startpoll")
    /\ UNCHANGED <<lease, leases, settings, site, runs, requests, results, mine,
                   flags, before, target, others>>

(* Any state but Stopped shows that the start took effect.                 *)
StartPoll(c) ==
    /\ pc[c] = "startpoll" /\ Holds(c) /\ ~Halted
    /\ started' = started \cup {c}
    /\ Goto(c, IF site = "Running" THEN "run" ELSE "startpoll")
    /\ UNCHANGED <<cloud, mine, owns, asked, before, target, others>>

RunRead(c) ==
    /\ pc[c] = "run" /\ Holds(c)
    /\ before' = [before EXCEPT ![c] = Len(runs)]
    /\ Goto(c, "runpost")
    /\ UNCHANGED <<cloud, mine, flags, target, others>>

(* The run reads the control record the bridge was started with.           *)
RunPost(c) ==
    /\ pc[c] = "runpost"
    /\ runs' \in {runs} \cup
           {Append(runs, [serves |-> settings, status |-> "running"]) :
               s \in {site} \cap {"Running"}}
    /\ Goto(c, "runpoll")
    /\ UNCHANGED <<lease, leases, settings, site, order, requests, results, mine,
                   flags, before, target, others>>

(* Exactly one new entry in the history, and a success.                    *)
RunPoll(c) ==
    /\ pc[c] = "runpoll" /\ Holds(c)
    /\ Len(runs) = before[c] + 1 /\ runs[Len(runs)].status = "Success"
    /\ Goto(c, "result")
    /\ UNCHANGED <<cloud, mine, flags, before, target, others>>

Result(c) ==
    /\ pc[c] = "result" /\ c \in results
    /\ Goto(c, "reverify")
    /\ UNCHANGED <<cloud, mine, flags, before, target, others>>

(* A failed check, a failed request, an exception or a timeout anywhere    *)
(* raises, and leads to the cleanup part.  The wait for the start ends so  *)
(* with the POST itself, with any poll, or with the last of them, whether  *)
(* or not the start is still going to show.                                *)
Fails == {"post", "seal", "injectread", "injectrenew", "injectback", "start",
          "startrenew", "startpoll", "run", "runpoll", "result"}

Fail(c) ==
    /\ pc[c] \in Fails
    /\ Goto(c, "reverify")
    /\ gaveUp' = IF pc[c] = "startpoll" /\ order = "start" THEN gaveUp \cup {c} ELSE gaveUp
    /\ UNCHANGED <<cloud, mine, flags, before, target, verifier, crashes>>

-----------------------------------------------------------------------------
(* _run_bridge: the cleanup part *)

(* Provisioning is verified again; without it only an emergency stop of    *)
(* the exact bridge started here, and the release of the lease, remain.    *)
Reverify(c) ==
    /\ pc[c] = "reverify"
    /\ \/ MayVerify /\ Goto(c, Stop(c))
       \/ MayReject(c) /\ Goto(c, IF c \in started THEN "estop" ELSE "unlock")
    /\ UNCHANGED <<cloud, mine, flags, before, target, others>>

StopCheck(c) ==
    /\ pc[c] = "stop" /\ Holds(c) /\ c \in owns
    /\ started' = IF Halted THEN started \ {c} ELSE started
    /\ Goto(c, IF Halted THEN Release(c) ELSE "stoppost")
    /\ UNCHANGED <<cloud, mine, owns, asked, before, target, others>>

EmergencyCheck(c) ==
    /\ pc[c] = "estop" /\ Holds(c) /\ settings = c
    /\ started' = IF Halted THEN started \ {c} ELSE started
    /\ Goto(c, IF Halted THEN "unlock" ELSE "estoppost")
    /\ UNCHANGED <<cloud, mine, owns, asked, before, target, others>>

(* A stop that is not accepted ends an emergency stop.                     *)
StopPost(c) ==
    /\ \/ pc[c] = "stoppost" /\ Post("stop") /\ Goto(c, "stoppoll")
       \/ pc[c] = "estoppost" /\ order' = "stop" /\ Goto(c, "estoppoll")
       \/ pc[c] = "estoppost" /\ order' = order /\ Goto(c, "unlock")
    /\ UNCHANGED <<lease, leases, settings, site, runs, requests, results, mine,
                   flags, before, target, others>>

StopPoll(c) ==
    /\ pc[c] \in {"stoppoll", "estoppoll"} /\ Holds(c) /\ Halted
    /\ started' = started \ {c}
    /\ Goto(c, IF pc[c] = "stoppoll" THEN Release(c) ELSE "unlock")
    /\ UNCHANGED <<cloud, mine, owns, asked, before, target, others>>

ReleaseCheck(c) ==
    /\ pc[c] = "release" /\ Holds(c)
    /\ \/ MayRestore(c) /\ Goto(c, "restoreread") /\ owns' = owns
       \/ Halted /\ settings = Durable /\ Goto(c, Delete(c)) /\ owns' = owns \ {c}
    /\ UNCHANGED <<cloud, mine, started, asked, before, target, others>>

RestoreRead(c) ==
    /\ pc[c] = "restoreread"
    /\ Goto(c, IF settings = c THEN "restorerenew" ELSE "restoreback")
    /\ UNCHANGED <<cloud, mine, flags, before, target, others>>

RestoreRenew(c) ==
    /\ pc[c] = "restorerenew" /\ Holds(c)
    /\ Goto(c, "restore")
    /\ UNCHANGED <<cloud, mine, flags, before, target, others>>

Restore(c) ==
    /\ pc[c] = "restore"
    /\ PutSettings(Durable)
    /\ Goto(c, "restoreback")
    /\ UNCHANGED <<lease, leases, site, order, runs, requests, results, mine,
                   flags, before, target, others>>

RestoreBack(c) ==
    /\ pc[c] = "restoreback"
    /\ owns' = IF settings = Durable THEN owns \ {c} ELSE owns
    /\ Goto(c, Delete(c))
    /\ UNCHANGED <<cloud, mine, started, asked, before, target, others>>

DeleteRequest(c) ==
    /\ pc[c] = "delete" /\ Holds(c)
    /\ requests' = requests \ {c}
    /\ Goto(c, "unlock")
    /\ UNCHANGED <<lease, leases, settings, site, order, runs, results, mine,
                   flags, before, target, others>>

(* Every action is attempted, whatever became of the one before.           *)
Skip(c) ==
    /\ \/ pc[c] = "stop" /\ Goto(c, Release(c))
       \/ pc[c] = "stoppoll" /\ Goto(c, Release(c))
       \/ pc[c] \in {"estop", "estoppoll"} /\ Goto(c, "unlock")
       \/ pc[c] = "release" /\ Goto(c, Delete(c))
       \/ pc[c] \in {"restoreread", "restorerenew"} /\ Goto(c, "restoreback")
       \/ pc[c] = "delete" /\ Goto(c, "unlock")
    /\ UNCHANGED <<cloud, mine, flags, before, target, others>>

-----------------------------------------------------------------------------
(* cleanup_expired_transient *)

(* Provisioning is verified before the map is read, before the stop and    *)
(* before the restoration.                                                 *)
Verifies == [cverify |-> "cread", cstopverify |-> "cstoprenew",
             crestoreverify |-> "crestoreread"]

CleanVerify(k) ==
    /\ pc[k] \in DOMAIN Verifies /\ MayVerify
    /\ Goto(k, Verifies[pc[k]])
    /\ UNCHANGED <<cloud, mine, flags, before, target, others>>

(* The control record names its owner run; the run has to be over.         *)
CleanRead(k) ==
    /\ pc[k] = "cread" /\ Holds(k) /\ settings \in Controllers /\ RunOver(settings)
    /\ target' = [target EXCEPT ![k] = settings]
    /\ Goto(k, "cstop")
    /\ UNCHANGED <<cloud, mine, flags, before, others>>

(* The same map is read again before the stop, which is unconditional.     *)
CleanStop(k) ==
    /\ pc[k] = "cstop" /\ Holds(k) /\ settings = target[k]
    /\ Goto(k, "cstopverify")
    /\ UNCHANGED <<cloud, mine, flags, before, target, others>>

(* A renewal comes right before the stop, and before the PUT of the map.   *)
CleanRenew(k) ==
    /\ Holds(k)
    /\ \/ pc[k] = "cstoprenew" /\ Goto(k, "cstoppost")
       \/ pc[k] = "crestorerenew" /\ Goto(k, "crestore")
    /\ UNCHANGED <<cloud, mine, flags, before, target, others>>

CleanStopPost(k) ==
    /\ pc[k] = "cstoppost"
    /\ \/ order' = "stop" /\ Goto(k, "cstoppoll")
       \/ order' = order /\ Goto(k, "unlock")
    /\ UNCHANGED <<lease, leases, settings, site, runs, requests, results, mine,
                   flags, before, target, others>>

CleanStopPoll(k) ==
    /\ pc[k] = "cstoppoll" /\ Holds(k) /\ Halted
    /\ Goto(k, "crestoreverify")
    /\ UNCHANGED <<cloud, mine, flags, before, target, others>>

CleanRestoreRead(k) ==
    /\ pc[k] = "crestoreread" /\ Holds(k) /\ settings = target[k]
    /\ Goto(k, "crestorerenew")
    /\ UNCHANGED <<cloud, mine, flags, before, target, others>>

CleanRestore(k) ==
    /\ pc[k] = "crestore"
    /\ PutSettings(Durable)
    /\ Goto(k, "unlock")
    /\ UNCHANGED <<lease, leases, site, order, runs, requests, results, mine,
                   flags, before, target, others>>

(* Any failure ends the cleanup, and there is nothing to do without a      *)
(* transient map; the lease is released in every case.                     *)
CleanFail(k) ==
    /\ \/ pc[k] \in DOMAIN Verifies /\ MayReject(k)
       \/ pc[k] \in {"cread", "cstop", "cstoprenew", "cstoppoll", "crestoreread",
                     "crestorerenew"}
    /\ Goto(k, "unlock")
    /\ UNCHANGED <<cloud, mine, flags, before, target, others>>

-----------------------------------------------------------------------------
(* Failures and the cloud *)

Crash(a) ==
    /\ pc[a] \notin {"idle", "done"} /\ crashes < MaxCrashes
    /\ crashes' = crashes + 1
    /\ Forget(a)
    /\ UNCHANGED <<cloud, verifier, gaveUp>>

Expire ==
    /\ lease # 0
    /\ \A a \in Actors : mine[a] = lease => pc[a] \in StallAt
    /\ lease' = 0
    /\ UNCHANGED <<leases, settings, site, order, runs, requests, results, pc,
                   mine, flags, before, target, others>>

Obey ==
    /\ order # "none"
    /\ order' = "none"
    /\ site' = IF order = "start"
               THEN IF site = "Running" THEN site ELSE "Starting"
               ELSE IF Halted THEN site ELSE "Stopping"
    /\ UNCHANGED <<lease, leases, settings, runs, requests, results, pc, mine,
                   flags, before, target, others>>

Started ==
    /\ site = "Starting" /\ site' = "Running"
    /\ UNCHANGED <<lease, leases, settings, order, runs, requests, results, pc,
                   mine, flags, before, target, others>>

(* A run does not survive the stop of its site.                            *)
Stopped ==
    /\ site = "Stopping" /\ site' = "Stopped"
    /\ runs' = [i \in DOMAIN runs |->
                   IF runs[i].status = "running"
                   THEN [runs[i] EXCEPT !.status = "Aborted"] ELSE runs[i]]
    /\ UNCHANGED <<lease, leases, settings, order, requests, results, pc, mine,
                   flags, before, target, others>>

(* process_authorized: only the request the control record names, and only *)
(* while its deployment exists.  A run may fail before or after its result.*)
RunEnds(i) ==
    /\ runs[i].status = "running"
    /\ \/ /\ runs[i].serves \in requests
          /\ results' = results \cup {runs[i].serves}
          /\ \E s \in Final : runs' = [runs EXCEPT ![i].status = s]
       \/ results' = results /\ runs' = [runs EXCEPT ![i].status = "Failed"]
    /\ UNCHANGED <<lease, leases, settings, site, order, requests, pc, mine,
                   flags, before, target, others>>

-----------------------------------------------------------------------------
Handoff(c) ==
    \/ Verify(c) \/ Lock(c) \/ Busy(c) \/ PutRequest(c)
    \/ Seal(c) \/ InjectRead(c) \/ InjectRenew(c) \/ Inject(c) \/ InjectBack(c)
    \/ StartCheck(c) \/ StartRenew(c) \/ StartPost(c) \/ StartPoll(c)
    \/ RunRead(c) \/ RunPost(c) \/ RunPoll(c) \/ Result(c) \/ Fail(c)
    \/ Reverify(c) \/ StopCheck(c) \/ EmergencyCheck(c) \/ StopPost(c)
    \/ StopPoll(c) \/ ReleaseCheck(c) \/ RestoreRead(c) \/ RestoreRenew(c)
    \/ Restore(c) \/ RestoreBack(c) \/ DeleteRequest(c) \/ Skip(c) \/ Unlocked(c)

Clean(k) ==
    \/ Verify(k) \/ Lock(k) \/ Busy(k) \/ CleanVerify(k) \/ CleanRead(k)
    \/ CleanStop(k) \/ CleanRenew(k) \/ CleanStopPost(k) \/ CleanStopPoll(k)
    \/ CleanRestoreRead(k) \/ CleanRestore(k) \/ CleanFail(k) \/ Unlocked(k)

Cloud == Obey \/ Started \/ Stopped \/ \E i \in DOMAIN runs : RunEnds(i)

(* Every controller has come to its end.                                   *)
Finished == \A c \in Controllers : Gone(c)

Next ==
    \/ \E c \in Controllers : Handoff(c)
    \/ \E k \in Cleaners : Clean(k)
    \/ \E a \in Actors : Crash(a)
    \/ Expire \/ Cloud

Spec == Init /\ [][Next]_vars

(* Controllers run, cleanup is scheduled again and again, leases expire    *)
(* and App Service carries out what it accepted.                           *)
FairSpec == /\ Spec
            /\ \A c \in Controllers : WF_vars(Handoff(c))
            /\ \A k \in Cleaners :
                   /\ WF_vars(Clean(k)) /\ SF_vars(Lock(k)) /\ SF_vars(CleanVerify(k))
                   /\ SF_vars(CleanStopPost(k) /\ order' = "stop")
                   /\ SF_vars(CleanRestore(k) /\ settings' = Durable)
            /\ WF_vars(Expire) /\ WF_vars(Cloud)

-----------------------------------------------------------------------------
(* Properties *)

(* Every variable keeps its type.                                          *)
TypeOK ==
    /\ lease \in 0..MaxLeases /\ leases \in 0..MaxLeases
    /\ settings \in Controllers \cup {Durable}
    /\ site \in {"Stopped", "Starting", "Running", "Stopping"}
    /\ order \in {"none", "start", "stop"}
    /\ \A i \in DOMAIN runs :
          runs[i] \in [serves: Controllers \cup {Durable},
                      status: {"running", "Success", "Failed", "Aborted"}]
    /\ requests \subseteq Controllers /\ results \subseteq Controllers
    /\ pc \in [Actors -> Counter]
    /\ mine \in [Actors -> 0..MaxLeases]
    /\ owns \subseteq Controllers /\ started \subseteq Controllers
    /\ asked \subseteq Controllers
    /\ before \in [Controllers -> Nat]
    /\ target \in [Cleaners -> Controllers \cup {Durable}]
    /\ verifier \in Verifiers /\ gaveUp \subseteq Controllers /\ crashes \in 0..MaxCrashes

(* A controller that has injected its map and still runs finds it in place *)
(* until it has sent the original one itself, even if it lost its lease:   *)
(* neither another controller nor a cleanup takes it away.                 *)
OwnerKeepsMap ==
    \A c \in owns : \/ Gone(c) \/ pc[c] \in {"restoreback", "delete", "unlock"}
                   \/ settings = c

(* A WebJob run works under the control record it was started with: the    *)
(* map, and the GitHub token in it, is neither removed nor replaced while  *)
(* the run is alive.                                                       *)
RunUnderItsMap ==
    \A i \in DOMAIN runs : runs[i].status = "running" => settings = runs[i].serves

(* Without a transient map the bridge is stopped and stays so: nobody is   *)
(* left to stop a bridge that runs with the durable map, because cleanup   *)
(* takes it for clean and the next controller refuses it.  A controller    *)
(* that gave up on its own start could remove the map before the start     *)
(* shows; it is the code's verifier that keeps it from doing so.           *)
Settled == Exact \/ gaveUp = {}
DurableIsStopped == Settled /\ settings = Durable => Halted /\ order # "start"

(* The full map is only written by the holder of the controller lease, and *)
(* over the very map its writer read: a lost lease prevents the mutation.  *)
MapUnderLease ==
    [][settings' # settings =>
          \E a \in Actors :
              /\ Holds(a) /\ pc'[a] # pc[a]
              /\ \/ pc[a] = "inject" /\ settings = Durable /\ settings' = a
                 \/ pc[a] = "restore" /\ settings = a /\ settings' = Durable
                 \/ pc[a] = "crestore" /\ settings = target[a]
                                      /\ settings' = Durable]_vars

(* The token is injected only into a stopped bridge.                       *)
InjectStopped ==
    [][(Settled /\ settings = Durable /\ settings' # Durable)
          => site = "Stopped"]_vars

(* Whatever fails and whoever takes the lease over, a live owner of the    *)
(* bridge keeps its transient map, a run is never left without it, and a   *)
(* bridge with the durable map is stopped (_run_bridge and                 *)
(* cleanup_expired_transient).                                             *)
HandoffSafe == TypeOK /\ OwnerKeepsMap /\ RunUnderItsMap /\ DurableIsStopped

(* The map is written only by the holder of the lease, and the token only  *)
(* into a bridge that is stopped and stays so (ControllerLease.assert_held *)
(* and BridgeLease.acquire).                                               *)
HandoffSteps == MapUnderLease /\ InjectStopped

(* What a controller leaves behind is removed by the cleanup in the end    *)
(* (or the bound on lease identifiers is reached first).                   *)
TokenRemoved ==
    (settings \in Controllers /\ Gone(settings))
        ~> (settings = Durable \/ leases = MaxLeases)
=============================================================================
