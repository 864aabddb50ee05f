---------------------------- MODULE ActivationFence ----------------------------
(***************************************************************************)
(* Production activation behind the activation fence: the workers of the   *)
(* private bridge (process_request), the fence blob with its finite lease  *)
(* (BlobActivationFence), the App Settings of the production site          *)
(* (ProductionActivation) and the write-once terminal markers              *)
(* consumed.json, completed.json and aborted.json.                         *)
(*                                                                         *)
(* A worker renews the lease before every request it sends to the          *)
(* production site, but the site itself knows nothing of the lease: a PUT  *)
(* takes effect whenever it arrives.  StallAt names the program counters   *)
(* at which a worker may be paused for longer than a lease term.           *)
(***************************************************************************)
EXTENDS Naturals, FiniteSets

CONSTANTS
    Workers,      \* bridge processes that may serve a request
    Releases,     \* release descriptors: pending manifests, rollback preparations
    Candidates,   \* the releases activated by consume-candidate
    Packages,     \* package URLs a site can run from
    Rests,        \* the rest of the App Settings map
    Target,       \* the package a release activates
    Baseline,     \* the package of the accepted baseline a candidate replaces
    Initial,      \* the App Settings before the first request
    Flaky,        \* packages whose probes may fail while they run
    StallAt,      \* where a worker may outlive the lease it holds
    MaxLeases,    \* bound: lease identifiers ever drawn
    MaxOwner,     \* bound: out-of-band writes by a subscription owner
    MaxCrashes,   \* bound: worker crashes
    NoPlan,
    NoReceipt

Settings == [pkg: Packages, rest: Rests]
Plan == [release: Releases, pre: Settings, desired: Settings]
Receipt == [plan: Plan, version: Nat, lease: Nat]

(* Counters at which a worker has renewed for the last time before an      *)
(* effect that nothing but the lease protects.                             *)
Window == {"put", "undoput", "createconsumed", "createaborted"}

(* Counters at which the next request is preceded by assert_held.          *)
Guarded == {"read", "predeploy", "putread", "putback", "restart", "probe",
            "reprobe", "consume", "undoread", "undoputread", "undoputback",
            "undocheck", "undorestart", "undoprobe", "abort"}

Counter == {"idle", "prepare", "observe", "acquire", "bind", "recover",
            "fenceread", "fencelease", "fencewrite", "fencerelease"}
           \cup Guarded \cup Window

ASSUME ConstantsOK ==
    /\ Candidates \subseteq Releases
    /\ Target \in [Releases -> Packages]
    /\ Baseline \in [Releases -> Packages]
    /\ Initial \in Settings
    /\ StallAt \subseteq Counter
    /\ MaxLeases \in Nat /\ MaxOwner \in Nat /\ MaxCrashes \in Nat
    /\ NoPlan \notin Plan
    /\ NoReceipt \notin Receipt

VARIABLES
    fence,      \* the body of the fence blob
    lease,      \* the lease active on the fence blob, 0 when available
    leases,     \* how many random lease identifiers have been drawn
    settings,   \* the App Settings of the production site
    running,    \* the package the production site serves
    consumed,   \* bodies of the consumed.json and completed.json markers
    aborted,    \* bodies of the aborted.json markers
    plans,      \* activation plans in signed prepare results
    pc,         \* where each worker is
    req,        \* the plan of the request it serves
    grant,      \* the fence receipt it acts under
    mine,       \* the lease identifier it presents
    owner,      \* history: out-of-band writes so far
    crossed,    \* history: workers whose pending PUT such a write overtook
    crashes     \* history: crashes so far

shared == <<fence, lease, leases, settings, running, consumed, aborted, plans>>
local == <<pc, req, grant, mine>>
history == <<owner, crossed, crashes>>
vars == <<shared, local, history>>

-----------------------------------------------------------------------------
(* Mutated forms of the operators below; no action uses them.              *)

(* assert_held compares the state but does not renew the lease.            *)
HoldsUnrenewed(w) == fence.receipt # NoReceipt /\ fence.receipt = grant[w]

(* A held fence is taken over by any plan once its lease has run out.      *)
MayBindAny(p) == TRUE

(* One terminal marker is created without a look at the other.             *)
ConsumeBlindly(r) == TRUE
AbortBlindly(r) == TRUE

(* A rollback completes under the status its handler returns.              *)
OutcomeComplete(d) == IF d.plan.release \in Candidates THEN "consumed"
                      ELSE "complete"

-----------------------------------------------------------------------------
(* Helpers *)

(* The settings with the package of release r and everything else kept.    *)
Toward(s, r) == [s EXCEPT !.pkg = Target[r]]
BaselineOf(s, r) == [s EXCEPT !.pkg = Baseline[r]]

Consumed(r) == \E d \in consumed : d.plan.release = r
Aborted(r) == \E d \in aborted : d.plan.release = r

Idle == fence.receipt = NoReceipt
Held == ~Idle

(* assert_held: the state under the lease is the receipt and the lease can *)
(* be renewed.                                                             *)
Holds(w) == /\ Held
            /\ fence.receipt = grant[w]
            /\ lease = grant[w].lease

(* The fence may be bound when it is idle, or held by exactly this plan.   *)
MayBind(p) == Held => fence.receipt.plan = p

(* Does a probe of a profile that expects package k answer healthy?        *)
Healthy(k) == running = k
Unhealthy(k) == running # k \/ k \in Flaky

(* The terminal markers that forbid creating the other one.                *)
ConsumeAllowed(r) == r \in Candidates => ~Aborted(r)
AbortAllowed(r) == ~Consumed(r)

(* create_or_read_exact: no marker yet, or one with the same bytes.        *)
Creatable(docs, d) == \A e \in docs : e.plan.release = d.plan.release => e = d

Outcome(d) == IF d \in aborted THEN "aborted"
              ELSE IF d.plan.release \in Candidates THEN "consumed"
              ELSE "rollback-complete"

Goto(w, l) == pc' = [pc EXCEPT ![w] = l]

(* A request that ends, or a process that dies, forgets its local state.   *)
Reset(w) == /\ Goto(w, "idle")
            /\ req' = [req EXCEPT ![w] = NoPlan]
            /\ grant' = [grant EXCEPT ![w] = NoReceipt]
            /\ mine' = [mine EXCEPT ![w] = 0]

Init ==
    /\ fence = [receipt |-> NoReceipt, version |-> 0,
                status |-> "bootstrap", proof |-> 0]
    /\ lease = 0
    /\ leases = 0
    /\ settings = Initial
    /\ running = Initial.pkg
    /\ consumed = {}
    /\ aborted = {}
    /\ plans = {}
    /\ pc = [w \in Workers |-> "idle"]
    /\ req = [w \in Workers |-> NoPlan]
    /\ grant = [w \in Workers |-> NoReceipt]
    /\ mine = [w \in Workers |-> 0]
    /\ owner = 0
    /\ crossed = {}
    /\ crashes = 0

-----------------------------------------------------------------------------
(* prepare-candidate and prepare-rollback: settle on an activation plan    *)

(* A release that is already consumed (or rolled back) answers with the    *)
(* plan of its terminal marker.                                            *)
PrepareRecovered(w, r) ==
    /\ pc[w] = "idle" /\ Consumed(r) /\ ConsumeAllowed(r)
    /\ plans' = plans \cup {d.plan : d \in {e \in consumed : e.plan.release = r}}
    /\ UNCHANGED <<fence, lease, leases, settings, running, consumed, aborted,
                   local, history>>

PrepareObserve(w, r) ==
    /\ pc[w] = "idle" /\ ~Consumed(r) /\ ConsumeAllowed(r)
    /\ req' = [req EXCEPT ![w] = [release |-> r, pre |-> settings,
                                  desired |-> Toward(settings, r)]]
    /\ Goto(w, "prepare")
    /\ UNCHANGED <<shared, grant, mine, history>>

(* recover_plan: an orphan of this release is handed out again, an orphan  *)
(* of another release, or a third state, ends the request.                 *)
Answer(w) ==
    IF Idle THEN {p \in {req[w]} : p.pre # p.desired}
    ELSE {p \in {fence.receipt.plan} : /\ p.release = req[w].release
                                       /\ req[w].pre \in {p.pre, p.desired}}

PrepareFence(w) ==
    /\ pc[w] = "prepare"
    /\ plans' = plans \cup Answer(w)
    /\ Reset(w)
    /\ UNCHANGED <<fence, lease, leases, settings, running, consumed, aborted,
                   history>>

-----------------------------------------------------------------------------
(* consume-candidate and complete-rollback: bind the fence                 *)

Request(w, p) ==
    /\ pc[w] = "idle" /\ ~Consumed(p.release)
    /\ req' = [req EXCEPT ![w] = p]
    /\ Goto(w, "observe")
    /\ UNCHANGED <<shared, grant, mine, history>>

RequestTerminal(w, p) ==
    /\ pc[w] = "idle"
    /\ \E d \in consumed : /\ d.plan = p
                           /\ grant' = [grant EXCEPT ![w] = d]
    /\ req' = [req EXCEPT ![w] = p]
    /\ Goto(w, "recover")
    /\ UNCHANGED <<shared, mine, history>>

Observe(w) ==
    /\ pc[w] = "observe" /\ settings \in {req[w].pre, req[w].desired}
    /\ Goto(w, "acquire")
    /\ UNCHANGED <<shared, req, grant, mine, history>>

(* A fresh random lease identifier; a busy blob is never joined.           *)
TakeLease(w) ==
    /\ lease = 0 /\ leases < MaxLeases
    /\ leases' = leases + 1
    /\ lease' = leases'
    /\ mine' = [mine EXCEPT ![w] = leases']

Acquire(w) ==
    /\ pc[w] = "acquire"
    /\ TakeLease(w)
    /\ Goto(w, "bind")
    /\ UNCHANGED <<fence, settings, running, consumed, aborted, plans, req,
                   grant, history>>

Bound(w) == [plan |-> req[w], version |-> fence.version + 1, lease |-> mine[w]]

Bind(w) ==
    /\ pc[w] = "bind" /\ lease = mine[w] /\ MayBind(req[w])
    /\ fence' = [receipt |-> Bound(w), version |-> fence.version + 1,
                 status |-> fence.status, proof |-> fence.proof]
    /\ grant' = [grant EXCEPT ![w] = Bound(w)]
    /\ Goto(w, "read")
    /\ UNCHANGED <<lease, leases, settings, running, consumed, aborted, plans,
                   req, mine, history>>

(* The write lands but its answer or its readback is lost: the lease is    *)
(* released and the request fails with the fence held.                     *)
BindUnseen(w) ==
    /\ pc[w] = "bind" /\ lease = mine[w] /\ MayBind(req[w])
    /\ fence' = [receipt |-> Bound(w), version |-> fence.version + 1,
                 status |-> fence.status, proof |-> fence.proof]
    /\ lease' = 0
    /\ Reset(w)
    /\ UNCHANGED <<leases, settings, running, consumed, aborted, plans, history>>

BindBusy(w) ==
    /\ pc[w] = "bind" /\ lease = mine[w] /\ ~MayBind(req[w])
    /\ lease' = 0
    /\ Reset(w)
    /\ UNCHANGED <<fence, leases, settings, running, consumed, aborted, plans,
                   history>>

-----------------------------------------------------------------------------
(* activate_run_from_package and rollback_run_from_package                 *)

(* Settings that are already the desired ones are an earlier worker's: the *)
(* activation resumes at the probe and never restores the old map.         *)
Resumable(w) ==
    /\ settings = req[w].desired
    /\ req[w].release \in Candidates =>
           BaselineOf(settings, req[w].release) = req[w].pre

Fresh(w) ==
    /\ settings = req[w].pre
    /\ req[w].release \in Candidates =>
           settings.pkg = Baseline[req[w].release]

Resume(w) ==
    /\ pc[w] = "read" /\ Holds(w) /\ Resumable(w)
    /\ Goto(w, "reprobe")
    /\ UNCHANGED <<shared, req, grant, mine, history>>

Read(w) ==
    /\ pc[w] = "read" /\ Holds(w) /\ Fresh(w)
    /\ Goto(w, IF req[w].release \in Candidates THEN "predeploy" ELSE "putread")
    /\ UNCHANGED <<shared, req, grant, mine, history>>

Predeploy(w) ==
    /\ pc[w] = "predeploy" /\ Holds(w) /\ Healthy(Baseline[req[w].release])
    /\ Goto(w, "putread")
    /\ UNCHANGED <<shared, req, grant, mine, history>>

Undoing(w) == pc[w] \in {"undoputread", "undoput", "undoputback"}
From(w) == IF Undoing(w) THEN req[w].desired ELSE req[w].pre
Into(w) == IF Undoing(w) THEN req[w].pre ELSE req[w].desired

(* put: the last read of the map and the last renewal before the PUT; a    *)
(* map that drifted is not written.                                        *)
PutRead(w) ==
    /\ pc[w] \in {"putread", "undoputread"} /\ Holds(w)
    /\ IF settings = From(w)
       THEN Goto(w, IF Undoing(w) THEN "undoput" ELSE "put")
       ELSE Goto(w, IF Undoing(w) THEN "undoputback" ELSE "putback")
    /\ UNCHANGED <<shared, req, grant, mine, history>>

(* The PUT is unconditional: it takes effect whatever the site and the     *)
(* fence hold by then, or it is lost; the worker cannot tell which.        *)
Put(w) ==
    /\ pc[w] \in {"put", "undoput"}
    /\ settings' \in {settings, Into(w)}
    /\ crossed' = crossed \ {w}
    /\ Goto(w, IF Undoing(w) THEN "undoputback" ELSE "putback")
    /\ UNCHANGED <<fence, lease, leases, running, consumed, aborted, plans, req,
                   grant, mine, owner, crashes>>

(* _put_settings_reconciled: the PUT is judged by what is read back.       *)
PutBack(w) ==
    /\ pc[w] \in {"putback", "undoputback"} /\ Holds(w) /\ settings = Into(w)
    /\ Goto(w, IF Undoing(w) THEN "undocheck" ELSE "restart")
    /\ UNCHANGED <<shared, req, grant, mine, history>>

Restart(w) ==
    /\ pc[w] \in {"restart", "undorestart"} /\ Holds(w)
    /\ running' = settings.pkg
    /\ Goto(w, IF pc[w] = "restart" THEN "probe" ELSE "undoprobe")
    /\ UNCHANGED <<fence, lease, leases, settings, consumed, aborted, plans, req,
                   grant, mine, history>>

Probe(w) ==
    /\ pc[w] \in {"probe", "reprobe"} /\ Holds(w)
    /\ Healthy(Target[req[w].release])
    /\ Goto(w, "consume")
    /\ UNCHANGED <<shared, req, grant, mine, history>>

(* Whatever fails between the first PUT and the consumption of a candidate *)
(* sends the worker to the restoration of the old map.                     *)
Undo(w) ==
    /\ pc[w] \in {"putback", "restart", "probe"}
    /\ req[w].release \in Candidates
    /\ Goto(w, "undoread")
    /\ UNCHANGED <<shared, req, grant, mine, history>>

UndoRead(w) ==
    /\ pc[w] = "undoread" /\ Holds(w)
    /\ settings \in {req[w].pre, req[w].desired}
    /\ Goto(w, IF settings = req[w].desired THEN "undoputread" ELSE "undocheck")
    /\ UNCHANGED <<shared, req, grant, mine, history>>

UndoCheck(w) ==
    /\ pc[w] = "undocheck" /\ Holds(w) /\ settings = req[w].pre
    /\ Goto(w, "undorestart")
    /\ UNCHANGED <<shared, req, grant, mine, history>>

UndoProbe(w) ==
    /\ pc[w] = "undoprobe" /\ Holds(w) /\ Healthy(Baseline[req[w].release])
    /\ Goto(w, "abort")
    /\ UNCHANGED <<shared, req, grant, mine, history>>

-----------------------------------------------------------------------------
(* consume_candidate, complete_rollback and abort_candidate                *)

Consume(w) ==
    /\ pc[w] = "consume" /\ Holds(w) /\ ConsumeAllowed(req[w].release)
    /\ Goto(w, "createconsumed")
    /\ UNCHANGED <<shared, req, grant, mine, history>>

CreateConsumed(w) ==
    /\ pc[w] = "createconsumed" /\ Creatable(consumed, grant[w])
    /\ consumed' = consumed \cup {grant[w]}
    /\ Goto(w, "fenceread")
    /\ UNCHANGED <<fence, lease, leases, settings, running, aborted, plans, req,
                   grant, mine, history>>

Abort(w) ==
    /\ pc[w] = "abort" /\ Holds(w) /\ AbortAllowed(req[w].release)
    /\ Goto(w, "createaborted")
    /\ UNCHANGED <<shared, req, grant, mine, history>>

CreateAborted(w) ==
    /\ pc[w] = "createaborted" /\ Creatable(aborted, grant[w])
    /\ aborted' = aborted \cup {grant[w]}
    /\ Goto(w, "fenceread")
    /\ UNCHANGED <<fence, lease, leases, settings, running, consumed, plans, req,
                   grant, mine, history>>

(* The marker exists already: production is observed without the fence and *)
(* only the completion of the fence is repeated.                           *)
Recover(w) ==
    /\ pc[w] = "recover" /\ Healthy(Target[req[w].release])
    /\ ConsumeAllowed(req[w].release)
    /\ Goto(w, "fenceread")
    /\ UNCHANGED <<shared, req, grant, mine, history>>

-----------------------------------------------------------------------------
(* BlobActivationFence.complete                                            *)

(* The fence is idle because this very settlement completed it before.     *)
Settled(w) == /\ Idle
              /\ fence.version = grant[w].version + 1
              /\ fence.status = Outcome(grant[w])
              /\ fence.proof = grant[w].lease

FenceRead(w) ==
    /\ pc[w] = "fenceread" /\ fence.receipt = grant[w]
    /\ Goto(w, "fencelease")
    /\ UNCHANGED <<shared, req, grant, mine, history>>

FenceSettled(w) ==
    /\ pc[w] = "fenceread" /\ Settled(w)
    /\ Reset(w)
    /\ UNCHANGED <<shared, history>>

FenceRenew(w) ==
    /\ pc[w] = "fencelease" /\ lease = grant[w].lease
    /\ mine' = [mine EXCEPT ![w] = lease]
    /\ Goto(w, "fencewrite")
    /\ UNCHANGED <<shared, req, grant, history>>

(* Mutated form of FenceRelease: a lost lease ends the completion.         *)
FenceReleaseNever(w) ==
    /\ pc[w] = "fencelease" /\ lease # grant[w].lease
    /\ Reset(w)
    /\ UNCHANGED <<shared, history>>

(* The lease of the receipt is gone: a new identifier, never the old one.  *)
FenceRelease(w) ==
    /\ pc[w] = "fencelease" /\ lease # grant[w].lease
    /\ TakeLease(w)
    /\ Goto(w, "fencewrite")
    /\ UNCHANGED <<fence, settings, running, consumed, aborted, plans, req, grant,
                   history>>

FenceWrite(w) ==
    /\ pc[w] = "fencewrite" /\ lease = mine[w] /\ fence.receipt = grant[w]
    /\ fence' = [receipt |-> NoReceipt, version |-> fence.version + 1,
                 status |-> Outcome(grant[w]), proof |-> grant[w].lease]
    /\ Goto(w, "fencerelease")
    /\ UNCHANGED <<lease, leases, settings, running, consumed, aborted, plans,
                   req, grant, mine, history>>

FenceDrift(w) ==
    /\ pc[w] = "fencewrite" /\ lease = mine[w] /\ fence.receipt # grant[w]
    /\ lease' = 0
    /\ Reset(w)
    /\ UNCHANGED <<fence, leases, settings, running, consumed, aborted, plans,
                   history>>

FenceDone(w) ==
    /\ pc[w] = "fencerelease" /\ lease = mine[w]
    /\ lease' = 0
    /\ Reset(w)
    /\ UNCHANGED <<fence, leases, settings, running, consumed, aborted, plans,
                   history>>

-----------------------------------------------------------------------------
(* Failures *)

(* The conditions under which the code raises instead of going on.  None   *)
(* of them writes anything: the fence stays as it is.                      *)
Fails(w) ==
    LET r == req[w].release IN
    \/ pc[w] \in Guarded /\ ~Holds(w)
    \/ pc[w] = "observe" /\ settings \notin {req[w].pre, req[w].desired}
    \/ pc[w] = "acquire" /\ lease # 0
    \/ pc[w] \in {"acquire", "fencelease"} /\ leases = MaxLeases  \* the bound
    \/ pc[w] = "bind" /\ lease # mine[w]
    \/ pc[w] = "read" /\ ~Resumable(w) /\ ~Fresh(w)
    \/ pc[w] \in {"predeploy", "undoprobe"} /\ Unhealthy(Baseline[r])
    \/ pc[w] \in {"reprobe", "recover"} /\ Unhealthy(Target[r])
    \/ pc[w] = "probe" /\ r \notin Candidates /\ Unhealthy(Target[r])
    \/ pc[w] = "putback" /\ settings # req[w].desired
                         /\ (r \in Candidates => settings = req[w].pre)
    \/ pc[w] = "undoread" /\ settings \notin {req[w].pre, req[w].desired}
    \/ pc[w] \in {"undoputback", "undocheck"} /\ settings # req[w].pre
    \/ pc[w] \in {"consume", "recover"} /\ ~ConsumeAllowed(r)
    \/ pc[w] = "abort" /\ ~AbortAllowed(r)
    \/ pc[w] = "createconsumed" /\ ~Creatable(consumed, grant[w])
    \/ pc[w] = "createaborted" /\ ~Creatable(aborted, grant[w])
    \/ pc[w] = "fenceread" /\ fence.receipt # grant[w] /\ ~Settled(w)
    \/ pc[w] = "fencelease" /\ lease \notin {0, grant[w].lease}
    \/ pc[w] \in {"fencewrite", "fencerelease"} /\ lease # mine[w]

Fail(w) == /\ pc[w] # "idle" /\ Fails(w)
           /\ Reset(w)
           /\ UNCHANGED <<shared, history>>

Crash(w) == /\ pc[w] # "idle" /\ crashes < MaxCrashes
            /\ crashes' = crashes + 1
            /\ crossed' = crossed \ {w}
            /\ Reset(w)
            /\ UNCHANGED <<shared, owner>>

-----------------------------------------------------------------------------
(* Environment: Azure Storage, App Service and the subscription owner      *)

(* A finite lease runs out unless its holder keeps renewing it.            *)
Expire ==
    /\ lease # 0
    /\ \A w \in Workers : mine[w] = lease => pc[w] \in StallAt
    /\ lease' = 0
    /\ UNCHANGED <<fence, leases, settings, running, consumed, aborted, plans,
                   local, history>>

(* App Service recycles a site whose App Settings changed.                 *)
Recycle ==
    /\ running # settings.pkg
    /\ running' = settings.pkg
    /\ UNCHANGED <<fence, lease, leases, settings, consumed, aborted, plans,
                   local, history>>

OwnerWrite ==
    /\ owner < MaxOwner
    /\ owner' = owner + 1
    /\ settings' \in Settings \ {settings}
    /\ crossed' = {w \in Workers : pc[w] \in {"put", "undoput"}}
    /\ UNCHANGED <<fence, lease, leases, running, consumed, aborted, plans,
                   local, crashes>>

-----------------------------------------------------------------------------
Serve(w) ==
    \/ \E r \in Releases : PrepareRecovered(w, r) \/ PrepareObserve(w, r)
    \/ PrepareFence(w)
    \/ \E p \in plans : Request(w, p) \/ RequestTerminal(w, p)
    \/ Observe(w) \/ Acquire(w) \/ Bind(w) \/ BindUnseen(w) \/ BindBusy(w)

Activate(w) ==
    \/ Read(w) \/ Resume(w) \/ Predeploy(w)
    \/ PutRead(w) \/ Put(w) \/ PutBack(w) \/ Restart(w) \/ Probe(w)
    \/ Undo(w) \/ UndoRead(w) \/ UndoCheck(w) \/ UndoProbe(w)

Settle(w) ==
    \/ Consume(w) \/ CreateConsumed(w) \/ Abort(w) \/ CreateAborted(w)
    \/ Recover(w)
    \/ FenceRead(w) \/ FenceSettled(w) \/ FenceRenew(w) \/ FenceRelease(w)
    \/ FenceWrite(w) \/ FenceDrift(w) \/ FenceDone(w)

Next ==
    \/ \E w \in Workers : Serve(w) \/ Activate(w) \/ Settle(w) \/ Fail(w) \/ Crash(w)
    \/ Expire \/ Recycle \/ OwnerWrite

Spec == Init /\ [][Next]_vars

(* A process that serves a request keeps running.                          *)
Run(w) == pc[w] # "idle" /\ (Serve(w) \/ Activate(w) \/ Settle(w) \/ Fail(w))

(* The request of the plan that holds the fence, sent again.               *)
Retry(w) == /\ Held /\ fence.receipt.plan \in plans
            /\ RequestTerminal(w, fence.receipt.plan)

(* Processes run, Azure expires leases nobody renews and recycles a site   *)
(* whose settings changed, and the request that left a terminal marker and *)
(* a held fence behind is sent again until it is answered.                 *)
FairSpec == /\ Spec
            /\ WF_vars(Expire) /\ WF_vars(Recycle)
            /\ \A w \in Workers : /\ WF_vars(Run(w))
                                  /\ SF_vars(Retry(w))

-----------------------------------------------------------------------------
(* Properties *)

(* Every variable keeps its type: the bodies of the fence blob and of the  *)
(* markers are well formed whatever the workers do.                        *)
TypeOK ==
    /\ fence \in [receipt: Receipt \cup {NoReceipt}, version: Nat,
                  status: {"bootstrap", "consumed", "aborted", "rollback-complete"},
                  proof: Nat]
    /\ lease \in Nat /\ leases \in Nat
    /\ settings \in Settings
    /\ running \in Packages
    /\ consumed \subseteq Receipt
    /\ aborted \subseteq Receipt
    /\ plans \subseteq Plan
    /\ pc \in [Workers -> Counter]
    /\ req \in [Workers -> Plan \cup {NoPlan}]
    /\ grant \in [Workers -> Receipt \cup {NoReceipt}]
    /\ mine \in [Workers -> Nat]
    /\ owner \in Nat
    /\ crossed \subseteq Workers
    /\ crashes \in Nat

(* A candidate is never both consumed and aborted, whatever the order in   *)
(* which workers that lost and rebound the fence reach their markers: the  *)
(* check of the other marker and the creation of one's own are two         *)
(* requests (consume_candidate, abort_candidate).                          *)
TerminalExclusive ==
    \A c \in consumed, a \in aborted : c.plan.release # a.plan.release

(* An idle fence tells the truth about production: as long as no owner     *)
(* interferes, the App Settings are the desired map of the settlement that *)
(* completed the fence, or the restored old map if it was an abort.        *)
SettledProduction ==
    (Idle /\ owner = 0) =>
        /\ \A d \in consumed : fence.proof = d.lease => settings = d.plan.desired
        /\ \A d \in aborted : fence.proof = d.lease => settings = d.plan.pre

(* A worker writes production only while its own receipt is the one in     *)
(* force: a stale receipt fails, and the map it replaces is the old or the *)
(* desired map of its plan unless an owner changed it after the last read. *)
WritesUnderFence ==
    [][\A w \in Workers :
          (pc[w] \in {"put", "undoput"} /\ pc'[w] # "idle" /\ settings' # settings
             /\ pc'[w] # pc[w])
          => /\ Holds(w)
             /\ w \notin crossed => settings \in {req[w].pre, req[w].desired}]_vars

(* A held fence changes hands only to the same plan, and it is given up    *)
(* only for a plan whose release has a terminal marker.                    *)
FenceDiscipline ==
    [][Held => \/ fence' = fence
               \/ fence'.receipt # NoReceipt
                  /\ fence'.receipt.plan = fence.receipt.plan
                  /\ fence'.version = fence.version + 1
               \/ fence'.receipt = NoReceipt
                  /\ fence.receipt \in consumed \cup aborted]_vars

(* A candidate that was aborted is not put into production again.          *)
AbortedStaysDown ==
    [][\A w \in Workers :
          (pc[w] = "put" /\ pc'[w] = "putback" /\ settings' # settings)
          => ~Aborted(req[w].release)]_vars

(* A crash after the terminal marker does not leave the fence held for     *)
(* good: the same terminal operation, repeated, completes it (or the bound *)
(* on lease identifiers is reached first).                                 *)
TerminalRecovers ==
    (Held /\ fence.receipt \in consumed) ~> (Idle \/ leases = MaxLeases)

(* The workers, leases and receipts implement the abstract settlement.     *)
Settlement == INSTANCE ReleaseSettlement WITH
    inforce <- IF Idle THEN NoPlan ELSE fence.receipt.plan,
    map     <- settings,
    done    <- {d.plan : d \in consumed},
    undone  <- {d.plan : d \in aborted},
    calm    <- owner = 0

(* Every step of the workers is a step of the settlement or leaves it      *)
(* alone; an owner's out-of-band write is the settlement's Meddle.         *)
Implements == Settlement!Spec

-----------------------------------------------------------------------------
(* The inductive invariant: TypeOK with BusyOK, and FenceInv, which is     *)
(* OwnInv with MapOK.                                                      *)

Settling == {"recover", "fenceread", "fencelease", "fencewrite", "fencerelease"}
Owning == {"bind"} \cup Guarded \cup Window
Undone == {"undoread", "undoputread", "undoput", "undoputback", "undocheck",
           "undorestart", "undoprobe", "abort", "createaborted"}

(* A worker that serves a request knows its plan, and once it has bound    *)
(* the fence or found the terminal marker, its receipt.                    *)
BusyOK ==
    \A w \in Workers :
        /\ pc[w] # "idle" => req[w] \in Plan
        /\ pc[w] \in Guarded \cup Window \cup Settling => grant[w] \in Receipt

(* No lease identifier in use exceeds the number of those drawn.           *)
LeaseOK ==
    /\ lease <= leases
    /\ \A w \in Workers : mine[w] <= leases
    /\ \A d \in consumed \cup aborted : d.lease <= leases

(* Workers between acquisition and terminal marker present leases of their *)
(* own, and no marker was made under such a lease.                         *)
DistinctOK ==
    \A w \in Workers : pc[w] \in Owning =>
        /\ mine[w] # 0
        /\ \A d \in consumed \cup aborted : d.lease # mine[w]
        /\ \A v \in Workers \ {w} :
               pc[v] \in Owning \cup {"fencewrite", "fencerelease"} => mine[v] # mine[w]

(* The receipt a worker acts under is its own; a worker that completes the *)
(* fence acts for a terminal marker.                                       *)
GrantOK ==
    \A w \in Workers :
        /\ pc[w] \in Guarded \cup Window =>
               grant[w].lease = mine[w] /\ grant[w].plan = req[w]
        /\ pc[w] \in Settling => grant[w] \in consumed \cup aborted

(* In a window the lease and the receipt are still the worker's.           *)
WindowOK ==
    \A w \in Workers : pc[w] \in Window =>
        lease = mine[w] /\ fence.receipt = grant[w]

(* Only candidates are undone.                                             *)
UndoOK ==
    /\ \A w \in Workers :
           pc[w] \in Undone => req[w].release \in Candidates
    /\ \A d \in aborted : d.plan.release \in Candidates

(* What a worker checked before its window still holds in it.              *)
CheckOK ==
    \A w \in Workers :
        /\ pc[w] = "createconsumed" => ConsumeAllowed(req[w].release)
        /\ pc[w] = "createaborted" => AbortAllowed(req[w].release)
        /\ pc[w] \in {"put", "undoput"} /\ w \notin crossed => settings = From(w)

(* Whoever settles a release does so under the fence, alone: the leases    *)
(* and receipts of two workers never coincide and what a worker checked    *)
(* before its window holds until the window ends (assert_held, complete).  *)
OwnInv == /\ LeaseOK /\ DistinctOK /\ GrantOK /\ WindowOK /\ UndoOK /\ CheckOK
          /\ TerminalExclusive

Carrying == {"restart", "probe", "reprobe", "consume", "createconsumed"}
Restored == {"undorestart", "undoprobe", "abort", "createaborted"}

(* Production carries what the markers made under lease l record.          *)
Truthful(l) ==
    /\ \A d \in consumed : d.lease = l => settings = d.plan.desired
    /\ \A d \in aborted : d.lease = l => settings = d.plan.pre

(* While no owner interferes, the worker under the receipt in force knows  *)
(* the map production carries, and a marker records it until another       *)
(* settlement binds the fence.                                             *)
MapOK ==
    owner = 0 =>
        /\ crossed = {}
        /\ \A w \in Workers : fence.receipt = grant[w] =>
               /\ pc[w] \in Carrying => settings = req[w].desired
               /\ pc[w] \in Restored => settings = req[w].pre
        /\ Truthful(IF Idle THEN fence.proof ELSE fence.receipt.lease)

FenceInv == OwnInv /\ MapOK
=============================================================================
