---------------------------- MODULE CleanupWatcher ----------------------------
(***************************************************************************)
(* The cleanup watcher of the registry bridge: one session document in a   *)
(* blob that is replaced by compare-and-swap, opened and kept alive by a   *)
(* runner (open_session, heartbeat_session), claimed when its lease has    *)
(* run out, and closed by a cleaner (CleanupWatcher.sweep) once the bridge *)
(* is sealed and a write-once receipt says so.                             *)
(*                                                                         *)
(* The bridge knows nothing of the session: a runner works on it as long   *)
(* as its authority has not been revoked, a cleaner seals it whenever its  *)
(* requests arrive.  A cleaner may be paused for longer than its claim     *)
(* lasts wherever it is.                                                   *)
(***************************************************************************)
EXTENDS Naturals

CONSTANTS
    Runners,      \* runner sessions
    Generation,   \* the authority generation each of them runs under
    Cleaners,     \* instances of the watcher, each a claimant of its own
    MaxFence,     \* bound: fence numbers
    MaxBeats,     \* bound: heartbeats
    MaxFaults,    \* bound: cleaner crashes and failed cleanup requests
    None

Assessment == [sealed: BOOLEAN, reconciled: BOOLEAN]
Doc == [session: Runners, fence: 1..MaxFence,
        status: {"active", "claimed", "closed"},
        claimant: Cleaners \cup {None}, bound: BOOLEAN, fenced: BOOLEAN,
        assessment: Assessment \cup {None}, receipt: Assessment \cup {None}]
Record == [doc: Doc \cup {None}, etag: Nat]
Path == Runners \X (1..MaxFence)

Counter == {"idle", "claim", "bind", "bindwrite", "load", "act", "assess",
            "reload", "renew", "receipt", "final", "close", "marker"}

VARIABLES
    state,      \* the state blob: document and storage ETag
    late,       \* has the lease in the document run out?
    bridge,     \* "sealed", or "open" once a runner has worked on it
    revoked,    \* authority generations that can no longer act
    fences,     \* claims whose authority fence document is published
    results,    \* sessions whose WebJob results are complete
    evidence,   \* receipts, by session and fence
    markers,    \* closure markers, by session and fence
    runner,     \* what each runner is doing, and the record it read
    cleaner,    \* what each cleaner is doing
    beats,      \* heartbeats so far
    faults,     \* cleaner crashes and failed cleanup requests so far
    closings    \* history: the records that closed a session

cloud == <<bridge, revoked, fences, results>>
worm == <<evidence, markers>>
vars == <<state, late, cloud, worm, runner, cleaner, beats, faults, closings>>

-----------------------------------------------------------------------------
(* Mutated forms of the operators below; no action uses them.              *)

(* The state is replaced whatever its ETag.                                *)
CurrentAny(etag) == TRUE

(* A claim is not fenced by evidence of revocation.                        *)
PublishedAny(d) == TRUE

(* Any claim in force passes for the cleaner's own.                        *)
MineAnyone(k) == state.doc.status = "claimed" /\ ~late

(* Only an active session is claimed.                                      *)
ClaimableActive == state.doc.status = "active" /\ late

(* A closed record is overwritten without a marker of its own.             *)
RetainNothing(record) == UNCHANGED markers

(* A claim takes the fence and forgets the status.                         *)
ClaimedActive(k) ==
    [cleaner[k].claim EXCEPT !.fence = @ + 1, !.claimant = k, !.fenced = FALSE,
                             !.assessment = None]

-----------------------------------------------------------------------------
(* Helpers *)

Opened == state.doc # None
Current(etag) == state.etag = etag
Where(d) == <<d.session, d.fence>>

Put(f, p, body) == [q \in DOMAIN f \cup {p} |-> IF q = p THEN body ELSE f[q]]

(* _same_claim, whether or not the lease of the claim has run out.         *)
MineLate(k) == /\ state.doc.status = "claimed"
               /\ state.doc.session = cleaner[k].claim.session
               /\ state.doc.fence = cleaner[k].claim.fence
               /\ state.doc.claimant = cleaner[k].claim.claimant

Mine(k) == MineLate(k) /\ ~late

Claimable == state.doc.status \in {"active", "claimed"} /\ late

(* validate_authority_fence: the document names this very claim.           *)
Published(d) == Where(d) \in fences

Complete(a) == a.sealed /\ a.reconciled

(* retain_closure_marker: the receipt the record names is there, and the   *)
(* marker under its path is the one for this record.                       *)
Closable(record) == /\ Where(record.doc) \in DOMAIN evidence
                    /\ evidence[Where(record.doc)] = record.doc.receipt
Retained(record) == /\ Where(record.doc) \in DOMAIN markers
                    /\ markers[Where(record.doc)] = record
Retain(record) ==
    /\ Closable(record)
    /\ IF Where(record.doc) \in DOMAIN markers THEN UNCHANGED markers
       ELSE markers' = Put(markers, Where(record.doc), record)

Rest == [pc |-> "idle", etag |-> 0, claim |-> None, round |-> "stage", look |-> None]

Move(k, pc) == cleaner' = [cleaner EXCEPT ![k].pc = pc]
Give(k) == cleaner' = [cleaner EXCEPT ![k] = Rest]
Runs(r, pc, record) == runner' = [runner EXCEPT ![r] = [pc |-> pc, read |-> record]]

Replace(doc) == state' = [doc |-> doc, etag |-> state.etag + 1]

NoRecord == [doc |-> None, etag |-> 0]

Init ==
    /\ state = NoRecord
    /\ late = FALSE
    /\ bridge = "sealed" /\ revoked = {} /\ fences = {} /\ results = {}
    /\ evidence = [p \in {} |-> None] /\ markers = [p \in {} |-> None]
    /\ runner = [r \in Runners |-> [pc |-> "idle", read |-> NoRecord]]
    /\ cleaner = [k \in Cleaners |-> Rest]
    /\ beats = 0 /\ faults = 0 /\ closings = {}

-----------------------------------------------------------------------------
(* The runner: open_session and heartbeat_session *)

(* An unresolved session is never replaced, and the next one runs under    *)
(* another authority generation.                                           *)
Open(r) ==
    /\ runner[r].pc = "idle"
    /\ Opened => /\ state.doc.status = "closed"
                 /\ Generation[state.doc.session] # Generation[r]
    /\ Runs(r, IF Opened THEN "retain" ELSE "open", state)
    /\ UNCHANGED <<state, late, cloud, worm, cleaner, beats, faults, closings>>

OpenRetain(r) ==
    /\ runner[r].pc = "retain"
    /\ Retain(runner[r].read)
    /\ runner' = [runner EXCEPT ![r].pc = "open"]
    /\ UNCHANGED <<state, late, cloud, evidence, cleaner, beats, faults, closings>>

Fresh(r, fence) ==
    [session |-> r, fence |-> fence, status |-> "active", claimant |-> None,
     bound |-> FALSE, fenced |-> FALSE, assessment |-> None, receipt |-> None]

OpenWrite(r) ==
    LET prior == runner[r].read.doc
        fence == IF prior = None THEN 1 ELSE prior.fence + 1
    IN
    /\ runner[r].pc = "open" /\ Current(runner[r].read.etag)
    /\ fence <= MaxFence
    /\ Replace(Fresh(r, fence)) /\ late' = FALSE
    /\ Runs(r, "active", NoRecord)
    /\ UNCHANGED <<cloud, worm, cleaner, beats, faults, closings>>

(* A fenced or expired runner has lost its session.                        *)
Beating(r) ==
    state.doc.status = "active" /\ state.doc.session = r /\ ~late

BeatRead(r) ==
    /\ runner[r].pc = "active" /\ beats < MaxBeats
    /\ IF Beating(r) THEN Runs(r, "beat", state) ELSE Runs(r, "lost", NoRecord)
    /\ UNCHANGED <<state, late, cloud, worm, cleaner, beats, faults, closings>>

(* A heartbeat renews the lease and may bind the histories of the WebJobs. *)
Beat(r) ==
    /\ runner[r].pc = "beat" /\ Current(runner[r].read.etag)
    /\ \E b \in {runner[r].read.doc.bound, TRUE} :
           Replace([runner[r].read.doc EXCEPT !.bound = b])
    /\ late' = FALSE
    /\ beats' = beats + 1
    /\ Runs(r, "active", NoRecord)
    /\ UNCHANGED <<cloud, worm, cleaner, faults, closings>>

(* A lost compare-and-swap; or the runner dies, wherever it is.            *)
RunnerLost(r) ==
    /\ runner[r].pc \notin {"idle", "lost"}
    /\ Runs(r, "lost", NoRecord)
    /\ UNCHANGED <<state, late, cloud, worm, cleaner, beats, faults, closings>>

(* The work of the runner on the bridge, and its WebJobs.                  *)
Work(r) ==
    /\ runner[r].pc \in {"active", "beat"} /\ Generation[r] \notin revoked
    /\ bridge' = "open"
    /\ UNCHANGED <<state, late, revoked, fences, results, worm, runner, cleaner,
                   beats, faults, closings>>

Finish(r) ==
    /\ bridge = "open" /\ state.doc.session = r /\ state.doc.status # "closed"
    /\ results' = results \cup {r}
    /\ UNCHANGED <<state, late, bridge, revoked, fences, worm, runner, cleaner,
                   beats, faults, closings>>

-----------------------------------------------------------------------------
(* The producer of authority fences, and time *)

Revoke ==
    /\ Opened /\ state.doc.status = "claimed"
    /\ Generation[state.doc.session] \notin revoked
    /\ revoked' = revoked \cup {Generation[state.doc.session]}
    /\ UNCHANGED <<state, late, bridge, fences, results, worm, runner, cleaner,
                   beats, faults, closings>>

(* Published once the last token of the generation has expired.            *)
Publish ==
    /\ Opened /\ state.doc.status = "claimed" /\ Where(state.doc) \notin fences
    /\ Generation[state.doc.session] \in revoked
    /\ fences' = fences \cup {Where(state.doc)}
    /\ UNCHANGED <<state, late, bridge, revoked, results, worm, runner, cleaner,
                   beats, faults, closings>>

Lapse ==
    /\ Opened /\ state.doc.status # "closed" /\ ~late
    /\ late' = TRUE
    /\ UNCHANGED <<state, cloud, worm, runner, cleaner, beats, faults, closings>>

-----------------------------------------------------------------------------
(* The cleaner: claim_expired_session *)

(* Where reconcile_claim goes on with a claim.                             *)
Stage(d) == IF ~d.fenced THEN "bind" ELSE "load"
Round(d) == IF d.assessment = None THEN "stage" ELSE "refresh"

Take(k, pc) ==
    cleaner' = [cleaner EXCEPT ![k] =
                   [pc |-> pc, claim |-> state.doc,
                    etag |-> IF pc \in {"claim", "marker"} THEN state.etag ELSE 0,
                    round |-> Round(state.doc), look |-> None]]

Sweep(k) ==
    /\ cleaner[k].pc = "idle" /\ Opened
    /\ \/ state.doc.status = "closed" /\ Take(k, "marker")
       \/ Claimable /\ state.doc.fence < MaxFence /\ Take(k, "claim")
       \/ /\ state.doc.status = "claimed" /\ state.doc.claimant = k /\ ~late
          /\ Take(k, Stage(state.doc))
    /\ UNCHANGED <<state, late, cloud, worm, runner, beats, faults, closings>>

(* A claim is a new fence; nothing of an earlier claim survives.           *)
Claimed(k) ==
    [cleaner[k].claim EXCEPT !.status = "claimed", !.fence = @ + 1,
                             !.claimant = k, !.fenced = FALSE,
                             !.assessment = None]

Claim(k) ==
    /\ cleaner[k].pc = "claim" /\ Current(cleaner[k].etag)
    /\ Replace(Claimed(k)) /\ late' = FALSE
    /\ cleaner' = [cleaner EXCEPT ![k].pc = "bind", ![k].claim = Claimed(k),
                                  ![k].etag = 0, ![k].round = "stage"]
    /\ UNCHANGED <<cloud, worm, runner, beats, faults, closings>>

-----------------------------------------------------------------------------
(* bind_authority_fence: whoever is claimed from can no longer act.        *)

Read(k, pc) == cleaner' = [cleaner EXCEPT ![k].pc = pc, ![k].etag = state.etag]
Written(k, pc, doc) ==
    [cleaner[k] EXCEPT !.pc = pc, !.etag = 0, !.claim = doc]

BindRead(k) ==
    /\ cleaner[k].pc = "bind" /\ MineLate(k) /\ Published(state.doc)
    /\ IF state.doc.fenced THEN Move(k, "load") ELSE Read(k, "bindwrite")
    /\ UNCHANGED <<state, late, cloud, worm, runner, beats, faults, closings>>

Bind(k) ==
    /\ cleaner[k].pc = "bindwrite" /\ Current(cleaner[k].etag)
    /\ Replace([state.doc EXCEPT !.fenced = TRUE])
    /\ cleaner' = [cleaner EXCEPT ![k] = Written(k, "load", state'.doc)]
    /\ UNCHANGED <<late, cloud, worm, runner, beats, faults, closings>>

-----------------------------------------------------------------------------
(* stage_assessment and refresh_claim_for_evidence: assess_cleanup between *)
(* two reads of the state, then a renewal of the claim.                    *)

Load(k) ==
    /\ cleaner[k].pc = "load" /\ Mine(k) /\ state.doc.fenced
    /\ cleaner[k].round = "refresh" => state.doc.assessment # None
    /\ Move(k, "act")
    /\ UNCHANGED <<state, late, cloud, worm, runner, beats, faults, closings>>

(* Stop, reseal, deletion of the transient settings.  A request that fails *)
(* is noted and the others are still sent.                                 *)
Act(k) ==
    /\ cleaner[k].pc = "act"
    /\ \/ bridge' = "sealed" /\ faults' = faults
          /\ cleaner' = [cleaner EXCEPT ![k].pc = "assess",
                             ![k].look = [sealed |-> TRUE, reconciled |-> FALSE]]
       \/ faults < MaxFaults /\ faults' = faults + 1 /\ bridge' = bridge
          /\ cleaner' = [cleaner EXCEPT ![k].pc = "assess",
                             ![k].look = [sealed |-> FALSE, reconciled |-> FALSE]]
    /\ UNCHANGED <<state, late, revoked, fences, results, worm, runner, beats,
                   closings>>

Assess(k) ==
    LET d == cleaner[k].claim IN
    /\ cleaner[k].pc = "assess"
    /\ cleaner' = [cleaner EXCEPT
                      ![k].pc = "reload",
                      ![k].look = [sealed |-> @.sealed /\ bridge = "sealed",
                                   reconciled |-> d.bound /\ d.session \in results]]
    /\ UNCHANGED <<state, late, cloud, worm, runner, beats, faults, closings>>

(* The second assessment has to be the first one again.                    *)
Agrees(k) ==
    state.doc.assessment \in
        {cleaner[k].look} \cup (IF cleaner[k].round = "stage" THEN {None} ELSE {})

Reload(k) ==
    /\ cleaner[k].pc = "reload" /\ Mine(k) /\ Agrees(k)
    /\ Read(k, "renew")
    /\ UNCHANGED <<state, late, cloud, worm, runner, beats, faults, closings>>

Renew(k) ==
    LET doc == [state.doc EXCEPT !.assessment = cleaner[k].look] IN
    /\ cleaner[k].pc = "renew" /\ Current(cleaner[k].etag)
    /\ Replace(doc) /\ late' = FALSE
    /\ cleaner' = [cleaner EXCEPT
                      ![k].pc = IF cleaner[k].round = "stage" THEN "load" ELSE "receipt",
                      ![k].round = "refresh", ![k].claim = doc,
                      ![k].etag = 0, ![k].look = None]
    /\ UNCHANGED <<cloud, worm, runner, beats, faults, closings>>

-----------------------------------------------------------------------------
(* create_or_replay_receipt, finalize_session and retain_closure_marker *)

(* A receipt that exists already must be the very same.                    *)
Receipt(k) ==
    LET d == cleaner[k].claim IN
    /\ cleaner[k].pc = "receipt"
    /\ IF Where(d) \in DOMAIN evidence
       THEN evidence[Where(d)] = d.assessment /\ UNCHANGED evidence
       ELSE evidence' = Put(evidence, Where(d), d.assessment)
    /\ Move(k, "final")
    /\ UNCHANGED <<state, late, cloud, markers, runner, beats, faults, closings>>

Final(k) ==
    /\ cleaner[k].pc = "final" /\ Mine(k)
    /\ state.doc.assessment = cleaner[k].claim.assessment
    /\ Read(k, "close")
    /\ UNCHANGED <<state, late, cloud, worm, runner, beats, faults, closings>>

Close(k) ==
    LET doc == [state.doc EXCEPT !.status = "closed",
                                 !.receipt = cleaner[k].claim.assessment]
    IN
    /\ cleaner[k].pc = "close" /\ Current(cleaner[k].etag)
    /\ Replace(doc)
    /\ closings' = closings \cup {state'}
    /\ cleaner' = [cleaner EXCEPT ![k].pc = "marker", ![k].claim = doc,
                                  ![k].etag = state'.etag]
    /\ UNCHANGED <<late, cloud, worm, runner, beats, faults>>

Marker(k) ==
    /\ cleaner[k].pc = "marker"
    /\ Retain([doc |-> cleaner[k].claim, etag |-> cleaner[k].etag])
    /\ Give(k)
    /\ UNCHANGED <<state, late, cloud, evidence, runner, beats, faults, closings>>

(* A check fails or a compare-and-swap is lost: the sweep ends.            *)
Fails(k) ==
    LET c == cleaner[k] IN
    \/ c.pc \in {"claim", "bindwrite", "renew", "close"} /\ ~Current(c.etag)
    \/ c.pc = "bind" /\ ~(MineLate(k) /\ Published(state.doc))
    \/ c.pc = "load" /\ ~Mine(k)
    \/ c.pc = "reload" /\ ~(Mine(k) /\ Agrees(k))
    \/ c.pc = "receipt" /\ Where(c.claim) \in DOMAIN evidence
                        /\ evidence[Where(c.claim)] # c.claim.assessment
    \/ c.pc = "final" /\ ~(Mine(k) /\ state.doc.assessment = c.claim.assessment)

Fail(k) ==
    /\ Fails(k)
    /\ Give(k)
    /\ UNCHANGED <<state, late, cloud, worm, runner, beats, faults, closings>>

Crash(k) ==
    /\ cleaner[k].pc # "idle" /\ faults < MaxFaults
    /\ faults' = faults + 1
    /\ Give(k)
    /\ UNCHANGED <<state, late, cloud, worm, runner, beats, closings>>

-----------------------------------------------------------------------------
Runner(r) ==
    \/ Open(r) \/ OpenRetain(r) \/ OpenWrite(r) \/ BeatRead(r) \/ Beat(r)
    \/ RunnerLost(r) \/ Work(r) \/ Finish(r)

Reconcile(k) ==
    \/ Claim(k) \/ BindRead(k) \/ Bind(k)
    \/ Load(k) \/ Act(k) \/ Assess(k) \/ Reload(k) \/ Renew(k)
    \/ Receipt(k) \/ Final(k) \/ Close(k) \/ Marker(k) \/ Fail(k)

Next ==
    \/ \E r \in Runners : Runner(r)
    \/ \E k \in Cleaners : Sweep(k) \/ Reconcile(k) \/ Crash(k)
    \/ Revoke \/ Publish \/ Lapse

Spec == Init /\ [][Next]_vars

(* The watcher sweeps every 60 seconds, authority is revoked and fenced    *)
(* for whatever is claimed, and time passes.                               *)
FairSpec == /\ Spec
            /\ \A k \in Cleaners : /\ WF_vars(Reconcile(k))
                                   /\ SF_vars(Sweep(k))
                                   /\ SF_vars(Act(k) /\ bridge' = "sealed")
            /\ WF_vars(Revoke) /\ WF_vars(Publish) /\ SF_vars(Lapse)

-----------------------------------------------------------------------------
(* Properties *)

(* Every variable keeps its type (validate_session).                       *)
TypeOK ==
    /\ state \in Record /\ late \in BOOLEAN /\ bridge \in {"sealed", "open"}
    /\ revoked \subseteq {Generation[r] : r \in Runners}
    /\ fences \subseteq Path /\ results \subseteq Runners
    /\ DOMAIN evidence \subseteq Path /\ DOMAIN markers \subseteq Path
    /\ \A p \in DOMAIN evidence : evidence[p] \in Assessment
    /\ \A p \in DOMAIN markers : markers[p] \in Record
    /\ runner \in [Runners -> [pc: {"idle", "retain", "open", "active", "beat",
                                    "lost"}, read: Record]]
    /\ cleaner \in [Cleaners -> [pc: Counter, etag: Nat, claim: Doc \cup {None},
                                 round: {"stage", "refresh"},
                                 look: Assessment \cup {None}]]
    /\ beats \in 0..MaxBeats /\ faults \in 0..MaxFaults
    /\ closings \subseteq Record
    /\ Opened =>
           /\ state.doc.status = "active" =>
                  state.doc.claimant = None /\ ~state.doc.fenced
           /\ state.doc.status # "closed" => state.doc.receipt = None
           /\ state.doc.status = "closed" =>
                  state.doc.fenced /\ state.doc.receipt = state.doc.assessment

(* Only the claimant writes in a claim, and only on account of that claim: *)
(* nothing keeps the requests of a cleaner whose claim has run out from    *)
(* the bridge, but what it found then is neither staged, nor bound, nor    *)
(* closed in the claim that came after its own.                            *)
OnlyClaimant ==
    [][(Opened /\ state.doc.status = "claimed" /\ state' # state
           /\ state'.doc.fence = state.doc.fence)
       => \E k \in Cleaners : /\ state.doc.claimant = k /\ cleaner'[k] # cleaner[k]
                              /\ Where(cleaner[k].claim) = Where(state.doc)]_vars

(* A session that is closed as sealed and reconciled leaves a sealed       *)
(* bridge: nobody who worked on it under that session can open it again    *)
(* after the assessment (the authority fence precedes every assessment).   *)
SealedTruth ==
    (Opened /\ state.doc.status = "closed" /\ Complete(state.doc.receipt))
        => bridge = "sealed"

(* A session that has been claimed is never active again: a heartbeat that *)
(* was on its way when the claim was made does not revive it, and a stale  *)
(* fence neither binds nor stages nor closes anything.                     *)
NoRevival ==
    [][(Opened /\ state.doc.status # "active" /\ state'.doc.session = state.doc.session)
       => /\ state'.doc.status # "active"
          /\ state.doc.status = "closed" => state' = state]_vars

(* Every closed record is retained by its own marker before the singleton  *)
(* moves on, whoever crashed between the closing and the marker.           *)
ClosingRetained ==
    \A c \in closings : state = c \/ Retained(c)

(* A session that is closed as sealed is so for good, although its runner  *)
(* may still hold a token, and the next session never overwrites the only  *)
(* record of a closing.                                                    *)
CleanupSafe == TypeOK /\ SealedTruth /\ ClosingRetained

(* A slow cleaner records nothing in the claim of another one, and a late  *)
(* heartbeat does not bring back a session that was claimed.               *)
CleanupSteps == OnlyClaimant /\ NoRevival

(* A session whose runner is lost is closed in the end, although cleaners  *)
(* crash, requests fail and results arrive late (or the bound on fences is *)
(* reached first).                                                         *)
CleanupRecovers ==
    (Opened /\ late) ~> (Opened => \/ state.doc.status = "closed"
                                   \/ state.doc.fence = MaxFence)
=============================================================================
