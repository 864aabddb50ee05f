---------------------------- MODULE WatchdogRollback ----------------------------
(***************************************************************************)
(* The deadline watchdog: the provider (WatchdogProvider) that keeps one   *)
(* state document in a blob replaced by compare-and-swap, and one write-   *)
(* once receipt per decision, attempt, outcome, transition, authorization  *)
(* and reconciliation; the watchdog runs that look for an overdue          *)
(* candidate (decide); and the rollback runs that GitHub starts for them   *)
(* (watchdog_rollback_control.execute).                                    *)
(*                                                                         *)
(* A request may reach the provider late, more than once or never, and the *)
(* process that handles it may die between any two accesses to the store.  *)
(*                                                                         *)
(* A document stands for its own digest.  A receipt is written once under  *)
(* its path, so a path stands for the digest of what is stored under it.   *)
(***************************************************************************)
EXTENDS Naturals, FiniteSets

CONSTANTS
    Candidates,   \* publications, each by a release run of its own
    Original,     \* the baseline before any candidate is accepted
    Watchdogs,    \* scheduled watchdog runs
    Reviewers,    \* runs of the protected manual reconciliation
    Handlers,     \* provider processes
    Instants,     \* the clock readings two processes may take at one time
    Late,         \* candidates that may be published just before their deadline
    Responses,    \* may transition responses carry operationReceiptSha256?
    MaxWrites,    \* bound: replacements of the state blob
    MaxRuns,      \* bound: rollback runs GitHub starts
    None

Runs == 1..MaxRuns
Claim == Watchdogs \X Nat
Stamps == Nat \X Instants

Status == {"available", "claimed", "dispatching", "requested", "authorized"}
Guard == [status: Status, gen: Nat \ {0}, claim: Claim \cup {None},
          run: Runs \cup {None}]
Pending == [cand: Candidates, guard: Guard]
Doc == [stamp: Stamps, baseline: Candidates \cup {Original},
        pending: Pending \cup {None}]

Transition == {"publish", "accept", "observed", "authorize", "completed"}
Request ==
    [op: {"publish", "accept"}, run: Candidates, expect: Doc]
    \cup [op: {"observed", "authorize", "completed"}, run: Runs, expect: Doc]
    \cup [op: {"claim"}, run: Watchdogs, expect: Doc]
    \cup [op: {"dispatch", "release"}, run: Watchdogs, claim: Claim]
    \cup [op: {"repair"}, run: Reviewers, claim: Claim]

Path == {"decision", "attempt", "outcome"} \X Watchdogs
        \cup {"publish", "accept"} \X Candidates
        \cup {"observed", "authorize", "completed", "authorization"} \X Runs
        \cup {"release", "repair"} \X Claim

Body == [req: Request, prev: Doc, next: Doc]             \* transitions
        \cup [req: Request, prev: Doc, last: Path \cup {None}, next: Doc]
        \cup [seen: Doc]                                 \* decisions
        \cup [claim: Claim, gen: Nat \ {0}, at: Instants]    \* attempts
        \cup [claim: Claim, gen: Nat \ {0}, run: Runs]   \* outcomes
        \cup [claim: Claim]                              \* authorizations

ASSUME WatchdogOK ==
    /\ Original \notin Candidates
    /\ Late \subseteq Candidates
    /\ Responses \subseteq BOOLEAN
    /\ MaxWrites \in Nat /\ MaxRuns \in Nat
    /\ None \notin Doc \cup Pending \cup Claim \cup Runs \cup Path \cup Request

VARIABLES
    state,     \* the state blob: document, storage ETag, last receipt
    worm,      \* the receipts written so far, by path
    sent,      \* requests some client has formed
    job,       \* what each provider process is doing
    github,    \* the rollback runs GitHub has started
    control,   \* the rollback control in each of them, and the state it read
    deciding,  \* watchdog runs that have not looked at the state yet
    overdue,   \* candidates whose deadline has passed
    lapsed,    \* claims whose lease has expired
    stale,     \* is the state more than 15 minutes old?
    applied,   \* history: the receipts the state has named
    deployed   \* history: the runs that restored the baseline

storage == <<state, worm>>
time == <<overdue, lapsed, stale>>
clients == <<github, control, deciding, deployed>>
vars == <<state, worm, sent, job, github, control, deciding, overdue, lapsed,
          stale, applied, deployed>>

-----------------------------------------------------------------------------
(* Mutated forms of the operators below; no action uses them.              *)

(* The state carries no time of its own.                                   *)
StampNone(n, at) == <<0, at>>

(* The state is replaced whatever its ETag.                                *)
CurrentAny(h) == TRUE

(* The generation of a guard starts at zero.                               *)
AvailableFromZero(n) ==
    [status |-> "available", gen |-> n - 1, claim |-> None, run |-> None]

(* A lapsed claim is released although its dispatch has been armed.        *)
ReleasableArmed(g, claim) == g.claim = claim /\ claim \in lapsed

(* A run that is bound already is bound again.                             *)
RepairableBound(g, claim) ==
    /\ g.claim = claim
    /\ <<"outcome", claim[1]>> \in DOMAIN worm
    /\ worm[<<"outcome", claim[1]>>].claim = claim

-----------------------------------------------------------------------------
(* Helpers *)

Available(n) == [status |-> "available", gen |-> n, claim |-> None, run |-> None]

Written(path) == path \in DOMAIN worm
Create(path, body) ==
    worm' = [p \in DOMAIN worm \cup {path} |-> IF p = path THEN body ELSE worm[p]]

(* _write_worm: the bytes read back are the bytes that were to be written. *)
Same(path, body) == worm[path] = body

(* put_replace takes effect only on the blob that was read.                *)
Current(h) == state.etag = job[h].snap.etag

(* The time of a transition is part of the document and of its digest.     *)
Stamp(n, at) == <<n, at>>

(* The document of snapshot s with another pending candidate, or guard.    *)
Pend(s, p, at) == [s.doc EXCEPT !.pending = p, !.stamp = Stamp(s.etag + 1, at)]
Guarded(s, g, at) == Pend(s, [s.doc.pending EXCEPT !.guard = g], at)

Held(s) == s.doc.pending # None
GuardOf(s) == s.doc.pending.guard

Rest == [pc |-> "idle", req |-> None, snap |-> None, path |-> None,
         body |-> None, next |-> None]

(* Process h, whose request passed its checks, goes on to write body under *)
(* path (or finds it there) and then to replace the state by next.         *)
Go(h, pc, path, body, next) ==
    job' = [job EXCEPT ![h] = [@ EXCEPT !.pc = pc, !.path = path, !.body = body,
                                        !.next = next]]

Looks(h, ops) == job[h].pc = "look" /\ job[h].req.op \in ops

Init ==
    /\ state = [doc |-> [stamp |-> <<0, CHOOSE i \in Instants : TRUE>>,
                         baseline |-> Original, pending |-> None],
                etag |-> 0, last |-> None]
    /\ worm = [p \in {} |-> None]
    /\ sent = {}
    /\ job = [h \in Handlers |-> Rest]
    /\ github = {}
    /\ control = [k \in Runs |-> [pc |-> "none", doc |-> None]]
    /\ deciding = Watchdogs
    /\ overdue = {} /\ lapsed = {} /\ stale = FALSE
    /\ applied = {} /\ deployed = {}

-----------------------------------------------------------------------------
(* The clients *)

Ask(r) == r \notin sent /\ sent' = sent \cup {r}

(* Release runs: publish a candidate, accept it.  A request formed on any  *)
(* other state would be rejected whenever it arrives.                      *)
AskPublish(c) ==
    /\ state.doc.pending = None
    /\ Ask([op |-> "publish", run |-> c, expect |-> state.doc])
    /\ UNCHANGED <<storage, job, clients, time, applied>>

AskAccept(c) ==
    /\ Held(state) /\ state.doc.pending.cand = c
    /\ GuardOf(state).status = "available" /\ c \notin overdue
    /\ Ask([op |-> "accept", run |-> c, expect |-> state.doc])
    /\ UNCHANGED <<storage, job, clients, time, applied>>

(* decide: a fresh state whose candidate is overdue is claimed, a claim    *)
(* whose lease has expired is released.                                    *)
Decide(x) ==
    /\ x \in deciding /\ ~stale
    /\ Held(state) /\ state.doc.pending.cand \in overdue
    /\ \/ /\ GuardOf(state).status = "available"
          /\ Ask([op |-> "claim", run |-> x, expect |-> state.doc])
       \/ /\ GuardOf(state).status = "claimed" /\ GuardOf(state).claim \in lapsed
          /\ Ask([op |-> "release", run |-> x, claim |-> GuardOf(state).claim])
    /\ deciding' = deciding \ {x}
    /\ UNCHANGED <<storage, job, github, control, deployed, time, applied>>

AskRepair(m) ==
    /\ Held(state) /\ GuardOf(state).status = "dispatching"
    /\ Ask([op |-> "repair", run |-> m, claim |-> GuardOf(state).claim])
    /\ UNCHANGED <<storage, job, clients, time, applied>>

-----------------------------------------------------------------------------
(* The provider: a process reads the state, then looks at the receipts     *)

Take(h, r) ==
    /\ job[h].pc = "idle" /\ r \in sent
    /\ job' = [job EXCEPT ![h] = [Rest EXCEPT !.pc = "look", !.req = r, !.snap = state]]
    /\ UNCHANGED <<storage, sent, clients, time, applied>>

(* transition: a first request must name the state as it is and satisfy    *)
(* the conditions of its operation.                                        *)
Acceptable(d, c) ==
    /\ d.pending # None /\ d.pending.cand = c /\ c \notin overdue
    /\ d.pending.guard.status = "available"

Required == [observed |-> "dispatching", authorize |-> "requested",
             completed |-> "authorized"]

(* _verify_guard_evidence and the checks of the rollback operations.       *)
Rollbackable(d, op, k) ==
    /\ d.pending # None
    /\ LET g == d.pending.guard IN
       /\ g.status = Required[op] /\ g.run = k
       /\ Written(<<"decision", g.claim[1]>>)
       /\ Written(<<"attempt", g.claim[1]>>)
       /\ worm[<<"attempt", g.claim[1]>>].claim = g.claim
       /\ worm[<<"attempt", g.claim[1]>>].gen = g.gen
       /\ Written(<<"outcome", g.claim[1]>>)
       /\ worm[<<"outcome", g.claim[1]>>].run = k
       /\ op = "completed" => Written(<<"authorization", k>>)

Allowed(r) ==
    CASE r.op = "publish" -> r.expect.pending = None
      [] r.op = "accept" -> Acceptable(r.expect, r.run)
      [] OTHER -> Rollbackable(r.expect, r.op, r.run)

(* _next_transition_state *)
After(s, r, at) ==
    CASE r.op = "publish" -> Pend(s, [cand |-> r.run, guard |-> Available(1)], at)
      [] r.op = "accept" -> [Pend(s, None, at) EXCEPT !.baseline = r.run]
      [] r.op = "observed" -> Guarded(s, [GuardOf(s) EXCEPT !.status = "requested"], at)
      [] r.op = "authorize" -> Guarded(s, [GuardOf(s) EXCEPT !.status = "authorized"], at)
      [] r.op = "completed" -> Pend(s, None, at)

Transits(h) ==
    LET r == job[h].req IN
    /\ ~Written(<<r.op, r.run>>)
    /\ job[h].snap.doc = r.expect
    /\ Allowed(r)

(* Mutated form of Transit: the state is replaced before the receipt is    *)
(* written.                                                                *)
TransitUnwritten(h, at) ==
    LET r == job[h].req
        next == After(job[h].snap, r, at)
    IN
    /\ Looks(h, Transition) /\ Transits(h)
    /\ Go(h, "swap", <<r.op, r.run>>, [req |-> r, prev |-> r.expect, next |-> next], next)
    /\ UNCHANGED <<storage, sent, clients, time, applied>>

Transit(h, at) ==
    LET r == job[h].req
        next == After(job[h].snap, r, at)
    IN
    /\ Looks(h, Transition) /\ Transits(h)
    /\ Go(h, IF r.op = "authorize" THEN "authorize" ELSE "write",
          <<r.op, r.run>>, [req |-> r, prev |-> r.expect, next |-> next], next)
    /\ UNCHANGED <<storage, sent, clients, time, applied>>

(* _transition_replay: the receipt is there but its state is not.          *)
Replays(h) ==
    LET path == <<job[h].req.op, job[h].req.run>> IN
    /\ Written(path) /\ worm[path].req = job[h].req
    /\ worm[path].prev = job[h].snap.doc

Replay(h) ==
    LET path == <<job[h].req.op, job[h].req.run>> IN
    /\ Looks(h, Transition) /\ Replays(h)
    /\ Go(h, "swap", path, worm[path], worm[path].next)
    /\ UNCHANGED <<storage, sent, clients, time, applied>>

(* claim_rollback: the claim identifier is new; it is named here for the   *)
(* run and the state that got it.                                          *)
Claims(h) ==
    LET s == job[h].snap IN
    /\ Held(s) /\ GuardOf(s).status = "available"
    /\ s.doc = job[h].req.expect
    /\ s.doc.pending.cand \in overdue

ClaimRollback(h, at) ==
    LET s == job[h].snap
        x == job[h].req.run
    IN
    /\ Looks(h, {"claim"}) /\ Claims(h)
    /\ Go(h, "write", <<"decision", x>>, [seen |-> job[h].req.expect],
          Guarded(s, [GuardOf(s) EXCEPT !.status = "claimed",
                                        !.claim = <<x, s.etag + 1>>], at))
    /\ UNCHANGED <<storage, sent, clients, time, applied>>

(* dispatch_rollback: a durable outcome that the state does not name yet   *)
(* is bound; otherwise a claim whose lease runs, without a durable         *)
(* attempt, is armed.                                                      *)
Rebinds(h) ==
    LET s == job[h].snap
        path == <<"outcome", job[h].req.run>>
    IN
    /\ Held(s) /\ GuardOf(s).claim = job[h].req.claim
    /\ Written(path) /\ worm[path].claim = GuardOf(s).claim
    /\ worm[path].gen = GuardOf(s).gen
    /\ GuardOf(s).status = "dispatching" /\ GuardOf(s).run = None

Rebind(h, at) ==
    LET s == job[h].snap
        path == <<"outcome", job[h].req.run>>
    IN
    /\ Looks(h, {"dispatch"}) /\ Rebinds(h)
    /\ Go(h, "swap", path, worm[path],
          Guarded(s, [GuardOf(s) EXCEPT !.run = worm[path].run], at))
    /\ UNCHANGED <<storage, sent, clients, time, applied>>

Arms(h) ==
    LET s == job[h].snap IN
    /\ Held(s) /\ GuardOf(s).claim = job[h].req.claim
    /\ ~Written(<<"outcome", job[h].req.run>>)
    /\ ~Written(<<"attempt", job[h].req.run>>)
    /\ GuardOf(s).status = "claimed" /\ GuardOf(s).claim \notin lapsed

Arm(h, at) ==
    LET s == job[h].snap IN
    /\ Looks(h, {"dispatch"}) /\ Arms(h)
    /\ Go(h, "write", <<"attempt", job[h].req.run>>,
          [claim |-> GuardOf(s).claim, gen |-> GuardOf(s).gen, at |-> at],
          Guarded(s, [GuardOf(s) EXCEPT !.status = "dispatching"], at))
    /\ UNCHANGED <<storage, sent, clients, time, applied>>

(* reconcile, automatic and manual: first the receipt, by the same caller  *)
(* on the same state, then the state.                                      *)
Releasable(g, claim) ==
    /\ g.status = "claimed" /\ g.claim = claim /\ claim \in lapsed
    /\ ~Written(<<"attempt", claim[1]>>)

Repairable(g, claim) ==
    /\ g.status = "dispatching" /\ g.claim = claim /\ g.run = None
    /\ Written(<<"attempt", claim[1]>>) /\ Written(<<"outcome", claim[1]>>)
    /\ worm[<<"attempt", claim[1]>>].claim = claim
    /\ worm[<<"outcome", claim[1]>>].claim = claim
    /\ worm[<<"outcome", claim[1]>>].gen = g.gen

Reconciled(s, r, at) ==
    IF r.op = "release" THEN Guarded(s, Available(GuardOf(s).gen + 1), at)
    ELSE Guarded(s, [GuardOf(s) EXCEPT !.run = worm[<<"outcome", r.claim[1]>>].run], at)

Reconciles(h) ==
    LET s == job[h].snap
        r == job[h].req
    IN
    /\ Held(s) /\ ~Written(<<r.op, r.claim>>)
    /\ IF r.op = "release" THEN Releasable(GuardOf(s), r.claim)
       ELSE Repairable(GuardOf(s), r.claim)

Reconcile(h, at) ==
    LET s == job[h].snap
        r == job[h].req
        next == Reconciled(s, r, at)
    IN
    /\ Looks(h, {"release", "repair"}) /\ Reconciles(h)
    /\ Go(h, "write", <<r.op, r.claim>>,
          [req |-> r, prev |-> s.doc, last |-> s.last, next |-> next], next)
    /\ UNCHANGED <<storage, sent, clients, time, applied>>

(* _commit_or_recover_reconciliation: the receipt is there, the state is   *)
(* the one it was made for.                                                *)
Recovers(h) ==
    LET s == job[h].snap
        path == <<job[h].req.op, job[h].req.claim>>
    IN
    /\ Held(s) /\ Written(path) /\ worm[path].req = job[h].req
    /\ worm[path].prev = s.doc /\ worm[path].last = s.last

Recover(h) ==
    LET path == <<job[h].req.op, job[h].req.claim>> IN
    /\ Looks(h, {"release", "repair"}) /\ Recovers(h)
    /\ Go(h, "swap", path, worm[path], worm[path].next)
    /\ UNCHANGED <<storage, sent, clients, time, applied>>

(* A check fails, or the work was done before and only the answer is       *)
(* given again: the request ends without a trace.                          *)
End(h) ==
    /\ job[h].pc = "look"
    /\ job[h].req.op \in Transition => ~Transits(h) /\ ~Replays(h)
    /\ job[h].req.op = "claim" => ~Claims(h)
    /\ job[h].req.op = "dispatch" => ~Rebinds(h) /\ ~Arms(h)
    /\ job[h].req.op \in {"release", "repair"} => ~Reconciles(h) /\ ~Recovers(h)
    /\ job' = [job EXCEPT ![h] = Rest]
    /\ UNCHANGED <<storage, sent, clients, time, applied>>

-----------------------------------------------------------------------------
(* The provider: receipts before state                                     *)

(* The authorization receipt precedes the receipt of its transition.       *)
Authorize(h) ==
    LET path == <<"authorization", job[h].req.run>>
        body == [claim |-> GuardOf(job[h].snap).claim]
    IN
    /\ job[h].pc = "authorize"
    /\ IF Written(path) THEN Same(path, body) /\ UNCHANGED worm
       ELSE Create(path, body)
    /\ job' = [job EXCEPT ![h].pc = "write"]
    /\ UNCHANGED <<state, sent, clients, time, applied>>

Write(h) ==
    /\ job[h].pc \in {"write", "outcome"}
    /\ IF Written(job[h].path) THEN Same(job[h].path, job[h].body) /\ UNCHANGED worm
       ELSE Create(job[h].path, job[h].body)
    /\ job' = [job EXCEPT ![h].pc = IF @ = "write" THEN "swap" ELSE "settle"]
    /\ UNCHANGED <<state, sent, clients, time, applied>>

Replace(doc, path) ==
    /\ state.etag < MaxWrites
    /\ state' = [doc |-> doc, etag |-> state.etag + 1, last |-> path]
    /\ applied' = applied \cup {path}
    /\ stale' = FALSE

(* _replace_state.  The answer to a claim lets its run ask for the         *)
(* dispatch; an armed claim goes on to GitHub.                             *)
Swap(h) ==
    LET r == job[h].req
        g == job[h].next.pending.guard
        armed == job[h].path[1] = "attempt"
    IN
    /\ job[h].pc = "swap" /\ Current(h)
    /\ Replace(job[h].next, job[h].path)
    /\ sent' = IF r.op = "claim"
               THEN sent \cup {[op |-> "dispatch", run |-> r.run, claim |-> g.claim]}
               ELSE sent
    /\ job' = [job EXCEPT ![h] = IF armed THEN [@ EXCEPT !.pc = "dispatch"] ELSE Rest]
    /\ UNCHANGED <<worm, clients, overdue, lapsed>>

(* GithubAppDispatcher.dispatch: GitHub starts the rollback run, or not,   *)
(* and the answer may be lost.                                             *)
Dispatch(h) ==
    LET id == Cardinality(github) + 1
        p == job[h].next.pending
    IN
    /\ job[h].pc = "dispatch" /\ id \in Runs
    /\ github' = github \cup {[id |-> id, claim |-> p.guard.claim, cand |-> p.cand]}
    /\ control' = [control EXCEPT ![id].pc = "start"]
    /\ \/ Go(h, "outcome", <<"outcome", p.guard.claim[1]>>,
             [claim |-> p.guard.claim, gen |-> p.guard.gen, run |-> id], job[h].next)
       \/ job' = [job EXCEPT ![h] = Rest]
    /\ UNCHANGED <<storage, sent, deciding, deployed, time, applied>>

(* The state is read again and bound to the run if nothing changed it; the *)
(* replacement carries the ETag of that read.                              *)
Settle(h, at) ==
    LET p == state.doc.pending
        run == job[h].body.run
    IN
    /\ job[h].pc = "settle" /\ state.doc = job[h].next
    /\ Replace(Guarded(state, [p.guard EXCEPT !.run = run], at), job[h].path)
    /\ job' = [job EXCEPT ![h] = Rest]
    /\ UNCHANGED <<worm, sent, clients, overdue, lapsed>>

(* Bytes that differ, a lost compare-and-swap, a request GitHub rejects;   *)
(* or the process dies, wherever it is.                                    *)
Lost(h) ==
    \/ /\ job[h].pc \in {"write", "outcome"} /\ Written(job[h].path)
       /\ ~Same(job[h].path, job[h].body)
    \/ job[h].pc = "swap" /\ ~Current(h)
    \/ job[h].pc = "settle" /\ state.doc # job[h].next

Fail(h) ==
    /\ Lost(h)
    /\ job' = [job EXCEPT ![h] = Rest]
    /\ UNCHANGED <<storage, sent, clients, time, applied>>

Crash(h) ==
    /\ job[h].pc # "idle"
    /\ job' = [job EXCEPT ![h] = Rest]
    /\ UNCHANGED <<storage, sent, clients, time, applied>>

-----------------------------------------------------------------------------
(* The rollback run: watchdog_rollback_control.execute                     *)

Fresh(k, status) ==
    /\ Held(state) /\ GuardOf(state).status = status /\ GuardOf(state).run = k

Move(k, pc, doc) == control' = [control EXCEPT ![k] = [pc |-> pc, doc |-> doc]]

Observe(k) ==
    /\ control[k].pc = "start" /\ Fresh(k, "dispatching")
    /\ Ask([op |-> "observed", run |-> k, expect |-> state.doc])
    /\ Move(k, "observed", None)
    /\ UNCHANGED <<storage, job, github, deciding, deployed, time, applied>>

AskAuthorize(k) ==
    /\ control[k].pc = "observed" /\ Fresh(k, "requested")
    /\ Ask([op |-> "authorize", run |-> k, expect |-> state.doc])
    /\ Move(k, "authorize", None)
    /\ UNCHANGED <<storage, job, github, deciding, deployed, time, applied>>

(* The control goes on only if the response carries the receipt that the   *)
(* state names.                                                            *)
Authorized(k) ==
    /\ control[k].pc = "authorize" /\ Fresh(k, "authorized") /\ TRUE \in Responses
    /\ Move(k, "deploy", state.doc)
    /\ UNCHANGED <<storage, sent, job, github, deciding, deployed, time, applied>>

Deploy(k) ==
    /\ control[k].pc = "deploy"
    /\ deployed' = deployed \cup {k}
    /\ Move(k, "verify", control[k].doc)
    /\ UNCHANGED <<storage, sent, job, github, deciding, time, applied>>

AskCompleted(k) ==
    /\ control[k].pc = "verify"
    /\ Ask([op |-> "completed", run |-> k, expect |-> control[k].doc])
    /\ Move(k, "done", None)
    /\ UNCHANGED <<storage, job, github, deciding, deployed, time, applied>>

(* A check of the control fails.                                           *)
Stop(k) ==
    /\ control[k].pc = "authorize" /\ Fresh(k, "authorized") /\ FALSE \in Responses
    /\ Move(k, "stopped", None)
    /\ UNCHANGED <<storage, sent, job, github, deciding, deployed, time, applied>>

-----------------------------------------------------------------------------
(* Time *)

(* The deadline lies 1,440 minutes after the completion of the release,    *)
(* and nothing touches the state of a pending candidate before it.         *)
Deadline ==
    /\ Held(state) /\ state.doc.pending.cand \notin overdue
    /\ overdue' = overdue \cup {state.doc.pending.cand}
    /\ stale' = (stale \/ state.doc.pending.cand \notin Late)
    /\ UNCHANGED <<storage, sent, job, clients, lapsed, applied>>

Lapse ==
    /\ Held(state) /\ GuardOf(state).claim \notin lapsed \cup {None}
    /\ lapsed' = lapsed \cup {GuardOf(state).claim}
    /\ UNCHANGED <<storage, sent, job, clients, overdue, stale, applied>>

Age ==
    /\ ~stale /\ stale' = TRUE
    /\ UNCHANGED <<storage, sent, job, clients, overdue, lapsed, applied>>

-----------------------------------------------------------------------------
Client ==
    \/ \E c \in Candidates : AskPublish(c) \/ AskAccept(c)
    \/ \E x \in Watchdogs : Decide(x)
    \/ \E m \in Reviewers : AskRepair(m)

Look(h) ==
    \/ \E at \in Instants : Transit(h, at) \/ ClaimRollback(h, at) \/ Rebind(h, at)
                             \/ Arm(h, at) \/ Reconcile(h, at)
    \/ Replay(h) \/ Recover(h) \/ End(h)

Commit(h) ==
    \/ Authorize(h) \/ Write(h) \/ Swap(h) \/ Dispatch(h) \/ Fail(h)
    \/ \E at \in Instants : Settle(h, at)

Control(k) ==
    Observe(k) \/ AskAuthorize(k) \/ Authorized(k) \/ Deploy(k)
    \/ AskCompleted(k) \/ Stop(k)

Next ==
    \/ Client
    \/ \E h \in Handlers : \/ \E r \in sent : Take(h, r)
                           \/ Look(h) \/ Commit(h) \/ Crash(h)
    \/ \E k \in Runs : Control(k)
    \/ Deadline \/ Lapse \/ Age

Spec == Init /\ [][Next]_vars

(* The watchdog is scheduled every ten minutes.                            *)
FairSpec == /\ Spec
            /\ \A x \in Watchdogs : WF_vars(Decide(x))
            /\ \A h \in Handlers : WF_vars(Look(h) \/ Commit(h))
            /\ \A h \in Handlers, x \in Watchdogs :
                   WF_vars(\E r \in sent : r.op = "claim" /\ r.run = x /\ Take(h, r))

-----------------------------------------------------------------------------
(* Properties *)

TypeOK ==
    /\ state \in [doc: Doc, etag: 0..MaxWrites, last: Path \cup {None}]
    /\ DOMAIN worm \subseteq Path
    /\ \A p \in DOMAIN worm : worm[p] \in Body
    /\ sent \subseteq Request
    /\ \A h \in Handlers :
           /\ job[h].req \in Request \cup {None}
           /\ job[h].pc \in {"authorize", "write", "swap", "dispatch", "outcome",
                             "settle"} =>
                  job[h].path \in Path /\ job[h].body \in Body /\ job[h].next \in Doc
    /\ github \subseteq [id: Runs, claim: Claim, cand: Candidates]
    /\ control \in [Runs -> [pc: {"none", "start", "observed", "authorize",
                                  "deploy", "verify", "done", "stopped"},
                             doc: Doc \cup {None}]]
    /\ deciding \subseteq Watchdogs
    /\ overdue \subseteq Candidates /\ lapsed \subseteq Claim /\ stale \in BOOLEAN
    /\ applied \subseteq Path /\ deployed \subseteq Runs

(* GitHub is asked for at most one rollback run per candidate, however     *)
(* many watchdog runs, retries and released claims there are.              *)
DispatchOnce == \A a, b \in github : a.cand = b.cand => a = b

(* A candidate is accepted or its rollback is dispatched, never both.      *)
AcceptedOrRolledBack == \A g \in github : <<"accept", g.cand>> \notin applied

(* However often the watchdog claims and releases, and whatever the answer *)
(* of GitHub's dispatch: one candidate is rolled back at most once, and    *)
(* never after it was accepted (dispatch_rollback, reconcile).             *)
RollbackOnce == DispatchOnce /\ AcceptedOrRolledBack

(* A receipt takes effect once: a request that is repeated, or a receipt   *)
(* found after a crash, never brings back a state that has passed, such as *)
(* a candidate that was rolled back (_transition_replay).                  *)
AppliedOnce == [][state' # state => state'.last \notin applied]_vars

(* The state shows what its last receipt says (receipts are written and    *)
(* read back before the state is replaced).                                *)
EvidenceFirst ==
    state.last # None =>
        /\ Written(state.last)
        /\ CASE state.last[1] \in Transition \cup {"release", "repair"} ->
                   worm[state.last].next = state.doc
             [] state.last[1] = "decision" ->
                   worm[state.last].seen.pending.cand = state.doc.pending.cand
             [] state.last[1] = "attempt" ->
                   worm[state.last].claim = GuardOf(state).claim
             [] state.last[1] = "outcome" ->
                   worm[state.last].run = GuardOf(state).run

(* From the authorization until it reports completion, the rollback run    *)
(* has the state to itself: the baseline is never restored for a candidate *)
(* that is accepted, or handed to another run, meanwhile.                  *)
ControlOwns ==
    \A k \in Runs : control[k].pc \in {"deploy", "verify"} => state.doc = control[k].doc

(* The authorized run has the state to itself, also when a reviewer        *)
(* reconciles, and a state never tells of a transition whose receipt is    *)
(* not written or says otherwise (_replace_state).                         *)
RollbackTold == ControlOwns /\ EvidenceFirst

(* An overdue candidate is claimed for rollback by some watchdog run.      *)
OverdueClaimed ==
    \A c \in Candidates :
        (Held(state) /\ state.doc.pending.cand = c /\ c \in overdue
           /\ GuardOf(state).status = "available")
        ~> (Held(state) => GuardOf(state).status # "available")

(* Once the provider has authorized the rollback the run does not give up. *)
AuthorizedDeploys ==
    [][\A k \in Runs :
          (control[k].pc = "authorize" /\ Fresh(k, "authorized"))
          => control'[k].pc # "stopped"]_vars
=============================================================================
