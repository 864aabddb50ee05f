------------------------ MODULE WatchdogRollback_proofs ------------------------
(***************************************************************************)
(* For any number of candidates, watchdog runs, reviewers and provider     *)
(* processes: a candidate is rolled back at most once and never after it   *)
(* was accepted, the authorized run has the state to itself, and the state *)
(* never tells of what its receipt does not say.                           *)
(*                                                                         *)
(* The argument: documents are numbered by their stamps, so a compare-and- *)
(* swap takes effect on the very document its process looked at, and what  *)
(* a receipt or a process holds is one legal move from that document.      *)
(***************************************************************************)
EXTENDS WatchdogRollback, FiniteSetTheorems, TLAPS

Kept  == Transition \cup {"release", "repair"}
Named == Kept \cup {"decision", "attempt", "outcome"}
Bound == {"dispatching", "requested", "authorized"}

(* Receipt p takes document d to document e.                               *)
Moves(p, d, e) ==
    /\ d \in Doc /\ e \in Doc /\ e.stamp[1] = d.stamp[1] + 1
    /\ p[1] = "publish" => /\ d.pending = None /\ e.pending # None
                           /\ e.pending.cand = p[2]
    /\ p[1] # "publish" => /\ d.pending # None
                           /\ e.pending # None => e.pending.cand = d.pending.cand
    /\ p[1] = "accept" => /\ d.pending.cand = p[2] /\ d.pending.guard.status = "available"
                          /\ e.pending = None
    /\ p[1] = "attempt" => /\ d.pending.guard.status = "claimed" /\ e.pending # None
                           /\ e.pending.guard.status = "dispatching"
    /\ d.pending # None /\ e.pending # None /\ d.pending.guard.status \in Bound
           => e.pending.guard.status \in Bound
    /\ d.pending # None /\ d.pending.guard.status = "authorized"
           => p = <<"completed", d.pending.guard.run>>

(* What the body of receipt p says of the document it led to.              *)
Tells(p, b, e) ==
    /\ p[1] \in Kept => b.next = e
    /\ p[1] = "decision" => b.seen.pending.cand = e.pending.cand
    /\ p[1] = "attempt" => b.claim = e.pending.guard.claim
    /\ p[1] = "outcome" => b.run = e.pending.guard.run

-----------------------------------------------------------------------------
(* The inductive invariant                                                 *)

Published(c) == <<"publish", c>> \in applied
Accepted(c)  == <<"accept", c>> \in applied

StateOK ==
    /\ state.doc \in Doc /\ state.etag \in Nat /\ state.doc.stamp[1] = state.etag
    /\ state.doc.pending # None => /\ Published(state.doc.pending.cand)
                                   /\ ~ Accepted(state.doc.pending.cand)
    /\ state.last # None => /\ state.last[1] \in Named /\ Written(state.last)
                            /\ Tells(state.last, worm[state.last], state.doc)

(* A snapshot is an earlier state, or the present one.                     *)
SnapOK(s) ==
    /\ s.etag \in Nat /\ s.etag <= state.etag
    /\ s.doc \in Doc /\ s.doc.stamp[1] = s.etag
    /\ s.etag = state.etag => s.doc = state.doc

JobLabels == {"idle", "look", "authorize", "write", "swap", "dispatch", "outcome", "settle"}

JobOK(h) ==
    LET j == job[h] IN
    /\ DOMAIN j = {"pc", "req", "snap", "path", "body", "next"}
    /\ j.pc \in JobLabels
    /\ j.pc \in {"look", "authorize", "write", "swap"} => SnapOK(j.snap) /\ j.req \in sent
    /\ j.pc \in {"authorize", "write", "swap"} =>
           /\ j.path[1] \in Named
           /\ Moves(j.path, j.snap.doc, j.next) /\ Tells(j.path, j.body, j.next)
           /\ j.path[1] \in Kept => j.body.prev = j.snap.doc
           /\ j.path[1] \in Transition => j.path = <<j.req.op, j.req.run>>
    /\ j.pc \in {"authorize", "write"} => j.path[1] # "outcome"
    /\ j.pc \in {"swap", "settle"} => Written(j.path) /\ worm[j.path] = j.body
    /\ j.pc \in {"dispatch", "outcome", "settle"} =>
           /\ j.next \in Doc /\ j.next.pending # None
           /\ j.next.pending.guard.status = "dispatching"
    /\ j.pc \in {"outcome", "settle"} => j.path[1] = "outcome" /\ j.body.run \in Runs

FiledOK(p) ==
    /\ p[1] \in Kept => Moves(p, worm[p].prev, worm[p].next)
    /\ p[1] = "outcome" => worm[p].run \in Runs

SentOK(r) ==
    /\ r.op = "publish" => r.run \in Candidates
    /\ r.op = "claim" => r.run \in Watchdogs

(* A candidate that is published stays so: its receipt lies in the past.   *)
PastOK(c) ==
    /\ Published(c) => /\ Written(<<"publish", c>>)
                       /\ worm[<<"publish", c>>].next.stamp[1] <= state.etag
    /\ Accepted(c) => Published(c)

(* A candidate with a token was, or is about to be, dispatched.            *)
Asking(h, c) == job[h].pc = "dispatch" /\ job[h].next.pending.cand = c
Token(c) == (\E h \in Handlers : Asking(h, c)) \/ (\E g \in github : g.cand = c)
TokenOK(c) ==
    Token(c) => /\ Published(c) /\ ~ Accepted(c)
                /\ state.doc.pending # None /\ state.doc.pending.cand = c
                       => state.doc.pending.guard.status \in Bound
OneToken ==
    /\ DispatchOnce
    /\ \A h, i \in Handlers, c \in Candidates : Asking(h, c) /\ Asking(i, c) => h = i
    /\ \A h \in Handlers, g \in github : ~ Asking(h, g.cand)

(* The rollback runs are numbered in the order of their start.             *)
GithubOK ==
    /\ IsFiniteSet(github) /\ \A g \in github : g.cand \in Candidates
    /\ \A g \in github : g.id \in Nat /\ g.id <= Cardinality(github)
    /\ \A k \in Runs : k > Cardinality(github) => control[k].pc = "none"

ControlOK(k) ==
    /\ DOMAIN control[k] = {"pc", "doc"}
    /\ control[k].pc \in {"none", "start", "observed", "authorize", "deploy", "verify"} =>
           \A r \in sent : r.op = "completed" => r.run # k
    /\ control[k].pc \in {"deploy", "verify"} =>
           state.doc = control[k].doc /\ Fresh(k, "authorized")

Inv ==
    /\ DOMAIN job = Handlers /\ DOMAIN control = Runs
    /\ StateOK
    /\ \A h \in Handlers : JobOK(h)
    /\ \A p \in DOMAIN worm : FiledOK(p)
    /\ \A r \in sent : SentOK(r)
    /\ \A c \in Candidates : PastOK(c) /\ TokenOK(c)
    /\ OneToken /\ GithubOK
    /\ \A k \in Runs : ControlOK(k)

-----------------------------------------------------------------------------
LEMMA NoneOK == None \notin Pending /\ None \notin Doc /\ None \notin Runs
BY WatchdogOK

LEMMA InitInv == Init /\ Instants # {} => Inv
<1> SUFFICES ASSUME Init, Instants # {} PROVE Inv
  OBVIOUS
<1>1. StateOK
  <2>1. (CHOOSE i \in Instants : TRUE) \in Instants
    OBVIOUS
  <2> QED
    BY <2>1 DEF Init, StateOK, Doc, Stamps
<1>2. \A h \in Handlers : JobOK(h)
  BY DEF Init, JobOK, Rest, JobLabels
<1>3. OneToken /\ \A c \in Candidates : PastOK(c) /\ TokenOK(c)
  BY DEF Init, OneToken, DispatchOnce, PastOK, TokenOK, Token, Asking, Rest, Published, Accepted
<1>4. GithubOK
  BY FS_EmptySet DEF Init, GithubOK
<1>5. \A k \in Runs : ControlOK(k)
  BY DEF Init, ControlOK
<1> QED
  BY <1>1, <1>2, <1>3, <1>4, <1>5 DEF Init, Inv

-----------------------------------------------------------------------------
(* What a process looks at and decides                                     *)

(* Only what one process holds changes.                                    *)
LEMMA JobKeeps ==
    ASSUME Inv, NEW h \in Handlers, NEW j, job' = [job EXCEPT ![h] = j],
           UNCHANGED <<state, worm, sent, github, control, applied>>,
           JobOK(h)', j.pc # "dispatch"
    PROVE  Inv'
<1>1. job'[h] = j /\ \A i \in Handlers : i # h => job'[i] = job[i]
  BY DEF Inv
<1>2. StateOK' /\ (\A p \in DOMAIN worm' : FiledOK(p)') /\ (\A r \in sent' : SentOK(r)')
  BY DEF Inv, StateOK, Published, Accepted, Written, FiledOK, SentOK
<1>3. \A i \in Handlers : JobOK(i)'
  BY <1>1 DEF Inv, JobOK, SnapOK, Written
<1>4. \A i \in Handlers : \A c \in Candidates : Asking(i, c)' => Asking(i, c)
  BY <1>1 DEF Asking
<1>5. \A c \in Candidates : PastOK(c)' /\ TokenOK(c)'
  BY <1>4 DEF Inv, PastOK, TokenOK, Token, Published, Accepted, Written
<1>6. OneToken' /\ GithubOK'
  BY <1>4 DEF Inv, OneToken, DispatchOnce, GithubOK
<1>7. \A k \in Runs : ControlOK(k)'
  BY DEF Inv, ControlOK, Fresh, Held, GuardOf
<1>8. DOMAIN job' = Handlers
  BY DEF Inv
<1> QED
  BY <1>2, <1>3, <1>5, <1>6, <1>7, <1>8 DEF Inv

LEMMA RestKeeps ==
    ASSUME Inv, NEW h \in Handlers, job' = [job EXCEPT ![h] = Rest],
           UNCHANGED <<state, worm, sent, github, control, applied>>
    PROVE  Inv'
<1>1. job'[h] = Rest /\ Rest.pc # "dispatch"
  BY DEF Inv, Rest
<1>2. JobOK(h)'
  BY <1>1 DEF JobOK, Rest, JobLabels
<1> QED
  BY <1>1, <1>2, JobKeeps

LEMMA TakeKeeps ==
    ASSUME Inv, NEW h \in Handlers, NEW r \in sent, Take(h, r)
    PROVE  Inv'
<1> DEFINE j == [Rest EXCEPT !.pc = "look", !.req = r, !.snap = state]
<1>1. job' = [job EXCEPT ![h] = j] /\ UNCHANGED <<state, worm, sent, github, control, applied>>
  BY DEF Take, storage, clients
<1>2. /\ j.pc = "look" /\ j.req = r /\ j.snap = state
      /\ DOMAIN j = {"pc", "req", "snap", "path", "body", "next"}
  BY DEF Rest
<1> HIDE DEF j
<1>3. job'[h] = j
  BY <1>1 DEF Inv
<1>4. SnapOK(state)' /\ state' = state /\ r \in sent'
  BY <1>1 DEF Inv, StateOK, SnapOK
<1>5. JobOK(h)'
  BY <1>2, <1>3, <1>4 DEF JobOK, JobLabels
<1> QED
  BY <1>1, <1>2, <1>5, JobKeeps

(* A process goes on with a receipt that is a legal move.                  *)
LEMMA GoKeeps ==
    ASSUME Inv, NEW h \in Handlers, NEW pc \in {"authorize", "write", "swap"},
           NEW path, NEW body, NEW next, Go(h, pc, path, body, next),
           UNCHANGED <<state, worm, sent, github, control, applied>>,
           job[h].pc = "look", path[1] \in Named,
           Moves(path, job[h].snap.doc, next), Tells(path, body, next),
           path[1] \in Kept => body.prev = job[h].snap.doc,
           path[1] \in Transition => path = <<job[h].req.op, job[h].req.run>>,
           pc # "swap" => path[1] # "outcome",
           pc = "swap" => Written(path) /\ worm[path] = body
    PROVE  Inv'
<1> DEFINE j == [job[h] EXCEPT !.pc = pc, !.path = path, !.body = body, !.next = next]
<1>1. JobOK(h)
  BY DEF Inv
<1>2. /\ j.pc = pc /\ j.path = path /\ j.body = body /\ j.next = next
      /\ j.req = job[h].req /\ j.snap = job[h].snap
      /\ DOMAIN j = {"pc", "req", "snap", "path", "body", "next"}
  BY <1>1 DEF JobOK
<1>3. job' = [job EXCEPT ![h] = j]
  BY DEF Go
<1> HIDE DEF j
<1>4. job'[h] = j
  BY <1>3 DEF Inv
<1>5. SnapOK(job[h].snap) /\ job[h].req \in sent
  BY <1>1 DEF JobOK
<1>6. JobOK(h)'
  BY <1>2, <1>4, <1>5 DEF JobOK, JobLabels, Written, SnapOK
<1> QED
  BY <1>2, <1>3, <1>6, JobKeeps

(* Documents with another pending candidate, or another guard.             *)
LEMMA PendType ==
    ASSUME NEW s, s.etag \in Nat, s.doc \in Doc, s.doc.stamp[1] = s.etag,
           NEW p \in Pending \cup {None}, NEW at \in Instants
    PROVE  /\ Pend(s, p, at) \in Doc /\ Pend(s, p, at).pending = p
           /\ Pend(s, p, at).stamp[1] = s.doc.stamp[1] + 1
<1>1. Pend(s, p, at).stamp = <<s.etag + 1, at>> /\ Pend(s, p, at).pending = p
  BY DEF Pend, Stamp, Doc
<1>2. <<s.etag + 1, at>> \in Stamps
  BY DEF Stamps
<1>3. Pend(s, p, at) \in Doc
  BY <1>2 DEF Pend, Stamp, Doc
<1> QED
  BY <1>1, <1>3

LEMMA GuardedPending ==
    ASSUME NEW s, SnapOK(s), Held(s), NEW g \in Guard, NEW at \in Instants
    PROVE  /\ Guarded(s, g, at) \in Doc /\ Guarded(s, g, at).pending # None
           /\ Guarded(s, g, at).pending.cand = s.doc.pending.cand
           /\ Guarded(s, g, at).pending.guard = g
           /\ Guarded(s, g, at).stamp[1] = s.doc.stamp[1] + 1
<1> DEFINE q == [s.doc.pending EXCEPT !.guard = g]
<1>1. s.doc.pending \in Pending
  BY DEF SnapOK, Held, Doc
<1>2. q \in Pending /\ q # None /\ q.cand = s.doc.pending.cand /\ q.guard = g
  BY <1>1, NoneOK DEF Pending
<1>3. Guarded(s, g, at) = Pend(s, q, at)
  BY DEF Guarded
<1> HIDE DEF q
<1>4. /\ Pend(s, q, at) \in Doc /\ Pend(s, q, at).pending = q
      /\ Pend(s, q, at).stamp[1] = s.doc.stamp[1] + 1
  BY <1>2, PendType DEF SnapOK
<1> QED
  BY <1>2, <1>3, <1>4

LEMMA GuardedMoves ==
    ASSUME NEW s, SnapOK(s), Held(s), NEW g \in Guard, NEW at \in Instants, NEW p,
           p[1] \notin {"publish", "accept"},
           p[1] = "attempt" => GuardOf(s).status = "claimed" /\ g.status = "dispatching",
           GuardOf(s).status \in Bound => g.status \in Bound,
           GuardOf(s).status # "authorized"
    PROVE  Moves(p, s.doc, Guarded(s, g, at))
BY GuardedPending DEF Moves, SnapOK, Held, GuardOf

(* The guards that the operations set.                                     *)
LEMMA GuardType ==
    ASSUME NEW s, SnapOK(s), Held(s)
    PROVE  /\ s.doc.pending \in Pending /\ GuardOf(s) \in Guard
           /\ \A n \in Nat \ {0} : Available(n) \in Guard
           /\ \A st \in Status :
                  [GuardOf(s) EXCEPT !.status = st] \in Guard
                  /\ [GuardOf(s) EXCEPT !.status = st].status = st
           /\ \A k \in Runs :
                  [GuardOf(s) EXCEPT !.run = k] \in Guard
                  /\ [GuardOf(s) EXCEPT !.run = k].run = k
                  /\ [GuardOf(s) EXCEPT !.run = k].status = GuardOf(s).status
<1>1. s.doc.pending \in Pending
  BY DEF SnapOK, Held, Doc
<1>2. GuardOf(s) \in Guard
  BY <1>1 DEF GuardOf, Pending
<1> HIDE DEF GuardOf
<1>3. \A n \in Nat \ {0} : Available(n) \in Guard
  BY DEF Available, Guard, Status
<1>4. ASSUME NEW st \in Status
      PROVE  /\ [GuardOf(s) EXCEPT !.status = st] \in Guard
             /\ [GuardOf(s) EXCEPT !.status = st].status = st
  BY <1>2 DEF Guard
<1>5. ASSUME NEW k \in Runs
      PROVE  /\ [GuardOf(s) EXCEPT !.run = k] \in Guard
             /\ [GuardOf(s) EXCEPT !.run = k].run = k
             /\ [GuardOf(s) EXCEPT !.run = k].status = GuardOf(s).status
  BY <1>2 DEF Guard
<1> QED
  BY <1>1, <1>2, <1>3, <1>4, <1>5

(* What a process that looks may rely on.                                  *)
LEMMA LookKnows ==
    ASSUME Inv, NEW h \in Handlers, job[h].pc = "look"
    PROVE  SnapOK(job[h].snap) /\ job[h].req \in sent /\ SentOK(job[h].req)
BY DEF Inv, JobOK

LEMMA TransitKeeps ==
    ASSUME Inv, NEW h \in Handlers, NEW at \in Instants, Transit(h, at)
    PROVE  Inv'
<1> DEFINE r == job[h].req
           s == job[h].snap
           next == After(s, r, at)
           path == <<r.op, r.run>>
           body == [req |-> r, prev |-> r.expect, next |-> next]
           pc == IF r.op = "authorize" THEN "authorize" ELSE "write"
<1>1. /\ job[h].pc = "look" /\ r.op \in Transition /\ s.doc = r.expect /\ Allowed(r)
      /\ Go(h, pc, path, body, next)
      /\ UNCHANGED <<state, worm, sent, github, control, applied>>
  BY DEF Transit, Transits, Looks, storage, clients
<1>2. SnapOK(s) /\ SentOK(r)
  BY <1>1, LookKnows
<1> HIDE DEF s, r
<1>3. Moves(path, s.doc, next)
  <2>1. CASE r.op = "publish"
    <3> DEFINE p == [cand |-> r.run, guard |-> Available(1)]
    <3>1. s.doc.pending = None /\ next = Pend(s, p, at)
      BY <1>1, <2>1 DEF Allowed, After
    <3>2. p \in Pending /\ p.cand = r.run
      BY <1>2, <2>1 DEF SentOK, Pending, Guard, Available, Status
    <3> HIDE DEF p
    <3>3. p # None
      BY <3>2, NoneOK
    <3>4. Pend(s, p, at) \in Doc /\ Pend(s, p, at).pending = p
          /\ Pend(s, p, at).stamp[1] = s.doc.stamp[1] + 1
      BY <1>2, <3>2, PendType DEF SnapOK
    <3> QED
      BY <1>2, <2>1, <3>1, <3>2, <3>3, <3>4 DEF Moves, SnapOK
  <2>2. CASE r.op = "accept"
    <3>1. /\ s.doc.pending # None /\ s.doc.pending.cand = r.run
          /\ s.doc.pending.guard.status = "available"
          /\ next = [Pend(s, None, at) EXCEPT !.baseline = r.run]
      BY <1>1, <2>2 DEF Allowed, After, Acceptable
    <3>2. r.run \in Candidates
      BY <1>2, <3>1 DEF SnapOK, Doc, Pending
    <3> DEFINE e == Pend(s, None, at)
    <3>3. e \in Doc /\ e.pending = None /\ e.stamp[1] = s.doc.stamp[1] + 1
      BY <1>2, PendType DEF SnapOK
    <3> HIDE DEF e
    <3>4. next \in Doc /\ next.pending = None /\ next.stamp = e.stamp
      BY <3>1, <3>2, <3>3 DEF Doc, e
    <3> QED
      BY <1>2, <2>2, <3>1, <3>3, <3>4 DEF Moves, SnapOK
  <2>3. CASE r.op \in {"observed", "authorize"}
    <3>1. Held(s) /\ GuardOf(s).status \in {"dispatching", "requested"}
      BY <1>1, <2>3 DEF Allowed, Rollbackable, Required, Held, GuardOf
    <3>2. PICK st \in {"requested", "authorized"} :
              next = Guarded(s, [GuardOf(s) EXCEPT !.status = st], at)
      BY <2>3 DEF After
    <3> DEFINE g == [GuardOf(s) EXCEPT !.status = st]
    <3>3. g \in Guard /\ g.status \in Bound /\ next = Guarded(s, g, at)
      BY <1>2, <3>1, <3>2, GuardType DEF Status, Bound
    <3>4. path[1] \notin {"publish", "accept", "attempt"} /\ GuardOf(s).status # "authorized"
      BY <2>3, <3>1
    <3> HIDE DEF g, path, next
    <3> QED
      BY <1>2, <3>1, <3>3, <3>4, GuardedMoves
  <2>4. CASE r.op = "completed"
    <3>1. /\ s.doc.pending # None /\ s.doc.pending.guard.status = "authorized"
          /\ s.doc.pending.guard.run = r.run /\ next = Pend(s, None, at)
      BY <1>1, <2>4 DEF Allowed, Rollbackable, Required, After
    <3>2. next \in Doc /\ next.pending = None /\ next.stamp[1] = s.doc.stamp[1] + 1
      BY <1>2, <3>1, PendType DEF SnapOK
    <3> QED
      BY <1>2, <2>4, <3>1, <3>2 DEF Moves, SnapOK
  <2> QED
    BY <1>1, <2>1, <2>2, <2>3, <2>4 DEF Transition
<1>4. body.next = next /\ body.prev = s.doc /\ path[1] = r.op
  BY <1>1
<1> HIDE DEF body, next
<1>5. Tells(path, body, next) /\ path[1] \in Named /\ path[1] # "outcome"
  BY <1>1, <1>4 DEF Tells, Named, Kept, Transition
<1>6. pc \in {"authorize", "write", "swap"} /\ pc # "swap"
  OBVIOUS
<1> HIDE DEF pc
<1> QED
  BY <1>1, <1>3, <1>4, <1>5, <1>6, GoKeeps DEF s, r

LEMMA ReplayKeeps ==
    ASSUME Inv, NEW h \in Handlers, Replay(h)
    PROVE  Inv'
<1> DEFINE path == <<job[h].req.op, job[h].req.run>>
<1>1. /\ job[h].pc = "look" /\ path[1] \in Transition
      /\ path \in DOMAIN worm /\ worm[path].prev = job[h].snap.doc
      /\ Go(h, "swap", path, worm[path], worm[path].next)
      /\ UNCHANGED <<state, worm, sent, github, control, applied>>
  BY DEF Replay, Replays, Looks, Written, storage, clients
<1>2. FiledOK(path)
  BY <1>1 DEF Inv
<1>3. Moves(path, job[h].snap.doc, worm[path].next) /\ path[1] \in Named
      /\ Tells(path, worm[path], worm[path].next)
  BY <1>1, <1>2 DEF FiledOK, Tells, Named, Kept, Transition
<1> QED
  BY <1>1, <1>3, GoKeeps DEF Written

LEMMA RecoverKeeps ==
    ASSUME Inv, NEW h \in Handlers, Recover(h)
    PROVE  Inv'
<1> DEFINE path == <<job[h].req.op, job[h].req.claim>>
<1>1. /\ job[h].pc = "look" /\ path[1] \in {"release", "repair"}
      /\ path \in DOMAIN worm /\ worm[path].prev = job[h].snap.doc
      /\ Go(h, "swap", path, worm[path], worm[path].next)
      /\ UNCHANGED <<state, worm, sent, github, control, applied>>
  BY DEF Recover, Recovers, Looks, Written, storage, clients
<1>2. FiledOK(path)
  BY SMTT(60), <1>1 DEF Inv
<1>3. Moves(path, job[h].snap.doc, worm[path].next) /\ path[1] \in Named
      /\ Tells(path, worm[path], worm[path].next) /\ path[1] \notin Transition
  BY <1>1, <1>2 DEF FiledOK, Tells, Named, Kept, Transition
<1> QED
  BY <1>1, <1>3, GoKeeps DEF Written

(* The guard of a state that is held, and a document derived from it.      *)
LEMMA LookGuarded ==
    ASSUME Inv, NEW h \in Handlers, job[h].pc = "look",
           NEW pc \in {"write", "swap"}, NEW path, NEW body,
           NEW g \in Guard, NEW at \in Instants,
           Held(job[h].snap), Go(h, pc, path, body, Guarded(job[h].snap, g, at)),
           UNCHANGED <<state, worm, sent, github, control, applied>>,
           path[1] \in Named, path[1] \notin Transition,
           path[1] = "attempt" => GuardOf(job[h].snap).status = "claimed" /\ g.status = "dispatching",
           GuardOf(job[h].snap).status \in Bound => g.status \in Bound,
           GuardOf(job[h].snap).status # "authorized",
           Tells(path, body, Guarded(job[h].snap, g, at)),
           path[1] \in Kept => body.prev = job[h].snap.doc,
           pc = "write" => path[1] # "outcome",
           pc = "swap" => Written(path) /\ worm[path] = body
    PROVE  Inv'
<1>1. SnapOK(job[h].snap)
  BY LookKnows
<1>2. path[1] \notin {"publish", "accept"}
  BY DEF Transition
<1>3. Moves(path, job[h].snap.doc, Guarded(job[h].snap, g, at))
  BY <1>1, <1>2, GuardedMoves
<1> QED
  BY <1>3, GoKeeps

LEMMA ClaimKeeps ==
    ASSUME Inv, NEW h \in Handlers, NEW at \in Instants, ClaimRollback(h, at)
    PROVE  Inv'
<1> DEFINE s == job[h].snap
           x == job[h].req.run
           g == [GuardOf(s) EXCEPT !.status = "claimed", !.claim = <<x, s.etag + 1>>]
           body == [seen |-> job[h].req.expect]
           path == <<"decision", x>>
<1>1. /\ job[h].pc = "look" /\ job[h].req.op = "claim"
      /\ Held(s) /\ GuardOf(s).status = "available" /\ s.doc = job[h].req.expect
      /\ Go(h, "write", path, body, Guarded(s, g, at))
      /\ UNCHANGED <<state, worm, sent, github, control, applied>>
  BY DEF ClaimRollback, Claims, Looks, storage, clients
<1>2. SnapOK(s) /\ x \in Watchdogs
  BY <1>1, LookKnows DEF SentOK
<1> HIDE DEF s, x
<1>3. GuardOf(s) \in Guard /\ <<x, s.etag + 1>> \in Claim
  BY <1>1, <1>2, GuardType DEF Claim, SnapOK
<1> HIDE DEF GuardOf
<1>4. g \in Guard
  BY <1>3 DEF Guard, Status
<1> HIDE DEF g
<1>5. Guarded(s, g, at).pending.cand = s.doc.pending.cand
  BY <1>1, <1>2, <1>4, GuardedPending
<1>6. body.seen = s.doc
  BY <1>1
<1> HIDE DEF body
<1>7. /\ Tells(path, body, Guarded(s, g, at)) /\ path[1] \in Named
      /\ path[1] \notin Kept \cup Transition \cup {"attempt", "outcome"}
  BY <1>5, <1>6 DEF Tells, Named, Kept, Transition
<1> QED
  BY <1>1, <1>4, <1>7, LookGuarded DEF s, Bound

LEMMA RebindKeeps ==
    ASSUME Inv, NEW h \in Handlers, NEW at \in Instants, Rebind(h, at)
    PROVE  Inv'
<1> DEFINE s == job[h].snap
           path == <<"outcome", job[h].req.run>>
           g == [GuardOf(s) EXCEPT !.run = worm[path].run]
<1>1. /\ job[h].pc = "look" /\ Held(s) /\ GuardOf(s).status = "dispatching"
      /\ path \in DOMAIN worm /\ Written(path) /\ path[1] = "outcome"
      /\ Go(h, "swap", path, worm[path], Guarded(s, g, at))
      /\ UNCHANGED <<state, worm, sent, github, control, applied>>
  BY DEF Rebind, Rebinds, Looks, Written, storage, clients
<1>2. SnapOK(s) /\ worm[path].run \in Runs
  BY <1>1, LookKnows DEF Inv, FiledOK
<1> HIDE DEF s, path
<1>3. g \in Guard /\ g.run = worm[path].run /\ g.status = "dispatching"
  BY <1>1, <1>2, GuardType
<1> HIDE DEF g
<1>4. Guarded(s, g, at).pending.guard = g
  BY <1>1, <1>2, <1>3, GuardedPending
<1>5. /\ Tells(path, worm[path], Guarded(s, g, at)) /\ path[1] \in Named
      /\ path[1] \notin Kept \cup Transition \cup {"attempt"}
  BY <1>1, <1>3, <1>4 DEF Tells, Named, Kept, Transition
<1> QED
  BY <1>1, <1>3, <1>5, LookGuarded DEF s, Bound

LEMMA ArmKeeps ==
    ASSUME Inv, NEW h \in Handlers, NEW at \in Instants, Arm(h, at)
    PROVE  Inv'
<1> DEFINE s == job[h].snap
           path == <<"attempt", job[h].req.run>>
           body == [claim |-> GuardOf(s).claim, gen |-> GuardOf(s).gen, at |-> at]
           g == [GuardOf(s) EXCEPT !.status = "dispatching"]
<1>1. /\ job[h].pc = "look" /\ Held(s) /\ GuardOf(s).status = "claimed"
      /\ path[1] = "attempt" /\ Go(h, "write", path, body, Guarded(s, g, at))
      /\ UNCHANGED <<state, worm, sent, github, control, applied>>
  BY DEF Arm, Arms, Looks, storage, clients
<1>2. SnapOK(s)
  BY <1>1, LookKnows
<1> HIDE DEF s, path
<1>3. GuardOf(s) \in Guard /\ body.claim = GuardOf(s).claim
  BY <1>1, <1>2, GuardType
<1> HIDE DEF body, GuardOf
<1>4. g \in Guard /\ g.status = "dispatching" /\ g.claim = GuardOf(s).claim
  BY <1>3 DEF Guard, Status
<1> HIDE DEF g
<1>5. Guarded(s, g, at).pending.guard = g
  BY <1>1, <1>2, <1>4, GuardedPending
<1>6. /\ Tells(path, body, Guarded(s, g, at)) /\ path[1] \in Named
      /\ path[1] \notin Kept \cup Transition \cup {"outcome"}
  BY <1>1, <1>3, <1>4, <1>5 DEF Tells, Named, Kept, Transition
<1> QED
  BY <1>1, <1>4, <1>6, LookGuarded DEF s, Bound

LEMMA ReconcileKeeps ==
    ASSUME Inv, NEW h \in Handlers, NEW at \in Instants, Reconcile(h, at)
    PROVE  Inv'
<1> DEFINE s == job[h].snap
           r == job[h].req
           next == Reconciled(s, r, at)
           path == <<r.op, r.claim>>
           body == [req |-> r, prev |-> s.doc, last |-> s.last, next |-> next]
<1>1. /\ job[h].pc = "look" /\ path[1] = r.op /\ r.op \in {"release", "repair"} /\ Held(s)
      /\ IF r.op = "release" THEN Releasable(GuardOf(s), r.claim)
                             ELSE Repairable(GuardOf(s), r.claim)
      /\ Go(h, "write", path, body, next)
      /\ UNCHANGED <<state, worm, sent, github, control, applied>>
  BY DEF Reconcile, Reconciles, Looks, storage, clients
<1>2. SnapOK(s)
  BY <1>1, LookKnows
<1> HIDE DEF s, r
<1>3. /\ body.next = next /\ body.prev = s.doc
      /\ path[1] \notin Transition \cup {"attempt", "outcome", "decision"} /\ path[1] \in Named
  BY <1>1 DEF Named, Kept, Transition
<1> HIDE DEF body, path, GuardOf
<1>4. GuardOf(s) \in Guard
  BY <1>1, <1>2, GuardType
<1>5. CASE r.op = "release"
  <2> DEFINE g == Available(GuardOf(s).gen + 1)
  <2>1. next = Guarded(s, g, at) /\ GuardOf(s).status = "claimed"
    BY <1>1, <1>5 DEF Reconciled, Releasable
  <2>2. g \in Guard
    BY <1>1, <1>2, <1>4, GuardType DEF Guard
  <2> HIDE DEF g, next
  <2> QED
    BY <1>1, <1>3, <2>1, <2>2, LookGuarded DEF s, Bound, Tells
<1>6. CASE r.op = "repair"
  <2> DEFINE out == <<"outcome", r.claim[1]>>
             g == [GuardOf(s) EXCEPT !.run = worm[out].run]
  <2>1. /\ next = Guarded(s, g, at) /\ GuardOf(s).status = "dispatching"
        /\ out \in DOMAIN worm /\ out[1] = "outcome"
    BY <1>1, <1>6 DEF Reconciled, Repairable, Written
  <2>2. worm[out].run \in Runs
    BY <2>1 DEF Inv, FiledOK
  <2>3. g \in Guard /\ g.status = "dispatching"
    BY <1>1, <1>2, <2>1, <2>2, GuardType
  <2> HIDE DEF g, next, out
  <2> QED
    BY <1>1, <1>3, <2>1, <2>3, LookGuarded DEF s, Bound, Tells
<1> QED
  BY <1>1, <1>5, <1>6

(* Whatever a process looks at, it goes on with one legal move or none.    *)
LEMMA LookKeeps ==
    ASSUME Inv, NEW h \in Handlers, Look(h)
    PROVE  Inv'
<1>1. CASE End(h)
  BY <1>1, RestKeeps DEF End, storage, clients
<1> QED
  BY <1>1, TransitKeeps, ClaimKeeps, RebindKeeps, ArmKeeps, ReconcileKeeps,
     ReplayKeeps, RecoverKeeps DEF Look

-----------------------------------------------------------------------------
(* What a process writes                                                   *)

(* A receipt is added, and its writer moves on.                            *)
LEMMA WormKeeps ==
    ASSUME Inv, NEW h \in Handlers,
           UNCHANGED <<state, sent, github, control, applied>>,
           \A p \in DOMAIN worm : p \in DOMAIN worm' /\ worm'[p] = worm[p],
           \A p \in DOMAIN worm' : p \in DOMAIN worm \/ FiledOK(p)',
           DOMAIN job' = Handlers, \A i \in Handlers : i # h => job'[i] = job[i],
           JobOK(h)', job'[h].pc # "dispatch"
    PROVE  Inv'
<1>1. StateOK'
  BY DEF Inv, StateOK, Published, Accepted, Written, Tells
<1>2. (\A p \in DOMAIN worm' : FiledOK(p)') /\ (\A r \in sent' : SentOK(r)')
  <2>1. \A p \in DOMAIN worm : FiledOK(p)'
    BY DEF Inv, FiledOK
  <2> QED
    BY <2>1 DEF Inv, SentOK
<1>3. \A i \in Handlers : JobOK(i)'
  BY DEF Inv, JobOK, SnapOK, Written
<1>4. \A i \in Handlers : \A c \in Candidates : Asking(i, c)' => Asking(i, c)
  BY DEF Asking
<1>5. \A c \in Candidates : PastOK(c)' /\ TokenOK(c)'
  BY <1>4 DEF Inv, PastOK, TokenOK, Token, Published, Accepted, Written
<1>6. OneToken' /\ GithubOK'
  BY <1>4 DEF Inv, OneToken, DispatchOnce, GithubOK
<1>7. \A k \in Runs : ControlOK(k)'
  BY DEF Inv, ControlOK, Fresh, Held, GuardOf
<1> QED
  BY <1>1, <1>2, <1>3, <1>5, <1>6, <1>7 DEF Inv

LEMMA WriteKeeps ==
    ASSUME Inv, NEW h \in Handlers, Write(h)
    PROVE  Inv'
<1> DEFINE j == job[h]
<1>1. /\ j.pc \in {"write", "outcome"}
      /\ UNCHANGED <<state, sent, github, control, applied>>
      /\ job' = [job EXCEPT ![h].pc = IF @ = "write" THEN "swap" ELSE "settle"]
      /\ \/ Written(j.path) /\ worm[j.path] = j.body /\ worm' = worm
         \/ ~ Written(j.path) /\ Create(j.path, j.body)
  BY DEF Write, Same, clients
<1>2. JobOK(h) /\ DOMAIN job = Handlers
  BY DEF Inv
<1>3. /\ job'[h].pc = IF j.pc = "write" THEN "swap" ELSE "settle"
      /\ job'[h].req = j.req /\ job'[h].snap = j.snap /\ job'[h].path = j.path
      /\ job'[h].body = j.body /\ job'[h].next = j.next /\ DOMAIN job'[h] = DOMAIN j
      /\ DOMAIN job' = Handlers /\ \A i \in Handlers : i # h => job'[i] = job[i]
  BY <1>1, <1>2 DEF JobOK
<1> HIDE DEF j
<1>4. /\ \A p \in DOMAIN worm : p \in DOMAIN worm' /\ worm'[p] = worm[p]
      /\ j.path \in DOMAIN worm' /\ worm'[j.path] = j.body
      /\ \A p \in DOMAIN worm' : p \in DOMAIN worm \/ p = j.path
  BY <1>1 DEF Create, Written
<1>5. ASSUME NEW p, p = j.path PROVE FiledOK(p)'
  BY <1>5, <1>1, <1>2, <1>4 DEF FiledOK, JobOK, Tells, Kept, Transition, j
<1>6. JobOK(h)'
  <2>1. CASE j.pc = "write"
    BY <1>1, <1>2, <1>3, <1>4, <2>1 DEF JobOK, SnapOK, Written, JobLabels, j
  <2>2. CASE j.pc = "outcome"
    BY <1>1, <1>2, <1>3, <1>4, <2>2 DEF JobOK, SnapOK, Written, JobLabels, j
  <2> QED
    BY <1>1, <2>1, <2>2
<1>7. \A p \in DOMAIN worm' : p \in DOMAIN worm \/ FiledOK(p)'
  BY <1>4, <1>5
<1> QED
  BY <1>1, <1>3, <1>4, <1>6, <1>7, WormKeeps

LEMMA AuthorizeKeeps ==
    ASSUME Inv, NEW h \in Handlers, Authorize(h)
    PROVE  Inv'
<1> DEFINE j == job[h]
           path == <<"authorization", j.req.run>>
<1>1. /\ j.pc = "authorize"
      /\ UNCHANGED <<state, sent, github, control, applied>>
      /\ job' = [job EXCEPT ![h].pc = "write"]
      /\ \/ worm' = worm
         \/ ~ Written(path) /\ \E body : Create(path, body)
  BY DEF Authorize, clients
<1>2. JobOK(h) /\ DOMAIN job = Handlers
  BY DEF Inv
<1>3. /\ job'[h].pc = "write"
      /\ job'[h].req = j.req /\ job'[h].snap = j.snap /\ job'[h].path = j.path
      /\ job'[h].body = j.body /\ job'[h].next = j.next /\ DOMAIN job'[h] = DOMAIN j
      /\ DOMAIN job' = Handlers /\ \A i \in Handlers : i # h => job'[i] = job[i]
  BY <1>1, <1>2 DEF JobOK
<1>4. path[1] \notin Kept \cup {"outcome"}
  BY DEF Kept, Transition
<1> HIDE DEF j, path
<1>5. /\ \A p \in DOMAIN worm : p \in DOMAIN worm' /\ worm'[p] = worm[p]
      /\ \A p \in DOMAIN worm' : p \in DOMAIN worm \/ p = path
  BY <1>1 DEF Create, Written
<1>6. \A p \in DOMAIN worm' : p \in DOMAIN worm \/ FiledOK(p)'
  BY <1>4, <1>5 DEF FiledOK
<1>7. JobOK(h)'
  BY <1>1, <1>2, <1>3 DEF JobOK, SnapOK, JobLabels, j
<1> QED
  BY <1>1, <1>3, <1>5, <1>6, <1>7, WormKeeps

-----------------------------------------------------------------------------
(* The state is replaced                                                   *)

(* The receipt of a publication takes effect once.                         *)
LEMMA PublishedOnce ==
    ASSUME Inv, NEW c \in Candidates, NEW e,
           Moves(<<"publish", c>>, state.doc, e),
           Tells(<<"publish", c>>, worm[<<"publish", c>>], e)
    PROVE  ~ Published(c)
<1>1. worm[<<"publish", c>>].next = e
  BY DEF Tells, Kept, Transition
<1>2. e.stamp[1] = state.etag + 1 /\ state.etag \in Nat
  BY DEF Moves, Inv, StateOK
<1>3. PastOK(c)
  BY DEF Inv
<1> QED
  BY <1>1, <1>2, <1>3 DEF PastOK

(* The state goes to e under a receipt that is written, the only kind of   *)
(* step that changes it.                                                   *)
LEMMA ReplaceKeeps ==
    ASSUME Inv, NEW h \in Handlers, NEW path, NEW e,
           Moves(path, state.doc, e), path[1] \in Named,
           Written(path), Tells(path, worm[path], e),
           path[1] \in Transition => path = <<path[1], path[2]>>,
           path[1] = "completed" =>
               \E r \in sent : r.op = "completed" /\ r.run = path[2],
           state' = [doc |-> e, etag |-> state.etag + 1, last |-> path],
           applied' = applied \cup {path},
           UNCHANGED <<worm, github, control>>,
           sent \subseteq sent', \A r \in sent' : r \in sent \/ r.op = "dispatch",
           DOMAIN job' = Handlers, \A i \in Handlers : i # h => job'[i] = job[i],
           JobOK(h)',
           job'[h].pc = "dispatch" => path[1] = "attempt" /\ job'[h].next = e
    PROVE  Inv'
<1> DEFINE d == state.doc
<1>0. /\ state'.doc = e /\ state'.etag = state.etag + 1 /\ state'.last = path
      /\ state.etag \in Nat /\ d \in Doc /\ e \in Doc /\ e.stamp[1] = state.etag + 1
  BY DEF Inv, StateOK, Moves
<1>1. ASSUME NEW c \in Candidates, path[1] = "publish", e.pending.cand = c
      PROVE  path = <<"publish", c>> /\ ~ Published(c) /\ ~ Accepted(c)
  <2>1. path = <<"publish", c>>
    BY <1>1 DEF Moves, Transition
  <2>2. ~ Published(c)
    BY <2>1, PublishedOnce
  <2> QED
    BY <2>1, <2>2 DEF Inv, PastOK
<1>2. \A c : Accepted(c)' => Accepted(c) \/ path = <<"accept", c>>
  BY DEF Accepted
<1>3. \A c : /\ Published(c) => Published(c)'
             /\ Published(c)' => Published(c) \/ path = <<"publish", c>>
  BY DEF Published
<1>4. e.pending # None => e.pending.cand \in Candidates
  BY <1>0 DEF Doc, Pending
<1>5. d.pending # None => d.pending.cand \in Candidates
  BY <1>0 DEF Doc, Pending
<1>6. d.pending # None => Published(d.pending.cand) /\ ~ Accepted(d.pending.cand)
  BY DEF Inv, StateOK
<1>7. StateOK'
  <2>1. ASSUME e.pending # None, path[1] = "publish"
        PROVE  Published(e.pending.cand)' /\ ~ Accepted(e.pending.cand)'
    <3>1. path = <<"publish", e.pending.cand>> /\ ~ Accepted(e.pending.cand)
      BY <1>1, <1>4, <2>1
    <3> QED
      BY <3>1 DEF Published, Accepted
  <2>2. ASSUME e.pending # None, path[1] # "publish"
        PROVE  Published(e.pending.cand)' /\ ~ Accepted(e.pending.cand)'
    <3>1. e.pending.cand = d.pending.cand /\ d.pending # None /\ path[1] # "accept"
      BY <2>2 DEF Moves
    <3> QED
      BY <1>6, <3>1 DEF Published, Accepted
  <2>3. Written(path)' /\ Tells(path, worm[path], e)'
    BY DEF Written, Tells
  <2> QED
    BY <1>0, <2>1, <2>2, <2>3 DEF StateOK
<1>8. \A i \in Handlers : JobOK(i)'
  <2>1. \A s : SnapOK(s) => SnapOK(s)'
    BY <1>0 DEF SnapOK
  <2>2. ASSUME NEW i \in Handlers, i # h PROVE JobOK(i)'
    <3>1. JobOK(i) /\ job'[i] = job[i]
      BY <2>2 DEF Inv
    <3>2. SnapOK(job[i].snap) => job'[i].snap.etag # state'.etag
      BY <1>0, <3>1 DEF SnapOK
    <3> QED
      BY <1>0, <3>1, <3>2 DEF JobOK, Written, SnapOK
  <2> QED
    BY <2>2
<1>9. (\A p \in DOMAIN worm' : FiledOK(p)') /\ (\A r \in sent' : SentOK(r)')
  BY DEF Inv, FiledOK, SentOK
<1>10. ASSUME NEW c \in Candidates PROVE PastOK(c)'
  <2> DEFINE there == <<"publish", c>>
  <2>1. CASE path = there
    <3>1. worm[path].next = e
      BY <2>1 DEF Tells, Kept, Transition
    <3> QED
      BY <1>0, <2>1, <3>1 DEF PastOK, Published, Written
  <2>2. CASE path # there
    <3>1. PastOK(c)
      BY DEF Inv
    <3>2. Published(c) => Written(there) /\ worm[there].next.stamp[1] <= state.etag
      BY <3>1 DEF PastOK
    <3>3. Written(there) => worm[there].next.stamp[1] \in Nat
      <4> SUFFICES ASSUME Written(there) PROVE worm[there].next.stamp[1] \in Nat
        OBVIOUS
      <4>1. FiledOK(there) /\ there[1] \in Kept
        BY DEF Inv, Written, Kept, Transition
      <4> QED
        BY <4>1 DEF FiledOK, Moves, Doc, Stamps
    <3>4. Published(c) => Written(there) /\ worm[there].next.stamp[1] <= state.etag + 1
      BY <1>0, <3>2, <3>3
    <3>5. Accepted(c)' => Published(c)
      <4>1. CASE path = <<"accept", c>>
        <5>1. d.pending # None /\ d.pending.cand = c
          BY <4>1 DEF Moves
        <5> QED
          BY <1>6, <5>1
      <4> QED
        BY <1>2, <3>1, <4>1 DEF PastOK
    <3> QED
      BY <1>0, <1>3, <2>2, <3>4, <3>5 DEF PastOK, Written
  <2> QED
    BY <2>1, <2>2
<1>11. ASSUME NEW c \in Candidates, Asking(h, c)'
       PROVE  /\ ~ Token(c) /\ Published(c)' /\ ~ Accepted(c)' /\ e.pending.cand = c
              /\ e.pending.guard.status \in Bound
  <2>1. path[1] = "attempt" /\ e.pending.cand = c /\ e.pending # None
    BY <1>11 DEF Asking, Moves
  <2>2. /\ d.pending # None /\ d.pending.cand = c /\ d.pending.guard.status = "claimed"
        /\ e.pending.guard.status = "dispatching"
    BY <2>1 DEF Moves
  <2>3. TokenOK(c)
    BY DEF Inv
  <2>4. ~ Token(c)
    BY <2>2, <2>3 DEF TokenOK, Bound
  <2> QED
    BY <1>2, <1>3, <1>6, <2>1, <2>2, <2>4 DEF Bound
<1>12. \A i \in Handlers, c \in Candidates : i # h /\ Asking(i, c)' => Asking(i, c)
  BY DEF Asking
<1>13. ASSUME NEW c \in Candidates PROVE TokenOK(c)'
  <2>1. CASE Asking(h, c)'
    BY <1>0, <1>11, <2>1 DEF TokenOK
  <2>2. CASE Token(c)
    <3>1. /\ Published(c) /\ ~ Accepted(c)
          /\ d.pending # None /\ d.pending.cand = c => d.pending.guard.status \in Bound
      BY <2>2 DEF Inv, TokenOK
    <3>2. path # <<"accept", c>>
      BY <3>1 DEF Moves, Bound
    <3>3. e.pending # None /\ e.pending.cand = c => e.pending.guard.status \in Bound
      BY <1>1, <3>1 DEF Moves
    <3> QED
      BY <1>0, <1>2, <1>3, <3>1, <3>2, <3>3 DEF TokenOK
  <2>3. CASE ~ Asking(h, c)' /\ ~ Token(c)
    BY <1>12, <2>3 DEF TokenOK, Token
  <2> QED
    BY <2>1, <2>2, <2>3
<1>14. OneToken'
  <2>1. DispatchOnce'
    BY DEF Inv, OneToken, DispatchOnce
  <2>2. ASSUME NEW i \in Handlers, NEW k \in Handlers, NEW c \in Candidates,
               Asking(i, c)', Asking(k, c)'
        PROVE  i = k
    BY <1>11, <1>12, <2>2 DEF Inv, OneToken, Token
  <2>3. ASSUME NEW i \in Handlers, NEW g \in github, Asking(i, g.cand)' PROVE FALSE
    <3>1. g.cand \in Candidates
      BY DEF Inv, GithubOK
    <3> QED
      BY <1>11, <1>12, <2>3, <3>1 DEF Inv, OneToken, Token
  <2> QED
    BY <2>1, <2>2, <2>3 DEF OneToken
<1>15. GithubOK'
  BY DEF Inv, GithubOK
<1>16. ASSUME NEW k \in Runs PROVE ControlOK(k)'
  <2>1. ControlOK(k)
    BY DEF Inv
  <2>2. control[k].pc \notin {"deploy", "verify"}
    <3> SUFFICES ASSUME control[k].pc \in {"deploy", "verify"} PROVE FALSE
      OBVIOUS
    <3>1. d.pending # None /\ d.pending.guard.status = "authorized" /\ d.pending.guard.run = k
      BY <2>1 DEF ControlOK, Fresh, Held, GuardOf
    <3>2. path = <<"completed", k>>
      BY <3>1 DEF Moves
    <3> QED
      BY <2>1, <3>2 DEF ControlOK
  <2> QED
    BY <2>1, <2>2 DEF ControlOK
<1> QED
  BY <1>7, <1>8, <1>9, <1>10, <1>13, <1>14, <1>15, <1>16 DEF Inv


(* _replace_state, after the receipt.                                      *)
LEMMA SwapKeeps ==
    ASSUME Inv, NEW h \in Handlers, Swap(h)
    PROVE  Inv'
<1> DEFINE j == job[h]
           armed == j.path[1] = "attempt"
<1>1. /\ j.pc = "swap" /\ state.etag = j.snap.etag
      /\ state' = [doc |-> j.next, etag |-> state.etag + 1, last |-> j.path]
      /\ applied' = applied \cup {j.path} /\ UNCHANGED <<worm, github, control>>
      /\ job' = [job EXCEPT ![h] = IF armed THEN [@ EXCEPT !.pc = "dispatch"] ELSE Rest]
  BY DEF Swap, Current, Replace, clients
<1>2. sent \subseteq sent' /\ \A r \in sent' : r \in sent \/ r.op = "dispatch"
  BY DEF Swap
<1>3. JobOK(h) /\ DOMAIN job = Handlers
  BY DEF Inv
<1>4. /\ j.snap.doc = state.doc /\ j.path[1] \in Named /\ j.req \in sent
      /\ Moves(j.path, state.doc, j.next) /\ Tells(j.path, j.body, j.next)
      /\ Written(j.path) /\ worm[j.path] = j.body
      /\ j.path[1] \in Transition => j.path = <<j.req.op, j.req.run>>
  BY <1>1, <1>3 DEF JobOK, SnapOK
<1>5. DOMAIN job' = Handlers /\ \A i \in Handlers : i # h => job'[i] = job[i]
  BY <1>1, <1>3
<1>6. CASE armed
  <2>1. /\ job'[h].pc = "dispatch" /\ job'[h].next = j.next /\ DOMAIN job'[h] = DOMAIN j
    BY <1>1, <1>3, <1>6 DEF JobOK
  <2>2. j.next \in Doc /\ j.next.pending # None /\ j.next.pending.guard.status = "dispatching"
    BY <1>4, <1>6 DEF Moves
  <2>3. JobOK(h)'
    BY <1>3, <2>1, <2>2 DEF JobOK, JobLabels
  <2> QED
    BY <1>1, <1>2, <1>4, <1>5, <1>6, <2>1, <2>3, ReplaceKeeps DEF Transition
<1>7. CASE ~ armed
  <2>1. job'[h] = Rest
    BY <1>1, <1>3, <1>7
  <2>2. JobOK(h)' /\ job'[h].pc # "dispatch"
    BY <2>1 DEF JobOK, Rest, JobLabels
  <2> QED
    BY SMTT(60), <1>1, <1>2, <1>4, <1>5, <2>2, ReplaceKeeps DEF Transition
<1> QED
  BY <1>6, <1>7

(* The run is bound to the claim it was dispatched for.                    *)
LEMMA SettleKeeps ==
    ASSUME Inv, NEW h \in Handlers, NEW at \in Instants, Settle(h, at)
    PROVE  Inv'
<1> DEFINE j == job[h]
           g == [GuardOf(state) EXCEPT !.run = j.body.run]
           e == Guarded(state, g, at)
<1>1. /\ j.pc = "settle" /\ state.doc = j.next
      /\ state' = [doc |-> e, etag |-> state.etag + 1, last |-> j.path]
      /\ applied' = applied \cup {j.path} /\ UNCHANGED <<worm, sent, github, control>>
      /\ job' = [job EXCEPT ![h] = Rest]
  BY DEF Settle, Replace, GuardOf, clients
<1>2. JobOK(h) /\ DOMAIN job = Handlers
  BY DEF Inv
<1>3. /\ Held(state) /\ GuardOf(state).status = "dispatching" /\ SnapOK(state)
      /\ j.path[1] = "outcome" /\ j.body.run \in Runs
      /\ Written(j.path) /\ worm[j.path] = j.body
  BY <1>1, <1>2 DEF JobOK, Held, GuardOf, Inv, StateOK, SnapOK
<1>4. /\ DOMAIN job' = Handlers /\ (\A i \in Handlers : i # h => job'[i] = job[i])
      /\ job'[h] = Rest
  BY <1>1, <1>2
<1>5. JobOK(h)' /\ job'[h].pc # "dispatch"
  BY <1>4 DEF JobOK, Rest, JobLabels
<1> HIDE DEF j
<1>6. g \in Guard /\ g.status = "dispatching" /\ g.run = j.body.run
  BY <1>3, GuardType
<1> HIDE DEF g
<1>7. Moves(j.path, state.doc, e)
  BY <1>3, <1>6, GuardedMoves DEF Bound
<1>8. e.pending.guard = g
  BY <1>3, <1>6, GuardedPending
<1> HIDE DEF e
<1>9. Tells(j.path, worm[j.path], e) /\ j.path[1] \in Named \ Transition
  BY <1>3, <1>6, <1>8 DEF Tells, Named, Kept, Transition
<1> QED
  BY <1>1, <1>3, <1>4, <1>5, <1>7, <1>9, ReplaceKeeps DEF Transition

-----------------------------------------------------------------------------
(* GitHub                                                                  *)

LEMMA DispatchKeeps ==
    ASSUME Inv, NEW h \in Handlers, Dispatch(h)
    PROVE  Inv'
<1> DEFINE j == job[h]
           p == j.next.pending
           id == Cardinality(github) + 1
           new == [id |-> id, claim |-> p.guard.claim, cand |-> p.cand]
           body == [claim |-> p.guard.claim, gen |-> p.guard.gen, run |-> id]
           path == <<"outcome", p.guard.claim[1]>>
<1>1. /\ j.pc = "dispatch" /\ id \in Runs /\ github' = github \cup {new}
      /\ control' = [control EXCEPT ![id].pc = "start"]
      /\ \/ Go(h, "outcome", path, body, j.next)
         \/ job' = [job EXCEPT ![h] = Rest]
      /\ UNCHANGED <<state, worm, sent, applied>>
  BY DEF Dispatch, storage
<1>2. JobOK(h) /\ DOMAIN job = Handlers /\ DOMAIN control = Runs
  BY DEF Inv
<1>3. j.next \in Doc /\ p # None /\ p.cand \in Candidates
  BY <1>1, <1>2 DEF JobOK, Doc, Pending
<1>4. body.run \in Runs /\ path[1] = "outcome" /\ new.id = id /\ new.cand = p.cand
  BY <1>1
<1> HIDE DEF body, path, new, id
<1>5. /\ DOMAIN job' = Handlers /\ (\A i \in Handlers : i # h => job'[i] = job[i])
      /\ job'[h].pc # "dispatch" /\ JobOK(h)'
  <2>1. CASE job' = [job EXCEPT ![h] = Rest]
    BY <1>2, <2>1 DEF JobOK, Rest, JobLabels
  <2>2. CASE Go(h, "outcome", path, body, j.next)
    <3>1. /\ job'[h].pc = "outcome" /\ job'[h].path = path /\ job'[h].body = body
          /\ job'[h].next = j.next /\ DOMAIN job'[h] = DOMAIN j
          /\ DOMAIN job' = Handlers /\ \A i \in Handlers : i # h => job'[i] = job[i]
      BY <1>2, <2>2 DEF Go, JobOK
    <3> QED
      BY <1>1, <1>2, <1>4, <3>1 DEF JobOK, JobLabels
  <2> QED
    BY <1>1, <2>1, <2>2
<1>6. (\A i \in Handlers : JobOK(i)') /\ StateOK'
      /\ (\A q \in DOMAIN worm' : FiledOK(q)') /\ (\A r \in sent' : SentOK(r)')
  BY <1>1, <1>5 DEF Inv, JobOK, SnapOK, Written, StateOK, Published, Accepted, FiledOK, SentOK
<1>7. Asking(h, p.cand) /\ \A i \in Handlers, c \in Candidates : Asking(i, c)' => Asking(i, c) /\ i # h
  BY <1>1, <1>5 DEF Asking
<1>8. ASSUME NEW c \in Candidates PROVE PastOK(c)' /\ TokenOK(c)'
  <2>1. Token(c)' => Token(c)
    BY <1>1, <1>4, <1>7 DEF Token
  <2> QED
    BY <1>1, <2>1 DEF Inv, PastOK, TokenOK, Published, Accepted, Written
<1>9. OneToken'
  <2>1. DispatchOnce'
    <3>1. \A g \in github : g.cand # p.cand
      BY <1>7 DEF Inv, OneToken
    <3> QED
      BY <1>1, <1>4, <3>1 DEF Inv, OneToken, DispatchOnce
  <2>2. \A i, k \in Handlers, c \in Candidates : Asking(i, c)' /\ Asking(k, c)' => i = k
    BY <1>7 DEF Inv, OneToken
  <2>3. \A i \in Handlers, g \in github' : ~ Asking(i, g.cand)'
    <3>1. ASSUME NEW i \in Handlers, NEW g \in github', Asking(i, g.cand)' PROVE FALSE
      <4>1. g.cand \in Candidates
        BY <1>1, <1>3, <1>4 DEF Inv, GithubOK
      <4>2. Asking(i, g.cand) /\ i # h
        BY <1>7, <3>1, <4>1
      <4> QED
        BY <1>1, <1>3, <1>4, <1>7, <4>2 DEF Inv, OneToken
    <3> QED
      BY <3>1
  <2> QED
    BY <2>1, <2>2, <2>3 DEF OneToken
<1>10. Cardinality(github) \in Nat /\ id = Cardinality(github) + 1 /\ id \in Nat
  BY FS_CardinalityType DEF Inv, GithubOK, id
<1>11. GithubOK'
  <2>1. new \notin github
    BY <1>4, <1>10 DEF Inv, GithubOK
  <2>2. IsFiniteSet(github') /\ Cardinality(github') = id
    BY <1>1, <1>10, <2>1, FS_AddElement DEF Inv, GithubOK
  <2>3. \A g \in github' : g.cand \in Candidates /\ g.id \in Nat /\ g.id <= id
    BY <1>1, <1>3, <1>4, <1>10 DEF Inv, GithubOK
  <2>4. ASSUME NEW k \in Runs, k > id PROVE control'[k].pc = "none"
    BY <1>1, <1>2, <1>10, <2>4 DEF Inv, GithubOK, Runs
  <2> QED
    BY <2>2, <2>3, <2>4 DEF GithubOK
<1>12. ASSUME NEW k \in Runs PROVE ControlOK(k)'
  <2>1. ControlOK(k)
    BY DEF Inv
  <2>2. CASE k = id
    <3>1. control[k].pc = "none"
      BY <1>10, <2>2 DEF Inv, GithubOK, Runs
    <3>2. control'[k].pc = "start" /\ DOMAIN control'[k] = DOMAIN control[k]
      BY <1>1, <1>2, <2>1, <2>2 DEF ControlOK
    <3> QED
      BY <1>1, <2>1, <3>1, <3>2 DEF ControlOK
  <2>3. CASE k # id
    <3>1. control'[k] = control[k]
      BY <1>1, <1>2, <2>3
    <3> QED
      BY <1>1, <2>1, <3>1 DEF ControlOK, Fresh, Held, GuardOf
  <2> QED
    BY <2>2, <2>3
<1>13. DOMAIN control' = Runs
  BY <1>1, <1>2
<1> QED
  BY <1>5, <1>6, <1>8, <1>9, <1>11, <1>12, <1>13 DEF Inv


-----------------------------------------------------------------------------
(* The clients and time                                                    *)

(* A client sends a request or moves on.                                   *)
LEMMA ClientKeeps ==
    ASSUME Inv, UNCHANGED <<state, worm, job, github, applied>>,
           sent \subseteq sent', \A r \in sent' : SentOK(r),
           DOMAIN control' = Runs, \A k \in Runs : ControlOK(k)',
           \A k \in Runs : control'[k] = control[k] \/ control[k].pc # "none"
    PROVE  Inv'
<1>1. StateOK' /\ (\A h \in Handlers : JobOK(h)') /\ (\A p \in DOMAIN worm' : FiledOK(p)')
  BY DEF Inv, StateOK, Published, Accepted, Written, JobOK, SnapOK, FiledOK
<1>2. \A c \in Candidates : PastOK(c)' /\ TokenOK(c)'
  BY DEF Inv, PastOK, TokenOK, Token, Asking, Published, Accepted, Written
<1>3. OneToken' /\ GithubOK'
  BY DEF Inv, OneToken, DispatchOnce, Asking, GithubOK
<1>4. \A r \in sent' : SentOK(r)'
  BY DEF SentOK
<1> QED
  BY <1>1, <1>2, <1>3, <1>4 DEF Inv

LEMMA AskKeeps ==
    ASSUME Inv, UNCHANGED <<state, worm, job, github, control, applied>>,
           NEW r, sent' = sent \cup {r}, SentOK(r), r.op # "completed"
    PROVE  Inv'
<1>1. \A k \in Runs : ControlOK(k)'
  BY DEF Inv, ControlOK, Fresh, Held, GuardOf
<1>2. \A q \in sent' : SentOK(q)
  BY DEF Inv
<1> QED
  BY <1>1, <1>2, ClientKeeps DEF Inv

LEMMA AskedKeeps ==
    ASSUME Inv, Client
    PROVE  Inv'
<1>1. UNCHANGED <<state, worm, job, github, control, applied>>
  BY DEF Client, AskPublish, AskAccept, Decide, AskRepair, storage, clients
<1>2. \E r : sent' = sent \cup {r} /\ SentOK(r) /\ r.op # "completed"
  <2>1. ASSUME NEW c \in Candidates, AskPublish(c)
        PROVE  \E r : sent' = sent \cup {r} /\ SentOK(r) /\ r.op # "completed"
    BY <2>1 DEF AskPublish, Ask, SentOK
  <2>2. ASSUME NEW c \in Candidates, AskAccept(c)
        PROVE  \E r : sent' = sent \cup {r} /\ SentOK(r) /\ r.op # "completed"
    BY <2>2 DEF AskAccept, Ask, SentOK
  <2>3. ASSUME NEW x \in Watchdogs, Decide(x)
        PROVE  \E r : sent' = sent \cup {r} /\ SentOK(r) /\ r.op # "completed"
    BY <2>3 DEF Decide, Ask, SentOK
  <2>4. ASSUME NEW m \in Reviewers, AskRepair(m)
        PROVE  \E r : sent' = sent \cup {r} /\ SentOK(r) /\ r.op # "completed"
    BY <2>4 DEF AskRepair, Ask, SentOK
  <2> QED
    BY <2>1, <2>2, <2>3, <2>4 DEF Client
<1> QED
  BY <1>1, <1>2, AskKeeps

LEMMA ControlKeeps ==
    ASSUME Inv, NEW k \in Runs, Control(k)
    PROVE  Inv'
<1>1. UNCHANGED <<state, worm, job, github, applied>> /\ control[k].pc # "none"
  BY DEF Control, Observe, AskAuthorize, Authorized, Deploy, AskCompleted, Stop, storage
<1>2. PICK pc, doc : control' = [control EXCEPT ![k] = [pc |-> pc, doc |-> doc]]
  BY DEF Control, Observe, AskAuthorize, Authorized, Deploy, AskCompleted, Stop, Move
<1>3. /\ DOMAIN control' = Runs /\ control'[k] = [pc |-> pc, doc |-> doc]
      /\ \A q \in Runs : q # k => control'[q] = control[q]
  BY <1>2 DEF Inv
<1>4. /\ sent \subseteq sent' /\ \A r \in sent' : SentOK(r)
      /\ \A r \in sent' : r \in sent \/ (r.op = "completed" => r.run = k)
  <2>1. sent' = sent \/ \E r : sent' = sent \cup {r} /\ SentOK(r)
                               /\ (r.op = "completed" => r.run = k)
    <3>1. CASE Observe(k)
      BY <3>1 DEF Observe, Ask, SentOK
    <3>2. CASE AskAuthorize(k)
      BY <3>2 DEF AskAuthorize, Ask, SentOK
    <3>3. CASE Authorized(k)
      BY <3>3 DEF Authorized
    <3>4. CASE Deploy(k)
      BY <3>4 DEF Deploy
    <3>5. CASE AskCompleted(k)
      BY <3>5 DEF AskCompleted, Ask, SentOK
    <3>6. CASE Stop(k)
      BY <3>6 DEF Stop
    <3> QED
      BY <3>1, <3>2, <3>3, <3>4, <3>5, <3>6 DEF Control
  <2> QED
    BY <2>1 DEF Inv
<1>5. ASSUME NEW q \in Runs, q # k PROVE ControlOK(q)'
  <2>1. ControlOK(q) /\ control'[q] = control[q]
    BY <1>3, <1>5 DEF Inv
  <2> QED
    BY <1>1, <1>4, <1>5, <2>1 DEF ControlOK, Fresh, Held, GuardOf
<1>6. ControlOK(k)'
  <2>1. ControlOK(k) /\ DOMAIN control'[k] = {"pc", "doc"}
        /\ control'[k].pc = pc /\ control'[k].doc = doc
    BY <1>3 DEF Inv
  <2>2. CASE Observe(k) \/ AskAuthorize(k)
    <3>1. /\ control[k].pc \in {"start", "observed"} /\ pc \in {"observed", "authorize"}
          /\ \A r \in sent' : r \in sent \/ r.op # "completed"
      BY <1>3, <2>1, <2>2 DEF Observe, AskAuthorize, Move, Ask, Inv
    <3> QED
      BY <2>1, <3>1 DEF ControlOK
  <2>3. CASE Authorized(k)
    <3>1. /\ control[k].pc = "authorize" /\ pc = "deploy" /\ doc = state.doc
          /\ Fresh(k, "authorized") /\ sent' = sent
      BY <1>3, <2>1, <2>3 DEF Authorized, Move, Inv
    <3> QED
      BY <1>1, <2>1, <3>1 DEF ControlOK, Fresh, Held, GuardOf
  <2>4. CASE Deploy(k)
    <3>1. control[k].pc = "deploy" /\ pc = "verify" /\ doc = control[k].doc /\ sent' = sent
      BY <1>3, <2>1, <2>4 DEF Deploy, Move, Inv
    <3> QED
      BY <1>1, <2>1, <3>1 DEF ControlOK, Fresh, Held, GuardOf
  <2>5. CASE AskCompleted(k) \/ Stop(k)
    <3>1. control'[k].pc \in {"done", "stopped"}
      <4>1. CASE AskCompleted(k)
        BY <4>1 DEF AskCompleted, Move, Inv
      <4>2. CASE Stop(k)
        BY <4>2 DEF Stop, Move, Inv
      <4> QED
        BY <2>5, <4>1, <4>2
    <3> QED
      BY <2>1, <3>1 DEF ControlOK
  <2> QED
    BY <2>2, <2>3, <2>4, <2>5 DEF Control
<1>7. \A q \in Runs : ControlOK(q)'
  BY <1>5, <1>6
<1>8. \A q \in Runs : control'[q] = control[q] \/ control[q].pc # "none"
  BY <1>1, <1>3
<1> QED
  BY <1>1, <1>3, <1>4, <1>7, <1>8, ClientKeeps

LEMMA NextKeeps ==
    ASSUME Inv, [Next]_vars
    PROVE  Inv'
<1>1. CASE Client
  BY <1>1, AskedKeeps
<1>2. ASSUME NEW h \in Handlers, NEW r \in sent, Take(h, r) PROVE Inv'
  BY <1>2, TakeKeeps
<1>3. ASSUME NEW h \in Handlers, Look(h) PROVE Inv'
  BY <1>3, LookKeeps
<1>4. ASSUME NEW h \in Handlers, Commit(h) PROVE Inv'
  <2>1. CASE Fail(h)
    BY <2>1, RestKeeps DEF Fail, storage, clients
  <2> QED
    BY <1>4, <2>1, AuthorizeKeeps, WriteKeeps, SwapKeeps, DispatchKeeps, SettleKeeps DEF Commit
<1>5. ASSUME NEW h \in Handlers, Crash(h) PROVE Inv'
  BY <1>5, RestKeeps DEF Crash, storage, clients
<1>6. ASSUME NEW k \in Runs, Control(k) PROVE Inv'
  BY <1>6, ControlKeeps
<1>7. CASE Deadline \/ Lapse \/ Age \/ UNCHANGED vars
  <2>1. UNCHANGED <<state, worm, sent, job, github, control, applied>>
    BY <1>7 DEF Deadline, Lapse, Age, vars, storage, clients
  <2> QED
    BY <2>1, ClientKeeps DEF Inv, SentOK, ControlOK, Fresh, Held, GuardOf
<1> QED
  BY <1>1, <1>2, <1>3, <1>4, <1>5, <1>6, <1>7 DEF Next

-----------------------------------------------------------------------------
(* A candidate is rolled back at most once and never after it was accepted *)
(* (dispatch_rollback): however many watchdog runs claim, release and      *)
(* retry, whichever processes die, and whatever GitHub answers.            *)
THEOREM RollbackSafe ==
    ASSUME Instants # {}
    PROVE  Spec => []RollbackOnce
<1>1. Inv /\ [Next]_vars => Inv'
  BY NextKeeps
<1>2. Inv => RollbackOnce
  <2> SUFFICES ASSUME Inv PROVE RollbackOnce
    OBVIOUS
  <2>1. DispatchOnce
    BY DEF Inv, OneToken
  <2>2. AcceptedOrRolledBack
    BY DEF Inv, GithubOK, TokenOK, Token, Accepted, AcceptedOrRolledBack
  <2> QED
    BY <2>1, <2>2 DEF RollbackOnce
<1>3. Init => Inv
  BY InitInv
<1> QED
  BY <1>1, <1>2, <1>3, PTL DEF Spec

(* The authorized run has the state to itself until it reports, and the    *)
(* state tells what its last receipt says (_replace_state).                *)
THEOREM ToldSafe ==
    ASSUME Instants # {}
    PROVE  Spec => []RollbackTold
<1>1. Inv /\ [Next]_vars => Inv'
  BY NextKeeps
<1>2. Inv => RollbackTold
  <2> SUFFICES ASSUME Inv PROVE RollbackTold
    OBVIOUS
  <2>1. ControlOwns
    BY DEF Inv, ControlOK, ControlOwns
  <2>2. EvidenceFirst
    BY DEF Inv, StateOK, Tells, Named, Kept, Transition, Written, GuardOf, EvidenceFirst
  <2> QED
    BY <2>1, <2>2 DEF RollbackTold
<1>3. Init => Inv
  BY InitInv
<1> QED
  BY <1>1, <1>2, <1>3, PTL DEF Spec

-----------------------------------------------------------------------------
(* Types, and what a receipt that took effect leaves behind                *)

(* The claim of a guard and the run it names follow its status; a claim is *)
(* numbered by a document no younger than the one it is in.                *)
SoundGuard(g, n) ==
    /\ g \in Guard
    /\ g.status # "available" => g.claim \in Claim
    /\ g.claim # None => g.claim[2] <= n
    /\ g.status \in {"available", "claimed"} => g.run = None

Sound(d) == d \in Doc /\ (d.pending # None => SoundGuard(d.pending.guard, d.stamp[1]))

(* From d to e under receipt p: a claim is new, gone, or kept with its run. *)
Passes(p, d, e) ==
    /\ Sound(d) /\ Sound(e)
    /\ e.pending # None =>
           \/ e.pending.guard.claim = None
           \/ p[1] = "decision" /\ e.pending.guard.claim = <<p[2], e.stamp[1]>>
           \/ /\ d.pending # None /\ e.pending.guard.claim = d.pending.guard.claim
              /\ d.pending.guard.run # None => e.pending.guard.run # None
              /\ e.pending.guard.status # "claimed"

Stepping == {"authorize", "write", "swap"}
Sending  == {"dispatch", "outcome", "settle"}

JobTyped(h) ==
    /\ job[h].req \in Request \cup {None}
    /\ job[h].pc \in Stepping \cup Sending =>
           job[h].path \in Path /\ job[h].body \in Body /\ job[h].next \in Doc

(* Request r, answered from document d by body b under path p and by the   *)
(* new document e.                                                         *)
Fits(r, d, p, b, e) ==
    /\ Passes(p, d, e)
    /\ p[1] = "decision" => b.seen = d
    /\ p[1] = "attempt" => /\ b.claim = d.pending.guard.claim
                           /\ e.pending.guard.run = None
    /\ p[1] = "outcome" => /\ d.pending # None
                           /\ b.claim = d.pending.guard.claim
                           /\ d.pending.guard.run = None
                           /\ e.pending.guard.run # None
    /\ r.op = "claim" => e.pending # None /\ e.pending.guard.claim \in Claim

(* What a process holds fits the document it looked at.                    *)
WorkOK(h) ==
    LET j == job[h] IN
    /\ j.pc \in {"look"} \cup Stepping =>
           Sound(j.snap.doc) /\ j.snap.last \in Path \cup {None}
    /\ j.pc \in Stepping => Fits(j.req, j.snap.doc, j.path, j.body, j.next)
    /\ j.pc = "authorize" => /\ j.req.run \in Runs /\ j.snap.doc.pending # None
                             /\ j.snap.doc.pending.guard.claim \in Claim
    /\ j.pc \in Sending => /\ Sound(j.next) /\ j.next.stamp[1] <= state.etag
                           /\ j.next.pending.guard.run = None
    /\ j.pc \in {"outcome", "settle"} => j.body.claim = j.next.pending.guard.claim

PaperOK(p) ==
    /\ p[1] \in Kept => Passes(p, worm[p].prev, worm[p].next)
    /\ p[1] = "decision" => worm[p].seen \in Doc
    /\ p[1] \in {"attempt", "outcome"} =>
           worm[p].claim \in Claim /\ worm[p].claim[2] <= state.etag

(* A receipt that took effect belongs to the past: the state it was made   *)
(* for does not come back.                                                 *)
PassedOK(p) ==
    /\ Written(p) /\ p[1] \in Named
    /\ p[1] \in Kept => worm[p].next.stamp[1] <= state.etag
    /\ p[1] = "decision" => worm[p].seen.stamp[1] < state.etag
    /\ (p[1] = "attempt" /\ state.doc.pending # None
          /\ state.doc.pending.guard.status = "claimed")
       => state.doc.pending.guard.claim # worm[p].claim
    /\ (p[1] = "outcome" /\ state.doc.pending # None
          /\ state.doc.pending.guard.claim = worm[p].claim)
       => state.doc.pending.guard.run # None

Typed == /\ TypeOK /\ Sound(state.doc)
         /\ \A h \in Handlers : WorkOK(h)
         /\ \A p \in DOMAIN worm : PaperOK(p)
         /\ \A p \in applied : PassedOK(p)

(* Every field a request has.                                              *)
LEMMA RequestType ==
    ASSUME NEW r \in Request
    PROVE  /\ r.op \in Transition \cup {"claim", "dispatch", "release", "repair"}
           /\ r.op \in {"publish", "accept"} => r.run \in Candidates /\ r.expect \in Doc
           /\ r.op \in {"observed", "authorize", "completed"} =>
                  r.run \in Runs /\ r.expect \in Doc
           /\ r.op = "claim" => r.run \in Watchdogs /\ r.expect \in Doc
           /\ r.op = "dispatch" => r.run \in Watchdogs /\ r.claim \in Claim
           /\ r.op = "release" => r.run \in Watchdogs /\ r.claim \in Claim
           /\ r.op = "repair" => r.run \in Reviewers /\ r.claim \in Claim
BY DEF Request, Transition

(* The number of a document, and the claim in its guard.                   *)
LEMMA SoundType ==
    ASSUME NEW d, Sound(d)
    PROVE  /\ d \in Doc /\ d.stamp[1] \in Nat
           /\ d.pending # None =>
                  /\ d.pending \in Pending /\ d.pending.guard \in Guard
                  /\ d.pending.guard.claim \in Claim \cup {None}
                  /\ d.pending.guard.gen \in Nat \ {0}
                  /\ d.pending.guard.status # "available" =>
                         /\ d.pending.guard.claim \in Claim
                         /\ d.pending.guard.claim # None
                         /\ d.pending.guard.claim[2] <= d.stamp[1]
                  /\ d.pending.guard.status \in {"available", "claimed"} =>
                         d.pending.guard.run = None
<1>1. d \in Doc /\ d.stamp[1] \in Nat
  BY DEF Sound, Doc, Stamps
<1>2. ASSUME d.pending # None
      PROVE  d.pending \in Pending /\ SoundGuard(d.pending.guard, d.stamp[1])
  BY <1>1, <1>2 DEF Sound, Doc
<1>3. ASSUME d.pending # None
      PROVE  d.pending.guard.claim \in Claim \cup {None} /\ d.pending.guard.gen \in Nat \ {0}
             /\ d.pending.guard \in Guard
  BY <1>2, <1>3 DEF SoundGuard, Guard
<1>4. None \notin Claim
  BY WatchdogOK
<1> QED
  BY <1>1, <1>2, <1>3, <1>4 DEF SoundGuard

(* A document with a new guard.                                            *)
LEMMA SoundGuarded ==
    ASSUME NEW s, SnapOK(s), Held(s), NEW g, SoundGuard(g, s.etag + 1), NEW at \in Instants
    PROVE  /\ Sound(Guarded(s, g, at)) /\ Guarded(s, g, at).pending # None
           /\ Guarded(s, g, at).pending.guard = g
           /\ Guarded(s, g, at).stamp[1] = s.etag + 1
<1>1. g \in Guard /\ s.doc.stamp[1] = s.etag
  BY DEF SoundGuard, SnapOK
<1>2. /\ Guarded(s, g, at) \in Doc /\ Guarded(s, g, at).pending # None
      /\ Guarded(s, g, at).pending.guard = g
      /\ Guarded(s, g, at).stamp[1] = s.etag + 1
  BY <1>1, GuardedPending
<1> QED
  BY <1>2 DEF Sound

(* A guard that keeps its claim, with another status or run.               *)
LEMMA GuardKeeps ==
    ASSUME NEW s, SnapOK(s), Held(s), Sound(s.doc), GuardOf(s).status # "available"
    PROVE  /\ \A st \in Status \ {"available", "claimed"} :
                  /\ SoundGuard([GuardOf(s) EXCEPT !.status = st], s.etag + 1)
                  /\ [GuardOf(s) EXCEPT !.status = st].claim = GuardOf(s).claim
                  /\ [GuardOf(s) EXCEPT !.status = st].run = GuardOf(s).run
           /\ \A k \in Runs : GuardOf(s).status # "claimed" =>
                  /\ SoundGuard([GuardOf(s) EXCEPT !.run = k], s.etag + 1)
                  /\ [GuardOf(s) EXCEPT !.run = k].claim = GuardOf(s).claim
                  /\ [GuardOf(s) EXCEPT !.run = k].run = k /\ k # None
<1>1. /\ GuardOf(s) \in Guard /\ GuardOf(s).claim \in Claim /\ GuardOf(s).claim[2] <= s.etag
      /\ s.etag \in Nat
  BY SoundType DEF GuardOf, Held, SnapOK
<1>2. None \notin Runs /\ \A c \in Claim : c[2] \in Nat
  BY WatchdogOK DEF Claim
<1> HIDE DEF GuardOf
<1>3. ASSUME NEW st \in Status \ {"available", "claimed"}
      PROVE  /\ SoundGuard([GuardOf(s) EXCEPT !.status = st], s.etag + 1)
             /\ [GuardOf(s) EXCEPT !.status = st].claim = GuardOf(s).claim
             /\ [GuardOf(s) EXCEPT !.status = st].run = GuardOf(s).run
  <2> DEFINE g == [GuardOf(s) EXCEPT !.status = st]
  <2>1. /\ g \in Guard /\ g.status = st /\ g.claim = GuardOf(s).claim
        /\ g.run = GuardOf(s).run
    BY <1>1 DEF Guard
  <2> HIDE DEF g
  <2>2. SoundGuard(g, s.etag + 1)
    BY <1>1, <1>2, <2>1 DEF SoundGuard
  <2> QED
    BY <2>1, <2>2 DEF g
<1>4. ASSUME NEW k \in Runs, GuardOf(s).status # "claimed"
      PROVE  /\ SoundGuard([GuardOf(s) EXCEPT !.run = k], s.etag + 1)
             /\ [GuardOf(s) EXCEPT !.run = k].claim = GuardOf(s).claim
             /\ [GuardOf(s) EXCEPT !.run = k].run = k
  <2> DEFINE g == [GuardOf(s) EXCEPT !.run = k]
  <2>1. /\ g \in Guard /\ g.status = GuardOf(s).status /\ g.claim = GuardOf(s).claim
        /\ g.run = k
    BY <1>1 DEF Guard
  <2> HIDE DEF g
  <2>2. SoundGuard(g, s.etag + 1)
    BY <1>1, <1>2, <1>4, <2>1 DEF SoundGuard
  <2> QED
    BY <2>1, <2>2 DEF g
<1> QED
  BY <1>2, <1>3, <1>4

(* Only what one process holds changes.                                    *)
LEMMA JobTypes ==
    ASSUME Typed, NEW h \in Handlers,
           \A i \in Handlers : i # h => job'[i] = job[i],
           UNCHANGED <<storage, sent, clients, time, applied>>,
           JobTyped(h)', WorkOK(h)'
    PROVE  Typed'
<1> USE DEF storage, clients, time
<1>1. ASSUME NEW i \in Handlers PROVE JobTyped(i)' /\ WorkOK(i)'
  <2>1. CASE i = h
    BY <2>1
  <2>2. CASE i # h
    <3>1. JobTyped(i) /\ WorkOK(i) /\ job'[i] = job[i] /\ state' = state
      BY <2>2 DEF Typed, TypeOK, JobTyped, Stepping, Sending
    <3> QED
      BY <3>1 DEF JobTyped, WorkOK
  <2> QED
    BY <2>1, <2>2
<1>2. TypeOK'
  BY <1>1 DEF Typed, TypeOK, JobTyped, Stepping, Sending
<1>3. Sound(state.doc)' /\ (\A p \in DOMAIN worm' : PaperOK(p)')
      /\ (\A p \in applied' : PassedOK(p)')
  BY DEF Typed, PaperOK, PassedOK, Written
<1> QED
  BY <1>1, <1>2, <1>3 DEF Typed

LEMMA RestTypes ==
    ASSUME Inv, Typed, NEW h \in Handlers, job' = [job EXCEPT ![h] = Rest],
           UNCHANGED <<storage, sent, clients, time, applied>>
    PROVE  Typed'
<1>1. job'[h] = Rest /\ \A i \in Handlers : i # h => job'[i] = job[i]
  BY DEF Inv
<1>2. JobTyped(h)' /\ WorkOK(h)'
  BY <1>1 DEF JobTyped, WorkOK, Rest, Stepping, Sending
<1> QED
  BY <1>1, <1>2, JobTypes

LEMMA TakeTypes ==
    ASSUME Inv, Typed, NEW h \in Handlers, NEW r \in sent, Take(h, r)
    PROVE  Typed'
<1> DEFINE j == [Rest EXCEPT !.pc = "look", !.req = r, !.snap = state]
<1>1. job' = [job EXCEPT ![h] = j] /\ UNCHANGED <<storage, sent, clients, time, applied>>
  BY DEF Take
<1>2. j.pc = "look" /\ j.req = r /\ j.snap = state
  BY DEF Rest
<1> HIDE DEF j
<1>3. job'[h] = j /\ \A i \in Handlers : i # h => job'[i] = job[i]
  BY <1>1 DEF Inv
<1>4. r \in Request /\ state.last \in Path \cup {None} /\ Sound(state.doc)
  BY DEF Typed, TypeOK
<1>5. JobTyped(h)' /\ WorkOK(h)'
  BY <1>2, <1>3, <1>4 DEF JobTyped, WorkOK, Stepping, Sending
<1> QED
  BY <1>1, <1>3, <1>5, JobTypes

(* A process goes on with a receipt that fits what it looked at.           *)
LEMMA GoTypes ==
    ASSUME Inv, Typed, NEW h \in Handlers, NEW pc \in Stepping,
           NEW path \in Path, NEW body \in Body, NEW next, Go(h, pc, path, body, next),
           UNCHANGED <<storage, sent, clients, time, applied>>,
           job[h].pc = "look", Fits(job[h].req, job[h].snap.doc, path, body, next),
           pc = "authorize" =>
               /\ job[h].req.run \in Runs /\ Held(job[h].snap)
               /\ GuardOf(job[h].snap).claim \in Claim
    PROVE  Typed'
<1> DEFINE j == [job[h] EXCEPT !.pc = pc, !.path = path, !.body = body, !.next = next]
<1>1. JobOK(h) /\ WorkOK(h) /\ DOMAIN job = Handlers /\ job[h].req \in Request \cup {None}
  BY DEF Inv, Typed, TypeOK
<1>2. /\ j.pc = pc /\ j.path = path /\ j.body = body /\ j.next = next
      /\ j.req = job[h].req /\ j.snap = job[h].snap
  BY <1>1 DEF JobOK
<1>3. job' = [job EXCEPT ![h] = j]
  BY DEF Go
<1> HIDE DEF j
<1>4. job'[h] = j /\ \A i \in Handlers : i # h => job'[i] = job[i]
  BY <1>1, <1>3
<1>5. next \in Doc
  BY DEF Fits, Passes, Sound
<1>6. JobTyped(h)'
  BY <1>1, <1>2, <1>4, <1>5 DEF JobTyped
<1>7. WorkOK(h)'
  BY <1>1, <1>2, <1>4 DEF WorkOK, Stepping, Sending, Held, GuardOf
<1> QED
  BY <1>4, <1>6, <1>7, JobTypes

(* What a process that looks may rely on.                                  *)
LEMMA LookTypes ==
    ASSUME Inv, Typed, NEW h \in Handlers, job[h].pc = "look"
    PROVE  /\ SnapOK(job[h].snap) /\ Sound(job[h].snap.doc) /\ job[h].req \in Request
           /\ job[h].snap.last \in Path \cup {None}
BY LookKnows DEF Typed, TypeOK, WorkOK

LEMMA TransitTypes ==
    ASSUME Inv, Typed, NEW h \in Handlers, NEW at \in Instants, Transit(h, at)
    PROVE  Typed'
<1> DEFINE r == job[h].req
           s == job[h].snap
           next == After(s, r, at)
           path == <<r.op, r.run>>
           body == [req |-> r, prev |-> r.expect, next |-> next]
           pc == IF r.op = "authorize" THEN "authorize" ELSE "write"
<1>1. /\ job[h].pc = "look" /\ r.op \in Transition /\ s.doc = r.expect /\ Allowed(r)
      /\ Go(h, pc, path, body, next)
      /\ UNCHANGED <<storage, sent, clients, time, applied>>
  BY DEF Transit, Transits, Looks
<1>2. SnapOK(s) /\ Sound(s.doc) /\ r \in Request
  BY <1>1, LookTypes
<1> HIDE DEF s, r
<1>3. Passes(path, s.doc, next) /\ (r.op = "authorize" => Held(s) /\ GuardOf(s).claim \in Claim)
  <2>1. CASE r.op = "publish"
    <3> DEFINE p == [cand |-> r.run, guard |-> Available(1)]
    <3>1. next = Pend(s, p, at)
      BY <2>1 DEF After
    <3>2. p.guard = Available(1) /\ SoundGuard(Available(1), s.etag + 1)
          /\ Available(1).claim = None
      BY DEF Available, SoundGuard, Guard, Status
    <3>3. p \in Pending
      BY <1>2, <2>1, <3>2, RequestType DEF Pending, SoundGuard
    <3> HIDE DEF p
    <3>4. /\ Pend(s, p, at) \in Doc /\ Pend(s, p, at).pending = p
          /\ Pend(s, p, at).stamp[1] = s.etag + 1
      BY <1>2, <3>3, PendType DEF SnapOK
    <3> QED
      BY <1>2, <2>1, <3>1, <3>2, <3>4 DEF Passes, Sound
  <2>2. CASE r.op \in {"accept", "completed"}
    <3> DEFINE e == Pend(s, None, at)
    <3>1. e \in Doc /\ e.pending = None
      BY <1>2, PendType DEF SnapOK
    <3>2. next = e \/ (next = [e EXCEPT !.baseline = r.run] /\ r.run \in Candidates)
      BY <1>2, <2>2, RequestType DEF After
    <3> HIDE DEF e, next
    <3>3. next \in Doc /\ next.pending = None
      BY <3>1, <3>2 DEF Doc
    <3> QED
      BY <1>2, <2>2, <3>3 DEF Passes, Sound
  <2>3. CASE r.op \in {"observed", "authorize"}
    <3>1. Held(s) /\ GuardOf(s).status \in {"dispatching", "requested"}
      BY <1>1, <2>3 DEF Allowed, Rollbackable, Required, Held, GuardOf
    <3>2. PICK st \in {"requested", "authorized"} :
              next = Guarded(s, [GuardOf(s) EXCEPT !.status = st], at)
      BY <2>3 DEF After
    <3> DEFINE g == [GuardOf(s) EXCEPT !.status = st]
    <3>3. SoundGuard(g, s.etag + 1) /\ g.claim = GuardOf(s).claim /\ g.run = GuardOf(s).run
      BY <1>2, <3>1, GuardKeeps DEF Status
    <3>4. g.status = st
      BY <1>2, <3>1, GuardType DEF Status
    <3>5. next = Guarded(s, g, at)
      BY <3>2
    <3> HIDE DEF g, next
    <3>6. Sound(next) /\ next.pending # None /\ next.pending.guard = g
      BY <1>2, <3>1, <3>3, <3>5, SoundGuarded
    <3>7. GuardOf(s).claim \in Claim
      BY <1>2, <3>1, SoundType DEF GuardOf, Held
    <3> QED
      BY <1>2, <3>1, <3>3, <3>4, <3>6, <3>7 DEF Passes, Held, GuardOf
  <2> QED
    BY <1>1, <2>1, <2>2, <2>3 DEF Transition
<1>4. path \in Path /\ r.expect \in Doc /\ (r.op = "authorize" => r.run \in Runs)
  BY <1>1, <1>2, RequestType DEF Path, Transition
<1>5. next \in Doc
  BY <1>3 DEF Passes, Sound
<1>6. body \in Body
  BY <1>2, <1>4, <1>5 DEF Body
<1>7. path[1] \notin {"decision", "attempt", "outcome"} /\ r.op # "claim"
  BY <1>1 DEF Transition
<1> HIDE DEF path, body, next
<1>8. Fits(r, s.doc, path, body, next)
  BY <1>3, <1>7 DEF Fits
<1>9. pc \in Stepping /\ (pc = "authorize" => r.op = "authorize")
  BY DEF Stepping
<1> HIDE DEF pc
<1> QED
  BY <1>1, <1>3, <1>4, <1>6, <1>8, <1>9, GoTypes DEF r, s

(* A receipt found in the store is replayed.                               *)
LEMMA FoundTypes ==
    ASSUME Inv, Typed, NEW h \in Handlers, Replay(h) \/ Recover(h)
    PROVE  Typed'
<1>1. PICK path \in DOMAIN worm :
          /\ path[1] \in Kept /\ path[1] = job[h].req.op
          /\ worm[path].prev = job[h].snap.doc
          /\ Go(h, "swap", path, worm[path], worm[path].next)
          /\ job[h].pc = "look" /\ job[h].req.op # "claim"
          /\ UNCHANGED <<storage, sent, clients, time, applied>>
  BY DEF Replay, Replays, Recover, Recovers, Looks, Written, Kept, Transition
<1>2. path \in Path /\ worm[path] \in Body
      /\ Passes(path, worm[path].prev, worm[path].next)
  BY <1>1 DEF Typed, TypeOK, PaperOK
<1>3. Fits(job[h].req, job[h].snap.doc, path, worm[path], worm[path].next)
  BY <1>1, <1>2 DEF Fits, Kept, Transition
<1> QED
  BY <1>1, <1>2, <1>3, GoTypes DEF Stepping

LEMMA ClaimTypes ==
    ASSUME Inv, Typed, NEW h \in Handlers, NEW at \in Instants, ClaimRollback(h, at)
    PROVE  Typed'
<1> DEFINE s == job[h].snap
           r == job[h].req
           g == [GuardOf(s) EXCEPT !.status = "claimed", !.claim = <<r.run, s.etag + 1>>]
           body == [seen |-> r.expect]
           path == <<"decision", r.run>>
           next == Guarded(s, g, at)
<1>1. /\ job[h].pc = "look" /\ r.op = "claim"
      /\ Held(s) /\ GuardOf(s).status = "available" /\ s.doc = r.expect
      /\ Go(h, "write", path, body, next)
      /\ UNCHANGED <<storage, sent, clients, time, applied>>
  BY DEF ClaimRollback, Claims, Looks
<1>2. SnapOK(s) /\ Sound(s.doc) /\ r \in Request
  BY <1>1, LookTypes
<1> HIDE DEF s, r
<1>3. r.run \in Watchdogs /\ r.expect \in Doc /\ s.etag \in Nat
  BY <1>1, <1>2, RequestType DEF SnapOK
<1>4. GuardOf(s) \in Guard /\ GuardOf(s).run = None /\ <<r.run, s.etag + 1>> \in Claim
  BY <1>1, <1>2, <1>3, SoundType DEF Claim, Held, GuardOf
<1> HIDE DEF GuardOf
<1>5. /\ g \in Guard /\ g.claim = <<r.run, s.etag + 1>> /\ g.run = None
      /\ g.status = "claimed"
  BY <1>4 DEF Guard, Status
<1> HIDE DEF g
<1>6. SoundGuard(g, s.etag + 1)
  BY <1>3, <1>4, <1>5 DEF SoundGuard
<1>7. /\ Sound(next) /\ next.pending # None /\ next.pending.guard = g
      /\ next.stamp[1] = s.etag + 1
  BY <1>1, <1>2, <1>6, SoundGuarded
<1>8. path \in Path /\ body \in Body /\ body.seen = s.doc
      /\ path[1] = "decision" /\ path[2] = r.run
  BY <1>1, <1>3 DEF Path, Body
<1> HIDE DEF path, body, next
<1>9. Fits(r, s.doc, path, body, next)
  BY <1>2, <1>4, <1>5, <1>7, <1>8 DEF Fits, Passes
<1> QED
  BY <1>1, <1>8, <1>9, GoTypes DEF s, r, Stepping

LEMMA RebindTypes ==
    ASSUME Inv, Typed, NEW h \in Handlers, NEW at \in Instants, Rebind(h, at)
    PROVE  Typed'
<1> DEFINE s == job[h].snap
           r == job[h].req
           path == <<"outcome", r.run>>
           g == [GuardOf(s) EXCEPT !.run = worm[path].run]
           next == Guarded(s, g, at)
<1>1. /\ job[h].pc = "look" /\ r.op = "dispatch"
      /\ Held(s) /\ GuardOf(s).status = "dispatching" /\ GuardOf(s).run = None
      /\ path \in DOMAIN worm /\ worm[path].claim = GuardOf(s).claim
      /\ Go(h, "swap", path, worm[path], next)
      /\ UNCHANGED <<storage, sent, clients, time, applied>>
  BY DEF Rebind, Rebinds, Looks, Written
<1>2. /\ SnapOK(s) /\ Sound(s.doc) /\ worm[path].run \in Runs
      /\ path \in Path /\ worm[path] \in Body /\ path[1] = "outcome"
  BY <1>1, LookTypes DEF Inv, FiledOK, Typed, TypeOK
<1> HIDE DEF s, r, path
<1>3. /\ SoundGuard(g, s.etag + 1) /\ g.claim = GuardOf(s).claim
      /\ g.run = worm[path].run /\ g.run # None
  BY <1>1, <1>2, GuardKeeps
<1>4. g.status = "dispatching"
  BY <1>1, <1>2, GuardType
<1> HIDE DEF g
<1>5. Sound(next) /\ next.pending # None /\ next.pending.guard = g
  BY <1>1, <1>2, <1>3, SoundGuarded
<1> HIDE DEF next
<1>6. Fits(r, s.doc, path, worm[path], next)
  BY <1>1, <1>2, <1>3, <1>4, <1>5 DEF Fits, Passes, Held, GuardOf
<1> QED
  BY <1>1, <1>2, <1>6, GoTypes DEF s, r, Stepping

LEMMA ArmTypes ==
    ASSUME Inv, Typed, NEW h \in Handlers, NEW at \in Instants, Arm(h, at)
    PROVE  Typed'
<1> DEFINE s == job[h].snap
           r == job[h].req
           path == <<"attempt", r.run>>
           body == [claim |-> GuardOf(s).claim, gen |-> GuardOf(s).gen, at |-> at]
           g == [GuardOf(s) EXCEPT !.status = "dispatching"]
           next == Guarded(s, g, at)
<1>1. /\ job[h].pc = "look" /\ r.op = "dispatch"
      /\ Held(s) /\ GuardOf(s).status = "claimed"
      /\ Go(h, "write", path, body, next)
      /\ UNCHANGED <<storage, sent, clients, time, applied>>
  BY DEF Arm, Arms, Looks
<1>2. SnapOK(s) /\ Sound(s.doc) /\ r \in Request
  BY <1>1, LookTypes
<1> HIDE DEF s, r
<1>3. r.run \in Watchdogs
  BY <1>1, <1>2, RequestType
<1>4. /\ GuardOf(s).claim \in Claim /\ GuardOf(s).gen \in Nat \ {0}
      /\ GuardOf(s).run = None
  BY <1>1, <1>2, SoundType DEF Held, GuardOf
<1>5. /\ path \in Path /\ body \in Body /\ path[1] = "attempt"
      /\ body.claim = GuardOf(s).claim
  BY <1>3, <1>4 DEF Path, Body
<1>6. SoundGuard(g, s.etag + 1) /\ g.claim = GuardOf(s).claim /\ g.run = None
  BY <1>1, <1>2, <1>4, GuardKeeps DEF Status
<1>7. g.status = "dispatching"
  BY <1>1, <1>2, GuardType DEF Status
<1> HIDE DEF g
<1>8. Sound(next) /\ next.pending # None /\ next.pending.guard = g
  BY <1>1, <1>2, <1>6, SoundGuarded
<1> HIDE DEF next, path, body
<1>9. Fits(r, s.doc, path, body, next)
  BY <1>1, <1>2, <1>4, <1>5, <1>6, <1>7, <1>8 DEF Fits, Passes, Held, GuardOf
<1> QED
  BY <1>1, <1>5, <1>9, GoTypes DEF s, r, Stepping

LEMMA ReconcileTypes ==
    ASSUME Inv, Typed, NEW h \in Handlers, NEW at \in Instants, Reconcile(h, at)
    PROVE  Typed'
<1> DEFINE s == job[h].snap
           r == job[h].req
           next == Reconciled(s, r, at)
           path == <<r.op, r.claim>>
           body == [req |-> r, prev |-> s.doc, last |-> s.last, next |-> next]
<1>1. /\ job[h].pc = "look" /\ r.op \in {"release", "repair"} /\ Held(s)
      /\ IF r.op = "release" THEN Releasable(GuardOf(s), r.claim)
                             ELSE Repairable(GuardOf(s), r.claim)
      /\ Go(h, "write", path, body, next)
      /\ UNCHANGED <<storage, sent, clients, time, applied>>
  BY DEF Reconcile, Reconciles, Looks
<1>2. /\ SnapOK(s) /\ Sound(s.doc) /\ r \in Request /\ s.last \in Path \cup {None}
  BY <1>1, LookTypes
<1> HIDE DEF s, r
<1>3. r.claim \in Claim
  BY <1>1, <1>2, RequestType
<1>4. Passes(path, s.doc, next)
  <2>1. CASE r.op = "release"
    <3> DEFINE g == Available(GuardOf(s).gen + 1)
    <3>1. next = Guarded(s, g, at) /\ GuardOf(s).gen \in Nat \ {0}
      BY <1>1, <1>2, <2>1, SoundType DEF Reconciled, Held, GuardOf
    <3> HIDE DEF GuardOf
    <3>2. SoundGuard(g, s.etag + 1) /\ g.claim = None
      BY <3>1 DEF Available, SoundGuard, Guard, Status
    <3> HIDE DEF g, next
    <3>3. Sound(next) /\ next.pending.guard = g
      BY <1>1, <1>2, <3>1, <3>2, SoundGuarded
    <3> QED
      BY <1>2, <3>2, <3>3 DEF Passes
  <2>2. CASE r.op = "repair"
    <3> DEFINE out == <<"outcome", r.claim[1]>>
               g == [GuardOf(s) EXCEPT !.run = worm[out].run]
    <3>1. /\ next = Guarded(s, g, at) /\ GuardOf(s).status = "dispatching"
          /\ out \in DOMAIN worm /\ out[1] = "outcome"
      BY <1>1, <2>2 DEF Reconciled, Repairable, Written
    <3>2. worm[out].run \in Runs
      BY <3>1 DEF Inv, FiledOK
    <3> HIDE DEF out
    <3>3. /\ SoundGuard(g, s.etag + 1) /\ g.claim = GuardOf(s).claim /\ g.run # None
      BY <1>1, <1>2, <3>1, <3>2, GuardKeeps
    <3>4. g.status = "dispatching"
      BY <1>1, <1>2, <3>1, <3>2, GuardType
    <3> HIDE DEF g, next
    <3>5. Sound(next) /\ next.pending.guard = g
      BY <1>1, <1>2, <3>1, <3>3, SoundGuarded
    <3> QED
      BY <1>1, <1>2, <3>3, <3>4, <3>5 DEF Passes, Held, GuardOf
  <2> QED
    BY <1>1, <2>1, <2>2
<1>5. next \in Doc /\ s.doc \in Doc
  BY <1>4 DEF Passes, Sound
<1> HIDE DEF next
<1>6. path \in Path /\ path[1] = r.op
  BY <1>1, <1>3 DEF Path
<1>7. body \in Body
  BY <1>2, <1>5 DEF Body
<1> HIDE DEF path, body
<1>8. Fits(r, s.doc, path, body, next)
  BY <1>1, <1>4, <1>6 DEF Fits
<1> QED
  BY <1>1, <1>6, <1>7, <1>8, GoTypes DEF s, r, Stepping

LEMMA LookedTypes ==
    ASSUME Inv, Typed, NEW h \in Handlers, Look(h)
    PROVE  Typed'
<1>1. CASE End(h)
  BY <1>1, RestTypes DEF End
<1> QED
  BY <1>1, TransitTypes, ClaimTypes, RebindTypes, ArmTypes, ReconcileTypes,
     FoundTypes DEF Look

(* A receipt is added, and its writer moves on.                            *)
LEMMA WormTypes ==
    ASSUME Typed, NEW h \in Handlers, NEW path \in Path, NEW body \in Body,
           UNCHANGED <<state, sent, clients, time, applied>>,
           \/ worm' = worm
           \/ path \notin DOMAIN worm /\ Create(path, body) /\ PaperOK(path)',
           \A i \in Handlers : i # h => job'[i] = job[i],
           JobTyped(h)', WorkOK(h)'
    PROVE  Typed'
<1> USE DEF clients, time
<1>1. ASSUME NEW i \in Handlers PROVE JobTyped(i)' /\ WorkOK(i)'
  <2>1. CASE i = h
    BY <2>1
  <2>2. CASE i # h
    <3>1. JobTyped(i) /\ WorkOK(i) /\ job'[i] = job[i] /\ state' = state
      BY <2>2 DEF Typed, TypeOK, JobTyped, Stepping, Sending
    <3> QED
      BY <3>1 DEF JobTyped, WorkOK
  <2> QED
    BY <2>1, <2>2
<1>2. /\ \A p \in DOMAIN worm : p \in DOMAIN worm' /\ worm'[p] = worm[p]
      /\ \A p \in DOMAIN worm' \ DOMAIN worm : p = path /\ worm'[p] = body /\ PaperOK(p)'
  BY DEF Create
<1>3. DOMAIN worm' \subseteq Path /\ \A p \in DOMAIN worm' : worm'[p] \in Body
  BY <1>2 DEF Typed, TypeOK
<1>4. TypeOK'
  BY <1>1, <1>3 DEF Typed, TypeOK, JobTyped, Stepping, Sending
<1>5. Sound(state.doc)'
  BY DEF Typed
<1>6. ASSUME NEW p \in DOMAIN worm' PROVE PaperOK(p)'
  <2>1. CASE p \in DOMAIN worm
    BY <1>2, <2>1 DEF Typed, PaperOK
  <2> QED
    BY <1>2, <2>1
<1>7. \A p \in applied' : PassedOK(p)'
  BY <1>2 DEF Typed, PassedOK, Written
<1> QED
  BY <1>1, <1>4, <1>5, <1>6, <1>7 DEF Typed

LEMMA AuthorizeTypes ==
    ASSUME Inv, Typed, NEW h \in Handlers, Authorize(h)
    PROVE  Typed'
<1> DEFINE j == job[h]
           path == <<"authorization", j.req.run>>
           body == [claim |-> GuardOf(j.snap).claim]
<1>1. /\ j.pc = "authorize"
      /\ UNCHANGED <<state, sent, clients, time, applied>>
      /\ job' = [job EXCEPT ![h].pc = "write"]
      /\ worm' = worm \/ (path \notin DOMAIN worm /\ Create(path, body))
  BY DEF Authorize, Written
<1>2. JobOK(h) /\ WorkOK(h) /\ JobTyped(h) /\ DOMAIN job = Handlers
  BY SMTT(60) DEF Inv, Typed, TypeOK, JobTyped, Stepping, Sending
<1>3. path \in Path /\ body \in Body
  BY <1>1, <1>2 DEF WorkOK, GuardOf, Path, Body
<1>4. ASSUME NEW p, p = path PROVE PaperOK(p)'
  BY <1>4 DEF PaperOK, Kept, Transition
<1>5. /\ job'[h].pc = "write" /\ job'[h].req = j.req /\ job'[h].snap = j.snap
      /\ job'[h].path = j.path /\ job'[h].body = j.body /\ job'[h].next = j.next
      /\ \A i \in Handlers : i # h => job'[i] = job[i]
  BY <1>1, <1>2 DEF JobOK
<1> HIDE DEF path, body
<1>6. JobTyped(h)'
  BY <1>1, <1>2, <1>5 DEF JobTyped, Stepping
<1>7. WorkOK(h)'
  BY <1>1, <1>2, <1>5 DEF WorkOK, Stepping, Sending
<1>8. ASSUME NEW p, p = path, NEW b, b = body PROVE Typed'
  BY <1>1, <1>3, <1>4, <1>5, <1>6, <1>7, <1>8, WormTypes
<1> QED
  BY <1>8

LEMMA WriteTypes ==
    ASSUME Inv, Typed, NEW h \in Handlers, Write(h)
    PROVE  Typed'
<1> DEFINE j == job[h]
<1>1. /\ j.pc \in {"write", "outcome"}
      /\ UNCHANGED <<state, sent, clients, time, applied>>
      /\ job' = [job EXCEPT ![h].pc = IF @ = "write" THEN "swap" ELSE "settle"]
      /\ worm' = worm \/ (j.path \notin DOMAIN worm /\ Create(j.path, j.body))
  BY DEF Write, Written
<1>2. JobOK(h) /\ WorkOK(h) /\ JobTyped(h) /\ DOMAIN job = Handlers
  BY DEF Inv, Typed, TypeOK, JobTyped, Stepping, Sending
<1>3. j.path \in Path /\ j.body \in Body
  BY <1>1, <1>2 DEF JobTyped, Stepping, Sending
<1>4. /\ job'[h].pc = IF j.pc = "write" THEN "swap" ELSE "settle"
      /\ job'[h].req = j.req /\ job'[h].snap = j.snap
      /\ job'[h].path = j.path /\ job'[h].body = j.body /\ job'[h].next = j.next
      /\ \A i \in Handlers : i # h => job'[i] = job[i]
  BY <1>1, <1>2 DEF JobOK
<1>5. state.etag \in Nat
  BY DEF Inv, StateOK
<1>6. ASSUME NEW p, p = j.path, Create(j.path, j.body) PROVE PaperOK(p)'
  <2>1. worm'[p] = j.body /\ state' = state
    BY <1>1, <1>6 DEF Create
  <2>2. CASE j.pc = "write"
    <3>1. /\ Fits(j.req, j.snap.doc, j.path, j.body, j.next) /\ Sound(j.snap.doc)
          /\ SnapOK(j.snap) /\ Moves(j.path, j.snap.doc, j.next)
          /\ Tells(j.path, j.body, j.next) /\ j.path[1] # "outcome"
          /\ j.path[1] \in Kept => j.body.prev = j.snap.doc
      BY <1>2, <2>2 DEF JobOK, WorkOK, Stepping
    <3>2. ASSUME j.path[1] = "attempt"
          PROVE  j.body.claim \in Claim /\ j.body.claim[2] <= state.etag
      <4>1. /\ j.snap.doc.pending # None /\ j.snap.doc.pending.guard.status = "claimed"
            /\ j.body.claim = j.snap.doc.pending.guard.claim
            /\ j.snap.doc.stamp[1] <= state.etag
        BY <3>1, <3>2 DEF Moves, Fits, SnapOK
      <4>2. /\ j.body.claim \in Claim /\ j.body.claim[2] <= j.snap.doc.stamp[1]
            /\ j.snap.doc.stamp[1] \in Nat
        BY <3>1, <4>1, SoundType
      <4>3. j.body.claim[2] \in Nat
        BY <4>2 DEF Claim
      <4> QED
        BY <1>5, <4>1, <4>2, <4>3
    <3>3. j.snap.doc \in Doc
      BY <3>1 DEF Sound
    <3> HIDE DEF j
    <3> QED
      BY <1>6, <2>1, <3>1, <3>2, <3>3 DEF PaperOK, Fits, Tells
  <2>3. CASE j.pc = "outcome"
    <3>1. /\ j.path[1] = "outcome" /\ j.next.pending # None
          /\ j.next.pending.guard.status = "dispatching"
          /\ Sound(j.next) /\ j.next.stamp[1] <= state.etag
          /\ j.body.claim = j.next.pending.guard.claim
      BY <1>2, <2>3 DEF JobOK, WorkOK, Sending
    <3>2. /\ j.body.claim \in Claim /\ j.body.claim[2] <= j.next.stamp[1]
          /\ j.next.stamp[1] \in Nat
      BY <3>1, SoundType
    <3>3. j.body.claim[2] \in Nat
      BY <3>2 DEF Claim
    <3>4. j.body.claim[2] <= state.etag
      BY <1>5, <3>1, <3>2, <3>3
    <3> HIDE DEF j
    <3> QED
      BY <1>6, <2>1, <3>1, <3>2, <3>4 DEF PaperOK, Kept, Transition
  <2> QED
    BY <1>1, <2>2, <2>3
<1>7. JobTyped(h)'
  BY <1>1, <1>2, <1>4 DEF JobTyped, Stepping, Sending
<1>8. WorkOK(h)'
  BY <1>1, <1>2, <1>4 DEF WorkOK, Stepping, Sending
<1> HIDE DEF j
<1>9. ASSUME NEW p, p = j.path, NEW b, b = j.body PROVE Typed'
  BY <1>1, <1>3, <1>4, <1>6, <1>7, <1>8, <1>9, WormTypes
<1> QED
  BY <1>9

-----------------------------------------------------------------------------
(* The state is replaced                                                   *)

(* A receipt that took effect before was made for another state.           *)
LEMMA PassedNot ==
    ASSUME Inv, Typed, NEW r, NEW p, NEW b, NEW e, Fits(r, state.doc, p, b, e),
           Moves(p, state.doc, e), Tells(p, b, e), p[1] \in Named, worm[p] = b
    PROVE  p \notin applied
<1> SUFFICES ASSUME p \in applied PROVE FALSE
  OBVIOUS
<1>1. PassedOK(p) /\ Sound(state.doc) /\ state.doc.stamp[1] = state.etag /\ state.etag \in Nat
  BY DEF Typed, Inv, StateOK
<1>2. e.stamp[1] = state.etag + 1
  BY <1>1 DEF Moves
<1>3. CASE p[1] \in Kept
  BY <1>1, <1>2, <1>3 DEF PassedOK, Tells
<1>4. CASE p[1] = "decision"
  BY <1>1, <1>4 DEF PassedOK, Fits
<1>5. CASE p[1] = "attempt"
  <2>1. /\ state.doc.pending # None /\ state.doc.pending.guard.status = "claimed"
        /\ state.doc.pending.guard.claim = worm[p].claim
    BY <1>5 DEF Fits, Moves
  <2> QED
    BY <1>1, <1>5, <2>1 DEF PassedOK
<1>6. CASE p[1] = "outcome"
  BY <1>1, <1>6 DEF PassedOK, Fits
<1> QED
  BY <1>3, <1>4, <1>5, <1>6 DEF Named

(* What is past stays past when the state goes on to e under receipt p.    *)
LEMMA PassedKeeps ==
    ASSUME Inv, Typed, NEW r, NEW p, NEW b, NEW e, Fits(r, state.doc, p, b, e),
           Moves(p, state.doc, e), Tells(p, b, e), p[1] \in Named, Written(p),
           worm[p] = b, worm' = worm,
           state'.doc = e, state'.etag = state.etag + 1, applied' = applied \cup {p}
    PROVE  \A q \in applied' : PassedOK(q)'
<1> DEFINE d == state.doc
<1>1. /\ Passes(p, d, e) /\ Sound(d) /\ Sound(e) /\ d.stamp[1] = state.etag
      /\ state.etag \in Nat /\ e.stamp[1] = state.etag + 1
  BY DEF Fits, Passes, Inv, StateOK, Moves
<1>2. ASSUME NEW q \in DOMAIN worm, q[1] \in {"attempt", "outcome"}, e.pending # None,
             e.pending.guard.claim = worm[q].claim
      PROVE  /\ d.pending # None /\ d.pending.guard.claim = worm[q].claim
             /\ d.pending.guard.run # None => e.pending.guard.run # None
             /\ e.pending.guard.status # "claimed"
  <2>1. worm[q].claim \in Claim /\ worm[q].claim[2] <= state.etag
    BY <1>2 DEF Typed, PaperOK
  <2>2. worm[q].claim # None
    BY <2>1, WatchdogOK
  <2>3. worm[q].claim # <<p[2], e.stamp[1]>>
    BY <1>1, <2>1 DEF Claim
  <2> QED
    BY <1>1, <1>2, <2>2, <2>3 DEF Passes
<1>3. ASSUME NEW q \in applied, q # p PROVE PassedOK(q)'
  <2>1. PassedOK(q) /\ q \in DOMAIN worm /\ PaperOK(q)
    BY <1>3 DEF Typed, PassedOK, Written
  <2>2. q[1] \in Kept => worm[q].next.stamp[1] <= state.etag + 1
    <3>1. q[1] \in Kept => worm[q].next.stamp[1] \in Nat
      BY <2>1, SoundType DEF PaperOK, Passes
    <3> QED
      BY <1>1, <2>1, <3>1 DEF PassedOK
  <2>3. q[1] = "decision" => worm[q].seen.stamp[1] < state.etag + 1
    <3>1. q[1] = "decision" => worm[q].seen.stamp[1] \in Nat
      BY <2>1 DEF PaperOK, Doc, Stamps
    <3> QED
      BY <1>1, <2>1, <3>1 DEF PassedOK
  <2>4. q[1] = "attempt" /\ e.pending # None /\ e.pending.guard.status = "claimed"
        => e.pending.guard.claim # worm[q].claim
    BY <1>2, <2>1
  <2>5. q[1] = "outcome" /\ e.pending # None /\ e.pending.guard.claim = worm[q].claim
        => e.pending.guard.run # None
    BY <1>2, <2>1 DEF PassedOK
  <2> QED
    BY <2>1, <2>2, <2>3, <2>4, <2>5 DEF PassedOK, Written
<1>4. PassedOK(p)'
  <2>1. p[1] \in Kept => worm[p].next.stamp[1] <= state.etag + 1
    BY <1>1 DEF Tells
  <2>2. p[1] = "decision" => worm[p].seen.stamp[1] < state.etag + 1
    BY <1>1 DEF Fits
  <2>3. p[1] = "attempt" => e.pending.guard.status # "claimed"
    BY DEF Moves
  <2>4. p[1] = "outcome" => e.pending.guard.run # None
    BY DEF Fits
  <2> QED
    BY <2>1, <2>2, <2>3, <2>4 DEF PassedOK, Written
<1> QED
  BY <1>3, <1>4

(* The state goes on to e under receipt p.                                 *)
LEMMA ReplaceTypes ==
    ASSUME Inv, Typed, NEW h \in Handlers, NEW r, NEW p \in Path, NEW b, NEW e,
           Fits(r, state.doc, p, b, e), Moves(p, state.doc, e), Tells(p, b, e),
           p[1] \in Named, Written(p), worm[p] = b, Replace(e, p),
           UNCHANGED <<worm, clients, overdue, lapsed>>, sent' \subseteq Request,
           \A i \in Handlers : i # h => job'[i] = job[i],
           JobTyped(h)', WorkOK(h)'
    PROVE  Typed' /\ p \notin applied
<1> USE DEF clients
<1>1. /\ state' = [doc |-> e, etag |-> state.etag + 1, last |-> p]
      /\ applied' = applied \cup {p} /\ stale' = FALSE /\ state.etag < MaxWrites
  BY DEF Replace
<1>2. p \notin applied /\ \A q \in applied' : PassedOK(q)'
  BY <1>1, PassedNot, PassedKeeps
<1>3. state.etag \in Nat /\ Sound(e) /\ MaxWrites \in Nat
  BY WatchdogOK DEF Inv, StateOK, Fits, Passes
<1>4. ASSUME NEW i \in Handlers PROVE JobTyped(i)' /\ WorkOK(i)'
  <2>1. CASE i = h
    BY <2>1
  <2>2. CASE i # h
    <3>1. JobTyped(i) /\ WorkOK(i) /\ job'[i] = job[i]
      BY <2>2 DEF Typed, TypeOK, JobTyped, Stepping, Sending
    <3>2. job[i].pc \in Sending => job[i].next.stamp[1] <= state.etag + 1
      <4>1. job[i].pc \in Sending => job[i].next.stamp[1] \in Nat
        BY <3>1, SoundType DEF WorkOK
      <4> QED
        BY <1>3, <3>1, <4>1 DEF WorkOK
    <3> QED
      BY <1>1, <3>1, <3>2 DEF JobTyped, WorkOK
  <2> QED
    BY <2>1, <2>2
<1>5. ASSUME NEW q \in DOMAIN worm' PROVE PaperOK(q)'
  <2>1. PaperOK(q) /\ worm'[q] = worm[q] /\ state'.etag = state.etag + 1
    BY <1>1, <1>5 DEF Typed
  <2>2. q[1] \in {"attempt", "outcome"} =>
            worm[q].claim \in Claim /\ worm[q].claim[2] <= state.etag + 1
    BY <1>3, <2>1 DEF PaperOK, Claim
  <2> QED
    BY <2>1, <2>2 DEF PaperOK
<1>6. state' \in [doc: Doc, etag: 0..MaxWrites, last: Path \cup {None}]
  BY <1>1, <1>3 DEF Sound
<1>7. applied' \subseteq Path
  BY <1>1 DEF Typed, TypeOK
<1>8. TypeOK'
  BY <1>1, <1>4, <1>6, <1>7 DEF Typed, TypeOK, JobTyped, Stepping, Sending
<1>9. Sound(state.doc)'
  BY <1>1, <1>3
<1> QED
  BY <1>2, <1>4, <1>5, <1>8, <1>9 DEF Typed

(* The last receipt of a new state was not named before.                   *)
LEMMA SwapTypes ==
    ASSUME Inv, Typed, NEW h \in Handlers, Swap(h)
    PROVE  Typed' /\ state'.last \notin applied
<1> DEFINE j == job[h]
           armed == j.path[1] = "attempt"
<1>1. /\ j.pc = "swap" /\ state.etag = j.snap.etag /\ Replace(j.next, j.path)
      /\ UNCHANGED <<worm, clients, overdue, lapsed>>
      /\ job' = [job EXCEPT ![h] = IF armed THEN [@ EXCEPT !.pc = "dispatch"] ELSE Rest]
  BY DEF Swap, Current
<1>2. JobOK(h) /\ WorkOK(h) /\ JobTyped(h) /\ DOMAIN job = Handlers
  BY DEF Inv, Typed, TypeOK, JobTyped, Stepping, Sending
<1>3. /\ j.snap.doc = state.doc /\ j.path[1] \in Named /\ j.req \in sent /\ j.path \in Path
      /\ Moves(j.path, state.doc, j.next) /\ Tells(j.path, j.body, j.next)
      /\ Written(j.path) /\ worm[j.path] = j.body
      /\ Fits(j.req, state.doc, j.path, j.body, j.next)
  BY <1>1, <1>2 DEF JobOK, SnapOK, WorkOK, JobTyped, Stepping
<1>4. sent' \subseteq Request
  <2>1. sent \subseteq Request /\ j.req \in Request
    BY <1>3 DEF Typed, TypeOK
  <2>2. CASE j.req.op = "claim"
    <3>1. j.req.run \in Watchdogs /\ j.next.pending.guard.claim \in Claim
      BY <1>3, <2>1, <2>2, RequestType DEF Fits
    <3>2. [op |-> "dispatch", run |-> j.req.run, claim |-> j.next.pending.guard.claim]
              \in Request
      BY <3>1 DEF Request
    <3> QED
      BY <2>1, <2>2, <3>2 DEF Swap
  <2>3. CASE j.req.op # "claim"
    BY <2>1, <2>3 DEF Swap
  <2> QED
    BY <2>2, <2>3
<1>5. \A i \in Handlers : i # h => job'[i] = job[i]
  BY <1>1, <1>2
<1>6. state'.last = j.path /\ state'.etag = state.etag + 1 /\ state.etag \in Nat
  BY <1>1 DEF Replace, Inv, StateOK
<1>7. JobTyped(h)' /\ WorkOK(h)'
  <2>1. CASE armed
    <3>1. /\ job'[h].pc = "dispatch" /\ job'[h].req = j.req /\ job'[h].next = j.next
          /\ job'[h].path = j.path /\ job'[h].body = j.body
      BY <1>1, <1>2, <2>1 DEF JobOK
    <3>2. /\ Sound(j.next) /\ j.next.stamp[1] = state.etag + 1
          /\ j.next.pending.guard.run = None /\ state.doc.stamp[1] = state.etag
      BY <1>3, <2>1 DEF Fits, Passes, Moves, Inv, StateOK
    <3>3. JobTyped(h)'
      BY <1>1, <1>2, <3>1 DEF JobTyped, Stepping, Sending
    <3>4. WorkOK(h)'
      BY <1>6, <3>1, <3>2 DEF WorkOK, Stepping, Sending
    <3> QED
      BY <3>3, <3>4
  <2>2. CASE ~ armed
    <3>1. job'[h] = Rest
      BY <1>1, <1>2, <2>2
    <3> QED
      BY <3>1 DEF JobTyped, WorkOK, Rest, Stepping, Sending
  <2> QED
    BY <2>1, <2>2
<1> HIDE DEF j, armed
<1>8. ASSUME NEW r, r = j.req, NEW p, p = j.path, NEW b, b = j.body, NEW e, e = j.next
      PROVE  Typed' /\ p \notin applied
  BY <1>1, <1>3, <1>4, <1>5, <1>7, <1>8, ReplaceTypes
<1> QED
  BY <1>6, <1>8

LEMMA SettleTypes ==
    ASSUME Inv, Typed, NEW h \in Handlers, NEW at \in Instants, Settle(h, at)
    PROVE  Typed' /\ state'.last \notin applied
<1> DEFINE j == job[h]
           g == [GuardOf(state) EXCEPT !.run = j.body.run]
           new == Guarded(state, g, at)
           none == [op |-> "none"]
<1>1. /\ j.pc = "settle" /\ state.doc = j.next /\ Replace(new, j.path)
      /\ UNCHANGED <<worm, sent, clients, overdue, lapsed>>
      /\ job' = [job EXCEPT ![h] = Rest]
  BY DEF Settle, GuardOf
<1>2. JobOK(h) /\ WorkOK(h) /\ JobTyped(h) /\ DOMAIN job = Handlers
  BY DEF Inv, Typed, TypeOK, JobTyped, Stepping, Sending
<1>3. /\ Held(state) /\ GuardOf(state).status = "dispatching" /\ SnapOK(state)
      /\ j.path[1] = "outcome" /\ j.body.run \in Runs /\ j.path \in Path
      /\ Written(j.path) /\ worm[j.path] = j.body /\ Sound(state.doc)
      /\ j.body.claim = GuardOf(state).claim /\ GuardOf(state).run = None
  BY <1>1, <1>2 DEF JobOK, WorkOK, JobTyped, Sending, Held, GuardOf, Inv, StateOK, SnapOK
<1>4. /\ job'[h] = Rest /\ \A i \in Handlers : i # h => job'[i] = job[i]
  BY <1>1, <1>2
<1>5. JobTyped(h)' /\ WorkOK(h)'
  BY <1>4 DEF JobTyped, WorkOK, Rest, Stepping, Sending
<1>6. /\ SoundGuard(g, state.etag + 1) /\ g.claim = GuardOf(state).claim
      /\ g.run = j.body.run /\ g.run # None
  BY <1>3, GuardKeeps
<1>7. g \in Guard /\ g.status = "dispatching"
  BY <1>3, GuardType
<1> HIDE DEF j, g
<1>8. Moves(j.path, state.doc, new)
  BY <1>3, <1>7, GuardedMoves DEF Bound
<1>9. Sound(new) /\ new.pending # None /\ new.pending.guard = g
  BY <1>3, <1>6, SoundGuarded
<1> HIDE DEF new
<1>10. Tells(j.path, j.body, new) /\ j.path[1] \in Named
  BY <1>3, <1>6, <1>9 DEF Tells, Named, Kept, Transition
<1>11. none.op # "claim"
  OBVIOUS
<1> HIDE DEF none
<1>12. Fits(none, state.doc, j.path, j.body, new)
  BY <1>3, <1>6, <1>7, <1>9, <1>11 DEF Fits, Passes, Held, GuardOf
<1>13. sent' \subseteq Request
  BY <1>1 DEF Typed, TypeOK
<1>14. ASSUME NEW r, r = none, NEW p, p = j.path, NEW b, b = j.body, NEW e, e = new
       PROVE  Typed' /\ p \notin applied
  BY <1>1, <1>3, <1>4, <1>5, <1>8, <1>10, <1>12, <1>13, <1>14, ReplaceTypes
<1> QED
  BY <1>1, <1>14 DEF Replace

-----------------------------------------------------------------------------
(* GitHub, the clients and time                                            *)

(* The state and the processes stay as they are.                           *)
LEMMA ClientTypes ==
    ASSUME Inv, Typed, UNCHANGED <<state, worm, job, applied>>, TypeOK'
    PROVE  Typed'
<1>1. \A h \in Handlers : WorkOK(h)'
  BY DEF Typed, WorkOK
<1> QED
  BY <1>1 DEF Typed, PaperOK, PassedOK, Written

LEMMA DispatchTypes ==
    ASSUME Inv, Typed, NEW h \in Handlers, Dispatch(h)
    PROVE  Typed'
<1> DEFINE j == job[h]
           p == j.next.pending
           id == Cardinality(github) + 1
           new == [id |-> id, claim |-> p.guard.claim, cand |-> p.cand]
           body == [claim |-> p.guard.claim, gen |-> p.guard.gen, run |-> id]
           path == <<"outcome", p.guard.claim[1]>>
<1>1. /\ j.pc = "dispatch" /\ id \in Runs /\ github' = github \cup {new}
      /\ control' = [control EXCEPT ![id].pc = "start"]
      /\ \/ Go(h, "outcome", path, body, j.next)
         \/ job' = [job EXCEPT ![h] = Rest]
      /\ UNCHANGED <<storage, sent, deciding, deployed, time, applied>>
  BY DEF Dispatch
<1>2. JobOK(h) /\ WorkOK(h) /\ JobTyped(h) /\ DOMAIN job = Handlers
  BY DEF Inv, Typed, TypeOK, JobTyped, Stepping, Sending
<1>3. /\ Sound(j.next) /\ p # None /\ p.guard.status = "dispatching"
      /\ j.next.stamp[1] <= state.etag /\ p.guard.run = None /\ j.next \in Doc
  BY <1>1, <1>2 DEF JobOK, WorkOK, JobTyped, Sending
<1>4. /\ p \in Pending /\ p.guard.claim \in Claim /\ p.guard.gen \in Nat \ {0}
  BY <1>3, SoundType
<1>5. new \in [id: Runs, claim: Claim, cand: Candidates]
  BY SMTT(60), <1>1, <1>4 DEF Pending
<1>6. path \in Path /\ body \in Body /\ body.claim = p.guard.claim
  BY <1>1, <1>4 DEF Path, Body, Claim
<1> HIDE DEF path, body, new, id
<1>7. /\ \A i \in Handlers : i # h => job'[i] = job[i]
      /\ JobTyped(h)' /\ WorkOK(h)'
  <2>1. CASE job' = [job EXCEPT ![h] = Rest]
    BY <1>2, <2>1 DEF JobTyped, WorkOK, Rest, Stepping, Sending
  <2>2. CASE Go(h, "outcome", path, body, j.next)
    <3>1. /\ job'[h].pc = "outcome" /\ job'[h].path = path /\ job'[h].body = body
          /\ job'[h].next = j.next /\ job'[h].req = j.req
          /\ \A i \in Handlers : i # h => job'[i] = job[i]
      BY <1>2, <2>2 DEF Go, JobOK
    <3>2. JobTyped(h)'
      BY <1>2, <1>3, <1>6, <3>1 DEF JobTyped
    <3>3. WorkOK(h)'
      BY <1>1, <1>3, <1>6, <3>1 DEF WorkOK, Stepping, Sending, storage
    <3> QED
      BY <3>1, <3>2, <3>3
  <2> QED
    BY <1>1, <2>1, <2>2
<1>8. ASSUME NEW i \in Handlers PROVE JobTyped(i)' /\ WorkOK(i)'
  <2>1. CASE i # h
    <3>1. JobTyped(i) /\ WorkOK(i) /\ job'[i] = job[i] /\ state' = state
      BY <1>1, <1>7, <2>1 DEF Typed, TypeOK, JobTyped, Stepping, Sending, storage
    <3> QED
      BY <3>1 DEF JobTyped, WorkOK
  <2> QED
    BY <1>7, <2>1
<1>9. control' \in [Runs -> [pc: {"none", "start", "observed", "authorize",
                                  "deploy", "verify", "done", "stopped"},
                             doc: Doc \cup {None}]]
  BY <1>1 DEF Typed, TypeOK
<1>10. TypeOK'
  BY <1>1, <1>5, <1>8, <1>9 DEF Typed, TypeOK, JobTyped, Stepping, Sending, storage, time
<1> QED
  BY <1>1, <1>8, <1>10 DEF Typed, PaperOK, PassedOK, Written, storage

LEMMA AskedTypes ==
    ASSUME Inv, Typed, Client
    PROVE  Typed'
<1> USE DEF storage, clients, time
<1>1. /\ UNCHANGED <<state, worm, job, github, control, deployed, overdue, lapsed,
                     stale, applied>>
      /\ deciding' \subseteq deciding
  BY DEF Client, AskPublish, AskAccept, Decide, AskRepair
<1>2. Sound(state.doc) /\ state.doc \in Doc /\ sent \subseteq Request
  BY DEF Typed, TypeOK, Sound
<1>3. sent' \subseteq Request
  <2>1. ASSUME NEW c \in Candidates, AskPublish(c) \/ AskAccept(c)
        PROVE  sent' \subseteq Request
    BY <1>2, <2>1 DEF AskPublish, AskAccept, Ask, Request
  <2>2. ASSUME NEW x \in Watchdogs, Decide(x)
        PROVE  sent' \subseteq Request
    <3>1. CASE sent' = sent \cup {[op |-> "claim", run |-> x, expect |-> state.doc]}
      BY <1>2, <3>1 DEF Request
    <3>2. CASE /\ Held(state) /\ GuardOf(state).status = "claimed"
               /\ sent' = sent \cup {[op |-> "release", run |-> x,
                                      claim |-> GuardOf(state).claim]}
      <4>1. GuardOf(state).claim \in Claim
        BY <1>2, <3>2, SoundType DEF Held, GuardOf
      <4> QED
        BY <1>2, <3>2, <4>1 DEF Request
    <3> QED
      BY <2>2, <3>1, <3>2 DEF Decide, Ask
  <2>3. ASSUME NEW m \in Reviewers, AskRepair(m)
        PROVE  sent' \subseteq Request
    <3>1. GuardOf(state).claim \in Claim
      BY <1>2, <2>3, SoundType DEF AskRepair, Held, GuardOf
    <3> QED
      BY <1>2, <2>3, <3>1 DEF AskRepair, Ask, Request
  <2> QED
    BY <2>1, <2>2, <2>3 DEF Client
<1>4. TypeOK'
  BY <1>1, <1>3 DEF Typed, TypeOK
<1> QED
  BY <1>1, <1>4, ClientTypes

LEMMA ControlTypes ==
    ASSUME Inv, Typed, NEW k \in Runs, Control(k)
    PROVE  Typed'
<1> USE DEF storage, time
<1> DEFINE Label == {"none", "start", "observed", "authorize", "deploy", "verify",
                     "done", "stopped"}
<1>1. /\ UNCHANGED <<state, worm, job, github, deciding, overdue, lapsed, stale, applied>>
      /\ deployed' \subseteq deployed \cup {k}
  BY DEF Control, Observe, AskAuthorize, Authorized, Deploy, AskCompleted, Stop
<1>2. /\ Sound(state.doc) /\ state.doc \in Doc /\ sent \subseteq Request
      /\ control[k].doc \in Doc \cup {None}
  BY DEF Typed, TypeOK, Sound
<1>3. PICK pc \in Label, doc \in Doc \cup {None} :
          control' = [control EXCEPT ![k] = [pc |-> pc, doc |-> doc]]
  BY <1>2 DEF Control, Observe, AskAuthorize, Authorized, Deploy, AskCompleted, Stop, Move
<1>4. control[k].pc = "verify" => control[k].doc = state.doc
  BY DEF Inv, ControlOK
<1>5. sent' \subseteq Request
  <2>1. CASE sent' = sent
    BY <1>2, <2>1
  <2>2. CASE \E op \in {"observed", "authorize", "completed"}, d \in Doc :
                 sent' = sent \cup {[op |-> op, run |-> k, expect |-> d]}
    BY <1>2, <2>2 DEF Request
  <2> QED
    BY <1>2, <1>4, <2>1, <2>2 DEF Control, Observe, AskAuthorize, Authorized, Deploy,
       AskCompleted, Stop, Ask
<1>6. control' \in [Runs -> [pc: Label, doc: Doc \cup {None}]]
  BY <1>3 DEF Typed, TypeOK
<1>7. TypeOK'
  BY <1>1, <1>5, <1>6 DEF Typed, TypeOK
<1> QED
  BY <1>1, <1>7, ClientTypes

LEMMA TimeTypes ==
    ASSUME Inv, Typed, Deadline \/ Lapse \/ Age \/ UNCHANGED vars
    PROVE  Typed'
<1>1. UNCHANGED <<state, worm, sent, job, github, control, deciding, deployed, applied>>
  BY DEF Deadline, Lapse, Age, vars, storage, clients
<1>2. Held(state) => /\ state.doc.pending.cand \in Candidates
                     /\ GuardOf(state).claim \in Claim \cup {None}
  BY SoundType DEF Typed, Held, GuardOf, Pending
<1>3. overdue' \subseteq Candidates /\ lapsed' \subseteq Claim
  BY <1>2 DEF Deadline, Lapse, Age, vars, Typed, TypeOK
<1>4. stale' \in BOOLEAN
  BY DEF Deadline, Lapse, Age, vars, Typed, TypeOK
<1>5. TypeOK'
  BY <1>1, <1>3, <1>4 DEF Typed, TypeOK
<1> QED
  BY <1>1, <1>5, ClientTypes

LEMMA InitTypes ==
    ASSUME Init, Instants # {}
    PROVE  Typed
<1>1. (CHOOSE i \in Instants : TRUE) \in Instants
  OBVIOUS
<1>2. state.doc \in Doc /\ state.doc.pending = None /\ state.etag = 0 /\ state.last = None
  BY <1>1 DEF Init, Doc, Stamps
<1>3. Sound(state.doc)
  BY <1>2 DEF Sound
<1>4. MaxWrites \in Nat /\ state \in [doc: Doc, etag: 0..MaxWrites, last: Path \cup {None}]
  BY <1>2, WatchdogOK DEF Init
<1>5. control \in [Runs -> [pc: {"none", "start", "observed", "authorize",
                                 "deploy", "verify", "done", "stopped"},
                            doc: Doc \cup {None}]]
  BY DEF Init
<1>6. \A h \in Handlers : job[h].pc = "idle" /\ job[h].req = None
  BY DEF Init, Rest
<1>7. TypeOK
  BY <1>4, <1>5, <1>6 DEF Init, TypeOK
<1>8. \A h \in Handlers : WorkOK(h)
  BY <1>6 DEF WorkOK, Stepping, Sending
<1>9. DOMAIN worm = {} /\ applied = {}
  BY DEF Init
<1> QED
  BY <1>3, <1>7, <1>8, <1>9 DEF Typed

(* Every step keeps the types, and a new state names a new receipt.        *)
LEMMA NextTypes ==
    ASSUME Inv, Typed, [Next]_vars
    PROVE  Typed' /\ (state' # state => state'.last \notin applied)
<1>1. CASE Client
  BY <1>1, AskedTypes DEF Client, AskPublish, AskAccept, Decide, AskRepair, storage
<1>2. ASSUME NEW h \in Handlers, NEW r \in sent, Take(h, r)
      PROVE  Typed' /\ state' = state
  BY <1>2, TakeTypes DEF Take, storage
<1>3. ASSUME NEW h \in Handlers, Look(h)
      PROVE  Typed' /\ state' = state
  BY <1>3, LookedTypes DEF Look, Transit, ClaimRollback, Rebind, Arm, Reconcile,
     Replay, Recover, End, storage
<1>4. ASSUME NEW h \in Handlers, Commit(h)
      PROVE  Typed' /\ (state' # state => state'.last \notin applied)
  <2>1. CASE Authorize(h) \/ Write(h) \/ Dispatch(h) \/ Fail(h)
    <3>1. state' = state
      BY <2>1 DEF Authorize, Write, Dispatch, Fail, storage
    <3>2. Typed'
      BY <2>1, AuthorizeTypes, WriteTypes, DispatchTypes, RestTypes DEF Fail
    <3> QED
      BY <3>1, <3>2
  <2> QED
    BY <1>4, <2>1, SwapTypes, SettleTypes DEF Commit
<1>5. ASSUME NEW h \in Handlers, Crash(h)
      PROVE  Typed' /\ state' = state
  BY <1>5, RestTypes DEF Crash, storage
<1>6. ASSUME NEW k \in Runs, Control(k)
      PROVE  Typed' /\ state' = state
  BY <1>6, ControlTypes DEF Control, Observe, AskAuthorize, Authorized, Deploy,
     AskCompleted, Stop, storage
<1>7. CASE Deadline \/ Lapse \/ Age \/ UNCHANGED vars
  BY <1>7, TimeTypes DEF Deadline, Lapse, Age, vars, storage
<1> QED
  BY <1>1, <1>2, <1>3, <1>4, <1>5, <1>6, <1>7 DEF Next

(* What the state, the receipts, the requests and the processes carry is   *)
(* well formed, whatever arrives late, twice or never.                     *)
THEOREM TypeSafe ==
    ASSUME Instants # {}
    PROVE  Spec => []TypeOK
<1>1. Init => Inv /\ Typed
  BY InitInv, InitTypes
<1>2. Inv /\ Typed /\ [Next]_vars => Inv' /\ Typed'
  BY NextKeeps, NextTypes
<1>3. Typed => TypeOK
  BY DEF Typed
<1> QED
  BY <1>1, <1>2, <1>3, PTL DEF Spec

(* A receipt takes effect once, however often a request is repeated and    *)
(* wherever a process died between the receipt and the state.              *)
THEOREM OnceSafe ==
    ASSUME Instants # {}
    PROVE  Spec => AppliedOnce
<1>1. Init => Inv /\ Typed
  BY InitInv, InitTypes
<1>2. Inv /\ Typed /\ [Next]_vars => Inv' /\ Typed'
  BY NextKeeps, NextTypes
<1>3. Inv /\ Typed /\ [Next]_vars => [state' # state => state'.last \notin applied]_vars
  BY NextTypes
<1> QED
  BY <1>1, <1>2, <1>3, PTL DEF Spec, AppliedOnce
===============================================================================
