--------------------------- MODULE Sessions_proofs ----------------------------
(***************************************************************************)
(* For any runners, cleaners, generations and failures: a session that is  *)
(* closed as sealed left a sealed bridge, every closing is retained before *)
(* the state moves on, a session that was claimed is never active again,   *)
(* and only the claimant writes in a claim, however long a cleaner is      *)
(* paused.  A step is about the session and the fence it read: the state is *)
(* replaced only over the record that was read, a fence number is never    *)
(* used twice, and whoever can still work on the bridge belongs to the     *)
(* session in the state, which must not be fenced.                         *)
(***************************************************************************)
EXTENDS Sessions, TLAPS

(* The document in the state, and what a fence and an assessment stand for. *)
DocOK(d) ==
    /\ d \in Watcher!Doc
    /\ d.status = "active" => d.claimant = None /\ ~d.fenced
    /\ d.status # "closed" => d.receipt = None
    /\ d.status = "closed" => d.fenced /\ d.receipt = d.assessment /\ d.receipt # None
    /\ d.assessment # None => d.fenced

RecordOK(s) == s \in Watcher!Record /\ (s.doc # None => DocOK(s.doc))

Revoked(d) == Generation[d.session] \in revoked

StateOK ==
    /\ RecordOK(state)
    /\ Watcher!Opened => /\ state.doc.fenced => Revoked(state.doc)
                         /\ state.doc.assessment # None /\ state.doc.assessment.sealed =>
                                bridge = "sealed"
                         /\ state.doc.status = "closed" => state \in closings
    /\ \A p \in fences : p \in Watcher!Path /\ Generation[p[1]] \in revoked

(* The records that closed a session, and their markers.                   *)
RecordsOK ==
    /\ \A c \in closings :
           /\ RecordOK(c) /\ c.doc # None /\ c.doc.status = "closed"
           /\ Watcher!Opened /\ c.doc.fence <= state.doc.fence
           /\ c.doc.fence = state.doc.fence => c = state
    /\ \A c, d \in closings : c.doc.fence = d.doc.fence => c = d
    /\ \A p \in DOMAIN markers : markers[p] \in closings /\ Watcher!Where(markers[p].doc) = p
    /\ Watcher!ClosingRetained

(* What a runner knows: the record it read is the state's, or is replaced  *)
(* for good; and who may still work on the bridge is in the state.         *)
RunnerOK(r) ==
    LET s == runner[r].read IN
    /\ runner[r].pc \in {"idle", "retain", "open", "active", "beat", "lost"}
    /\ RecordOK(s)
    /\ runner[r].pc \in {"retain", "open", "beat"} =>
           s.etag <= state.etag /\ (s.etag = state.etag => s = state)
    /\ runner[r].pc = "retain" => s.doc # None
    /\ runner[r].pc \in {"retain", "open"} /\ s.doc # None =>
           s.doc.status = "closed" /\ s \in closings /\ Generation[s.doc.session] # Generation[r]
    /\ runner[r].pc = "open" /\ s.doc # None => Watcher!Retained(s)
    /\ runner[r].pc = "beat" => s.doc # None /\ s.doc.status = "active" /\ s.doc.session = r
    /\ runner[r].pc = "beat" /\ s.etag = state.etag => beats < MaxBeats
    /\ runner[r].pc \in {"active", "beat"} =>
           /\ Watcher!Opened
           /\ Generation[r] \notin revoked =>
                  state.doc.session = r /\ state.doc.status # "closed"

(* The claim of a cleaner is the one in the state.                         *)
Held(k) ==
    /\ Watcher!Opened
    /\ state.doc.session = cleaner[k].claim.session
    /\ state.doc.fence = cleaner[k].claim.fence

Claiming == {"bind", "bindwrite", "load", "act", "assess", "reload", "renew", "receipt",
             "final", "close"}

(* What a cleaner knows, of a claim that need not be in force any more.    *)
CleanerOK(k) ==
    LET c == cleaner[k]
        current == c.etag = state.etag
    IN
    /\ c.pc # "idle" => c.claim \in Watcher!Doc /\ Watcher!Opened
    /\ c.pc \in Claiming => c.claim.claimant = k /\ c.claim.fence <= state.doc.fence
    /\ c.pc \in {"claim", "bindwrite", "renew", "close"} => c.etag <= state.etag
    /\ c.pc = "claim" => c.claim.fence < MaxFence
    /\ c.pc = "claim" /\ current => c.claim = state.doc /\ Watcher!Claimable
    /\ c.pc \in {"bindwrite", "renew", "close"} /\ current => Watcher!MineLate(k)
    /\ c.pc = "bindwrite" /\ current => Watcher!Published(state.doc)
    /\ c.pc = "close" /\ current => state.doc.assessment = c.claim.assessment
    /\ c.pc \in {"act", "assess", "reload", "renew"} /\ Held(k) => state.doc.fenced
    /\ c.pc \in {"assess", "reload", "renew"} => c.look \in Watcher!Assessment
    /\ c.pc \in {"reload", "renew"} /\ Held(k) /\ c.look.sealed => bridge = "sealed"
    /\ c.pc \in {"receipt", "final", "close"} => c.claim.assessment \in Watcher!Assessment
    /\ c.pc = "marker" => [doc |-> c.claim, etag |-> c.etag] \in closings

(* The rest of the types.                                                  *)
Types ==
    /\ late \in BOOLEAN /\ bridge \in {"sealed", "open"}
    /\ revoked \subseteq {Generation[r] : r \in Runners}
    /\ resultsWatcher \subseteq Runners
    /\ DOMAIN evidence \subseteq Watcher!Path /\ DOMAIN markers \subseteq Watcher!Path
    /\ \A p \in DOMAIN evidence : evidence[p] \in Watcher!Assessment
    /\ runner \in [Runners -> [pc: {"idle", "retain", "open", "active", "beat",
                                    "lost"}, read: Watcher!Record]]
    /\ cleaner \in [Watchers -> [pc: Watcher!Counter, etag: Nat, claim: Watcher!Doc \cup {None},
                                 round: {"stage", "refresh"},
                                 look: Watcher!Assessment \cup {None}]]
    /\ beats \in 0..MaxBeats /\ faults \in 0..MaxFaults

Inv ==
    /\ Types /\ StateOK /\ RecordsOK
    /\ \A r \in Runners : RunnerOK(r)
    /\ \A k \in Watchers : CleanerOK(k)

(* What every step leaves behind.  The state is kept or replaced by the    *)
(* next record: fences only grow, under one fence the session stays and    *)
(* is not closed before, and a closed record is retained when it goes.     *)
Moved ==
    /\ state'.etag = state.etag + 1 /\ state'.doc # None
    /\ Watcher!Opened =>
           /\ state.doc.fence <= state'.doc.fence
           /\ state.doc.status = "closed" =>
                  state.doc.fence < state'.doc.fence /\ Watcher!Retained(state)
           /\ state.doc.status # "closed" => state'.doc.session = state.doc.session
           /\ state.doc.fence = state'.doc.fence /\ state.doc.fenced => state'.doc.fenced

Advance ==
    /\ Moved \/ (state' = state /\ (late => late') /\ beats' = beats)
    /\ revoked \subseteq revoked' /\ fences \subseteq fences'
    /\ closings \subseteq closings'
    /\ \A p \in DOMAIN markers : p \in DOMAIN markers' /\ markers'[p] = markers[p]
    /\ bridge = "sealed" /\ Watcher!Opened /\ state.doc.fenced => bridge' = "sealed"

-----------------------------------------------------------------------------
(* Who replaces the state *)

(* A runner opens a session over nothing, or over a closed record that is  *)
(* retained and belongs to another generation.                             *)
LEMMA Opening ==
    ASSUME Chosen, Inv, NEW r \in Runners, Watcher!OpenWrite(r)
    PROVE  /\ state'.etag = state.etag + 1
           /\ RecordOK(state)' /\ state'.doc # None
           /\ state'.doc.session = r /\ state'.doc.status = "active"
           /\ ~state'.doc.fenced /\ state'.doc.assessment = None
           /\ Watcher!Opened => /\ state.doc.status = "closed" /\ Watcher!Retained(state)
                                /\ state.doc.session # r
                                /\ state'.doc.fence = state.doc.fence + 1
<1> DEFINE s == runner[r].read
           f == IF s.doc = None THEN 1 ELSE s.doc.fence + 1
<1>1. /\ state = s /\ RecordOK(s)
      /\ s.doc # None => /\ s.doc.status = "closed" /\ Watcher!Retained(s)
                         /\ Generation[s.doc.session] # Generation[r]
  BY DEF Watcher!OpenWrite, Inv, RunnerOK, Watcher!Current
<1>2. f \in 1..MaxFence /\ state' = [doc |-> Watcher!Fresh(r, f), etag |-> state.etag + 1]
  BY <1>1 DEF Watcher!OpenWrite, Watcher!Replace, RecordOK, Watcher!Record, DocOK,
              Watcher!Doc, Chosen
<1>3. Watcher!Fresh(r, f) \in Watcher!Doc
  BY <1>2 DEF Watcher!Fresh, Watcher!Doc
<1>4. DocOK(Watcher!Fresh(r, f))
  BY <1>3 DEF Watcher!Fresh, DocOK
<1>5. state'.doc = Watcher!Fresh(r, f) /\ state'.etag = state.etag + 1
  BY <1>2
<1>6. RecordOK(state)'
  BY <1>1, <1>2, <1>3, <1>4, <1>5 DEF RecordOK, Watcher!Record
<1>7. Watcher!Opened => state'.doc.fence = state.doc.fence + 1
  BY <1>1, <1>5 DEF Watcher!Opened, Watcher!Fresh
<1>8. Watcher!Opened => /\ state.doc.status = "closed" /\ Watcher!Retained(state)
                        /\ state.doc.session # r
  BY <1>1 DEF Watcher!Opened
<1>9. Watcher!Fresh(r, f) # None
  BY <1>3 DEF Chosen
<1>10. /\ state'.doc.session = r /\ state'.doc.status = "active"
       /\ state'.doc.fenced = FALSE /\ state'.doc.assessment = None
  BY <1>5 DEF Watcher!Fresh
<1>11. QED BY <1>5, <1>6, <1>7, <1>8, <1>9, <1>10

(* A heartbeat finds the active record it read.                            *)
LEMMA Heartbeat ==
    ASSUME Chosen, Inv, NEW r \in Runners, Watcher!Beat(r)
    PROVE  /\ state'.etag = state.etag + 1 /\ Watcher!Opened
           /\ RecordOK(state)' /\ state'.doc # None
           /\ state.doc.status = "active" /\ state'.doc.status = "active"
           /\ state'.doc.session = state.doc.session
           /\ state'.doc.fence = state.doc.fence
           /\ ~state.doc.fenced /\ ~state'.doc.fenced /\ state'.doc.assessment = None
           /\ beats < MaxBeats
<1> DEFINE s == runner[r].read
<1>1. /\ state = s /\ RecordOK(s) /\ s.doc # None /\ s.doc.status = "active"
      /\ beats < MaxBeats
  BY DEF Watcher!Beat, Inv, RunnerOK, Watcher!Current
<1>2. DocOK(state.doc) /\ state.etag \in Nat
  BY <1>1 DEF RecordOK, Watcher!Record
<1>3. PICK b \in {state.doc.bound, TRUE} :
         state' = [doc |-> [state.doc EXCEPT !.bound = b], etag |-> state.etag + 1]
  BY <1>1 DEF Watcher!Beat, Watcher!Replace
<1> DEFINE d == [state.doc EXCEPT !.bound = b]
<1>4. d \in Watcher!Doc
  BY <1>2, <1>3 DEF DocOK, Watcher!Doc
<1>5. /\ d.session = state.doc.session /\ d.fence = state.doc.fence
      /\ d.status = state.doc.status /\ d.claimant = state.doc.claimant
      /\ d.fenced = state.doc.fenced /\ d.assessment = state.doc.assessment
      /\ d.receipt = state.doc.receipt
  BY <1>2 DEF DocOK, Watcher!Doc
<1>6. DocOK(d)
  BY <1>2, <1>4, <1>5 DEF DocOK
<1>7. state'.doc = d /\ state'.etag = state.etag + 1
  BY <1>3
<1> HIDE DEF d
<1>8. RecordOK(state)'
  BY <1>2, <1>3, <1>4, <1>6, <1>7 DEF RecordOK, Watcher!Record, d
<1>9. d # None /\ ~state.doc.fenced /\ state.doc.assessment = None
  BY <1>1, <1>2, <1>4 DEF Chosen, DocOK
<1>10. QED BY <1>1, <1>5, <1>7, <1>8, <1>9 DEF Watcher!Opened

(* A cleaner claims the session whose lease has run out.                   *)
LEMMA NewClaim ==
    ASSUME Chosen, Inv, NEW k \in Watchers, Watcher!Claim(k)
    PROVE  /\ state'.etag = state.etag + 1 /\ Watcher!Opened /\ Watcher!Claimable
           /\ RecordOK(state)' /\ state'.doc # None
           /\ state'.doc.status = "claimed" /\ state'.doc.claimant = k
           /\ state'.doc.session = state.doc.session
           /\ state'.doc.fence = state.doc.fence + 1
           /\ ~state'.doc.fenced /\ state'.doc.assessment = None
           /\ state'.doc = Watcher!Claimed(k)
<1>1. /\ cleaner[k].claim = state.doc /\ Watcher!Opened /\ Watcher!Claimable
      /\ state.doc.fence < MaxFence
  BY DEF Watcher!Claim, Inv, CleanerOK, Watcher!Current
<1>2. DocOK(state.doc) /\ state.etag \in Nat
  BY <1>1 DEF Inv, StateOK, RecordOK, Watcher!Record, Watcher!Opened
<1> DEFINE d == Watcher!Claimed(k)
<1>3. /\ d.session = state.doc.session /\ d.fence = state.doc.fence + 1
      /\ d.status = "claimed" /\ d.claimant = k /\ d.fenced = FALSE
      /\ d.assessment = None /\ d.receipt = state.doc.receipt
  BY <1>1, <1>2 DEF DocOK, Watcher!Doc, Watcher!Claimed
<1>4. d \in Watcher!Doc
  <2>1. state.doc.fence + 1 \in 1..MaxFence
    BY <1>1, <1>2 DEF DocOK, Watcher!Doc, Chosen
  <2>2. d = [state.doc EXCEPT !.status = "claimed", !.fence = @ + 1,
                              !.claimant = k, !.fenced = FALSE, !.assessment = None]
    BY <1>1 DEF Watcher!Claimed
  <2> HIDE DEF d
  <2>3. QED BY <1>2, <2>1, <2>2 DEF DocOK, Watcher!Doc
<1>5. state.doc.receipt = None
  BY <1>1, <1>2 DEF Watcher!Claimable, DocOK
<1>6. DocOK(d)
  BY <1>3, <1>4, <1>5 DEF DocOK
<1>7. state' = [doc |-> d, etag |-> state.etag + 1]
  BY DEF Watcher!Claim, Watcher!Replace
<1> HIDE DEF d
<1>8. state'.doc = d /\ state'.etag = state.etag + 1
  BY <1>7
<1>9. RecordOK(state)'
  BY <1>2, <1>4, <1>6, <1>7, <1>8 DEF RecordOK, Watcher!Record
<1>10. d # None
  BY <1>4 DEF Chosen
<1>11. QED BY <1>1, <1>3, <1>8, <1>9, <1>10 DEF d

(* The other three replace the claim of the cleaner and nothing else of    *)
(* its identity.                                                           *)
Same(d) ==
    /\ d.session = state.doc.session /\ d.fence = state.doc.fence
    /\ d.claimant = state.doc.claimant

Own(k) ==
    /\ Watcher!Opened /\ state.doc.status = "claimed" /\ state.doc.claimant = k /\ Held(k)
    /\ DocOK(state.doc) /\ state.etag \in Nat /\ state.doc.receipt = None

LEMMA Owned ==
    ASSUME Inv, NEW k \in Watchers, Watcher!Current(cleaner[k].etag),
           cleaner[k].pc \in {"bindwrite", "renew", "close"}
    PROVE  Own(k)
<1>1. Watcher!MineLate(k) /\ Watcher!Opened /\ cleaner[k].claim.claimant = k
  BY DEF Inv, CleanerOK, Watcher!Current, Claiming
<1>2. DocOK(state.doc) /\ state.etag \in Nat
  BY <1>1 DEF Inv, StateOK, RecordOK, Watcher!Record, Watcher!Opened
<1>3. QED BY <1>1, <1>2 DEF Own, Watcher!MineLate, Held, DocOK

LEMMA Replacing ==
    ASSUME Chosen, NEW d, DocOK(d), state.etag \in Nat, Watcher!Replace(d)
    PROVE  /\ state'.etag = state.etag + 1 /\ RecordOK(state)'
           /\ state'.doc = d /\ state'.doc # None
<1>1. d \in Watcher!Doc /\ d # None
  BY DEF DocOK, Chosen
<1>2. state'.doc = d /\ state'.etag = state.etag + 1
  BY DEF Watcher!Replace
<1>3. state' \in Watcher!Record
  BY <1>1 DEF Watcher!Replace, Watcher!Record
<1>4. QED BY <1>1, <1>2, <1>3 DEF RecordOK

LEMMA Binding ==
    ASSUME Chosen, Inv, NEW k \in Watchers, Watcher!Bind(k)
    PROVE  /\ Own(k) /\ Same(state'.doc)
           /\ state'.etag = state.etag + 1 /\ RecordOK(state)' /\ state'.doc # None
           /\ state'.doc.status = "claimed" /\ state'.doc.fenced
           /\ state'.doc.assessment = state.doc.assessment /\ Watcher!Published(state.doc)
<1>1. Own(k) /\ Watcher!Published(state.doc)
  BY Owned DEF Watcher!Bind, Inv, CleanerOK, Watcher!Current
<1> DEFINE d == [state.doc EXCEPT !.fenced = TRUE]
<1>2. d \in Watcher!Doc
  BY <1>1 DEF Own, DocOK, Watcher!Doc
<1>3. /\ Same(d) /\ d.status = "claimed" /\ d.fenced
      /\ d.assessment = state.doc.assessment /\ d.receipt = None
  BY <1>1 DEF Own, Same, DocOK, Watcher!Doc
<1>4. DocOK(d)
  BY <1>2, <1>3 DEF DocOK
<1>5. Watcher!Replace(d) /\ state.etag \in Nat
  BY <1>1 DEF Watcher!Bind, Own
<1> HIDE DEF d
<1>6. QED BY <1>1, <1>3, <1>4, <1>5, Replacing

LEMMA Renewal ==
    ASSUME Chosen, Inv, NEW k \in Watchers, Watcher!Renew(k)
    PROVE  /\ Own(k) /\ Same(state'.doc)
           /\ state'.etag = state.etag + 1 /\ RecordOK(state)' /\ state'.doc # None
           /\ state'.doc.status = "claimed" /\ state'.doc.fenced
           /\ state'.doc.assessment \in Watcher!Assessment
           /\ state'.doc.assessment.sealed => bridge = "sealed"
           /\ state'.doc = [state.doc EXCEPT !.assessment = cleaner[k].look]
<1> DEFINE d == [state.doc EXCEPT !.assessment = cleaner[k].look]
<1>1. Own(k) /\ cleaner[k].look \in Watcher!Assessment /\ state.doc.fenced
      /\ (cleaner[k].look.sealed => bridge = "sealed")
  BY Owned DEF Watcher!Renew, Inv, CleanerOK, Watcher!Current, Own
<1>2. d \in Watcher!Doc
  BY <1>1 DEF Own, DocOK, Watcher!Doc
<1>3. /\ Same(d) /\ d.status = "claimed" /\ d.fenced
      /\ d.assessment = cleaner[k].look /\ d.receipt = None
  BY <1>1 DEF Own, Same, DocOK, Watcher!Doc
<1>4. DocOK(d)
  BY <1>2, <1>3 DEF DocOK
<1>5. Watcher!Replace(d) /\ state.etag \in Nat
  BY <1>1 DEF Watcher!Renew, Own
<1> HIDE DEF d
<1>6. /\ state'.etag = state.etag + 1 /\ RecordOK(state)'
      /\ state'.doc = d /\ state'.doc # None
  BY <1>4, <1>5, Replacing
<1>7. QED BY <1>1, <1>3, <1>6 DEF d

LEMMA Closing ==
    ASSUME Chosen, Inv, NEW k \in Watchers, Watcher!Close(k)
    PROVE  /\ Own(k) /\ Same(state'.doc)
           /\ state'.etag = state.etag + 1 /\ RecordOK(state)' /\ state'.doc # None
           /\ state'.doc.status = "closed" /\ state'.doc.fenced /\ state.doc.fenced
           /\ state'.doc.assessment = state.doc.assessment
<1> DEFINE d == [state.doc EXCEPT !.status = "closed",
                                  !.receipt = cleaner[k].claim.assessment]
<1>1. Own(k) /\ state.doc.assessment = cleaner[k].claim.assessment
      /\ state.doc.assessment \in Watcher!Assessment
  BY Owned DEF Watcher!Close, Inv, CleanerOK, Watcher!Current
<1>2. d \in Watcher!Doc
  BY <1>1 DEF Own, DocOK, Watcher!Doc
<1>3. state.doc.fenced
  BY <1>1 DEF Own, DocOK, Chosen
<1>4. /\ Same(d) /\ d.status = "closed" /\ d.fenced
      /\ d.assessment = state.doc.assessment /\ d.receipt = state.doc.assessment
  BY <1>1, <1>3 DEF Own, Same, DocOK, Watcher!Doc
<1>5. DocOK(d)
  BY <1>1, <1>2, <1>4 DEF DocOK, Chosen
<1>6. Watcher!Replace(d) /\ state.etag \in Nat
  BY <1>1 DEF Watcher!Close, Own
<1> HIDE DEF d
<1>7. QED BY <1>1, <1>3, <1>4, <1>5, <1>6, Replacing

-----------------------------------------------------------------------------
(* Every step advances *)

(* The record whose marker a step writes is new under its path.            *)
LEMMA Marking ==
    ASSUME NEW s, Watcher!Retain(s)
    PROVE  \A p \in DOMAIN markers : p \in DOMAIN markers' /\ markers'[p] = markers[p]
BY DEF Watcher!Retain, Watcher!Put

(* A new record, and nothing else for the others to see.                   *)
LEMMA Replaced ==
    ASSUME Moved, UNCHANGED <<Watcher!cloud, Watcher!worm>>, closings \subseteq closings'
    PROVE  Advance
BY DEF Advance, Watcher!cloud, Watcher!worm

LEMMA Advances ==
    ASSUME Chosen, Inv, [Watcher!Next]_(Watcher!vars)
    PROVE  Advance
<1>1. CASE UNCHANGED Watcher!vars
  BY <1>1 DEF Advance, Watcher!vars, Watcher!cloud, Watcher!worm
<1>2. ASSUME NEW r \in Runners, Watcher!Runner(r)
      PROVE  Advance
  <2>1. CASE Watcher!Open(r) \/ Watcher!BeatRead(r) \/ Watcher!RunnerLost(r)
    BY <2>1 DEF Advance, Watcher!Open, Watcher!BeatRead, Watcher!RunnerLost,
                Watcher!cloud, Watcher!worm
  <2>2. CASE Watcher!OpenRetain(r)
    BY <2>2, Marking DEF Advance, Watcher!OpenRetain, Watcher!cloud
  <2>3. CASE Watcher!OpenWrite(r)
    <3>1. Moved
      BY <2>3, Opening DEF Moved, Inv, StateOK, RecordOK, DocOK, Watcher!Doc,
                           Watcher!Opened
    <3>2. UNCHANGED <<Watcher!cloud, Watcher!worm>> /\ closings \subseteq closings'
      BY <2>3 DEF Watcher!OpenWrite
    <3>3. QED BY <3>1, <3>2, Replaced
  <2>4. CASE Watcher!Beat(r)
    <3>1. Moved
      BY <2>4, Heartbeat DEF Moved, Inv, StateOK, RecordOK, DocOK, Watcher!Doc,
                             Watcher!Opened
    <3>2. UNCHANGED <<Watcher!cloud, Watcher!worm>> /\ closings \subseteq closings'
      BY <2>4 DEF Watcher!Beat
    <3>3. QED BY <3>1, <3>2, Replaced
  <2>5. CASE Watcher!Work(r)
    <3>1. Watcher!Opened => ~state.doc.fenced
      BY <2>5 DEF Watcher!Work, Inv, RunnerOK, StateOK, Revoked
    <3>2. QED BY <2>5, <3>1 DEF Advance, Watcher!Work, Watcher!worm
  <2>6. CASE Watcher!Finish(r)
    BY <2>6 DEF Advance, Watcher!Finish, Watcher!worm
  <2>7. QED BY <1>2, <2>1, <2>2, <2>3, <2>4, <2>5, <2>6 DEF Watcher!Runner
<1>3. ASSUME NEW k \in Watchers,
             Watcher!Sweep(k) \/ Watcher!Reconcile(k) \/ Watcher!Crash(k)
      PROVE  Advance
  <2>1. CASE \/ Watcher!Sweep(k) \/ Watcher!BindRead(k) \/ Watcher!Load(k)
             \/ Watcher!Assess(k) \/ Watcher!Reload(k)
             \/ Watcher!Final(k) \/ Watcher!Fail(k) \/ Watcher!Crash(k)
    BY <2>1 DEF Advance, Watcher!Sweep, Watcher!BindRead, Watcher!Load, Watcher!Assess,
                Watcher!Reload, Watcher!Final, Watcher!Fail, Watcher!Crash,
                Watcher!cloud, Watcher!worm
  <2>2. CASE Watcher!Act(k)
    BY <2>2 DEF Advance, Watcher!Act, Watcher!worm, Inv, Types
  <2>3. CASE Watcher!Receipt(k)
    BY <2>3 DEF Advance, Watcher!Receipt, Watcher!cloud
  <2>4. CASE Watcher!Marker(k)
    BY <2>4, Marking DEF Advance, Watcher!Marker, Watcher!cloud
  <2>5. CASE Watcher!Claim(k)
    <3>1. Moved
      BY <2>5, NewClaim DEF Moved, Watcher!Claimable, Inv, StateOK, RecordOK, DocOK,
                            Watcher!Doc, Watcher!Opened
    <3>2. UNCHANGED <<Watcher!cloud, Watcher!worm>> /\ closings \subseteq closings'
      BY <2>5 DEF Watcher!Claim
    <3>3. QED BY <3>1, <3>2, Replaced
  <2>6. CASE Watcher!Bind(k)
    <3>1. Moved
      BY <2>6, Binding DEF Moved, Own, Same, DocOK, Watcher!Doc
    <3>2. UNCHANGED <<Watcher!cloud, Watcher!worm>> /\ closings \subseteq closings'
      BY <2>6 DEF Watcher!Bind
    <3>3. QED BY <3>1, <3>2, Replaced
  <2>7. CASE Watcher!Renew(k)
    <3>0. /\ Own(k) /\ Same(state'.doc) /\ state'.etag = state.etag + 1
          /\ state'.doc # None /\ state'.doc.fenced
      BY <2>7, Renewal
    <3>1. Moved
      BY <3>0 DEF Moved, Own, Same, DocOK, Watcher!Doc
    <3>2. UNCHANGED <<Watcher!cloud, Watcher!worm>> /\ closings \subseteq closings'
      BY <2>7 DEF Watcher!Renew
    <3>3. QED BY <3>1, <3>2, Replaced
  <2>8. CASE Watcher!Close(k)
    <3>1. Moved
      BY <2>8, Closing DEF Moved, Own, Same, DocOK, Watcher!Doc
    <3>2. UNCHANGED <<Watcher!cloud, Watcher!worm>> /\ closings \subseteq closings'
      BY <2>8 DEF Watcher!Close
    <3>3. QED BY <3>1, <3>2, Replaced
  <2>9. QED
    BY <1>3, <2>1, <2>2, <2>3, <2>4, <2>5, <2>6, <2>7, <2>8 DEF Watcher!Reconcile
<1>4. CASE Watcher!Revoke \/ Watcher!Publish \/ Watcher!Lapse
  BY <1>4 DEF Advance, Watcher!Revoke, Watcher!Publish, Watcher!Lapse, Watcher!cloud,
              Watcher!worm
<1>5. QED BY <1>1, <1>2, <1>3, <1>4 DEF Watcher!Next

-----------------------------------------------------------------------------
(* The state *)

(* What the state says of the rest of the bridge.                          *)
Claims ==
    /\ Watcher!Opened => /\ state.doc.fenced => Revoked(state.doc)
                         /\ state.doc.assessment # None /\ state.doc.assessment.sealed =>
                                bridge = "sealed"
                         /\ state.doc.status = "closed" => state \in closings
    /\ \A p \in fences : p \in Watcher!Path /\ Generation[p[1]] \in revoked

(* As long as the document stays, they are stable.                         *)
LEMMA ClaimsKept ==
    ASSUME Chosen, Inv, Advance, state' = state,
           \A p \in fences' : p \in fences \/ (p \in Watcher!Path /\ Generation[p[1]] \in revoked)
    PROVE  StateOK'
<1>1. RecordOK(state)'
  BY DEF Inv, StateOK, RecordOK, Watcher!Record, DocOK
<1>2. \A p \in fences' : p \in Watcher!Path /\ Generation[p[1]] \in revoked'
  BY DEF Inv, StateOK, Advance
<1>3. Watcher!Opened /\ state.doc.assessment # None => state.doc.fenced
  BY DEF Inv, StateOK, RecordOK, DocOK, Watcher!Opened
<1>4. QED BY <1>1, <1>2, <1>3 DEF Inv, StateOK, Advance, Revoked, Watcher!Opened

LEMMA StateKept ==
    ASSUME Chosen, Inv, Advance, state' = state, fences' = fences
    PROVE  StateOK'
BY ClaimsKept

LEMMA StateStep ==
    ASSUME Chosen, Inv, [Watcher!Next]_(Watcher!vars)
    PROVE  StateOK'
<1>0. Advance /\ StateOK
  BY Advances DEF Inv
<1>1. CASE UNCHANGED Watcher!vars
  BY <1>0, <1>1, StateKept DEF Watcher!vars, Watcher!cloud
<1>2. ASSUME NEW r \in Runners, Watcher!Runner(r)
      PROVE  StateOK'
  <2>1. CASE \/ Watcher!Open(r) \/ Watcher!BeatRead(r) \/ Watcher!RunnerLost(r)
             \/ Watcher!OpenRetain(r) \/ Watcher!Work(r)
             \/ Watcher!Finish(r)
    BY <1>0, <2>1, StateKept
       DEF Watcher!Open, Watcher!BeatRead, Watcher!RunnerLost, Watcher!OpenRetain,
           Watcher!Work, Watcher!Finish, Watcher!cloud
  <2>2. CASE Watcher!OpenWrite(r)
    BY <1>0, <2>2, Opening DEF Watcher!OpenWrite, StateOK, Watcher!cloud, Watcher!Opened
  <2>3. CASE Watcher!Beat(r)
    BY <1>0, <2>3, Heartbeat DEF Watcher!Beat, StateOK, Watcher!cloud, Watcher!Opened
  <2>4. QED BY <1>2, <2>1, <2>2, <2>3 DEF Watcher!Runner
<1>3. ASSUME NEW k \in Watchers,
             Watcher!Sweep(k) \/ Watcher!Reconcile(k) \/ Watcher!Crash(k)
      PROVE  StateOK'
  <2>1. CASE \/ Watcher!Sweep(k) \/ Watcher!BindRead(k) \/ Watcher!Load(k)
             \/ Watcher!Assess(k) \/ Watcher!Reload(k)
             \/ Watcher!Final(k) \/ Watcher!Fail(k) \/ Watcher!Crash(k)
             \/ Watcher!Act(k) \/ Watcher!Receipt(k) \/ Watcher!Marker(k)
    BY <1>0, <2>1, StateKept
       DEF Watcher!Sweep, Watcher!BindRead, Watcher!Load, Watcher!Assess,
           Watcher!Reload, Watcher!Final, Watcher!Fail, Watcher!Crash, Watcher!Act,
           Watcher!Receipt,
           Watcher!Marker, Watcher!cloud
  <2>2. CASE Watcher!Claim(k)
    BY <1>0, <2>2, NewClaim DEF Watcher!Claim, StateOK, Watcher!cloud, Watcher!Opened
  <2>3. CASE Watcher!Bind(k)
    <3>1. Revoked(state.doc)
      BY <1>0, <2>3, Binding DEF Watcher!Published, Watcher!Where, StateOK, Revoked
    <3>2. Own(k) /\ (state.doc.assessment # None => state.doc.fenced)
      BY <2>3, Binding DEF Own, DocOK
    <3>3. QED BY <1>0, <2>3, <3>1, <3>2, Binding
              DEF Watcher!Bind, StateOK, Watcher!cloud, Watcher!Opened, Own, Same,
                  Revoked
  <2>4. CASE Watcher!Renew(k)
    <3>1. state.doc.fenced /\ Watcher!Opened
      BY <2>4, Renewal, Owned DEF Watcher!Renew, Own, Inv, CleanerOK, Watcher!Current
    <3>2. QED BY ZenonT(60), <1>0, <2>4, <3>1, Renewal
              DEF Watcher!Renew, StateOK, Watcher!cloud, Watcher!Opened, Same, Revoked
  <2>5. CASE Watcher!Close(k)
    BY <1>0, <2>5, Closing DEF Watcher!Close, StateOK, Watcher!cloud, Watcher!Opened,
                               Own, Same, Revoked
  <2>6. QED BY <1>3, <2>1, <2>2, <2>3, <2>4, <2>5 DEF Watcher!Reconcile
<1>4. CASE Watcher!Revoke \/ Watcher!Lapse
  BY <1>0, <1>4, StateKept DEF Watcher!Revoke, Watcher!Lapse, Watcher!cloud
<1>5. CASE Watcher!Publish
  <2>1. Watcher!Where(state.doc) \in Watcher!Path
    BY <1>0, <1>5 DEF Watcher!Publish, StateOK, RecordOK, DocOK, Watcher!Doc,
                      Watcher!Where, Watcher!Path, Watcher!Opened
  <2>2. Watcher!Where(state.doc)[1] = state.doc.session
    BY DEF Watcher!Where
  <2>3. QED BY <1>0, <1>5, <2>1, <2>2, ClaimsKept DEF Watcher!Publish
<1>6. QED BY <1>1, <1>2, <1>3, <1>4, <1>5 DEF Watcher!Next

-----------------------------------------------------------------------------
(* The closings and their markers *)

LEMMA RetainedKept ==
    ASSUME NEW s, Watcher!Retained(s), Advance
    PROVE  Watcher!Retained(s)'
BY DEF Watcher!Retained, Advance

(* A record that is retained is retained under its own path, whoever wrote *)
(* the marker.                                                             *)
LEMMA Retains ==
    ASSUME Inv, NEW s \in closings, Watcher!Retain(s)
    PROVE  /\ Watcher!Retained(s)'
           /\ \A p \in DOMAIN markers' : (p \in DOMAIN markers /\ markers'[p] = markers[p])
                                         \/ (p = Watcher!Where(s.doc) /\ markers'[p] = s)
<1>1. CASE Watcher!Where(s.doc) \in DOMAIN markers
  <2>1. markers[Watcher!Where(s.doc)] = s
    <3> DEFINE c == markers[Watcher!Where(s.doc)]
    <3>1. c \in closings /\ Watcher!Where(c.doc) = Watcher!Where(s.doc)
      BY <1>1 DEF Inv, RecordsOK
    <3>2. c.doc.fence = s.doc.fence
      BY <3>1 DEF Watcher!Where
    <3>3. QED BY <3>1, <3>2 DEF Inv, RecordsOK
  <2>2. QED BY <1>1, <2>1 DEF Watcher!Retain, Watcher!Retained
<1>2. CASE Watcher!Where(s.doc) \notin DOMAIN markers
  <2>1. markers' = Watcher!Put(markers, Watcher!Where(s.doc), s)
    BY <1>2 DEF Watcher!Retain
  <2>2. DOMAIN markers' = DOMAIN markers \cup {Watcher!Where(s.doc)}
    BY <2>1 DEF Watcher!Put
  <2>3. \A p \in DOMAIN markers' :
           markers'[p] = IF p = Watcher!Where(s.doc) THEN s ELSE markers[p]
    BY <2>1, <2>2 DEF Watcher!Put
  <2>4. QED BY <1>2, <2>2, <2>3 DEF Watcher!Retained
<1>3. QED BY <1>1, <1>2

(* A step that closes nothing keeps what is said of them.                  *)
LEMMA RecordsKept ==
    ASSUME Chosen, Inv, Advance, StateOK', closings' = closings,
           \A p \in DOMAIN markers' :
               /\ markers'[p] \in closings /\ Watcher!Where(markers'[p].doc) = p
    PROVE  RecordsOK'
<1>1. RecordsOK /\ StateOK
  BY DEF Inv
<1>2. ASSUME NEW c \in closings
      PROVE  /\ RecordOK(c)' /\ c.doc # None /\ c.doc.status = "closed"
             /\ Watcher!Opened' /\ c.doc.fence <= state'.doc.fence
             /\ c.doc.fence = state'.doc.fence => c = state'
             /\ state' = c \/ Watcher!Retained(c)'
  <2>1. /\ RecordOK(c) /\ c.doc # None /\ c.doc.status = "closed"
        /\ Watcher!Opened /\ c.doc.fence <= state.doc.fence
        /\ c.doc.fence = state.doc.fence => c = state
        /\ state = c \/ Watcher!Retained(c)
    BY <1>1, <1>2 DEF RecordsOK, Watcher!ClosingRetained
  <2>2. RecordOK(c)' /\ c.doc.fence \in Nat /\ state.doc.fence \in Nat
    BY <1>1, <2>1 DEF RecordOK, DocOK, StateOK, Watcher!Doc, Watcher!Opened, Chosen
  <2>3. CASE state' = state
    BY <2>1, <2>2, <2>3, RetainedKept DEF Watcher!Opened
  <2>4. CASE Moved
    <3>1. Watcher!Opened' /\ state'.doc.fence \in Nat /\ state.doc.fence <= state'.doc.fence
      BY <2>1, <2>4 DEF Moved, Watcher!Opened, StateOK, RecordOK, DocOK, Watcher!Doc,
                        Chosen
    <3>2. c.doc.fence # state'.doc.fence
      BY <2>1, <2>2, <2>4, <3>1 DEF Moved
    <3>3. Watcher!Retained(c)
      BY <2>1, <2>4 DEF Moved
    <3>4. Watcher!Retained(c)'
      BY <3>3, RetainedKept
    <3>5. QED BY <2>1, <2>2, <3>1, <3>2, <3>4
  <2>5. QED BY <2>3, <2>4 DEF Advance
<1>3. \A c, d \in closings' : c.doc.fence = d.doc.fence => c = d
  BY <1>1 DEF RecordsOK
<1>4. QED BY <1>2, <1>3 DEF RecordsOK, Watcher!ClosingRetained

LEMMA RecordsStep ==
    ASSUME Chosen, Inv, [Watcher!Next]_(Watcher!vars)
    PROVE  RecordsOK'
<1>0. Advance /\ StateOK' /\ RecordsOK /\ StateOK
  BY Advances, StateStep DEF Inv
<1>1. ASSUME closings' = closings, markers' = markers
      PROVE  RecordsOK'
  BY <1>0, <1>1, RecordsKept DEF RecordsOK
<1>2. ASSUME NEW s \in closings, Watcher!Retain(s), closings' = closings
      PROVE  RecordsOK'
  <2>1. \A p \in DOMAIN markers' :
            /\ markers'[p] \in closings /\ Watcher!Where(markers'[p].doc) = p
    BY <1>0, <1>2, Retains DEF RecordsOK
  <2>2. QED BY <1>0, <1>2, <2>1, RecordsKept
<1>3. CASE UNCHANGED Watcher!vars
  BY <1>1, <1>3 DEF Watcher!vars, Watcher!worm
<1>4. ASSUME NEW r \in Runners, Watcher!Runner(r)
      PROVE  RecordsOK'
  <2>1. CASE \/ Watcher!Open(r) \/ Watcher!BeatRead(r) \/ Watcher!RunnerLost(r)
             \/ Watcher!OpenWrite(r) \/ Watcher!Beat(r)
             \/ Watcher!Work(r) \/ Watcher!Finish(r)
    BY <1>1, <2>1 DEF Watcher!Open, Watcher!BeatRead, Watcher!RunnerLost,
                      Watcher!OpenWrite, Watcher!Beat, Watcher!Work, Watcher!Finish,
                      Watcher!worm
  <2>2. CASE Watcher!OpenRetain(r)
    <3>1. runner[r].read \in closings
      BY <2>2 DEF Watcher!OpenRetain, Inv, RunnerOK
    <3>2. QED BY <1>2, <2>2, <3>1 DEF Watcher!OpenRetain
  <2>3. QED BY <1>4, <2>1, <2>2 DEF Watcher!Runner
<1>5. ASSUME NEW k \in Watchers,
             Watcher!Sweep(k) \/ Watcher!Reconcile(k) \/ Watcher!Crash(k)
      PROVE  RecordsOK'
  <2>1. CASE \/ Watcher!Sweep(k) \/ Watcher!BindRead(k) \/ Watcher!Load(k)
             \/ Watcher!Assess(k) \/ Watcher!Reload(k)
             \/ Watcher!Final(k) \/ Watcher!Fail(k) \/ Watcher!Crash(k)
             \/ Watcher!Act(k) \/ Watcher!Receipt(k) \/ Watcher!Claim(k)
             \/ Watcher!Bind(k) \/ Watcher!Renew(k)
    BY <1>1, <2>1
       DEF Watcher!Sweep, Watcher!BindRead, Watcher!Load, Watcher!Assess,
           Watcher!Reload, Watcher!Final, Watcher!Fail, Watcher!Crash, Watcher!Act,
           Watcher!Receipt,
           Watcher!Claim, Watcher!Bind, Watcher!Renew, Watcher!worm
  <2>2. CASE Watcher!Marker(k)
    <3>1. [doc |-> cleaner[k].claim, etag |-> cleaner[k].etag] \in closings
      BY <2>2 DEF Watcher!Marker, Inv, CleanerOK
    <3>2. QED BY <1>2, <2>2, <3>1 DEF Watcher!Marker
  <2>3. CASE Watcher!Close(k)
    <3>1. /\ Own(k) /\ Same(state'.doc) /\ RecordOK(state)' /\ state'.doc # None
          /\ state'.doc.status = "closed"
      BY <2>3, Closing
    <3>2. closings' = closings \cup {state'} /\ markers' = markers
      BY <2>3 DEF Watcher!Close, Watcher!worm
    <3>3. Watcher!Opened /\ state.doc.status = "claimed" /\ state.doc.fence \in Nat
          /\ state'.doc.fence = state.doc.fence
      BY <3>1 DEF Own, Same, DocOK, Watcher!Doc
    <3>4. ASSUME NEW c \in closings
          PROVE  /\ RecordOK(c)' /\ c.doc # None /\ c.doc.status = "closed"
                 /\ c.doc.fence \in Nat /\ c.doc.fence < state'.doc.fence
                 /\ Watcher!Retained(c)'
      <4>1. RecordOK(c) /\ c.doc # None /\ c.doc.status = "closed" /\ c # state
        BY <1>0, <3>3 DEF RecordsOK
      <4>2. Watcher!Retained(c) /\ c.doc.fence <= state.doc.fence /\ c.doc.fence # state.doc.fence
        BY <1>0, <4>1 DEF RecordsOK, Watcher!ClosingRetained
      <4>3. RecordOK(c)' /\ c.doc.fence \in Nat
        BY <4>1 DEF RecordOK, DocOK, Watcher!Doc, Chosen
      <4>4. QED BY <1>0, <3>3, <4>1, <4>2, <4>3, RetainedKept
    <3>5. \A p \in DOMAIN markers' : markers'[p] \in closings' /\ Watcher!Where(markers'[p].doc) = p
      BY <1>0, <3>2 DEF RecordsOK
    <3>6. ASSUME NEW c \in closings'
          PROVE  /\ RecordOK(c)' /\ c.doc # None /\ c.doc.status = "closed"
                 /\ Watcher!Opened' /\ c.doc.fence <= state'.doc.fence
                 /\ c.doc.fence = state'.doc.fence => c = state'
                 /\ state' = c \/ Watcher!Retained(c)'
      <4>1. CASE c = state'
        BY <3>1, <3>3, <4>1 DEF Watcher!Opened
      <4>2. CASE c \in closings
        BY <3>1, <3>3, <3>4, <4>2 DEF Watcher!Opened
      <4>3. QED BY <3>2, <4>1, <4>2
    <3>7. \A c, d \in closings' : c.doc.fence = d.doc.fence => c = d
      BY <1>0, <3>2, <3>3, <3>4 DEF RecordsOK
    <3>8. QED BY <3>5, <3>6, <3>7 DEF RecordsOK, Watcher!ClosingRetained
  <2>4. QED BY <1>5, <2>1, <2>2, <2>3 DEF Watcher!Reconcile
<1>6. CASE Watcher!Revoke \/ Watcher!Publish \/ Watcher!Lapse
  BY <1>1, <1>6 DEF Watcher!Revoke, Watcher!Publish, Watcher!Lapse, Watcher!worm
<1>7. QED BY <1>3, <1>4, <1>5, <1>6 DEF Watcher!Next

-----------------------------------------------------------------------------
(* The runners *)

(* A step of somebody else leaves a runner what it knows.                  *)
LEMMA RunnerFrame ==
    ASSUME Chosen, Inv, Advance, StateOK', NEW r \in Runners, runner'[r] = runner[r]
    PROVE  RunnerOK(r)'
<1> DEFINE s == runner[r].read
<1>1. RunnerOK(r) /\ StateOK
  BY DEF Inv
<1>2. RecordOK(s)'
  BY <1>1 DEF RunnerOK, RecordOK, DocOK
<1>3. s.etag \in Nat /\ state.etag \in Nat
  BY <1>1 DEF RunnerOK, StateOK, RecordOK, Watcher!Record
<1>4. runner[r].pc \in {"retain", "open", "beat"} =>
          /\ s.etag <= state'.etag
          /\ s.etag = state'.etag => s = state' /\ state' = state /\ beats' = beats
  BY <1>1, <1>3 DEF RunnerOK, Advance, Moved
<1>5. ASSUME runner[r].pc \in {"active", "beat"}, Generation[r] \notin revoked'
      PROVE  Watcher!Opened' /\ state'.doc.session = r /\ state'.doc.status # "closed"
  <2>1. /\ Generation[r] \notin revoked /\ Watcher!Opened /\ state.doc.session = r
        /\ state.doc.status # "closed"
    BY <1>1, <1>5 DEF RunnerOK, Advance
  <2>2. CASE state' = state
    BY <2>1, <2>2 DEF Watcher!Opened
  <2>3. CASE Moved
    <3>1. Watcher!Opened' /\ state'.doc.session = r
      BY <2>1, <2>3 DEF Moved, Watcher!Opened
    <3>2. QED BY <1>5, <3>1 DEF StateOK, RecordOK, DocOK, Revoked, Watcher!Opened
  <2>4. QED BY <2>2, <2>3 DEF Advance
<1>6. runner[r].pc = "open" /\ s.doc # None => Watcher!Retained(s)'
  BY <1>1, RetainedKept DEF RunnerOK
<1>7. runner[r].pc \in {"retain", "open"} /\ s.doc # None => s \in closings'
  BY <1>1 DEF RunnerOK, Advance
<1>8. runner[r].pc = "beat" /\ s.etag = state'.etag => beats' < MaxBeats
  BY <1>1, <1>4 DEF RunnerOK
<1>9. runner[r].pc \in {"active", "beat"} => Watcher!Opened'
  BY <1>1 DEF RunnerOK, Advance, Moved, Watcher!Opened
<1>10. QED BY <1>1, <1>2, <1>4, <1>5, <1>6, <1>7, <1>8, <1>9 DEF RunnerOK

LEMMA RunnerStep ==
    ASSUME Chosen, Inv, [Watcher!Next]_(Watcher!vars), NEW r \in Runners
    PROVE  RunnerOK(r)'
<1>0. Advance /\ StateOK' /\ StateOK /\ RunnerOK(r) /\ Types
  BY Advances, StateStep DEF Inv
<1>1. ASSUME runner' = runner
      PROVE  RunnerOK(r)'
  BY <1>0, <1>1, RunnerFrame
<1>2. ASSUME NEW q \in Runners, q # r, NEW x, runner' = [runner EXCEPT ![q] = x]
      PROVE  RunnerOK(r)'
  <2>1. runner'[r] = runner[r]
    BY <1>0, <1>2 DEF Types
  <2>2. QED BY <1>0, <2>1, RunnerFrame
<1>3. ASSUME NEW label, NEW record, Watcher!Runs(r, label, record)
      PROVE  runner'[r] = [pc |-> label, read |-> record]
  BY <1>0, <1>3 DEF Watcher!Runs, Types
<1>4. RecordOK(Watcher!NoRecord)' /\ RecordOK(state)'
  BY <1>0 DEF RecordOK, Watcher!NoRecord, Watcher!Record, StateOK
<1>5. ASSUME NEW q \in Runners, Watcher!Runner(q), q # r
      PROVE  RunnerOK(r)'
  <2>1. CASE Watcher!OpenRetain(q)
    BY <1>2, <1>5, <2>1 DEF Watcher!OpenRetain
  <2>2. CASE Watcher!Work(q) \/ Watcher!Finish(q)
    BY <1>1, <2>2 DEF Watcher!Work, Watcher!Finish
  <2>3. CASE Watcher!Open(q) \/ Watcher!BeatRead(q)
    BY <1>2, <1>5, <2>3 DEF Watcher!Open, Watcher!BeatRead, Watcher!Runs
  <2>4. CASE Watcher!OpenWrite(q) \/ Watcher!Beat(q) \/ Watcher!RunnerLost(q)
    BY <1>2, <1>5, <2>4 DEF Watcher!OpenWrite, Watcher!Beat, Watcher!RunnerLost,
                            Watcher!Runs
  <2>5. QED BY <1>5, <2>1, <2>2, <2>3, <2>4 DEF Watcher!Runner
<1>6. ASSUME Watcher!Runner(r)
      PROVE  RunnerOK(r)'
  <2>1. CASE Watcher!Open(r)
    <3>1. state' = state /\ closings' = closings /\ beats' = beats
      BY <2>1 DEF Watcher!Open
    <3>2. runner'[r] = [pc |-> IF Watcher!Opened THEN "retain" ELSE "open", read |-> state]
      BY <1>3, <2>1 DEF Watcher!Open
    <3>3. Watcher!Opened => /\ state.doc.status = "closed" /\ state \in closings
                            /\ Generation[state.doc.session] # Generation[r]
      BY <1>0, <2>1 DEF Watcher!Open, StateOK
    <3>4. state.etag \in Nat /\ RecordOK(state)'
      BY <1>0, <1>4, <3>1 DEF StateOK, RecordOK, Watcher!Record
    <3>5. QED BY <3>1, <3>2, <3>3, <3>4 DEF RunnerOK, Watcher!Opened
  <2>2. CASE Watcher!OpenRetain(r)
    <3> DEFINE s == runner[r].read
    <3>1. /\ state' = state /\ closings' = closings /\ runner[r].pc = "retain"
      BY <2>2 DEF Watcher!OpenRetain
    <3>2. runner'[r].pc = "open" /\ runner'[r].read = s
      BY <1>0, <2>2 DEF Watcher!OpenRetain, Types
    <3>3. /\ RecordOK(s) /\ s \in closings /\ s.doc # None
          /\ s.etag <= state.etag /\ (s.etag = state.etag => s = state)
          /\ s.doc.status = "closed" /\ Generation[s.doc.session] # Generation[r]
      BY <1>0, <3>1 DEF RunnerOK
    <3>4. Watcher!Retained(s)' /\ RecordOK(s)'
      BY <2>2, <3>3, Retains DEF Watcher!OpenRetain, RecordOK, DocOK
    <3>5. QED BY <3>1, <3>2, <3>3, <3>4 DEF RunnerOK
  <2>3. CASE Watcher!OpenWrite(r)
    <3>1. runner'[r] = [pc |-> "active", read |-> Watcher!NoRecord]
      BY <1>3, <2>3 DEF Watcher!OpenWrite
    <3>2. state'.doc # None /\ state'.doc.session = r /\ state'.doc.status = "active"
      BY <2>3, Opening
    <3>3. QED BY <1>4, <3>1, <3>2 DEF RunnerOK, Watcher!Opened
  <2>4. CASE Watcher!BeatRead(r)
    <3>1. /\ state' = state /\ revoked' = revoked /\ beats' = beats
          /\ runner[r].pc = "active" /\ beats < MaxBeats
      BY <2>4 DEF Watcher!BeatRead, Watcher!cloud
    <3>2. CASE Watcher!Beating(r)
      <4>1. runner'[r] = [pc |-> "beat", read |-> state]
        BY <1>3, <2>4, <3>2 DEF Watcher!BeatRead
      <4>2. Watcher!Opened
        BY <1>0, <3>1, <3>2 DEF RunnerOK, StateOK, Watcher!Beating, Watcher!Opened
      <4>3. state.etag \in Nat
        BY <1>0 DEF StateOK, RecordOK, Watcher!Record
      <4>4. QED BY <1>0, <1>4, <3>1, <3>2, <4>1, <4>2, <4>3
                DEF RunnerOK, Watcher!Beating, Watcher!Opened
    <3>3. CASE ~Watcher!Beating(r)
      <4>1. runner'[r] = [pc |-> "lost", read |-> Watcher!NoRecord]
        BY <1>3, <2>4, <3>3 DEF Watcher!BeatRead
      <4>2. QED BY <1>4, <4>1 DEF RunnerOK
    <3>4. QED BY <3>2, <3>3
  <2>5. CASE Watcher!Beat(r)
    <3>1. runner'[r] = [pc |-> "active", read |-> Watcher!NoRecord] /\ runner[r].pc = "beat"
      BY <1>3, <2>5 DEF Watcher!Beat
    <3>2. /\ state'.doc # None /\ state'.doc.session = r /\ state'.doc.status = "active"
      BY <1>0, <2>5, Heartbeat DEF Watcher!Beat, RunnerOK, Watcher!Current
    <3>3. QED BY <1>4, <3>1, <3>2 DEF RunnerOK, Watcher!Opened
  <2>6. CASE Watcher!RunnerLost(r)
    <3>1. runner'[r] = [pc |-> "lost", read |-> Watcher!NoRecord]
      BY <1>3, <2>6 DEF Watcher!RunnerLost
    <3>2. QED BY <1>4, <3>1 DEF RunnerOK
  <2>7. CASE Watcher!Work(r) \/ Watcher!Finish(r)
    BY <1>1, <2>7 DEF Watcher!Work, Watcher!Finish
  <2>8. QED BY <1>6, <2>1, <2>2, <2>3, <2>4, <2>5, <2>6, <2>7 DEF Watcher!Runner
<1>7. ASSUME NEW k \in Watchers,
             Watcher!Sweep(k) \/ Watcher!Reconcile(k) \/ Watcher!Crash(k)
      PROVE  RunnerOK(r)'
  BY <1>1, <1>7
     DEF Watcher!Sweep, Watcher!Reconcile, Watcher!Claim, Watcher!BindRead,
         Watcher!Bind, Watcher!Load, Watcher!Act, Watcher!Assess, Watcher!Reload,
         Watcher!Renew,
         Watcher!Receipt, Watcher!Final, Watcher!Close, Watcher!Marker, Watcher!Fail,
         Watcher!Crash
<1>8. CASE UNCHANGED Watcher!vars \/ Watcher!Revoke \/ Watcher!Publish \/ Watcher!Lapse
  BY <1>1, <1>8 DEF Watcher!vars, Watcher!Revoke, Watcher!Publish, Watcher!Lapse
<1>9. QED BY <1>5, <1>6, <1>7, <1>8 DEF Watcher!Next

-----------------------------------------------------------------------------
(* The cleaners *)

(* A step of somebody else leaves a cleaner what it knows.                 *)
LEMMA CleanerFrame ==
    ASSUME Chosen, Inv, Advance, StateOK', NEW k \in Watchers, cleaner'[k] = cleaner[k]
    PROVE  CleanerOK(k)'
<1> DEFINE c == cleaner[k]
<1>1. CleanerOK(k) /\ StateOK /\ c.etag \in Nat
  BY DEF Inv, Types
<1>2. state.etag \in Nat /\ (Watcher!Opened => state.doc.fence \in Nat /\ DocOK(state.doc))
  BY <1>1 DEF StateOK, RecordOK, Watcher!Record, DocOK, Watcher!Doc, Watcher!Opened
<1>3. c.pc # "idle"
      => c.claim \in Watcher!Doc /\ c.claim.fence \in Nat /\ Watcher!Opened /\ Watcher!Opened'
  BY <1>1 DEF CleanerOK, Watcher!Doc, Advance, Moved, Watcher!Opened
<1>4. c.pc \in Claiming => c.claim.claimant = k /\ c.claim.fence <= state.doc.fence
  BY <1>1 DEF CleanerOK
<1>5. c.pc \in Claiming => c.claim.fence <= state'.doc.fence
  <2>1. CASE state' = state
    BY <1>4, <2>1
  <2>2. CASE Moved
    <3>1. state'.doc.fence \in Nat
      BY <2>2 DEF Moved, StateOK, RecordOK, DocOK, Watcher!Doc
    <3>2. QED BY <1>2, <1>3, <1>4, <2>2, <3>1 DEF Moved, Claiming
  <2>3. QED BY <2>1, <2>2 DEF Advance
<1>6. c.pc \in {"claim", "bindwrite", "renew", "close"} =>
          /\ c.etag <= state'.etag
          /\ c.etag = state'.etag => /\ c.etag = state.etag /\ state' = state
                                     /\ (late => late')
  BY <1>1, <1>2 DEF CleanerOK, Advance, Moved
<1>7. c.pc \in Claiming /\ Held(k)' =>
          Held(k) /\ (state.doc.fenced => state'.doc.fenced)
  <2> SUFFICES ASSUME c.pc \in Claiming, Held(k)'
               PROVE  Held(k) /\ (state.doc.fenced => state'.doc.fenced)
    OBVIOUS
  <2>1. Watcher!Opened /\ c.pc # "idle"
    BY <1>3 DEF Claiming
  <2>2. CASE state' = state
    BY <2>2 DEF Held, Watcher!Opened
  <2>3. CASE Moved
    <3>1. state'.doc.fence = c.claim.fence /\ state'.doc.session = c.claim.session
      BY DEF Held
    <3>2. state.doc.fence = c.claim.fence
      BY <1>2, <1>3, <1>4, <2>1, <2>3, <3>1 DEF Moved
    <3>3. state.doc.status # "closed"
      BY <1>2, <2>1, <2>3, <3>1, <3>2 DEF Moved
    <3>4. QED BY <2>1, <2>3, <3>1, <3>2, <3>3 DEF Moved, Held
  <2>4. QED BY <2>2, <2>3 DEF Advance
<1>8. c.pc \in {"bindwrite", "renew", "close"} /\ c.etag = state'.etag
      => Watcher!MineLate(k)'
  BY <1>1, <1>6 DEF CleanerOK, Watcher!MineLate
<1>9. c.pc = "claim" /\ c.etag = state'.etag => c.claim = state'.doc /\ Watcher!Claimable'
  BY <1>1, <1>6 DEF CleanerOK, Watcher!Claimable
<1>10. c.pc = "bindwrite" /\ c.etag = state'.etag => Watcher!Published(state.doc)'
  BY <1>1, <1>6 DEF CleanerOK, Watcher!Published, Advance
<1>11. c.pc \in {"act", "assess", "reload", "renew"} /\ Held(k)' => state'.doc.fenced
  BY <1>1, <1>7 DEF CleanerOK, Claiming
<1>12. c.pc \in {"reload", "renew"} /\ Held(k)' /\ c.look.sealed => bridge' = "sealed"
  BY <1>1, <1>3, <1>7 DEF CleanerOK, Claiming, Advance
<1>13. c.pc = "marker" => [doc |-> c.claim, etag |-> c.etag] \in closings'
  BY <1>1 DEF CleanerOK, Advance
<1>14. c.pc = "close" /\ c.etag = state'.etag => state'.doc.assessment = c.claim.assessment
  BY <1>1, <1>6 DEF CleanerOK
<1>15. QED
  BY <1>1, <1>3, <1>4, <1>5, <1>6, <1>8, <1>9, <1>10, <1>11, <1>12, <1>13, <1>14
     DEF CleanerOK

(* A cleaner at rest knows nothing.                                        *)
LEMMA Resting ==
    ASSUME Inv, NEW k \in Watchers, Watcher!Give(k)
    PROVE  CleanerOK(k)'
BY DEF Watcher!Give, Inv, Types, CleanerOK, Watcher!Rest, Claiming

(* What a step of a cleaner writes of itself.                              *)
Fields == [pc: Watcher!Counter, etag: Nat, claim: Watcher!Doc \cup {None},
           round: {"stage", "refresh"}, look: Watcher!Assessment \cup {None}]

LEMMA Writes ==
    ASSUME Inv, NEW k \in Watchers
    PROVE  /\ DOMAIN cleaner = Watchers /\ cleaner[k] \in Fields
           /\ \A label : Watcher!Move(k, label) => /\ cleaner'[k].pc = label
                                    /\ cleaner'[k].claim = cleaner[k].claim
           /\ \A label : Watcher!Read(k, label) => /\ cleaner'[k].pc = label
                                    /\ cleaner'[k].etag = state.etag
                                    /\ cleaner'[k].claim = cleaner[k].claim
                                    /\ cleaner'[k].look = cleaner[k].look
<1>1. DOMAIN cleaner = Watchers /\ cleaner[k] \in Fields
  BY DEF Inv, Types, Fields
<1>2. ASSUME NEW label, Watcher!Move(k, label)
      PROVE  cleaner'[k].pc = label /\ cleaner'[k].claim = cleaner[k].claim
  BY <1>1, <1>2 DEF Watcher!Move, Fields
<1>3. ASSUME NEW label, Watcher!Read(k, label)
      PROVE  /\ cleaner'[k].pc = label /\ cleaner'[k].etag = state.etag
             /\ cleaner'[k].claim = cleaner[k].claim
             /\ cleaner'[k].look = cleaner[k].look
  BY <1>1, <1>3 DEF Watcher!Read, Fields
<1>4. QED BY <1>1, <1>2, <1>3

LEMMA CleanerStep ==
    ASSUME Chosen, Inv, [Watcher!Next]_(Watcher!vars), NEW k \in Watchers
    PROVE  CleanerOK(k)'
<1>0. /\ Advance /\ StateOK' /\ StateOK /\ CleanerOK(k) /\ Types
      /\ state.etag \in Nat /\ (Watcher!Opened => state.doc.fence \in Nat /\ state.doc \in Watcher!Doc)
  BY Advances, StateStep DEF Inv, StateOK, RecordOK, DocOK, Watcher!Doc,
                             Watcher!Record, Watcher!Opened
<1>1. ASSUME cleaner' = cleaner
      PROVE  CleanerOK(k)'
  BY <1>0, <1>1, CleanerFrame
<1>2. ASSUME NEW q \in Watchers, q # k, NEW x, cleaner' = [cleaner EXCEPT ![q] = x]
      PROVE  CleanerOK(k)'
  <2>1. cleaner'[k] = cleaner[k]
    BY <1>0, <1>2 DEF Types
  <2>2. QED BY <1>0, <2>1, CleanerFrame
<1>3. ASSUME NEW q \in Watchers,
             Watcher!Sweep(q) \/ Watcher!Reconcile(q) \/ Watcher!Crash(q), q # k
      PROVE  CleanerOK(k)'
  <2>1. CASE Watcher!Sweep(q)
    BY <1>2, <1>3, <2>1 DEF Watcher!Sweep, Watcher!Take
  <2>2. CASE Watcher!Claim(q) \/ Watcher!Act(q) \/ Watcher!Assess(q) \/ Watcher!Renew(q)
             \/ Watcher!Close(q)
    <3>1. DOMAIN cleaner = Watchers
      BY Writes
    <3>2. cleaner'[k] = cleaner[k]
      BY <1>3, <2>2, <3>1 DEF Watcher!Claim, Watcher!Act, Watcher!Assess,
                              Watcher!Renew, Watcher!Close
    <3>3. QED BY <1>0, <3>2, CleanerFrame
  <2>3. CASE Watcher!BindRead(q) \/ Watcher!Bind(q) \/ Watcher!Load(q)
             \/ Watcher!Reload(q) \/ Watcher!Receipt(q) \/ Watcher!Final(q)
    BY <1>2, <1>3, <2>3 DEF Watcher!BindRead, Watcher!Bind, Watcher!Load,
                            Watcher!Reload, Watcher!Receipt, Watcher!Final,
                            Watcher!Move, Watcher!Read
  <2>4. CASE Watcher!Marker(q) \/ Watcher!Fail(q) \/ Watcher!Crash(q)
    BY <1>2, <1>3, <2>4 DEF Watcher!Marker, Watcher!Fail, Watcher!Crash, Watcher!Give
  <2>5. QED BY <1>3, <2>1, <2>2, <2>3, <2>4 DEF Watcher!Reconcile
<1>4. ASSUME Watcher!Sweep(k)
      PROVE  CleanerOK(k)'
  <2>1. /\ state' = state /\ late' = late /\ closings' = closings /\ fences' = fences
        /\ Watcher!Opened
    BY <1>4 DEF Watcher!Sweep, Watcher!cloud
  <2>2. ASSUME NEW label, Watcher!Take(k, label)
        PROVE  /\ cleaner'[k].pc = label /\ cleaner'[k].claim = state.doc
               /\ cleaner'[k].etag = IF label \in {"claim", "marker"} THEN state.etag ELSE 0
    BY <1>0, <2>2 DEF Watcher!Take, Types
  <2>3. CASE state.doc.status = "closed" /\ Watcher!Take(k, "marker")
    <3>1. /\ cleaner'[k].pc = "marker" /\ cleaner'[k].claim = state.doc
          /\ cleaner'[k].etag = state.etag
      BY <2>2, <2>3
    <3>2. state = [doc |-> state.doc, etag |-> state.etag]
      BY <1>0 DEF StateOK, RecordOK, Watcher!Record
    <3>3. state \in closings
      BY <1>0, <2>1, <2>3 DEF StateOK
    <3>4. QED BY <1>0, <2>1, <3>1, <3>2, <3>3 DEF CleanerOK, Claiming, Watcher!Opened
  <2>4. CASE Watcher!Claimable /\ state.doc.fence < MaxFence /\ Watcher!Take(k, "claim")
    <3>1. /\ cleaner'[k].pc = "claim" /\ cleaner'[k].claim = state.doc
          /\ cleaner'[k].etag = state.etag
      BY <2>2, <2>4
    <3>2. QED BY <1>0, <2>1, <2>4, <3>1
       DEF CleanerOK, Claiming, Watcher!Opened, Watcher!Claimable
  <2>5. CASE /\ state.doc.status = "claimed" /\ state.doc.claimant = k /\ ~late
             /\ Watcher!Take(k, Watcher!Stage(state.doc))
    <3>1. /\ cleaner'[k].pc \in {"bind", "load"} /\ cleaner'[k].claim = state.doc
      BY <2>2, <2>5 DEF Watcher!Stage
    <3>2. QED BY <1>0, <2>1, <2>5, <3>1 DEF CleanerOK, Claiming, Watcher!Opened
  <2>6. QED BY <1>4, <2>3, <2>4, <2>5 DEF Watcher!Sweep
<1>5. ASSUME Watcher!Claim(k)
      PROVE  CleanerOK(k)'
  <2>1. cleaner'[k].pc = "bind" /\ cleaner'[k].claim = Watcher!Claimed(k)
    <3> DEFINE d == Watcher!Claimed(k)
    <3>1. cleaner' = [cleaner EXCEPT ![k].pc = "bind", ![k].claim = d,
                                     ![k].etag = 0, ![k].round = "stage"]
      BY <1>5 DEF Watcher!Claim
    <3> HIDE DEF d
    <3>2. DOMAIN cleaner = Watchers /\ cleaner[k] \in Fields
      BY Writes
    <3>3. cleaner'[k].pc = "bind" /\ cleaner'[k].claim = d
      BY <3>1, <3>2 DEF Fields
    <3>4. QED BY <3>3 DEF d
  <2>2. state'.doc = Watcher!Claimed(k) /\ state'.doc # None /\ state'.doc.claimant = k
    BY <1>5, NewClaim
  <2>3. state'.doc \in Watcher!Doc /\ state'.doc.fence \in Nat
    BY <1>0, <2>2 DEF StateOK, RecordOK, DocOK, Watcher!Doc
  <2>4. QED BY <2>1, <2>2, <2>3 DEF CleanerOK, Claiming, Watcher!Opened
<1>6. ASSUME Watcher!BindRead(k)
      PROVE  CleanerOK(k)'
  <2>1. /\ state' = state /\ fences' = fences /\ cleaner[k].pc = "bind"
        /\ Watcher!MineLate(k) /\ Watcher!Published(state.doc)
    BY <1>6 DEF Watcher!BindRead, Watcher!cloud
  <2>2. cleaner'[k].claim = cleaner[k].claim
        /\ \/ cleaner'[k].pc = "load"
           \/ cleaner'[k].pc = "bindwrite" /\ cleaner'[k].etag = state.etag
    BY <1>6, Writes DEF Watcher!BindRead
  <2>3. Watcher!Published(state.doc)'
    BY <2>1 DEF Watcher!Published
  <2>4. Watcher!MineLate(k)'
    BY <2>1, <2>2 DEF Watcher!MineLate
  <2>5. QED BY <1>0, <2>1, <2>2, <2>3, <2>4 DEF CleanerOK, Claiming, Watcher!Opened
<1>7. ASSUME Watcher!Bind(k)
      PROVE  CleanerOK(k)'
  <2>1. cleaner'[k].pc = "load" /\ cleaner'[k].claim = state'.doc
    BY <1>0, <1>7 DEF Watcher!Bind, Watcher!Written, Types
  <2>2. state'.doc # None /\ state'.doc.claimant = k /\ Own(k)
    BY <1>7, Binding DEF Own, Same
  <2>3. state'.doc \in Watcher!Doc /\ state'.doc.fence \in Nat
    BY <1>0, <2>2 DEF StateOK, RecordOK, DocOK, Watcher!Doc
  <2>4. QED BY <2>1, <2>2, <2>3 DEF CleanerOK, Claiming, Watcher!Opened
<1>8. ASSUME Watcher!Load(k)
      PROVE  CleanerOK(k)'
  <2>1. state' = state /\ cleaner[k].pc = "load" /\ state.doc.fenced
    BY <1>8 DEF Watcher!Load
  <2>2. cleaner'[k].pc = "act" /\ cleaner'[k].claim = cleaner[k].claim
    BY <1>8, Writes DEF Watcher!Load
  <2>3. QED BY <1>0, <2>1, <2>2 DEF CleanerOK, Claiming, Watcher!Opened
<1>9. ASSUME Watcher!Act(k)
      PROVE  CleanerOK(k)'
  <2>1. state' = state /\ cleaner[k].pc = "act"
    BY <1>9 DEF Watcher!Act
  <2>2. /\ cleaner'[k].pc = "assess" /\ cleaner'[k].claim = cleaner[k].claim
        /\ cleaner'[k].look \in Watcher!Assessment
    <3>1. DOMAIN cleaner = Watchers /\ cleaner[k] \in Fields
      BY Writes
    <3>2. PICK a \in Watcher!Assessment :
             cleaner' = [cleaner EXCEPT ![k].pc = "assess", ![k].look = a]
      <4>1. /\ [sealed |-> TRUE, reconciled |-> FALSE] \in Watcher!Assessment
            /\ [sealed |-> FALSE, reconciled |-> FALSE] \in Watcher!Assessment
        BY DEF Watcher!Assessment
      <4>2. QED BY <1>9, <4>1 DEF Watcher!Act
    <3>3. QED BY <3>1, <3>2 DEF Fields
  <2>3. QED BY <1>0, <2>1, <2>2 DEF CleanerOK, Claiming, Watcher!Opened, Held
<1>10. ASSUME Watcher!Assess(k)
       PROVE  CleanerOK(k)'
  <2>1. state' = state /\ bridge' = bridge /\ cleaner[k].pc = "assess"
    BY <1>10 DEF Watcher!Assess, Watcher!cloud
  <2>2. /\ cleaner'[k].pc = "reload" /\ cleaner'[k].claim = cleaner[k].claim
        /\ cleaner'[k].look \in Watcher!Assessment
        /\ cleaner'[k].look.sealed => bridge = "sealed"
    <3>1. cleaner[k].look.sealed \in BOOLEAN /\ cleaner[k].claim \in Watcher!Doc
      BY <1>0, <2>1 DEF CleanerOK, Watcher!Assessment
    <3>2. QED BY <1>0, <1>10, <3>1
       DEF Watcher!Assess, Types, Watcher!Assessment, Watcher!Doc
  <2>3. QED BY <1>0, <2>1, <2>2 DEF CleanerOK, Claiming, Watcher!Opened, Held
<1>11. ASSUME Watcher!Reload(k)
       PROVE  CleanerOK(k)'
  <2>1. state' = state /\ bridge' = bridge /\ cleaner[k].pc = "reload" /\ Watcher!MineLate(k)
    BY <1>11 DEF Watcher!Reload, Watcher!cloud, Watcher!Mine
  <2>2. /\ cleaner'[k].pc = "renew" /\ cleaner'[k].claim = cleaner[k].claim
        /\ cleaner'[k].look = cleaner[k].look /\ cleaner'[k].etag = state.etag
    BY <1>11, Writes DEF Watcher!Reload
  <2>3. Watcher!MineLate(k)'
    BY <2>1, <2>2 DEF Watcher!MineLate
  <2>4. QED BY <1>0, <2>1, <2>2, <2>3 DEF CleanerOK, Claiming, Watcher!Opened, Held
<1>12. ASSUME Watcher!Renew(k)
       PROVE  CleanerOK(k)'
  <2>1. /\ cleaner'[k].pc \in {"load", "receipt"}
        /\ cleaner'[k].claim = [state.doc EXCEPT !.assessment = cleaner[k].look]
    BY <1>0, <1>12 DEF Watcher!Renew, Types
  <2>2. /\ state'.doc = [state.doc EXCEPT !.assessment = cleaner[k].look]
        /\ state'.doc # None /\ state'.doc.claimant = k
        /\ state'.doc.assessment \in Watcher!Assessment
    BY <1>12, Renewal DEF Own, Same
  <2>3. state'.doc \in Watcher!Doc /\ state'.doc.fence \in Nat
    BY <1>0, <2>2 DEF StateOK, RecordOK, DocOK, Watcher!Doc
  <2>4. QED BY <2>1, <2>2, <2>3 DEF CleanerOK, Claiming, Watcher!Opened
<1>13. ASSUME Watcher!Receipt(k)
       PROVE  CleanerOK(k)'
  <2>1. state' = state /\ cleaner[k].pc = "receipt"
    BY <1>13 DEF Watcher!Receipt
  <2>2. cleaner'[k].pc = "final" /\ cleaner'[k].claim = cleaner[k].claim
    BY <1>13, Writes DEF Watcher!Receipt
  <2>3. QED BY <1>0, <2>1, <2>2 DEF CleanerOK, Claiming, Watcher!Opened
<1>14. ASSUME Watcher!Final(k)
       PROVE  CleanerOK(k)'
  <2>1. /\ state' = state /\ cleaner[k].pc = "final" /\ Watcher!MineLate(k)
        /\ state.doc.assessment = cleaner[k].claim.assessment
    BY <1>14 DEF Watcher!Final, Watcher!Mine
  <2>2. /\ cleaner'[k].pc = "close" /\ cleaner'[k].claim = cleaner[k].claim
        /\ cleaner'[k].etag = state.etag
    BY <1>14, Writes DEF Watcher!Final
  <2>3. Watcher!MineLate(k)'
    BY <2>1, <2>2 DEF Watcher!MineLate
  <2>4. QED BY <1>0, <2>1, <2>2, <2>3 DEF CleanerOK, Claiming, Watcher!Opened
<1>15. ASSUME Watcher!Close(k)
       PROVE  CleanerOK(k)'
  <2>1. /\ cleaner'[k].pc = "marker" /\ cleaner'[k].claim = state'.doc
        /\ cleaner'[k].etag = state'.etag /\ state' \in closings'
    BY <1>0, <1>15 DEF Watcher!Close, Watcher!Replace, Types
  <2>2. state'.doc # None
    BY <1>15, Closing
  <2>3. state'.doc \in Watcher!Doc /\ state' = [doc |-> state'.doc, etag |-> state'.etag]
    BY <1>0, <2>2 DEF StateOK, RecordOK, DocOK, Watcher!Record
  <2>4. QED BY <2>1, <2>2, <2>3 DEF CleanerOK, Claiming, Watcher!Opened
<1>16. ASSUME Watcher!Marker(k) \/ Watcher!Fail(k) \/ Watcher!Crash(k)
       PROVE  CleanerOK(k)'
  BY <1>16, Resting DEF Watcher!Marker, Watcher!Fail, Watcher!Crash
<1>17. ASSUME NEW r \in Runners, Watcher!Runner(r)
       PROVE  CleanerOK(k)'
  BY <1>1, <1>17
     DEF Watcher!Runner, Watcher!Open, Watcher!OpenRetain, Watcher!OpenWrite,
         Watcher!BeatRead, Watcher!Beat, Watcher!RunnerLost, Watcher!Work,
         Watcher!Finish
<1>18. CASE UNCHANGED Watcher!vars \/ Watcher!Revoke \/ Watcher!Publish \/ Watcher!Lapse
  BY <1>1, <1>18 DEF Watcher!vars, Watcher!Revoke, Watcher!Publish, Watcher!Lapse
<1>19. ASSUME Watcher!Sweep(k) \/ Watcher!Reconcile(k) \/ Watcher!Crash(k)
       PROVE  CleanerOK(k)'
  BY <1>4, <1>5, <1>6, <1>7, <1>8, <1>9, <1>10, <1>11, <1>12, <1>13, <1>14, <1>15,
     <1>16, <1>19 DEF Watcher!Reconcile
<1>20. QED BY <1>3, <1>17, <1>18, <1>19 DEF Watcher!Next

-----------------------------------------------------------------------------
(* The types *)

Modes == [pc: {"idle", "retain", "open", "active", "beat", "lost"}, read: Watcher!Record]

(* A step that changes one runner, or one cleaner.                         *)
LEMMA RunnerType ==
    ASSUME Inv, NEW r \in Runners, NEW label, NEW record \in Watcher!Record,
           Watcher!Runs(r, label, record),
           label \in {"idle", "retain", "open", "active", "beat", "lost"}
    PROVE  runner' \in [Runners -> Modes]
<1>1. [pc |-> label, read |-> record] \in Modes
  BY DEF Modes
<1>2. QED BY <1>1 DEF Inv, Types, Watcher!Runs, Modes

LEMMA CleanerType ==
    ASSUME Inv, NEW k \in Watchers, NEW x \in Fields, cleaner' = [cleaner EXCEPT ![k] = x]
    PROVE  cleaner' \in [Watchers -> Fields]
BY DEF Inv, Types, Fields

LEMMA MoveType ==
    ASSUME Inv, NEW k \in Watchers, NEW label \in Watcher!Counter
    PROVE  /\ Watcher!Move(k, label) => cleaner' \in [Watchers -> Fields]
           /\ Watcher!Read(k, label) => cleaner' \in [Watchers -> Fields]
<1>1. cleaner[k] \in Fields /\ state.etag \in Nat
  BY DEF Inv, Types, StateOK, RecordOK, Watcher!Record, Fields
<1>2. [cleaner[k] EXCEPT !.pc = label] \in Fields
  BY <1>1 DEF Fields
<1>3. [cleaner[k] EXCEPT !.pc = label, !.etag = state.etag] \in Fields
  BY <1>1 DEF Fields
<1>4. cleaner \in [Watchers -> Fields]
  BY DEF Inv, Types, Fields
<1> HIDE DEF Fields
<1>5. ASSUME Watcher!Move(k, label) PROVE cleaner' \in [Watchers -> Fields]
  BY <1>2, <1>4, <1>5 DEF Watcher!Move
<1>6. ASSUME Watcher!Read(k, label) PROVE cleaner' \in [Watchers -> Fields]
  <2>1. cleaner' = [cleaner EXCEPT ![k] = [cleaner[k] EXCEPT !.pc = label, !.etag = state.etag]]
    BY <1>4, <1>6 DEF Watcher!Read
  <2>2. QED BY <1>3, <1>4, <2>1
<1>7. QED BY <1>5, <1>6

LEMMA GiveType ==
    ASSUME Inv, NEW k \in Watchers, Watcher!Give(k)
    PROVE  cleaner' \in [Watchers -> Fields]
<1>1. Watcher!Rest \in Fields
  BY DEF Watcher!Rest, Fields, Watcher!Counter
<1>2. QED BY <1>1, CleanerType DEF Watcher!Give

LEMMA RunnersTyped ==
    ASSUME Chosen, Inv, [Watcher!Next]_(Watcher!vars)
    PROVE  runner' \in [Runners -> Modes]
<1>0. /\ runner \in [Runners -> Modes] /\ state \in Watcher!Record /\ Watcher!NoRecord \in Watcher!Record
  BY DEF Inv, Types, Modes, StateOK, RecordOK, Watcher!Record, Watcher!NoRecord
<1>1. ASSUME runner' = runner
      PROVE  runner' \in [Runners -> Modes]
  BY <1>0, <1>1
<1>2. ASSUME NEW r \in Runners, Watcher!Runner(r)
      PROVE  runner' \in [Runners -> Modes]
  <2>1. CASE Watcher!Open(r) \/ Watcher!BeatRead(r)
    BY <1>0, <2>1, RunnerType DEF Watcher!Open, Watcher!BeatRead
  <2>2. CASE Watcher!OpenRetain(r)
    BY <1>0, <2>2 DEF Watcher!OpenRetain, Modes
  <2>3. CASE Watcher!OpenWrite(r) \/ Watcher!Beat(r) \/ Watcher!RunnerLost(r)
    BY <1>0, <2>3, RunnerType DEF Watcher!OpenWrite, Watcher!Beat, Watcher!RunnerLost
  <2>4. CASE Watcher!Work(r) \/ Watcher!Finish(r)
    BY <1>1, <2>4 DEF Watcher!Work, Watcher!Finish
  <2>5. QED BY <1>2, <2>1, <2>2, <2>3, <2>4 DEF Watcher!Runner
<1>3. ASSUME NEW k \in Watchers,
             Watcher!Sweep(k) \/ Watcher!Reconcile(k) \/ Watcher!Crash(k)
      PROVE  runner' \in [Runners -> Modes]
  BY <1>1, <1>3
     DEF Watcher!Sweep, Watcher!Reconcile, Watcher!Claim, Watcher!BindRead,
         Watcher!Bind, Watcher!Load, Watcher!Act, Watcher!Assess, Watcher!Reload,
         Watcher!Renew,
         Watcher!Receipt, Watcher!Final, Watcher!Close, Watcher!Marker, Watcher!Fail,
         Watcher!Crash
<1>4. CASE UNCHANGED Watcher!vars \/ Watcher!Revoke \/ Watcher!Publish \/ Watcher!Lapse
  BY <1>1, <1>4 DEF Watcher!vars, Watcher!Revoke, Watcher!Publish, Watcher!Lapse
<1>5. QED BY <1>2, <1>3, <1>4 DEF Watcher!Next

LEMMA CleanersTyped ==
    ASSUME Chosen, Inv, [Watcher!Next]_(Watcher!vars)
    PROVE  cleaner' \in [Watchers -> Fields]
<1>0. /\ cleaner \in [Watchers -> Fields] /\ state.etag \in Nat
      /\ Watcher!Opened => state.doc \in Watcher!Doc
  BY DEF Inv, Types, Fields, StateOK, RecordOK, Watcher!Record, DocOK, Watcher!Opened
<1>1. ASSUME cleaner' = cleaner
      PROVE  cleaner' \in [Watchers -> Fields]
  BY <1>0, <1>1
<1>2. ASSUME NEW k \in Watchers,
             Watcher!Sweep(k) \/ Watcher!Reconcile(k) \/ Watcher!Crash(k)
      PROVE  cleaner' \in [Watchers -> Fields]
  <2>0. /\ cleaner[k] \in Fields /\ DOMAIN cleaner = Watchers
        /\ state'.doc # None => state'.doc \in Watcher!Doc
        /\ state'.etag \in Nat
    BY <1>0, StateStep DEF StateOK, RecordOK, DocOK, Watcher!Record
  <2>1. CASE Watcher!Sweep(k)
    <3>1. ASSUME NEW label \in Watcher!Counter, Watcher!Take(k, label), Watcher!Opened
          PROVE  cleaner' \in [Watchers -> Fields]
      <4>1. Watcher!Round(state.doc) \in {"stage", "refresh"}
        BY DEF Watcher!Round
      <4>2. [pc |-> label, claim |-> state.doc,
             etag |-> IF label \in {"claim", "marker"} THEN state.etag ELSE 0,
             round |-> Watcher!Round(state.doc), look |-> None] \in Fields
        BY <1>0, <3>1, <4>1 DEF Fields
      <4>3. QED BY <3>1, <4>2, CleanerType DEF Watcher!Take
    <3>2. "marker" \in Watcher!Counter /\ "claim" \in Watcher!Counter /\ Watcher!Stage(state.doc) \in Watcher!Counter
      BY DEF Watcher!Counter, Watcher!Stage
    <3>3. QED BY <2>1, <3>1, <3>2 DEF Watcher!Sweep
  <2>2. CASE Watcher!Claim(k)
    <3>1. Watcher!Claimed(k) \in Watcher!Doc
      BY <2>0, <2>2, NewClaim
    <3>2. \A q \in Watchers : cleaner'[q] \in Fields
      <4> SUFFICES ASSUME NEW q \in Watchers PROVE cleaner'[q] \in Fields
        OBVIOUS
      <4>1. CASE q # k
        BY <1>0, <2>2, <4>1 DEF Watcher!Claim
      <4>2. CASE q = k
        BY <2>0, <2>2, <3>1, <4>2 DEF Watcher!Claim, Fields, Watcher!Counter
      <4>3. QED BY <4>1, <4>2
    <3>3. QED BY <1>0, <2>2, <3>2 DEF Watcher!Claim
  <2>3. CASE \/ Watcher!BindRead(k) \/ Watcher!Load(k) \/ Watcher!Reload(k)
             \/ Watcher!Receipt(k) \/ Watcher!Final(k)
    <3>1. {"load", "bindwrite", "act", "renew", "final", "close"} \subseteq Watcher!Counter
      BY DEF Watcher!Counter
    <3>2. QED BY <2>3, <3>1, MoveType
       DEF Watcher!BindRead, Watcher!Load, Watcher!Reload, Watcher!Receipt,
           Watcher!Final
  <2>4. CASE Watcher!Bind(k)
    <3>1. state'.doc \in Watcher!Doc
      BY <2>0, <2>4, Binding
    <3>2. Watcher!Written(k, "load", state'.doc) \in Fields
      BY <2>0, <3>1 DEF Watcher!Written, Fields, Watcher!Counter
    <3>3. QED BY <2>4, <3>2, CleanerType DEF Watcher!Bind
  <2>5. CASE Watcher!Act(k)
    <3>1. PICK a \in Watcher!Assessment :
             cleaner' = [cleaner EXCEPT ![k].pc = "assess", ![k].look = a]
      <4>1. /\ [sealed |-> TRUE, reconciled |-> FALSE] \in Watcher!Assessment
            /\ [sealed |-> FALSE, reconciled |-> FALSE] \in Watcher!Assessment
        BY DEF Watcher!Assessment
      <4>2. QED BY <2>5, <4>1 DEF Watcher!Act
    <3>2. QED BY ZenonT(60), <1>0, <3>1 DEF Fields, Watcher!Counter
  <2>6. CASE Watcher!Assess(k)
    <3>1. cleaner[k].claim \in Watcher!Doc /\ cleaner[k].look \in Watcher!Assessment
      BY <2>6 DEF Watcher!Assess, Inv, CleanerOK
    <3>2. PICK a \in Watcher!Assessment :
             cleaner' = [cleaner EXCEPT ![k].pc = "reload", ![k].look = a]
      <4> DEFINE d == cleaner[k].claim
                 b == [sealed |-> cleaner[k].look.sealed /\ bridge = "sealed",
                       reconciled |-> d.bound /\ d.session \in resultsWatcher]
      <4>1. b \in Watcher!Assessment
        BY <3>1 DEF Watcher!Assessment, Watcher!Doc
      <4>2. cleaner' = [cleaner EXCEPT ![k].pc = "reload", ![k].look = b]
        BY <1>0, <2>6 DEF Watcher!Assess, Fields
      <4> HIDE DEF b
      <4>3. QED BY <4>1, <4>2
    <3>3. QED BY ZenonT(60), <1>0, <3>2 DEF Fields, Watcher!Counter
  <2>7. CASE Watcher!Renew(k)
    <3> DEFINE d == [state.doc EXCEPT !.assessment = cleaner[k].look]
               label == IF cleaner[k].round = "stage" THEN "load" ELSE "receipt"
    <3>1. d \in Watcher!Doc
      BY <2>0, <2>7, Renewal
    <3>2. cleaner' = [cleaner EXCEPT ![k].pc = label, ![k].round = "refresh",
                                     ![k].claim = d, ![k].etag = 0, ![k].look = None]
      BY <2>7 DEF Watcher!Renew
    <3>3. label \in Watcher!Counter
      BY DEF Watcher!Counter
    <3> HIDE DEF d, label
    <3>4. \A q \in Watchers : cleaner'[q] \in Fields
      <4> SUFFICES ASSUME NEW q \in Watchers PROVE cleaner'[q] \in Fields
        OBVIOUS
      <4>1. CASE q # k
        BY <1>0, <3>2, <4>1
      <4>2. CASE q = k
        BY <2>0, <3>1, <3>2, <3>3, <4>2 DEF Fields
      <4>3. QED BY <4>1, <4>2
    <3>5. QED BY <1>0, <3>2, <3>4
  <2>8. CASE Watcher!Close(k)
    <3> DEFINE d == [state.doc EXCEPT !.status = "closed",
                                      !.receipt = cleaner[k].claim.assessment]
               e == state'.etag
    <3>1. d \in Watcher!Doc
      <4>1. state'.doc = d
        BY <2>8 DEF Watcher!Close, Watcher!Replace
      <4>2. QED BY <2>0, <2>8, <4>1, Closing
    <3>2. cleaner' = [cleaner EXCEPT ![k].pc = "marker", ![k].claim = d, ![k].etag = e]
      BY <2>8 DEF Watcher!Close
    <3>3. e \in Nat
      BY <2>0
    <3> HIDE DEF d, e
    <3>4. \A q \in Watchers : cleaner'[q] \in Fields
      <4> SUFFICES ASSUME NEW q \in Watchers PROVE cleaner'[q] \in Fields
        OBVIOUS
      <4>1. CASE q # k
        BY <1>0, <3>2, <4>1
      <4>2. CASE q = k
        BY <2>0, <3>1, <3>2, <3>3, <4>2 DEF Fields, Watcher!Counter
      <4>3. QED BY <4>1, <4>2
    <3>5. QED BY <1>0, <3>2, <3>4
  <2>9. CASE Watcher!Marker(k) \/ Watcher!Fail(k) \/ Watcher!Crash(k)
    BY <2>9, GiveType DEF Watcher!Marker, Watcher!Fail, Watcher!Crash
  <2>10. QED
    BY <1>2, <2>1, <2>2, <2>3, <2>4, <2>5, <2>6, <2>7, <2>8, <2>9 DEF Watcher!Reconcile
<1>3. ASSUME NEW r \in Runners, Watcher!Runner(r)
      PROVE  cleaner' \in [Watchers -> Fields]
  BY <1>1, <1>3
     DEF Watcher!Runner, Watcher!Open, Watcher!OpenRetain, Watcher!OpenWrite,
         Watcher!BeatRead, Watcher!Beat, Watcher!RunnerLost, Watcher!Work,
         Watcher!Finish
<1>4. CASE UNCHANGED Watcher!vars \/ Watcher!Revoke \/ Watcher!Publish \/ Watcher!Lapse
  BY <1>1, <1>4 DEF Watcher!vars, Watcher!Revoke, Watcher!Publish, Watcher!Lapse
<1>5. QED BY <1>2, <1>3, <1>4 DEF Watcher!Next

(* The variables that need nothing but their own types.                    *)
Plain ==
    /\ late \in BOOLEAN /\ bridge \in {"sealed", "open"}
    /\ revoked \subseteq {Generation[r] : r \in Runners}
    /\ resultsWatcher \subseteq Runners
    /\ DOMAIN evidence \subseteq Watcher!Path
    /\ \A p \in DOMAIN evidence : evidence[p] \in Watcher!Assessment
    /\ beats \in 0..MaxBeats /\ faults \in 0..MaxFaults

LEMMA TypesStep ==
    ASSUME Chosen, Inv, [Watcher!Next]_(Watcher!vars)
    PROVE  Types'
<1>1. runner' \in [Runners -> Modes] /\ cleaner' \in [Watchers -> Fields]
  BY RunnersTyped, CleanersTyped
<1>2. RecordsOK' /\ StateOK' /\ Types /\ StateOK
  BY RecordsStep, StateStep DEF Inv
<1>3. DOMAIN markers' \subseteq Watcher!Path
  <2> SUFFICES ASSUME NEW p \in DOMAIN markers' PROVE p \in Watcher!Path
    OBVIOUS
  <2>1. markers'[p].doc \in Watcher!Doc /\ Watcher!Where(markers'[p].doc) = p
    BY <1>2 DEF RecordsOK, RecordOK, DocOK
  <2>2. QED BY <2>1 DEF Watcher!Where, Watcher!Path, Watcher!Doc
<1>4. Plain'
  <2>0. Plain /\ (Watcher!Opened => state.doc.session \in Runners)
    BY <1>2 DEF Types, Plain, StateOK, RecordOK, DocOK, Watcher!Doc, Watcher!Opened
  <2>1. CASE UNCHANGED Watcher!vars
    BY <2>0, <2>1 DEF Plain, Watcher!vars, Watcher!cloud, Watcher!worm
  <2>2. ASSUME NEW r \in Runners, Watcher!Runner(r)
        PROVE  Plain'
    <3>1. CASE Watcher!Open(r) \/ Watcher!OpenRetain(r) \/ Watcher!BeatRead(r)
               \/ Watcher!RunnerLost(r)
      BY <2>0, <3>1 DEF Plain, Watcher!Open, Watcher!OpenRetain, Watcher!BeatRead,
                        Watcher!RunnerLost, Watcher!cloud, Watcher!worm
    <3>2. CASE Watcher!OpenWrite(r)
      BY <2>0, <3>2 DEF Plain, Watcher!OpenWrite, Watcher!cloud, Watcher!worm
    <3>3. CASE Watcher!Beat(r)
      <4>1. beats < MaxBeats
        BY <3>3, Heartbeat
      <4>2. beats' = beats + 1 /\ late' = FALSE /\ UNCHANGED <<Watcher!cloud, Watcher!worm, faults>>
        BY <3>3 DEF Watcher!Beat
      <4>3. beats' \in 0..MaxBeats
        BY <2>0, <4>1, <4>2 DEF Plain, Chosen
      <4>4. QED BY <2>0, <4>2, <4>3 DEF Plain, Watcher!cloud, Watcher!worm
    <3>4. CASE Watcher!Work(r) \/ Watcher!Finish(r)
      BY <2>0, <3>4 DEF Plain, Watcher!Work, Watcher!Finish, Watcher!worm
    <3>5. QED BY <2>2, <3>1, <3>2, <3>3, <3>4 DEF Watcher!Runner
  <2>3. ASSUME NEW k \in Watchers,
               Watcher!Sweep(k) \/ Watcher!Reconcile(k) \/ Watcher!Crash(k)
        PROVE  Plain'
    <3>1. CASE \/ Watcher!Sweep(k) \/ Watcher!BindRead(k) \/ Watcher!Load(k)
               \/ Watcher!Assess(k) \/ Watcher!Reload(k)
               \/ Watcher!Final(k) \/ Watcher!Fail(k) \/ Watcher!Close(k)
               \/ Watcher!Marker(k) \/ Watcher!Bind(k)
      BY <2>0, <3>1
         DEF Plain, Watcher!Sweep, Watcher!BindRead, Watcher!Load, Watcher!Assess,
             Watcher!Reload, Watcher!Final, Watcher!Fail, Watcher!Close,
             Watcher!Marker, Watcher!Bind,
             Watcher!cloud, Watcher!worm
    <3>2. CASE Watcher!Claim(k) \/ Watcher!Renew(k)
      BY <2>0, <3>2 DEF Plain, Watcher!Claim, Watcher!Renew, Watcher!cloud, Watcher!worm
    <3>3. CASE Watcher!Act(k) \/ Watcher!Crash(k)
      BY <2>0, <3>3 DEF Plain, Watcher!Act, Watcher!Crash, Watcher!cloud, Watcher!worm,
                        Chosen
    <3>4. CASE Watcher!Receipt(k)
      <4> DEFINE d == cleaner[k].claim
      <4>1. d \in Watcher!Doc /\ d.assessment \in Watcher!Assessment /\ Watcher!Where(d) \in Watcher!Path
        BY <3>4 DEF Watcher!Receipt, Inv, CleanerOK, Watcher!Where, Watcher!Path,
                    Watcher!Doc
      <4>2. evidence' = evidence \/ evidence' = Watcher!Put(evidence, Watcher!Where(d), d.assessment)
        BY <3>4 DEF Watcher!Receipt
      <4> HIDE DEF d
      <4>3. /\ DOMAIN evidence' \subseteq Watcher!Path
            /\ \A p \in DOMAIN evidence' : evidence'[p] \in Watcher!Assessment
        BY <2>0, <4>1, <4>2 DEF Plain, Watcher!Put
      <4>4. QED BY <2>0, <3>4, <4>3 DEF Plain, Watcher!Receipt, Watcher!cloud
    <3>5. QED BY <2>3, <3>1, <3>2, <3>3, <3>4 DEF Watcher!Reconcile
  <2>4. CASE Watcher!Revoke \/ Watcher!Publish \/ Watcher!Lapse
    BY <2>0, <2>4 DEF Plain, Watcher!Revoke, Watcher!Publish, Watcher!Lapse,
                      Watcher!cloud, Watcher!worm
  <2>5. QED BY <2>1, <2>2, <2>3, <2>4 DEF Watcher!Next
<1>5. QED BY <1>1, <1>3, <1>4 DEF Types, Plain, Modes, Fields

-----------------------------------------------------------------------------
(* The invariant *)

LEMMA InvInit ==
    ASSUME Chosen, Watcher!Init
    PROVE  Inv
<1>1. Watcher!NoRecord \in Watcher!Record /\ Watcher!NoRecord.doc = None /\ Watcher!NoRecord.etag = 0 /\ state = Watcher!NoRecord
  BY DEF Watcher!NoRecord, Watcher!Record, Watcher!Init
<1>2. StateOK /\ ~Watcher!Opened
  BY <1>1 DEF StateOK, RecordOK, Watcher!Opened, Watcher!Init
<1>3. RecordsOK
  BY DEF RecordsOK, Watcher!ClosingRetained, Watcher!Init
<1>4. \A r \in Runners : runner[r].pc = "idle" /\ RunnerOK(r)
  BY <1>1 DEF RunnerOK, RecordOK, Watcher!Init
<1>5. \A k \in Watchers : CleanerOK(k)
  BY DEF CleanerOK, Claiming, Watcher!Init, Watcher!Rest
<1>6. Types
  <2>1. Watcher!Rest \in Fields
    BY DEF Watcher!Rest, Fields, Watcher!Counter
  <2>2. late \in BOOLEAN
    BY DEF Watcher!Init
  <2>3. runner \in [Runners -> Modes]
    BY <1>1 DEF Watcher!Init, Modes
  <2>4. cleaner \in [Watchers -> Fields]
    BY <2>1 DEF Watcher!Init
  <2>5. /\ DOMAIN evidence = {} /\ DOMAIN markers = {}
        /\ beats \in 0..MaxBeats /\ faults \in 0..MaxFaults
        /\ bridge = "sealed" /\ revoked = {} /\ resultsWatcher = {}
    BY DEF Watcher!Init, Chosen
  <2>6. QED BY <2>2, <2>3, <2>4, <2>5 DEF Types, Fields, Modes
<1>7. QED BY <1>2, <1>3, <1>4, <1>5, <1>6 DEF Inv

LEMMA Invariant ==
    ASSUME Chosen
    PROVE  Watcher!Spec => []Inv
<1>1. Watcher!Init => Inv
  BY InvInit
<1>2. Inv /\ [Watcher!Next]_(Watcher!vars) => Inv'
  BY StateStep, RecordsStep, RunnerStep, CleanerStep, TypesStep DEF Inv
<1>3. QED BY <1>1, <1>2, PTL DEF Watcher!Spec

(* What runs with the handoff is the watcher, or stutters.                 *)
LEMMA WatcherRun == EitherSpec => Watcher!Spec
<1>1. EitherInit => Watcher!Init
  BY DEF EitherInit
<1>2. [EitherNext]_either => [Watcher!Next]_(Watcher!vars)
  BY DEF EitherNext, either, watcherVars, Watcher!vars, Watcher!cloud, Watcher!worm
<1>3. QED BY <1>1, <1>2, PTL DEF EitherSpec, Watcher!Spec

(* For every number of runners and cleaners: every variable keeps its      *)
(* type, a session closed as sealed left a sealed bridge, and every        *)
(* closing that left the state has its own marker (CleanupSafe).           *)
THEOREM CleanupHolds == EitherSpec => []CleanupSafe
<1>1. Inv => Watcher!TypeOK
  <2> SUFFICES ASSUME Inv PROVE Watcher!TypeOK
    OBVIOUS
  <2>1. \A p \in DOMAIN markers : markers[p] \in Watcher!Record
    BY DEF Inv, RecordsOK, RecordOK
  <2>2. closings \subseteq Watcher!Record /\ fences \subseteq Watcher!Path
    BY DEF Inv, RecordsOK, RecordOK, StateOK
  <2>3. /\ state \in Watcher!Record
        /\ Watcher!Opened =>
           /\ state.doc.status = "active" =>
                  state.doc.claimant = None /\ ~state.doc.fenced
           /\ state.doc.status # "closed" => state.doc.receipt = None
           /\ state.doc.status = "closed" =>
                  state.doc.fenced /\ state.doc.receipt = state.doc.assessment
    BY DEF Inv, StateOK, RecordOK, DocOK, Watcher!Opened
  <2>4. QED BY <2>1, <2>2, <2>3 DEF Inv, Types, Watcher!TypeOK
<1>2. Inv => Watcher!SealedTruth
  <2> SUFFICES ASSUME Inv, Watcher!Opened, state.doc.status = "closed",
                      Watcher!Complete(state.doc.receipt)
               PROVE  bridge = "sealed"
    BY DEF Watcher!SealedTruth
  <2>1. /\ state.doc.receipt = state.doc.assessment /\ state.doc.assessment # None
        /\ state.doc.assessment.sealed
    BY DEF Inv, StateOK, RecordOK, DocOK, Watcher!Opened, Watcher!Complete
  <2>2. QED BY <2>1 DEF Inv, StateOK
<1>3. Inv => Watcher!ClosingRetained
  BY DEF Inv, RecordsOK
<1>4. Inv => Watcher!CleanupSafe
  BY <1>1, <1>2, <1>3 DEF Watcher!CleanupSafe
<1>5. Watcher!CleanupSafe => CleanupSafe
  BY DEF CleanupSafe
<1>6. QED BY <1>4, <1>5, WatcherRun, Invariant, SessionsOK, PTL

-----------------------------------------------------------------------------
(* The steps *)

(* Who replaces the state.                                                 *)
LEMMA Replacers ==
    ASSUME [Watcher!Next]_(Watcher!vars), state' # state
    PROVE  \/ \E r \in Runners : Watcher!OpenWrite(r) \/ Watcher!Beat(r)
           \/ \E k \in Watchers :
                  Watcher!Claim(k) \/ Watcher!Bind(k) \/ Watcher!Renew(k) \/ Watcher!Close(k)
<1>1. CASE UNCHANGED Watcher!vars \/ Watcher!Revoke \/ Watcher!Publish \/ Watcher!Lapse
  BY <1>1 DEF Watcher!vars, Watcher!Revoke, Watcher!Publish, Watcher!Lapse
<1>2. ASSUME NEW r \in Runners, Watcher!Runner(r)
      PROVE  Watcher!OpenWrite(r) \/ Watcher!Beat(r)
  BY <1>2 DEF Watcher!Runner, Watcher!Open, Watcher!OpenRetain, Watcher!BeatRead,
              Watcher!RunnerLost, Watcher!Work, Watcher!Finish
<1>3. ASSUME NEW k \in Watchers,
             Watcher!Sweep(k) \/ Watcher!Reconcile(k) \/ Watcher!Crash(k)
      PROVE  Watcher!Claim(k) \/ Watcher!Bind(k) \/ Watcher!Renew(k) \/ Watcher!Close(k)
  BY <1>3
     DEF Watcher!Reconcile, Watcher!Sweep, Watcher!BindRead, Watcher!Load, Watcher!Act,
         Watcher!Assess, Watcher!Reload, Watcher!Receipt, Watcher!Final, Watcher!Marker,
         Watcher!Fail, Watcher!Crash
<1>4. QED BY <1>1, <1>2, <1>3 DEF Watcher!Next

(* Under the fence of a claim, it is the claimant that replaces the state, *)
(* and it is on account of that very claim.                                *)
LEMMA OnlyClaimantStep ==
    ASSUME Chosen, Inv, [Watcher!Next]_(Watcher!vars), Watcher!Opened,
           state.doc.status = "claimed", state' # state, state'.doc.fence = state.doc.fence
    PROVE  \E k \in Watchers : /\ state.doc.claimant = k /\ cleaner'[k] # cleaner[k]
                              /\ Watcher!Where(cleaner[k].claim) = Watcher!Where(state.doc)
<1>1. state.doc.fence + 1 # state.doc.fence
  BY DEF Inv, StateOK, RecordOK, DocOK, Watcher!Opened, Watcher!Doc
<1>2. ASSUME NEW r \in Runners, Watcher!OpenWrite(r) \/ Watcher!Beat(r)
      PROVE  FALSE
  BY <1>2, Opening, Heartbeat
<1>3. ASSUME NEW k \in Watchers, Watcher!Claim(k)
      PROVE  FALSE
  BY <1>1, <1>3, NewClaim
<1>4. ASSUME NEW k \in Watchers, Watcher!Bind(k) \/ Watcher!Renew(k) \/ Watcher!Close(k)
      PROVE  /\ state.doc.claimant = k /\ cleaner'[k] # cleaner[k]
             /\ Watcher!Where(cleaner[k].claim) = Watcher!Where(state.doc)
  <2>1. state.doc.claimant = k /\ Held(k)
    BY <1>4, Binding, Renewal, Closing DEF Own
  <2>2. Watcher!Where(cleaner[k].claim) = Watcher!Where(state.doc)
    BY <2>1 DEF Held, Watcher!Where
  <2>3. DOMAIN cleaner = Watchers /\ cleaner[k] \in Fields
    BY Writes
  <2>4. ASSUME Watcher!Bind(k) PROVE cleaner'[k].pc # cleaner[k].pc
    BY <2>3, <2>4 DEF Watcher!Bind, Watcher!Written, Fields
  <2>5. ASSUME Watcher!Renew(k) \/ Watcher!Close(k) PROVE cleaner'[k].pc # cleaner[k].pc
    BY <2>3, <2>5 DEF Watcher!Renew, Watcher!Close, Fields
  <2>6. QED BY <1>4, <2>1, <2>2, <2>4, <2>5
<1>5. QED BY <1>2, <1>3, <1>4, Replacers

(* A closed session stays as it is, and a claimed one is not active again: *)
(* only a new session is.                                                  *)
LEMMA NoRevivalStep ==
    ASSUME Chosen, Inv, [Watcher!Next]_(Watcher!vars), Watcher!Opened,
           state.doc.status # "active",
           state'.doc.session = state.doc.session
    PROVE  /\ state'.doc.status # "active"
           /\ state.doc.status = "closed" => state' = state
<1>1. CASE state' = state
  BY <1>1
<1>2. ASSUME NEW r \in Runners, Watcher!OpenWrite(r) \/ Watcher!Beat(r)
      PROVE  FALSE
  BY <1>2, Opening, Heartbeat
<1>3. ASSUME NEW k \in Watchers, Watcher!Claim(k)
      PROVE  state'.doc.status = "claimed" /\ state.doc.status # "closed"
  BY <1>3, NewClaim DEF Watcher!Claimable
<1>4. ASSUME NEW k \in Watchers, Watcher!Bind(k) \/ Watcher!Renew(k) \/ Watcher!Close(k)
      PROVE  state'.doc.status # "active" /\ state.doc.status # "closed"
  BY <1>4, Binding, Renewal, Closing DEF Own
<1>5. CASE state' # state
  BY <1>2, <1>3, <1>4, <1>5, Replacers
<1>6. QED BY <1>1, <1>5

(* However long cleaners are paused: only the claimant writes in a claim,  *)
(* on account of that claim; a claimed session is never active again, and  *)
(* a closed one never changed (CleanupSteps).                              *)
THEOREM CleanupStepsHold == EitherSpec => CleanupSteps
<1>1. Inv /\ [Watcher!Next]_(Watcher!vars) =>
        [(Watcher!Opened /\ state.doc.status = "claimed" /\ state' # state
              /\ state'.doc.fence = state.doc.fence)
         => \E k \in Watchers :
                /\ state.doc.claimant = k /\ cleaner'[k] # cleaner[k]
                /\ Watcher!Where(cleaner[k].claim) = Watcher!Where(state.doc)]_(Watcher!vars)
  BY OnlyClaimantStep, SessionsOK
<1>2. Inv /\ [Watcher!Next]_(Watcher!vars) =>
        [(Watcher!Opened /\ state.doc.status # "active" /\ state'.doc.session = state.doc.session)
         => /\ state'.doc.status # "active"
            /\ state.doc.status = "closed" => state' = state]_(Watcher!vars)
  BY NoRevivalStep, SessionsOK
<1>3. QED BY <1>1, <1>2, Invariant, WatcherRun, SessionsOK, PTL
   DEF Watcher!Spec, CleanupSteps, Watcher!CleanupSteps, Watcher!OnlyClaimant,
       Watcher!NoRevival
===============================================================================
