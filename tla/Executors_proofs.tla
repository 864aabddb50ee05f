--------------------------- MODULE Executors_proofs ---------------------------
(***************************************************************************)
(* The Executors, for any number of hosts or processes and whatever fails; *)
(* what is proved of each holds of a behaviour that is any of them.  In    *)
(* turn: the recovery of the bridge's settings, the repin of the           *)
(* publisher's credential, the recoveries of the bridge and of the role    *)
(* assignments, the bootstrap's ledger and the maintenance of the key's    *)
(* expiry; the operators of all but the first carry its name where two     *)
(* would share one.                                                        *)
(***************************************************************************)
EXTENDS Executors, FiniteSetTheorems, SequenceTheorems, TLAPS

-----------------------------------------------------------------------------
(* For any number of processes and authorizations, and whatever fails: an  *)
(* authorization is used by one process, which owns its ledger directory;  *)
(* so one PUT leaves under it, and the ledger tells what became of it.     *)

Statuses == Settings!Failures \union {"none", "complete"}

Shapes ==
    /\ pcSettings \in [Processes -> Settings!Labels] /\ auth \in [Processes -> Auths]
    /\ ledgerSettings \in [Auths -> SUBSET Settings!Files]
         /\ terminalSettings \in [Auths -> Statuses]
    /\ puts \in [Auths -> Nat]

(* The process has created the directory of its authorization.             *)
Owns(r) == pcSettings[r] \notin {"idle", "claim"}
Alone   == \A r, q \in Processes : Owns(r) /\ Owns(q) /\ auth[r] = auth[q] => r = q
Made    == \A r \in Processes : Owns(r) => "dir" \in ledgerSettings[auth[r]]

(* What the owner knows of its authorization at each step.                 *)
At(r) ==
    LET a == auth[r] IN
    /\ Owns(r) => terminalSettings[a] = "none"
    /\ pcSettings[r] \in {"safety", "finalSite", "finalMap", "intent"} =>
           puts[a] = 0 /\ "intent" \notin ledgerSettings[a]
    /\ pcSettings[r] \in {"finalSite", "finalMap", "intent"} => "claim" \in ledgerSettings[a]
    /\ pcSettings[r] = "put" => puts[a] = 0 /\ {"claim", "intent"} \subseteq ledgerSettings[a]
    /\ pcSettings[r] \in {"answered", "refused", "back", "complete"} =>
           puts[a] = 1 /\ {"claim", "intent"} \subseteq ledgerSettings[a]
    /\ pcSettings[r] \in {"back", "complete"} => "result" \in ledgerSettings[a]
AllAt == \A r \in Processes : At(r)

Fresh(a) == "dir" \notin ledgerSettings[a] =>
                puts[a] = 0 /\ terminalSettings[a] = "none" /\ "intent" \notin ledgerSettings[a]

Truth(a) ==
    /\ puts[a] <= 1
    /\ puts[a] > 0 => {"claim", "intent"} \subseteq ledgerSettings[a]
    /\ terminalSettings[a] = "failedBefore" => puts[a] = 0 /\ "intent" \notin ledgerSettings[a]
    /\ terminalSettings[a] \in {"complete", "unresolved", "failedAfter"} =>
           puts[a] = 1 /\ {"intent", "result", "terminal"} \subseteq ledgerSettings[a]
AllTrue == \A a \in Auths : Fresh(a) /\ Truth(a)

SettingsInv == Shapes /\ Alone /\ Made /\ AllAt /\ AllTrue

LEMMA SettingsStarts == Settings!Init => SettingsInv
<1> SUFFICES ASSUME Settings!Init PROVE SettingsInv
  OBVIOUS
<1>1. Shapes
  BY DEF Settings!Init, Shapes, Settings!Labels, Settings!Files, Statuses
<1>2. Alone /\ Made /\ AllAt
  BY DEF Settings!Init, Alone, Made, AllAt, At, Owns
<1>3. AllTrue
  BY DEF Settings!Init, AllTrue, Fresh, Truth
<1> QED
  BY <1>1, <1>2, <1>3 DEF SettingsInv

(* A step of the owner, or of the process that becomes it, is about its    *)
(* own authorization only.                                                 *)
LEMMA OwnerKeeps ==
    ASSUME SettingsInv, NEW r \in Processes, UNCHANGED auth,
           Owns(r) \/ "dir" \notin ledgerSettings[auth[r]],
           \A q \in Processes : q # r => pcSettings'[q] = pcSettings[q],
           \A b \in Auths : b # auth[r]
             => /\ ledgerSettings'[b] = ledgerSettings[b] /\ puts'[b] = puts[b]
                                           /\ terminalSettings'[b] = terminalSettings[b],
           Shapes', "dir" \in ledgerSettings'[auth[r]], At(r)', Truth(auth[r])'
    PROVE  SettingsInv'
<1>1. \A q \in Processes : q # r /\ Owns(q) => auth[q] # auth[r]
  BY DEF SettingsInv, Alone, Made
<1>2. Alone'
  BY <1>1 DEF SettingsInv, Alone, Owns
<1>3. Made'
  BY <1>1 DEF SettingsInv, Shapes, Made, Owns
<1>4. ASSUME NEW q \in Processes, q # r PROVE At(q)'
  <2>1. CASE Owns(q)
    BY <1>1, <1>4, <2>1 DEF SettingsInv, Shapes, AllAt, At, Owns
  <2>2. CASE ~ Owns(q)
    BY <1>4, <2>2 DEF At, Owns
  <2> QED
    BY <2>1, <2>2
<1>5. AllTrue'
  BY DEF SettingsInv, AllTrue, Fresh, Truth
<1> QED
  BY <1>2, <1>3, <1>4, <1>5 DEF SettingsInv, AllAt

(* A step that leaves ledger, puts and records alone.                      *)
LEMMA IdleKeeps ==
    ASSUME SettingsInv, UNCHANGED <<ledgerSettings, puts, terminalSettings>>,
           auth' \in [Processes -> Auths],
           pcSettings' \in [Processes -> Settings!Labels],
           \A r \in Processes : \/ pcSettings'[r] = pcSettings[r] /\ auth'[r] = auth[r]
                                \/ pcSettings'[r] \in {"idle", "claim"}
    PROVE  SettingsInv'
<1>1. Shapes'
  BY DEF SettingsInv, Shapes
<1>2. \A r \in Processes : Owns(r)'
        => Owns(r) /\ pcSettings'[r] = pcSettings[r] /\ auth'[r] = auth[r]
  BY DEF Owns
<1>3. Alone' /\ Made'
  BY <1>2 DEF SettingsInv, Alone, Made
<1>4. AllAt'
  BY <1>2 DEF SettingsInv, AllAt, At, Owns
<1>5. AllTrue'
  BY DEF SettingsInv, AllTrue, Fresh, Truth
<1> QED
  BY <1>1, <1>3, <1>4, <1>5 DEF SettingsInv

(* The owner closes its authorization with a verdict that is true.          *)
LEMMA CloseKeeps ==
    ASSUME SettingsInv, NEW r \in Processes,
           NEW verdict \in Settings!Failures \union {"complete"},
           Settings!Close(r, verdict),
           Owns(r), UNCHANGED auth,
           puts' = puts \/ (puts' = [puts EXCEPT ![auth[r]] = @ + 1] /\ pcSettings[r] = "put"),
           verdict = "failedBefore"
             => pcSettings[r] \in {"safety", "finalSite", "finalMap"} /\ puts' = puts,
           verdict \in {"complete", "unresolved", "failedAfter"} =>
               /\ pcSettings[r] \in {"refused", "back", "complete"} /\ puts' = puts
               /\ "result" \in ledgerSettings[auth[r]]
    PROVE  SettingsInv'
<1>1. /\ ledgerSettings' = [ledgerSettings EXCEPT ![auth[r]] = @ \union {"terminal"}]
      /\ terminalSettings' = [terminalSettings EXCEPT ![auth[r]] = verdict]
      /\ pcSettings' = [pcSettings EXCEPT ![r] = "idle"]
  BY DEF Settings!Close, Settings!Write, Settings!Go
<1>2. /\ At(r) /\ Truth(auth[r]) /\ auth[r] \in Auths /\ "dir" \in ledgerSettings[auth[r]]
      /\ puts[auth[r]] \in Nat
  BY DEF SettingsInv, Shapes, AllAt, AllTrue, Made
<1>3. Shapes'
  BY <1>1 DEF SettingsInv, Shapes, Settings!Labels, Settings!Files, Statuses
<1>4. At(r)'
  BY <1>1 DEF At, Owns, SettingsInv, Shapes
<1>5. Truth(auth[r])'
  <2>1. /\ ledgerSettings'[auth[r]] = ledgerSettings[auth[r]] \union {"terminal"}
        /\ terminalSettings'[auth[r]] = verdict
        /\ puts'[auth[r]] = puts[auth[r]]
           \/ (pcSettings[r] = "put" /\ puts'[auth[r]] = puts[auth[r]] + 1)
    BY <1>1, <1>2 DEF SettingsInv, Shapes
  <2>2. CASE pcSettings[r] = "put"
    BY <1>2, <2>1, <2>2 DEF At, Truth, Settings!Failures
  <2>3. CASE pcSettings[r] # "put"
    <3>1. puts'[auth[r]] = puts[auth[r]]
      BY <2>3
    <3> QED
      BY <1>2, <2>1, <3>1 DEF At, Truth, Settings!Failures
  <2> QED
    BY <2>2, <2>3
<1>6. "dir" \in ledgerSettings'[auth[r]]
  BY <1>1, <1>2 DEF SettingsInv, Shapes
<1> QED
  BY <1>1, <1>3, <1>4, <1>5, <1>6, OwnerKeeps DEF SettingsInv, Shapes

(* The owner moves on, and may add one file, "terminal" excepted.          *)
LEMMA MoveKeeps ==
    ASSUME SettingsInv, NEW r \in Processes, NEW label \in Settings!Labels,
           Settings!Go(r, label),
           UNCHANGED <<auth, puts, terminalSettings>>,
           Owns(r) \/ "dir" \notin ledgerSettings[auth[r]],
           NEW f \in Settings!Files,
           ledgerSettings' = ledgerSettings
             \/ ledgerSettings' = [ledgerSettings EXCEPT ![auth[r]] = @ \union {f}],
           "dir" \in ledgerSettings'[auth[r]],
           At(r)', Truth(auth[r])'
    PROVE  SettingsInv'
<1>1. pcSettings' = [pcSettings EXCEPT ![r] = label]
  BY DEF Settings!Go
<1>2. Shapes'
  BY <1>1 DEF SettingsInv, Shapes
<1> QED
  BY <1>1, <1>2, OwnerKeeps DEF SettingsInv, Shapes

LEMMA ClaimKeeps ==
    ASSUME SettingsInv, NEW r \in Processes, Settings!Claim(r)
    PROVE  SettingsInv'
<1>1. CASE "dir" \in ledgerSettings[auth[r]]
  BY <1>1, IdleKeeps DEF Settings!Claim, Settings!Rest, Settings!Azure, Settings!Go,
                         SettingsInv, Shapes, Settings!Labels
<1>2. CASE "dir" \notin ledgerSettings[auth[r]]
  <2>1. /\ ledgerSettings' = [ledgerSettings EXCEPT ![auth[r]] = @ \union {"dir"}]
        /\ Settings!Go(r, "safety") /\ UNCHANGED <<auth, puts, terminalSettings>>
    BY <1>2 DEF Settings!Claim, Settings!Write, Settings!Rest
  <2>2. auth[r] \in Auths /\ Fresh(auth[r]) /\ Truth(auth[r])
    BY DEF SettingsInv, Shapes, AllTrue
  <2>3. ledgerSettings'[auth[r]] = ledgerSettings[auth[r]] \union {"dir"}
          /\ pcSettings'[r] = "safety"
    BY <2>1, <2>2 DEF Settings!Go, SettingsInv, Shapes
  <2>4. At(r)' /\ Truth(auth[r])'
    BY <1>2, <2>1, <2>2, <2>3 DEF At, Truth, Fresh, Owns
  <2>5. "safety" \in Settings!Labels /\ "dir" \in Settings!Files
    BY DEF Settings!Labels, Settings!Files
  <2> QED
    BY <1>2, <2>1, <2>3, <2>4, <2>5, MoveKeeps
<1> QED
  BY <1>1, <1>2

(* What an owner may rely on.                                              *)
LEMMA OwnerKnows ==
    ASSUME SettingsInv, NEW r \in Processes, Owns(r)
    PROVE  /\ auth[r] \in Auths /\ "dir" \in ledgerSettings[auth[r]]
           /\ At(r) /\ Truth(auth[r]) /\ puts[auth[r]] \in Nat
           /\ terminalSettings[auth[r]] = "none"
BY DEF SettingsInv, Shapes, Made, AllAt, AllTrue, At

(* The owner moves on and leaves its ledger as it is.                      *)
LEMMA GoKeeps ==
    ASSUME SettingsInv, NEW r \in Processes, NEW label \in Settings!Labels,
           Settings!Go(r, label), Owns(r),
           UNCHANGED <<auth, puts, terminalSettings, ledgerSettings>>, At(r)'
    PROVE  SettingsInv'
<1>1. Truth(auth[r])' /\ "dir" \in ledgerSettings'[auth[r]]
  BY OwnerKnows DEF Truth
<1>2. "dir" \in Settings!Files
  BY DEF Settings!Files
<1> QED
  BY <1>1, <1>2, MoveKeeps

(* The owner writes a file that is not the terminal record.                *)
LEMMA WriteKeeps ==
    ASSUME SettingsInv, NEW r \in Processes, NEW label \in Settings!Labels,
           pcSettings' = [pcSettings EXCEPT ![r] = label], Owns(r),
           NEW f \in {"claim", "intent", "result"}, Settings!Write(auth[r], f),
           UNCHANGED <<auth, puts, terminalSettings>>, At(r)'
    PROVE  SettingsInv'
<1>1. ledgerSettings' = [ledgerSettings EXCEPT ![auth[r]] = @ \union {f}]
        /\ f \in Settings!Files
  BY DEF Settings!Write, Settings!Files
<1>2. ledgerSettings'[auth[r]] = ledgerSettings[auth[r]] \union {f}
  BY <1>1, OwnerKnows DEF SettingsInv, Shapes
<1>3. Truth(auth[r])' /\ "dir" \in ledgerSettings'[auth[r]]
  BY <1>2, OwnerKnows DEF Truth
<1> QED
  BY <1>1, <1>3, MoveKeeps DEF Settings!Go

LEMMA FinalReadsKeep ==
    ASSUME SettingsInv, NEW r \in Processes,
           Settings!FinalSafety(r) \/ Settings!FinalSite(r) \/ Settings!FinalMap(r)
    PROVE  SettingsInv'
<1>1. /\ Owns(r) /\ pcSettings[r] \in {"safety", "finalSite", "finalMap"}
      /\ UNCHANGED <<auth, puts>>
  BY DEF Owns, Settings!FinalSafety, Settings!FinalSite, Settings!FinalMap,
         Settings!Rest
<1>2. /\ auth[r] \in Auths /\ At(r) /\ puts[auth[r]] = 0
      /\ "intent" \notin ledgerSettings[auth[r]] /\ terminalSettings[auth[r]] = "none"
  BY <1>1, OwnerKnows DEF At
<1>3. CASE Settings!Close(r, "failedBefore")
  BY <1>1, <1>3, CloseKeeps DEF Settings!Failures
<1>4. CASE Settings!FinalSafety(r) /\ Settings!Write(auth[r], "claim")
           /\ UNCHANGED <<terminalSettings, pcSettings>>
  <2>1. pcSettings' = [pcSettings EXCEPT ![r] = pcSettings[r]]
          /\ pcSettings[r] \in Settings!Labels
    BY <1>4 DEF SettingsInv, Shapes
  <2>2. ledgerSettings'[auth[r]] = ledgerSettings[auth[r]] \union {"claim"}
    BY <1>2, <1>4 DEF Settings!Write, SettingsInv, Shapes
  <2>3. At(r)'
    BY <1>1, <1>2, <1>4, <2>2 DEF At, Owns
  <2> QED
    BY <1>1, <1>4, <2>1, <2>3, WriteKeeps
<1>5. ASSUME NEW label \in {"finalSite", "finalMap", "intent"}, Settings!Go(r, label),
             UNCHANGED <<ledgerSettings, terminalSettings>>,
             "claim" \in ledgerSettings[auth[r]]
      PROVE  SettingsInv'
  <2>1. pcSettings'[r] = label /\ label \in Settings!Labels
    BY <1>5 DEF Settings!Go, Settings!Labels, SettingsInv, Shapes
  <2>2. At(r)'
    BY <1>1, <1>2, <1>5, <2>1 DEF At, Owns
  <2> QED
    BY <1>1, <1>5, <2>1, <2>2, GoKeeps
<1>6. CASE Settings!FinalSafety(r)
  BY <1>3, <1>4, <1>5, <1>6 DEF Settings!FinalSafety
<1>7. CASE Settings!FinalSite(r)
  BY <1>2, <1>3, <1>5, <1>7 DEF Settings!FinalSite, At
<1>8. CASE Settings!FinalMap(r)
  BY <1>2, <1>3, <1>5, <1>8 DEF Settings!FinalMap, At
<1> QED
  BY <1>6, <1>7, <1>8

LEMMA IntentKeeps ==
    ASSUME SettingsInv, NEW r \in Processes, Settings!Intent(r)
    PROVE  SettingsInv'
<1>1. /\ Owns(r) /\ pcSettings[r] = "intent" /\ UNCHANGED <<auth, puts, terminalSettings>>
      /\ Settings!Write(auth[r], "intent") /\ pcSettings' = [pcSettings EXCEPT ![r] = "put"]
  BY DEF Owns, Settings!Intent, Settings!Rest, Settings!Go
<1>2. At(r) /\ terminalSettings[auth[r]] = "none" /\ auth[r] \in Auths
  BY <1>1, OwnerKnows
<1>3. ledgerSettings'[auth[r]] = ledgerSettings[auth[r]] \union {"intent"}
        /\ pcSettings'[r] = "put"
  BY <1>1, <1>2 DEF Settings!Write, SettingsInv, Shapes
<1>4. At(r)'
  BY <1>1, <1>2, <1>3 DEF At, Owns
<1>5. "put" \in Settings!Labels
  BY DEF Settings!Labels
<1> QED
  BY <1>1, <1>4, <1>5, WriteKeeps

(* One request more, and the owner has no second one to send.              *)
LEMMA PutKeeps ==
    ASSUME SettingsInv, NEW r \in Processes, Settings!Put(r)
    PROVE  SettingsInv'
<1>1. Owns(r) /\ pcSettings[r] = "put" /\ UNCHANGED auth
  BY DEF Owns, Settings!Put
<1>2. /\ At(r) /\ Truth(auth[r]) /\ auth[r] \in Auths /\ terminalSettings[auth[r]] = "none"
      /\ "dir" \in ledgerSettings[auth[r]]
  BY <1>1, OwnerKnows
<1>3. CASE Settings!Close(r, "ambiguous")
  <2>1. puts' = puts \/ puts' = [puts EXCEPT ![auth[r]] = @ + 1]
    BY DEF Settings!Put
  <2> QED
    BY <1>1, <1>3, <2>1, CloseKeeps DEF Settings!Failures
<1>4. ASSUME NEW label \in {"answered", "refused"}, Settings!Go(r, label),
             puts' = [puts EXCEPT ![auth[r]] = @ + 1],
             UNCHANGED <<ledgerSettings, terminalSettings>>
      PROVE  SettingsInv'
  <2>1. /\ pcSettings' = [pcSettings EXCEPT ![r] = label] /\ pcSettings'[r] = label
        /\ puts'[auth[r]] = puts[auth[r]] + 1
    BY <1>2, <1>4 DEF Settings!Go, SettingsInv, Shapes
  <2>2. At(r)'
    BY <1>1, <1>2, <1>4, <2>1 DEF At, Owns
  <2>3. Truth(auth[r])'
    BY <1>1, <1>2, <1>4, <2>1 DEF At, Truth
  <2>4. Shapes'
    BY <1>1, <1>4, <2>1 DEF SettingsInv, Shapes, Settings!Labels
  <2> QED
    BY <1>1, <1>2, <1>4, <2>1, <2>2, <2>3, <2>4, OwnerKeeps DEF SettingsInv, Shapes
<1> QED
  BY <1>3, <1>4 DEF Settings!Put

LEMMA AnswerKeeps ==
    ASSUME SettingsInv, NEW r \in Processes, Settings!Result(r) \/ Settings!Refused(r)
    PROVE  SettingsInv'
<1>1. Owns(r) /\ pcSettings[r] \in {"answered", "refused"} /\ UNCHANGED <<auth, puts>>
  BY DEF Owns, Settings!Result, Settings!Refused, Settings!Rest
<1>2. At(r) /\ auth[r] \in Auths /\ terminalSettings[auth[r]] = "none"
  BY <1>1, OwnerKnows
<1>3. ASSUME NEW label \in {"back", "refused"},
             pcSettings' = [pcSettings EXCEPT ![r] = label],
             Settings!Write(auth[r], "result"), UNCHANGED terminalSettings
      PROVE  SettingsInv'
  <2>1. ledgerSettings'[auth[r]] = ledgerSettings[auth[r]] \union {"result"}
          /\ pcSettings'[r] = label
    BY <1>2, <1>3 DEF Settings!Write, SettingsInv, Shapes
  <2>2. At(r)' /\ label \in Settings!Labels
    BY <1>1, <1>2, <1>3, <2>1 DEF At, Owns, Settings!Labels
  <2> QED
    BY <1>1, <1>3, <2>2, WriteKeeps
<1>4. CASE Settings!Result(r)
  BY <1>3, <1>4 DEF Settings!Result, Settings!Go
<1>5. CASE Settings!Refused(r) /\ Settings!Write(auth[r], "result")
           /\ UNCHANGED <<terminalSettings, pcSettings>>
  <2>1. pcSettings' = [pcSettings EXCEPT ![r] = "refused"]
    BY <1>5 DEF Settings!Refused, SettingsInv, Shapes
  <2> QED
    BY <1>3, <1>5, <2>1
<1>6. CASE /\ Settings!Refused(r) /\ "result" \in ledgerSettings[auth[r]]
        /\ Settings!Go(r, "complete")
           /\ UNCHANGED <<ledgerSettings, terminalSettings>>
  <2>1. pcSettings'[r] = "complete" /\ "complete" \in Settings!Labels
    BY <1>6 DEF Settings!Go, Settings!Labels, SettingsInv, Shapes
  <2>2. At(r)'
    BY <1>1, <1>2, <1>6, <2>1 DEF At, Owns
  <2> QED
    BY <1>1, <1>6, <2>1, <2>2, GoKeeps
<1>7. CASE Settings!Refused(r) /\ "result" \in ledgerSettings[auth[r]]
           /\ Settings!Close(r, "unresolved")
  <2>1. pcSettings[r] = "refused"
    BY <1>7 DEF Settings!Refused
  <2> QED
    BY <1>1, <1>7, <2>1, CloseKeeps DEF Settings!Failures
<1> QED
  BY <1>4, <1>5, <1>6, <1>7 DEF Settings!Refused

LEMMA BackKeeps ==
    ASSUME SettingsInv, NEW r \in Processes,
           Settings!ReadBack(r) \/ Settings!Complete(r)
    PROVE  SettingsInv'
<1>1. Owns(r) /\ pcSettings[r] \in {"back", "complete"} /\ UNCHANGED <<auth, puts>>
  BY DEF Owns, Settings!ReadBack, Settings!Complete, Settings!Rest
<1>2. At(r) /\ "result" \in ledgerSettings[auth[r]]
  BY <1>1, OwnerKnows DEF At
<1>3. ASSUME NEW verdict \in {"complete", "failedAfter"}, Settings!Close(r, verdict)
      PROVE SettingsInv'
  BY <1>1, <1>2, <1>3, CloseKeeps DEF Settings!Failures
<1>4. ASSUME NEW label \in {"back", "complete"},
             pcSettings' = [pcSettings EXCEPT ![r] = label],
             UNCHANGED <<ledgerSettings, terminalSettings>>
      PROVE  SettingsInv'
  <2>1. pcSettings'[r] = label /\ label \in Settings!Labels
    BY <1>4 DEF Settings!Labels, SettingsInv, Shapes
  <2>2. At(r)'
    BY <1>1, <1>2, <1>4, <2>1 DEF At, Owns
  <2> QED
    BY <1>1, <1>4, <2>1, <2>2, GoKeeps DEF Settings!Go
<1>5. CASE Settings!Complete(r)
  BY <1>3, <1>5 DEF Settings!Complete
<1>6. CASE Settings!ReadBack(r) /\ UNCHANGED pcSettings
  <2>1. pcSettings' = [pcSettings EXCEPT ![r] = "back"]
          /\ UNCHANGED <<ledgerSettings, terminalSettings>>
    BY <1>6 DEF Settings!ReadBack, Settings!Close, Settings!Go, SettingsInv, Shapes
  <2> QED
    BY <1>4, <2>1
<1>7. CASE Settings!ReadBack(r) /\ Settings!Go(r, "complete")
           /\ UNCHANGED <<ledgerSettings, terminalSettings>>
  BY <1>4, <1>7 DEF Settings!Go
<1> QED
  BY <1>3, <1>5, <1>6, <1>7 DEF Settings!ReadBack

LEMMA NextKeeps ==
    ASSUME SettingsInv, [Settings!Next]_(Settings!vars)
    PROVE  SettingsInv'
<1> USE DEF Settings!Azure
<1>1. ASSUME NEW a \in Auths,
             Settings!Observe(a) \/ Settings!Confirm(a) \/ Settings!Expire(a)
               \/ Settings!Land(a)
      PROVE SettingsInv'
  BY <1>1, IdleKeeps DEF Settings!Observe, Settings!Confirm, Settings!Expire,
                         Settings!Land, SettingsInv, Shapes
<1>2. ASSUME NEW r \in Processes, NEW a \in Auths, Settings!Begin(r, a)
      PROVE SettingsInv'
  <2>1. /\ auth' = [auth EXCEPT ![r] = a] /\ pcSettings' = [pcSettings EXCEPT ![r] = "claim"]
        /\ UNCHANGED <<ledgerSettings, puts, terminalSettings>>
    BY <1>2 DEF Settings!Begin, Settings!Go
  <2>2. "claim" \in Settings!Labels
    BY DEF Settings!Labels
  <2> QED
    BY <2>1, <2>2, IdleKeeps DEF SettingsInv, Shapes
<1>3. ASSUME NEW r \in Processes, Settings!Step(r) PROVE SettingsInv'
  BY <1>3, ClaimKeeps, FinalReadsKeep, IntentKeeps, PutKeeps, AnswerKeeps, BackKeeps
     DEF Settings!Step
<1>4. ASSUME NEW r \in Processes, Settings!Crash(r) PROVE SettingsInv'
  <2>1. pcSettings' = [pcSettings EXCEPT ![r] = "idle"]
          /\ UNCHANGED <<auth, ledgerSettings, puts, terminalSettings>>
    BY <1>4 DEF Settings!Crash, Settings!Go
  <2>2. "idle" \in Settings!Labels
    BY DEF Settings!Labels
  <2> QED
    BY <2>1, <2>2, IdleKeeps DEF SettingsInv, Shapes
<1>5. CASE Settings!Edit \/ UNCHANGED Settings!vars
  BY <1>5, IdleKeeps DEF Settings!Edit, Settings!vars, SettingsInv, Shapes
<1> QED
  BY <1>1, <1>2, <1>3, <1>4, <1>5 DEF Settings!Next

-----------------------------------------------------------------------------
(* apply sends its PUT at most once (OnePut): however many processes hold  *)
(* the authorization, wherever they die and whatever Azure answers.        *)
THEOREM OnePutSafe == Settings!Spec => []Settings!OnePut
<1>1. SettingsInv /\ [Settings!Next]_(Settings!vars) => SettingsInv'
  BY NextKeeps
<1>2. SettingsInv => Settings!OnePut
  BY DEF SettingsInv, AllTrue, Truth, Settings!OnePut
<1> QED
  BY <1>1, <1>2, SettingsStarts, PTL DEF Settings!Spec

(* The ledger tells what happened (LedgerTruth): no request without its    *)
(* durable intent, and no terminal record that contradicts it.             *)
THEOREM SettingsLedgerSafe == Settings!Spec => []Settings!LedgerTruth
<1>1. SettingsInv /\ [Settings!Next]_(Settings!vars) => SettingsInv'
  BY NextKeeps
<1>2. SettingsInv => Settings!LedgerTruth
  BY DEF SettingsInv, AllTrue, Truth, Settings!LedgerTruth
<1> QED
  BY <1>1, <1>2, SettingsStarts, PTL DEF Settings!Spec

-----------------------------------------------------------------------------
(* The site, the documents and the counters.  A map that only an           *)
(* administrator can have written was written after the last look of every *)
(* run at its own: the look itself finds the incident's map.               *)
Site ==
    /\ settings \in {"incident", "empty", "other"} /\ broken \subseteq Settings!Facts
    /\ docSettings \in [Auths -> {"none", "observed", "confirmed", "stale"}]
    /\ flightSettings \subseteq Auths /\ dead \subseteq Auths
    /\ edited \in [Auths -> BOOLEAN]
Counts ==
    /\ tries \in [Processes -> 0 .. (MaxReads - 1)]
    /\ faultsSettings \in 0 .. MaxTroubles /\ edits \in 0 .. MaxEdits
Raced == settings = "other" => \A a \in Auths : edited[a]

LEMMA SiteKeeps ==
    ASSUME SettingsInv, Site, [Settings!Next]_(Settings!vars)
    PROVE  Site'
<1>1. ASSUME NEW a \in Auths,
             Settings!Observe(a) \/ Settings!Confirm(a) \/ Settings!Expire(a)
               \/ Settings!Land(a)
      PROVE Site'
  BY <1>1 DEF Settings!Observe, Settings!Confirm, Settings!Expire, Settings!Land,
              Settings!Azure, Site
<1>2. ASSUME NEW r \in Processes, NEW a \in Auths, Settings!Begin(r, a) PROVE Site'
  BY <1>2 DEF Settings!Begin, Settings!Azure, Site
<1>3. ASSUME NEW r \in Processes, Settings!Step(r) PROVE Site'
  <2>1. auth[r] \in Auths
    BY DEF SettingsInv, Shapes
  <2>2. CASE \/ Settings!Claim(r) \/ Settings!FinalSafety(r) \/ Settings!FinalSite(r)
             \/ Settings!Intent(r) \/ Settings!Result(r)
             \/ Settings!Refused(r) \/ Settings!ReadBack(r) \/ Settings!Complete(r)
    BY <2>2 DEF Settings!Claim, Settings!FinalSafety, Settings!FinalSite,
                Settings!Intent, Settings!Result, Settings!Refused, Settings!ReadBack,
                Settings!Complete,
                Settings!Azure, Settings!Rest, Site
  <2>3. CASE Settings!FinalMap(r)
    BY <2>1, <2>3 DEF Settings!FinalMap, Settings!Azure, Settings!Rest, Site
  <2>4. CASE Settings!Put(r)
    BY <2>1, <2>4 DEF Settings!Put, Site
  <2> QED
    BY <1>3, <2>2, <2>3, <2>4 DEF Settings!Step
<1>4. ASSUME NEW r \in Processes, Settings!Crash(r) PROVE Site'
  BY <1>4 DEF Settings!Crash, Settings!Azure, Site, SettingsInv, Shapes
<1>5. CASE Settings!Edit
  <2>1. settings' \in {"other", "incident"} \/ settings' = settings
    BY <1>5 DEF Settings!Edit
  <2>2. broken' \subseteq Settings!Facts
    BY <1>5 DEF Settings!Edit, Site
  <2>3. edited' \in [Auths -> BOOLEAN]
    BY <1>5 DEF Settings!Edit, Site
  <2> QED
    BY <1>5, <2>1, <2>2, <2>3 DEF Settings!Edit, Site
<1>6. CASE UNCHANGED Settings!vars
  BY <1>6 DEF Settings!vars, Site
<1> QED
  BY <1>1, <1>2, <1>3, <1>4, <1>5, <1>6 DEF Settings!Next

(* A readback is repeated at most until the last one allowed.              *)
LEMMA CountsKeep ==
    ASSUME MaxReads \in Nat \ {0}, MaxTroubles \in Nat, MaxEdits \in Nat,
           Counts, [Settings!Next]_(Settings!vars)
    PROVE  Counts'
<1>1. UNCHANGED faultsSettings \/ Settings!Fault
  BY DEF Settings!Next, Settings!Observe, Settings!Confirm, Settings!Expire,
         Settings!Land, Settings!Begin, Settings!Step, Settings!Claim,
         Settings!FinalSafety, Settings!FinalSite,
         Settings!FinalMap, Settings!Intent, Settings!Put, Settings!Result,
         Settings!Refused, Settings!ReadBack, Settings!Complete, Settings!Crash,
         Settings!Edit, Settings!Rest, Settings!vars
<1>2. UNCHANGED edits \/ (edits < MaxEdits /\ edits' = edits + 1)
  BY DEF Settings!Next, Settings!Observe, Settings!Confirm, Settings!Expire,
         Settings!Land, Settings!Begin, Settings!Step, Settings!Claim,
         Settings!FinalSafety, Settings!FinalSite,
         Settings!FinalMap, Settings!Intent, Settings!Put, Settings!Result,
         Settings!Refused, Settings!ReadBack, Settings!Complete, Settings!Crash,
         Settings!Edit, Settings!Rest, Settings!vars
<1>3. \/ UNCHANGED tries
      \/ \E r \in Processes : tries' = [tries EXCEPT ![r] = 0]
      \/ \E r \in Processes : tries[r] + 1 < MaxReads /\ tries' = [tries EXCEPT ![r] = @ + 1]
  BY DEF Settings!Next, Settings!Observe, Settings!Confirm, Settings!Expire,
         Settings!Land, Settings!Begin, Settings!Step, Settings!Claim,
         Settings!FinalSafety, Settings!FinalSite,
         Settings!FinalMap, Settings!Intent, Settings!Put, Settings!Result,
         Settings!Refused, Settings!ReadBack, Settings!Complete, Settings!Crash,
         Settings!Edit, Settings!vars
<1>4. tries' \in [Processes -> 0 .. (MaxReads - 1)]
  BY <1>3 DEF Counts
<1>5. faultsSettings' \in 0 .. MaxTroubles /\ edits' \in 0 .. MaxEdits
  BY <1>1, <1>2 DEF Counts, Settings!Fault
<1> QED
  BY <1>4, <1>5 DEF Counts

LEMMA RacedKeeps ==
    ASSUME SettingsInv, Site, Raced, [Settings!Next]_(Settings!vars)
    PROVE  Raced'
<1>1. CASE settings' # "other"
  BY <1>1 DEF Raced
<1>2. CASE settings' = "other" /\ Settings!Edit
  BY <1>2 DEF Settings!Edit, Raced
<1>3. CASE settings' = "other" /\ ~ Settings!Edit
  <2>1. settings = "other"
    BY <1>3 DEF Settings!Next, Settings!Observe, Settings!Confirm, Settings!Expire,
                Settings!Land, Settings!Begin, Settings!Step, Settings!Claim,
                Settings!FinalSafety, Settings!FinalSite,
       Settings!FinalMap, Settings!Intent, Settings!Put, Settings!Result,
       Settings!Refused, Settings!ReadBack, Settings!Complete, Settings!Crash,
       Settings!Azure, Settings!vars
  <2>2. UNCHANGED edited
    <3>1. ~ (settings = "incident")
      BY <2>1
    <3> QED
      BY <1>3, <3>1 DEF Settings!Next, Settings!Observe, Settings!Confirm,
                        Settings!Expire, Settings!Land, Settings!Begin, Settings!Step,
                        Settings!Claim, Settings!FinalSafety,
         Settings!FinalSite, Settings!FinalMap, Settings!Classify, Settings!Incident,
         Settings!Intent, Settings!Put, Settings!Result, Settings!Refused,
         Settings!ReadBack,
         Settings!Complete, Settings!Crash, Settings!vars
  <2> QED
    BY <2>1, <2>2 DEF Raced
<1> QED
  BY <1>1, <1>2, <1>3

LEMMA SettingsInvariant ==
    ASSUME MaxReads \in Nat \ {0}, MaxTroubles \in Nat, MaxEdits \in Nat
    PROVE  Settings!Spec => [](SettingsInv /\ Site /\ Counts /\ Raced)
<1>1. Settings!Init => Site /\ Counts /\ Raced
  <2> SUFFICES ASSUME Settings!Init PROVE Site /\ Counts /\ Raced
    OBVIOUS
  <2>1. Site
    BY DEF Settings!Init, Site
  <2>2. Counts
    BY DEF Settings!Init, Counts
  <2>3. Raced
    BY DEF Settings!Init, Raced
  <2> QED
    BY <2>1, <2>2, <2>3
<1>2. SettingsInv /\ Site /\ Counts /\ Raced /\ [Settings!Next]_(Settings!vars)
      => (SettingsInv /\ Site /\ Counts /\ Raced)'
  BY NextKeeps, SiteKeeps, CountsKeep, RacedKeeps
<1> QED
  BY <1>1, <1>2, SettingsStarts, PTL DEF Settings!Spec

(* What runs with the others is the recovery, or stutters.                 *)
LEMMA SettingsRun == EitherSpec => Settings!Spec
<1>1. EitherInit => Settings!Init
  BY DEF EitherInit
<1>2. [EitherNext]_either => [Settings!Next]_(Settings!vars)
  BY DEF EitherNext, either, settingsVars, Settings!vars
<1> QED
  BY <1>1, <1>2, PTL DEF EitherSpec, Settings!Spec

(* Whatever the run checks of the recovery (SettingsSafe) holds for every  *)
(* number of processes, of authorizations, of lost answers, of readbacks   *)
(* and of writes from outside.                                             *)
THEOREM SettingsHold == EitherSpec => []SettingsSafe
<1>1. SettingsInv /\ Site /\ Counts => Settings!SettingsSafe
  BY DEF SettingsInv, Shapes, AllTrue, Truth, Site, Counts, Settings!SettingsSafe,
         Settings!TypeOK, Settings!OnePut, Settings!LedgerTruth,
         Statuses
<1>2. Settings!SettingsSafe => SettingsSafe
  BY DEF SettingsSafe
<1> QED
  BY <1>1, <1>2, SettingsRun, SettingsInvariant, ExecutorsOK, PTL

(* The race that the confirmation accepts is the only one                  *)
(* (OnlyAcceptedRace): a PUT that replaces the map of an administrator,    *)
(* early or late, was decided on before that map was written.              *)
THEOREM RaceAccepted == EitherSpec => OnlyAcceptedRace
<1>1. ASSUME SettingsInv, Site, Raced, [Settings!Next]_(Settings!vars),
             settings = "other",
             settings' = "empty"
      PROVE  \E a \in Auths : (puts'[a] # puts[a] \/ a \in flightSettings \ flightSettings')
               /\ edited[a]
  <2>1. \/ \E r \in Processes : Settings!Put(r)
        \/ \E a \in Auths : Settings!Land(a)
    BY <1>1 DEF Settings!Next, Settings!Observe, Settings!Confirm, Settings!Expire,
                Settings!Begin, Settings!Step, Settings!Claim, Settings!FinalSafety,
                Settings!FinalSite,
       Settings!FinalMap, Settings!Intent, Settings!Result, Settings!Refused,
       Settings!ReadBack, Settings!Complete, Settings!Crash, Settings!Edit,
       Settings!Azure, Settings!vars
  <2>2. ASSUME NEW r \in Processes, Settings!Put(r)
        PROVE auth[r] \in Auths /\ puts'[auth[r]] # puts[auth[r]]
    <3>1. puts' = [puts EXCEPT ![auth[r]] = @ + 1]
      BY <1>1, <2>2 DEF Settings!Put
    <3> QED
      BY <1>1, <3>1 DEF SettingsInv, Shapes
  <2>3. ASSUME NEW a \in Auths, Settings!Land(a)
        PROVE a \in flightSettings \ flightSettings'
    BY <2>3 DEF Settings!Land
  <2> QED
    BY <1>1, <2>1, <2>2, <2>3 DEF Raced
<1>2. SettingsInv /\ Site /\ Raced /\ [Settings!Next]_(Settings!vars)
      => [ settings = "other" /\ settings' = "empty"
           => \E a \in Auths : /\ puts'[a] # puts[a] \/ a \in flightSettings \ flightSettings'
                               /\ edited[a] ]_(Settings!vars)
  BY <1>1
<1> QED
  BY <1>2, SettingsRun, SettingsInvariant, ExecutorsOK, PTL
     DEF Settings!Spec, Settings!OnlyAcceptedRace, OnlyAcceptedRace

-----------------------------------------------------------------------------
(* For every number of hosts and of faults: the two credentials never      *)
(* exist together, and a terminal receipt stays true.  S1 never comes back *)
(* once it is deleted, and as long as it is there no host has seen the     *)
(* inventory empty: so neither a run nor a late request creates S2.        *)

RepinLabels == {"idle", "read", "claim", "claimPut", "claimBack", "global", "delete",
                "deleted", "proveEmpty", "empty", "create", "final", "created",
                "terminal"}

RepinShapes ==
    /\ fic \subseteq {"s1", "s2"}
    /\ pcRepin \in [Hosts -> RepinLabels]
    /\ seen \in [Hosts -> {"s1", "empty", "s2"}]
    /\ ledgerRepin \in [Hosts -> SUBSET Repin!Files]

(* S1 is there: it is alone, and nobody acts on an empty inventory.        *)
Untouched ==
    /\ fic = {"s1"} /\ "create" \notin flightRepin
    /\ \A h \in Hosts : pcRepin[h] \notin {"empty", "create"} /\ seen[h] = "s1"
BeforeDeletion == "s1" \in fic => Untouched

(* A host that has proved S2 to be alone, or said so, is right.            *)
Told(h) == pcRepin[h] \in {"created", "terminal"} \/ "terminal" \in ledgerRepin[h]
ToldTrue == \A h \in Hosts : Told(h) => fic = {"s2"}

RepinInv == RepinShapes /\ BeforeDeletion /\ ToldTrue

LEMMA RepinStarts == Repin!Init => RepinInv
<1> SUFFICES ASSUME Repin!Init PROVE RepinInv
  OBVIOUS
<1>1. RepinShapes
  BY DEF Repin!Init, RepinShapes, RepinLabels, Repin!Files
<1>2. BeforeDeletion
  BY DEF Repin!Init, BeforeDeletion, Untouched
<1>3. ToldTrue
  BY DEF Repin!Init, ToldTrue, Told
<1> QED
  BY <1>1, <1>2, <1>3 DEF RepinInv

-----------------------------------------------------------------------------
(* A step of a host that writes a file goes where it leads or nowhere.     *)
LEMMA RecordKeeps ==
    ASSUME RepinInv, NEW h \in Hosts, NEW f \in Repin!Files, NEW label \in RepinLabels,
           Repin!Record(h, f, label),
           label \in {"empty", "create"} => fic # {"s1"},
           label \in {"created", "terminal"} \/ f = "terminal" => fic = {"s2"}
    PROVE  RepinInv'
<1>1. /\ UNCHANGED <<fic, flightRepin, seen>>
      /\ \/ pcRepin' = [pcRepin EXCEPT ![h] = label]
         \/ pcRepin' = [pcRepin EXCEPT ![h] = "idle"]
      /\ ledgerRepin' = ledgerRepin \/ ledgerRepin' = [ledgerRepin EXCEPT ![h] = @ \union {f}]
  BY DEF Repin!Record, Repin!Go, Repin!Fail
<1>2. RepinShapes'
  BY <1>1 DEF RepinInv, RepinShapes, RepinLabels
<1>3. BeforeDeletion'
  BY <1>1 DEF RepinInv, RepinShapes, BeforeDeletion, Untouched
<1>4. ToldTrue'
  BY <1>1 DEF RepinInv, RepinShapes, ToldTrue, Told
<1> QED
  BY <1>2, <1>3, <1>4 DEF RepinInv

(* A step that only looks.                                                 *)
LEMMA LookKeeps ==
    ASSUME RepinInv, NEW h \in Hosts, NEW label \in RepinLabels, Repin!Look,
           pcRepin' = [pcRepin EXCEPT ![h] = label],
           \/ seen' = seen
           \/ \E s \in {"s1", "empty", "s2"} : /\ seen' = [seen EXCEPT ![h] = s]
                                               /\ fic = {"s1"} => s = "s1",
           label \in {"empty", "create"} => fic # {"s1"},
           label \in {"created", "terminal"} => fic = {"s2"}
    PROVE  RepinInv'
<1>1. UNCHANGED <<fic, flightRepin, ledgerRepin>>
  BY DEF Repin!Look
<1>2. RepinShapes'
  BY <1>1 DEF RepinInv, RepinShapes, RepinLabels
<1>3. BeforeDeletion'
  BY <1>1 DEF RepinInv, RepinShapes, BeforeDeletion, Untouched
<1>4. ToldTrue'
  BY <1>1 DEF RepinInv, RepinShapes, ToldTrue, Told
<1> QED
  BY <1>2, <1>3, <1>4 DEF RepinInv

(* What reaches Graph or ARM: S2 is only created into an inventory without *)
(* S1, and then nothing takes it away.                                     *)
LEMMA EffectKeeps ==
    ASSUME RepinInv, NEW r \in {"claim", "delete", "create"}, Repin!Effect(r),
           r = "create" => fic # {"s1"}
    PROVE  /\ fic' \subseteq {"s1", "s2"}
           /\ "s1" \in fic' => fic' = {"s1"} /\ fic = {"s1"}
           /\ fic = {"s2"} => fic' = {"s2"}
<1>1. fic \subseteq {"s1", "s2"} /\ ("s1" \in fic => fic = {"s1"})
  BY DEF RepinInv, RepinShapes, BeforeDeletion, Untouched
<1>2. CASE r = "claim"
  BY <1>1, <1>2 DEF Repin!Effect
<1>3. CASE r = "delete"
  BY <1>1, <1>3 DEF Repin!Effect, Repin!DeletedCredential
<1>4. CASE r = "create"
  BY <1>1, <1>4 DEF Repin!Effect
<1> QED
  BY <1>2, <1>3, <1>4

LEMMA RequestKeeps ==
    ASSUME RepinInv, NEW h \in Hosts, NEW r \in {"claim", "delete", "create"},
           NEW label \in {"claimBack", "deleted", "final"}, Repin!Request(h, r, label),
           r = "create" => fic # {"s1"}
    PROVE  RepinInv'
<1>1. /\ UNCHANGED <<seen, ledgerRepin>>
      /\ \/ pcRepin' = [pcRepin EXCEPT ![h] = label]
         \/ pcRepin' = [pcRepin EXCEPT ![h] = "idle"]
      /\ flightRepin' = flightRepin \/ flightRepin' = flightRepin \union {r}
      /\ fic' = fic \/ Repin!Effect(r)
  BY DEF Repin!Request, Repin!Go, Repin!Fail
<1>2. /\ fic' \subseteq {"s1", "s2"}
      /\ "s1" \in fic' => fic' = {"s1"} /\ fic = {"s1"}
      /\ fic = {"s2"} => fic' = {"s2"}
  BY <1>1, EffectKeeps DEF RepinInv, RepinShapes, BeforeDeletion, Untouched
<1>3. RepinShapes'
  BY <1>1, <1>2 DEF RepinInv, RepinShapes, RepinLabels
<1>4. BeforeDeletion'
  BY <1>1, <1>2 DEF RepinInv, RepinShapes, BeforeDeletion, Untouched
<1>5. ToldTrue'
  BY <1>1, <1>2 DEF RepinInv, RepinShapes, ToldTrue, Told
<1> QED
  BY <1>3, <1>4, <1>5 DEF RepinInv

-----------------------------------------------------------------------------
(* Where a run goes from the claim depends on what it has seen.            *)
LEMMA ClaimedKeeps ==
    ASSUME RepinInv, NEW h \in Hosts, Repin!Claimed(h)
    PROVE  RepinInv'
<1>1. CASE seen[h] = "s1"
  <2>1. Repin!Record(h, "global", "delete")
    BY <1>1 DEF Repin!Claimed
  <2> QED
    BY <2>1, RecordKeeps DEF RepinLabels, Repin!Files
<1>2. CASE seen[h] = "empty"
  <2>1. Repin!Record(h, "global", "empty")
    BY <1>2 DEF Repin!Claimed
  <2>2. fic # {"s1"}
    BY <1>2 DEF RepinInv, BeforeDeletion, Untouched
  <2> QED
    BY <2>1, <2>2, RecordKeeps DEF RepinLabels, Repin!Files
<1>3. CASE seen[h] = "s2"
  <2>1. Repin!Record(h, "global", "final")
    BY <1>3 DEF Repin!Claimed
  <2> QED
    BY <2>1, RecordKeeps DEF RepinLabels, Repin!Files
<1> QED
  BY <1>1, <1>2, <1>3 DEF RepinInv, RepinShapes

LEMMA ApplyKeeps ==
    ASSUME RepinInv, NEW h \in Hosts, Repin!Apply(h)
    PROVE  RepinInv'
<1>0. /\ pcRepin[h] \in {"empty", "create"} => fic # {"s1"}
      /\ pcRepin[h] \in {"created", "terminal"} => fic = {"s2"}
  BY DEF RepinInv, BeforeDeletion, Untouched, ToldTrue, Told
<1>1. CASE Repin!Begin(h)
  BY <1>1, RecordKeeps DEF RepinLabels, Repin!Begin, Repin!Files
<1>2. CASE Repin!Read(h)
  <2>1. fic = {"s1"} => Repin!StateOf(fic) = "s1"
    BY DEF Repin!StateOf
  <2>2. Repin!StateOf(fic) \in {"s1", "empty", "s2", "overlap"}
    BY DEF Repin!StateOf
  <2>3. CASE Repin!MayStart(h, Repin!StateOf(fic))
    BY <1>2, <2>1, <2>2, <2>3, LookKeeps DEF RepinLabels, Repin!Read, Repin!MayStart,
                                             Repin!Go
  <2>4. CASE ~Repin!MayStart(h, Repin!StateOf(fic))
    BY <1>2, <2>4, LookKeeps DEF RepinLabels, Repin!Read, Repin!Fail, Repin!Go
  <2> QED
    BY <2>3, <2>4
<1>3. CASE Repin!ClaimRead(h)
  BY <1>3, LookKeeps DEF RepinLabels, Repin!ClaimRead, Repin!Go, Repin!Fail
<1>4. CASE Repin!ClaimPut(h)
  BY <1>4, RequestKeeps DEF RepinLabels, Repin!ClaimPut
<1>5. CASE Repin!ClaimBack(h)
  BY <1>5, LookKeeps DEF RepinLabels, Repin!ClaimBack, Repin!Go, Repin!Fail
<1>6. CASE Repin!Claimed(h)
  BY <1>6, ClaimedKeeps
<1>7. CASE Repin!Delete(h)
  BY <1>7, RequestKeeps DEF RepinLabels, Repin!Delete
<1>8. CASE Repin!Deleted(h)
  BY <1>8, RecordKeeps DEF RepinLabels, Repin!Deleted, Repin!Files
<1>9. CASE Repin!ProveEmpty(h)
  BY <1>9, LookKeeps DEF RepinLabels, Repin!ProveEmpty, Repin!Go, Repin!Fail,
                         Repin!StateOf
<1>10. CASE Repin!Emptied(h)
  BY <1>0, <1>10, RecordKeeps DEF RepinLabels, Repin!Emptied, Repin!Files
<1>11. CASE Repin!Create(h)
  BY <1>0, <1>11, RequestKeeps DEF RepinLabels, Repin!Create
<1>12. CASE Repin!Final(h)
  <2>1. Repin!StateOf(fic) = "s2" => fic = {"s2"}
    BY DEF Repin!StateOf, RepinInv, RepinShapes
  <2> QED
    BY <1>12, <2>1, LookKeeps DEF RepinLabels, Repin!Final, Repin!Go, Repin!Fail
<1>13. CASE Repin!Created(h)
  BY <1>0, <1>13, RecordKeeps DEF RepinLabels, Repin!Created, Repin!Files
<1>14. CASE Repin!Terminal(h)
  BY <1>0, <1>14, RecordKeeps DEF RepinLabels, Repin!Terminal, Repin!Files
<1> QED
  BY <1>1, <1>2, <1>3, <1>4, <1>5, <1>6, <1>7, <1>8, <1>9, <1>10, <1>11, <1>12, <1>13,
  <1>14
     DEF Repin!Apply

LEMMA CrashKeeps ==
    ASSUME RepinInv, NEW h \in Hosts, Repin!Crash(h)
    PROVE  RepinInv'
<1>1. /\ UNCHANGED <<fic, flightRepin, seen, ledgerRepin>>
      /\ pcRepin' = [pcRepin EXCEPT ![h] = "idle"]
  BY DEF Repin!Crash, Repin!Fail, Repin!Go
<1> QED
  BY <1>1 DEF RepinInv, RepinShapes, RepinLabels, BeforeDeletion, Untouched, ToldTrue,
              Told

(* A late request meets the inventory as it is then.                       *)
LEMMA LandKeeps ==
    ASSUME RepinInv, Repin!Land, flightRepin \subseteq {"claim", "delete", "create"}
    PROVE  RepinInv'
<1>1. PICK r \in flightRepin : /\ flightRepin' = flightRepin \ {r}
                               /\ Repin!Effect(r) \/ UNCHANGED fic
                               /\ UNCHANGED <<pcRepin, seen, ledgerRepin>>
  BY DEF Repin!Land
<1>2. /\ fic' \subseteq {"s1", "s2"}
      /\ "s1" \in fic' => fic' = {"s1"} /\ fic = {"s1"}
      /\ fic = {"s2"} => fic' = {"s2"}
  <2>1. r = "create" => fic # {"s1"}
    BY DEF RepinInv, BeforeDeletion, Untouched
  <2>2. CASE Repin!Effect(r)
    BY <2>1, <2>2, EffectKeeps
  <2>3. CASE UNCHANGED fic
    BY <2>3 DEF RepinInv, RepinShapes, BeforeDeletion, Untouched
  <2> QED
    BY <1>1, <2>2, <2>3
<1>3. RepinShapes'
  BY <1>1, <1>2 DEF RepinInv, RepinShapes
<1>4. BeforeDeletion'
  BY <1>1, <1>2 DEF RepinInv, RepinShapes, BeforeDeletion, Untouched
<1>5. ToldTrue'
  BY <1>1, <1>2 DEF RepinInv, RepinShapes, ToldTrue, Told
<1> QED
  BY <1>3, <1>4, <1>5 DEF RepinInv

(* Only these three are ever under way.                                    *)
Sent == flightRepin \subseteq {"claim", "delete", "create"}

LEMMA StepKeeps ==
    ASSUME RepinInv, Sent, [Repin!Next]_(Repin!vars)
    PROVE  RepinInv' /\ Sent'
<1>1. ASSUME NEW h \in Hosts, Repin!Apply(h) PROVE RepinInv' /\ Sent'
  <2>1. RepinInv'
    BY <1>1, ApplyKeeps
  <2>2. \/ flightRepin' = flightRepin
        \/ \E r \in {"claim", "delete", "create"} : flightRepin' = flightRepin \union {r}
    BY <1>1 DEF Repin!Apply, Repin!Begin, Repin!Read, Repin!ClaimRead, Repin!ClaimPut,
                Repin!ClaimBack, Repin!Claimed, Repin!Delete, Repin!Deleted,
                Repin!ProveEmpty, Repin!Emptied, Repin!Create, Repin!Final,
                Repin!Created, Repin!Terminal, Repin!Record, Repin!Request, Repin!Look
  <2> QED
    BY <2>1, <2>2 DEF Sent
<1>2. ASSUME NEW h \in Hosts, Repin!Crash(h) PROVE RepinInv' /\ Sent'
  BY <1>2, CrashKeeps DEF Repin!Crash, Sent
<1>3. CASE Repin!Land
  BY <1>3, LandKeeps DEF Repin!Land, Sent
<1>4. CASE Repin!Observe \/ Repin!Authorize \/ Repin!Expire \/ UNCHANGED Repin!vars
  <2>1. UNCHANGED <<fic, flightRepin, pcRepin, seen, ledgerRepin>>
    BY <1>4 DEF Repin!Observe, Repin!Authorize, Repin!Expire, Repin!vars
  <2> QED
    BY <2>1 DEF RepinInv, RepinShapes, BeforeDeletion, Untouched, ToldTrue, Told, Sent
<1> QED
  BY <1>1, <1>2, <1>3, <1>4 DEF Repin!Next

LEMMA RepinInvariant == Repin!Spec => [](RepinInv /\ Sent)
<1>1. Repin!Init => RepinInv /\ Sent
  BY RepinStarts DEF Repin!Init, Sent
<1> QED
  BY <1>1, StepKeeps, PTL DEF Repin!Spec

-----------------------------------------------------------------------------
(* The two credentials never exist together (NoOverlap), whatever hosts    *)
(* hold the authorization, wherever they die and whatever takes effect     *)
(* late.                                                                   *)
THEOREM OverlapSafe == Repin!Spec => []Repin!NoOverlap
<1>1. RepinInv => Repin!NoOverlap
  BY DEF RepinInv, BeforeDeletion, Untouched, Repin!NoOverlap
<1> QED
  BY <1>1, RepinInvariant, PTL

(* A terminal receipt is true when it is written and stays so              *)
(* (ReceiptTruth).                                                         *)
THEOREM ReceiptSafe == Repin!Spec => []Repin!ReceiptTruth
<1>1. RepinInv => Repin!ReceiptTruth
  BY DEF RepinInv, ToldTrue, Told, Repin!ReceiptTruth
<1> QED
  BY <1>1, RepinInvariant, PTL

-----------------------------------------------------------------------------
(* Whoever takes the old credential away has recorded the claim, whoever   *)
(* adds the new one has recorded the empty inventory as well; a request    *)
(* that is under way, and what it has done, keep such a host.              *)
Recorded(h) ==
    /\ pcRepin[h] \in {"delete", "deleted", "proveEmpty", "empty"} =>
           "global" \in ledgerRepin[h]
    /\ pcRepin[h] = "create" => {"global", "empty"} \subseteq ledgerRepin[h]

Behind(set) == \E k \in Hosts : set \subseteq ledgerRepin[k]

Trail ==
    /\ \A h \in Hosts : Recorded(h)
    /\ "delete" \in flightRepin \/ fic = {} => Behind({"global"})
    /\ "create" \in flightRepin \/ fic = {"s2"} => Behind({"global", "empty"})

(* What else the types say.                                                *)
RepinRest ==
    /\ claim \in BOOLEAN
    /\ papers \in {"none", "observed", "authorized", "stale"}
    /\ torn \in [Hosts -> SUBSET Repin!Files]
    /\ faultsRepin \in 0 .. MaxTroubles

(* No file is ever taken out of a ledger.                                  *)
Grows == \A k \in Hosts : ledgerRepin[k] \subseteq ledgerRepin'[k]

LEMMA BehindStays ==
    ASSUME NEW set, Grows, Behind(set)
    PROVE  Behind(set)'
BY DEF Grows, Behind

LEMMA RecordTrail ==
    ASSUME RepinInv, Trail, NEW h \in Hosts, NEW f \in Repin!Files,
           NEW label \in RepinLabels,
           Repin!Record(h, f, label),
           label \in {"delete", "deleted", "proveEmpty", "empty"} =>
               f = "global" \/ "global" \in ledgerRepin[h],
           label = "create" => f = "empty" /\ "global" \in ledgerRepin[h]
    PROVE  Trail'
<1>1. /\ UNCHANGED <<fic, flightRepin>>
      /\ ledgerRepin' \in [Hosts -> SUBSET Repin!Files]
      /\ \A k \in Hosts : /\ ledgerRepin[k] \subseteq ledgerRepin'[k]
                          /\ k # h => pcRepin'[k] = pcRepin[k]
      /\ pcRepin'[h] = "idle" \/ (pcRepin'[h] = label /\ f \in ledgerRepin'[h])
  BY DEF Repin!Record, Repin!Go, Repin!Fail, RepinInv, RepinShapes
<1>2. \A k \in Hosts : Recorded(k)'
  BY <1>1 DEF Trail, Recorded
<1>3. Grows
  BY <1>1 DEF Grows
<1> QED
  BY <1>1, <1>2, <1>3, BehindStays DEF Trail

LEMMA LookTrail ==
    ASSUME RepinInv, Trail, NEW h \in Hosts, NEW label \in RepinLabels, Repin!Look,
           pcRepin' = [pcRepin EXCEPT ![h] = label],
           label \notin {"delete", "deleted", "proveEmpty", "create"},
           label = "empty" => "global" \in ledgerRepin[h]
    PROVE  Trail'
<1>1. /\ UNCHANGED <<fic, flightRepin, ledgerRepin>>
      /\ pcRepin'[h] = label
      /\ \A k \in Hosts : k # h => pcRepin'[k] = pcRepin[k]
  BY DEF Repin!Look, RepinInv, RepinShapes
<1>2. \A k \in Hosts : Recorded(k)'
  BY <1>1 DEF Trail, Recorded
<1> QED
  BY <1>1, <1>2 DEF Trail, Behind

(* What a request does to the inventory leaves a host behind it.           *)
LEMMA EffectTrail ==
    ASSUME RepinInv, Trail, NEW r \in {"claim", "delete", "create"}, Repin!Effect(r),
           Repin!Accepted(r),
           r = "create" => fic # {"s1"},
           r = "delete" => Behind({"global"}),
           r = "create" => Behind({"global", "empty"})
    PROVE  /\ fic' = {} => Behind({"global"})
           /\ fic' = {"s2"} => Behind({"global", "empty"})
<1>1. fic \subseteq {"s1", "s2"} /\ ("s1" \in fic => fic = {"s1"})
  BY DEF RepinInv, RepinShapes, BeforeDeletion, Untouched
<1>2. CASE r = "claim"
  BY <1>2 DEF Repin!Effect, Trail
<1>3. CASE r = "delete"
  BY <1>1, <1>3 DEF Repin!Effect, Repin!Accepted, Repin!DeletedCredential
<1>4. CASE r = "create"
  BY <1>1, <1>4 DEF Repin!Effect
<1> QED
  BY <1>2, <1>3, <1>4

LEMMA RequestTrail ==
    ASSUME RepinInv, Trail, NEW h \in Hosts, NEW r \in {"claim", "delete", "create"},
           NEW label \in {"claimBack", "deleted", "final"}, Repin!Request(h, r, label),
           r = "create" => fic # {"s1"} /\ {"global", "empty"} \subseteq ledgerRepin[h],
           r = "delete" \/ label = "deleted" => "global" \in ledgerRepin[h]
    PROVE  Trail'
<1>1. /\ UNCHANGED ledgerRepin
      /\ \A k \in Hosts : k # h => pcRepin'[k] = pcRepin[k]
      /\ pcRepin'[h] \in {label, "idle"}
      /\ flightRepin' = flightRepin \/ flightRepin' = flightRepin \union {r}
      /\ fic' = fic \/ (Repin!Effect(r) /\ Repin!Accepted(r))
  BY DEF Repin!Request, Repin!Go, Repin!Fail, RepinInv, RepinShapes
<1>2. /\ r = "delete" => Behind({"global"})
      /\ r = "create" => Behind({"global", "empty"})
  BY DEF Behind
<1>3. /\ fic' = {} => Behind({"global"})
      /\ fic' = {"s2"} => Behind({"global", "empty"})
  BY <1>1, <1>2, EffectTrail DEF Trail
<1>4. \A k \in Hosts : Recorded(k)'
  BY <1>1 DEF Trail, Recorded
<1>5. \A set : Behind(set)' <=> Behind(set)
  BY <1>1 DEF Behind
<1> QED
  BY <1>1, <1>2, <1>3, <1>4, <1>5 DEF Trail

LEMMA ClaimedTrail ==
    ASSUME RepinInv, Trail, NEW h \in Hosts, Repin!Claimed(h)
    PROVE  Trail'
<1>1. CASE seen[h] = "s1"
  BY <1>1, RecordTrail DEF Repin!Claimed, RepinLabels, Repin!Files
<1>2. CASE seen[h] = "empty"
  BY <1>2, RecordTrail DEF Repin!Claimed, RepinLabels, Repin!Files
<1>3. CASE seen[h] = "s2"
  BY <1>3, RecordTrail DEF Repin!Claimed, RepinLabels, Repin!Files
<1> QED
  BY <1>1, <1>2, <1>3 DEF RepinInv, RepinShapes

LEMMA ApplyTrail ==
    ASSUME RepinInv, Trail, NEW h \in Hosts, Repin!Apply(h)
    PROVE  Trail'
<1>0. /\ Recorded(h)
      /\ pcRepin[h] \in {"empty", "create"} => fic # {"s1"}
  BY DEF RepinInv, BeforeDeletion, Untouched, Trail
<1>1. CASE Repin!Begin(h) \/ Repin!Deleted(h) \/ Repin!Emptied(h)
           \/ Repin!Created(h) \/ Repin!Terminal(h)
  BY <1>0, <1>1, RecordTrail DEF RepinLabels, Repin!Begin, Repin!Deleted,
                                 Repin!Emptied, Repin!Created, Repin!Terminal,
                                 Repin!Files,
     Recorded
<1>2. CASE Repin!Read(h) \/ Repin!ClaimRead(h) \/ Repin!ClaimBack(h)
           \/ Repin!ProveEmpty(h) \/ Repin!Final(h)
  BY <1>0, <1>2, LookTrail DEF RepinLabels, Repin!Read, Repin!ClaimRead,
                               Repin!ClaimBack, Repin!ProveEmpty, Repin!Final,
                               Repin!Go, Repin!Fail,
     Recorded
<1>3. CASE Repin!ClaimPut(h) \/ Repin!Delete(h) \/ Repin!Create(h)
  BY <1>0, <1>3, RequestTrail DEF Repin!ClaimPut, Repin!Delete, Repin!Create, Recorded
<1>4. CASE Repin!Claimed(h)
  BY <1>4, ClaimedTrail
<1> QED
  BY <1>1, <1>2, <1>3, <1>4 DEF Repin!Apply

LEMMA LandTrail ==
    ASSUME RepinInv, Sent, Trail, Repin!Land
    PROVE  Trail'
<1>1. PICK r \in flightRepin : /\ flightRepin' = flightRepin \ {r}
                               /\ (Repin!Effect(r) /\ Repin!Accepted(r)) \/ UNCHANGED fic
                               /\ UNCHANGED <<pcRepin, ledgerRepin>>
  BY DEF Repin!Land
<1>2. /\ fic' = {} => Behind({"global"})
      /\ fic' = {"s2"} => Behind({"global", "empty"})
  <2>1. /\ r = "create" => fic # {"s1"} /\ Behind({"global", "empty"})
        /\ r = "delete" => Behind({"global"})
    BY DEF RepinInv, BeforeDeletion, Untouched, Trail
  <2>2. CASE Repin!Effect(r) /\ Repin!Accepted(r)
    BY <2>1, <2>2, EffectTrail DEF Sent
  <2>3. CASE UNCHANGED fic
    BY <2>3 DEF Trail
  <2> QED
    BY <1>1, <2>2, <2>3
<1>3. \A k \in Hosts : Recorded(k)'
  BY <1>1 DEF Trail, Recorded
<1>4. \A set : Behind(set)' <=> Behind(set)
  BY <1>1 DEF Behind
<1> QED
  BY <1>1, <1>2, <1>3, <1>4 DEF Trail

(* The claim, the papers, the torn files and the count of faults.          *)
LEMMA RestKeeps ==
    ASSUME MaxTroubles \in Nat, Sent, RepinRest, [Repin!Next]_(Repin!vars)
    PROVE  RepinRest'
<1>1. ASSUME NEW h \in Hosts, NEW f \in Repin!Files, NEW label,
             Repin!Record(h, f, label)
      PROVE  RepinRest'
  BY <1>1 DEF RepinRest, Repin!Record, Repin!Fault
<1>2. ASSUME NEW h \in Hosts, NEW r \in {"claim", "delete", "create"}, NEW label,
             Repin!Request(h, r, label)
      PROVE  RepinRest'
  <2>1. /\ UNCHANGED <<papers, torn>>
        /\ UNCHANGED faultsRepin \/ Repin!Fault
        /\ UNCHANGED claim \/ Repin!Effect(r)
    BY <1>2 DEF Repin!Request
  <2>2. claim' \in BOOLEAN
    BY <1>2, <2>1 DEF Repin!Effect, RepinRest
  <2> QED
    BY <2>1, <2>2 DEF RepinRest, Repin!Fault
<1>3. ASSUME NEW h \in Hosts, Repin!Apply(h) PROVE RepinRest'
  <2>1. CASE Repin!Begin(h) \/ Repin!Claimed(h) \/ Repin!Deleted(h)
             \/ Repin!Emptied(h) \/ Repin!Created(h) \/ Repin!Terminal(h)
    BY <1>1, <2>1 DEF Repin!Begin, Repin!Claimed, Repin!Deleted, Repin!Emptied,
                      Repin!Created, Repin!Terminal, Repin!Files
  <2>2. CASE Repin!Read(h) \/ Repin!ClaimRead(h) \/ Repin!ClaimBack(h)
             \/ Repin!ProveEmpty(h) \/ Repin!Final(h)
    BY <2>2 DEF Repin!Read, Repin!ClaimRead, Repin!ClaimBack, Repin!ProveEmpty,
                Repin!Final, Repin!Look, RepinRest
  <2>3. CASE Repin!ClaimPut(h) \/ Repin!Delete(h) \/ Repin!Create(h)
    BY <1>2, <2>3 DEF Repin!ClaimPut, Repin!Delete, Repin!Create
  <2> QED
    BY <1>3, <2>1, <2>2, <2>3 DEF Repin!Apply
<1>4. ASSUME NEW h \in Hosts, Repin!Crash(h) PROVE RepinRest'
  BY <1>4 DEF Repin!Crash, Repin!Fault, RepinRest
<1>5. CASE Repin!Observe \/ Repin!Authorize \/ Repin!Expire \/ UNCHANGED Repin!vars
  BY <1>5 DEF Repin!Observe, Repin!Authorize, Repin!Expire, Repin!vars, RepinRest
<1>6. CASE Repin!Land
  <2>1. PICK r \in flightRepin : UNCHANGED claim \/ Repin!Effect(r)
    BY <1>6 DEF Repin!Land
  <2>2. claim' \in BOOLEAN
    BY <2>1 DEF Repin!Effect, RepinRest, Sent
  <2> QED
    BY <1>6, <2>2 DEF Repin!Land, RepinRest
<1> QED
  BY <1>3, <1>4, <1>5, <1>6 DEF Repin!Next

LEMMA StepTrail ==
    ASSUME RepinInv, Sent, Trail, [Repin!Next]_(Repin!vars)
    PROVE  Trail'
<1>1. ASSUME NEW h \in Hosts, Repin!Apply(h) PROVE Trail'
  BY <1>1, ApplyTrail
<1>2. ASSUME NEW h \in Hosts, Repin!Crash(h) PROVE Trail'
  <2>1. /\ UNCHANGED <<fic, flightRepin, ledgerRepin>>
        /\ pcRepin' = [pcRepin EXCEPT ![h] = "idle"]
    BY <1>2 DEF Repin!Crash, Repin!Fail, Repin!Go
  <2>2. \A k \in Hosts : Recorded(k)'
    BY <2>1 DEF Trail, Recorded, RepinInv, RepinShapes
  <2> QED
    BY <2>1, <2>2 DEF Trail, Behind
<1>3. CASE Repin!Land
  BY <1>3, LandTrail
<1>4. CASE Repin!Observe \/ Repin!Authorize \/ Repin!Expire \/ UNCHANGED Repin!vars
  <2>1. UNCHANGED <<fic, flightRepin, pcRepin, ledgerRepin>>
    BY <1>4 DEF Repin!Observe, Repin!Authorize, Repin!Expire, Repin!vars
  <2> QED
    BY <2>1 DEF Trail, Recorded, Behind
<1> QED
  BY <1>1, <1>2, <1>3, <1>4 DEF Repin!Next

(* What runs with the others is the repin, or stutters.                    *)
LEMMA RepinRun == EitherSpec => Repin!Spec
<1>1. EitherInit => Repin!Init
  BY DEF EitherInit
<1>2. [EitherNext]_either => [Repin!Next]_(Repin!vars)
  BY DEF EitherNext, either, repinVars, Repin!vars
<1> QED
  BY <1>1, <1>2, PTL DEF EitherSpec, Repin!Spec

(* Whatever the run checks of the repin (RepinSafe) holds for every number *)
(* of hosts, of lost answers, of torn files and of dying processes: the    *)
(* two credentials never exist together, a terminal receipt is true and    *)
(* stays so, and an inventory that was emptied or moved has a host that    *)
(* recorded what it needs to resume.                                       *)
THEOREM RepinHolds == EitherSpec => []RepinSafe
<1>1. Repin!Init => Trail /\ RepinRest
  <2> SUFFICES ASSUME Repin!Init PROVE Trail /\ RepinRest
    OBVIOUS
  <2>1. fic # {} /\ fic # {"s2"} /\ flightRepin = {} /\ \A h \in Hosts : pcRepin[h] = "idle"
    BY DEF Repin!Init
  <2>2. Trail
    BY <2>1 DEF Trail, Recorded
  <2>3. torn \in [Hosts -> SUBSET Repin!Files]
    BY DEF Repin!Init
  <2>4. claim \in BOOLEAN
    BY DEF Repin!Init
  <2>5. faultsRepin \in 0 .. MaxTroubles /\ papers = "none"
    BY ExecutorsOK DEF Repin!Init
  <2>6. RepinRest
    BY <2>3, <2>4, <2>5 DEF RepinRest
  <2> QED
    BY <2>2, <2>6
<1>2. RepinInv /\ Sent /\ Trail /\ RepinRest /\ [Repin!Next]_(Repin!vars)
      => Trail' /\ RepinRest'
  BY StepTrail, RestKeeps, ExecutorsOK
<1>3. RepinInv /\ Sent /\ Trail /\ RepinRest => Repin!RepinSafe
  BY DEF RepinInv, RepinShapes, BeforeDeletion, Untouched, ToldTrue, Told, Sent,
         Trail, Recorded, Behind,
         RepinRest, Repin!RepinSafe, Repin!TypeOK, Repin!NoOverlap, Repin!ReceiptTruth,
         Repin!Resumable, RepinLabels
<1>4. Repin!RepinSafe => RepinSafe
  BY DEF RepinSafe
<1> QED
  BY <1>1, <1>2, <1>3, <1>4, RepinRun, RepinInvariant, PTL DEF Repin!Spec

-----------------------------------------------------------------------------
(* The bridge.  No mutation opens what another one shut, and none is sent  *)
(* before the one in front of it was read back: whatever is still under    *)
(* way, the settings are emptied behind a closed door.  A process counts   *)
(* its stops by its own files.                                             *)

(* The module's own Cardinality, taken through the instance.               *)
LEMMA SameCardinality == \A S : Bridge!Cardinality(S) = Cardinality(S)
BY DEF Bridge!Cardinality, Cardinality

Sites == [running : BOOLEAN, public : BOOLEAN, scm : BOOLEAN, settings : {"incident", "empty"}]

(* What a mutation is for.                                                 *)
Shut(m) ==
    /\ m = "scm" => ~ site.scm
    /\ m = "public" => ~ site.public
    /\ m = "settings" => site.settings = "empty"

(* Behind this door nothing is lost with the settings.                     *)
Door == Shut("scm") /\ Shut("public")

SiteOK ==
    /\ site \in Sites /\ flightBridge \subseteq Bridge!Mutations
    /\ site.settings = "empty" \/ "settings" \in flightBridge => Door

Ending == {"archive", "pending", "rename", "terminal"}

(* The effect of a step was read back before the next one.                 *)
Reached(a) ==
    \A k \in 1 .. 4 :
        (step[a] > k \/ (step[a] = k /\ pcBridge[a] \in {"restop", "stopped", "live"}))
          => Shut(Bridge!Plan[k])

(* Where a process is tells how far it is.                                 *)
Placed(a) ==
    /\ step[a] \in 1 .. 5 /\ pcBridge[a] \in Bridge!Labels
    /\ pcBridge[a] \in Ending => step[a] = 5
    /\ pcBridge[a] \in {"mutate", "poll", "wait", "restop", "stopped", "live"}
         => step[a] \in 1 .. 4
    /\ pcBridge[a] = "claim" => step[a] = 1
    /\ pcBridge[a] \in {"poll", "wait", "restop"} => step[a] # 1
    /\ pcBridge[a] # "idle" => Bridge!File("claim") \in ledgerBridge[a]
    /\ pcBridge[a] \in {"pending", "rename", "terminal"}
         => Bridge!File("final") \in ledgerBridge[a]
    /\ pcBridge[a] \in {"rename", "terminal"} => Bridge!File("pending") \in ledgerBridge[a]
    /\ Bridge!File("claim") \notin ledgerBridge[a] => step[a] = 1 /\ ledgerBridge[a] = {}
    /\ pcBridge[a] = "claim" => ledgerBridge[a] = {Bridge!File("claim")}
    /\ \A k \in 2 .. 4 : Bridge!Again(Bridge!Plan[k]) \in ledgerBridge[a] =>
           step[a] > k \/ (step[a] = k /\ pcBridge[a] \in {"restop", "stopped", "live", "idle"})

Stops(a) == {f \in ledgerBridge[a] : f = Bridge!Intent("stop") \/ f[1] = "again"}

(* A stop that is announced and not sent yet.                              *)
Due(a) ==
    \/ pcBridge[a] = "mutate" /\ step[a] = 1 /\ Bridge!Intent("stop") \in ledgerBridge[a]
    \/ pcBridge[a] = "restop" /\ Bridge!Again(Bridge!Plan[step[a]]) \in ledgerBridge[a]

(* One request for each mutation, after its intent; at most one stop for   *)
(* each step, after a file of its own.                                     *)
Counted(a) ==
    /\ issuedBridge[a] \in [Bridge!Mutations -> 0 .. 4]
    /\ IsFiniteSet(Stops(a))
    /\ issuedBridge[a]["stop"] <= Cardinality(Stops(a))
    /\ Due(a) => issuedBridge[a]["stop"] + 1 <= Cardinality(Stops(a))
    /\ issuedBridge[a]["stop"] <= step[a]
    /\ Bridge!File("claim") \notin ledgerBridge[a] => issuedBridge[a]["stop"] = 0
    /\ pcBridge[a] \notin {"stopped", "live", "idle"} => issuedBridge[a]["stop"] < step[a]
    /\ \A k \in 2 .. 4 :
           /\ issuedBridge[a][Bridge!Plan[k]] <= 1
           /\ issuedBridge[a][Bridge!Plan[k]] > 0
                => Bridge!Intent(Bridge!Plan[k]) \in ledgerBridge[a] /\ step[a] >= k
           /\ step[a] = k /\ pcBridge[a] = "mutate" => issuedBridge[a][Bridge!Plan[k]] = 0

BridgeFiles == {"file", "intent", "again"} \X (Bridge!Mutations \union {"claim", "final", "pending", "terminal"})

BridgeShaped ==
    /\ issuedBridge = [b \in Recoveries |-> issuedBridge[b]]
         /\ pcBridge = [b \in Recoveries |-> pcBridge[b]]
    /\ step = [b \in Recoveries |-> step[b]]
         /\ ledgerBridge = [b \in Recoveries |-> ledgerBridge[b]]

BridgeRest ==
    /\ marker \in BOOLEAN /\ changed \in BOOLEAN
    /\ docBridge \in [Recoveries -> {"none", "observed", "prepared", "expired"}]
    /\ BridgeShaped
    /\ \A a \in Recoveries : ledgerBridge[a] \subseteq BridgeFiles
    /\ faultsBridge \in 0..MaxFaults /\ restarts \in 0..MaxRestarts
    /\ ~ marker => /\ Door /\ Shut("settings")
                   /\ \E a \in Recoveries : {Bridge!File("final"), Bridge!File("pending")} \subseteq ledgerBridge[a]

BridgeInv == SiteOK /\ BridgeRest /\ \A a \in Recoveries : Reached(a) /\ Placed(a) /\ Counted(a)

-----------------------------------------------------------------------------
LEMMA PlanIs ==
    /\ Len(Bridge!Plan) = 4 /\ Bridge!Plan[1] = "stop" /\ Bridge!Plan[2] = "scm"
         /\ Bridge!Plan[3] = "public"
    /\ Bridge!Plan[4] = "settings" /\ \A k \in 1 .. 4 : Bridge!Plan[k] \in Bridge!Mutations
BY DEF Bridge!Plan, Bridge!Mutations

Kept == \A m \in Bridge!Mutations : Shut(m) => Shut(m)'

(* No mutation opens what another one shut.                                *)
LEMMA EffectShuts ==
    ASSUME SiteOK, NEW m \in Bridge!Mutations, site' = Bridge!Effect(m, site),
           m = "settings" => Door
    PROVE  /\ Kept /\ Shut(m)' /\ site' \in Sites
           /\ site'.settings = "empty" => Door'
<1>1. site \in Sites
  BY DEF SiteOK
<1>2. CASE m = "stop"
  <2>1. site' = [site EXCEPT !.running = FALSE]
    BY <1>2 DEF Bridge!Effect
  <2> QED
    BY <1>1, <1>2, <2>1 DEF Kept, Shut, Door, SiteOK, Sites
<1>3. CASE m = "scm"
  <2>1. site' = [site EXCEPT !.scm = FALSE]
    BY <1>3 DEF Bridge!Effect
  <2> QED
    BY <1>1, <1>3, <2>1 DEF Kept, Shut, Door, SiteOK, Sites
<1>4. CASE m = "public"
  <2>1. site' = [site EXCEPT !.public = FALSE]
    BY <1>4 DEF Bridge!Effect
  <2> QED
    BY <1>1, <1>4, <2>1 DEF Kept, Shut, Door, SiteOK, Sites
<1>5. CASE m = "settings"
  <2>1. site' = [site EXCEPT !.settings = "empty"]
    BY <1>5 DEF Bridge!Effect
  <2> QED
    BY <1>1, <1>5, <2>1 DEF Kept, Shut, Door, SiteOK, Sites
<1> QED
  BY <1>2, <1>3, <1>4, <1>5 DEF Bridge!Mutations

(* What was read back as done is done.                                     *)
LEMMA ConvergedShut ==
    ASSUME SiteOK, NEW m \in Bridge!Mutations, Bridge!Converged(m)
    PROVE  Shut(m)
<1>1. site \in Sites
  BY DEF SiteOK
<1>2. Bridge!Effect(m, site) = site
  BY DEF Bridge!Converged
<1> QED
  BY <1>1, <1>2 DEF Bridge!Effect, Shut, Sites, Bridge!Mutations

(* A step in which a process has no part.                                  *)
LEMMA BridgeOthers ==
    ASSUME NEW b, Reached(b), Placed(b), Counted(b), Kept,
           pcBridge'[b] = pcBridge[b], step'[b] = step[b], ledgerBridge'[b] = ledgerBridge[b],
           issuedBridge'[b] = issuedBridge[b]
    PROVE  Reached(b)' /\ Placed(b)' /\ Counted(b)'
<1>1. Reached(b)'
  BY PlanIs DEF Reached, Kept
<1>2. Placed(b)'
  BY DEF Placed
<1>3. Stops(b)' = Stops(b) /\ (Due(b)' <=> Due(b))
  BY DEF Stops, Due
<1>4. Counted(b)'
  BY <1>3 DEF Counted
<1> QED
  BY <1>1, <1>2, <1>4

-----------------------------------------------------------------------------
LEMMA InvInit == ASSUME Bridge!Init PROVE BridgeInv
<1>1. SiteOK
  BY DEF Bridge!Init, SiteOK, Sites, Bridge!Exposed, Door, Shut, Bridge!Mutations
<1>2. BridgeRest
  <2>1. faultsBridge \in 0 .. MaxFaults /\ restarts \in 0 .. MaxRestarts
    BY ExecutorsOK DEF Bridge!Init
  <2>2. BridgeShaped
    BY DEF Bridge!Init, BridgeShaped
  <2>3. /\ docBridge \in [Recoveries -> {"none", "observed", "prepared", "expired"}]
        /\ marker = TRUE /\ changed = FALSE /\ \A a \in Recoveries : ledgerBridge[a] = {}
    BY DEF Bridge!Init
  <2> QED
    BY <2>1, <2>2, <2>3 DEF BridgeRest
<1>3. ASSUME NEW a \in Recoveries PROVE Reached(a) /\ Placed(a) /\ Counted(a)
  <2>1. pcBridge[a] = "idle" /\ step[a] = 1 /\ ledgerBridge[a] = {}
          /\ issuedBridge[a] = [m \in Bridge!Mutations |-> 0]
    BY <1>3 DEF Bridge!Init
  <2>2. Reached(a)
    BY <2>1 DEF Reached
  <2>3. Placed(a)
    BY <2>1 DEF Placed, Bridge!Labels, Ending
  <2>4. Stops(a) = {} /\ IsFiniteSet(Stops(a)) /\ Cardinality(Stops(a)) = 0
    BY <2>1, FS_EmptySet DEF Stops
  <2>5. issuedBridge[a] \in [Bridge!Mutations -> 0 .. 4] /\ issuedBridge[a]["stop"] = 0
        /\ \A k \in 1 .. 4 : issuedBridge[a][Bridge!Plan[k]] = 0
    BY <2>1, PlanIs DEF Bridge!Mutations
  <2>6. Counted(a)
    BY <2>1, <2>4, <2>5 DEF Counted, Due
  <2> QED
    BY <2>2, <2>3, <2>6
<1> QED
  BY <1>1, <1>2, <1>3 DEF BridgeInv

LEMMA StillKeeps == ASSUME UNCHANGED site PROVE Kept
BY DEF Kept, Shut

(* Nobody but a acts.                                                      *)
BridgeAlone(a) ==
    /\ BridgeShaped'
    /\ \A b \in Recoveries : b # a =>
           /\ pcBridge'[b] = pcBridge[b] /\ step'[b] = step[b]
           /\ ledgerBridge'[b] = ledgerBridge[b] /\ issuedBridge'[b] = issuedBridge[b]
    /\ ledgerBridge[a] \subseteq ledgerBridge'[a] /\ ledgerBridge'[a] \subseteq BridgeFiles
    /\ docBridge' = docBridge /\ UNCHANGED restarts
    /\ changed' \in BOOLEAN /\ faultsBridge' \in 0 .. MaxFaults

(* A step of one process.                                                  *)
LEMMA BridgeActs ==
    ASSUME BridgeInv, NEW a \in Recoveries, BridgeAlone(a), SiteOK', Kept,
           \/ marker' = marker
           \/ marker' = FALSE /\ (Door /\ Shut("settings"))'
              /\ {Bridge!File("final"), Bridge!File("pending")} \subseteq ledgerBridge[a],
           Reached(a)', Placed(a)', Counted(a)'
    PROVE  BridgeInv'
<1>1. \A b \in Recoveries : b # a => Reached(b)' /\ Placed(b)' /\ Counted(b)'
  <2> SUFFICES ASSUME NEW b \in Recoveries, b # a
  PROVE Reached(b)' /\ Placed(b)' /\ Counted(b)'
    OBVIOUS
  <2>1. Reached(b) /\ Placed(b) /\ Counted(b)
    BY DEF BridgeInv
  <2>2. pcBridge'[b] = pcBridge[b] /\ step'[b] = step[b]
          /\ ledgerBridge'[b] = ledgerBridge[b] /\ issuedBridge'[b] = issuedBridge[b]
    BY DEF BridgeAlone
  <2> QED
    BY <2>1, <2>2, BridgeOthers
<1>2. \A b \in Recoveries : ledgerBridge[b] \subseteq ledgerBridge'[b]
        /\ ledgerBridge'[b] \subseteq BridgeFiles
  BY DEF BridgeInv, BridgeRest, BridgeAlone
<1>3. marker' \in BOOLEAN
  BY DEF BridgeInv, BridgeRest
<1>4. ASSUME ~ marker' PROVE (Door /\ Shut("settings"))'
               /\ \E b \in Recoveries : {Bridge!File("final"), Bridge!File("pending")} \subseteq ledgerBridge'[b]
  <2>1. CASE marker' = marker
    <3>1. Door /\ Shut("settings")
            /\ \E b \in Recoveries : {Bridge!File("final"), Bridge!File("pending")} \subseteq ledgerBridge[b]
      BY <1>4, <2>1 DEF BridgeInv, BridgeRest
    <3>2. (Door /\ Shut("settings"))'
      BY <3>1 DEF Kept, Door, Bridge!Mutations
    <3> QED
      BY <3>1, <3>2, <1>2
  <2>2. CASE (Door /\ Shut("settings"))'
             /\ {Bridge!File("final"), Bridge!File("pending")} \subseteq ledgerBridge[a]
    BY <2>2, <1>2
  <2> QED
    BY <2>1, <2>2
<1>5. /\ changed' \in BOOLEAN /\ faultsBridge' \in 0 .. MaxFaults
           /\ restarts' \in 0 .. MaxRestarts
      /\ docBridge' \in [Recoveries -> {"none", "observed", "prepared", "expired"}]
      /\ BridgeShaped'
  BY DEF BridgeInv, BridgeRest, BridgeAlone
<1>6. BridgeRest'
  BY <1>2, <1>3, <1>4, <1>5 DEF BridgeRest
<1> QED
  BY <1>1, <1>6 DEF BridgeInv

(* How a step of a changes a function of the processes.                    *)
LEMMA ShapeStays ==
    ASSUME NEW f, f = [b \in Recoveries |-> f[b]], NEW a \in Recoveries, NEW v,
           NEW g, g = f \/ g = [f EXCEPT ![a] = v]
    PROVE  /\ DOMAIN f = Recoveries /\ DOMAIN g = Recoveries
           /\ g = [b \in Recoveries |-> g[b]]
           /\ \A b \in Recoveries : b # a => g[b] = f[b]
           /\ g # f => g[a] = v
OBVIOUS

(* The site is as it was, and nothing is sent.                             *)
LEMMA LooksOnly ==
    ASSUME BridgeInv, NEW a \in Recoveries, NEW p,
           UNCHANGED <<site, marker, docBridge, issuedBridge, flightBridge, changed, faultsBridge, restarts>>,
           pcBridge' = [pcBridge EXCEPT ![a] = p] \/ (pcBridge' = pcBridge /\ p = pcBridge[a]),
           step' = step \/ step' = [step EXCEPT ![a] = step[a] + 1],
           ledgerBridge' = ledgerBridge
             \/ \E f \in BridgeFiles : ledgerBridge' = [ledgerBridge EXCEPT ![a] = ledgerBridge[a] \cup {f}]
    PROVE  /\ BridgeAlone(a) /\ SiteOK' /\ Kept /\ marker' = marker
           /\ pcBridge'[a] = p /\ issuedBridge'[a] = issuedBridge[a]
           /\ step' # step => step'[a] = step[a] + 1
<1>1. Kept
  BY StillKeeps
<1>2. SiteOK'
  BY DEF BridgeInv, SiteOK, Door, Shut
<1>3. BridgeShaped
  BY DEF BridgeInv, BridgeRest
<1>4. pcBridge'[a] = p /\ issuedBridge'[a] = issuedBridge[a]
  BY <1>3 DEF BridgeShaped
<1>5. changed' \in BOOLEAN /\ faultsBridge' \in 0 .. MaxFaults
  BY DEF BridgeInv, BridgeRest
<1>6. /\ step' # step => step'[a] = step[a] + 1
      /\ \A b \in Recoveries : b # a => step'[b] = step[b]
      /\ step' = [b \in Recoveries |-> step'[b]]
  <2>1. step = [b \in Recoveries |-> step[b]]
    BY <1>3 DEF BridgeShaped
  <2> QED
    BY <2>1, ShapeStays
<1>7. (\A b \in Recoveries : b # a
      => pcBridge'[b] = pcBridge[b]) /\ pcBridge' = [b \in Recoveries |-> pcBridge'[b]]
  <2>1. pcBridge = [b \in Recoveries |-> pcBridge[b]]
    BY <1>3 DEF BridgeShaped
  <2> QED
    BY <2>1, ShapeStays
<1>8. /\ ledgerBridge[a] \subseteq ledgerBridge'[a] /\ ledgerBridge'[a] \subseteq BridgeFiles
      /\ \A b \in Recoveries : b # a => ledgerBridge'[b] = ledgerBridge[b]
      /\ ledgerBridge' = [b \in Recoveries |-> ledgerBridge'[b]]
  <2>1. ledgerBridge[a] \subseteq BridgeFiles
    BY DEF BridgeInv, BridgeRest
  <2>2. ledgerBridge = [b \in Recoveries |-> ledgerBridge[b]]
    BY <1>3 DEF BridgeShaped
  <2>3. CASE ledgerBridge' = ledgerBridge
    BY <2>1, <2>2, <2>3
  <2>4. ASSUME NEW f \in BridgeFiles,
               ledgerBridge' = [ledgerBridge EXCEPT ![a] = ledgerBridge[a] \cup {f}]
        PROVE  /\ ledgerBridge[a] \subseteq ledgerBridge'[a]
                 /\ ledgerBridge'[a] \subseteq BridgeFiles
               /\ \A b \in Recoveries : b # a => ledgerBridge'[b] = ledgerBridge[b]
               /\ ledgerBridge' = [b \in Recoveries |-> ledgerBridge'[b]]
    <3>1. /\ \A b \in Recoveries : b # a => ledgerBridge'[b] = ledgerBridge[b]
          /\ ledgerBridge' = [b \in Recoveries |-> ledgerBridge'[b]]
      BY <2>2, <2>4, ShapeStays
    <3>2. ledgerBridge'[a] = ledgerBridge[a] \cup {f}
      BY <2>2, <2>4
    <3> QED
      BY <2>1, <3>1, <3>2
  <2> QED
    BY <2>3, <2>4
<1>10. BridgeShaped'
  BY <1>3, <1>6, <1>7, <1>8 DEF BridgeShaped
<1>9. BridgeAlone(a)
  BY <1>4, <1>5, <1>6, <1>7, <1>8, <1>10 DEF BridgeAlone
<1> QED
  BY <1>1, <1>2, <1>4, <1>6, <1>9

(* Files other than those of the stops do not count.                       *)
LEMMA CountStays ==
    ASSUME NEW a, Counted(a), ledgerBridge[a] \subseteq ledgerBridge'[a],
           issuedBridge'[a] = issuedBridge[a], step'[a] = step[a],
           Stops(a)' = Stops(a), ~ Due(a)',
           Bridge!File("claim") \notin ledgerBridge'[a]
             => Bridge!File("claim") \notin ledgerBridge[a],
           pcBridge'[a] \notin {"stopped", "live", "idle"} =>
               \/ pcBridge[a] \notin {"stopped", "live", "idle"}
               \/ Bridge!File("claim") \notin ledgerBridge[a] /\ step[a] = 1,
           \A k \in 2 .. 4 : step[a] = k /\ pcBridge'[a] = "mutate" => pcBridge[a] = "mutate"
    PROVE  Counted(a)'
<1>1. \A k \in 2 .. 4 : Bridge!Intent(Bridge!Plan[k]) \in ledgerBridge[a]
        => Bridge!Intent(Bridge!Plan[k]) \in ledgerBridge'[a]
  OBVIOUS
<1>2. pcBridge'[a] \notin {"stopped", "live", "idle"}
      => issuedBridge'[a]["stop"] < step'[a]
  BY DEF Counted
<1>3. /\ issuedBridge'[a] \in [Bridge!Mutations -> 0 .. 4]
      /\ IsFiniteSet(Stops(a))'
      /\ issuedBridge'[a]["stop"] <= Cardinality(Stops(a))'
      /\ issuedBridge'[a]["stop"] <= step'[a]
      /\ Bridge!File("claim") \notin ledgerBridge'[a] => issuedBridge'[a]["stop"] = 0
  BY DEF Counted
<1>4. \A k \in 2 .. 4 :
           /\ issuedBridge'[a][Bridge!Plan[k]] <= 1
           /\ issuedBridge'[a][Bridge!Plan[k]] > 0
                => Bridge!Intent(Bridge!Plan[k]) \in ledgerBridge'[a] /\ step'[a] >= k
           /\ step'[a] = k /\ pcBridge'[a] = "mutate" => issuedBridge'[a][Bridge!Plan[k]] = 0
  BY <1>1 DEF Counted
<1> QED
  BY <1>2, <1>3, <1>4 DEF Counted

LEMMA ReachedStays ==
    ASSUME NEW a, Reached(a), Kept, step'[a] = step[a], step[a] \in 1 .. 5,
           pcBridge'[a] \in {"restop", "stopped", "live"} =>
               \/ pcBridge[a] \in {"restop", "stopped", "live"}
               \/ step[a] \in 1 .. 4 /\ Shut(Bridge!Plan[step[a]])'
    PROVE  Reached(a)'
BY PlanIs DEF Reached, Kept

(* A process that looks and moves on.                                      *)
LEMMA BridgeMoveKeeps ==
    ASSUME BridgeInv, NEW a \in Recoveries, NEW p \in Bridge!Labels,
           UNCHANGED <<site, marker, docBridge, issuedBridge, flightBridge, changed, faultsBridge, restarts, ledgerBridge, step>>,
           pcBridge' = [pcBridge EXCEPT ![a] = p], pcBridge[a] # "idle",
           \/ p = "idle"
           \/ pcBridge[a] = "claim" /\ p = "mutate"
           \/ pcBridge[a] = "poll" /\ p = "wait"
           \/ pcBridge[a] = "wait" /\ p = "restop" /\ Shut(Bridge!Plan[step[a]])
           \/ pcBridge[a] = "restop" /\ p = "stopped"
           \/ pcBridge[a] = "stopped" /\ p = "live"
    PROVE  BridgeInv'
<1>1. /\ Placed(a) /\ Reached(a) /\ Counted(a)
      /\ ledgerBridge[a] \subseteq BridgeFiles
  BY DEF BridgeInv, BridgeRest
<1>3. /\ BridgeAlone(a) /\ SiteOK' /\ Kept /\ marker' = marker
      /\ pcBridge'[a] = p /\ step'[a] = step[a] /\ ledgerBridge'[a] = ledgerBridge[a]
           /\ issuedBridge'[a] = issuedBridge[a]
  BY LooksOnly
<1>4. step[a] \in 1 .. 5 /\ (p \in {"restop", "stopped", "live"} => step[a] \in 1 .. 4)
  BY <1>1 DEF Placed
<1>5. Reached(a)'
  <2>1. p = "restop" => Shut(Bridge!Plan[step[a]])'
    BY <1>1, <1>3, <1>4, PlanIs DEF Kept
  <2> QED
    BY <1>1, <1>3, <1>4, <2>1, ReachedStays
<1>6. Placed(a)'
  BY <1>1, <1>3 DEF Placed, Ending
<1>7. ~ Due(a)'
  <2>1. p = "mutate" => ledgerBridge[a] = {Bridge!File("claim")}
    BY <1>1 DEF Placed
  <2>2. Bridge!Intent("stop") # Bridge!File("claim")
    BY DEF Bridge!Intent, Bridge!File
  <2>3. p = "restop" => Bridge!Again(Bridge!Plan[step[a]]) \notin ledgerBridge[a]
    BY <1>1 DEF Placed
  <2> QED
    BY <1>3, <2>1, <2>2, <2>3 DEF Due
<1>8. Counted(a)'
  <2>1. Stops(a)' = Stops(a)
    BY <1>3 DEF Stops
  <2>2. \A k \in 2 .. 4 : step[a] = k /\ p = "mutate" => pcBridge[a] = "mutate"
    BY <1>1 DEF Placed
  <2> QED
    BY <1>1, <1>3, <1>7, <2>1, <2>2, CountStays
<1> QED
  BY <1>3, <1>5, <1>6, <1>8, BridgeActs

(* A process that writes a file that announces no request.                 *)
LEMMA FileKeeps ==
    ASSUME BridgeInv, NEW a \in Recoveries, NEW p \in Bridge!Labels,
           NEW f \in {"claim", "final", "pending", "terminal"},
           UNCHANGED <<site, marker, docBridge, issuedBridge, flightBridge, changed, faultsBridge, restarts, step>>,
           pcBridge' = [pcBridge EXCEPT ![a] = p],
           ledgerBridge' = [ledgerBridge EXCEPT ![a] = ledgerBridge[a] \cup {Bridge!File(f)}],
           \/ pcBridge[a] = "idle" /\ p = "claim" /\ f = "claim"
                /\ Bridge!File("claim") \notin ledgerBridge[a]
           \/ pcBridge[a] = "archive" /\ f = "final" /\ p \in {"pending", "idle"}
           \/ pcBridge[a] = "pending" /\ f = "pending" /\ p = "rename"
           \/ pcBridge[a] = "terminal" /\ p = "idle" /\ f = "terminal"
    PROVE  BridgeInv'
<1>1. /\ Placed(a) /\ Reached(a) /\ Counted(a)
      /\ ledgerBridge[a] \subseteq BridgeFiles
  BY DEF BridgeInv, BridgeRest
<1>2. Bridge!File(f) \in BridgeFiles
  BY DEF Bridge!File, BridgeFiles
<1>3. /\ BridgeAlone(a) /\ SiteOK' /\ Kept /\ marker' = marker
      /\ pcBridge'[a] = p /\ step'[a] = step[a]
           /\ ledgerBridge'[a] = ledgerBridge[a] \cup {Bridge!File(f)}
                /\ issuedBridge'[a] = issuedBridge[a]
  <2>1. \E g \in BridgeFiles : ledgerBridge' = [ledgerBridge EXCEPT ![a] = ledgerBridge[a] \cup {g}]
    BY <1>2
  <2>2. DOMAIN ledgerBridge = Recoveries
    BY DEF BridgeInv, BridgeRest, BridgeShaped
  <2> QED
    BY <2>1, <2>2, LooksOnly
<1>4. step[a] \in 1 .. 5
  BY <1>1 DEF Placed
<1>5. Reached(a)'
  BY <1>1, <1>3, <1>4, ReachedStays
<1>6. \A m : Bridge!Again(m) # Bridge!File(f) /\ Bridge!Intent(m) # Bridge!File(f)
  BY DEF Bridge!Again, Bridge!Intent, Bridge!File
<1>7. Placed(a)'
  BY <1>1, <1>3, <1>6 DEF Placed, Ending
<1>8. ~ Due(a)'
  BY <1>3 DEF Due
<1>9. Stops(a)' = Stops(a)
  BY <1>3, <1>6 DEF Stops, Bridge!File
<1>10. Counted(a)'
  <2>1. ledgerBridge[a] \subseteq ledgerBridge'[a]
    BY <1>3
  <2>2. Bridge!File("claim") \notin ledgerBridge'[a]
        => Bridge!File("claim") \notin ledgerBridge[a]
    BY <1>3
  <2>3. p = "claim" => Bridge!File("claim") \notin ledgerBridge[a] /\ step[a] = 1
    BY <1>1 DEF Placed
  <2>4. p # "mutate"
    OBVIOUS
  <2> QED
    BY <1>1, <1>3, <1>8, <1>9, <2>1, <2>2, <2>3, <2>4, CountStays
<1> QED
  BY <1>3, <1>5, <1>7, <1>10, BridgeActs

(* A stop is announced.                                                    *)
LEMMA CountAnnounced ==
    ASSUME NEW a, Counted(a), Placed(a), issuedBridge'[a] = issuedBridge[a],
           step'[a] = step[a], pcBridge'[a] = pcBridge[a],
           pcBridge[a] \in {"mutate", "restop"},
           NEW f, f \notin ledgerBridge[a],
           ledgerBridge'[a] = ledgerBridge[a] \cup {f},
           f = Bridge!Intent("stop") \/ f[1] = "again"
    PROVE  Counted(a)'
<1>1. Stops(a)' = Stops(a) \cup {f} /\ f \notin Stops(a)
  BY DEF Stops
<1>2. IsFiniteSet(Stops(a))
  BY DEF Counted
<1>3. IsFiniteSet(Stops(a))' /\ Cardinality(Stops(a))' = Cardinality(Stops(a)) + 1
  <2>1. /\ IsFiniteSet(Stops(a) \cup {f})
        /\ Cardinality(Stops(a) \cup {f}) = Cardinality(Stops(a)) + 1
    BY <1>1, <1>2, FS_AddElement
  <2> QED
    BY <1>1, <2>1
<1>4. Cardinality(Stops(a)) \in Nat
  BY <1>2, FS_CardinalityType
<1>5. /\ issuedBridge[a] \in [Bridge!Mutations -> 0 .. 4]
           /\ issuedBridge[a]["stop"] <= Cardinality(Stops(a))
      /\ issuedBridge[a]["stop"] \in 0 .. 4
  BY DEF Counted, Bridge!Mutations
<1>6. Bridge!File("claim") \in ledgerBridge[a] /\ Bridge!File("claim") \in ledgerBridge'[a]
  BY DEF Placed
<1>7. /\ issuedBridge'[a]["stop"] <= Cardinality(Stops(a))'
      /\ issuedBridge'[a]["stop"] + 1 <= Cardinality(Stops(a))'
  BY <1>3, <1>4, <1>5
<1>8. /\ issuedBridge'[a]["stop"] <= step'[a]
      /\ pcBridge'[a] \notin {"stopped", "live", "idle"} => issuedBridge'[a]["stop"] < step'[a]
  BY DEF Counted
<1>9. \A k \in 2 .. 4 :
           /\ issuedBridge'[a][Bridge!Plan[k]] <= 1
           /\ issuedBridge'[a][Bridge!Plan[k]] > 0
                => Bridge!Intent(Bridge!Plan[k]) \in ledgerBridge'[a] /\ step'[a] >= k
           /\ step'[a] = k /\ pcBridge'[a] = "mutate" => issuedBridge'[a][Bridge!Plan[k]] = 0
  BY DEF Counted
<1> QED
  BY <1>3, <1>5, <1>6, <1>7, <1>8, <1>9 DEF Counted

(* Mutate or Restop writes what it is about to send.                       *)
LEMMA AnnounceKeeps ==
    ASSUME BridgeInv, NEW a \in Recoveries, NEW f,
           UNCHANGED <<site, marker, docBridge, issuedBridge, flightBridge, changed, faultsBridge, restarts, step, pcBridge>>,
           f \notin ledgerBridge[a],
           ledgerBridge' = [ledgerBridge EXCEPT ![a] = ledgerBridge[a] \cup {f}],
           \/ pcBridge[a] = "mutate" /\ f = Bridge!Intent(Bridge!Plan[step[a]])
           \/ pcBridge[a] = "restop" /\ f = Bridge!Again(Bridge!Plan[step[a]])
    PROVE  BridgeInv'
<1>1. /\ Placed(a) /\ Reached(a) /\ Counted(a)
      /\ ledgerBridge[a] \subseteq BridgeFiles /\ BridgeShaped
  BY DEF BridgeInv, BridgeRest
<1>2. step[a] \in 1 .. 4 /\ Bridge!Plan[step[a]] \in Bridge!Mutations
  BY <1>1, PlanIs DEF Placed
<1>3. f \in BridgeFiles
  BY <1>2 DEF Bridge!Intent, Bridge!Again, BridgeFiles
<1>4. ledgerBridge'[a] = ledgerBridge[a] \cup {f}
  BY <1>1 DEF BridgeShaped
<1>5. /\ BridgeAlone(a) /\ SiteOK' /\ Kept /\ marker' = marker
      /\ pcBridge'[a] = pcBridge[a] /\ step'[a] = step[a] /\ issuedBridge'[a] = issuedBridge[a]
  <2>1. \E g \in BridgeFiles : ledgerBridge' = [ledgerBridge EXCEPT ![a] = ledgerBridge[a] \cup {g}]
    BY <1>3
  <2> QED
    BY <2>1, LooksOnly
<1>6. Reached(a)'
  BY <1>1, <1>2, <1>5, ReachedStays
<1>7. Placed(a)'
  <2>1. f # Bridge!File("claim")
    BY DEF Bridge!Intent, Bridge!Again, Bridge!File
  <2>2. \A k \in 2 .. 4 : Bridge!Again(Bridge!Plan[k]) \in ledgerBridge'[a] =>
            step[a] > k
              \/ (step[a] = k /\ pcBridge[a] \in {"restop", "stopped", "live", "idle"})
    <3> SUFFICES ASSUME NEW k \in 2 .. 4, Bridge!Again(Bridge!Plan[k]) \in ledgerBridge'[a],
    Bridge!Again(Bridge!Plan[k]) \notin ledgerBridge[a]
                 PROVE  step[a] = k /\ pcBridge[a] = "restop"
      BY <1>1 DEF Placed
    <3>1. Bridge!Again(Bridge!Plan[k]) = f
      BY <1>4
    <3>2. pcBridge[a] = "restop" /\ Bridge!Plan[k] = Bridge!Plan[step[a]]
      BY <3>1 DEF Bridge!Intent, Bridge!Again
    <3> QED
      BY <1>2, <3>2, PlanIs
  <2>3. pcBridge[a] # "claim" /\ pcBridge[a] # "idle"
    OBVIOUS
  <2> QED
    BY <1>1, <1>4, <1>5, <2>1, <2>2, <2>3 DEF Placed, Ending
<1>8. Counted(a)'
  <2>1. CASE f = Bridge!Intent("stop") \/ f[1] = "again"
    BY <1>1, <1>4, <1>5, <2>1, CountAnnounced
  <2>2. CASE ~ (f = Bridge!Intent("stop") \/ f[1] = "again")
    <3>1. Stops(a)' = Stops(a)
      BY <1>4, <2>2 DEF Stops
    <3>2. pcBridge[a] = "mutate" /\ f = Bridge!Intent(Bridge!Plan[step[a]])
      BY <2>2 DEF Bridge!Again
    <3>3. ~ Due(a)'
      <4>1. step[a] # 1
        BY <2>2, <3>2, PlanIs
      <4> QED
        BY <1>5, <3>2, <4>1 DEF Due
    <3>4. ledgerBridge[a] \subseteq ledgerBridge'[a]
      BY <1>4
    <3>5. Bridge!File("claim") \notin ledgerBridge'[a]
          => Bridge!File("claim") \notin ledgerBridge[a]
      BY <1>4
    <3>6. \A k \in 2 .. 4 : step[a] = k /\ pcBridge'[a] = "mutate" => pcBridge[a] = "mutate"
      BY <3>2
    <3> QED
      BY <1>1, <1>5, <3>1, <3>2, <3>3, <3>4, <3>5, <3>6, CountStays
  <2> QED
    BY <2>1, <2>2
<1> QED
  BY <1>5, <1>6, <1>7, <1>8, BridgeActs

(* What a request and its answer do, whoever sends it.                     *)
LEMMA SendsOnly ==
    ASSUME BridgeInv, NEW a \in Recoveries, NEW m \in Bridge!Mutations, NEW label,
           Bridge!Sent(a, m, label),
           UNCHANGED <<marker, docBridge, step, restarts, ledgerBridge>>,
           m = "settings" => Door
    PROVE  /\ BridgeAlone(a) /\ SiteOK' /\ Kept /\ pcBridge'[a] \in {label, "idle"}
           /\ step'[a] = step[a] /\ ledgerBridge'[a] = ledgerBridge[a]
           /\ issuedBridge'[a] = [issuedBridge[a] EXCEPT ![m] = @ + 1]
<1>1. SiteOK /\ BridgeShaped /\ faultsBridge \in 0 .. MaxFaults /\ changed \in BOOLEAN
        /\ ledgerBridge[a] \subseteq BridgeFiles
  BY DEF BridgeInv, BridgeRest
<1>2. issuedBridge' = [issuedBridge EXCEPT ![a] = [issuedBridge[a] EXCEPT ![m] = @ + 1]]
  BY DEF Bridge!Sent
<1>3. pcBridge' = [pcBridge EXCEPT ![a] = label] \/ pcBridge' = [pcBridge EXCEPT ![a] = "idle"]
  BY DEF Bridge!Sent, Bridge!Go, Bridge!Stop
<1>4. faultsBridge' \in 0 .. MaxFaults
  BY <1>1, ExecutorsOK DEF Bridge!Sent, Bridge!Fault
<1>5. changed' \in BOOLEAN
  BY <1>1 DEF Bridge!Sent
<1>6. \/ site' = Bridge!Effect(m, site) /\ flightBridge' = flightBridge
      \/ site' = site /\ (flightBridge' = flightBridge \/ flightBridge' = flightBridge \cup {m})
  BY DEF Bridge!Sent
<1>7. SiteOK' /\ Kept
  <2>1. CASE site' = Bridge!Effect(m, site) /\ flightBridge' = flightBridge
    <3>1. Kept /\ site' \in Sites /\ (site'.settings = "empty" => Door')
      BY <1>1, <2>1, EffectShuts
    <3> QED
      BY <1>1, <2>1, <3>1 DEF SiteOK, Kept, Door, Bridge!Mutations
  <2>2. CASE site' = site /\ (flightBridge' = flightBridge
             \/ flightBridge' = flightBridge \cup {m})
    <3>1. Kept
      BY <2>2, StillKeeps
    <3> QED
      BY <1>1, <2>2, <3>1 DEF SiteOK, Kept, Door, Bridge!Mutations
  <2> QED
    BY <1>6, <2>1, <2>2
<1>8. /\ issuedBridge'[a] = [issuedBridge[a] EXCEPT ![m] = @ + 1]
           /\ pcBridge'[a] \in {label, "idle"}
      /\ \A b \in Recoveries : b # a
           => issuedBridge'[b] = issuedBridge[b] /\ pcBridge'[b] = pcBridge[b]
      /\ issuedBridge' = [b \in Recoveries |-> issuedBridge'[b]]
           /\ pcBridge' = [b \in Recoveries |-> pcBridge'[b]]
  <2>1. issuedBridge = [b \in Recoveries |-> issuedBridge[b]]
          /\ pcBridge = [b \in Recoveries |-> pcBridge[b]]
    BY <1>1 DEF BridgeShaped
  <2>2. /\ \A b \in Recoveries : b # a => issuedBridge'[b] = issuedBridge[b]
        /\ issuedBridge' = [b \in Recoveries |-> issuedBridge'[b]]
        /\ issuedBridge'[a] = [issuedBridge[a] EXCEPT ![m] = @ + 1]
    BY <1>2, <2>1
  <2>3. /\ \A b \in Recoveries : b # a => pcBridge'[b] = pcBridge[b]
        /\ pcBridge' = [b \in Recoveries |-> pcBridge'[b]]
        /\ pcBridge'[a] \in {label, "idle"}
    BY <1>3, <2>1
  <2> QED
    BY <2>2, <2>3
<1>9. BridgeShaped'
  BY <1>1, <1>8 DEF BridgeShaped
<1>10. BridgeAlone(a)
  BY <1>1, <1>4, <1>5, <1>8, <1>9 DEF BridgeAlone
<1> QED
  BY <1>7, <1>8, <1>10

(* A stop that was announced is sent.                                      *)
LEMMA CountStop ==
    ASSUME NEW a, Counted(a), Placed(a), Due(a),
           issuedBridge'[a] = [issuedBridge[a] EXCEPT !["stop"] = @ + 1],
           step'[a] = step[a], ledgerBridge'[a] = ledgerBridge[a],
           pcBridge'[a] \in {"stopped", "idle"}
    PROVE  Counted(a)'
<1>1. pcBridge[a] \in {"mutate", "restop"} /\ step[a] \in 1 .. 4
        /\ Bridge!File("claim") \in ledgerBridge[a]
  BY DEF Due, Placed
<1>2. /\ issuedBridge[a] \in [Bridge!Mutations -> 0 .. 4] /\ issuedBridge[a]["stop"] < step[a]
      /\ issuedBridge[a]["stop"] + 1 <= Cardinality(Stops(a)) /\ IsFiniteSet(Stops(a))
  BY <1>1 DEF Counted
<1>3. /\ issuedBridge[a]["stop"] \in 0 .. 4
           /\ issuedBridge'[a]["stop"] = issuedBridge[a]["stop"] + 1
      /\ \A k \in 2 .. 4 : issuedBridge'[a][Bridge!Plan[k]] = issuedBridge[a][Bridge!Plan[k]]
  BY <1>2, PlanIs DEF Bridge!Mutations
<1>4. issuedBridge'[a]["stop"] \in 0 .. 4
  BY <1>1, <1>2, <1>3
<1>5. issuedBridge'[a] \in [Bridge!Mutations -> 0 .. 4]
  BY <1>2, <1>3, <1>4 DEF Bridge!Mutations
<1>6. Stops(a)' = Stops(a)
  BY DEF Stops
<1>7. /\ issuedBridge'[a]["stop"] <= Cardinality(Stops(a))' /\ IsFiniteSet(Stops(a))'
      /\ issuedBridge'[a]["stop"] <= step'[a]
  BY <1>1, <1>2, <1>3, <1>6
<1>8. ~ Due(a)'
  BY DEF Due
<1>9. \A k \in 2 .. 4 :
           /\ issuedBridge'[a][Bridge!Plan[k]] <= 1
           /\ issuedBridge'[a][Bridge!Plan[k]] > 0
                => Bridge!Intent(Bridge!Plan[k]) \in ledgerBridge'[a] /\ step'[a] >= k
           /\ step'[a] = k /\ pcBridge'[a] = "mutate" => issuedBridge'[a][Bridge!Plan[k]] = 0
  BY SMTT(60), <1>3 DEF Counted
<1> QED
  BY <1>1, <1>5, <1>7, <1>8, <1>9 DEF Counted

(* Another mutation of the plan is sent.                                   *)
LEMMA CountOther ==
    ASSUME NEW a, Counted(a), Placed(a), pcBridge[a] = "mutate", step[a] \in 2 .. 4,
           Bridge!Intent(Bridge!Plan[step[a]]) \in ledgerBridge[a],
           issuedBridge'[a] = [issuedBridge[a] EXCEPT ![Bridge!Plan[step[a]]] = @ + 1],
           step'[a] = step[a], ledgerBridge'[a] = ledgerBridge[a],
           pcBridge'[a] \in {"poll", "idle"}
    PROVE  Counted(a)'
<1>1. Bridge!File("claim") \in ledgerBridge[a] /\ Bridge!Plan[step[a]] \in Bridge!Mutations
        /\ Bridge!Plan[step[a]] # "stop"
  BY PlanIs DEF Placed
<1>2. /\ issuedBridge[a] \in [Bridge!Mutations -> 0 .. 4] /\ issuedBridge[a]["stop"] < step[a]
      /\ issuedBridge[a]["stop"] <= Cardinality(Stops(a)) /\ IsFiniteSet(Stops(a))
      /\ issuedBridge[a][Bridge!Plan[step[a]]] = 0
  BY DEF Counted
<1>3. /\ issuedBridge[a]["stop"] \in 0 .. 4
           /\ issuedBridge'[a]["stop"] = issuedBridge[a]["stop"]
      /\ issuedBridge'[a][Bridge!Plan[step[a]]] = 1
      /\ \A k \in 2 .. 4 : k # step[a]
           => issuedBridge'[a][Bridge!Plan[k]] = issuedBridge[a][Bridge!Plan[k]]
  BY <1>1, <1>2, PlanIs DEF Bridge!Mutations
<1>4. issuedBridge'[a] \in [Bridge!Mutations -> 0 .. 4]
  BY <1>1, <1>2
<1>5. Stops(a)' = Stops(a)
  BY DEF Stops
<1>6. /\ issuedBridge'[a]["stop"] <= Cardinality(Stops(a))' /\ IsFiniteSet(Stops(a))'
      /\ issuedBridge'[a]["stop"] < step'[a]
  BY <1>2, <1>3, <1>5
<1>7. ~ Due(a)'
  BY DEF Due
<1>8. \A k \in 2 .. 4 :
           /\ issuedBridge'[a][Bridge!Plan[k]] <= 1
           /\ issuedBridge'[a][Bridge!Plan[k]] > 0
                => Bridge!Intent(Bridge!Plan[k]) \in ledgerBridge'[a] /\ step'[a] >= k
           /\ step'[a] = k /\ pcBridge'[a] = "mutate" => issuedBridge'[a][Bridge!Plan[k]] = 0
  BY <1>3 DEF Counted
<1> QED
  BY <1>1, <1>3, <1>4, <1>6, <1>7, <1>8 DEF Counted

LEMMA MutateSends ==
    ASSUME BridgeInv, NEW a \in Recoveries, pcBridge[a] = "mutate",
           Bridge!Intent(Bridge!Plan[step[a]]) \in ledgerBridge[a],
           Bridge!Sent(a, Bridge!Plan[step[a]], IF Bridge!Plan[step[a]] = "stop" THEN "stopped" ELSE "poll"),
           UNCHANGED <<ledgerBridge, marker, docBridge, step, restarts>>
    PROVE  BridgeInv'
<1> DEFINE m == Bridge!Plan[step[a]]
           label == IF m = "stop" THEN "stopped" ELSE "poll"
<1>1. Placed(a) /\ Reached(a) /\ Counted(a) /\ step[a] \in 1 .. 4
  BY DEF BridgeInv, Placed
<1>2. m \in Bridge!Mutations /\ (m = "stop" <=> step[a] = 1)
  BY <1>1, PlanIs
<1>3. m = "settings" => Door
  <2> SUFFICES ASSUME m = "settings" PROVE Door
    OBVIOUS
  <2>1. step[a] = 4
    BY <1>1, PlanIs
  <2> QED
    BY <1>1, <2>1, PlanIs DEF Reached, Door
<1>4. Bridge!Sent(a, m, label)
  OBVIOUS
<1> HIDE DEF m, label
<1>5. /\ BridgeAlone(a) /\ SiteOK' /\ Kept /\ pcBridge'[a] \in {label, "idle"}
      /\ step'[a] = step[a] /\ ledgerBridge'[a] = ledgerBridge[a]
      /\ issuedBridge'[a] = [issuedBridge[a] EXCEPT ![m] = @ + 1]
  BY <1>2, <1>3, <1>4, SendsOnly
<1>6. label \in {"stopped", "poll"} /\ (label = "stopped" <=> m = "stop")
  BY DEF label
<1>7. Reached(a)'
  <2>1. label = "stopped" => step[a] \in 1 .. 4 /\ Shut(Bridge!Plan[step[a]])'
    BY <1>1, <1>2, <1>6, PlanIs DEF Shut
  <2> QED
    BY <1>1, <1>5, <1>6, <2>1, ReachedStays
<1>8. Placed(a)'
  BY <1>1, <1>2, <1>5, <1>6 DEF Placed, Bridge!Labels, Ending
<1>9. Counted(a)'
  <2>1. CASE m = "stop"
    <3>1. step[a] = 1
      BY <1>2, <2>1
    <3>2. Due(a)
      BY <2>1, <3>1 DEF Due, m
    <3>3. pcBridge'[a] \in {"stopped", "idle"}
      BY <1>5, <1>6, <2>1
    <3> QED
      BY <1>1, <1>5, <2>1, <3>2, <3>3, CountStop
  <2>2. CASE m # "stop"
    <3>1. step[a] \in 2 .. 4
      BY <1>1, <1>2, <2>2
    <3>2. pcBridge'[a] \in {"poll", "idle"}
      BY <1>5, <1>6, <2>2
    <3> QED
      BY <1>1, <1>5, <3>1, <3>2, CountOther DEF m
  <2> QED
    BY <2>1, <2>2
<1> QED
  BY <1>5, <1>7, <1>8, <1>9, BridgeActs

LEMMA RestopSends ==
    ASSUME BridgeInv, NEW a \in Recoveries, pcBridge[a] = "restop",
           Bridge!Again(Bridge!Plan[step[a]]) \in ledgerBridge[a],
           Bridge!Sent(a, "stop", "stopped"),
           UNCHANGED <<ledgerBridge, marker, docBridge, step, restarts>>
    PROVE  BridgeInv'
<1>1. Placed(a) /\ Reached(a) /\ Counted(a) /\ step[a] \in 1 .. 4
  BY DEF BridgeInv, Placed
<1>2. /\ BridgeAlone(a) /\ SiteOK' /\ Kept /\ pcBridge'[a] \in {"stopped", "idle"}
      /\ step'[a] = step[a] /\ ledgerBridge'[a] = ledgerBridge[a]
      /\ issuedBridge'[a] = [issuedBridge[a] EXCEPT !["stop"] = @ + 1]
  <2>1. "stop" \in Bridge!Mutations
    BY DEF Bridge!Mutations
  <2> QED
    BY <2>1, SendsOnly
<1>3. Reached(a)'
  BY <1>1, <1>2, ReachedStays
<1>4. Placed(a)'
  BY <1>1, <1>2 DEF Placed, Bridge!Labels, Ending
<1>5. Counted(a)'
  <2>1. Due(a)
    BY DEF Due
  <2> QED
    BY <1>1, <1>2, <2>1, CountStop
<1> QED
  BY <1>2, <1>3, <1>4, <1>5, BridgeActs

LEMMA LiveKeeps == ASSUME BridgeInv, NEW a \in Recoveries, Bridge!Live(a)
PROVE BridgeInv'
<1>1. /\ Placed(a) /\ Reached(a) /\ Counted(a)
      /\ BridgeShaped /\ step[a] \in 1 .. 4 /\ pcBridge[a] = "live"
      /\ UNCHANGED <<site, marker, docBridge, issuedBridge, flightBridge, changed, faultsBridge, restarts, ledgerBridge>>
  BY DEF BridgeInv, BridgeRest, Bridge!Live, Placed, Bridge!Look
<1>2. CASE site # Bridge!Posture[step[a]]
  <2>1. UNCHANGED step /\ pcBridge' = [pcBridge EXCEPT ![a] = "idle"]
    BY <1>2 DEF Bridge!Live, Bridge!Stop, Bridge!Go
  <2>2. "idle" \in Bridge!Labels
    BY DEF Bridge!Labels
  <2> QED
    BY <1>1, <2>1, <2>2, BridgeMoveKeeps
<1>3. CASE site = Bridge!Posture[step[a]]
  <2> DEFINE p == IF step[a] = Len(Bridge!Plan) THEN "archive" ELSE "mutate"
  <2>1. step' = [step EXCEPT ![a] = step[a] + 1] /\ pcBridge' = [pcBridge EXCEPT ![a] = p]
    BY <1>3 DEF Bridge!Live, Bridge!Go
  <2> HIDE DEF p
  <2>2. /\ BridgeAlone(a) /\ SiteOK' /\ Kept /\ marker' = marker
        /\ pcBridge'[a] = p /\ issuedBridge'[a] = issuedBridge[a]
    BY <1>1, <2>1, LooksOnly
  <2>3. step'[a] = step[a] + 1 /\ ledgerBridge'[a] = ledgerBridge[a]
    BY <1>1, <2>1 DEF BridgeShaped
  <2>4. p \in {"archive", "mutate"} /\ (p = "archive" <=> step[a] = 4)
    BY PlanIs DEF p
  <2>5. Reached(a)'
    <3>1. \A k \in 1 .. 4 : step'[a] > k => Shut(Bridge!Plan[k])
      BY <1>1, <2>3 DEF Reached
    <3> QED
      BY <2>2, <2>3, <2>4, <3>1, PlanIs DEF Reached, Kept
  <2>6. Placed(a)'
    BY <1>1, <2>2, <2>3, <2>4 DEF Placed, Bridge!Labels, Ending
  <2>7. Counted(a)'
    <3>1. Stops(a)' = Stops(a)
      BY <2>3 DEF Stops
    <3>2. ~ Due(a)'
      BY <1>1, <2>2, <2>3, <2>4 DEF Due
    <3>3. issuedBridge[a]["stop"] \in 0 .. 4 /\ issuedBridge[a] \in [Bridge!Mutations -> 0 .. 4]
      BY <1>1 DEF Counted, Bridge!Mutations
    <3>4. issuedBridge'[a]["stop"] < step'[a] /\ issuedBridge'[a]["stop"] <= step'[a]
      BY <1>1, <2>2, <2>3, <3>3 DEF Counted
    <3>5. \A k \in 2 .. 4 :
             /\ issuedBridge'[a][Bridge!Plan[k]] <= 1
             /\ issuedBridge'[a][Bridge!Plan[k]] > 0
                  => Bridge!Intent(Bridge!Plan[k]) \in ledgerBridge'[a] /\ step'[a] >= k
             /\ step'[a] = k /\ pcBridge'[a] = "mutate" => issuedBridge'[a][Bridge!Plan[k]] = 0
      <4> SUFFICES ASSUME NEW k \in 2 .. 4
                   PROVE  /\ issuedBridge'[a][Bridge!Plan[k]] <= 1
                          /\ issuedBridge'[a][Bridge!Plan[k]] > 0
                               => Bridge!Intent(Bridge!Plan[k]) \in ledgerBridge'[a]
                                 /\ step'[a] >= k
                          /\ step'[a] = k /\ pcBridge'[a] = "mutate"
                               => issuedBridge'[a][Bridge!Plan[k]] = 0
        OBVIOUS
      <4>1. issuedBridge[a][Bridge!Plan[k]] \in 0 .. 4
        BY <3>3, PlanIs
      <4> QED
        BY <1>1, <2>2, <2>3, <4>1 DEF Counted
    <3>6. /\ IsFiniteSet(Stops(a))' /\ issuedBridge'[a]["stop"] <= Cardinality(Stops(a))'
          /\ Bridge!File("claim") \notin ledgerBridge'[a] => issuedBridge'[a]["stop"] = 0
      BY <1>1, <2>2, <2>3, <3>1 DEF Counted
    <3> QED
      BY <2>2, <3>2, <3>3, <3>4, <3>5, <3>6 DEF Counted
  <2> QED
    BY <2>2, <2>5, <2>6, <2>7, BridgeActs
<1> QED
  BY <1>2, <1>3

LEMMA ArchiveKeeps == ASSUME BridgeInv, NEW a \in Recoveries, Bridge!Archive(a)
PROVE BridgeInv'
<1>1. /\ Placed(a) /\ Reached(a) /\ Counted(a) /\ SiteOK
      /\ BridgeShaped /\ pcBridge[a] = "rename" /\ step[a] = 5
           /\ ledgerBridge[a] \subseteq BridgeFiles
      /\ changed \in BOOLEAN /\ faultsBridge \in 0 .. MaxFaults
      /\ UNCHANGED <<site, docBridge, ledgerBridge, issuedBridge, flightBridge, step, changed, faultsBridge, restarts>>
  BY DEF BridgeInv, BridgeRest, Bridge!Archive, Placed, Ending
<1>2. \/ pcBridge' = [pcBridge EXCEPT ![a] = "terminal"] /\ marker' = FALSE
      \/ pcBridge' = [pcBridge EXCEPT ![a] = "idle"] /\ marker' = marker
  BY DEF Bridge!Archive, Bridge!Go, Bridge!Stop
<1>3. /\ pcBridge'[a] \in {"terminal", "idle"}
           /\ pcBridge' = [b \in Recoveries |-> pcBridge'[b]]
      /\ \A b \in Recoveries : b # a => pcBridge'[b] = pcBridge[b]
  <2>1. pcBridge = [b \in Recoveries |-> pcBridge[b]]
    BY <1>1 DEF BridgeShaped
  <2> QED
    BY <1>2, <2>1
<1>4. BridgeAlone(a)
  BY <1>1, <1>3 DEF BridgeAlone, BridgeShaped
<1>5. SiteOK' /\ Kept
  BY <1>1, StillKeeps DEF SiteOK, Door, Shut
<1>6. {Bridge!File("final"), Bridge!File("pending")} \subseteq ledgerBridge[a]
  BY <1>1 DEF Placed
<1>7. (Door /\ Shut("settings"))'
  BY <1>1, <1>5, PlanIs DEF Reached, Door, Kept
<1>8. Reached(a)'
  BY <1>1, <1>3, <1>5, ReachedStays
<1>9. Placed(a)'
  BY <1>1, <1>3 DEF Placed, Bridge!Labels, Ending
<1>10. Counted(a)'
  <2>1. Stops(a)' = Stops(a)
    BY <1>1 DEF Stops
  <2>2. ~ Due(a)'
    BY <1>3 DEF Due
  <2> QED
    BY <1>1, <1>3, <2>1, <2>2, CountStays
<1> QED
  BY <1>2, <1>4, <1>5, <1>6, <1>7, <1>8, <1>9, <1>10, BridgeActs

LEMMA BridgeCrashKeeps == ASSUME BridgeInv, NEW a \in Recoveries, Bridge!Crash(a)
PROVE BridgeInv'
<1>1. /\ Placed(a) /\ Reached(a) /\ Counted(a) /\ SiteOK
      /\ BridgeShaped /\ ledgerBridge[a] \subseteq BridgeFiles /\ step[a] \in 1 .. 5
      /\ changed \in BOOLEAN /\ faultsBridge \in 0 .. MaxFaults
      /\ UNCHANGED <<site, marker, docBridge, ledgerBridge, issuedBridge, flightBridge, step, changed, restarts>>
  BY DEF BridgeInv, BridgeRest, Bridge!Crash, Placed
<1>2. pcBridge' = [pcBridge EXCEPT ![a] = "idle"] /\ faultsBridge' \in 0 .. MaxFaults
  BY <1>1, ExecutorsOK DEF Bridge!Crash, Bridge!Fault, Bridge!Stop, Bridge!Go
<1>3. /\ pcBridge'[a] = "idle" /\ pcBridge' = [b \in Recoveries |-> pcBridge'[b]]
      /\ \A b \in Recoveries : b # a => pcBridge'[b] = pcBridge[b]
  <2>1. pcBridge = [b \in Recoveries |-> pcBridge[b]]
    BY <1>1 DEF BridgeShaped
  <2> QED
    BY <1>2, <2>1
<1>4. BridgeAlone(a)
  BY <1>1, <1>2, <1>3 DEF BridgeAlone, BridgeShaped
<1>5. SiteOK' /\ Kept
  BY <1>1, StillKeeps DEF SiteOK, Door, Shut
<1>6. Reached(a)'
  BY <1>1, <1>3, <1>5, ReachedStays
<1>7. Placed(a)'
  <2>1. pcBridge[a] # "idle"
    BY DEF Bridge!Crash
  <2> QED
    BY <1>1, <1>3, <2>1 DEF Placed, Bridge!Labels, Ending
<1>8. Counted(a)'
  <2>1. Stops(a)' = Stops(a)
    BY <1>1 DEF Stops
  <2>2. ~ Due(a)'
    BY <1>3 DEF Due
  <2> QED
    BY <1>1, <1>3, <2>1, <2>2, CountStays
<1> QED
  BY <1>1, <1>4, <1>5, <1>6, <1>7, <1>8, BridgeActs

(* A step of Azure or of an administrator with the documents.              *)
LEMMA NobodyActs ==
    ASSUME BridgeInv, SiteOK', Kept,
           UNCHANGED <<marker, ledgerBridge, issuedBridge, pcBridge, step, faultsBridge>>,
           changed' \in BOOLEAN, restarts' \in 0 .. MaxRestarts,
           docBridge' \in [Recoveries -> {"none", "observed", "prepared", "expired"}]
    PROVE  BridgeInv'
<1>1. \A b \in Recoveries : Reached(b)' /\ Placed(b)' /\ Counted(b)'
  BY BridgeOthers DEF BridgeInv
<1>2. BridgeShaped'
  BY DEF BridgeInv, BridgeRest, BridgeShaped
<1>3. marker' \in BOOLEAN /\ faultsBridge' \in 0 .. MaxFaults
        /\ \A b \in Recoveries : ledgerBridge'[b] \subseteq BridgeFiles
  BY DEF BridgeInv, BridgeRest
<1>4. ~ marker' => /\ (Door /\ Shut("settings"))'
                   /\ \E b \in Recoveries : {Bridge!File("final"), Bridge!File("pending")} \subseteq ledgerBridge'[b]
  <2> SUFFICES ASSUME ~ marker'
               PROVE  /\ (Door /\ Shut("settings"))'
                      /\ \E b \in Recoveries : {Bridge!File("final"), Bridge!File("pending")} \subseteq ledgerBridge'[b]
    OBVIOUS
  <2>1. Door /\ Shut("settings")
          /\ \E b \in Recoveries : {Bridge!File("final"), Bridge!File("pending")} \subseteq ledgerBridge[b]
    BY DEF BridgeInv, BridgeRest
  <2>2. (Door /\ Shut("settings"))'
    BY <2>1 DEF Kept, Door, Bridge!Mutations
  <2> QED
    BY <2>1, <2>2
<1>5. BridgeRest'
  BY <1>2, <1>3, <1>4 DEF BridgeRest
<1> QED
  BY <1>1, <1>5 DEF BridgeInv

LEMMA DocumentKeeps ==
    ASSUME BridgeInv,
           UNCHANGED <<site, marker, ledgerBridge, issuedBridge, flightBridge, pcBridge, step, changed, faultsBridge, restarts>>,
           NEW a \in Recoveries, NEW d \in {"none", "observed", "prepared", "expired"},
           docBridge' = [docBridge EXCEPT ![a] = d]
    PROVE  BridgeInv'
<1>1. SiteOK' /\ Kept
  BY StillKeeps DEF BridgeInv, SiteOK, Door, Shut
<1>2. /\ changed' \in BOOLEAN /\ restarts' \in 0 .. MaxRestarts
      /\ docBridge' \in [Recoveries -> {"none", "observed", "prepared", "expired"}]
  BY DEF BridgeInv, BridgeRest
<1> QED
  BY <1>1, <1>2, NobodyActs

LEMMA BridgeLandKeeps == ASSUME BridgeInv, NEW m \in Bridge!Mutations, Bridge!Land(m)
PROVE BridgeInv'
<1>1. /\ SiteOK /\ restarts \in 0 .. MaxRestarts /\ changed \in BOOLEAN
      /\ docBridge \in [Recoveries -> {"none", "observed", "prepared", "expired"}]
  BY DEF BridgeInv, BridgeRest
<1>2. /\ m \in flightBridge /\ flightBridge' = flightBridge \ {m}
           /\ site' = Bridge!Effect(m, site) /\ changed' \in BOOLEAN
      /\ UNCHANGED <<marker, docBridge, ledgerBridge, issuedBridge, pcBridge, step, faultsBridge, restarts>>
  BY <1>1 DEF Bridge!Land
<1>3. m = "settings" => Door
  BY <1>1, <1>2 DEF SiteOK
<1>4. Kept /\ site' \in Sites /\ (site'.settings = "empty" => Door')
  BY <1>1, <1>2, <1>3, EffectShuts
<1>5. SiteOK'
  BY <1>1, <1>2, <1>4 DEF SiteOK, Kept, Door, Bridge!Mutations
<1> QED
  BY <1>1, <1>2, <1>4, <1>5, NobodyActs

LEMMA RestartKeeps == ASSUME BridgeInv, Bridge!Restart PROVE BridgeInv'
<1>1. /\ SiteOK /\ restarts \in 0 .. MaxRestarts
      /\ docBridge \in [Recoveries -> {"none", "observed", "prepared", "expired"}]
  BY DEF BridgeInv, BridgeRest
<1>2. /\ changed' = FALSE /\ site' = [site EXCEPT !.running = TRUE]
      /\ UNCHANGED <<marker, docBridge, ledgerBridge, issuedBridge, flightBridge, pcBridge, step, faultsBridge>>
  BY DEF Bridge!Restart
<1>3. restarts' \in 0 .. MaxRestarts
  BY <1>1, ExecutorsOK DEF Bridge!Restart
<1>4. site' \in Sites /\ site'.scm = site.scm /\ site'.public = site.public
        /\ site'.settings = site.settings
  BY <1>1, <1>2 DEF SiteOK, Sites
<1>5. SiteOK' /\ Kept
  BY <1>1, <1>2, <1>4 DEF SiteOK, Door, Shut, Kept
<1> QED
  BY <1>1, <1>2, <1>3, <1>5, NobodyActs

LEMMA BridgeApplyKeeps == ASSUME BridgeInv, NEW a \in Recoveries, Bridge!Apply(a)
PROVE BridgeInv'
<1>1. CASE Bridge!PreRead(a)
  <2>1. /\ pcBridge[a] = "claim"
             /\ \E p \in {"mutate", "idle"} : pcBridge' = [pcBridge EXCEPT ![a] = p]
        /\ UNCHANGED <<site, marker, docBridge, issuedBridge, flightBridge, changed, faultsBridge, restarts, ledgerBridge, step>>
    BY <1>1 DEF Bridge!PreRead, Bridge!Go, Bridge!Stop, Bridge!Look
  <2> QED
    BY <2>1, BridgeMoveKeeps DEF Bridge!Labels
<1>2. CASE Bridge!Mutate(a)
  <2>1. /\ pcBridge[a] = "mutate"
        /\ UNCHANGED <<marker, docBridge, step, restarts>>
    BY <1>2 DEF Bridge!Mutate
  <2>2. CASE Bridge!Intent(Bridge!Plan[step[a]]) \notin ledgerBridge[a]
    <3>1. /\ ledgerBridge' = [ledgerBridge EXCEPT ![a] = ledgerBridge[a] \cup {Bridge!Intent(Bridge!Plan[step[a]])}]
          /\ UNCHANGED <<pcBridge, site, issuedBridge, flightBridge, changed, faultsBridge>>
      BY <1>2, <2>2 DEF Bridge!Mutate, Bridge!Write
    <3> QED
      BY <2>1, <2>2, <3>1, AnnounceKeeps
  <2>3. CASE Bridge!Intent(Bridge!Plan[step[a]]) \in ledgerBridge[a]
    <3>1. UNCHANGED ledgerBridge
            /\ Bridge!Sent(a, Bridge!Plan[step[a]], IF Bridge!Plan[step[a]] = "stop" THEN "stopped" ELSE "poll")
      BY <1>2, <2>3 DEF Bridge!Mutate
    <3> QED
      BY <2>1, <2>3, <3>1, MutateSends
  <2> QED
    BY <2>2, <2>3
<1>3. CASE Bridge!AwaitResult(a)
  <2>1. /\ pcBridge[a] = "poll"
             /\ \E p \in {"wait", "idle"} : pcBridge' = [pcBridge EXCEPT ![a] = p]
        /\ UNCHANGED <<site, marker, docBridge, issuedBridge, flightBridge, changed, faultsBridge, restarts, ledgerBridge, step>>
    BY <1>3 DEF Bridge!AwaitResult, Bridge!Go, Bridge!Stop, Bridge!Look
  <2> QED
    BY <2>1, BridgeMoveKeeps DEF Bridge!Labels
<1>4. CASE Bridge!WaitEffect(a)
  <2>1. /\ pcBridge[a] = "wait"
        /\ pcBridge' = [pcBridge EXCEPT ![a] = "idle"]
             \/ (pcBridge' = [pcBridge EXCEPT ![a] = "restop"] /\ Bridge!Converged(Bridge!Plan[step[a]]))
        /\ UNCHANGED <<site, marker, docBridge, issuedBridge, flightBridge, changed, faultsBridge, restarts, ledgerBridge, step>>
    BY <1>4 DEF Bridge!WaitEffect, Bridge!Go, Bridge!Stop, Bridge!Look
  <2>2. step[a] \in 1 .. 4 /\ SiteOK
    BY <2>1 DEF BridgeInv, Placed
  <2>3. Bridge!Converged(Bridge!Plan[step[a]]) => Shut(Bridge!Plan[step[a]])
    BY <2>2, PlanIs, ConvergedShut
  <2> QED
    BY <2>1, <2>3, BridgeMoveKeeps DEF Bridge!Labels
<1>5. CASE Bridge!Restop(a)
  <2>1. /\ pcBridge[a] = "restop"
        /\ UNCHANGED <<marker, docBridge, step, restarts>>
    BY <1>5 DEF Bridge!Restop
  <2>2. CASE Bridge!Again(Bridge!Plan[step[a]]) \notin ledgerBridge[a] /\ ~ site.running
    <3>1. /\ pcBridge' = [pcBridge EXCEPT ![a] = "stopped"]
          /\ UNCHANGED <<ledgerBridge, site, issuedBridge, flightBridge, changed, faultsBridge>>
      BY <1>5, <2>2 DEF Bridge!Restop, Bridge!Go
    <3>2. "stopped" \in Bridge!Labels
      BY DEF Bridge!Labels
    <3> QED
      BY <2>1, <3>1, <3>2, BridgeMoveKeeps
  <2>3. CASE Bridge!Again(Bridge!Plan[step[a]]) \notin ledgerBridge[a] /\ site.running
    <3>1. /\ ledgerBridge' = [ledgerBridge EXCEPT ![a] = ledgerBridge[a] \cup {Bridge!Again(Bridge!Plan[step[a]])}]
          /\ UNCHANGED <<pcBridge, site, issuedBridge, flightBridge, changed, faultsBridge>>
      BY <1>5, <2>3 DEF Bridge!Restop, Bridge!Write
    <3> QED
      BY <2>1, <2>3, <3>1, AnnounceKeeps
  <2>4. CASE Bridge!Again(Bridge!Plan[step[a]]) \in ledgerBridge[a]
    <3>1. UNCHANGED ledgerBridge /\ Bridge!Sent(a, "stop", "stopped")
      BY <1>5, <2>4 DEF Bridge!Restop
    <3> QED
      BY <2>1, <2>4, <3>1, RestopSends
  <2> QED
    BY <1>5, <2>2, <2>3, <2>4 DEF Bridge!Restop
<1>6. CASE Bridge!WaitSite(a)
  <2>1. /\ pcBridge[a] = "stopped"
             /\ \E p \in {"live", "idle"} : pcBridge' = [pcBridge EXCEPT ![a] = p]
        /\ UNCHANGED <<site, marker, docBridge, issuedBridge, flightBridge, changed, faultsBridge, restarts, ledgerBridge, step>>
    BY <1>6 DEF Bridge!WaitSite, Bridge!Go, Bridge!Stop, Bridge!Look
  <2> QED
    BY <2>1, BridgeMoveKeeps DEF Bridge!Labels
<1>7. CASE Bridge!Live(a)
  BY <1>7, LiveKeeps
<1>8. CASE Bridge!FinalProof(a)
  <2>1. /\ pcBridge[a] = "archive"
             /\ \E p \in {"pending", "idle"} : pcBridge' = [pcBridge EXCEPT ![a] = p]
        /\ ledgerBridge' = [ledgerBridge EXCEPT ![a] = ledgerBridge[a] \cup {Bridge!File("final")}]
        /\ UNCHANGED <<site, marker, docBridge, issuedBridge, flightBridge, changed, faultsBridge, restarts, step>>
    BY <1>8 DEF Bridge!FinalProof, Bridge!Write, Bridge!Go, Bridge!Stop, Bridge!Look
  <2> QED
    BY <2>1, FileKeeps DEF Bridge!Labels
<1>9. CASE Bridge!Pending(a)
  <2>1. /\ pcBridge[a] = "pending" /\ pcBridge' = [pcBridge EXCEPT ![a] = "rename"]
        /\ ledgerBridge' = [ledgerBridge EXCEPT ![a] = ledgerBridge[a] \cup {Bridge!File("pending")}]
        /\ UNCHANGED <<site, marker, docBridge, issuedBridge, flightBridge, changed, faultsBridge, restarts, step>>
    BY <1>9 DEF Bridge!Pending, Bridge!Write, Bridge!Go, Bridge!Stop, Bridge!Look
  <2> QED
    BY <2>1, FileKeeps DEF Bridge!Labels
<1>10. CASE Bridge!Archive(a)
  BY <1>10, ArchiveKeeps
<1>11. CASE Bridge!Terminal(a)
  <2>1. /\ pcBridge[a] = "terminal" /\ pcBridge' = [pcBridge EXCEPT ![a] = "idle"]
        /\ ledgerBridge' = [ledgerBridge EXCEPT ![a] = ledgerBridge[a] \cup {Bridge!File("terminal")}]
        /\ UNCHANGED <<site, marker, docBridge, issuedBridge, flightBridge, changed, faultsBridge, restarts, step>>
    BY <1>11 DEF Bridge!Terminal, Bridge!Write, Bridge!Go, Bridge!Stop, Bridge!Look
  <2> QED
    BY <2>1, FileKeeps DEF Bridge!Labels
<1> QED
  BY <1>1, <1>2, <1>3, <1>4, <1>5, <1>6, <1>7, <1>8, <1>9, <1>10, <1>11 DEF Bridge!Apply

LEMMA BridgeNextKeeps == ASSUME BridgeInv, Bridge!Next PROVE BridgeInv'
<1>1. ASSUME NEW a \in Recoveries, Bridge!Observe(a) PROVE BridgeInv'
  BY <1>1, DocumentKeeps DEF Bridge!Observe
<1>2. ASSUME NEW a \in Recoveries, Bridge!Prepare(a) PROVE BridgeInv'
  BY <1>2, DocumentKeeps DEF Bridge!Prepare
<1>3. ASSUME NEW a \in Recoveries, Bridge!Expire(a) PROVE BridgeInv'
  BY <1>3, DocumentKeeps DEF Bridge!Expire
<1>4. ASSUME NEW a \in Recoveries, Bridge!Begin(a) PROVE BridgeInv'
  <2>1. /\ pcBridge[a] = "idle" /\ Bridge!File("claim") \notin ledgerBridge[a]
             /\ pcBridge' = [pcBridge EXCEPT ![a] = "claim"]
        /\ ledgerBridge' = [ledgerBridge EXCEPT ![a] = ledgerBridge[a] \cup {Bridge!File("claim")}]
        /\ UNCHANGED <<site, marker, docBridge, issuedBridge, flightBridge, changed, faultsBridge, restarts, step>>
    BY <1>4 DEF Bridge!Begin, Bridge!Write, Bridge!Go, Bridge!Look
  <2> QED
    BY <2>1, FileKeeps DEF Bridge!Labels
<1> QED
  BY <1>1, <1>2, <1>3, <1>4, BridgeApplyKeeps, BridgeCrashKeeps, BridgeLandKeeps,
  RestartKeeps
     DEF Bridge!Next

LEMMA StutterKeeps == ASSUME BridgeInv, UNCHANGED Bridge!vars PROVE BridgeInv'
<1>1. UNCHANGED <<site, marker, docBridge, ledgerBridge, issuedBridge, flightBridge, pcBridge, step, changed, faultsBridge, restarts>>
  BY DEF Bridge!vars
<1>2. SiteOK' /\ Kept
  BY <1>1, StillKeeps DEF BridgeInv, SiteOK, Door, Shut
<1>3. /\ changed' \in BOOLEAN /\ restarts' \in 0 .. MaxRestarts
      /\ docBridge' \in [Recoveries -> {"none", "observed", "prepared", "expired"}]
  BY <1>1 DEF BridgeInv, BridgeRest
<1> QED
  BY <1>1, <1>2, <1>3, NobodyActs

LEMMA BridgeSays == ASSUME BridgeInv
PROVE Bridge!TypeOK /\ Bridge!OrderSafe /\ Bridge!ArchivedTruth /\ Bridge!OnceEach
<1>1. SiteOK /\ BridgeRest /\ BridgeShaped /\ \A a \in Recoveries : Placed(a) /\ Counted(a)
  BY DEF BridgeInv, BridgeRest
<1>2. Bridge!TypeOK
  <2>1. pcBridge \in [Recoveries -> Bridge!Labels]
    BY <1>1 DEF BridgeShaped, Placed
  <2>2. issuedBridge \in [Recoveries -> [Bridge!Mutations -> 0 .. 4]]
    BY <1>1 DEF BridgeShaped, Counted
  <2>3. step \in [Recoveries -> 1 .. (Len(Bridge!Plan) + 1)]
    BY <1>1, PlanIs DEF BridgeShaped, Placed
  <2> QED
    BY <1>1, <2>1, <2>2, <2>3 DEF Bridge!TypeOK, BridgeRest, BridgeFiles, SiteOK, Sites
<1>3. Bridge!OrderSafe
  BY <1>1 DEF Bridge!OrderSafe, SiteOK, Door, Shut
<1>4. Bridge!ArchivedTruth
  BY <1>1 DEF Bridge!ArchivedTruth, BridgeRest, Door, Shut
<1>5. Bridge!OnceEach
  <2> SUFFICES ASSUME NEW a \in Recoveries, NEW m \in Bridge!Mutations
               PROVE  /\ m # "stop" => issuedBridge[a][m] <= 1
                      /\ m # "stop" /\ issuedBridge[a][m] > 0
                           => Bridge!Intent(m) \in ledgerBridge[a]
                      /\ issuedBridge[a]["stop"] <= Cardinality(
                             {f \in ledgerBridge[a] : f = Bridge!Intent("stop") \/ f[1] = "again"})
    BY SameCardinality DEF Bridge!OnceEach
  <2>1. issuedBridge[a]["stop"] <= Cardinality(Stops(a))
    BY <1>1 DEF Counted
  <2>2. m # "stop" => \E k \in 2 .. 4 : m = Bridge!Plan[k]
    BY PlanIs DEF Bridge!Mutations
  <2>3. m # "stop" => issuedBridge[a][m] <= 1 /\ (issuedBridge[a][m] > 0
        => Bridge!Intent(m) \in ledgerBridge[a])
    BY <1>1, <2>2 DEF Counted
  <2>4. issuedBridge[a]["stop"] <= Cardinality(
               {f \in ledgerBridge[a] : f = Bridge!Intent("stop") \/ f[1] = "again"})
    BY <2>1 DEF Stops
  <2> QED
    BY <2>3, <2>4
<1> QED
  BY <1>2, <1>3, <1>4, <1>5

LEMMA BridgeSpecSafe ==
    Bridge!Spec
      => [](Bridge!TypeOK /\ Bridge!OrderSafe /\ Bridge!ArchivedTruth /\ Bridge!OnceEach)
<1>1. Bridge!Init => BridgeInv
  BY InvInit
<1>2. BridgeInv /\ [Bridge!Next]_(Bridge!vars) => BridgeInv'
  BY BridgeNextKeeps, StutterKeeps
<1>3. BridgeInv
      => Bridge!TypeOK /\ Bridge!OrderSafe /\ Bridge!ArchivedTruth /\ Bridge!OnceEach
  BY BridgeSays
<1> QED
  BY <1>1, <1>2, <1>3, PTL DEF Bridge!Spec

LEMMA BridgeRun == EitherSpec => Bridge!Spec
<1>1. EitherInit => Bridge!Init
  BY DEF EitherInit
<1>2. [EitherNext]_either => [Bridge!Next]_(Bridge!vars)
  BY DEF EitherNext, either, bridgeVars, Bridge!vars
<1> QED
  BY <1>1, <1>2, PTL DEF EitherSpec, Bridge!Spec

(* Whatever the run checks of the bridge's recovery (BridgeSafe) holds for *)
(* every number of authorizations, of lost answers and of restarts: the    *)
(* settings are never empty behind an open door, the marker is archived    *)
(* for a closed bridge only, and each mutation is sent once, after its     *)
(* durable intent.                                                         *)
THEOREM BridgeHolds == EitherSpec => []BridgeSafe
<1>1. (Bridge!TypeOK /\ Bridge!OrderSafe /\ Bridge!ArchivedTruth /\ Bridge!OnceEach)
      => BridgeSafe
  BY DEF BridgeSafe
<1> QED
  BY <1>1, BridgeRun, BridgeSpecSafe, PTL

-----------------------------------------------------------------------------
(* The role assignments.  What a process has sent is told by where it is;  *)
(* whoever may have suspended the lock still has its restoration before    *)
(* it, or a request or a process was lost; and what is deleted stays so.   *)

(* All that an authorization may send, in its order.                       *)
RoleWhole == <<"unlock">> \o Targets
RoleLast == Len(Targets) + 1
RoleFirst(i) == SubSeq(RoleWhole, 1, i)
RoleRequests == Role!Roles \union {"unlock", "relock"}

(* What a process has sent when it has come so far.                        *)
RoleLog(a, i) ==
    /\ issuedRole[a] = {RoleWhole[k] : k \in 1 .. i}
    /\ intents[a] = RoleFirst(i)

RoleBefore(a) ==
    pcRole[a] \in {"inventory", "unlock", "unlocked", "check", "drop", "dropped", "finally", "relock"} =>
        \E i \in 0 .. RoleLast :
            /\ RoleLog(a, i)
            /\ pcRole[a] \in {"inventory", "unlock"} => i = 0 /\ n[a] = 1
            /\ pcRole[a] = "unlocked" => i = 1 /\ n[a] = 1
            /\ pcRole[a] \in {"check", "drop"} => i = n[a]
            /\ pcRole[a] = "dropped" => i = n[a] + 1
            /\ pcRole[a] \in {"finally", "relock"} /\ ~ err[a] => i = RoleLast

(* Behind the finally clause the lock may have been sent, too.             *)
RoleBehind(a) ==
    pcRole[a] \in {"locked", "final", "end", "idle"} =>
        \E i \in 0 .. RoleLast : \E tail \in {<<>>, <<"relock">>} :
            /\ intents[a] = RoleFirst(i) \o tail
            /\ pcRole[a] # "idle" /\ ~ err[a]
                 => Role!Roles \union {"unlock"} \subseteq issuedRole[a]

RoleWhere(a) ==
    /\ pcRole[a] \in {"inventory", "unlock", "unlocked", "check", "drop", "dropped", "final"}
         => ~ err[a]
    /\ pcRole[a] = "end" /\ ~ err[a] => present = {}
    /\ terminalRole[a] = "succeeded"
         => present = {} /\ Role!Roles \union {"unlock"} \subseteq issuedRole[a]
    /\ a \notin used =>
           /\ pcRole[a] = "idle" /\ issuedRole[a] = {} /\ intents[a] = <<>>
           /\ ~ err[a] /\ n[a] = 1
    /\ pcRole[a] # "idle" => terminalRole[a] # "succeeded"
    /\ a \notin used => terminalRole[a] = "none"

RoleDomains(a) ==
    /\ issuedRole[a] \subseteq RoleRequests
    /\ intents[a] \in Seq(RoleRequests)
    /\ pcRole[a] \in {"idle", "inventory", "unlock", "unlocked", "check", "drop", "dropped",
                  "finally", "relock", "locked", "final", "end"}
    /\ err[a] \in BOOLEAN /\ n[a] \in 1 .. Len(Targets)
    /\ terminalRole[a] \in {"none", "succeeded", "failed"}

RoleShaped ==
    /\ issuedRole = [b \in Recoveries |-> issuedRole[b]]
         /\ intents = [b \in Recoveries |-> intents[b]]
    /\ pcRole = [b \in Recoveries |-> pcRole[b]] /\ err = [b \in Recoveries |-> err[b]]
    /\ n = [b \in Recoveries |-> n[b]] /\ terminalRole = [b \in Recoveries |-> terminalRole[b]]

Holding == {"unlocked", "check", "drop", "dropped", "finally", "relock"}

(* Whoever has suspended the lock has its restoration before it.           *)
Held == excused \/ lockRole \/ \E a \in Recoveries : pcRole[a] \in Holding

RoleRest ==
    /\ lockRole \in BOOLEAN /\ present \subseteq Role!Roles /\ used \subseteq Recoveries
    /\ docRole \in [Recoveries -> {"none", "observed", "confirmed", "expired"}]
    /\ flightRole \subseteq RoleRequests
    /\ flightRole \subseteq Role!Roles \/ excused
    /\ excused \in BOOLEAN /\ faultsRole \in 0 .. MaxTroubles

RoleMine(a) == RoleDomains(a) /\ RoleWhere(a) /\ RoleBefore(a) /\ RoleBehind(a)

RoleInv == RoleShaped /\ RoleRest /\ Held /\ \A a \in Recoveries : RoleMine(a)

-----------------------------------------------------------------------------
LEMMA WholeIs ==
    /\ RoleWhole \in Seq(RoleRequests) /\ Len(RoleWhole) = RoleLast /\ RoleWhole[1] = "unlock"
    /\ \A k \in 1 .. Len(Targets) : RoleWhole[k + 1] = Targets[k] /\ Targets[k] \in Role!Roles
    /\ Len(Targets) \in Nat \ {0} /\ RoleLast \in Nat
<1>1. Len(Targets) \in Nat \ {0} /\ \A k \in 1 .. Len(Targets) : Targets[k] \in Role!Roles
  BY ExecutorsOK
<1>2. <<"unlock">> \in Seq(RoleRequests) /\ Targets \in Seq(RoleRequests)
  BY ExecutorsOK DEF RoleRequests
<1>3. RoleWhole \in Seq(RoleRequests) /\ Len(RoleWhole) = 1 + Len(Targets)
      /\ \A k \in 1 .. 1 + Len(Targets) : RoleWhole[k] = IF k <= 1 THEN <<"unlock">>[k] ELSE Targets[k - 1]
  BY <1>2 DEF RoleWhole
<1> QED
  BY <1>1, <1>3 DEF RoleLast

LEMMA NotRoles == "unlock" \notin Role!Roles /\ "relock" \notin Role!Roles
BY ExecutorsOK

LEMMA FirstGrows ==
    ASSUME NEW i \in 0 .. Len(Targets)
    PROVE  /\ RoleFirst(i + 1) = Append(RoleFirst(i), RoleWhole[i + 1])
           /\ {RoleWhole[k] : k \in 1 .. i + 1} = {RoleWhole[k] : k \in 1 .. i} \cup {RoleWhole[i + 1]}
<1>1. i \in Int /\ RoleWhole \in Seq(RoleRequests) /\ Len(RoleWhole) = RoleLast
        /\ RoleLast = Len(Targets) + 1
  BY WholeIs DEF RoleLast
<1>2. RoleFirst(i) \in Seq(RoleRequests) /\ RoleWhole[i + 1] \in RoleRequests
  BY <1>1, WholeIs DEF RoleFirst
<1>3. SubSeq(RoleWhole, 1, i + 1) = SubSeq(RoleWhole, 1, i) \o <<RoleWhole[i + 1]>>
  BY <1>1, SubSeqRecursiveSecond
<1>4. Append(RoleFirst(i), RoleWhole[i + 1]) = RoleFirst(i) \o <<RoleWhole[i + 1]>>
  BY <1>2, AppendIsConcat
<1> QED
  BY <1>1, <1>3, <1>4 DEF RoleFirst

LEMMA FirstIs ==
    /\ RoleFirst(0) = <<>> /\ {RoleWhole[k] : k \in 1 .. 0} = {}
    /\ {RoleWhole[k] : k \in 1 .. RoleLast} = Role!Roles \union {"unlock"}
    /\ \A i \in 0 .. RoleLast :
           /\ RoleFirst(i) \in Seq(RoleRequests) /\ RoleFirst(i) \o <<>> = RoleFirst(i)
           /\ Append(RoleFirst(i), "relock") = RoleFirst(i) \o <<"relock">>
           /\ "relock" \notin {RoleWhole[k] : k \in 1 .. i}
<1>1. RoleWhole \in Seq(RoleRequests) /\ Len(RoleWhole) = RoleLast
        /\ RoleLast = Len(Targets) + 1 /\ Len(Targets) \in Nat
  BY WholeIs DEF RoleLast
<1>2. RoleFirst(0) = <<>>
  BY <1>1, SubSeqEmpty DEF RoleFirst
<1>3. {RoleWhole[k] : k \in 1 .. RoleLast} = Role!Roles \union {"unlock"}
  <2>1. ASSUME NEW x \in {RoleWhole[k] : k \in 1 .. RoleLast}
        PROVE x \in Role!Roles \union {"unlock"}
    <3>1. PICK k \in 1 .. RoleLast : x = RoleWhole[k]
      OBVIOUS
    <3>2. CASE k = 1
      BY <3>1, <3>2, WholeIs
    <3>3. CASE k # 1
      <4>1. k - 1 \in 1 .. Len(Targets) /\ k = (k - 1) + 1
        BY <1>1, <3>1, <3>3
      <4> QED
        BY <3>1, <4>1, WholeIs
    <3> QED
      BY <3>2, <3>3
  <2>2. ASSUME NEW x \in Role!Roles PROVE x \in {RoleWhole[k] : k \in 1 .. RoleLast}
    <3>1. PICK k \in 1 .. Len(Targets) : x = Targets[k]
      BY DEF Role!Roles
    <3>2. k + 1 \in 1 .. RoleLast /\ RoleWhole[k + 1] = x
      BY <1>1, <3>1, WholeIs
    <3> QED
      BY <3>2
  <2>3. "unlock" \in {RoleWhole[k] : k \in 1 .. RoleLast}
    <3>1. 1 \in 1 .. RoleLast /\ RoleWhole[1] = "unlock"
      BY <1>1, WholeIs
    <3> QED
      BY <3>1
  <2> QED
    BY <2>1, <2>2, <2>3
<1>4. ASSUME NEW i \in 0 .. RoleLast
      PROVE  /\ RoleFirst(i) \in Seq(RoleRequests) /\ RoleFirst(i) \o <<>> = RoleFirst(i)
             /\ Append(RoleFirst(i), "relock") = RoleFirst(i) \o <<"relock">>
             /\ "relock" \notin {RoleWhole[k] : k \in 1 .. i}
  <2>1. RoleFirst(i) \in Seq(RoleRequests)
    BY <1>1 DEF RoleFirst
  <2>2. RoleFirst(i) \o <<>> = RoleFirst(i)
    BY <2>1, ConcatEmptySeq
  <2>3. "relock" \in RoleRequests
    BY DEF RoleRequests
  <2>4. Append(RoleFirst(i), "relock") = RoleFirst(i) \o <<"relock">>
    BY <2>1, <2>3, AppendIsConcat
  <2>5. "relock" \notin {RoleWhole[k] : k \in 1 .. i}
    <3>1. {RoleWhole[k] : k \in 1 .. i} \subseteq {RoleWhole[k] : k \in 1 .. RoleLast}
      BY <1>1
    <3>2. "relock" # "unlock"
      OBVIOUS
    <3> QED
      BY <1>3, <3>1, <3>2, NotRoles
  <2> QED
    BY <2>1, <2>2, <2>4, <2>5
<1> QED
  BY <1>2, <1>3, <1>4

-----------------------------------------------------------------------------
LEMMA RoleInvInit == ASSUME Role!Init PROVE RoleInv
<1>1. RoleShaped
  BY DEF Role!Init, RoleShaped
<1>2. RoleRest
  <2>1. faultsRole \in 0 .. MaxTroubles
    BY ExecutorsOK DEF Role!Init
  <2>2. docRole \in [Recoveries -> {"none", "observed", "confirmed", "expired"}]
    BY DEF Role!Init
  <2> QED
    BY <2>1, <2>2 DEF Role!Init, RoleRest
<1>3. Held
  BY DEF Role!Init, Held
<1>4. ASSUME NEW a \in Recoveries PROVE RoleMine(a)
  <2>1. /\ pcRole[a] = "idle" /\ issuedRole[a] = {} /\ intents[a] = <<>> /\ err[a] = FALSE
        /\ n[a] = 1 /\ terminalRole[a] = "none" /\ used = {}
    BY DEF Role!Init
  <2>2. RoleDomains(a)
    <3>1. <<>> \in Seq(RoleRequests) /\ 1 \in 1 .. Len(Targets)
      BY WholeIs
    <3> QED
      BY <2>1, <3>1 DEF RoleDomains
  <2>3. RoleWhere(a) /\ RoleBefore(a)
    BY <2>1 DEF RoleWhere, RoleBefore
  <2>4. RoleBehind(a)
    <3>1. RoleFirst(0) \o <<>> = <<>> /\ 0 \in 0 .. RoleLast
      BY FirstIs, WholeIs
    <3> QED
      BY <2>1, <3>1 DEF RoleBehind
  <2> QED
    BY <2>2, <2>3, <2>4 DEF RoleMine
<1> QED
  BY <1>1, <1>2, <1>3, <1>4 DEF RoleInv

RoleKept == present' \subseteq present

(* A step in which a process has no part.                                  *)
LEMMA RoleOthers ==
    ASSUME NEW b, RoleMine(b), RoleKept,
           pcRole'[b] = pcRole[b], issuedRole'[b] = issuedRole[b], intents'[b] = intents[b],
           err'[b] = err[b],
           n'[b] = n[b], terminalRole'[b] = terminalRole[b], b \in used' <=> b \in used
    PROVE  RoleMine(b)'
<1>1. RoleDomains(b)'
  BY DEF RoleMine, RoleDomains
<1>2. RoleWhere(b)'
  BY DEF RoleMine, RoleWhere, RoleKept
<1>3. RoleBefore(b)'
  BY DEF RoleMine, RoleBefore, RoleLog
<1>4. RoleBehind(b)'
  BY DEF RoleMine, RoleBehind
<1> QED
  BY <1>1, <1>2, <1>3, <1>4 DEF RoleMine

(* Nobody but a acts.                                                      *)
RoleAlone(a) ==
    /\ \A b \in Recoveries : b # a =>
           /\ pcRole'[b] = pcRole[b] /\ issuedRole'[b] = issuedRole[b]
                /\ intents'[b] = intents[b]
           /\ err'[b] = err[b] /\ n'[b] = n[b] /\ terminalRole'[b] = terminalRole[b]
           /\ b \in used' <=> b \in used

LEMMA RoleActs ==
    ASSUME RoleInv, NEW a \in Recoveries, RoleAlone(a), RoleShaped', RoleRest',
           RoleKept, RoleMine(a)',
           excused => excused',
           \/ excused'
           \/ lockRole'
           \/ pcRole'[a] \in Holding
           \/ lockRole' = lockRole /\ (pcRole[a] \in Holding => pcRole'[a] \in Holding)
    PROVE  RoleInv'
<1>1. \A b \in Recoveries : RoleMine(b)'
  <2> SUFFICES ASSUME NEW b \in Recoveries, b # a PROVE RoleMine(b)'
    OBVIOUS
  <2>1. RoleMine(b)
    BY DEF RoleInv
  <2>2. /\ pcRole'[b] = pcRole[b] /\ issuedRole'[b] = issuedRole[b] /\ intents'[b] = intents[b]
        /\ err'[b] = err[b] /\ n'[b] = n[b] /\ terminalRole'[b] = terminalRole[b]
        /\ b \in used' <=> b \in used
    BY DEF RoleAlone
  <2> QED
    BY <2>1, <2>2, RoleOthers
<1>2. Held'
  <2>1. CASE lockRole' = lockRole /\ (pcRole[a] \in Holding => pcRole'[a] \in Holding)
    <3>1. \A b \in Recoveries : pcRole[b] \in Holding => pcRole'[b] \in Holding
      BY <2>1 DEF RoleAlone
    <3> QED
      BY <2>1, <3>1 DEF RoleInv, Held
  <2> QED
    BY <2>1 DEF Held
<1> QED
  BY <1>1, <1>2 DEF RoleInv

LEMMA RoleTouches ==
    ASSUME RoleInv, NEW a \in Recoveries, NEW p, NEW e, NEW m, NEW t, NEW is, NEW ts,
           pcRole' = [pcRole EXCEPT ![a] = p],
           err' = err \/ err' = [err EXCEPT ![a] = e],
           n' = n \/ n' = [n EXCEPT ![a] = m],
           terminalRole' = terminalRole \/ terminalRole' = [terminalRole EXCEPT ![a] = t],
           issuedRole' = issuedRole \/ issuedRole' = [issuedRole EXCEPT ![a] = is],
           intents' = intents \/ intents' = [intents EXCEPT ![a] = ts],
           used' = used \/ used' = used \cup {a}
    PROVE  RoleShaped' /\ RoleAlone(a) /\ pcRole'[a] = p
<1>1. RoleShaped
  BY DEF RoleInv
<1>2. pcRole' = [b \in Recoveries |-> pcRole'[b]] /\ pcRole'[a] = p
        /\ \A b \in Recoveries : b # a
      => pcRole'[b] = pcRole[b]
  BY <1>1 DEF RoleShaped
<1>3. err' = [b \in Recoveries |-> err'[b]] /\ \A b \in Recoveries : b # a
      => err'[b] = err[b]
  BY <1>1, ShapeStays DEF RoleShaped
<1>4. n' = [b \in Recoveries |-> n'[b]] /\ \A b \in Recoveries : b # a => n'[b] = n[b]
  BY <1>1, ShapeStays DEF RoleShaped
<1>5. terminalRole' = [b \in Recoveries |-> terminalRole'[b]] /\ \A b \in Recoveries : b # a
      => terminalRole'[b] = terminalRole[b]
  BY <1>1, ShapeStays DEF RoleShaped
<1>6. issuedRole' = [b \in Recoveries |-> issuedRole'[b]] /\ \A b \in Recoveries : b # a
      => issuedRole'[b] = issuedRole[b]
  BY <1>1, ShapeStays DEF RoleShaped
<1>7. intents' = [b \in Recoveries |-> intents'[b]] /\ \A b \in Recoveries : b # a
      => intents'[b] = intents[b]
  BY <1>1, ShapeStays DEF RoleShaped
<1> QED
  BY <1>2, <1>3, <1>4, <1>5, <1>6, <1>7 DEF RoleShaped, RoleAlone

-----------------------------------------------------------------------------
LEMMA RoleLogged ==
    ASSUME NEW a, RoleMine(a)
    PROVE  \E i \in 0 .. RoleLast : \E tail \in {<<>>, <<"relock">>} : intents[a] = RoleFirst(i) \o tail
<1>1. CASE pcRole[a] \in {"locked", "final", "end", "idle"}
  BY <1>1 DEF RoleMine, RoleBehind
<1>2. CASE pcRole[a] \notin {"locked", "final", "end", "idle"}
  <2>1. PICK i \in 0 .. RoleLast : intents[a] = RoleFirst(i)
    BY <1>2 DEF RoleMine, RoleDomains, RoleBefore, RoleLog
  <2>2. RoleFirst(i) \o <<>> = RoleFirst(i)
    BY FirstIs
  <2> QED
    BY <2>1, <2>2
<1> QED
  BY <1>1, <1>2

(* The process ends, or writes that it failed.                             *)
LEMMA EndMine ==
    ASSUME NEW a, RoleMine(a), RoleKept, issuedRole'[a] = issuedRole[a],
           intents'[a] = intents[a], n'[a] = n[a],
           terminalRole'[a] = terminalRole[a], a \in used' <=> a \in used, pcRole[a] # "idle",
           \/ pcRole'[a] = "idle" /\ err'[a] = err[a]
           \/ pcRole'[a] = "end" /\ err'[a] = TRUE
    PROVE  RoleMine(a)'
<1>1. RoleDomains(a)'
  BY DEF RoleMine, RoleDomains
<1>2. RoleWhere(a)' /\ RoleBefore(a)'
  BY DEF RoleMine, RoleWhere, RoleBefore, RoleKept
<1>3. RoleBehind(a)'
  BY RoleLogged DEF RoleBehind
<1> QED
  BY <1>1, <1>2, <1>3 DEF RoleMine

(* Something went wrong, and the lock may be gone.                         *)
LEMMA WrongMine ==
    ASSUME NEW a, RoleMine(a), RoleKept, issuedRole'[a] = issuedRole[a],
           intents'[a] = intents[a], n'[a] = n[a],
           terminalRole'[a] = terminalRole[a], a \in used' <=> a \in used,
           pcRole[a] \in {"unlock", "unlocked", "check", "drop", "dropped"},
           pcRole'[a] = "finally" /\ err'[a] = TRUE
    PROVE  RoleMine(a)'
<1>1. RoleDomains(a)'
  BY DEF RoleMine, RoleDomains
<1>2. RoleWhere(a)' /\ RoleBehind(a)'
  BY DEF RoleMine, RoleWhere, RoleBehind, RoleKept
<1>3. RoleBefore(a)'
  BY DEF RoleMine, RoleBefore, RoleLog
<1> QED
  BY <1>1, <1>2, <1>3 DEF RoleMine

(* The process goes on.                                                    *)
LEMMA OnMine ==
    ASSUME NEW a, RoleMine(a), RoleKept, issuedRole'[a] = issuedRole[a],
           intents'[a] = intents[a],
           terminalRole'[a] = terminalRole[a], a \in used' <=> a \in used, err'[a] = err[a],
           \/ n'[a] = n[a]
              /\ \/ pcRole[a] = "inventory" /\ pcRole'[a] = "unlock"
                 \/ pcRole[a] = "unlocked" /\ pcRole'[a] = "check"
                 \/ pcRole[a] = "check" /\ pcRole'[a] = "drop"
                 \/ pcRole[a] = "dropped" /\ pcRole'[a] = "finally" /\ n[a] = Len(Targets)
                 \/ pcRole[a] = "finally" /\ pcRole'[a] \in {"locked", "relock"}
                 \/ pcRole[a] = "locked" /\ pcRole'[a] = "final" /\ ~ err[a]
                 \/ pcRole[a] = "final" /\ pcRole'[a] = "end" /\ present = {}
           \/ n'[a] = n[a] + 1 /\ pcRole[a] = "dropped" /\ pcRole'[a] = "check"
                /\ n[a] # Len(Targets)
    PROVE  RoleMine(a)'
<1>1. RoleDomains(a)'
  BY WholeIs DEF RoleMine, RoleDomains
<1>2. RoleWhere(a)'
  BY DEF RoleMine, RoleWhere, RoleKept
<1>3. RoleBefore(a)'
  <2> SUFFICES ASSUME pcRole'[a] \in {"inventory", "unlock", "unlocked", "check", "drop", "dropped", "finally", "relock"}
               PROVE  RoleBefore(a)'
    BY DEF RoleBefore
  <2>1. PICK i \in 0 .. RoleLast :
            /\ RoleLog(a, i)
            /\ pcRole[a] \in {"inventory", "unlock"} => i = 0 /\ n[a] = 1
            /\ pcRole[a] = "unlocked" => i = 1 /\ n[a] = 1
            /\ pcRole[a] \in {"check", "drop"} => i = n[a]
            /\ pcRole[a] = "dropped" => i = n[a] + 1
            /\ pcRole[a] \in {"finally", "relock"} /\ ~ err[a] => i = RoleLast
    BY DEF RoleMine, RoleBefore
  <2>2. RoleLog(a, i)'
    BY <2>1 DEF RoleLog
  <2> QED
    BY <2>1, <2>2 DEF RoleBefore, RoleLast
<1>4. RoleBehind(a)'
  <2> SUFFICES ASSUME pcRole'[a] \in {"locked", "final", "end"} PROVE RoleBehind(a)'
    BY DEF RoleBehind
  <2>1. CASE pcRole[a] = "finally"
    <3>1. PICK i \in 0 .. RoleLast : RoleLog(a, i) /\ (~ err[a] => i = RoleLast)
      BY <2>1 DEF RoleMine, RoleBefore
    <3>2. ~ err[a] => Role!Roles \union {"unlock"} \subseteq issuedRole[a]
      BY <3>1, FirstIs DEF RoleLog
    <3> QED
      BY <3>2, RoleLogged DEF RoleBehind
  <2>2. CASE pcRole[a] # "finally"
    BY <2>2 DEF RoleMine, RoleBehind
  <2> QED
    BY <2>1, <2>2
<1> QED
  BY <1>1, <1>2, <1>3, <1>4 DEF RoleMine

(* A request of the plan has left the process.                             *)
LEMMA SentMine ==
    ASSUME NEW a, RoleMine(a), RoleKept, n'[a] = n[a],
           terminalRole'[a] = terminalRole[a], a \in used' <=> a \in used,
           NEW r, issuedRole'[a] = issuedRole[a] \cup {r},
           intents'[a] = Append(intents[a], r),
           \/ pcRole[a] = "unlock" /\ r = "unlock"
              /\ ((pcRole'[a] = "unlocked" /\ err'[a] = err[a]) \/ (pcRole'[a] = "finally" /\ err'[a] = TRUE))
           \/ pcRole[a] = "drop" /\ r = Targets[n[a]]
              /\ ((pcRole'[a] = "dropped" /\ err'[a] = err[a]) \/ (pcRole'[a] = "finally" /\ err'[a] = TRUE))
    PROVE  RoleMine(a)'
<1>1. PICK i \in 0 .. RoleLast :
            /\ RoleLog(a, i)
            /\ pcRole[a] = "unlock" => i = 0 /\ n[a] = 1
            /\ pcRole[a] = "drop" => i = n[a]
  BY DEF RoleMine, RoleBefore
<1>2. n[a] \in 1 .. Len(Targets) /\ i \in 0 .. Len(Targets) /\ r = RoleWhole[i + 1]
        /\ i + 1 \in 1 .. RoleLast
  BY <1>1, WholeIs DEF RoleMine, RoleDomains, RoleLast
<1>3. RoleLog(a, i + 1)'
  BY <1>1, <1>2, FirstGrows DEF RoleLog
<1>4. RoleDomains(a)'
  <2>1. r \in RoleRequests
    BY <1>2, WholeIs
  <2>2. Append(intents[a], r) \in Seq(RoleRequests)
    BY <2>1 DEF RoleMine, RoleDomains
  <2> QED
    BY <2>1, <2>2 DEF RoleMine, RoleDomains
<1>5. RoleWhere(a)'
  BY DEF RoleMine, RoleWhere, RoleKept
<1>6. RoleBefore(a)'
  <2>1. i + 1 \in 0 .. RoleLast
    BY <1>2, WholeIs
  <2> QED
    BY <1>1, <1>2, <1>3, <2>1 DEF RoleBefore
<1>7. RoleBehind(a)'
  BY DEF RoleBehind
<1> QED
  BY <1>4, <1>5, <1>6, <1>7 DEF RoleMine

(* The restoration of the lock has left the process.                       *)
LEMMA RelockMine ==
    ASSUME NEW a, RoleMine(a), RoleKept, n'[a] = n[a],
           terminalRole'[a] = terminalRole[a], a \in used' <=> a \in used,
           pcRole[a] = "relock", issuedRole'[a] = issuedRole[a] \cup {"relock"},
           intents'[a] = Append(intents[a], "relock"),
           (pcRole'[a] = "locked" /\ err'[a] = err[a]) \/ (pcRole'[a] = "end" /\ err'[a] = TRUE)
    PROVE  RoleMine(a)'
<1>1. PICK i \in 0 .. RoleLast : RoleLog(a, i) /\ (~ err[a] => i = RoleLast)
  BY DEF RoleMine, RoleBefore
<1>2. RoleDomains(a)'
  <2>1. "relock" \in RoleRequests
    BY DEF RoleRequests
  <2>2. Append(intents[a], "relock") \in Seq(RoleRequests)
    BY <2>1 DEF RoleMine, RoleDomains
  <2> QED
    BY <2>1, <2>2 DEF RoleMine, RoleDomains
<1>3. RoleWhere(a)' /\ RoleBefore(a)'
  BY DEF RoleMine, RoleWhere, RoleBefore, RoleKept
<1>4. RoleBehind(a)'
  <2>1. intents'[a] = RoleFirst(i) \o <<"relock">>
    BY <1>1, FirstIs DEF RoleLog
  <2>2. ~ err'[a] => Role!Roles \union {"unlock"} \subseteq issuedRole'[a]
    BY <1>1, FirstIs DEF RoleLog, RoleMine, RoleDomains
  <2> QED
    BY <2>1, <2>2 DEF RoleBehind
<1> QED
  BY <1>2, <1>3, <1>4 DEF RoleMine

-----------------------------------------------------------------------------
LEMMA RoleLookKeeps ==
    ASSUME RoleInv, NEW a \in Recoveries, NEW ok, NEW label, NEW otherwise,
           Role!Look(a, ok, label, otherwise), UNCHANGED excused,
           \/ pcRole[a] = "inventory" /\ label = "unlock" /\ otherwise = "end"
           \/ pcRole[a] = "unlocked" /\ label = "check" /\ otherwise = "finally"
           \/ pcRole[a] = "check" /\ label = "drop" /\ otherwise = "finally"
           \/ pcRole[a] = "locked" /\ label = "final" /\ otherwise = "end" /\ (ok => ~ err[a])
           \/ pcRole[a] = "final" /\ label = "end" /\ otherwise = "end" /\ (ok => present = {})
    PROVE  RoleInv'
<1>1. /\ UNCHANGED <<lockRole, present, issuedRole, intents, flightRole, docRole, used, n, terminalRole, excused>>
      /\ \/ ok /\ pcRole' = [pcRole EXCEPT ![a] = label] /\ err' = err
         \/ pcRole' = [pcRole EXCEPT ![a] = otherwise] /\ err' = [err EXCEPT ![a] = TRUE]
  BY DEF Role!Look, Role!Go, Role!Still, Role!Local
<1>2. RoleRest'
  <2>1. faultsRole' \in 0 .. MaxTroubles
    BY ExecutorsOK DEF Role!Look, Role!Fault, RoleInv, RoleRest
  <2> QED
    BY <1>1, <2>1 DEF RoleInv, RoleRest
<1>3. RoleShaped' /\ RoleAlone(a) /\ RoleKept /\ RoleMine(a)
  <2>1. RoleShaped' /\ RoleAlone(a)
    BY <1>1, RoleTouches
  <2> QED
    BY <1>1, <2>1 DEF RoleInv, RoleKept
<1>4. CASE ok /\ pcRole' = [pcRole EXCEPT ![a] = label] /\ err' = err
  <2>1. pcRole'[a] = label
    BY <1>4 DEF RoleInv, RoleShaped
  <2>2. RoleMine(a)'
    BY <1>1, <1>3, <1>4, <2>1, OnMine
  <2> QED
    BY <1>1, <1>2, <1>3, <2>1, <2>2, RoleActs DEF Holding
<1>5. CASE pcRole' = [pcRole EXCEPT ![a] = otherwise] /\ err' = [err EXCEPT ![a] = TRUE]
  <2>1. pcRole'[a] = otherwise /\ err'[a] = TRUE
    BY <1>5 DEF RoleInv, RoleShaped
  <2>2. RoleMine(a)'
    BY <1>1, <1>3, <2>1, WrongMine, EndMine
  <2> QED
    BY <1>1, <1>2, <1>3, <2>1, <2>2, RoleActs DEF Holding
<1> QED
  BY <1>1, <1>4, <1>5

LEMMA EffectIs ==
    ASSUME NEW r \in RoleRequests, Role!Effect(r)
    PROVE  /\ RoleKept /\ (lockRole \in BOOLEAN => lockRole' \in BOOLEAN)
           /\ r = "relock" => lockRole'
           /\ r \in Role!Roles => lockRole' = lockRole
BY NotRoles DEF Role!Effect, RoleKept, RoleRequests

(* What a request and its answer do.                                       *)
LEMMA MutateIs ==
    ASSUME RoleInv, NEW a \in Recoveries, NEW r \in RoleRequests, NEW label,
           NEW otherwise,
           Role!Mutate(a, r, label, otherwise), Role!MayMutate(a, r), UNCHANGED Role!Local
    PROVE  /\ RoleRest' /\ RoleShaped' /\ RoleAlone(a) /\ RoleKept
           /\ issuedRole'[a] = issuedRole[a] \cup {r} /\ intents'[a] = Append(intents[a], r)
           /\ n'[a] = n[a] /\ terminalRole'[a] = terminalRole[a] /\ (a \in used' <=> a \in used)
           /\ (pcRole'[a] = label /\ err'[a] = err[a])
                \/ (pcRole'[a] = otherwise /\ err'[a] = TRUE)
           /\ excused => excused'
           /\ r \in Role!Roles => lockRole' = lockRole
           /\ r = "relock" => lockRole' \/ excused'
<1>1. /\ issuedRole' = [issuedRole EXCEPT ![a] = issuedRole[a] \cup {r}]
      /\ intents' = [intents EXCEPT ![a] = Append(intents[a], r)]
      /\ UNCHANGED <<docRole, used, n, terminalRole>>
  BY DEF Role!Mutate, Role!Local
<1>2. \/ pcRole' = [pcRole EXCEPT ![a] = label] /\ err' = err
      \/ pcRole' = [pcRole EXCEPT ![a] = otherwise] /\ err' = [err EXCEPT ![a] = TRUE]
  BY DEF Role!Mutate, Role!Go
<1>3. RoleShaped' /\ RoleAlone(a)
  BY <1>1, <1>2, RoleTouches
<1>4. RoleShaped /\ RoleRest
  BY DEF RoleInv
<1>5. /\ issuedRole'[a] = issuedRole[a] \cup {r} /\ intents'[a] = Append(intents[a], r)
      /\ n'[a] = n[a] /\ terminalRole'[a] = terminalRole[a] /\ (a \in used' <=> a \in used)
      /\ (pcRole'[a] = label /\ err'[a] = err[a]) \/ (pcRole'[a] = otherwise /\ err'[a] = TRUE)
  BY <1>1, <1>2, <1>4 DEF RoleShaped
<1>6. /\ Role!Effect(r) \/ UNCHANGED <<lockRole, present>>
      /\ flightRole' = flightRole
           \/ (flightRole' = flightRole \cup {r} /\ excused' = (excused \/ r \notin Role!Roles))
      /\ excused' = excused \/ excused' = (excused \/ r \notin Role!Roles)
      /\ faultsRole' = faultsRole \/ Role!Fault
      /\ r = "relock" => Role!Effect(r) \/ excused'
  BY NotRoles DEF Role!Mutate, Role!Accepted
<1>7. RoleKept /\ lockRole' \in BOOLEAN /\ (r \in Role!Roles => lockRole' = lockRole)
        /\ (r = "relock"
      => lockRole' \/ excused')
  BY <1>4, <1>6, EffectIs DEF RoleKept, RoleRest
<1>8. excused' \in BOOLEAN /\ (excused => excused')
  <2>1. excused \in BOOLEAN
    BY <1>4 DEF RoleRest
  <2>2. CASE r \in Role!Roles
    <3>1. excused' = excused \/ excused' = (excused \/ FALSE)
      BY <1>6, <2>2, Zenon
    <3> QED
      BY <2>1, <3>1
  <2>3. CASE r \notin Role!Roles
    <3>1. excused' = excused \/ excused' = (excused \/ TRUE)
      BY <1>6, <2>3, Zenon
    <3> QED
      BY <2>1, <3>1
  <2> QED
    BY <2>2, <2>3
<1>9. faultsRole' \in 0 .. MaxTroubles
  BY <1>4, <1>6, ExecutorsOK DEF RoleRest, Role!Fault
<1>10. flightRole' \subseteq RoleRequests /\ (flightRole' \subseteq Role!Roles \/ excused')
  BY <1>4, <1>6, <1>8 DEF RoleRest
<1>11. RoleRest'
  BY <1>1, <1>4, <1>7, <1>8, <1>9, <1>10 DEF RoleRest, RoleKept
<1> QED
  BY <1>3, <1>5, <1>7, <1>8, <1>11

LEMMA PlanKeeps ==
    ASSUME RoleInv, NEW a \in Recoveries, NEW r \in RoleRequests, NEW label,
           Role!Mutate(a, r, label, "finally"), UNCHANGED Role!Local,
           \/ pcRole[a] = "unlock" /\ r = "unlock" /\ label = "unlocked"
           \/ pcRole[a] = "drop" /\ r = Targets[n[a]] /\ label = "dropped"
    PROVE  RoleInv'
<1>1. CASE Role!MayMutate(a, r)
  <2>1. /\ RoleRest' /\ RoleShaped' /\ RoleAlone(a) /\ RoleKept
        /\ issuedRole'[a] = issuedRole[a] \cup {r} /\ intents'[a] = Append(intents[a], r)
        /\ n'[a] = n[a] /\ terminalRole'[a] = terminalRole[a] /\ (a \in used' <=> a \in used)
        /\ (pcRole'[a] = label /\ err'[a] = err[a])
             \/ (pcRole'[a] = "finally" /\ err'[a] = TRUE)
        /\ excused => excused'
    BY <1>1, MutateIs
  <2>2. RoleMine(a) /\ RoleMine(a)'
    BY <2>1, SentMine DEF RoleInv
  <2> QED
    BY <2>1, <2>2, RoleActs DEF Holding
<1>2. CASE ~ Role!MayMutate(a, r)
  <2>1. /\ UNCHANGED <<lockRole, present, issuedRole, intents, flightRole, docRole, used, n, terminalRole, excused, faultsRole>>
        /\ pcRole' = [pcRole EXCEPT ![a] = "finally"] /\ err' = [err EXCEPT ![a] = TRUE]
    BY <1>2 DEF Role!Mutate, Role!Go, Role!Still, Role!Local
  <2>2. RoleShaped' /\ RoleAlone(a) /\ RoleKept
    BY <2>1, RoleTouches DEF RoleKept
  <2>3. pcRole'[a] = "finally" /\ err'[a] = TRUE
    BY <2>1 DEF RoleInv, RoleShaped
  <2>4. RoleMine(a) /\ RoleMine(a)'
    BY <2>1, <2>2, <2>3, WrongMine DEF RoleInv
  <2>5. RoleRest'
    BY <2>1 DEF RoleInv, RoleRest
  <2> QED
    BY <2>1, <2>2, <2>3, <2>4, <2>5, RoleActs DEF Holding
<1> QED
  BY <1>1, <1>2

LEMMA RelockKeeps == ASSUME RoleInv, NEW a \in Recoveries, Role!Relock(a) PROVE RoleInv'
<1>1. pcRole[a] = "relock" /\ Role!Mutate(a, "relock", "locked", "end") /\ UNCHANGED Role!Local
  BY DEF Role!Relock
<1>2. RoleMine(a) /\ "relock" \in RoleRequests
  BY DEF RoleInv, RoleRequests
<1>3. Role!MayMutate(a, "relock")
  BY <1>1, <1>2, FirstIs DEF RoleMine, RoleBefore, RoleLog, Role!MayMutate
<1>4. /\ RoleRest' /\ RoleShaped' /\ RoleAlone(a) /\ RoleKept
      /\ issuedRole'[a] = issuedRole[a] \cup {"relock"}
           /\ intents'[a] = Append(intents[a], "relock")
      /\ n'[a] = n[a] /\ terminalRole'[a] = terminalRole[a] /\ (a \in used' <=> a \in used)
      /\ (pcRole'[a] = "locked" /\ err'[a] = err[a]) \/ (pcRole'[a] = "end" /\ err'[a] = TRUE)
      /\ excused => excused'
      /\ lockRole' \/ excused'
  BY <1>1, <1>2, <1>3, MutateIs
<1>5. RoleMine(a)'
  BY <1>1, <1>2, <1>4, RelockMine
<1> QED
  BY <1>4, <1>5, RoleActs

LEMMA DroppedKeeps == ASSUME RoleInv, NEW a \in Recoveries, Role!Dropped(a)
PROVE RoleInv'
<1>1. /\ pcRole[a] = "dropped"
           /\ UNCHANGED <<lockRole, present, issuedRole, intents, flightRole, docRole, used, terminalRole, excused>>
      /\ \/ n[a] = Len(Targets) /\ pcRole' = [pcRole EXCEPT ![a] = "finally"] /\ n' = n
           /\ err' = err
         \/ n[a] # Len(Targets) /\ pcRole' = [pcRole EXCEPT ![a] = "check"]
              /\ n' = [n EXCEPT ![a] = n[a] + 1] /\ err' = err
         \/ pcRole' = [pcRole EXCEPT ![a] = "finally"] /\ err' = [err EXCEPT ![a] = TRUE]
              /\ n' = n
      /\ faultsRole' = faultsRole \/ Role!Fault
  BY DEF Role!Dropped, Role!Go, Role!Still
<1>2. RoleRest'
  <2>1. faultsRole' \in 0 .. MaxTroubles
    BY <1>1, ExecutorsOK DEF Role!Fault, RoleInv, RoleRest
  <2> QED
    BY <1>1, <2>1 DEF RoleInv, RoleRest
<1>3. RoleMine(a) /\ RoleShaped
  BY DEF RoleInv
<1>4. CASE n[a] = Len(Targets) /\ pcRole' = [pcRole EXCEPT ![a] = "finally"]
           /\ n' = n /\ err' = err
  <2>1. RoleShaped' /\ RoleAlone(a) /\ RoleKept /\ pcRole'[a] = "finally"
    BY <1>1, <1>4, RoleTouches DEF RoleKept
  <2>2. RoleMine(a)'
    BY <1>1, <1>3, <1>4, <2>1, OnMine
  <2> QED
    BY <1>1, <1>2, <2>1, <2>2, RoleActs DEF Holding
<1>5. CASE n[a] # Len(Targets) /\ pcRole' = [pcRole EXCEPT ![a] = "check"]
           /\ n' = [n EXCEPT ![a] = n[a] + 1] /\ err' = err
  <2>1. RoleShaped' /\ RoleAlone(a) /\ RoleKept /\ pcRole'[a] = "check"
    BY <1>1, <1>5, RoleTouches DEF RoleKept
  <2>2. n'[a] = n[a] + 1
    BY <1>3, <1>5 DEF RoleShaped
  <2>3. RoleMine(a)'
    BY <1>1, <1>3, <1>5, <2>1, <2>2, OnMine
  <2> QED
    BY <1>1, <1>2, <2>1, <2>3, RoleActs DEF Holding
<1>6. CASE pcRole' = [pcRole EXCEPT ![a] = "finally"]
           /\ err' = [err EXCEPT ![a] = TRUE] /\ n' = n
  <2>1. RoleShaped' /\ RoleAlone(a) /\ RoleKept /\ pcRole'[a] = "finally"
    BY <1>1, <1>6, RoleTouches DEF RoleKept
  <2>2. err'[a] = TRUE
    BY <1>3, <1>6 DEF RoleShaped
  <2>3. RoleMine(a)'
    BY <1>1, <1>3, <1>6, <2>1, <2>2, WrongMine
  <2> QED
    BY <1>1, <1>2, <2>1, <2>3, RoleActs DEF Holding
<1> QED
  BY <1>1, <1>4, <1>5, <1>6

LEMMA FinallyKeeps == ASSUME RoleInv, NEW a \in Recoveries, Role!Finally(a)
PROVE RoleInv'
<1>1. /\ pcRole[a] = "finally"
           /\ UNCHANGED <<lockRole, present, issuedRole, intents, flightRole, docRole, used, n, terminalRole>>
      /\ \/ lockRole /\ pcRole' = [pcRole EXCEPT ![a] = "locked"]
           /\ UNCHANGED <<err, excused, faultsRole>>
         \/ pcRole' = [pcRole EXCEPT ![a] = "relock"] /\ UNCHANGED <<err, excused, faultsRole>>
         \/ Role!Fault /\ pcRole' = [pcRole EXCEPT ![a] = "end"]
              /\ err' = [err EXCEPT ![a] = TRUE] /\ excused' = TRUE
  BY DEF Role!Finally, Role!Go, Role!Still, Role!Local
<1>2. RoleRest'
  <2>1. faultsRole' \in 0 .. MaxTroubles
    BY <1>1, ExecutorsOK DEF Role!Fault, RoleInv, RoleRest
  <2> QED
    BY <1>1, <2>1 DEF RoleInv, RoleRest
<1>3. RoleMine(a) /\ RoleShaped
  BY DEF RoleInv
<1>4. CASE /\ err' = err /\ excused' = excused
           /\ \/ lockRole /\ pcRole' = [pcRole EXCEPT ![a] = "locked"]
              \/ pcRole' = [pcRole EXCEPT ![a] = "relock"]
  <2>1. /\ RoleShaped' /\ RoleAlone(a) /\ RoleKept
        /\ (lockRole /\ pcRole'[a] = "locked") \/ pcRole'[a] = "relock"
    <3>1. CASE lockRole /\ pcRole' = [pcRole EXCEPT ![a] = "locked"]
      BY <1>1, <1>4, <3>1, RoleTouches DEF RoleKept
    <3>2. CASE pcRole' = [pcRole EXCEPT ![a] = "relock"]
      BY <1>1, <1>4, <3>2, RoleTouches DEF RoleKept
    <3> QED
      BY <1>4, <3>1, <3>2
  <2>2. RoleMine(a)'
    BY <1>1, <1>3, <1>4, <2>1, OnMine
  <2> QED
    BY <1>1, <1>2, <1>4, <2>1, <2>2, RoleActs DEF Holding
<1>5. CASE pcRole' = [pcRole EXCEPT ![a] = "end"] /\ err' = [err EXCEPT ![a] = TRUE]
           /\ excused' = TRUE
  <2>1. RoleShaped' /\ RoleAlone(a) /\ RoleKept /\ pcRole'[a] = "end"
    BY <1>1, <1>5, RoleTouches DEF RoleKept
  <2>2. err'[a] = TRUE
    BY <1>3, <1>5 DEF RoleShaped
  <2>3. RoleMine(a)'
    BY <1>1, <1>3, <2>1, <2>2, EndMine
  <2> QED
    BY <1>1, <1>2, <1>5, <2>1, <2>3, RoleActs
<1> QED
  BY <1>1, <1>4, <1>5

LEMMA TerminalKeeps == ASSUME RoleInv, NEW a \in Recoveries, Role!Terminal(a)
PROVE RoleInv'
<1>1. /\ pcRole[a] = "end"
           /\ UNCHANGED <<lockRole, present, issuedRole, intents, flightRole, docRole, used, n, err, excused, faultsRole>>
      /\ pcRole' = [pcRole EXCEPT ![a] = "idle"]
      /\ terminalRole' = [terminalRole EXCEPT ![a] = IF err[a] THEN "failed" ELSE "succeeded"]
  BY DEF Role!Terminal, Role!Go, Role!Still
<1>2. RoleRest' /\ RoleMine(a) /\ RoleShaped
  BY <1>1 DEF RoleInv, RoleRest
<1>3. RoleShaped' /\ RoleAlone(a) /\ RoleKept /\ pcRole'[a] = "idle"
  BY <1>1, RoleTouches DEF RoleKept
<1>4. terminalRole'[a] = IF err[a] THEN "failed" ELSE "succeeded"
  BY <1>1, <1>2 DEF RoleShaped
<1>5. RoleDomains(a)'
  BY <1>1, <1>2, <1>3, <1>4 DEF RoleMine, RoleDomains
<1>6. ~ err[a] => present = {} /\ Role!Roles \union {"unlock"} \subseteq issuedRole[a]
  BY <1>1, <1>2 DEF RoleMine, RoleWhere, RoleBehind
<1>7. a \in used
  BY <1>1, <1>2 DEF RoleMine, RoleWhere
<1>8. RoleWhere(a)'
  BY <1>1, <1>3, <1>4, <1>6, <1>7 DEF RoleWhere
<1>9. RoleBefore(a)'
  BY <1>3 DEF RoleBefore
<1>10. RoleBehind(a)'
  BY <1>1, <1>2, <1>3, RoleLogged DEF RoleBehind
<1>11. RoleMine(a)'
  BY <1>5, <1>8, <1>9, <1>10 DEF RoleMine
<1> QED
  BY <1>1, <1>2, <1>3, <1>11, RoleActs DEF Holding

LEMMA RoleCrashKeeps == ASSUME RoleInv, NEW a \in Recoveries, Role!Crash(a)
PROVE RoleInv'
<1>1. /\ pcRole[a] # "idle"
           /\ UNCHANGED <<lockRole, present, issuedRole, intents, flightRole, docRole, used, n, err, terminalRole>>
      /\ pcRole' = [pcRole EXCEPT ![a] = "idle"] /\ excused' = TRUE /\ Role!Fault
  BY DEF Role!Crash, Role!Go, Role!Still
<1>2. RoleRest'
  <2>1. faultsRole' \in 0 .. MaxTroubles
    BY <1>1, ExecutorsOK DEF Role!Fault, RoleInv, RoleRest
  <2> QED
    BY <1>1, <2>1 DEF RoleInv, RoleRest
<1>3. RoleShaped' /\ RoleAlone(a) /\ RoleKept /\ pcRole'[a] = "idle"
  BY <1>1, RoleTouches DEF RoleKept
<1>4. RoleMine(a)'
  BY <1>1, <1>3, EndMine DEF RoleInv
<1> QED
  BY <1>1, <1>2, <1>3, <1>4, RoleActs

LEMMA BeginKeeps == ASSUME RoleInv, NEW a \in Recoveries, Role!Begin(a) PROVE RoleInv'
<1>1. /\ pcRole[a] = "idle" /\ a \notin used /\ used' = used \cup {a}
      /\ UNCHANGED <<lockRole, present, issuedRole, intents, flightRole, docRole, n, err, terminalRole, excused, faultsRole>>
      /\ pcRole' = [pcRole EXCEPT ![a] = "inventory"]
  BY DEF Role!Begin, Role!Go, Role!Still
<1>2. RoleRest' /\ RoleMine(a)
  BY <1>1 DEF RoleInv, RoleRest
<1>3. RoleShaped' /\ RoleAlone(a) /\ RoleKept /\ pcRole'[a] = "inventory"
  BY <1>1, RoleTouches DEF RoleKept
<1>4. RoleDomains(a)'
  BY <1>1, <1>2, <1>3 DEF RoleMine, RoleDomains
<1>5. RoleWhere(a)'
  BY <1>1, <1>2, <1>3 DEF RoleMine, RoleWhere
<1>6. RoleBefore(a)'
  <2>1. issuedRole[a] = {} /\ intents[a] = <<>> /\ n[a] = 1
    BY <1>1, <1>2 DEF RoleMine, RoleWhere
  <2>2. 0 \in 0 .. RoleLast
    BY WholeIs
  <2>3. RoleLog(a, 0)'
    BY <1>1, <2>1, FirstIs DEF RoleLog
  <2> QED
    BY <1>1, <1>3, <2>1, <2>2, <2>3 DEF RoleBefore
<1>7. RoleBehind(a)'
  BY <1>3 DEF RoleBehind
<1>8. RoleMine(a)'
  BY <1>4, <1>5, <1>6, <1>7 DEF RoleMine
<1> QED
  BY <1>1, <1>2, <1>3, <1>8, RoleActs DEF Holding


(* A step of Azure or of an administrator with the documents.              *)
LEMMA RoleNobodyActs ==
    ASSUME RoleInv, RoleRest', RoleKept,
           UNCHANGED <<used, issuedRole, intents, pcRole, err, n, terminalRole>>,
           excused => excused', excused' \/ lockRole' = lockRole
    PROVE  RoleInv'
<1>1. \A b \in Recoveries : RoleMine(b)'
  BY RoleOthers DEF RoleInv
<1>2. RoleShaped'
  BY DEF RoleInv, RoleShaped
<1>3. Held'
  BY DEF RoleInv, Held
<1> QED
  BY <1>1, <1>2, <1>3 DEF RoleInv

LEMMA RoleLandKeeps == ASSUME RoleInv, NEW r \in RoleRequests, Role!Land(r)
PROVE RoleInv'
<1>1. /\ r \in flightRole /\ flightRole' = flightRole \ {r}
      /\ Role!Effect(r) \/ UNCHANGED <<lockRole, present>>
      /\ UNCHANGED <<docRole, used, issuedRole, intents, pcRole, err, n, terminalRole, excused, faultsRole>>
  BY DEF Role!Land
<1>2. RoleRest
  BY DEF RoleInv
<1>3. RoleKept /\ lockRole' \in BOOLEAN /\ (r \in Role!Roles => lockRole' = lockRole)
  BY <1>1, <1>2, EffectIs DEF RoleKept, RoleRest
<1>4. excused' \/ lockRole' = lockRole
  BY <1>1, <1>2, <1>3 DEF RoleRest
<1>5. RoleRest'
  BY <1>1, <1>2, <1>3 DEF RoleRest, RoleKept
<1> QED
  BY <1>1, <1>3, <1>4, <1>5, RoleNobodyActs

LEMMA RoleDocumentKeeps ==
    ASSUME RoleInv,
           UNCHANGED <<lockRole, present, used, issuedRole, intents, flightRole, pcRole, err, n, terminalRole, excused, faultsRole>>,
           NEW a \in Recoveries,
           NEW d \in {"none", "observed", "confirmed", "expired"},
           docRole' = [docRole EXCEPT ![a] = d]
    PROVE  RoleInv'
<1>1. RoleRest'
  <2>1. docRole' \in [Recoveries -> {"none", "observed", "confirmed", "expired"}]
    BY DEF RoleInv, RoleRest
  <2> QED
    BY <2>1 DEF RoleInv, RoleRest
<1> QED
  BY <1>1, RoleNobodyActs DEF RoleKept

LEMMA RoleStepKeeps == ASSUME RoleInv, NEW a \in Recoveries, Role!Step(a) PROVE RoleInv'
<1>1. RoleMine(a)
  BY DEF RoleInv
<1>2. CASE Role!Inventory(a)
  BY <1>2, RoleLookKeeps DEF Role!Inventory
<1>3. CASE Role!Unlock(a)
  <2>1. "unlock" \in RoleRequests
    BY DEF RoleRequests
  <2> QED
    BY <1>3, <2>1, PlanKeeps DEF Role!Unlock
<1>4. CASE Role!Unlocked(a)
  BY <1>4, RoleLookKeeps DEF Role!Unlocked
<1>5. CASE Role!Check(a)
  BY <1>5, RoleLookKeeps DEF Role!Check
<1>6. CASE Role!Drop(a)
  <2>1. Targets[n[a]] \in RoleRequests
    BY <1>1, WholeIs DEF RoleMine, RoleDomains, RoleRequests
  <2> QED
    BY <1>6, <2>1, PlanKeeps DEF Role!Drop
<1>7. CASE Role!Dropped(a)
  BY <1>7, DroppedKeeps
<1>8. CASE Role!Finally(a)
  BY <1>8, FinallyKeeps
<1>9. CASE Role!Relock(a)
  BY <1>9, RelockKeeps
<1>10. CASE Role!Locked(a)
  BY <1>10, RoleLookKeeps DEF Role!Locked
<1>11. CASE Role!Final(a)
  BY <1>11, RoleLookKeeps DEF Role!Final, Role!LiveState
<1>12. CASE Role!Terminal(a)
  BY <1>12, TerminalKeeps
<1> QED
  BY <1>2, <1>3, <1>4, <1>5, <1>6, <1>7, <1>8, <1>9, <1>10, <1>11, <1>12 DEF Role!Step

LEMMA RoleNextKeeps == ASSUME RoleInv, Role!Next PROVE RoleInv'
<1>1. ASSUME NEW a \in Recoveries, Role!Observe(a) PROVE RoleInv'
  BY <1>1, RoleDocumentKeeps DEF Role!Observe
<1>2. ASSUME NEW a \in Recoveries, Role!Confirm(a) PROVE RoleInv'
  BY <1>2, RoleDocumentKeeps DEF Role!Confirm
<1>3. ASSUME NEW a \in Recoveries, Role!Expire(a) PROVE RoleInv'
  BY <1>3, RoleDocumentKeeps DEF Role!Expire
<1>4. ASSUME NEW r \in Role!Roles \union {"unlock", "relock"}, Role!Land(r)
      PROVE RoleInv'
  BY <1>4, RoleLandKeeps DEF RoleRequests
<1> QED
  BY <1>1, <1>2, <1>3, <1>4, BeginKeeps, RoleStepKeeps, RoleCrashKeeps DEF Role!Next

LEMMA RoleStutterKeeps == ASSUME RoleInv, UNCHANGED Role!vars PROVE RoleInv'
<1>1. UNCHANGED <<lockRole, present, docRole, used, issuedRole, intents, flightRole, pcRole, err, n, terminalRole, excused, faultsRole>>
  BY DEF Role!vars
<1>2. RoleRest'
  BY <1>1 DEF RoleInv, RoleRest
<1> QED
  BY <1>1, <1>2, RoleNobodyActs DEF RoleKept

LEMMA RoleSays == ASSUME RoleInv
PROVE Role!TypeOK /\ Role!LockBack /\ Role!SuccessTruth /\ Role!InOrder
<1>1. RoleShaped /\ RoleRest /\ Held /\ \A a \in Recoveries : RoleMine(a) /\ RoleDomains(a)
  BY DEF RoleInv, RoleMine
<1>2. Role!TypeOK
  <2>1. issuedRole \in [Recoveries -> SUBSET RoleRequests]
    BY <1>1 DEF RoleShaped, RoleDomains
  <2>2. pcRole \in [Recoveries -> {"idle", "inventory", "unlock", "unlocked", "check", "drop", "dropped",
                          "finally", "relock", "locked", "final", "end"}]
    BY <1>1 DEF RoleShaped, RoleDomains
  <2>3. err \in [Recoveries -> BOOLEAN] /\ n \in [Recoveries -> 1 .. Len(Targets)]
    BY <1>1 DEF RoleShaped, RoleDomains
  <2>4. terminalRole \in [Recoveries -> {"none", "succeeded", "failed"}]
    BY <1>1 DEF RoleShaped, RoleDomains
  <2> QED
    BY <1>1, <2>1, <2>2, <2>3, <2>4 DEF Role!TypeOK, RoleRest, RoleDomains, RoleRequests
<1>3. Role!LockBack
  BY <1>1 DEF Role!LockBack, Held, Holding
<1>4. Role!SuccessTruth
  BY <1>1 DEF Role!SuccessTruth, RoleMine, RoleWhere
<1>5. Role!InOrder
  <2>1. \A a \in Recoveries : \E i \in 0 .. RoleLast : \E tail \in {<<>>, <<"relock">>} : intents[a] = RoleFirst(i) \o tail
    BY <1>1, RoleLogged
  <2> QED
    BY <2>1 DEF Role!InOrder, RoleFirst, RoleWhole, RoleLast
<1> QED
  BY <1>2, <1>3, <1>4, <1>5

LEMMA RoleSpecSafe ==
    Role!Spec => [](Role!TypeOK /\ Role!LockBack /\ Role!SuccessTruth /\ Role!InOrder)
<1>1. Role!Init => RoleInv
  BY RoleInvInit
<1>2. RoleInv /\ [Role!Next]_(Role!vars) => RoleInv'
  BY RoleNextKeeps, RoleStutterKeeps
<1>3. RoleInv => Role!TypeOK /\ Role!LockBack /\ Role!SuccessTruth /\ Role!InOrder
  BY RoleSays
<1> QED
  BY <1>1, <1>2, <1>3, PTL DEF Role!Spec

LEMMA RoleRun == EitherSpec => Role!Spec
<1>1. EitherInit => Role!Init
  BY DEF EitherInit
<1>2. [EitherNext]_either => [Role!Next]_(Role!vars)
  BY DEF EitherNext, either, roleVars, Role!vars
<1> QED
  BY <1>1, <1>2, PTL DEF EitherSpec, Role!Spec

(* Whatever the run checks of the role recovery (RoleSafe) holds for every *)
(* sequence of assignments and every number of authorizations and faults:  *)
(* the lock comes back unless a lock request, a lock read or a process was *)
(* lost, a success is true for good, and an authorization sends each       *)
(* deletion once, in order, and none after the lock.                       *)
THEOREM RoleHolds == EitherSpec => []RoleSafe
<1>1. (Role!TypeOK /\ Role!LockBack /\ Role!SuccessTruth /\ Role!InOrder) => RoleSafe
  BY DEF RoleSafe
<1> QED
  BY <1>1, RoleRun, RoleSpecSafe, PTL

-----------------------------------------------------------------------------
(* The ledger of the bootstrap.  One process lives, the one that created   *)
(* the directory; of the others each writes nothing but evidence that is   *)
(* not there. What is kept survives as long as the directory does, which   *)
(* is durable before anything else is.                                     *)

(* What is there for good, unless the directory is lost.                   *)
LedgerKept(f) == view[f] = "full" /\ f \in safe
Sealed  == \A j \in Ledger!Journal : LedgerKept(j)

(* The process executes: it created the directory.                         *)
Live(p) == mode[p] = "apply" /\ pcLedger[p] \notin {"failed", "done"}
Busy(p) == pcLedger[p] \in {"write", "sync"}
(* Where a process is that writes nothing, or where it is going to be.     *)
Goal(p) == IF Busy(p) THEN atLedger[p].then ELSE pcLedger[p]

LedgerCalls  == {"parent", "claim", "run", "send", "answered", "undo", "undone", "enable",
           "open", "complete", "raised", "retired"}
LedgerRecords == 1 .. (MaxMutations + MaxUndone)
LedgerLabels ==
    Ledger!Written \union LedgerCalls \union {"idle", "write", "sync", "readback", "done", "failed"}

LedgerSpots  == [file : Ledger!Files \union {"none"}, then : LedgerLabels \union {"none"}]

LedgerShapes ==
    /\ view \in [Ledger!Files -> {"none", "torn", "full"}]
    /\ safe \subseteq Ledger!Files
    /\ mode \in [Procs -> {"none", "apply", "resume"}] /\ pcLedger \in [Procs -> LedgerLabels]
    /\ atLedger \in [Procs -> LedgerSpots]
    /\ sent \subseteq Procs \X LedgerRecords
    /\ next \in 1..(MaxMutations + MaxUndone + 1)
    /\ net \in {"open", "closed"} /\ status \in {"none", "failed", "complete"}
    /\ admitted \in BOOLEAN /\ power \in BOOLEAN /\ faultsLedger \in 0 .. MaxTroubles

LedgerModeOf(p) ==
    /\ pcLedger[p] = "idle" <=> mode[p] = "none"
    /\ pcLedger[p] \in LedgerCalls => mode[p] = "apply"

LedgerMadeBy(p) == Live(p) =>
    /\ view["dir"] = "full"
    /\ pcLedger[p] # "parent" => "dir" \in safe
    /\ pcLedger[p] = "claim" => next = 1

(* What a process writes, and what comes after it.                         *)
File(p) == atLedger[p].file
Then(p) == atLedger[p].then
LedgerWriting(p) == Busy(p) =>
    /\ view[File(p)] # "none"
    /\ pcLedger[p] = "sync" => view[File(p)] = "full"
    /\ \/ File(p) = "state" /\ Then(p) = "run" /\ Live(p) /\ next = 1
       \/ /\ next <= MaxMutations /\ File(p) = IntentOf[next] /\ Then(p) = "send"
          /\ Live(p)
       \/ next > 1 /\ File(p) = ResultOf[next - 1] /\ Then(p) = "run" /\ Live(p)
       \/ /\ next \in LedgerRecords /\ Live(p)
          /\ \/ File(p) = IntentOf[next] /\ Then(p) = "undo"
             \/ File(p) = ResultOf[next] /\ Then(p) = "raised"
       \/ File(p) = "marker" /\ Then(p) = "enable" /\ Live(p)
       \/ File(p) = "terminal" /\ Then(p) \in {"failed", "done"} /\ Live(p)
       \/ File(p) \in Ledger!Written /\ Then(p) = Ledger!After(File(p))

(* The journal of the process that executes.                               *)
LedgerRecorded(p) == Live(p) =>
    /\ Goal(p) \in {"run", "send", "answered", "enable", "open"} =>
           \A m \in 1..(next - 1) :
              /\ LedgerKept(IntentOf[m])
              /\ LedgerKept(ResultOf[m]) \/ (m = next - 1 /\ Busy(p) /\ File(p) = ResultOf[m])
    /\ pcLedger[p] \in {"send", "answered"}
         => next <= MaxMutations /\ LedgerKept(IntentOf[next])
    /\ pcLedger[p] \in {"undo", "undone"}
         => next \in LedgerRecords /\ LedgerKept(IntentOf[next])
    /\ pcLedger[p] \in {"enable", "open"} => LedgerKept("marker")

LedgerSender(p)  == Live(p) => \A x \in sent : x[1] = p
Sourced(p) == pcLedger[p] = "source" => Sealed /\ LedgerKept("dir")

(* The evidence files before a step.                                       *)
LedgerSteps == {"source", "snapshot", "s2a", "s2b", "bundle", "readback", "complete"}
Ready(l) == CASE l = "source"   -> {}
              [] l = "snapshot" -> {"source"}
              [] l = "s2a"      -> {"source", "snapshot"}
              [] l = "s2b"      -> {"source", "snapshot", "s2a"}
              [] l = "bundle"   -> {"source", "snapshot", "s2a", "s2b"}
              [] OTHER -> {"source", "snapshot", "s2a", "s2b", "bundle"}
Readied(l) == \A g \in Ready(l) : view[g] = "full"
LedgerChained(p) == (~power /\ pcLedger[p] \in LedgerSteps) => Readied(pcLedger[p])

LedgerProcess(p) == /\ LedgerModeOf(p) /\ LedgerMadeBy(p) /\ LedgerWriting(p)
  /\ LedgerRecorded(p)
                    /\ LedgerSender(p) /\ Sourced(p) /\ LedgerChained(p)

LedgerAlone == \A p, q \in Procs : Live(p) /\ Live(q) => p = q

(* The mutations, the network and the evidence.                            *)
Sole ==
    /\ sent # {} => LedgerKept("dir")
    /\ \A x \in sent : LedgerKept(IntentOf[x[2]])
    /\ \A x, y \in sent : x[1] = y[1]
Opened == net = "open" => LedgerKept("marker") /\ LedgerKept("dir")
Source == view["source"] # "none" => Sealed /\ LedgerKept("dir")
Chain == ~power =>
    /\ \A f \in Ledger!Written : view[f] # "none" => Readied(f)
    /\ status = "complete" => view["bundle"] = "full"
LedgerWorld == Sole /\ Opened /\ Source /\ Chain

LedgerInv == LedgerShapes /\ LedgerAlone /\ (\A p \in Procs : LedgerProcess(p)) /\ LedgerWorld

(***************************************************************************)
(* A step of one process                                                   *)
(***************************************************************************)

LEMMA LedgerNames ==
    /\ Ledger!Written = {"source", "snapshot", "s2a", "s2b", "bundle"}
    /\ \A m \in LedgerRecords : \A j \in {IntentOf[m], ResultOf[m]} :
         /\ j \in Ledger!Files
         /\ j \notin Ledger!Written
         /\ j \notin {"none", "dir", "state", "marker", "terminal"}
    /\ \A j \in Ledger!Journal : /\ j \in Ledger!Files
                                 /\ j \notin Ledger!Written
                                 /\ j \notin {"none", "dir", "state", "marker", "terminal"}
    /\ 1..MaxMutations \subseteq LedgerRecords /\ Ledger!Undoing \subseteq LedgerRecords
    /\ Ledger!Written \subseteq Ledger!Files
         /\ {"dir", "state", "marker", "terminal"} \subseteq Ledger!Files
<1>1. Ledger!Written = {"source", "snapshot", "s2a", "s2b", "bundle"}
  BY DEF Ledger!Written, Ledger!Evidence
<1>2. LedgerRecords = (1..MaxMutations) \union Ledger!Undoing
  BY ExecutorsOK DEF LedgerRecords, Ledger!Undoing
<1>3. ASSUME NEW m \in LedgerRecords, NEW j \in {IntentOf[m], ResultOf[m]}
      PROVE  /\ j \in Ledger!Files
             /\ j \notin {"none", "dir", "state", "marker", "terminal"} \union Ledger!Written
  <2>1. j \in Ledger!Records(LedgerRecords)
    BY DEF Ledger!Records
  <2>2. j \in Ledger!Journal \union Ledger!Records(Ledger!Undoing)
    BY <1>2 DEF Ledger!Journal, Ledger!Records
  <2> QED
    BY <2>1, <2>2, ExecutorsOK DEF Ledger!Files, LedgerRecords
<1>4. ASSUME NEW j \in Ledger!Journal
      PROVE  \E m \in LedgerRecords : j \in {IntentOf[m], ResultOf[m]}
  BY <1>2 DEF Ledger!Journal, Ledger!Records
<1> QED
  BY <1>1, <1>2, <1>3, <1>4 DEF Ledger!Files

(* The mutations up to the one that the execution is at have records.      *)
LEMMA LedgerRange ==
    ASSUME LedgerShapes
    PROVE  /\ \A m \in 1..(next - 1) : m \in LedgerRecords
           /\ next > 1 => next - 1 \in LedgerRecords
           /\ next <= MaxMutations => next \in LedgerRecords
  BY ExecutorsOK DEF LedgerShapes, LedgerRecords

LedgerActs(p) == \A q \in Procs \ {p} : pcLedger'[q] = pcLedger[q]
  /\ atLedger'[q] = atLedger[q] /\ mode'[q] = mode[q]
(* No file is lost, but for the marker that a living process removes.      *)
LedgerGrows(p) ==
    /\ safe \ {"marker"} \subseteq safe'
    /\ \A f \in Ledger!Files \ {"marker"} :
          /\ view[f] = "full" => view'[f] = "full"
          /\ view[f] # "none" => view'[f] # "none"
    /\ \/ Live(p)
       \/ view'["marker"] = view["marker"] /\ ("marker" \in safe => "marker" \in safe')

LEMMA LedgerKeptStays ==
    ASSUME NEW p \in Procs, LedgerGrows(p), NEW f \in Ledger!Files, LedgerKept(f),
           f # "marker"
    PROVE  LedgerKept(f)'
  BY DEF LedgerGrows, LedgerKept

LEMMA LedgerSealedStays ==
    ASSUME NEW p \in Procs, LedgerGrows(p), Sealed, LedgerKept("dir")
    PROVE  Sealed' /\ LedgerKept("dir")'
<1>1. ASSUME NEW j \in Ledger!Journal PROVE LedgerKept(j)'
  BY LedgerKeptStays, LedgerNames DEF Sealed
<1>2. LedgerKept("dir")'
  BY LedgerKeptStays, LedgerNames
<1> QED
  BY <1>1, <1>2 DEF Sealed, Ledger!Journal

LEMMA LedgerReadyWritten == \A l : Ready(l) \subseteq Ledger!Written
<1> SUFFICES ASSUME NEW l PROVE Ready(l) \subseteq Ledger!Written
  OBVIOUS
<1> QED
  BY LedgerNames DEF Ready

LEMMA LedgerReadyStays ==
    ASSUME NEW p \in Procs, LedgerGrows(p), NEW l, Readied(l)
    PROVE  \A g \in Ready(l) : view'[g] = "full"
  BY LedgerReadyWritten, LedgerNames DEF Readied, LedgerGrows

(* What a step leaves of the processes that do not make it.                *)
LedgerFrame(p) ==
    /\ LedgerActs(p) /\ LedgerGrows(p) /\ power' = power
    /\ Live(p) \/ (next' = next /\ sent' = sent)

LEMMA LedgerOthersStay ==
    ASSUME LedgerInv, NEW p \in Procs, LedgerFrame(p), NEW q \in Procs \ {p}
    PROVE  LedgerProcess(q)'
<1> USE DEF LedgerFrame
<1>0. /\ pcLedger'[q] = pcLedger[q] /\ atLedger'[q] = atLedger[q] /\ mode'[q] = mode[q]
      /\ Live(q)' = Live(q) /\ Busy(q)' = Busy(q) /\ Goal(q)' = Goal(q)
      /\ File(q)' = File(q) /\ Then(q)' = Then(q)
      /\ LedgerProcess(q) /\ atLedger[q].file \in Ledger!Files \union {"none"}
  BY DEF LedgerActs, Live, Busy, Goal, File, Then, LedgerInv, LedgerShapes, LedgerSpots
<1>1. Live(q) => ~Live(p) /\ next' = next /\ sent' = sent
  BY DEF LedgerInv, LedgerAlone
<1>2. Live(q) => \A f \in Ledger!Files : LedgerKept(f) => LedgerKept(f)'
  BY <1>1 DEF LedgerGrows, LedgerKept
<1>3. (Live(q) /\ view["dir"] = "full") => view'["dir"] = "full"
  BY LedgerNames DEF LedgerGrows
<1>4. LedgerModeOf(q)'
  BY <1>0 DEF LedgerProcess, LedgerModeOf
<1>5. LedgerMadeBy(q)'
  <2>1. LedgerMadeBy(q)
    BY <1>0 DEF LedgerProcess
  <2>2. "dir" \in safe => "dir" \in safe'
    BY DEF LedgerGrows
  <2> QED
    BY <1>0, <1>1, <1>3, <2>1, <2>2 DEF LedgerMadeBy
<1>6. LedgerWriting(q)'
  <2> SUFFICES ASSUME Busy(q) PROVE LedgerWriting(q)'
    BY <1>0 DEF LedgerWriting
  <2>1. LedgerWriting(q)
    BY <1>0 DEF LedgerProcess
  <2>2. File(q) \in Ledger!Files
    BY <2>1, <1>0, LedgerNames, LedgerRange DEF LedgerWriting, LedgerInv
  <2>3. CASE Live(q)
    <3>1. /\ view[File(q)] # "none" => view'[File(q)] # "none"
          /\ view[File(q)] = "full" => view'[File(q)] = "full"
      BY <1>1, <2>2, <2>3 DEF LedgerGrows
    <3> QED
      BY <1>0, <1>1, <2>1, <2>3, <3>1 DEF LedgerWriting
  <2>4. CASE ~Live(q)
    <3>1. File(q) \in Ledger!Written /\ Then(q) = Ledger!After(File(q)) /\ File(q) # "marker"
      BY <2>1, <2>4, LedgerNames DEF LedgerWriting
    <3>2. /\ view[File(q)] # "none" => view'[File(q)] # "none"
          /\ view[File(q)] = "full" => view'[File(q)] = "full"
      BY <2>2, <3>1 DEF LedgerGrows
    <3> QED
      BY <1>0, <2>1, <3>1, <3>2 DEF LedgerWriting
  <2> QED
    BY <2>3, <2>4
<1>7. LedgerRecorded(q)'
  <2> SUFFICES ASSUME Live(q) PROVE LedgerRecorded(q)'
    BY <1>0 DEF LedgerRecorded
  <2>1. LedgerRecorded(q) /\ next' = next
    BY <1>0, <1>1 DEF LedgerProcess
  <2>2. next \in 1..(MaxMutations + MaxUndone + 1)
    BY DEF LedgerInv, LedgerShapes
  <2>3. \A m \in LedgerRecords : IntentOf[m] \in Ledger!Files /\ ResultOf[m] \in Ledger!Files
    BY LedgerNames
  <2>4. ASSUME Goal(q) \in {"run", "send", "answered", "enable", "open"},
               NEW m \in 1..(next - 1)
        PROVE  /\ LedgerKept(IntentOf[m])'
               /\ LedgerKept(ResultOf[m])' \/ (m = next - 1 /\ Busy(q) /\ File(q) = ResultOf[m])
    <3>1. m \in LedgerRecords
      BY <1>0, LedgerRange DEF LedgerInv
    <3> QED
      BY <1>2, <2>1, <2>3, <2>4, <3>1 DEF LedgerRecorded
  <2>5. ASSUME pcLedger[q] \in {"send", "answered"}
        PROVE next <= MaxMutations /\ LedgerKept(IntentOf[next])'
    <3>1. next <= MaxMutations /\ next \in 1..MaxMutations
      BY <2>1, <2>2, <2>5, ExecutorsOK DEF LedgerRecorded
    <3> QED
      BY <1>2, <2>1, <2>3, <2>5, <3>1, LedgerRange DEF LedgerRecorded, LedgerInv
  <2>6. pcLedger[q] \in {"enable", "open"} => LedgerKept("marker")'
    BY <1>2, <2>1, LedgerNames DEF LedgerRecorded
  <2>7. pcLedger[q] \in {"undo", "undone"}
          => next \in LedgerRecords /\ LedgerKept(IntentOf[next])'
    BY <1>2, <2>1, LedgerNames DEF LedgerRecorded
  <2> QED
    BY <1>0, <2>1, <2>4, <2>5, <2>6, <2>7 DEF LedgerRecorded
<1>8. LedgerSender(q)'
  BY <1>0, <1>1 DEF LedgerProcess, LedgerSender
<1>9. Sourced(q)'
  BY <1>0, LedgerSealedStays DEF LedgerProcess, Sourced
<1>10. LedgerChained(q)'
  BY <1>0, LedgerReadyStays DEF LedgerProcess, LedgerChained, Readied
<1> QED
  BY <1>4, <1>5, <1>6, <1>7, <1>8, <1>9, <1>10 DEF LedgerProcess

LEMMA AloneStays ==
    ASSUME LedgerInv, NEW p \in Procs, LedgerFrame(p),
           Live(p)' => (Live(p) \/ \A q \in Procs : ~Live(q))
    PROVE  LedgerAlone'
<1>1. \A q \in Procs \ {p} : Live(q)' = Live(q)
  BY DEF LedgerFrame, LedgerActs, Live
<1> QED
  BY <1>1 DEF LedgerInv, LedgerAlone

(* What a step leaves of the world: nothing is sent or opened, and no file *)
(* of the evidence is begun.                                               *)
LEMMA LedgerSoleStays ==
    ASSUME LedgerInv, NEW p \in Procs, LedgerGrows(p), sent' = sent
    PROVE  Sole'
<1>1. Sole /\ sent \subseteq Procs \X LedgerRecords
  BY DEF LedgerInv, LedgerWorld, LedgerShapes
<1>2. sent # {} => LedgerKept("dir")'
  BY <1>1, LedgerKeptStays, LedgerNames DEF Sole
<1>3. ASSUME NEW x \in sent PROVE LedgerKept(IntentOf[x[2]])'
  <2>1. x[2] \in LedgerRecords
    BY <1>1
  <2> QED
    BY <1>1, <2>1, LedgerKeptStays, LedgerNames DEF Sole
<1> QED
  BY <1>1, <1>2, <1>3 DEF Sole

LEMMA LedgerOpenedStays ==
    ASSUME LedgerInv, NEW p \in Procs, LedgerGrows(p), net' = net,
           LedgerKept("marker") => LedgerKept("marker")'
    PROVE  Opened'
  BY LedgerKeptStays, LedgerNames DEF LedgerInv, LedgerWorld, Opened

LEMMA LedgerSourceStays ==
    ASSUME LedgerInv, NEW p \in Procs, LedgerGrows(p),
           view'["source"] # "none" => view["source"] # "none"
    PROVE  Source'
  BY LedgerSealedStays DEF LedgerInv, LedgerWorld, Source

LEMMA LedgerChainStays ==
    ASSUME LedgerInv, NEW p \in Procs, LedgerGrows(p), power' = power,
           \A f \in Ledger!Written : view'[f] # "none" => view[f] # "none",
           status' = "complete" => status = "complete"
    PROVE  Chain'
<1> SUFFICES ASSUME ~power PROVE Chain'
  BY DEF Chain
<1>1. Chain
  BY DEF LedgerInv, LedgerWorld
<1>2. ASSUME NEW f \in Ledger!Written, view'[f] # "none"
      PROVE \A g \in Ready(f) : view'[g] = "full"
  BY <1>1, <1>2, LedgerReadyStays DEF Chain
<1>3. status' = "complete" => view'["bundle"] = "full"
  BY <1>1, LedgerNames DEF Chain, LedgerGrows
<1> QED
  BY <1>2, <1>3 DEF Chain, Readied

(* A step that leaves the files as they are.                               *)
LedgerStill == view' = view /\ safe' = safe

LEMMA LedgerStillGrows == ASSUME LedgerStill, NEW p \in Procs PROVE LedgerGrows(p)
  BY DEF LedgerStill, LedgerGrows

LEMMA LedgerStillWorld ==
    ASSUME LedgerInv, NEW p \in Procs, LedgerStill, power' = power, sent' = sent,
           net' = net,
           status' = "complete" => status = "complete"
    PROVE  LedgerWorld'
<1>1. LedgerGrows(p)
  BY LedgerStillGrows
<1> QED
  BY <1>1, LedgerSoleStays, LedgerOpenedStays, LedgerSourceStays, LedgerChainStays
     DEF LedgerWorld, LedgerStill, LedgerKept

(* A step that begins a file which is not there.                           *)
LedgerBegan(f) == /\ view[f] = "none" /\ view' = [view EXCEPT ![f] = "torn"] /\ safe' = safe

LEMMA LedgerBeginIs ==
    ASSUME LedgerInv, NEW p \in Procs, NEW f \in Ledger!Files, NEW l \in LedgerLabels,
           Ledger!Begin(p, f, l)
    PROVE  /\ LedgerBegan(f)
           /\ pcLedger' = [pcLedger EXCEPT ![p] = "write"] /\ pcLedger'[p] = "write"
           /\ atLedger' = [atLedger EXCEPT ![p] = [file |-> f, then |-> l]]
           /\ File(p)' = f /\ Then(p)' = l /\ Busy(p)' /\ Goal(p)' = l
           /\ pcLedger' \in [Procs -> LedgerLabels]
           /\ atLedger' \in [Procs -> LedgerSpots]
           /\ \A q \in Procs \ {p} : pcLedger'[q] = pcLedger[q] /\ atLedger'[q] = atLedger[q]
  BY DEF Ledger!Begin, LedgerBegan, Ledger!Go, LedgerInv, LedgerShapes, File, Then,
         Busy, Goal, LedgerLabels, LedgerSpots

LEMMA LedgerBeganGrows ==
    ASSUME LedgerInv, NEW p \in Procs, NEW f \in Ledger!Files, LedgerBegan(f),
           f = "marker" => Live(p)
    PROVE  /\ LedgerGrows(p) /\ view'[f] = "torn"
             /\ view' \in [Ledger!Files -> {"none", "torn", "full"}]
           /\ \A g \in Ledger!Files \ {f} : view'[g] = view[g]
           /\ LedgerKept("marker") => LedgerKept("marker")'
<1>1. /\ view'[f] = "torn" /\ view' \in [Ledger!Files -> {"none", "torn", "full"}]
      /\ \A g \in Ledger!Files \ {f} : view'[g] = view[g]
  BY DEF LedgerBegan, LedgerInv, LedgerShapes
<1> QED
  BY <1>1, LedgerNames DEF LedgerBegan, LedgerGrows, LedgerKept

LEMMA LedgerBeganWorld ==
    ASSUME LedgerInv, NEW p \in Procs, NEW f \in Ledger!Files \ Ledger!Written,
           LedgerBegan(f), f = "marker" => Live(p),
           power' = power, sent' = sent, net' = net,
           status' = "complete" => status = "complete"
    PROVE  LedgerWorld'
<1>1. LedgerGrows(p) /\ (\A g \in Ledger!Files \ {f} : view'[g] = view[g])
        /\ (LedgerKept("marker")
      => LedgerKept("marker")')
  BY LedgerBeganGrows
<1>2. \A g \in Ledger!Written : view'[g] = view[g]
  BY <1>1, LedgerNames
<1> QED
  BY <1>1, <1>2, LedgerNames, LedgerSoleStays, LedgerOpenedStays, LedgerSourceStays,
  LedgerChainStays
     DEF LedgerWorld

LEMMA LedgerWhole ==
    ASSUME LedgerInv, NEW p \in Procs, LedgerFrame(p), LedgerShapes',
           LedgerProcess(p)', LedgerWorld',
           Live(p)' => (Live(p) \/ \A q \in Procs : ~Live(q))
    PROVE  LedgerInv'
<1>1. \A q \in Procs : LedgerProcess(q)'
  BY LedgerOthersStay
<1> QED
  BY <1>1, AloneStays DEF LedgerInv

(***************************************************************************)
(* One execution                                                           *)
(***************************************************************************)

LEMMA LedgerApplyKeeps ==
    ASSUME LedgerInv, NEW p \in Procs, Ledger!Apply(p)
    PROVE  LedgerInv'
<1>0. /\ pcLedger[p] = "idle" /\ mode' = [mode EXCEPT ![p] = "apply"] /\ mode'[p] = "apply"
      /\ UNCHANGED <<safe, atLedger, Ledger!world, power, faultsLedger>> /\ Ledger!Mkdir(p)
           /\ LedgerShapes /\ ~Live(p)
  BY DEF Ledger!Apply, LedgerInv, LedgerShapes, Live, LedgerProcess, LedgerModeOf
<1>1. CASE view["dir"] = "none" /\ view' = [view EXCEPT !["dir"] = "full"]
           /\ Ledger!Go(p, "parent")
  <2>1. pcLedger'[p] = "parent" /\ Live(p)' /\ ~Busy(p)' /\ Goal(p)' = "parent" /\ LedgerActs(p)
    BY <1>0, <1>1 DEF Ledger!Go, Live, Busy, Goal, LedgerActs, LedgerShapes
  <2>2. LedgerShapes'
    BY <1>0, <1>1, LedgerNames
       DEF LedgerShapes, Ledger!world, Ledger!Go, LedgerLabels, LedgerCalls
  <2>3. view'["dir"] = "full" /\ \A f \in Ledger!Files \ {"dir"} : view'[f] = view[f]
    BY <1>0, <1>1, LedgerNames DEF LedgerShapes
  <2>4. LedgerGrows(p) /\ LedgerFrame(p)
    BY <1>0, <2>1, <2>3, LedgerNames DEF LedgerGrows, LedgerFrame, Ledger!world
  <2>5. ~LedgerKept("dir") /\ sent = {}
    BY <1>1 DEF LedgerKept, LedgerInv, LedgerWorld, Sole
  <2>6. \A q \in Procs : ~Live(q)
    BY <1>1 DEF LedgerInv, LedgerProcess, LedgerMadeBy
  <2>7. LedgerProcess(p)'
    BY <1>0, <2>1, <2>3, <2>5 DEF LedgerProcess, LedgerModeOf, LedgerMadeBy,
                                  LedgerWriting, LedgerRecorded, LedgerSender, Sourced,
       LedgerChained, LedgerSteps, Ledger!world, LedgerCalls
  <2>8. LedgerWorld'
    <3>1. \A f \in Ledger!Written : view'[f] = view[f]
      BY <2>3, LedgerNames
    <3>2. LedgerKept("marker") => LedgerKept("marker")'
      BY <1>0, <2>3, LedgerNames DEF LedgerKept
    <3> QED
      BY <1>0, <2>4, <3>1, <3>2, LedgerNames, LedgerSoleStays, LedgerOpenedStays,
      LedgerSourceStays, LedgerChainStays
         DEF LedgerWorld, Ledger!world
  <2> QED
    BY <2>2, <2>4, <2>6, <2>7, <2>8, LedgerWhole
<1>2. CASE view["dir"] # "none" /\ UNCHANGED view /\ Ledger!Go(p, "failed")
  <2>1. pcLedger'[p] = "failed" /\ ~Live(p)' /\ ~Busy(p)' /\ LedgerActs(p) /\ LedgerStill
    BY <1>0, <1>2 DEF Ledger!Go, Live, Busy, LedgerActs, LedgerShapes, LedgerStill
  <2>2. LedgerShapes'
    BY <1>0, <1>2 DEF LedgerShapes, Ledger!world, Ledger!Go, LedgerLabels
  <2>3. LedgerFrame(p)
    BY <1>0, <2>1, LedgerStillGrows DEF LedgerFrame, Ledger!world
  <2>4. LedgerProcess(p)'
    BY <1>0, <2>1 DEF LedgerProcess, LedgerModeOf, LedgerMadeBy, LedgerWriting,
                      LedgerRecorded, LedgerSender, Sourced, LedgerChained,
                      LedgerSteps, LedgerCalls
  <2>5. LedgerWorld'
    BY <1>0, <2>1, LedgerStillWorld DEF Ledger!world
  <2> QED
    BY <2>1, <2>2, <2>3, <2>4, <2>5, LedgerWhole
<1> QED
  BY <1>0, <1>1, <1>2 DEF Ledger!Mkdir

LEMMA LedgerParentKeeps ==
    ASSUME LedgerInv, NEW p \in Procs, Ledger!Parent(p)
    PROVE  LedgerInv'
<1>0. /\ pcLedger[p] = "parent" /\ pcLedger' = [pcLedger EXCEPT ![p] = "claim"]
           /\ pcLedger'[p] = "claim"
      /\ next' = 1 /\ status' = "none" /\ safe' = safe \union {"dir"}
      /\ UNCHANGED <<view, mode, atLedger, sent, net, admitted, power, faultsLedger>>
           /\ LedgerShapes
      /\ mode[p] = "apply" /\ Live(p) /\ Live(p)' /\ ~Busy(p)' /\ Goal(p)' = "claim"
      /\ LedgerActs(p) /\ LedgerProcess(p)
  BY DEF Ledger!Parent, Ledger!Go, LedgerInv, LedgerShapes, Live, Busy, Goal,
         LedgerActs, LedgerProcess, LedgerModeOf, LedgerCalls
<1>1. LedgerShapes'
  BY <1>0, ExecutorsOK, LedgerNames DEF LedgerShapes, LedgerLabels, LedgerCalls
<1>2. LedgerGrows(p) /\ LedgerFrame(p)
  BY <1>0 DEF LedgerGrows, LedgerFrame
<1>3. LedgerProcess(p)'
  BY <1>0 DEF LedgerProcess, LedgerModeOf, LedgerMadeBy, LedgerWriting, LedgerRecorded,
              LedgerSender, Sourced, LedgerChained, LedgerSteps, LedgerCalls
<1>4. LedgerWorld'
  BY <1>0, <1>2, LedgerSoleStays, LedgerOpenedStays, LedgerSourceStays, LedgerChainStays
     DEF LedgerWorld, LedgerKept
<1> QED
  BY <1>0, <1>1, <1>2, <1>3, <1>4, LedgerWhole

LEMMA LedgerBegins ==
    ASSUME LedgerInv, NEW p \in Procs, NEW f \in Ledger!Files, NEW l \in LedgerLabels,
           Ledger!Begin(p, f, l),
           f = "marker" => Live(p), mode' = mode, power' = power,
           Live(p) \/ (next' = next /\ sent' = sent)
    PROVE  /\ LedgerFrame(p) /\ LedgerBegan(f) /\ safe' = safe /\ view'[f] = "torn"
           /\ \A g \in Ledger!Files \ {f} : view'[g] = view[g]
           /\ pcLedger'[p] = "write" /\ Busy(p)' /\ File(p)' = f /\ Then(p)' = l /\ Goal(p)' = l
           /\ Live(p)' <=> mode[p] = "apply"
           /\ view' \in [Ledger!Files -> {"none", "torn", "full"}]
                /\ pcLedger' \in [Procs -> LedgerLabels]
           /\ atLedger' \in [Procs -> LedgerSpots]
<1>1. /\ LedgerBegan(f) /\ pcLedger'[p] = "write"
      /\ File(p)' = f /\ Then(p)' = l /\ Busy(p)' /\ Goal(p)' = l
      /\ pcLedger' \in [Procs -> LedgerLabels]
      /\ atLedger' \in [Procs -> LedgerSpots]
      /\ \A q \in Procs \ {p} : pcLedger'[q] = pcLedger[q] /\ atLedger'[q] = atLedger[q]
  BY LedgerBeginIs
<1>2. /\ LedgerGrows(p) /\ view'[f] = "torn"
           /\ view' \in [Ledger!Files -> {"none", "torn", "full"}]
      /\ \A g \in Ledger!Files \ {f} : view'[g] = view[g]
  BY <1>1, LedgerBeganGrows
<1> QED
  BY <1>1, <1>2 DEF LedgerFrame, LedgerActs, Live, LedgerBegan

LEMMA LedgerClaimKeeps ==
    ASSUME LedgerInv, NEW p \in Procs, Ledger!Claim(p)
    PROVE  LedgerInv'
<1>0. /\ pcLedger[p] = "claim" /\ Ledger!Begin(p, "state", "run")
           /\ UNCHANGED <<mode, Ledger!world, power, faultsLedger>>
      /\ mode[p] = "apply" /\ Live(p) /\ LedgerShapes /\ LedgerProcess(p)
  BY DEF Ledger!Claim, LedgerInv, LedgerShapes, Live, LedgerProcess, LedgerModeOf,
         LedgerCalls
<1>1. /\ LedgerFrame(p) /\ LedgerBegan("state") /\ safe' = safe /\ view'["state"] = "torn"
      /\ \A g \in Ledger!Files \ {"state"} : view'[g] = view[g]
      /\ pcLedger'[p] = "write" /\ Busy(p)' /\ File(p)' = "state" /\ Then(p)' = "run"
           /\ Goal(p)' = "run"
      /\ Live(p)'
      /\ view' \in [Ledger!Files -> {"none", "torn", "full"}]
           /\ pcLedger' \in [Procs -> LedgerLabels]
      /\ atLedger' \in [Procs -> LedgerSpots]
  BY <1>0, LedgerBegins, LedgerNames DEF LedgerLabels, LedgerCalls
<1>2. LedgerShapes'
  BY <1>0, <1>1 DEF LedgerShapes, Ledger!world
<1>3. LedgerProcess(p)'
  BY <1>0, <1>1, LedgerNames DEF LedgerProcess, LedgerModeOf, LedgerMadeBy,
                                 LedgerWriting, LedgerRecorded, LedgerSender, Sourced,
     LedgerChained, LedgerSteps, LedgerCalls, Ledger!world
<1>4. LedgerWorld'
  BY <1>0, <1>1, LedgerNames, LedgerBeganWorld DEF Ledger!world
<1> QED
  BY <1>0, <1>1, <1>2, <1>3, <1>4, LedgerWhole

LEMMA LedgerIntentKeeps ==
    ASSUME LedgerInv, NEW p \in Procs, Ledger!Intent(p)
    PROVE  LedgerInv'
<1> DEFINE f == IntentOf[next]
<1>0. /\ pcLedger[p] = "run" /\ next <= MaxMutations /\ Ledger!Begin(p, f, "send")
      /\ UNCHANGED <<mode, Ledger!world, power, faultsLedger>> /\ next \in 1..MaxMutations
      /\ mode[p] = "apply" /\ Live(p) /\ ~Busy(p) /\ Goal(p) = "run" /\ LedgerShapes
           /\ LedgerProcess(p)
      /\ f \in Ledger!Files \ Ledger!Written
           /\ f \notin {"none", "dir", "state", "marker", "terminal"}
  BY LedgerNames, ExecutorsOK DEF Ledger!Intent, LedgerInv, LedgerShapes, Live, Busy,
                                  Goal, LedgerProcess, LedgerModeOf, LedgerCalls
<1>1. /\ LedgerFrame(p) /\ LedgerBegan(f) /\ safe' = safe /\ view'[f] = "torn"
      /\ \A g \in Ledger!Files \ {f} : view'[g] = view[g]
      /\ pcLedger'[p] = "write" /\ Busy(p)' /\ File(p)' = f /\ Then(p)' = "send"
           /\ Goal(p)' = "send"
      /\ Live(p)'
      /\ view' \in [Ledger!Files -> {"none", "torn", "full"}]
           /\ pcLedger' \in [Procs -> LedgerLabels]
      /\ atLedger' \in [Procs -> LedgerSpots]
  <2> HIDE DEF f
  <2> QED
    BY <1>0, LedgerBegins DEF LedgerLabels, LedgerCalls
<1>2. LedgerShapes'
  BY <1>0, <1>1 DEF LedgerShapes, Ledger!world
<1>3. LedgerRecorded(p)'
  <2>1. ASSUME NEW m \in 1..(next - 1)
        PROVE LedgerKept(IntentOf[m])' /\ LedgerKept(ResultOf[m])'
    <3>1. LedgerKept(IntentOf[m]) /\ LedgerKept(ResultOf[m])
      BY <1>0 DEF LedgerProcess, LedgerRecorded
    <3>2. m \in LedgerRecords
      BY <1>0, LedgerRange
    <3> QED
      BY <1>1, <3>1, <3>2, LedgerNames, LedgerKeptStays DEF LedgerFrame
  <2> QED
    BY <1>0, <1>1, <2>1 DEF LedgerRecorded, Ledger!world
<1>4. LedgerProcess(p)'
  BY <1>0, <1>1, <1>3, LedgerNames
     DEF LedgerProcess, LedgerModeOf, LedgerMadeBy, LedgerWriting, LedgerSender,
         Sourced,
     LedgerChained, LedgerSteps, LedgerCalls, Ledger!world
<1>5. LedgerWorld'
  <2> HIDE DEF f
  <2> QED
    BY <1>0, <1>1, LedgerNames, LedgerBeganWorld DEF Ledger!world
<1> QED
  BY <1>0, <1>1, <1>2, <1>4, <1>5, LedgerWhole

LEMMA LedgerSendKeeps ==
    ASSUME LedgerInv, NEW p \in Procs, Ledger!Send(p)
    PROVE  LedgerInv'
<1>0. /\ pcLedger[p] \in {"send", "undo"} /\ sent' = sent \union {<<p, next>>}
      /\ UNCHANGED <<view, safe, mode, atLedger, next, net, status, admitted, power>>
      /\ pcLedger' = [pcLedger EXCEPT ![p] = pcLedger'[p]]
           /\ pcLedger'[p] \in {"answered", "undone", "raised"}
      /\ pcLedger'[p] = "answered" => pcLedger[p] = "send"
      /\ faultsLedger' \in 0 .. MaxTroubles
      /\ mode[p] = "apply" /\ Live(p) /\ ~Busy(p) /\ Goal(p) = pcLedger[p] /\ LedgerShapes
           /\ LedgerProcess(p)
  BY ExecutorsOK DEF Ledger!Send, Ledger!Go, Ledger!Fault, LedgerInv, LedgerShapes,
                     Live, Busy, Goal, LedgerProcess, LedgerModeOf, LedgerCalls
<1>1. /\ next \in LedgerRecords /\ LedgerKept(IntentOf[next])
      /\ pcLedger'[p] = "answered" => next <= MaxMutations
      /\ LedgerKept("dir") /\ \A x \in sent : x[1] = p
  <2>1. pcLedger[p] = "send" => next <= MaxMutations /\ next \in LedgerRecords
    BY <1>0, ExecutorsOK DEF LedgerProcess, LedgerRecorded, LedgerShapes, LedgerRecords
  <2> QED
    BY <1>0, <2>1 DEF LedgerProcess, LedgerRecorded, LedgerMadeBy, LedgerSender, LedgerKept
<1>2. /\ Live(p)' /\ ~Busy(p)' /\ Goal(p)' = pcLedger'[p] /\ LedgerActs(p) /\ LedgerStill
      /\ \A f \in Ledger!Files : LedgerKept(f)' = LedgerKept(f)
  BY <1>0 DEF Live, Busy, Goal, LedgerActs, LedgerStill, LedgerShapes, LedgerKept
<1>3. LedgerShapes' /\ LedgerFrame(p)
  BY <1>0, <1>1, <1>2, LedgerStillGrows
     DEF LedgerShapes, LedgerLabels, LedgerCalls, LedgerFrame
<1>4. LedgerRecorded(p)'
  <2>1. \A m \in LedgerRecords : IntentOf[m] \in Ledger!Files /\ ResultOf[m] \in Ledger!Files
    BY LedgerNames
  <2> QED
    BY <1>0, <1>1, <1>2, <2>1 DEF LedgerProcess, LedgerRecorded, LedgerKept
<1>5. LedgerProcess(p)'
  BY <1>0, <1>1, <1>2, <1>4 DEF LedgerProcess, LedgerModeOf, LedgerMadeBy,
                                LedgerWriting, LedgerSender, Sourced, LedgerChained,
                                LedgerSteps, LedgerCalls
<1>6. Sole'
  <2>1. \A x \in sent' : x \in sent \/ x = <<p, next>>
    BY <1>0
  <2>2. \A x \in sent' : x[1] = p
    BY <1>1, <2>1
  <2>3. \A x \in sent' : LedgerKept(IntentOf[x[2]])
    BY <1>1, <2>1 DEF LedgerInv, LedgerWorld, Sole
  <2> QED
    BY <1>0, <1>1, <2>2, <2>3 DEF Sole, LedgerKept
<1>7. LedgerWorld'
  BY <1>0, <1>2, <1>6, LedgerStillGrows, LedgerOpenedStays, LedgerSourceStays,
  LedgerChainStays
     DEF LedgerWorld, LedgerKept
<1> QED
  BY <1>0, <1>2, <1>3, <1>5, <1>7, LedgerWhole

LEMMA LedgerRecordedKeeps ==
    ASSUME LedgerInv, NEW p \in Procs, Ledger!Answered(p), pcLedger[p] = "answered"
    PROVE  LedgerInv'
<1> DEFINE f == ResultOf[next]
<1>0. /\ pcLedger[p] = "answered" /\ Ledger!Begin(p, f, "run") /\ next' = next + 1
      /\ UNCHANGED <<mode, sent, net, status, admitted, power, faultsLedger>>
      /\ mode[p] = "apply" /\ Live(p) /\ ~Busy(p) /\ Goal(p) = "answered" /\ LedgerShapes
           /\ LedgerProcess(p)
  BY DEF Ledger!Answered, LedgerInv, LedgerShapes, Live, Busy, Goal, LedgerProcess,
         LedgerModeOf, LedgerCalls
<1>1. next \in 1..MaxMutations /\ LedgerKept(IntentOf[next])
  BY <1>0 DEF LedgerProcess, LedgerRecorded, LedgerShapes
<1>2. f \in Ledger!Files \ Ledger!Written
        /\ f \notin {"none", "dir", "state", "marker", "terminal"}
  BY <1>1, LedgerNames
<1>3. /\ LedgerFrame(p) /\ LedgerBegan(f) /\ safe' = safe /\ view'[f] = "torn"
      /\ \A g \in Ledger!Files \ {f} : view'[g] = view[g]
      /\ pcLedger'[p] = "write" /\ Busy(p)' /\ File(p)' = f /\ Then(p)' = "run"
           /\ Goal(p)' = "run"
      /\ Live(p)'
      /\ view' \in [Ledger!Files -> {"none", "torn", "full"}]
           /\ pcLedger' \in [Procs -> LedgerLabels]
      /\ atLedger' \in [Procs -> LedgerSpots]
  <2> HIDE DEF f
  <2> QED
    BY <1>0, <1>2, LedgerBegins DEF LedgerLabels, LedgerCalls
<1>4. LedgerShapes'
  <2>1. next' \in 1..(MaxMutations + MaxUndone + 1)
    BY <1>0, <1>1, ExecutorsOK
  <2> QED
    BY <1>0, <1>3, <2>1 DEF LedgerShapes
<1>5. LedgerRecorded(p)'
  <2>1. ASSUME NEW m \in 1..next
        PROVE  LedgerKept(IntentOf[m])' /\ (LedgerKept(ResultOf[m])' \/ m = next)
    <3>1. LedgerKept(IntentOf[m]) /\ (LedgerKept(ResultOf[m]) \/ m = next)
      BY <1>0, <1>1 DEF LedgerProcess, LedgerRecorded
    <3>2. m \in LedgerRecords
      BY <1>1, ExecutorsOK DEF LedgerRecords
    <3> QED
      BY <1>3, <3>1, <3>2, LedgerNames, LedgerKeptStays DEF LedgerFrame
  <2>2. next' - 1 = next
    BY <1>0, <1>1
  <2> QED
    BY <1>3, <2>1, <2>2 DEF LedgerRecorded
<1>6. LedgerProcess(p)'
  <2>1. next' > 1 /\ f = ResultOf[next' - 1]
    BY <1>0, <1>1
  <2> HIDE DEF f
  <2> QED
    BY <1>0, <1>2, <1>3, <1>5, <2>1, LedgerNames
       DEF LedgerProcess, LedgerModeOf, LedgerMadeBy, LedgerWriting, LedgerSender,
           Sourced,
       LedgerChained, LedgerSteps, LedgerCalls
<1>7. LedgerWorld'
  <2> HIDE DEF f
  <2> QED
    BY <1>0, <1>2, <1>3, LedgerBeganWorld
<1> QED
  BY <1>0, <1>3, <1>4, <1>6, <1>7, LedgerWhole

(* A record of the compensation is begun, its intent or its result.        *)
LEMMA LedgerUndoes ==
    ASSUME LedgerInv, NEW p \in Procs, NEW u \in LedgerRecords, NEW f, NEW l,
           \/ f = IntentOf[u] /\ l = "undo"
           \/ f = ResultOf[u] /\ l = "raised",
           Live(p), pcLedger[p] \in LedgerCalls \ {"parent"},
           Ledger!Begin(p, f, l), next' = u,
           UNCHANGED <<mode, sent, net, status, admitted, power, faultsLedger>>
    PROVE  LedgerInv'
<1>0. /\ LedgerShapes /\ LedgerProcess(p) /\ mode[p] = "apply"
      /\ f \in Ledger!Files \ Ledger!Written
      /\ f \notin {"none", "dir", "state", "marker", "terminal"}
      /\ l \in {"undo", "raised"} /\ l \in LedgerLabels
  BY LedgerNames DEF LedgerInv, LedgerLabels, LedgerCalls, Live
<1>1. /\ LedgerFrame(p) /\ LedgerBegan(f) /\ safe' = safe /\ view'[f] = "torn"
      /\ \A g \in Ledger!Files \ {f} : view'[g] = view[g]
      /\ pcLedger'[p] = "write" /\ Busy(p)' /\ File(p)' = f /\ Then(p)' = l
      /\ Goal(p)' = l /\ Live(p)'
      /\ view' \in [Ledger!Files -> {"none", "torn", "full"}]
           /\ pcLedger' \in [Procs -> LedgerLabels]
      /\ atLedger' \in [Procs -> LedgerSpots]
  BY <1>0, LedgerBegins
<1>2. LedgerShapes'
  <2>1. next' \in 1..(MaxMutations + MaxUndone + 1)
    BY ExecutorsOK DEF LedgerRecords
  <2> QED
    BY <1>0, <1>1, <2>1 DEF LedgerShapes
<1>3. LedgerWriting(p)'
  <2>1. view'[f] # "none" /\ pcLedger'[p] # "sync" /\ next' \in LedgerRecords
    BY <1>1
  <2>2. (f = IntentOf[next'] /\ l = "undo") \/ (f = ResultOf[next'] /\ l = "raised")
    OBVIOUS
  <2> QED
    BY <1>1, <2>1, <2>2 DEF LedgerWriting
<1>4. LedgerProcess(p)'
  BY <1>0, <1>1, <1>3, LedgerNames
     DEF LedgerProcess, LedgerModeOf, LedgerMadeBy, LedgerRecorded, LedgerSender,
         Sourced, LedgerChained, LedgerSteps, LedgerCalls
<1>5. LedgerWorld'
  BY <1>0, <1>1, LedgerBeganWorld
<1> QED
  BY <1>1, <1>2, <1>4, <1>5, LedgerWhole

LEMMA LedgerAnsweredKeeps ==
    ASSUME LedgerInv, NEW p \in Procs, Ledger!Answered(p)
    PROVE  LedgerInv'
<1>1. CASE pcLedger[p] = "answered"
  BY <1>1, LedgerRecordedKeeps
<1>2. CASE pcLedger[p] # "answered"
  <2>1. /\ pcLedger[p] = "undone" /\ Ledger!Begin(p, ResultOf[next], "raised")
        /\ next' = next
        /\ UNCHANGED <<mode, sent, net, status, admitted, power, faultsLedger>>
    BY <1>2 DEF Ledger!Answered
  <2>2. Live(p) /\ next \in LedgerRecords
    BY <2>1 DEF LedgerInv, LedgerProcess, LedgerModeOf, LedgerRecorded, LedgerCalls, Live
  <2> QED
    BY <2>1, <2>2, LedgerUndoes DEF LedgerCalls
<1> QED
  BY <1>1, <1>2

LEMMA LedgerUndoKeeps ==
    ASSUME LedgerInv, NEW p \in Procs, Ledger!Undo(p)
    PROVE  LedgerInv'
<1>1. PICK u \in Ledger!Undoing : Ledger!Begin(p, IntentOf[u], "undo") /\ next' = u
  BY DEF Ledger!Undo
<1>2. /\ pcLedger[p] = "raised" /\ u \in LedgerRecords
      /\ UNCHANGED <<mode, sent, net, status, admitted, power, faultsLedger>>
  BY LedgerNames DEF Ledger!Undo
<1>3. Live(p)
  BY <1>2 DEF LedgerInv, LedgerProcess, LedgerModeOf, LedgerCalls, Live
<1> QED
  BY <1>1, <1>2, <1>3, LedgerUndoes DEF LedgerCalls

LEMMA LedgerMarkKeeps ==
    ASSUME LedgerInv, NEW p \in Procs, Ledger!Mark(p)
    PROVE  LedgerInv'
<1>0. /\ pcLedger[p] = "run" /\ Ledger!Begin(p, "marker", "enable")
           /\ UNCHANGED <<mode, Ledger!world, power, faultsLedger>>
      /\ mode[p] = "apply" /\ Live(p) /\ ~Busy(p) /\ Goal(p) = "run" /\ LedgerShapes
           /\ LedgerProcess(p)
  BY DEF Ledger!Mark, LedgerInv, LedgerShapes, Live, Busy, Goal, LedgerProcess,
         LedgerModeOf, LedgerCalls
<1>1. /\ LedgerFrame(p) /\ LedgerBegan("marker") /\ safe' = safe /\ view'["marker"] = "torn"
      /\ \A g \in Ledger!Files \ {"marker"} : view'[g] = view[g]
      /\ pcLedger'[p] = "write" /\ Busy(p)' /\ File(p)' = "marker" /\ Then(p)' = "enable"
      /\ Goal(p)' = "enable" /\ Live(p)'
      /\ view' \in [Ledger!Files -> {"none", "torn", "full"}]
           /\ pcLedger' \in [Procs -> LedgerLabels]
      /\ atLedger' \in [Procs -> LedgerSpots]
  BY <1>0, LedgerBegins, LedgerNames DEF LedgerLabels, LedgerCalls
<1>2. LedgerShapes'
  BY <1>0, <1>1 DEF LedgerShapes, Ledger!world
<1>3. LedgerRecorded(p)'
  <2>1. ASSUME NEW m \in 1..(next - 1)
        PROVE LedgerKept(IntentOf[m])' /\ LedgerKept(ResultOf[m])'
    <3>1. LedgerKept(IntentOf[m]) /\ LedgerKept(ResultOf[m])
      BY <1>0 DEF LedgerProcess, LedgerRecorded
    <3>2. m \in LedgerRecords
      BY <1>0, LedgerRange
    <3> QED
      BY <1>1, <3>1, <3>2, LedgerNames, LedgerKeptStays DEF LedgerFrame
  <2> QED
    BY <1>0, <1>1, <2>1 DEF LedgerRecorded, Ledger!world
<1>4. LedgerProcess(p)'
  BY <1>0, <1>1, <1>3, LedgerNames
     DEF LedgerProcess, LedgerModeOf, LedgerMadeBy, LedgerWriting, LedgerSender,
         Sourced,
     LedgerChained, LedgerSteps, LedgerCalls, Ledger!world
<1>5. LedgerWorld'
  BY <1>0, <1>1, LedgerNames, LedgerBeganWorld DEF Ledger!world
<1> QED
  BY <1>0, <1>1, <1>2, <1>4, <1>5, LedgerWhole

(* A living process goes on without a file.                                *)
LEMMA LedgerRecordedStays ==
    ASSUME LedgerInv, NEW p \in Procs, Live(p), Goal(p) = "run", ~Busy(p),
           LedgerGrows(p), next' = next
    PROVE  \A m \in 1..(next - 1) : LedgerKept(IntentOf[m])' /\ LedgerKept(ResultOf[m])'
<1> SUFFICES ASSUME NEW m \in 1..(next - 1)
PROVE LedgerKept(IntentOf[m])' /\ LedgerKept(ResultOf[m])'
  BY DEF LedgerKept
<1>1. LedgerKept(IntentOf[m]) /\ LedgerKept(ResultOf[m])
  BY DEF LedgerInv, LedgerProcess, LedgerRecorded
<1>2. m \in LedgerRecords
  BY LedgerRange DEF LedgerInv
<1> QED
  BY <1>1, <1>2, LedgerNames, LedgerKeptStays

LEMMA LedgerEnableKeeps ==
    ASSUME LedgerInv, NEW p \in Procs, Ledger!Enable(p)
    PROVE  LedgerInv'
<1>0. /\ pcLedger[p] = "enable" /\ net' = "open"
      /\ UNCHANGED <<view, safe, mode, atLedger, sent, next, status, admitted, power>>
      /\ pcLedger' = [pcLedger EXCEPT ![p] = pcLedger'[p]]
           /\ pcLedger'[p] \in {"open", "raised"}
      /\ faultsLedger' \in 0 .. MaxTroubles
      /\ mode[p] = "apply" /\ Live(p) /\ ~Busy(p) /\ Goal(p) = "enable" /\ LedgerShapes
           /\ LedgerProcess(p)
  BY ExecutorsOK DEF Ledger!Enable, Ledger!Go, Ledger!Fault, LedgerInv, LedgerShapes,
                     Live, Busy, Goal, LedgerProcess, LedgerModeOf, LedgerCalls
<1>1. LedgerKept("marker") /\ LedgerKept("dir")
  BY <1>0 DEF LedgerProcess, LedgerRecorded, LedgerMadeBy, LedgerKept
<1>2. /\ Live(p)' /\ ~Busy(p)' /\ Goal(p)' = pcLedger'[p] /\ LedgerActs(p) /\ LedgerStill
  BY <1>0 DEF Live, Busy, Goal, LedgerActs, LedgerStill, LedgerShapes
<1>3. LedgerShapes' /\ LedgerFrame(p)
  BY <1>0, <1>1, <1>2, LedgerStillGrows
     DEF LedgerShapes, LedgerLabels, LedgerCalls, LedgerFrame
<1>4. LedgerRecorded(p)'
  <2>1. \A m \in LedgerRecords : IntentOf[m] \in Ledger!Files /\ ResultOf[m] \in Ledger!Files
    BY LedgerNames
  <2> QED
    BY <1>0, <1>1, <1>2, <2>1 DEF LedgerProcess, LedgerRecorded, LedgerKept
<1>5. LedgerProcess(p)'
  BY <1>0, <1>1, <1>2, <1>4 DEF LedgerProcess, LedgerModeOf, LedgerMadeBy,
                                LedgerWriting, LedgerSender, Sourced, LedgerChained,
                                LedgerSteps, LedgerCalls
<1>6. Opened'
  BY <1>0, <1>1 DEF Opened, LedgerKept
<1>7. LedgerWorld'
  BY <1>0, <1>2, <1>6, LedgerStillGrows, LedgerSoleStays, LedgerSourceStays,
  LedgerChainStays
     DEF LedgerWorld
<1> QED
  BY <1>0, <1>2, <1>3, <1>5, <1>7, LedgerWhole

LEMMA LedgerClearKeeps ==
    ASSUME LedgerInv, NEW p \in Procs, Ledger!Clear(p)
    PROVE  LedgerInv'
<1>0. /\ pcLedger[p] = "open"
           /\ UNCHANGED <<mode, atLedger, sent, next, status, admitted, power>>
      /\ mode[p] = "apply" /\ Live(p) /\ ~Busy(p) /\ Goal(p) = "open" /\ LedgerShapes
           /\ LedgerProcess(p)
      /\ pcLedger' = [pcLedger EXCEPT ![p] = pcLedger'[p]] /\ pcLedger'[p] \in {"run", "raised"}
      /\ net' \in {"open", "closed"} /\ faultsLedger' \in 0 .. MaxTroubles
  BY ExecutorsOK DEF Ledger!Clear, Ledger!Go, Ledger!Fault, LedgerInv, LedgerShapes,
                     Live, Busy, Goal, LedgerProcess, LedgerModeOf, LedgerCalls
<1>1. LedgerKept("marker") /\ LedgerKept("dir")
  BY <1>0 DEF LedgerProcess, LedgerRecorded, LedgerMadeBy, LedgerKept
<1>2. /\ view' \in [Ledger!Files -> {"none", "torn", "full"}] /\ safe' \subseteq Ledger!Files
      /\ \A f \in Ledger!Files \ {"marker"} : view'[f] = view[f] /\ (f \in safe' <=> f \in safe)
      /\ net' = "closed" \/ (view' = view /\ safe' = safe)
  BY <1>0 DEF Ledger!Clear, LedgerShapes
<1>3. /\ Live(p)' /\ ~Busy(p)' /\ Goal(p)' = pcLedger'[p] /\ LedgerActs(p)
  BY <1>0 DEF Live, Busy, Goal, LedgerActs, LedgerShapes
<1>4. LedgerShapes'
  BY <1>0, <1>2 DEF LedgerShapes, LedgerLabels, LedgerCalls
<1>5. LedgerGrows(p) /\ LedgerFrame(p)
  <2>1. safe \ {"marker"} \subseteq safe'
    BY <1>0, <1>2 DEF LedgerShapes
  <2> QED
    BY <1>0, <1>2, <1>3, <2>1 DEF LedgerFrame, LedgerGrows
<1>6. LedgerRecorded(p)'
  <2>1. ASSUME NEW m \in 1..(next - 1)
        PROVE LedgerKept(IntentOf[m])' /\ LedgerKept(ResultOf[m])'
    <3>1. LedgerKept(IntentOf[m]) /\ LedgerKept(ResultOf[m])
      BY <1>0 DEF LedgerProcess, LedgerRecorded
    <3>2. m \in LedgerRecords
      BY <1>0, LedgerRange
    <3> QED
      BY <1>5, <3>1, <3>2, LedgerNames, LedgerKeptStays
  <2> QED
    BY <1>0, <1>3, <2>1 DEF LedgerRecorded
<1>7. LedgerProcess(p)'
  BY <1>0, <1>1, <1>2, <1>3, <1>6, LedgerNames
     DEF LedgerProcess, LedgerModeOf, LedgerMadeBy, LedgerWriting, LedgerSender,
         Sourced,
     LedgerChained, LedgerSteps, LedgerCalls, LedgerKept
<1>8. Opened'
  BY <1>1, <1>2, LedgerNames DEF Opened, LedgerKept
<1>9. LedgerWorld'
  BY <1>0, <1>2, <1>5, <1>8, LedgerNames, LedgerSoleStays, LedgerSourceStays,
  LedgerChainStays
     DEF LedgerWorld
<1> QED
  BY <1>0, <1>3, <1>4, <1>5, <1>7, <1>9, LedgerWhole

LEMMA LedgerVerifiedKeeps ==
    ASSUME LedgerInv, NEW p \in Procs, Ledger!Verified(p)
    PROVE  LedgerInv'
<1>0. /\ pcLedger[p] = "run" /\ next > MaxMutations
      /\ UNCHANGED <<view, safe, mode, atLedger, Ledger!world, power, faultsLedger>>
      /\ mode[p] = "apply" /\ Live(p) /\ ~Busy(p) /\ Goal(p) = "run" /\ LedgerShapes
           /\ LedgerProcess(p)
      /\ pcLedger' = [pcLedger EXCEPT ![p] = pcLedger'[p]]
           /\ pcLedger'[p] \in {"source", "raised"}
  BY DEF Ledger!Verified, Ledger!Go, LedgerInv, LedgerShapes, Live, Busy, Goal,
         LedgerProcess, LedgerModeOf, LedgerCalls
<1>1. /\ Live(p)' /\ ~Busy(p)' /\ Goal(p)' = pcLedger'[p] /\ LedgerActs(p) /\ LedgerStill
  BY <1>0 DEF Live, Busy, Goal, LedgerActs, LedgerStill, LedgerShapes
<1>2. LedgerShapes' /\ LedgerFrame(p)
  BY <1>0, <1>1, LedgerStillGrows, LedgerNames
     DEF LedgerShapes, LedgerLabels, LedgerCalls, LedgerFrame, Ledger!world
<1>3. Sealed /\ LedgerKept("dir")
  <2>1. \A m \in 1..MaxMutations : LedgerKept(IntentOf[m]) /\ LedgerKept(ResultOf[m])
    <3>1. 1..MaxMutations \subseteq 1..(next - 1)
      BY <1>0, ExecutorsOK DEF LedgerShapes
    <3> QED
      BY <1>0, <3>1 DEF LedgerProcess, LedgerRecorded
  <2> QED
    BY <1>0, <2>1 DEF Sealed, Ledger!Journal, Ledger!Records, LedgerProcess, LedgerMadeBy, LedgerKept
<1>4. Sealed' /\ LedgerKept("dir")'
  BY <1>1, <1>3, LedgerStillGrows, LedgerSealedStays
<1>5. LedgerProcess(p)'
  <2>1. LedgerChained(p)'
    BY <1>0, Zenon DEF LedgerChained, Readied, Ready, LedgerSteps
  <2> QED
    BY <1>0, <1>1, <1>4, <2>1 DEF LedgerProcess, LedgerModeOf, LedgerMadeBy,
                                  LedgerWriting, LedgerRecorded, LedgerSender, Sourced,
       LedgerCalls, Ledger!world
<1>6. LedgerWorld'
  BY <1>0, <1>1, LedgerStillWorld DEF Ledger!world
<1> QED
  BY <1>0, <1>1, <1>2, <1>5, <1>6, LedgerWhole

(* A process gives up, or is done; the files stay as they are.             *)
LEMMA LedgerEnds ==
    ASSUME LedgerInv, NEW p \in Procs, NEW l \in {"raised", "retired", "failed", "done"},
           pcLedger' = [pcLedger EXCEPT ![p] = l], pcLedger[p] # "idle",
           l \in {"raised", "retired"} => Live(p) /\ pcLedger[p] # "parent",
           LedgerStill, mode' = mode, sent' = sent, next' = next, net' = net,
           power' = power,
           admitted' = admitted, faultsLedger' \in 0 .. MaxTroubles,
           status' \in {status, "failed"},
           atLedger' \in {atLedger, [atLedger EXCEPT ![p] = Ledger!Nothing]}
    PROVE  LedgerInv'
<1>0. LedgerShapes /\ LedgerProcess(p)
  BY DEF LedgerInv
<1>1. /\ pcLedger'[p] = l /\ ~Busy(p)' /\ Goal(p)' = l /\ LedgerActs(p)
      /\ (Live(p)' => Live(p))
      /\ (Live(p)' => l \in {"raised", "retired"})
      /\ (l \in {"raised", "retired"} => mode[p] = "apply")
  BY <1>0 DEF Live, Busy, Goal, LedgerActs, LedgerShapes
<1>2. LedgerShapes'
  <2>1. atLedger' \in [Procs -> LedgerSpots]
    BY <1>0 DEF LedgerShapes, Ledger!Nothing, LedgerSpots
  <2>2. view' \in [Ledger!Files -> {"none", "torn", "full"}] /\ safe' \subseteq Ledger!Files
    BY <1>0 DEF LedgerShapes, LedgerStill
  <2>3. pcLedger' \in [Procs -> LedgerLabels]
    BY <1>0 DEF LedgerShapes, LedgerLabels, LedgerCalls
  <2> QED
    BY <1>0, <2>1, <2>2, <2>3 DEF LedgerShapes
<1>3. LedgerFrame(p)
  BY <1>1, LedgerStillGrows DEF LedgerFrame
<1>4. LedgerProcess(p)'
  BY <1>0, <1>1 DEF LedgerProcess, LedgerModeOf, LedgerMadeBy, LedgerWriting,
                    LedgerRecorded, LedgerSender, Sourced, LedgerChained, LedgerSteps,
     LedgerCalls, LedgerStill
<1>5. LedgerWorld'
  BY LedgerStillWorld
<1> QED
  BY <1>1, <1>2, <1>3, <1>4, <1>5, LedgerWhole

LEMMA LedgerRaiseEnds ==
    ASSUME LedgerInv, NEW p \in Procs, Ledger!Raise(p),
           pcLedger[p] \notin {"idle", "parent", "failed", "done"},
           LedgerStill, mode' = mode, sent' = sent, next' = next, net' = net,
           power' = power,
           admitted' = admitted, faultsLedger' \in 0 .. MaxTroubles, status' = status,
           atLedger' \in {atLedger, [atLedger EXCEPT ![p] = Ledger!Nothing]}
    PROVE  LedgerInv'
<1>1. \E l \in {"raised", "retired", "failed", "done"} :
         pcLedger' = [pcLedger EXCEPT ![p] = l]
           /\ (l \in {"raised", "retired"} => Live(p) /\ pcLedger[p] # "parent")
  BY DEF Ledger!Raise, Ledger!Go, Live
<1> QED
  BY <1>1, LedgerEnds

LEMMA LedgerCallFailsKeeps ==
    ASSUME LedgerInv, NEW p \in Procs, Ledger!CallFails(p)
    PROVE  LedgerInv'
<1>1. /\ pcLedger[p] \in {"write", "sync"} /\ Ledger!Raise(p)
           /\ atLedger' = [atLedger EXCEPT ![p] = Ledger!Nothing] /\ LedgerStill
      /\ UNCHANGED <<mode, sent, next, net, status, admitted, power>>
  BY DEF Ledger!CallFails, Ledger!world, LedgerStill
<1>2. faultsLedger' \in 0 .. MaxTroubles
  BY ExecutorsOK DEF Ledger!CallFails, Ledger!Fault, LedgerInv, LedgerShapes
<1> QED
  BY <1>1, <1>2, LedgerRaiseEnds

LEMMA LedgerDiesKeeps ==
    ASSUME LedgerInv, NEW p \in Procs, Ledger!Dies(p)
    PROVE  LedgerInv'
<1>1. /\ pcLedger[p] # "idle" /\ pcLedger' = [pcLedger EXCEPT ![p] = "failed"]
           /\ atLedger' = [atLedger EXCEPT ![p] = Ledger!Nothing]
      /\ LedgerStill /\ UNCHANGED <<mode, sent, next, net, status, admitted, power>>
  BY DEF Ledger!Dies, Ledger!Running, Ledger!Go, Ledger!world, LedgerStill
<1>2. faultsLedger' \in 0 .. MaxTroubles
  BY ExecutorsOK DEF Ledger!Dies, Ledger!Fault, LedgerInv, LedgerShapes
<1> QED
  BY <1>1, <1>2, LedgerEnds

(***************************************************************************)
(* The evidence                                                            *)
(***************************************************************************)

LEMMA LedgerAfters ==
    /\ Ledger!After("source") = "snapshot" /\ Ledger!After("snapshot") = "s2a"
         /\ Ledger!After("s2a") = "s2b"
    /\ Ledger!After("s2b") = "bundle" /\ Ledger!After("bundle") = "readback"
  BY DEF Ledger!After

LEMMA LedgerReadies ==
    /\ Ready("source") = {} /\ Ready("snapshot") = {"source"}
    /\ Ready("s2a") = {"source", "snapshot"} /\ Ready("s2b") = {"source", "snapshot", "s2a"}
    /\ Ready("bundle") = {"source", "snapshot", "s2a", "s2b"}
    /\ Ready("readback") = Ledger!Written /\ Ready("complete") = Ledger!Written
<1>1. Ready("source") = {} /\ Ready("snapshot") = {"source"}
  BY Zenon DEF Ready
<1>2. Ready("s2a") = {"source", "snapshot"} /\ Ready("s2b") = {"source", "snapshot", "s2a"}
  BY DEF Ready
<1>3. Ready("bundle") = {"source", "snapshot", "s2a", "s2b"}
  BY DEF Ready
<1>4. /\ Ready("readback") = {"source", "snapshot", "s2a", "s2b", "bundle"}
      /\ Ready("complete") = {"source", "snapshot", "s2a", "s2b", "bundle"}
  BY DEF Ready
<1> QED
  BY <1>1, <1>2, <1>3, <1>4, LedgerNames

(* After a file of the evidence, what was before it and the file itself.   *)
LEMMA LedgerAfterReady ==
    ASSUME NEW f \in Ledger!Written
    PROVE  /\ Ledger!After(f) \in LedgerSteps /\ Ledger!After(f) \in LedgerLabels
             /\ Ledger!After(f) # "source"
           /\ Ready(Ledger!After(f)) = Ready(f) \union {f}
           /\ Ledger!After(f) \notin LedgerCalls
                /\ Ledger!After(f) \notin {"write", "sync", "idle", "failed", "done"}
<1>1. f \in {"source", "snapshot", "s2a", "s2b", "bundle"}
  BY LedgerNames
<1>2. CASE f = "source"
  BY <1>2, LedgerAfters, LedgerReadies, LedgerNames
     DEF LedgerSteps, LedgerLabels, LedgerCalls
<1>3. CASE f = "snapshot"
  BY <1>3, LedgerAfters, LedgerReadies, LedgerNames
     DEF LedgerSteps, LedgerLabels, LedgerCalls
<1>4. CASE f = "s2a"
  BY <1>4, LedgerAfters, LedgerReadies, LedgerNames
     DEF LedgerSteps, LedgerLabels, LedgerCalls
<1>5. CASE f = "s2b"
  BY <1>5, LedgerAfters, LedgerReadies, LedgerNames
     DEF LedgerSteps, LedgerLabels, LedgerCalls
<1>6. CASE f = "bundle"
  BY <1>6, LedgerAfters, LedgerReadies, LedgerNames
     DEF LedgerSteps, LedgerLabels, LedgerCalls
<1> QED
  BY <1>1, <1>2, <1>3, <1>4, <1>5, <1>6

(* A process goes on to a step of the evidence, or to its receipt.         *)
LEMMA LedgerAdvance ==
    ASSUME LedgerInv, NEW p \in Procs, NEW l \in LedgerSteps \ {"source"},
           pcLedger' = [pcLedger EXCEPT ![p] = l],
           pcLedger[p] \notin {"idle", "parent", "failed", "done"},
           l = "complete" => mode[p] = "apply", ~power => Readied(l),
           LedgerStill, mode' = mode, atLedger' = atLedger, sent' = sent, next' = next,
           net' = net, power' = power,
           admitted' = admitted, faultsLedger' = faultsLedger,
           status' \in {status, "complete"},
           (status' = "complete" /\ ~power) => view["bundle"] = "full"
    PROVE  LedgerInv'
<1>0. LedgerShapes /\ LedgerProcess(p)
  BY DEF LedgerInv
<1>1. /\ pcLedger'[p] = l /\ ~Busy(p)' /\ Goal(p)' = l /\ LedgerActs(p)
      /\ (Live(p)' => Live(p))
  BY <1>0 DEF Live, Busy, Goal, LedgerActs, LedgerShapes, LedgerSteps
<1>2. LedgerShapes'
  <2>1. pcLedger' \in [Procs -> LedgerLabels]
    BY <1>0, LedgerNames DEF LedgerShapes, LedgerLabels, LedgerCalls, LedgerSteps
  <2> QED
    BY <1>0, <2>1 DEF LedgerShapes, LedgerStill
<1>3. LedgerFrame(p)
  BY <1>1, LedgerStillGrows DEF LedgerFrame
<1>4. LedgerProcess(p)'
  <2>1. LedgerChained(p)'
    BY <1>1 DEF LedgerChained, Readied, LedgerStill
  <2> QED
    BY <1>0, <1>1, <2>1 DEF LedgerProcess, LedgerModeOf, LedgerMadeBy, LedgerWriting,
                            LedgerRecorded, LedgerSender, Sourced, LedgerSteps,
       LedgerCalls, LedgerStill
<1>5. LedgerWorld'
  <2>1. Chain'
    BY DEF LedgerInv, LedgerWorld, Chain, LedgerStill, Readied
  <2> QED
    BY <2>1, LedgerStillGrows, LedgerSoleStays, LedgerOpenedStays, LedgerSourceStays
       DEF LedgerWorld, LedgerStill, LedgerKept
<1> QED
  BY <1>1, <1>2, <1>3, <1>4, <1>5, LedgerWhole

LEMMA LedgerArtifactKeeps ==
    ASSUME LedgerInv, NEW p \in Procs, NEW f \in Ledger!Written, Ledger!Artifact(p, f)
    PROVE  LedgerInv'
<1>0. /\ pcLedger[p] = f /\ UNCHANGED <<mode, Ledger!world, power, faultsLedger>>
           /\ LedgerShapes /\ LedgerProcess(p)
      /\ f \in Ledger!Files /\ f \in LedgerSteps /\ ~Busy(p)
      /\ f \notin {"idle", "parent", "failed", "done", "marker", "dir"}
      /\ mode[p] # "none" /\ (Live(p) <=> mode[p] = "apply")
  BY LedgerNames DEF Ledger!Artifact, LedgerInv, LedgerSteps, Busy, Live,
                     LedgerProcess, LedgerModeOf
<1>1. Ledger!After(f) \in LedgerSteps \ {"source"} /\ Ledger!After(f) \in LedgerLabels
        /\ Ledger!After(f) \notin LedgerCalls
  BY LedgerAfterReady
<1>2. ~power => Readied(f)
  BY <1>0 DEF LedgerProcess, LedgerChained
<1>3. CASE Ledger!Begin(p, f, Ledger!After(f))
  <2>1. /\ LedgerFrame(p) /\ LedgerBegan(f) /\ safe' = safe /\ view'[f] = "torn"
        /\ \A g \in Ledger!Files \ {f} : view'[g] = view[g]
        /\ pcLedger'[p] = "write" /\ Busy(p)' /\ File(p)' = f /\ Then(p)' = Ledger!After(f)
        /\ Goal(p)' = Ledger!After(f) /\ (Live(p)' <=> Live(p))
        /\ view' \in [Ledger!Files -> {"none", "torn", "full"}]
             /\ pcLedger' \in [Procs -> LedgerLabels]
        /\ atLedger' \in [Procs -> LedgerSpots]
    BY <1>0, <1>1, <1>3, LedgerBegins DEF Ledger!world
  <2>2. LedgerShapes'
    BY <1>0, <2>1 DEF LedgerShapes, Ledger!world
  <2>3. LedgerGrows(p) /\ (LedgerKept("marker") => LedgerKept("marker")')
    BY <1>0, <2>1, LedgerBeganGrows
  <2>4. Ledger!After(f) \notin {"run", "send", "answered", "enable", "open"}
    BY <1>1 DEF LedgerCalls
  <2>5. LedgerProcess(p)'
    BY <1>0, <2>1, <2>4, LedgerNames
       DEF LedgerProcess, LedgerModeOf, LedgerMadeBy, LedgerWriting, LedgerRecorded,
           LedgerSender, Sourced,
       LedgerChained, LedgerSteps, LedgerCalls, Ledger!world
  <2>6. Source'
    <3>1. CASE f = "source"
      <4>1. Sealed /\ LedgerKept("dir")
        BY <1>0, <3>1 DEF LedgerProcess, Sourced
      <4> QED
        BY <2>3, <4>1, LedgerSealedStays DEF Source
    <3>2. CASE f # "source"
      BY <2>1, <2>3, <3>2, LedgerNames, LedgerSourceStays
    <3> QED
      BY <3>1, <3>2
  <2>7. Chain'
    <3> SUFFICES ASSUME ~power PROVE Chain'
      BY <1>0 DEF Chain
    <3>1. ASSUME NEW g \in Ledger!Written, view'[g] # "none"
          PROVE \A h \in Ready(g) : view'[h] = "full"
      <4>1. Readied(g)
        BY <1>2, <2>1, <3>1, LedgerNames DEF LedgerInv, LedgerWorld, Chain
      <4> QED
        BY <2>3, <4>1, LedgerReadyStays
    <3>2. status' = "complete" => view'["bundle"] = "full"
      BY <1>0, <2>3, LedgerNames
         DEF LedgerInv, LedgerWorld, Chain, LedgerGrows, Ledger!world
    <3> QED
      BY <3>1, <3>2 DEF Chain, Readied
  <2>8. LedgerWorld'
    BY <1>0, <2>3, <2>6, <2>7, LedgerSoleStays, LedgerOpenedStays
       DEF LedgerWorld, Ledger!world
  <2> QED
    BY <1>0, <2>1, <2>2, <2>5, <2>8, LedgerWhole
<1>4. CASE view[f] = "full" /\ Ledger!Go(p, Ledger!After(f))
           /\ UNCHANGED <<view, safe, atLedger>>
  <2>1. ~power => Readied(Ledger!After(f))
    BY <1>2, <1>4, LedgerAfterReady DEF Readied
  <2>2. Ledger!After(f) # "complete"
    BY <1>1 DEF LedgerCalls
  <2>3. (status = "complete" /\ ~power) => view["bundle"] = "full"
    BY DEF LedgerInv, LedgerWorld, Chain
  <2> QED
    BY <1>0, <1>1, <1>4, <2>1, <2>2, <2>3, LedgerAdvance
       DEF Ledger!Go, LedgerStill, Ledger!world
<1>5. CASE view[f] = "torn" /\ Ledger!Raise(p) /\ UNCHANGED <<view, safe, atLedger>>
  <2>1. faultsLedger' \in 0 .. MaxTroubles
    BY <1>0 DEF LedgerShapes
  <2> QED
    BY <1>0, <1>5, <2>1, LedgerRaiseEnds DEF LedgerStill, Ledger!world
<1> QED
  BY <1>3, <1>4, <1>5 DEF Ledger!Artifact

LEMMA LedgerReadbackKeeps ==
    ASSUME LedgerInv, NEW p \in Procs, Ledger!Readback(p)
    PROVE  LedgerInv'
<1>0. /\ pcLedger[p] = "readback" /\ LedgerStill
           /\ UNCHANGED <<mode, atLedger, sent, next, net, admitted, power, faultsLedger>>
      /\ faultsLedger \in 0 .. MaxTroubles /\ LedgerProcess(p)
  BY DEF Ledger!Readback, LedgerStill, LedgerInv, LedgerShapes
<1>1. ~power => Readied("complete") /\ view["bundle"] = "full"
  BY <1>0, LedgerReadies, LedgerNames
     DEF LedgerProcess, LedgerChained, Readied, LedgerSteps
<1>2. CASE mode[p] = "apply" /\ Ledger!Go(p, "complete") /\ status' = "complete"
  BY <1>0, <1>1, <1>2, LedgerAdvance DEF Ledger!Go, LedgerSteps
<1>3. CASE mode[p] # "apply" /\ Ledger!Go(p, "done") /\ UNCHANGED status
  BY <1>0, <1>3, LedgerEnds DEF Ledger!Go
<1> QED
  BY <1>2, <1>3 DEF Ledger!Readback

LEMMA LedgerTerminalKeeps ==
    ASSUME LedgerInv, NEW p \in Procs, Ledger!Terminal(p)
    PROVE  LedgerInv'
<1>0. /\ pcLedger[p] \in {"raised", "retired", "complete"}
           /\ UNCHANGED <<mode, sent, next, net, admitted, power, faultsLedger>>
      /\ status' \in {status, "failed"}
      /\ mode[p] = "apply" /\ Live(p) /\ LedgerShapes /\ LedgerProcess(p)
           /\ faultsLedger \in 0 .. MaxTroubles
  BY DEF Ledger!Terminal, LedgerInv, LedgerShapes, Live, LedgerProcess, LedgerModeOf,
         LedgerCalls
<1>1. ASSUME NEW l \in {"failed", "done"}, Ledger!Begin(p, "terminal", l)
      PROVE LedgerInv'
  <2>1. /\ LedgerFrame(p) /\ LedgerBegan("terminal") /\ safe' = safe
             /\ view'["terminal"] = "torn"
        /\ \A g \in Ledger!Files \ {"terminal"} : view'[g] = view[g]
        /\ pcLedger'[p] = "write" /\ Busy(p)' /\ File(p)' = "terminal" /\ Then(p)' = l
        /\ Goal(p)' = l /\ Live(p)'
        /\ view' \in [Ledger!Files -> {"none", "torn", "full"}]
             /\ pcLedger' \in [Procs -> LedgerLabels]
        /\ atLedger' \in [Procs -> LedgerSpots]
    BY <1>0, <1>1, LedgerBegins, LedgerNames DEF LedgerLabels
  <2>2. LedgerShapes'
    BY <1>0, <2>1 DEF LedgerShapes
  <2>3. LedgerProcess(p)'
    BY <1>0, <2>1, LedgerNames
       DEF LedgerProcess, LedgerModeOf, LedgerMadeBy, LedgerWriting, LedgerRecorded,
           LedgerSender, Sourced,
       LedgerChained, LedgerSteps, LedgerCalls
  <2>4. LedgerWorld'
    BY <1>0, <2>1, LedgerNames, LedgerBeganWorld
  <2> QED
    BY <1>0, <2>1, <2>2, <2>3, <2>4, LedgerWhole
<1>2. CASE view["terminal"] # "none" /\ Ledger!Go(p, "failed")
           /\ UNCHANGED <<view, safe, atLedger>>
  BY <1>0, <1>2, LedgerEnds DEF Ledger!Go, LedgerStill
<1> QED
  BY <1>1, <1>2 DEF Ledger!Terminal

LEMMA LedgerResumeKeeps ==
    ASSUME LedgerInv, NEW p \in Procs, Ledger!Resume(p)
    PROVE  LedgerInv'
<1>0. /\ pcLedger[p] = "idle" /\ mode' = [mode EXCEPT ![p] = "resume"] /\ LedgerStill
      /\ UNCHANGED <<atLedger, Ledger!world, power, faultsLedger>> /\ LedgerShapes
      /\ pcLedger' = [pcLedger EXCEPT ![p] = pcLedger'[p]]
           /\ pcLedger'[p] \in {"snapshot", "source", "failed"}
      /\ pcLedger'[p] = "snapshot" => view["snapshot"] = "full"
      /\ pcLedger'[p] = "source" => view["source"] = "full"
  BY DEF Ledger!Resume, Ledger!Go, LedgerStill, LedgerInv, LedgerShapes,
         Ledger!StateLoads, Ledger!SnapshotLoads, Ledger!SourceLoads
<1>1. /\ mode'[p] = "resume" /\ ~Live(p)' /\ ~Live(p) /\ ~Busy(p)' /\ LedgerActs(p)
      /\ mode' \in [Procs -> {"none", "apply", "resume"}]
           /\ pcLedger' \in [Procs -> LedgerLabels]
  BY <1>0, LedgerNames DEF Live, Busy, LedgerActs, LedgerShapes, LedgerLabels,
                           LedgerInv, LedgerProcess, LedgerModeOf
<1>2. LedgerShapes'
  BY <1>0, <1>1 DEF LedgerShapes, LedgerStill, Ledger!world
<1>3. LedgerFrame(p)
  BY <1>0, <1>1, LedgerStillGrows DEF LedgerFrame, Ledger!world
<1>4. Sourced(p)'
  <2>1. pcLedger'[p] = "source" => Sealed /\ LedgerKept("dir")
    BY <1>0 DEF LedgerInv, LedgerWorld, Source
  <2> QED
    BY <1>0, <2>1, LedgerStillGrows, LedgerSealedStays DEF Sourced
<1>5. LedgerChained(p)'
  <2>1. (~power /\ view["snapshot"] = "full") => Readied("snapshot")
    BY LedgerNames DEF LedgerInv, LedgerWorld, Chain
  <2>2. Readied("source")
    BY LedgerReadies DEF Readied
  <2> QED
    BY <1>0, <2>1, <2>2 DEF LedgerChained, Readied, LedgerStill, LedgerSteps
<1>6. LedgerProcess(p)'
  BY <1>0, <1>1, <1>4, <1>5 DEF LedgerProcess, LedgerModeOf, LedgerMadeBy,
                                LedgerWriting, LedgerRecorded, LedgerSender, LedgerCalls
<1>7. LedgerWorld'
  BY <1>0, LedgerStillWorld DEF Ledger!world
<1> QED
  BY <1>1, <1>2, <1>3, <1>6, <1>7, LedgerWhole

(***************************************************************************)
(* Files                                                                   *)
(***************************************************************************)

LEMMA LedgerWriteKeeps ==
    ASSUME LedgerInv, NEW p \in Procs, Ledger!Write(p)
    PROVE  LedgerInv'
<1> DEFINE f == File(p)
<1>0. /\ pcLedger[p] = "write" /\ view' = [view EXCEPT ![f] = "full"]
           /\ pcLedger' = [pcLedger EXCEPT ![p] = "sync"]
      /\ UNCHANGED <<safe, mode, atLedger, Ledger!world, power, faultsLedger>>
           /\ LedgerShapes /\ LedgerProcess(p)
      /\ Busy(p) /\ LedgerWriting(p)
  BY DEF Ledger!Write, Ledger!Go, LedgerInv, File, Busy, LedgerProcess
<1>1. f \in Ledger!Files /\ view[f] # "none" /\ (f = "marker" => Live(p))
  BY <1>0, LedgerNames, LedgerRange DEF LedgerWriting, LedgerShapes
<1>2. /\ view'[f] = "full" /\ view' \in [Ledger!Files -> {"none", "torn", "full"}]
      /\ \A g \in Ledger!Files \ {f} : view'[g] = view[g]
  BY <1>0, <1>1 DEF LedgerShapes
<1>3. /\ pcLedger'[p] = "sync" /\ Busy(p)' /\ Live(p)' = Live(p) /\ Goal(p)' = Goal(p)
      /\ File(p)' = f /\ Then(p)' = Then(p) /\ LedgerActs(p)
           /\ pcLedger' \in [Procs -> LedgerLabels]
  BY <1>0 DEF Busy, Live, Goal, File, Then, LedgerActs, LedgerShapes, LedgerLabels
<1>4. LedgerShapes'
  BY <1>0, <1>2, <1>3 DEF LedgerShapes, Ledger!world
<1> HIDE DEF f
<1>5. LedgerGrows(p) /\ LedgerFrame(p) /\ (LedgerKept("marker")
      => LedgerKept("marker")')
  BY <1>0, <1>1, <1>2, <1>3, LedgerNames
     DEF LedgerGrows, LedgerFrame, LedgerKept, Ledger!world
<1>6. LedgerRecorded(p)'
  <2> SUFFICES ASSUME Live(p) PROVE LedgerRecorded(p)'
    BY <1>3 DEF LedgerRecorded
  <2>1. ASSUME Goal(p) \in {"run", "send", "answered", "enable", "open"},
               NEW m \in 1..(next - 1)
        PROVE  /\ LedgerKept(IntentOf[m])'
               /\ LedgerKept(ResultOf[m])' \/ (m = next - 1 /\ f = ResultOf[m])
    <3>1. LedgerKept(IntentOf[m])
            /\ (LedgerKept(ResultOf[m]) \/ (m = next - 1 /\ File(p) = ResultOf[m]))
      BY <1>0, <2>1 DEF LedgerProcess, LedgerRecorded
    <3>2. m \in LedgerRecords
      BY <1>0, LedgerRange
    <3> QED
      BY <1>5, <3>1, <3>2, LedgerNames, LedgerKeptStays DEF f
  <2> QED
    BY <1>0, <1>3, <2>1 DEF LedgerRecorded, Ledger!world
<1>7. LedgerWriting(p)'
  <2>1. LedgerWriting(p)
    BY <1>0
  <2> QED
    BY <1>0, <1>2, <1>3, <2>1 DEF LedgerWriting, Ledger!world, f
<1>8. LedgerMadeBy(p)'
  BY <1>0, <1>2, <1>3, LedgerNames DEF LedgerProcess, LedgerMadeBy
<1>9. LedgerProcess(p)'
  BY <1>0, <1>3, <1>6, <1>7, <1>8
     DEF LedgerProcess, LedgerModeOf, LedgerSender, Sourced, LedgerChained,
         LedgerSteps, LedgerCalls, Ledger!world
<1>10. LedgerWorld'
  <2>1. \A g \in Ledger!Written : view'[g] # "none" => view[g] # "none"
    BY <1>1, <1>2, LedgerNames
  <2> QED
    BY <1>0, <1>5, <2>1, LedgerNames, LedgerSoleStays, LedgerOpenedStays,
    LedgerSourceStays, LedgerChainStays
       DEF LedgerWorld, Ledger!world
<1> QED
  BY <1>3, <1>4, <1>5, <1>9, <1>10, LedgerWhole

LEMMA LedgerSyncKeeps ==
    ASSUME LedgerInv, NEW p \in Procs, Ledger!Sync(p)
    PROVE  LedgerInv'
<1> DEFINE f == File(p)
<1>0. /\ pcLedger[p] = "sync" /\ safe' = safe \union {f}
           /\ pcLedger' = [pcLedger EXCEPT ![p] = Then(p)]
      /\ atLedger' = [atLedger EXCEPT ![p] = Ledger!Nothing]
      /\ UNCHANGED <<view, mode, Ledger!world, power, faultsLedger>> /\ LedgerShapes
           /\ LedgerProcess(p)
      /\ Busy(p) /\ LedgerWriting(p) /\ Goal(p) = Then(p)
  BY DEF Ledger!Sync, Ledger!Go, LedgerInv, File, Then, Busy, LedgerProcess, Goal
<1>1. f \in Ledger!Files /\ view[f] = "full"
  BY <1>0, LedgerNames, LedgerRange DEF LedgerWriting, LedgerShapes
<1>2. /\ Then(p) \in {"run", "send", "undo", "raised", "enable", "failed", "done"}
           \/ Then(p) \in LedgerSteps \ {"source"}
      /\ Then(p) \in {"run", "send", "undo", "raised", "enable"} => Live(p)
      /\ Then(p) \in LedgerSteps => f \in Ledger!Written /\ Then(p) = Ledger!After(f)
      /\ Then(p) \in LedgerLabels
      /\ Then(p) \notin {"idle", "write", "sync", "parent", "claim", "answered", "undone", "open",
                        "retired", "complete", "source"}
  BY <1>0, LedgerAfterReady, LedgerNames
     DEF LedgerWriting, LedgerSteps, LedgerLabels, LedgerCalls
<1>3. /\ pcLedger'[p] = Then(p) /\ ~Busy(p)' /\ Goal(p)' = Then(p) /\ LedgerActs(p)
      /\ (Live(p)' => Live(p)) /\ pcLedger' \in [Procs -> LedgerLabels]
      /\ atLedger' \in [Procs -> LedgerSpots]
  BY <1>0, <1>2 DEF Busy, Goal, LedgerActs, Live, LedgerShapes, Ledger!Nothing,
                    LedgerSpots
<1> HIDE DEF f
<1>4. LedgerShapes' /\ LedgerGrows(p) /\ LedgerFrame(p) /\ (LedgerKept("marker")
      => LedgerKept("marker")')
  BY <1>0, <1>1, <1>3 DEF LedgerShapes, LedgerGrows, LedgerFrame, LedgerKept,
                          Ledger!world
<1>5. view'[f] = "full" /\ f \in safe'
  BY <1>0, <1>1
<1>6. LedgerRecorded(p)'
  <2> SUFFICES ASSUME Live(p), Then(p) \in {"run", "send", "undo", "enable"}
  PROVE LedgerRecorded(p)'
    BY <1>2, <1>3 DEF LedgerRecorded, LedgerSteps
  <2>1. ASSUME Then(p) \in {"run", "send", "enable"}, NEW m \in 1..(next - 1)
        PROVE  LedgerKept(IntentOf[m])' /\ LedgerKept(ResultOf[m])'
    <3>1. LedgerKept(IntentOf[m]) /\ (LedgerKept(ResultOf[m]) \/ f = ResultOf[m])
      BY <1>0, <2>1 DEF LedgerProcess, LedgerRecorded, f
    <3>2. m \in LedgerRecords
      BY <1>0, LedgerRange
    <3> QED
      BY <1>4, <1>5, <3>1, <3>2, LedgerNames, LedgerKeptStays DEF LedgerKept
  <2>2. Then(p) = "send" => next <= MaxMutations /\ f = IntentOf[next]
    BY <1>0, LedgerAfterReady DEF LedgerWriting, f, LedgerSteps
  <2>3. Then(p) = "enable" => f = "marker"
    BY <1>0, LedgerAfterReady DEF LedgerWriting, f, LedgerSteps
  <2>4. next' = next
    BY <1>0 DEF Ledger!world
  <2>5. Then(p) = "undo" => next \in LedgerRecords /\ f = IntentOf[next]
    BY <1>0, LedgerAfterReady DEF LedgerWriting, f, LedgerSteps
  <2> QED
    BY <1>3, <1>5, <2>1, <2>2, <2>3, <2>4, <2>5 DEF LedgerRecorded, LedgerKept
<1>7. LedgerChained(p)'
  <2> SUFFICES ASSUME ~power, Then(p) \in LedgerSteps PROVE Readied(Then(p))
    BY <1>0, <1>3 DEF LedgerChained, Readied
  <2>1. f \in Ledger!Written /\ Then(p) = Ledger!After(f)
    BY <1>2
  <2>2. Readied(f)
    BY <1>1, <2>1 DEF LedgerInv, LedgerWorld, Chain
  <2> QED
    BY <1>1, <2>1, <2>2, LedgerAfterReady DEF Readied
<1>8. LedgerProcess(p)'
  <2>1. LedgerModeOf(p)'
    <3>1. pcLedger[p] # "idle" /\ mode[p] # "none"
      BY <1>0 DEF LedgerProcess, LedgerModeOf
    <3>2. Then(p) \in LedgerCalls => Then(p) \in {"run", "send", "undo", "raised", "enable"}
      BY <1>2 DEF LedgerCalls, LedgerSteps
    <3> QED
      BY <1>0, <1>2, <1>3, <3>1, <3>2 DEF LedgerModeOf, Live
  <2>2. LedgerMadeBy(p)' /\ LedgerSender(p)'
    BY <1>0, <1>2, <1>3 DEF LedgerProcess, LedgerMadeBy, LedgerSender, Ledger!world
  <2>3. LedgerWriting(p)' /\ Sourced(p)'
    BY <1>2, <1>3 DEF LedgerWriting, Sourced
  <2> QED
    BY <1>6, <1>7, <2>1, <2>2, <2>3 DEF LedgerProcess
<1>9. LedgerWorld'
  BY <1>0, <1>4, LedgerSoleStays, LedgerOpenedStays, LedgerSourceStays, LedgerChainStays
     DEF LedgerWorld, Ledger!world
<1> QED
  BY <1>3, <1>4, <1>8, <1>9, LedgerWhole

LEMMA LedgerAdmitKeeps == ASSUME LedgerInv, Ledger!Admit PROVE LedgerInv'
<1>1. /\ admitted' = TRUE
      /\ UNCHANGED <<view, safe, mode, pcLedger, atLedger, sent, next>>
      /\ UNCHANGED <<net, status, power, faultsLedger>>
  BY DEF Ledger!Admit
<1>2. LedgerShapes' /\ LedgerAlone'
  BY <1>1 DEF LedgerInv, LedgerShapes, LedgerAlone, Live
<1>3. \A p \in Procs : LedgerProcess(p)'
  BY <1>1 DEF LedgerInv, LedgerProcess, LedgerModeOf, LedgerMadeBy, LedgerWriting,
              LedgerRecorded, LedgerSender, Sourced, LedgerChained, Readied,
     Live, Busy, Goal, File, Then, LedgerKept, Sealed
<1>4. LedgerWorld'
  BY <1>1 DEF LedgerInv, LedgerWorld, Sole, Opened, Source, Chain, Readied, LedgerKept,
              Sealed
<1> QED
  BY <1>2, <1>3, <1>4 DEF LedgerInv

(* Without power every process is gone; what is kept survives if the       *)
(* directory does.                                                         *)
LEMMA LedgerPowerLossKeeps == ASSUME LedgerInv, Ledger!PowerLoss PROVE LedgerInv'
<1>0. /\ power' = TRUE /\ faultsLedger' \in 0 .. MaxTroubles
           /\ UNCHANGED <<mode, Ledger!world>> /\ LedgerShapes
      /\ atLedger' = [p \in Procs |-> Ledger!Nothing]
      /\ pcLedger' = [p \in Procs |-> IF p \in Ledger!Running THEN "failed" ELSE pcLedger[p]]
  BY ExecutorsOK DEF Ledger!PowerLoss, Ledger!Fault, LedgerInv, LedgerShapes
<1>1. PICK left \in [Ledger!Unsafe -> {"none", "torn", "full"}] :
         /\ \A f \in Ledger!Unsafe : left[f] \in Ledger!Left(f)
         /\ view' = [f \in Ledger!Files |->
                       IF "dir" \in Ledger!Unsafe /\ left["dir"] = "none" THEN "none"
                       ELSE IF f \in Ledger!Unsafe THEN left[f] ELSE view[f]]
  BY DEF Ledger!PowerLoss
<1>2. safe' = {f \in Ledger!Files : view'[f] # "none"}
  BY DEF Ledger!PowerLoss
<1>3. view' \in [Ledger!Files -> {"none", "torn", "full"}]
  BY <1>0, <1>1 DEF LedgerShapes
<1>4. ASSUME LedgerKept("dir"), NEW f \in Ledger!Files, LedgerKept(f)
      PROVE LedgerKept(f)'
  BY <1>1, <1>2, <1>4 DEF Ledger!Unsafe, LedgerKept
<1>5. \A f \in Ledger!Files : view'[f] # "none" => view[f] # "none"
  BY <1>1 DEF Ledger!Unsafe
<1>6. \A p \in Procs : /\ pcLedger'[p] \in {"idle", "done", "failed"}
        /\ (pcLedger'[p] = "idle" <=> pcLedger[p] = "idle")
                       /\ ~Live(p)' /\ ~Busy(p)'
  BY <1>0 DEF Ledger!Running, Live, Busy, LedgerInv, LedgerProcess, LedgerModeOf
<1>7. LedgerShapes'
  <2>1. pcLedger' \in [Procs -> LedgerLabels]
    BY <1>0 DEF LedgerShapes, LedgerLabels
  <2>2. atLedger' \in [Procs -> LedgerSpots]
    BY <1>0 DEF Ledger!Nothing, LedgerSpots
  <2> QED
    BY <1>0, <1>2, <1>3, <2>1, <2>2 DEF LedgerShapes, Ledger!world
<1>8. ASSUME NEW p \in Procs PROVE LedgerProcess(p)'
  <2>1. LedgerModeOf(p)
    BY DEF LedgerInv, LedgerProcess
  <2> QED
    BY <1>0, <1>6, <2>1 DEF LedgerProcess, LedgerModeOf, LedgerMadeBy, LedgerWriting,
                            LedgerRecorded, LedgerSender, Sourced, LedgerChained,
       LedgerSteps, LedgerCalls, Ledger!world
<1>9. Sole'
  <2>1. ASSUME NEW x \in sent PROVE LedgerKept(IntentOf[x[2]])' /\ LedgerKept("dir")'
    <3>1. x[2] \in LedgerRecords
      BY <1>0 DEF LedgerShapes
    <3> QED
      BY <1>4, <3>1, LedgerNames DEF LedgerInv, LedgerWorld, Sole
  <2> QED
    BY <1>0, <2>1 DEF LedgerInv, LedgerWorld, Sole, Ledger!world
<1>10. Opened'
  BY <1>0, <1>4, LedgerNames DEF LedgerInv, LedgerWorld, Opened, Ledger!world
<1>11. Source'
  <2> SUFFICES ASSUME view'["source"] # "none" PROVE Sealed' /\ LedgerKept("dir")'
    BY DEF Source
  <2>1. Sealed /\ LedgerKept("dir")
    BY <1>5, LedgerNames DEF LedgerInv, LedgerWorld, Source
  <2>2. ASSUME NEW j \in Ledger!Journal PROVE LedgerKept(j)'
    BY <1>4, <2>1, LedgerNames DEF Sealed
  <2> QED
    BY <1>4, <2>1, <2>2, LedgerNames DEF Sealed, Ledger!Journal
<1> QED
  BY <1>0, <1>6, <1>7, <1>8, <1>9, <1>10, <1>11
     DEF LedgerInv, LedgerAlone, LedgerWorld, Chain

LEMMA LedgerStarts == Ledger!Init => LedgerInv
<1> SUFFICES ASSUME Ledger!Init PROVE LedgerInv
  OBVIOUS
<1>1. LedgerShapes
  <2>1. 0 \in 0 .. MaxTroubles /\ 1 \in 1..(MaxMutations + MaxUndone + 1)
    BY ExecutorsOK
  <2>2. atLedger \in [Procs -> LedgerSpots]
    BY DEF Ledger!Init, Ledger!Nothing, LedgerSpots
  <2>3. pcLedger \in [Procs -> LedgerLabels] /\ mode \in [Procs -> {"none", "apply", "resume"}]
    BY DEF Ledger!Init, LedgerLabels
  <2> QED
    BY <2>1, <2>2, <2>3 DEF Ledger!Init, LedgerShapes
<1>2. \A p \in Procs : pcLedger[p] = "idle" /\ mode[p] = "none" /\ ~Live(p) /\ ~Busy(p)
  BY DEF Ledger!Init, Live, Busy
<1>3. \A p \in Procs : LedgerProcess(p)
  BY <1>2 DEF LedgerProcess, LedgerModeOf, LedgerMadeBy, LedgerWriting, LedgerRecorded,
              LedgerSender, Sourced, LedgerChained, LedgerSteps, LedgerCalls
<1>4. LedgerWorld
  BY LedgerNames DEF Ledger!Init, LedgerWorld, Sole, Opened, Source, Chain
<1> QED
  BY <1>1, <1>2, <1>3, <1>4 DEF LedgerInv, LedgerAlone

LEMMA LedgerKeeps == LedgerInv /\ [Ledger!Next]_(Ledger!vars) => LedgerInv'
<1> SUFFICES ASSUME LedgerInv, [Ledger!Next]_(Ledger!vars) PROVE LedgerInv'
  OBVIOUS
<1>1. ASSUME NEW p \in Procs,
             \/ Ledger!Apply(p) \/ Ledger!Parent(p) \/ Ledger!Claim(p) \/ Ledger!Resume(p)
             \/ Ledger!Intent(p) \/ Ledger!Send(p) \/ Ledger!Answered(p) \/ Ledger!Undo(p)
             \/ Ledger!Mark(p) \/ Ledger!Enable(p) \/ Ledger!Clear(p) \/ Ledger!Verified(p)
             \/ \E f \in Ledger!Written : Ledger!Artifact(p, f)
             \/ Ledger!Readback(p) \/ Ledger!Terminal(p)
             \/ Ledger!Write(p) \/ Ledger!Sync(p) \/ Ledger!CallFails(p) \/ Ledger!Dies(p)
      PROVE  LedgerInv'
  BY <1>1, LedgerApplyKeeps, LedgerParentKeeps, LedgerClaimKeeps, LedgerResumeKeeps,
  LedgerIntentKeeps, LedgerSendKeeps, LedgerAnsweredKeeps, LedgerUndoKeeps,
     LedgerMarkKeeps, LedgerEnableKeeps, LedgerClearKeeps, LedgerVerifiedKeeps,
     LedgerArtifactKeeps, LedgerReadbackKeeps, LedgerTerminalKeeps,
     LedgerWriteKeeps, LedgerSyncKeeps, LedgerCallFailsKeeps, LedgerDiesKeeps
<1>2. CASE UNCHANGED Ledger!vars
  <2>1. /\ UNCHANGED <<view, safe, mode, pcLedger, atLedger, sent, next>>
        /\ UNCHANGED <<net, status, admitted, power, faultsLedger>>
    BY <1>2 DEF Ledger!vars, Ledger!world
  <2>2. LedgerShapes' /\ LedgerAlone'
    BY <2>1 DEF LedgerInv, LedgerShapes, LedgerAlone, Live
  <2>3. \A p \in Procs : LedgerProcess(p)'
    BY <2>1 DEF LedgerInv, LedgerProcess, LedgerModeOf, LedgerMadeBy, LedgerWriting,
                LedgerRecorded, LedgerSender, Sourced, LedgerChained, Readied,
       Live, Busy, Goal, File, Then, LedgerKept, Sealed
  <2>4. LedgerWorld'
    BY <2>1 DEF LedgerInv, LedgerWorld, Sole, Opened, Source, Chain, Readied,
                LedgerKept, Sealed
  <2> QED
    BY <2>2, <2>3, <2>4 DEF LedgerInv
<1> QED
  BY <1>1, <1>2, LedgerAdmitKeeps, LedgerPowerLossKeeps DEF Ledger!Next

LEMMA LedgerSays ==
    LedgerInv
      => Ledger!TypeOK /\ Ledger!SingleUse /\ Ledger!JournalAhead
        /\ Ledger!EvidenceFromJournal /\ Ledger!BundleLast /\ Ledger!OpenIsMarked
<1> SUFFICES ASSUME LedgerInv
             PROVE  Ledger!TypeOK /\ Ledger!SingleUse /\ Ledger!JournalAhead
                      /\ Ledger!EvidenceFromJournal /\ Ledger!BundleLast /\ Ledger!OpenIsMarked
  OBVIOUS
<1>1. Ledger!TypeOK
  BY LedgerNames DEF LedgerInv, LedgerShapes, Ledger!TypeOK, LedgerLabels, LedgerCalls,
                     LedgerSpots, LedgerRecords
<1>2. Ledger!SingleUse /\ Ledger!JournalAhead /\ Ledger!OpenIsMarked
  BY DEF LedgerInv, LedgerWorld, Sole, Opened, LedgerKept, Ledger!SingleUse,
         Ledger!JournalAhead, Ledger!OpenIsMarked
<1>3. Ledger!EvidenceFromJournal
  BY DEF LedgerInv, LedgerWorld, Source, Sealed, LedgerKept, Ledger!EvidenceFromJournal
<1>4. Ledger!BundleLast
  <2>1. Ready("bundle") = Ledger!Written \ {"bundle"} /\ "bundle" \in Ledger!Written
    BY LedgerReadies, LedgerNames
  <2> QED
    BY <2>1 DEF LedgerInv, LedgerWorld, Chain, Readied, Ledger!BundleLast
<1> QED
  BY <1>1, <1>2, <1>3, <1>4

LEMMA LedgerSpecSafe ==
    Ledger!Spec => [](/\ Ledger!TypeOK
                      /\ Ledger!SingleUse
                      /\ Ledger!JournalAhead
                      /\ Ledger!EvidenceFromJournal
                      /\ Ledger!BundleLast
                      /\ Ledger!OpenIsMarked)
  BY LedgerStarts, LedgerKeeps, LedgerSays, PTL DEF Ledger!Spec

LEMMA LedgerRun == EitherSpec => Ledger!Spec
<1>1. EitherInit => Ledger!Init
  BY DEF EitherInit
<1>2. [EitherNext]_either => [Ledger!Next]_(Ledger!vars)
  BY DEF EitherNext, either, ledgerVars, Ledger!vars, Ledger!world
<1> QED
  BY <1>1, <1>2, PTL DEF EitherSpec, Ledger!Spec

(* Whatever the run checks of the ledger (LedgerSafe) holds for any number *)
(* of processes and mutations, and through failing calls, dying processes  *)
(* and losses of power between any two calls of the file system: one       *)
(* execution mutates, each mutation, of the plan or of the compensation    *)
(* after an exception, has its durable intent, the evidence is that of     *)
(* the plan's complete journal and ends with the bundle, and an open       *)
(* network is durably marked.                                              *)
THEOREM LedgerHolds == EitherSpec => []LedgerSafe
<1>1. (/\ Ledger!TypeOK
       /\ Ledger!SingleUse
       /\ Ledger!JournalAhead
       /\ Ledger!EvidenceFromJournal
       /\ Ledger!BundleLast
       /\ Ledger!OpenIsMarked) => LedgerSafe
  BY DEF LedgerSafe
<1> QED
  BY <1>1, LedgerRun, LedgerSpecSafe, PTL

-----------------------------------------------------------------------------
(* The maintenance of the key's expiry.  Each step of the run has a latest *)
(* time to begin, so that the cleanup always fits; what may still create a *)
(* grant is owned or too late, and nothing is on its way behind a run      *)
(* without a failure.                                                      *)

(* How late it may be at a step.  A creation is looked for until the end   *)
(* of its window, and each of the two answers takes at most one envelope.  *)
OnTime ==
    /\ pcKey = "absentRole"        => now \in 0..116
    /\ pcKey = "putRole"           => now \in 0..208
    /\ pcKey = "settleRole"        => now \in 0..300
    /\ pcKey = "absentAssignment"  => now \in 0..392
    /\ pcKey = "putAssignment"     => now \in 0..484
    /\ pcKey = "settleAssignment"  => now \in 0..300
    /\ pcKey = "propagate"         => now \in 0..392
    /\ pcKey = "getKey"            => now \in 0..480
    /\ pcKey = "patch"             => now \in 0..572
    /\ pcKey = "reread"            => now \in 0..664
    /\ pcKey = "cleanup" => /\ now \in 0..1084
                            /\ uncertain # {} => now \in 0..992
                            /\ uncertain = Key!Kinds => now \in 0..900
    /\ pcKey = "unlock"            => now \in 0..1084
    /\ pcKey = "delete"            => now \in 0..1574
    /\ pcKey = "relock"            => now \in 0..2544
    /\ pcKey = "restore"           => now \in 0..2544
    /\ pcKey = "definition"        => now \in 0..2942
    /\ pcKey = "proof"             => now \in 0..3912
Windows == boundary \in [Key!Kinds -> 0..900]

(* A creation that may still take effect is of a grant that is owned; one  *)
(* that was given up can take effect no more.                              *)
BeforeRole       == {"start", "absentRole", "putRole"}
BeforeAssignment == BeforeRole \union {"settleRole", "absentAssignment", "putAssignment"}
Grants ==
    /\ pcKey = "start" => uncertain = {}
    /\ pcKey \in BeforeRole => "role" \notin attempts
    /\ pcKey \in BeforeAssignment => "assignment" \notin attempts
    /\ flightKey \subseteq attempts
    /\ pcKey \notin {"raised", "dead"} =>
             /\ there \subseteq owned
             /\ \A k \in Key!Kinds : k \in flightKey /\ k \notin owned
                  => now > boundary[k] - Key!Request
    /\ pcKey = "settleRole" => "role" \in owned
    /\ pcKey = "settleAssignment" => "assignment" \in owned

KeyTruth ==
    /\ flightKey # {} => failure
    /\ receipt # "none" => pcKey = "done" /\ lockKey
    /\ receipt = "PASS" => ~failure /\ there = {} /\ exp = "new"

KeyInv == Key!TypeOK /\ OnTime /\ Windows /\ ~lateKey /\ Grants /\ KeyTruth

LEMMA KeySteps ==
    /\ Key!AbsentAt["role"] = "absentRole" /\ Key!AbsentAt["assignment"] = "absentAssignment"
    /\ Key!PutAt["role"] = "putRole" /\ Key!PutAt["assignment"] = "putAssignment"
    /\ Key!SettleAt["role"] = "settleRole" /\ Key!SettleAt["assignment"] = "settleAssignment"
  BY DEF Key!AbsentAt, Key!PutAt, Key!SettleAt

LEMMA Lengths ==
    /\ Key!Longest["unlock"] = 490 /\ Key!Longest["delete"] = 970 /\ Key!Longest["relock"] = 398
    /\ Key!Longest["restore"] = 398 /\ Key!Longest["definition"] = 970 /\ Key!Longest["proof"] = 1592
  BY DEF Key!Longest

LEMMA KeyClaimKeeps == ASSUME KeyInv, Key!Claim PROVE KeyInv'
<1>1. Key!TypeOK'
  BY DEF KeyInv, Key!TypeOK, Key!Claim, Key!Cloud, Key!Own
<1>2. OnTime'
  BY DEF KeyInv, Key!TypeOK, OnTime, Key!Claim, Key!Cloud, Key!Own, Key!Request
<1>3. Grants'
  BY DEF KeyInv, Grants, Key!Claim, Key!Cloud, Key!Own, BeforeRole, BeforeAssignment
<1>4. KeyTruth'
  BY DEF KeyInv, KeyTruth, Key!Claim, Key!Cloud, Key!Own
<1>9. Windows' /\ ~lateKey'
  BY DEF KeyInv, Windows, Key!Claim, Key!Own
<1> QED
  BY <1>1, <1>2, <1>3, <1>4, <1>9 DEF KeyInv

LEMMA KeyAbsentKeeps == ASSUME KeyInv, NEW k \in Key!Kinds, Key!Absent(k) PROVE KeyInv'
<1>0. /\ (k = "role" /\ pcKey = "absentRole")
           \/ (k = "assignment" /\ pcKey = "absentAssignment")
      /\ UNCHANGED <<claimed, there, lockKey, exp, flightKey, owned, uncertain, boundary, attempts>>
      /\ UNCHANGED <<renewal, lateKey, receipt>>
  BY KeySteps DEF Key!Absent, Key!Kinds, Key!Cloud, Key!Own
<1>a. /\ now' \in {now + 2, now + 92}
      /\ pcKey' = "cleanup" \/ (pcKey' = Key!PutAt[k] /\ k \notin there)
      /\ failure => failure'
  BY DEF Key!Absent, Key!Raise, Key!Take, Key!Quick, Key!Request
<1>b. failure' \in BOOLEAN
  BY DEF Key!Absent, Key!Raise, KeyInv, Key!TypeOK
<1>c. faultsKey' \in 0 .. MaxTroubles
  BY ExecutorsOK DEF Key!Absent, Key!Fault, KeyInv, Key!TypeOK
<1>1. Key!TypeOK'
  <2>1. pcKey' \in {"cleanup", "putRole", "putAssignment"}
    BY <1>a, KeySteps DEF Key!Kinds
  <2>2. now' \in Nat
    BY SMTT(60), <1>a DEF KeyInv, Key!TypeOK
  <2> QED
    BY <1>0, <1>b, <1>c, <2>1, <2>2 DEF KeyInv, Key!TypeOK
<1>2. OnTime'
  BY SMTT(60), <1>0, <1>a, KeySteps DEF KeyInv, Key!TypeOK, OnTime, Key!Request
<1>3. Grants'
  BY <1>0, <1>a, KeySteps DEF KeyInv, Key!TypeOK, Grants, BeforeRole, BeforeAssignment,
                              Key!Request
<1>4. KeyTruth'
  <2>1. pcKey # "done"
    BY <1>0
  <2> QED
    BY <1>0, <1>a, <2>1 DEF KeyInv, KeyTruth
<1>9. Windows' /\ ~lateKey'
  BY <1>0 DEF KeyInv, Windows
<1> QED
  BY <1>1, <1>2, <1>3, <1>4, <1>9 DEF KeyInv

LEMMA KeyPutKeeps == ASSUME KeyInv, NEW k \in Key!Kinds, Key!Put(k) PROVE KeyInv'
<1>0. /\ (k = "role" /\ pcKey = "putRole") \/ (k = "assignment" /\ pcKey = "putAssignment")
      /\ UNCHANGED <<claimed, renewal, lateKey, receipt>>
  BY KeySteps DEF Key!Put, Key!Kinds
<1>z. receipt = "none"
  BY <1>0 DEF KeyInv, KeyTruth
<1>1. CASE now > 208 /\ Key!Raise /\ UNCHANGED <<now, Key!Cloud, Key!Own, faultsKey>>
  <2>1. Key!TypeOK'
    BY SMTT(60), <1>0, <1>1 DEF KeyInv, Key!TypeOK, Key!Raise, Key!Cloud, Key!Own
  <2>2. OnTime'
    BY <1>0, <1>1 DEF KeyInv, Key!TypeOK, OnTime, Key!Request, Key!Raise, Key!Cloud,
                      Key!Own
  <2>3. Grants'
    BY <1>0, <1>1 DEF KeyInv, Key!TypeOK, Grants, BeforeRole, BeforeAssignment,
                      Key!Raise, Key!Cloud, Key!Own
  <2>4. KeyTruth'
    BY <1>0, <1>z, <1>1 DEF KeyTruth, Key!Raise
  <2>5. Windows' /\ ~lateKey'
    BY <1>0, <1>1 DEF KeyInv, Windows, Key!Own
  <2> QED
    BY <2>1, <2>2, <2>3, <2>4, <2>5 DEF KeyInv
<1>2. CASE now <= 208
  <2>1. /\ owned' = owned \union {k} /\ boundary' = [boundary EXCEPT ![k] = now + 692]
        /\ attempts' = attempts \union {k} /\ UNCHANGED <<lockKey, exp>>
        /\ now' \in {now + 2, now + 92}
        /\ \/ there' = there \union {k} /\ pcKey' = Key!SettleAt[k]
              /\ UNCHANGED <<flightKey, uncertain, failure, faultsKey>>
           \/ /\ pcKey' = "cleanup" /\ failure' = TRUE /\ faultsKey' \in 0 .. MaxTroubles
              /\ uncertain' = uncertain \union {k}
              /\ there' \in {there, there \union {k}}
                   /\ flightKey' \in {flightKey, flightKey \union {k}}
    BY <1>0, <1>2, ExecutorsOK
       DEF Key!Put, Key!Raise, Key!Fault, Key!Take, Key!Quick, Key!Request, Key!Window,
           KeyInv, Key!TypeOK
  <2>2. /\ boundary' \in [Key!Kinds -> Nat] /\ boundary'[k] = now + 692
        /\ \A j \in Key!Kinds \ {k} : boundary'[j] = boundary[j]
    BY <2>1 DEF KeyInv, Key!TypeOK
  <2>3. Key!TypeOK'
    <3>1. pcKey' \in {"cleanup", "settleRole", "settleAssignment"}
      BY <2>1, KeySteps DEF Key!Kinds
    <3>2. now' \in Nat /\ faultsKey' \in 0 .. MaxTroubles /\ lockKey' \in BOOLEAN
      BY <2>1 DEF KeyInv, Key!TypeOK
    <3>3. failure' \in BOOLEAN
      BY <2>1 DEF KeyInv, Key!TypeOK
    <3>4. /\ there' \subseteq Key!Kinds /\ flightKey' \subseteq Key!Kinds \union {"patch"}
          /\ owned' \subseteq Key!Kinds /\ uncertain' \subseteq owned'
          /\ attempts' \subseteq Key!Kinds \union {"patch"}
      BY <2>1 DEF KeyInv, Key!TypeOK
    <3> QED
      BY <1>0, <2>1, <2>2, <3>1, <3>2, <3>3, <3>4 DEF KeyInv, Key!TypeOK
  <2>4. OnTime'
    BY <1>0, <1>2, <2>1, KeySteps DEF KeyInv, Key!TypeOK, OnTime
  <2>7. Windows' /\ ~lateKey'
    <3>1. now + 692 \in 0..900
      BY <1>2 DEF KeyInv, Key!TypeOK
    <3> QED
      BY <1>0, <2>1, <3>1 DEF KeyInv, Windows
  <2>5. Grants'
    <3>1. ASSUME NEW j \in Key!Kinds, j \in flightKey', j \notin owned'
          PROVE  now' > boundary'[j] - Key!Request
      <4>1. j # k /\ j \in flightKey /\ j \notin owned
        BY <2>1, <3>1
      <4> QED
        BY <1>0, <2>1, <2>2, <4>1
           DEF KeyInv, Key!TypeOK, Grants, Key!Request, BeforeRole, BeforeAssignment
    <3>2. there' \subseteq owned' /\ flightKey' \subseteq attempts'
      BY <1>0, <2>1 DEF KeyInv, Grants
    <3>3. /\ pcKey' # "start" /\ pcKey' \notin BeforeRole
          /\ pcKey' \in BeforeAssignment => "assignment" \notin attempts'
          /\ pcKey' = "settleRole" => "role" \in owned'
          /\ pcKey' = "settleAssignment" => "assignment" \in owned'
      BY <1>0, <2>1, KeySteps DEF KeyInv, Grants, BeforeRole, BeforeAssignment
    <3> QED
      BY <3>1, <3>2, <3>3 DEF Grants
  <2>6. KeyTruth'
    <3>1. flightKey' # {} => failure'
      BY <2>1 DEF KeyInv, KeyTruth
    <3> QED
      BY <1>0, <1>z, <3>1 DEF KeyTruth
  <2> QED
    BY <2>3, <2>4, <2>5, <2>6, <2>7 DEF KeyInv
<1> QED
  BY <1>1, <1>2 DEF Key!Put, KeyInv, Key!TypeOK

LEMMA KeySettleKeeps == ASSUME KeyInv, NEW k \in Key!Kinds, Key!Settle(k) PROVE KeyInv'
<1>0. /\ (k = "role" /\ pcKey = "settleRole")
           \/ (k = "assignment" /\ pcKey = "settleAssignment")
      /\ UNCHANGED <<claimed, there, lockKey, exp, flightKey, owned, boundary, attempts>>
      /\ UNCHANGED <<renewal, lateKey, receipt>>
  BY KeySteps DEF Key!Settle, Key!Kinds, Key!Cloud
<1>a. now' \in {now + 2, now + 92}
  BY DEF Key!Settle, Key!Take, Key!Quick, Key!Request
<1>d. failure => failure'
  BY DEF Key!Settle, Key!Raise
<1>e. /\ uncertain' \in {uncertain, uncertain \union {k}}
      /\ pcKey' \in {"cleanup", "absentAssignment", "propagate"}
      /\ pcKey' = "absentAssignment" => k = "role"
  BY DEF Key!Settle, Key!Raise
<1>b. failure' \in BOOLEAN
  BY DEF Key!Settle, Key!Raise, KeyInv, Key!TypeOK
<1>c. faultsKey' \in 0 .. MaxTroubles
  BY ExecutorsOK DEF Key!Settle, Key!Fault, KeyInv, Key!TypeOK
<1>1. k \in owned
  BY <1>0 DEF KeyInv, Grants
<1>2. Key!TypeOK'
  <2>1. /\ pcKey' \in {"cleanup", "absentAssignment", "propagate"}
        /\ uncertain' \subseteq owned
    BY <1>e, <1>1 DEF KeyInv, Key!TypeOK
  <2>2. now' \in Nat
    BY SMTT(60), <1>a DEF KeyInv, Key!TypeOK
  <2> QED
    BY <1>0, <1>b, <1>c, <2>1, <2>2 DEF KeyInv, Key!TypeOK
<1>3. OnTime'
  <2>1. k = "role" => now' \in 0..392
    BY <1>0, <1>a DEF KeyInv, Key!TypeOK, OnTime
  <2>2. k = "assignment" => now' \in 0..392
    BY <1>0, <1>a DEF KeyInv, Key!TypeOK, OnTime
  <2>3. now' \in 0..392
    BY <2>1, <2>2 DEF Key!Kinds
  <2> QED
    BY <1>e, <2>3 DEF OnTime
<1>4. Grants'
  <2>1. now' > now
    BY <1>a DEF KeyInv, Key!TypeOK
  <2>2. "assignment" \in attempts => pcKey' # "absentAssignment"
    BY <1>0, <1>e DEF KeyInv, Grants, BeforeAssignment, BeforeRole
  <2>3. ASSUME NEW j \in Key!Kinds, j \in flightKey, j \notin owned
        PROVE  now' > boundary[j] - Key!Request
    <3>1. boundary[j] \in Nat /\ now \in Nat /\ now' \in Nat
      BY <1>2 DEF KeyInv, Key!TypeOK
    <3>2. now > boundary[j] - Key!Request
      BY <1>0, <2>3 DEF KeyInv, Grants
    <3> QED
      BY <2>1, <3>1, <3>2 DEF Key!Request
  <2>4. there \subseteq owned /\ flightKey \subseteq attempts
    BY <1>0 DEF KeyInv, Grants
  <2> QED
    BY <1>0, <1>e, <2>2, <2>3, <2>4 DEF Grants, BeforeRole, BeforeAssignment
<1>5. KeyTruth'
  <2>1. pcKey # "done"
    BY <1>0
  <2> QED
    BY <1>0, <1>d, <2>1 DEF KeyInv, KeyTruth
<1>9. Windows' /\ ~lateKey'
  BY <1>0 DEF KeyInv, Windows
<1> QED
  BY <1>2, <1>3, <1>4, <1>5, <1>9 DEF KeyInv

(* The steps that create no grant and give none up.                        *)
LEMMA KeyUntouched ==
    ASSUME KeyInv, now' \in Nat, now' >= now, pcKey' \notin BeforeAssignment,
           pcKey' \notin {"settleRole", "settleAssignment"},
           there' \subseteq there, flightKey' \subseteq attempts',
           \A j \in Key!Kinds : j \in flightKey' => j \in flightKey,
           UNCHANGED <<boundary, owned>>,
           pcKey \in {"raised", "dead"} => pcKey' \in {"raised", "dead"}
    PROVE  Grants'
<1>1. ASSUME NEW j \in Key!Kinds, j \in flightKey', j \notin owned,
             pcKey \notin {"raised", "dead"}
      PROVE  now' > boundary[j] - Key!Request
  <2>1. boundary[j] \in Nat /\ now \in Nat
    BY DEF KeyInv, Key!TypeOK
  <2>2. now > boundary[j] - Key!Request
    BY <1>1 DEF KeyInv, Grants
  <2> QED
    BY <2>1, <2>2 DEF Key!Request
<1>2. pcKey' # "start" /\ pcKey' \notin BeforeRole
  BY DEF BeforeRole, BeforeAssignment
<1>3. pcKey \notin {"raised", "dead"} => there' \subseteq owned
  BY DEF KeyInv, Grants
<1> QED
  BY <1>1, <1>2, <1>3 DEF Grants

LEMMA KeyKnown == KeyInv => flightKey \subseteq attempts
  BY DEF KeyInv, Grants

LEMMA KeyPropagateKeeps == ASSUME KeyInv, Key!Propagate PROVE KeyInv'
<1>1. Key!TypeOK'
  BY DEF KeyInv, Key!TypeOK, Key!Propagate, Key!Cloud, Key!Own
<1>2. OnTime'
  BY DEF KeyInv, Key!TypeOK, OnTime, Key!Propagate
<1>3. Grants'
  <2>1. now' \in Nat /\ now' >= now
    BY DEF KeyInv, Key!TypeOK, Key!Propagate
  <2> QED
    BY <2>1, KeyUntouched, KeyKnown
       DEF Key!Propagate, Key!Cloud, Key!Own, BeforeRole, BeforeAssignment
<1>4. KeyTruth'
  BY DEF KeyInv, KeyTruth, Key!Propagate, Key!Cloud, Key!Own
<1>9. Windows' /\ ~lateKey'
  BY DEF KeyInv, Windows, Key!Propagate, Key!Own
<1> QED
  BY <1>1, <1>2, <1>3, <1>4, <1>9 DEF KeyInv

LEMMA KeyGetKeyKeeps == ASSUME KeyInv, Key!GetKey PROVE KeyInv'
<1>0. /\ pcKey = "getKey" /\ pcKey' \in {"patch", "cleanup"} /\ (failure => failure')
      /\ UNCHANGED <<claimed, there, lockKey, exp, flightKey, owned, uncertain, boundary, attempts>>
      /\ UNCHANGED <<renewal, lateKey, receipt>>
  BY DEF Key!GetKey, Key!Raise, Key!Cloud, Key!Own
<1>a. now' \in {now + 2, now + 92}
  BY DEF Key!GetKey, Key!Take, Key!Quick, Key!Request
<1>b. failure' \in BOOLEAN
  BY DEF Key!GetKey, Key!Raise, KeyInv, Key!TypeOK
<1>c. faultsKey' \in 0 .. MaxTroubles
  BY ExecutorsOK DEF Key!GetKey, Key!Fault, KeyInv, Key!TypeOK
<1>d. now' \in Nat /\ now' >= now
  BY <1>a DEF KeyInv, Key!TypeOK
<1>1. Key!TypeOK'
  BY SMTT(60), <1>0, <1>b, <1>c, <1>d DEF KeyInv, Key!TypeOK
<1>2. OnTime'
  <2>1. now' \in 0..572
    BY <1>0, <1>a DEF KeyInv, Key!TypeOK, OnTime
  <2> QED
    BY <1>0, <2>1 DEF OnTime
<1>3. Grants'
  BY <1>0, <1>d, KeyUntouched, KeyKnown DEF BeforeRole, BeforeAssignment
<1>4. KeyTruth'
  <2>1. pcKey # "done"
    BY <1>0
  <2> QED
    BY <1>0, <2>1 DEF KeyInv, KeyTruth
<1>9. Windows' /\ ~lateKey'
  BY <1>0 DEF KeyInv, Windows
<1> QED
  BY <1>1, <1>2, <1>3, <1>4, <1>9 DEF KeyInv

LEMMA KeyRereadKeeps == ASSUME KeyInv, Key!Reread PROVE KeyInv'
<1>0. /\ pcKey = "reread" /\ pcKey' = "cleanup" /\ (failure => failure')
      /\ UNCHANGED <<claimed, there, lockKey, exp, flightKey, owned, uncertain, boundary, attempts>>
      /\ UNCHANGED <<lateKey, receipt>>
  BY DEF Key!Reread, Key!Raise, Key!Cloud, Key!Own
<1>a. now' \in {now + 2, now + 92}
  BY DEF Key!Reread, Key!Take, Key!Quick, Key!Request
<1>b. failure' \in BOOLEAN /\ renewal' \in {"NONE", "ACCEPTED", "FAILED", "PASS"}
  BY ZenonT(60) DEF Key!Reread, Key!Raise, KeyInv, Key!TypeOK
<1>c. faultsKey' \in 0 .. MaxTroubles
  BY ExecutorsOK DEF Key!Reread, Key!Fault, KeyInv, Key!TypeOK
<1>d. now' \in Nat /\ now' >= now
  BY <1>a DEF KeyInv, Key!TypeOK
<1>1. Key!TypeOK'
  BY <1>0, <1>b, <1>c, <1>d DEF KeyInv, Key!TypeOK
<1>2. OnTime'
  <2>1. now' \in 0..756
    BY <1>0, <1>a DEF KeyInv, Key!TypeOK, OnTime
  <2> QED
    BY <1>0, <2>1 DEF OnTime
<1>3. Grants'
  BY <1>0, <1>d, KeyUntouched, KeyKnown DEF BeforeRole, BeforeAssignment
<1>4. KeyTruth'
  <2>1. pcKey # "done"
    BY <1>0
  <2> QED
    BY <1>0, <2>1 DEF KeyInv, KeyTruth
<1>9. Windows' /\ ~lateKey'
  BY <1>0 DEF KeyInv, Windows
<1> QED
  BY <1>1, <1>2, <1>3, <1>4, <1>9 DEF KeyInv

LEMMA KeyPatchKeeps == ASSUME KeyInv, Key!Patch PROVE KeyInv'
<1>0. /\ pcKey = "patch" /\ pcKey' = "reread" /\ (failure => failure')
      /\ UNCHANGED <<claimed, there, lockKey, owned, uncertain, boundary, lateKey, receipt>>
  BY DEF Key!Patch
<1>a. now' \in {now, now + 2, now + 92}
  BY DEF Key!Patch, Key!Take, Key!Quick, Key!Request
<1>b. failure' \in BOOLEAN
  <2>1. failure' = TRUE \/ failure' = failure
    BY DEF Key!Patch
  <2> QED
    BY <2>1 DEF KeyInv, Key!TypeOK
<1>e. renewal' \in {"NONE", "ACCEPTED", "FAILED", "PASS"} /\ exp' \in {"old", "new"}
  BY DEF Key!Patch, KeyInv, Key!TypeOK
<1>c. faultsKey' \in 0 .. MaxTroubles
  BY ExecutorsOK DEF Key!Patch, Key!Fault, KeyInv, Key!TypeOK
<1>d. now' \in Nat /\ now' >= now
  BY <1>a DEF KeyInv, Key!TypeOK
<1>f. /\ attempts' \in {attempts, attempts \union {"patch"}}
      /\ flightKey' = flightKey \/ (flightKey' = flightKey \union {"patch"} /\ failure'
                                      /\ attempts' = attempts \union {"patch"})
  BY DEF Key!Patch
<1>g. flightKey' \subseteq attempts' /\ \A j \in Key!Kinds : j \in flightKey' => j \in flightKey
  BY <1>f, KeyKnown DEF Key!Kinds
<1>1. Key!TypeOK'
  <2>1. /\ attempts' \subseteq Key!Kinds \union {"patch"}
        /\ flightKey' \subseteq Key!Kinds \union {"patch"}
    BY <1>f DEF KeyInv, Key!TypeOK
  <2> QED
    BY <1>0, <1>b, <1>c, <1>d, <1>e, <2>1 DEF KeyInv, Key!TypeOK
<1>2. OnTime'
  <2>1. now' \in 0..664
    BY <1>0, <1>a DEF KeyInv, Key!TypeOK, OnTime
  <2> QED
    BY <1>0, <2>1 DEF OnTime
<1>3. Grants'
  BY <1>0, <1>d, <1>g, KeyUntouched DEF BeforeRole, BeforeAssignment
<1>4. KeyTruth'
  <2>1. receipt = "none"
    BY <1>0 DEF KeyInv, KeyTruth
  <2>2. flightKey' # {} => failure'
    BY <1>0, <1>f DEF KeyInv, KeyTruth
  <2> QED
    BY <1>0, <2>1, <2>2 DEF KeyTruth
<1>9. Windows' /\ ~lateKey'
  BY <1>0 DEF KeyInv, Windows
<1> QED
  BY <1>1, <1>2, <1>3, <1>4, <1>9 DEF KeyInv

LEMMA Waits ==
    ASSUME NEW t \in Nat, NEW b \in 0..900, t < b
    PROVE  /\ (IF t + Key!Poll < b THEN t + Key!Poll ELSE b) \in 0..900
           /\ (IF t + Key!Poll < b THEN t + Key!Poll ELSE b) >= t
  BY DEF Key!Poll

LEMMA KeyReconcilingKeeps == ASSUME KeyInv, Key!Reconciling PROVE KeyInv'
<1>0. PICK k \in uncertain : Key!Reconcile(k)
  BY DEF Key!Reconciling
<1>1. /\ pcKey = "cleanup"
      /\ UNCHANGED <<claimed, there, lockKey, exp, flightKey, attempts, renewal, receipt, lateKey, boundary>>
  BY <1>0 DEF Key!Reconciling, Key!Reconcile, Key!Cloud
<1>2. /\ (failure => failure') /\ k \in owned /\ k \in Key!Kinds
      /\ pcKey' \in {"cleanup", "proof"}
      /\ uncertain' \in {uncertain, uncertain \ {k}}
      /\ owned' \in {owned, owned \ {k}}
  BY <1>0, <1>1 DEF Key!Reconcile, KeyInv, Key!TypeOK
<1>3. failure' \in BOOLEAN
  BY <1>0 DEF Key!Reconcile, KeyInv, Key!TypeOK
<1>4. faultsKey' \in 0 .. MaxTroubles
  BY <1>0, ExecutorsOK DEF Key!Reconcile, Key!Fault, KeyInv, Key!TypeOK
<1>5. boundary[k] \in 0..900 /\ now \in 0..1084
  BY <1>1, <1>2 DEF KeyInv, Windows, OnTime
<1>7. \/ now' \in 0..900 /\ now' >= now /\ uncertain' = uncertain /\ pcKey' = "cleanup"
           /\ owned' = owned
      \/ pcKey' = "proof" /\ now' = now /\ owned' = owned
      \/ /\ now' \in {now + 2, now + 92} /\ uncertain' = uncertain \ {k} /\ pcKey' = "cleanup"
         /\ owned' = owned \/ (owned' = owned \ {k} /\ k \notin there /\ now >= boundary[k])
  <2>1. CASE k \notin there /\ now < boundary[k]
               /\ now' = (IF now + Key!Poll < boundary[k] THEN now + Key!Poll ELSE boundary[k])
               /\ UNCHANGED <<uncertain, owned, pcKey, failure, lateKey, faultsKey>>
    <3>0. now \in Nat /\ now < boundary[k]
      BY <2>1 DEF KeyInv, Key!TypeOK
    <3>1. now' \in 0..900 /\ now' >= now
      <4>1. now' = (IF now + Key!Poll < boundary[k] THEN now + Key!Poll ELSE boundary[k])
        BY <2>1
      <4>2. boundary[k] \in 0..900
        BY SMTT(60), <1>5
      <4>3. /\ (IF now + Key!Poll < boundary[k] THEN now + Key!Poll ELSE boundary[k]) \in 0..900
            /\ (IF now + Key!Poll < boundary[k] THEN now + Key!Poll ELSE boundary[k]) >= now
        BY ZenonT(60), <3>0, <4>2, Waits
      <4> QED
        BY <4>1, <4>3
    <3> QED
      BY <1>1, <2>1, <3>1
  <2>2. CASE k \in there /\ uncertain' = uncertain \ {k}
               /\ (\E d \in {Key!Quick, Key!Request} : Key!Take(d))
               /\ UNCHANGED <<owned, pcKey, failure, lateKey, faultsKey>>
    BY <1>1, <2>2 DEF Key!Quick, Key!Request, Key!Take
  <2>3. CASE k \notin there /\ now >= boundary[k] /\ uncertain' = uncertain \ {k}
               /\ owned' = owned \ {k} /\ (\E d \in {Key!Quick, Key!Request} : Key!Take(d))
               /\ UNCHANGED <<pcKey, failure, lateKey, faultsKey>>
    BY <1>1, <2>3 DEF Key!Quick, Key!Request, Key!Take
  <2>4. CASE pcKey' = "proof" /\ UNCHANGED <<now, uncertain, owned, lateKey>>
    BY <2>4
  <2> QED
    BY <1>0, <2>1, <2>2, <2>3, <2>4 DEF Key!Reconcile, Key!Boundary
<1>6. now' \in Nat /\ now' >= now
  <2>1. now \in Nat
    BY DEF KeyInv, Key!TypeOK
  <2> QED
    BY <1>7, <2>1
<1>10. Key!TypeOK'
  <2>1. owned' \subseteq Key!Kinds /\ uncertain' \subseteq owned'
    BY <1>2, <1>7 DEF KeyInv, Key!TypeOK
  <2> QED
    BY <1>1, <1>2, <1>3, <1>4, <1>6, <2>1 DEF KeyInv, Key!TypeOK
<1>11. OnTime'
  <2>1. CASE now' \in 0..900
    BY <1>2, <2>1 DEF OnTime
  <2>2. CASE pcKey' = "proof" /\ now' = now
    <3>1. now' \in 0..3912
      BY <1>5, <2>2
    <3> QED
      BY <2>2, <3>1 DEF OnTime
  <2>3. CASE now' \in {now + 2, now + 92} /\ uncertain' = uncertain \ {k}
             /\ pcKey' = "cleanup"
    <3>1. now \in 0..992 /\ (uncertain = Key!Kinds => now \in 0..900)
      BY <1>0, <1>1 DEF KeyInv, OnTime
    <3>2. now' \in 0..1084 /\ (uncertain = Key!Kinds => now' \in 0..992)
      BY <2>3, <3>1
    <3>3. uncertain' # {} => uncertain = Key!Kinds
      <4>1. SUFFICES ASSUME NEW j \in uncertain, j # k PROVE uncertain = Key!Kinds
        BY <2>3
      <4>2. uncertain \subseteq Key!Kinds /\ k \in uncertain
        BY <1>0 DEF KeyInv, Key!TypeOK
      <4> QED
        BY <4>1, <4>2 DEF Key!Kinds
    <3>4. uncertain' # Key!Kinds
      BY <1>2, <2>3 DEF Key!Kinds
    <3> QED
      BY SMTT(60), <2>3, <3>2, <3>3, <3>4 DEF OnTime
  <2> QED
    BY <1>7, <2>1, <2>2, <2>3
<1>12. Grants'
  <2>1. ASSUME NEW j \in Key!Kinds, j \in flightKey, j \notin owned'
        PROVE  now' > boundary[j] - Key!Request
    <3>1. boundary[j] \in Nat /\ now \in Nat
      BY DEF KeyInv, Key!TypeOK
    <3>2. CASE j \notin owned
      <4>1. now > boundary[j] - Key!Request
        BY <1>1, <2>1, <3>2 DEF KeyInv, Grants
      <4> QED
        BY <1>6, <3>1, <4>1 DEF Key!Request
    <3>3. CASE j \in owned
      <4>1. j = k /\ now >= boundary[k]
        BY <1>7, <2>1, <3>3
      <4> QED
        BY <1>6, <3>1, <4>1 DEF Key!Request
    <3> QED
      BY <3>2, <3>3
  <2>2. there \subseteq owned' /\ flightKey \subseteq attempts
    <3>1. there \subseteq owned /\ flightKey \subseteq attempts
      BY <1>1 DEF KeyInv, Grants
    <3> QED
      BY <1>7, <3>1
  <2> QED
    BY <1>1, <1>2, <2>1, <2>2 DEF Grants, BeforeRole, BeforeAssignment
<1>13. KeyTruth'
  <2>1. receipt = "none" /\ (flightKey # {} => failure)
    BY <1>1 DEF KeyInv, KeyTruth
  <2> QED
    BY <1>1, <1>2, <2>1 DEF KeyTruth
<1>14. Windows' /\ ~lateKey'
  BY <1>1 DEF KeyInv, Windows
<1> QED
  BY <1>10, <1>11, <1>12, <1>13, <1>14 DEF KeyInv

LEMMA KeyReconciledKeeps == ASSUME KeyInv, Key!Reconciled PROVE KeyInv'
<1>0. /\ pcKey = "cleanup" /\ pcKey' \in {"unlock", "definition"}
      /\ UNCHANGED <<now, claimed, there, lockKey, exp, flightKey, owned, uncertain, boundary>>
      /\ UNCHANGED <<attempts, renewal, failure, lateKey, receipt, faultsKey>>
  BY DEF Key!Reconciled, Key!Cloud, Key!Own
<1>1. Key!TypeOK'
  BY SMTT(60), <1>0 DEF KeyInv, Key!TypeOK
<1>2. OnTime'
  <2>1. now' \in 0..1084
    BY <1>0 DEF KeyInv, OnTime
  <2> QED
    BY <1>0, <2>1 DEF OnTime
<1>3. Grants'
  BY <1>0 DEF KeyInv, Grants, BeforeRole, BeforeAssignment
<1>4. KeyTruth'
  BY <1>0 DEF KeyInv, KeyTruth
<1>9. Windows' /\ ~lateKey'
  BY <1>0 DEF KeyInv, Windows
<1> QED
  BY <1>1, <1>2, <1>3, <1>4, <1>9 DEF KeyInv

(* A phase of the cleanup ends in time when it begins in time.             *)
LEMMA Phases ==
    ASSUME KeyInv, NEW name \in {"unlock", "delete", "relock", "restore", "definition", "proof"},
           NEW end \in {Key!End, Key!End + 900}, Key!Phase(name, end)
    PROVE  /\ now' \in Nat /\ now' >= now /\ ~lateKey' /\ lateKey' \in BOOLEAN
             /\ now' <= Key!End /\ pcKey = name
           /\ name = "unlock" => now' \in 0..1574
           /\ name = "delete" => now' \in 0..2544
           /\ name \in {"relock", "restore"} => now' \in 0..2942
           /\ name = "definition" => now' \in 0..3912
<1> DEFINE Timely ==
      /\ now' \in Nat /\ now' >= now /\ ~lateKey' /\ lateKey' \in BOOLEAN
           /\ now' <= Key!End /\ pcKey = name
      /\ name = "unlock" => now' \in 0..1574
      /\ name = "delete" => now' \in 0..2544
      /\ name \in {"relock", "restore"} => now' \in 0..2942
      /\ name = "definition" => now' \in 0..3912
<1> SUFFICES Timely
  OBVIOUS
<1>0. lateKey' \in BOOLEAN
  BY DEF Key!Phase
<1>1. pcKey = name /\ (lateKey' <=> (lateKey \/ now' > end)) /\ ~lateKey
  BY DEF Key!Phase, KeyInv
<1>2. now' \in {now + 120, now + 2, now + Key!Longest[name]}
  BY DEF Key!Phase, Key!Quick
<1>3. CASE name = "unlock"
  <2>1. now \in 0..1084 /\ Key!Longest[name] = 490
    BY <1>1, <1>3, Lengths DEF KeyInv, OnTime
  <2>2. now' \in 0..1574 /\ now' >= now
    BY <1>2, <2>1
  <2> QED
    BY <1>0, <1>1, <1>3, <2>2 DEF Key!End
<1>4. CASE name = "delete"
  <2>1. now \in 0..1574 /\ Key!Longest[name] = 970
    BY <1>1, <1>4, Lengths DEF KeyInv, OnTime
  <2>2. now' \in 0..2544 /\ now' >= now
    BY SMTT(60), <1>2, <2>1
  <2> QED
    BY <1>0, <1>1, <1>4, <2>2 DEF Key!End
<1>5. CASE name \in {"relock", "restore"}
  <2>1. now \in 0..2544 /\ Key!Longest[name] = 398
    BY <1>1, <1>5, Lengths DEF KeyInv, OnTime
  <2>2. now' \in 0..2942 /\ now' >= now
    BY <1>2, <2>1
  <2> QED
    BY <1>0, <1>1, <1>5, <2>2 DEF Key!End
<1>6. CASE name = "definition"
  <2>1. now \in 0..2942 /\ Key!Longest[name] = 970
    BY <1>1, <1>6, Lengths DEF KeyInv, OnTime
  <2>2. now' \in 0..3912 /\ now' >= now
    BY SMTT(60), <1>2, <2>1
  <2> QED
    BY <1>0, <1>1, <1>6, <2>2 DEF Key!End
<1>7. CASE name = "proof"
  <2>1. now \in 0..3912 /\ Key!Longest[name] = 1592
    BY <1>1, <1>7, Lengths DEF KeyInv, OnTime
  <2>2. now' \in 0..5504 /\ now' >= now
    BY SMTT(60), <1>2, <2>1
  <2> QED
    BY <1>0, <1>1, <1>7, <2>2 DEF Key!End
<1>8. name = "unlock" \/ name = "delete" \/ name \in {"relock", "restore"}
        \/ name = "definition" \/ name = "proof"
  OBVIOUS
<1> HIDE DEF Timely
<1> QED
  BY <1>3, <1>4, <1>5, <1>6, <1>7, <1>8, SMTT(60)

LEMMA KeyUnlockKeeps == ASSUME KeyInv, Key!Unlock PROVE KeyInv'
<1>0. /\ now' \in Nat /\ now' >= now /\ ~lateKey' /\ lateKey' \in BOOLEAN /\ Key!InTime
           /\ now' \in 0..1574 /\ pcKey = "unlock"
  BY Phases DEF Key!Unlock, Key!InTime
<1>1. /\ pcKey' \in {"delete", "restore"} /\ (failure => failure')
      /\ UNCHANGED <<claimed, there, exp, flightKey, owned, uncertain, boundary, attempts>>
      /\ UNCHANGED <<renewal, receipt>>
  BY <1>0 DEF Key!Unlock, Key!Own
<1>2. failure' \in BOOLEAN
  BY DEF Key!Unlock, KeyInv, Key!TypeOK
<1>3. faultsKey' \in 0 .. MaxTroubles
  BY <1>0, ExecutorsOK DEF Key!Unlock, Key!Fault, KeyInv, Key!TypeOK
<1>8. lockKey' \in BOOLEAN
  <2>1. lockKey' = FALSE \/ lockKey' \in BOOLEAN
    BY <1>0 DEF Key!Unlock
  <2> QED
    BY <2>1
<1>4. Key!TypeOK'
  BY <1>0, <1>1, <1>2, <1>3, <1>8 DEF KeyInv, Key!TypeOK
<1>5. OnTime'
  BY <1>0, <1>1 DEF OnTime
<1>6. Grants'
  BY <1>0, <1>1, KeyUntouched, KeyKnown DEF BeforeRole, BeforeAssignment
<1>7. KeyTruth'
  BY <1>0, <1>1 DEF KeyInv, KeyTruth
<1>9. Windows' /\ ~lateKey'
  BY SMTT(60), <1>0, <1>1 DEF KeyInv, Windows
<1> QED
  BY <1>4, <1>5, <1>6, <1>7, <1>9 DEF KeyInv

LEMMA KeyDeleteKeeps == ASSUME KeyInv, Key!Delete PROVE KeyInv'
<1>0. /\ now' \in Nat /\ now' >= now /\ ~lateKey' /\ lateKey' \in BOOLEAN /\ Key!InTime
           /\ now' \in 0..2544 /\ pcKey = "delete"
  BY Phases DEF Key!Delete, Key!InTime
<1>1. /\ pcKey' \in {"relock", "restore"} /\ (failure => failure') /\ there' \subseteq there
      /\ UNCHANGED <<claimed, lockKey, exp, flightKey, owned, uncertain, boundary, attempts>>
      /\ UNCHANGED <<renewal, receipt>>
  BY <1>0 DEF Key!Delete, Key!Own
<1>2. failure' \in BOOLEAN
  BY DEF Key!Delete, KeyInv, Key!TypeOK
<1>3. faultsKey' \in 0 .. MaxTroubles
  BY <1>0, ExecutorsOK DEF Key!Delete, Key!Fault, KeyInv, Key!TypeOK
<1>4. Key!TypeOK'
  BY <1>0, <1>1, <1>2, <1>3 DEF KeyInv, Key!TypeOK
<1>5. OnTime'
  BY <1>0, <1>1 DEF OnTime
<1>6. Grants'
  BY <1>0, <1>1, KeyUntouched, KeyKnown DEF BeforeRole, BeforeAssignment
<1>7. KeyTruth'
  BY <1>0, <1>1 DEF KeyInv, KeyTruth
<1>9. Windows' /\ ~lateKey'
  BY SMTT(60), <1>0, <1>1 DEF KeyInv, Windows
<1> QED
  BY <1>4, <1>5, <1>6, <1>7, <1>9 DEF KeyInv

LEMMA KeyRelockKeeps == ASSUME KeyInv, Key!Relock PROVE KeyInv'
<1>0. /\ now' \in Nat /\ now' >= now /\ ~lateKey' /\ lateKey' \in BOOLEAN /\ now' \in 0..2942
           /\ pcKey \in {"relock", "restore"}
  BY Phases DEF Key!Relock
<1>a. now' <= Key!End + 900
  BY <1>0 DEF Key!End
<1>1. /\ pcKey' \in {"proof", "definition"} /\ (failure => failure')
      /\ UNCHANGED <<claimed, there, exp, flightKey, owned, uncertain, boundary, attempts>>
      /\ UNCHANGED <<renewal, receipt>>
  BY DEF Key!Relock, Key!Own
<1>2. failure' \in BOOLEAN
  BY DEF Key!Relock, KeyInv, Key!TypeOK
<1>3. faultsKey' \in 0 .. MaxTroubles
  BY <1>0, ExecutorsOK DEF Key!Relock, Key!Fault, KeyInv, Key!TypeOK
<1>8. lockKey' \in BOOLEAN
  <2>1. lockKey' = TRUE \/ lockKey' = lockKey
    BY DEF Key!Relock
  <2> QED
    BY <2>1 DEF KeyInv, Key!TypeOK
<1>4. Key!TypeOK'
  BY SMTT(60), <1>0, <1>1, <1>2, <1>3, <1>8 DEF KeyInv, Key!TypeOK
<1>5. OnTime'
  BY <1>0, <1>1 DEF OnTime
<1>6. Grants'
  BY <1>0, <1>1, KeyUntouched, KeyKnown DEF BeforeRole, BeforeAssignment
<1>7. KeyTruth'
  BY <1>0, <1>1 DEF KeyInv, KeyTruth
<1>9. Windows' /\ ~lateKey'
  BY SMTT(60), <1>0, <1>1 DEF KeyInv, Windows
<1> QED
  BY <1>4, <1>5, <1>6, <1>7, <1>9 DEF KeyInv

LEMMA KeyDefinitionKeeps == ASSUME KeyInv, Key!Definition PROVE KeyInv'
<1>0. /\ now' \in Nat /\ now' >= now /\ ~lateKey' /\ lateKey' \in BOOLEAN /\ now' \in 0..3912
           /\ pcKey = "definition"
  <2>1. CASE "role" \in owned
    BY <2>1, Phases DEF Key!Definition
  <2>2. CASE "role" \notin owned
    <3>1. pcKey = "definition" /\ now' = now /\ lateKey' = lateKey
      BY <2>2 DEF Key!Definition
    <3>2. now \in 0..2942 /\ ~lateKey /\ lateKey \in BOOLEAN
      BY <3>1 DEF KeyInv, Key!TypeOK, OnTime
    <3> QED
      BY <3>1, <3>2
  <2> QED
    BY SMTT(60), <2>1, <2>2
<1>1. /\ pcKey' = "proof" /\ (failure => failure') /\ there' \subseteq there
      /\ UNCHANGED <<claimed, lockKey, exp, flightKey, owned, uncertain, boundary, attempts>>
      /\ UNCHANGED <<renewal, receipt>>
  BY <1>0 DEF Key!Definition, Key!Own
<1>2. failure' \in BOOLEAN
  BY DEF Key!Definition, KeyInv, Key!TypeOK
<1>3. faultsKey' \in 0 .. MaxTroubles
  BY <1>0, ExecutorsOK DEF Key!Definition, Key!Fault, KeyInv, Key!TypeOK
<1>4. Key!TypeOK'
  BY <1>0, <1>1, <1>2, <1>3 DEF KeyInv, Key!TypeOK
<1>5. OnTime'
  BY <1>0, <1>1 DEF OnTime
<1>6. Grants'
  BY <1>0, <1>1, KeyUntouched, KeyKnown DEF BeforeRole, BeforeAssignment
<1>7. KeyTruth'
  BY <1>0, <1>1 DEF KeyInv, KeyTruth
<1>9. Windows' /\ ~lateKey'
  BY <1>0, <1>1 DEF KeyInv, Windows
<1> QED
  BY <1>4, <1>5, <1>6, <1>7, <1>9 DEF KeyInv

LEMMA KeyProofKeeps == ASSUME KeyInv, Key!Proof PROVE KeyInv'
<1>0. /\ now' \in Nat /\ now' >= now /\ ~lateKey' /\ lateKey' \in BOOLEAN /\ pcKey = "proof"
  BY Phases DEF Key!Proof
<1>1. /\ pcKey' \in {"done", "raised"}
      /\ UNCHANGED <<claimed, there, lockKey, exp, flightKey, owned, uncertain, boundary, attempts>>
      /\ UNCHANGED <<renewal, failure>>
  BY <1>0 DEF Key!Proof, Key!Own, Key!Cloud
<1>3. faultsKey' \in 0 .. MaxTroubles
  BY <1>0, ExecutorsOK DEF Key!Proof, Key!Fault, KeyInv, Key!TypeOK
<1>2. receipt = "none"
  BY <1>0 DEF KeyInv, KeyTruth
<1>8. /\ receipt' \in {"none", "PASS", "NO_GO"}
      /\ receipt' # "none" => pcKey' = "done" /\ lockKey
      /\ receipt' = "PASS" => ~failure /\ there = {} /\ exp = "new"
  BY <1>2 DEF Key!Proof
<1>4. Key!TypeOK'
  BY SMTT(60), <1>0, <1>1, <1>3, <1>8 DEF KeyInv, Key!TypeOK
<1>5. OnTime'
  BY <1>0, <1>1 DEF OnTime
<1>6. Grants'
  BY <1>0, <1>1, KeyUntouched, KeyKnown DEF BeforeRole, BeforeAssignment
<1>7. KeyTruth'
  BY <1>0, <1>1, <1>8 DEF KeyInv, KeyTruth
<1>9. Windows' /\ ~lateKey'
  BY <1>0, <1>1 DEF KeyInv, Windows
<1> QED
  BY <1>4, <1>5, <1>6, <1>7, <1>9 DEF KeyInv

LEMMA KeyLandKeeps == ASSUME KeyInv, NEW r \in Key!Kinds \union {"patch"}, Key!Land(r)
PROVE KeyInv'
<1>1. /\ r \in flightKey /\ flightKey' = flightKey \ {r}
      /\ UNCHANGED <<now, claimed, lockKey, owned, uncertain, boundary, attempts, pcKey>>
      /\ UNCHANGED <<renewal, failure, lateKey, receipt, faultsKey>>
      /\ there' = there
           \/ (there' = there \union {r} /\ r \in Key!Kinds /\ now <= boundary[r] - Key!Request)
      /\ exp' \in {exp, "new"}
  BY DEF Key!Land, Key!Own
<1>2. there' \subseteq Key!Kinds
  BY <1>1 DEF KeyInv, Key!TypeOK
<1>4. Key!TypeOK'
  BY SMTT(60), <1>1, <1>2 DEF KeyInv, Key!TypeOK
<1>5. OnTime'
  BY <1>1 DEF KeyInv, OnTime
<1>6. Grants'
  <2>1. ASSUME pcKey \notin {"raised", "dead"} PROVE there' \subseteq owned
    <3>1. ASSUME r \in Key!Kinds, now <= boundary[r] - Key!Request PROVE r \in owned
      <4>1. boundary[r] \in Nat /\ now \in Nat
        BY <3>1 DEF KeyInv, Key!TypeOK
      <4>2. r \notin owned => now > boundary[r] - Key!Request
        BY <1>1, <2>1, <3>1 DEF KeyInv, Grants
      <4> QED
        BY <3>1, <4>1, <4>2 DEF Key!Request
    <3> QED
      BY <1>1, <2>1, <3>1 DEF KeyInv, Grants
  <2> QED
    BY <1>1, <2>1 DEF KeyInv, Grants, BeforeRole, BeforeAssignment
<1>7. KeyTruth'
  BY <1>1 DEF KeyInv, KeyTruth
<1>9. Windows' /\ ~lateKey'
  BY <1>1 DEF KeyInv, Windows
<1> QED
  BY <1>4, <1>5, <1>6, <1>7, <1>9 DEF KeyInv

LEMMA KeyCrashKeeps == ASSUME KeyInv, Key!Crash PROVE KeyInv'
<1>1. /\ pcKey \notin {"start", "done", "raised", "dead"} /\ pcKey' = "dead"
      /\ UNCHANGED <<now, claimed, there, lockKey, exp, flightKey, owned, uncertain, boundary, attempts>>
      /\ UNCHANGED <<renewal, failure, lateKey, receipt>>
  BY DEF Key!Crash, Key!Cloud, Key!Own
<1>2. faultsKey' \in 0 .. MaxTroubles
  BY ExecutorsOK DEF Key!Crash, Key!Fault, KeyInv, Key!TypeOK
<1>4. Key!TypeOK'
  BY <1>1, <1>2 DEF KeyInv, Key!TypeOK
<1>5. OnTime'
  BY <1>1 DEF OnTime
<1>6. Grants'
  BY <1>1 DEF KeyInv, Grants, BeforeRole, BeforeAssignment
<1>7. KeyTruth'
  BY <1>1 DEF KeyInv, KeyTruth
<1>9. Windows' /\ ~lateKey'
  BY <1>1 DEF KeyInv, Windows
<1> QED
  BY <1>4, <1>5, <1>6, <1>7, <1>9 DEF KeyInv

LEMMA KeyKeeps == KeyInv /\ [Key!Next]_(Key!vars) => KeyInv'
<1>1. ASSUME KeyInv, UNCHANGED Key!vars PROVE KeyInv'
  <2>1. /\ UNCHANGED <<now, claimed, there, lockKey, exp, flightKey, owned, uncertain, boundary>>
        /\ UNCHANGED <<attempts, pcKey, renewal, failure, lateKey, receipt, faultsKey>>
    BY <1>1 DEF Key!vars
  <2>2. Key!TypeOK' /\ ~lateKey'
    BY SMTT(60), <1>1, <2>1 DEF KeyInv, Key!TypeOK
  <2>3. OnTime' /\ Windows'
    BY <1>1, <2>1 DEF KeyInv, OnTime, Windows
  <2>4. Grants' /\ KeyTruth'
    BY <1>1, <2>1 DEF KeyInv, Grants, KeyTruth
  <2> QED
    BY <2>2, <2>3, <2>4 DEF KeyInv
<1> QED
  BY <1>1, KeyClaimKeeps, KeyAbsentKeeps, KeyPutKeeps, KeySettleKeeps,
  KeyPropagateKeeps, KeyGetKeyKeeps,
     KeyPatchKeeps, KeyRereadKeeps, KeyReconcilingKeeps, KeyReconciledKeeps,
     KeyUnlockKeeps, KeyDeleteKeeps,
     KeyRelockKeeps, KeyDefinitionKeeps, KeyProofKeeps, KeyLandKeeps, KeyCrashKeeps
     DEF Key!Next

LEMMA KeyStarting == Key!Init => KeyInv
<1> SUFFICES ASSUME Key!Init PROVE KeyInv
  OBVIOUS
<1>1. Key!TypeOK /\ ~lateKey
  <2>1. now \in Nat /\ faultsKey \in 0 .. MaxTroubles
    BY ExecutorsOK DEF Key!Init
  <2>2. boundary \in [Key!Kinds -> Nat]
    BY DEF Key!Init
  <2>3. /\ there \subseteq Key!Kinds /\ flightKey \subseteq Key!Kinds \union {"patch"}
             /\ owned \subseteq Key!Kinds
        /\ uncertain \subseteq owned /\ attempts \subseteq Key!Kinds \union {"patch"}
    BY DEF Key!Init
  <2> QED
    BY <2>1, <2>2, <2>3 DEF Key!Init, Key!TypeOK
<1>2. OnTime /\ Windows
  BY DEF Key!Init, OnTime, Windows
<1>3. Grants /\ KeyTruth
  BY DEF Key!Init, Grants, KeyTruth
<1> QED
  BY <1>1, <1>2, <1>3 DEF KeyInv

LEMMA KeySays == KeyInv
  => Key!TypeOK /\ Key!ReceiptTruth /\ Key!CleanupFits /\ Key!NothingForgotten
  BY DEF KeyInv, KeyTruth, Grants, Key!ReceiptTruth, Key!CleanupFits,
         Key!NothingForgotten

LEMMA KeySpecSafe == Key!Spec
  => [](Key!TypeOK /\ Key!ReceiptTruth /\ Key!CleanupFits /\ Key!NothingForgotten)
  BY KeyStarting, KeyKeeps, KeySays, PTL DEF Key!Spec

LEMMA KeyRun == EitherSpec => Key!Spec
<1>1. EitherInit => Key!Init
  BY DEF EitherInit
<1>2. [EitherNext]_either => [Key!Next]_(Key!vars)
  BY DEF EitherNext, either, keyVars, Key!vars
<1> QED
  BY <1>1, <1>2, PTL DEF EitherSpec, Key!Spec

(* Whatever the run checks of the key maintenance (KeySafe) holds for any  *)
(* number of lost answers and failed reads, whenever the run begins and    *)
(* whenever a request takes effect: every request of the cleanup comes in  *)
(* time to be admitted, no grant that exists is forgotten while the run    *)
(* lives, a PASS is true for good, and the vault is locked behind every    *)
(* receipt.                                                                *)
THEOREM KeyHolds == EitherSpec => []KeySafe
<1>1. Key!TypeOK /\ Key!ReceiptTruth /\ Key!CleanupFits /\ Key!NothingForgotten
      => KeySafe
  BY DEF KeySafe
<1> QED
  BY <1>1, KeyRun, KeySpecSafe, PTL
===============================================================================
