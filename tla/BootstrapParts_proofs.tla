-------------------------- MODULE BootstrapParts_proofs --------------------------
(***************************************************************************)
(* The parts of the bootstrap that run before, beside and behind its       *)
(* writes, each for every value of the constants: the batch of reads       *)
(* (BatchRead), the timed loops (ReadinessWindow), the canary (CanaryRun,  *)
(* CanaryProof) and the observation (Observation).                         *)
(***************************************************************************)
EXTENDS Reads, Executions, TLAPS, FiniteSetTheorems, SequenceTheorems

-----------------------------------------------------------------------------
(***************************************************************************)
(* The batch.  For every number of requests and threads, every bound and   *)
(* every host: read_many implements ReadWindow, and no batch is ever found *)
(* incomplete. The invariant says that a thread has an answer to every     *)
(* request of its own before the one it is at, and that it stops early     *)
(* only when another has raised.                                           *)
(***************************************************************************)
Steps == Live \cup {"ok", "raised", "cancelled"}
Values == {Unread, Gateway} \cup (began .. world)

Shapes ==
    /\ world \in Nat /\ began \in Nat /\ 1 <= began /\ began <= world
    /\ pc \in {"idle", "reading", "raising"} /\ at \in [Workers -> Steps]
    /\ turn \in [Workers -> Nat] /\ stopped \in BOOLEAN
    /\ got \in [Requests -> Values]

(* The requests of w are w, w + W, w + 2W, ...                             *)
Placed(w) ==
    \E b \in Nat : /\ turn[w] = w + b * W
                   /\ \A a \in Nat : a < b /\ w + a * W \in Requests => got[w + a * W] # Unread
AllPlaced == \A w \in Workers : Placed(w)

StoppedEarly == pc = "reading" => \A w \in Workers : at[w] = "ok" => turn[w] > N \/ stopped
StoppedByOne == pc = "reading" /\ stopped => \E v \in Workers : at[v] = "raised"

Inv == Shapes /\ AllPlaced /\ StoppedEarly /\ StoppedByOne /\ NeverIncomplete

-----------------------------------------------------------------------------
(* Every request is some thread's (read_partition's range).                *)
LEMMA Owner ==
    ASSUME NEW i \in Requests
    PROVE  \E w \in Workers, k \in Nat : i = w + k * W
<1>0. W \in Nat \ {0} /\ i \in Nat \ {0}
  BY BatchAssumption DEF Requests
<1>1. PICK q \in Int : q = ((i - 1) \div W)
  BY <1>0, SMT
<1>2. PICK r \in Int : r = ((i - 1) % W)
  BY <1>0, SMT
<1>3. (i - 1) = W * q + r
  BY <1>0, <1>1, <1>2, SMT
<1>4. 0 <= r /\ r < W
  BY <1>0, <1>2, SMT
<1>5. q \in Nat
  BY <1>0, <1>1, <1>3, <1>4, SMT
<1>6. i = (r + 1) + q * W
  BY <1>0, <1>3, SMT
<1>7. r + 1 \in Workers
  BY <1>0, <1>4, SMT DEF Workers
<1> QED
  BY <1>5, <1>6, <1>7

(* What lies before a thread's turn lies at an earlier multiple.           *)
LEMMA Earlier ==
    ASSUME NEW w \in Nat, NEW a \in Nat, NEW b \in Nat, w + a * W < w + b * W
    PROVE  a < b
<1>0. W \in Nat \ {0}
  BY BatchAssumption
<1>1. SUFFICES ASSUME a >= b PROVE FALSE
  OBVIOUS
<1>2. a * W >= b * W
  BY <1>0, <1>1, SMT
<1>3. a * W \in Int /\ b * W \in Int
  BY <1>0, SMT
<1> QED
  BY <1>2, <1>3, SMT

(* Once all threads have gone through their requests, all are answered.    *)
LEMMA AllAnswered ==
    ASSUME Shapes, AllPlaced, \A w \in Workers : turn[w] > N
    PROVE  Whole
<1> SUFFICES ASSUME NEW i \in Requests PROVE got[i] # Unread
  BY DEF Whole
<1>1. PICK w \in Workers, k \in Nat : i = w + k * W
  BY Owner
<1>2. PICK b \in Nat : /\ turn[w] = w + b * W
                       /\ \A a \in Nat : a < b /\ w + a * W \in Requests => got[w + a * W] # Unread
  BY DEF AllPlaced, Placed
<1>3. i \in Int /\ i <= N /\ turn[w] > N /\ turn[w] \in Int /\ N \in Int
  BY BatchAssumption DEF Requests, Shapes
<1>4. w \in Nat /\ w + k * W < w + b * W
  BY <1>1, <1>2, <1>3 DEF Workers
<1>5. k < b
  BY <1>4, Earlier
<1> QED
  BY <1>1, <1>2, <1>5

-----------------------------------------------------------------------------
(* What is placed stays so while no answer is lost and no turn moves.      *)
LEMMA PlacedStays ==
    ASSUME AllPlaced, turn' = turn,
           \A i \in Requests : got[i] # Unread => got'[i] # Unread
    PROVE  AllPlaced'
BY DEF AllPlaced, Placed

(* An answer is kept at the thread's turn, which moves to the next one.    *)
LEMMA KeepPlaces ==
    ASSUME Shapes, AllPlaced, NEW w \in Workers, NEW value \in Values, value # Unread,
           Keep(w, value)
    PROVE  AllPlaced' /\ got' \in [Requests -> Values] /\ turn' \in [Workers -> Nat]
<1>0. W \in Nat \ {0} /\ w \in Nat /\ turn \in [Workers -> Nat] /\ got \in [Requests -> Values]
  BY BatchAssumption DEF Shapes, Workers
<1>1. got' = [got EXCEPT ![turn[w]] = value] /\ turn' = [turn EXCEPT ![w] = turn[w] + W]
  BY DEF Keep
<1>2. got' \in [Requests -> Values] /\ turn' \in [Workers -> Nat]
  <2>1. got' \in [Requests -> Values]
    BY <1>0, <1>1
  <2>2. turn' \in [Workers -> Nat]
    BY <1>0, <1>1
  <2> QED
    BY <2>1, <2>2
<1>3. \A i \in Requests : got[i] # Unread => got'[i] # Unread
  BY <1>0, <1>1
<1>4. ASSUME NEW v \in Workers PROVE Placed(v)'
  <2>1. PICK b \in Nat : /\ turn[v] = v + b * W
                         /\ \A a \in Nat : a < b /\ v + a * W \in Requests => got[v + a * W] # Unread
    BY DEF AllPlaced, Placed
  <2>2. CASE v # w
    <3>1. turn'[v] = turn[v]
      BY <1>0, <1>1, <2>2
    <3> QED
      BY <2>1, <3>1, <1>3 DEF Placed
  <2>3. CASE v = w
    <3>1. turn'[v] = v + b * W + W
      BY <1>0, <1>1, <2>1, <2>3
    <3>2. v + b * W + W = v + (b + 1) * W
      BY <1>0, <2>3, SMT
    <3>3. ASSUME NEW a \in Nat, a < b + 1, v + a * W \in Requests
          PROVE  got'[v + a * W] # Unread
      <4>1. CASE a < b
        BY <2>1, <3>3, <4>1, <1>3
      <4>2. CASE a = b
        BY <1>0, <1>1, <2>1, <2>3, <3>3, <4>2
      <4> QED
        BY <3>3, <4>1, <4>2
    <3> QED
      BY <3>1, <3>2, <3>3 DEF Placed
  <2> QED
    BY <2>2, <2>3
<1> QED
  BY <1>2, <1>4 DEF AllPlaced

-----------------------------------------------------------------------------
LEMMA InvInit == Init => Inv
<1> SUFFICES ASSUME Init PROVE Inv
  OBVIOUS
<1>1. Shapes
  <2>1. world = 1 /\ began = 1 /\ pc = "idle"
    BY DEF Init
  <2>2. at \in [Workers -> Steps]
    BY DEF Init, Steps
  <2>3. turn \in [Workers -> Nat]
    BY BatchAssumption DEF Init, Workers
  <2>4. got \in [Requests -> Values]
    BY DEF Init, Values
  <2>5. stopped \in BOOLEAN
    BY DEF Init
  <2> QED
    BY <2>1, <2>2, <2>3, <2>4, <2>5 DEF Shapes
<1>2. ASSUME NEW w \in Workers PROVE Placed(w)
  <2>1. turn[w] = w + 0 * W
    BY BatchAssumption DEF Init, Workers
  <2> QED
    BY <2>1 DEF Placed
<1> QED
  BY <1>1, <1>2 DEF Init, Inv, AllPlaced, StoppedEarly, StoppedByOne, NeverIncomplete

(* A step of a thread changes nothing of the caller's.                     *)
LEMMA InvWork ==
    ASSUME Inv, NEW w \in Workers, Work(w)
    PROVE  Inv'
<1>0. Shapes /\ AllPlaced /\ StoppedEarly /\ StoppedByOne /\ NeverIncomplete
  BY DEF Inv
<1>c. UNCHANGED caller
  BY DEF Work, Run, Check, Token, Cli, CliFails, Respond, Trouble, Break
<1>v. Values' = Values /\ pc' = pc /\ NeverIncomplete'
  BY <1>0, <1>c DEF Values, caller, NeverIncomplete
<1>t. at \in [Workers -> Steps] /\ stopped \in BOOLEAN
  BY <1>0 DEF Shapes
<1>1. ASSUME Run(w) PROVE Inv'
  <2>1. at' = [at EXCEPT ![w] = "check"] /\ UNCHANGED <<turn, got, stopped>> /\ at[w] = "due"
    BY <1>1 DEF Run, Move
  <2>2. Shapes'
    BY <1>0, <1>c, <1>v, <2>1 DEF Shapes, Steps, Live, caller
  <2>3. AllPlaced'
    BY <1>0, <2>1, PlacedStays
  <2> QED
    BY <1>0, <1>v, <1>t, <2>1, <2>2, <2>3 DEF Inv, StoppedEarly, StoppedByOne
<1>2. ASSUME Check(w) PROVE Inv'
  <2>1. /\ at' = [at EXCEPT ![w] = IF turn[w] > N \/ stopped THEN "ok" ELSE "token"]
        /\ UNCHANGED <<turn, got, stopped>> /\ at[w] = "check"
    BY <1>2 DEF Check, Move
  <2>2. Shapes'
    BY <1>0, <1>c, <1>v, <2>1 DEF Shapes, Steps, Live, caller
  <2>3. AllPlaced'
    BY <1>0, <2>1, PlacedStays
  <2> QED
    BY <1>0, <1>v, <1>t, <2>1, <2>2, <2>3 DEF Inv, StoppedEarly, StoppedByOne
<1>3. ASSUME Token(w) PROVE Inv'
  <2>1. /\ at' = [at EXCEPT ![w] = "sent"] \/ at' = [at EXCEPT ![w] = "cli"]
        /\ UNCHANGED <<turn, got, stopped>> /\ at[w] = "token"
    BY <1>3 DEF Token, Send, Move
  <2>2. Shapes'
    BY <1>0, <1>c, <1>v, <2>1 DEF Shapes, Steps, Live, caller
  <2>3. AllPlaced'
    BY <1>0, <2>1, PlacedStays
  <2> QED
    BY <1>0, <1>v, <1>t, <2>1, <2>2, <2>3 DEF Inv, StoppedEarly, StoppedByOne
<1>4. ASSUME Cli(w) PROVE Inv'
  <2>1. at' = [at EXCEPT ![w] = "sent"] /\ UNCHANGED <<turn, got, stopped>> /\ at[w] = "cli"
    BY <1>4 DEF Cli, Send, Move
  <2>2. Shapes'
    BY <1>0, <1>c, <1>v, <2>1 DEF Shapes, Steps, Live, caller
  <2>3. AllPlaced'
    BY <1>0, <2>1, PlacedStays
  <2> QED
    BY <1>0, <1>v, <1>t, <2>1, <2>2, <2>3 DEF Inv, StoppedEarly, StoppedByOne
<1>5. ASSUME Raise(w), UNCHANGED <<turn, got>> PROVE Inv'
  <2>1. at' = [at EXCEPT ![w] = "raised"] /\ stopped' = TRUE /\ UNCHANGED <<turn, got>>
    BY <1>5 DEF Raise, Move
  <2>2. Shapes'
    BY <1>0, <1>c, <1>v, <2>1 DEF Shapes, Steps, Live, caller
  <2>3. AllPlaced'
    BY <1>0, <2>1, PlacedStays
  <2>4. StoppedEarly' /\ StoppedByOne'
    BY <1>t, <2>1 DEF StoppedEarly, StoppedByOne
  <2> QED
    BY <1>v, <2>2, <2>3, <2>4 DEF Inv
<1>6. ASSUME NEW value \in Values, value # Unread, Keep(w, value), UNCHANGED stopped,
             at[w] = "sent"
      PROVE  Inv'
  <2>1. AllPlaced' /\ got' \in [Requests -> Values] /\ turn' \in [Workers -> Nat]
    BY <1>0, <1>6, KeepPlaces
  <2>2. at' = [at EXCEPT ![w] = "check"] /\ turn' = [turn EXCEPT ![w] = turn[w] + W] /\ UNCHANGED stopped
    BY <1>6 DEF Keep, Move
  <2>3. Shapes'
    BY <1>0, <1>c, <1>v, <2>1, <2>2 DEF Shapes, Steps, Live, caller
  <2>4. \A v \in Workers : at'[v] = "ok" => at[v] = "ok" /\ turn'[v] = turn[v]
    BY <1>0, <1>t, <1>6, <2>2 DEF Shapes
  <2>5. StoppedEarly'
    BY <1>0, <1>v, <2>2, <2>4 DEF StoppedEarly
  <2>6. StoppedByOne'
    BY <1>0, <1>v, <1>t, <1>6, <2>2 DEF StoppedByOne
  <2> QED
    BY <1>v, <2>1, <2>3, <2>5, <2>6 DEF Inv
<1>7. ASSUME Again(w), UNCHANGED <<turn, got, stopped>>, at[w] = "sent" PROVE Inv'
  <2>1. at' = [at EXCEPT ![w] = "token"] /\ UNCHANGED <<turn, got, stopped>>
    BY <1>7 DEF Again, Move
  <2>2. Shapes'
    BY <1>0, <1>c, <1>v, <2>1 DEF Shapes, Steps, Live, caller
  <2>3. AllPlaced'
    BY <1>0, <2>1, PlacedStays
  <2> QED
    BY <1>0, <1>v, <1>t, <1>7, <2>1, <2>2, <2>3 DEF Inv, StoppedEarly, StoppedByOne
<1>8. world \in Values /\ world # Unread /\ Gateway \in Values /\ Gateway # Unread
  BY <1>0 DEF Shapes, Values, Unread, Gateway
<1>9. ASSUME CliFails(w) PROVE Inv'
  BY <1>5, <1>9 DEF CliFails
<1>10. ASSUME Respond(w) PROVE Inv'
  BY <1>6, <1>8, <1>10 DEF Respond
<1>11. ASSUME Trouble(w) PROVE Inv'
  BY <1>5, <1>6, <1>7, <1>8, <1>11 DEF Trouble
<1>12. ASSUME Break(w) PROVE Inv'
  BY <1>5, <1>12 DEF Break
<1> QED
  BY <1>1, <1>2, <1>3, <1>4, <1>9, <1>10, <1>11, <1>12 DEF Work

(* The caller's steps, the tokens' and Azure's.                            *)
LEMMA InvSubmit == Inv /\ Submit => Inv'
<1> SUFFICES ASSUME Inv, Submit PROVE Inv'
  OBVIOUS
<1>0. Shapes
  BY DEF Inv
<1>1. /\ world' = world /\ began' = world /\ pc' = "reading" /\ stopped' = FALSE /\ outcome' = "none"
      /\ at' = [w \in Workers |-> "due"] /\ turn' = [w \in Workers |-> w]
      /\ got' = [i \in Requests |-> Unread]
  BY DEF Submit
<1>2. Shapes'
  <2>1. at' \in [Workers -> Steps]
    BY <1>1 DEF Steps, Live
  <2>2. turn' \in [Workers -> Nat]
    BY <1>1, BatchAssumption DEF Workers
  <2>3. got' \in [Requests -> Values']
    BY <1>1 DEF Values
  <2>4. stopped' \in BOOLEAN
    BY <1>1
  <2>5. world' \in Nat /\ began' \in Nat /\ 1 <= began' /\ began' <= world'
    BY <1>0, <1>1 DEF Shapes
  <2>6. pc' \in {"idle", "reading", "raising"}
    BY <1>1
  <2> QED
    BY <2>1, <2>2, <2>3, <2>4, <2>5, <2>6 DEF Shapes
<1>3. ASSUME NEW w \in Workers PROVE Placed(w)'
  <2>1. turn'[w] = w + 0 * W
    BY <1>1, BatchAssumption DEF Workers
  <2> QED
    BY <2>1 DEF Placed
<1> QED
  BY <1>1, <1>2, <1>3 DEF Inv, AllPlaced, StoppedEarly, StoppedByOne, NeverIncomplete

LEMMA InvStop == Inv /\ Stop => Inv'
<1> SUFFICES ASSUME Inv, Stop PROVE Inv'
  OBVIOUS
<1>0. Shapes /\ AllPlaced /\ NeverIncomplete
  BY DEF Inv
<1>1. /\ at' = [w \in Workers |-> IF at[w] = "due" THEN "cancelled" ELSE at[w]]
      /\ UNCHANGED <<world, began, outcome, turn, got>> /\ pc' = "raising" /\ stopped' = TRUE
  BY DEF Stop
<1>2. Shapes'
  <2>1. at' \in [Workers -> Steps]
    BY <1>0, <1>1 DEF Shapes, Steps
  <2> QED
    BY <1>0, <1>1, <2>1 DEF Shapes, Values
<1>3. AllPlaced'
  BY <1>0, <1>1, PlacedStays
<1> QED
  BY <1>0, <1>1, <1>2, <1>3 DEF Inv, StoppedEarly, StoppedByOne, NeverIncomplete

(* Nobody has raised when all have ended well; so all are answered.        *)
LEMMA ReturnsWhole == Inv /\ Return => Whole
<1> SUFFICES ASSUME Inv, Return PROVE Whole
  OBVIOUS
<1>1. Shapes /\ AllPlaced /\ StoppedEarly /\ StoppedByOne /\ pc = "reading" /\ \A w \in Workers : at[w] = "ok"
  BY DEF Inv, Return
<1>2. ~ stopped
  BY <1>1 DEF StoppedByOne
<1>3. \A w \in Workers : turn[w] > N
  BY <1>1, <1>2 DEF StoppedEarly
<1> QED
  BY <1>1, <1>3, AllAnswered

LEMMA InvEnd == Inv /\ (Return \/ Drain) => Inv'
<1> SUFFICES ASSUME Inv, Return \/ Drain PROVE Inv'
  OBVIOUS
<1>0. Shapes /\ AllPlaced
  BY DEF Inv
<1>1. UNCHANGED <<world, began, at, turn, got, stopped>> /\ pc' = "idle"
  BY DEF Return, Drain
<1>2. NeverIncomplete'
  BY ReturnsWhole DEF Return, Drain, NeverIncomplete
<1>3. Shapes' /\ AllPlaced'
  BY <1>0, <1>1, PlacedStays DEF Shapes, Values
<1> QED
  BY <1>1, <1>2, <1>3 DEF Inv, StoppedEarly, StoppedByOne

LEMMA InvChange == Inv /\ Change => Inv'
<1> SUFFICES ASSUME Inv, Change PROVE Inv'
  OBVIOUS
<1>0. Shapes /\ AllPlaced
  BY DEF Inv
<1>1. UNCHANGED <<began, outcome, pc, at, turn, got, stopped>> /\ world' = world + 1
  BY DEF Change
<1>2. Values \subseteq Values'
  BY <1>0, <1>1 DEF Values, Shapes
<1>3. Shapes'
  BY <1>0, <1>1, <1>2 DEF Shapes
<1>4. AllPlaced'
  BY <1>0, <1>1, PlacedStays
<1> QED
  BY <1>1, <1>3, <1>4 DEF Inv, StoppedEarly, StoppedByOne, NeverIncomplete

LEMMA InvStutter ==
    ASSUME Inv, UNCHANGED <<world, began, outcome, pc, at, turn, got, stopped>>
    PROVE  Inv'
<1>1. AllPlaced'
  BY PlacedStays DEF Inv
<1> QED
  BY <1>1 DEF Inv, Shapes, Values, StoppedEarly, StoppedByOne, NeverIncomplete

LEMMA InvNext == Inv /\ [Next]_vars => Inv'
<1> SUFFICES ASSUME Inv, [Next]_vars PROVE Inv'
  OBVIOUS
<1>1. CASE \E w \in Workers : Work(w)
  BY <1>1, InvWork
<1>2. CASE Call
  BY <1>2, InvSubmit, InvStop, InvEnd DEF Call, Collect
<1>3. CASE Interrupt
  BY <1>3, InvStop DEF Interrupt
<1>4. CASE Expire
  BY <1>4, InvStutter DEF Expire, caller
<1>5. CASE Change
  BY <1>5, InvChange
<1>6. CASE UNCHANGED vars
  BY <1>6, InvStutter DEF vars
<1> QED
  BY <1>1, <1>2, <1>3, <1>4, <1>5, <1>6 DEF Next

(* No batch is ever found incomplete: read_many's check of the count       *)
(* stands for nothing that can happen.                                     *)
THEOREM BatchNeverIncomplete == Spec => []NeverIncomplete
<1>1. Inv => NeverIncomplete
  BY DEF Inv
<1> QED
  BY <1>1, InvInit, InvNext, PTL DEF Spec

-----------------------------------------------------------------------------
LEMMA StepImplements == Inv /\ Inv' /\ [Next]_vars => [Window!WNext]_(Window!windowVars)
<1> SUFFICES ASSUME Inv, Inv', [Next]_vars PROVE [Window!WNext]_(Window!windowVars)
  OBVIOUS
<1> USE DEF Window!windowVars
<1>1. CASE \E w \in Workers : Work(w)
  <2>1. UNCHANGED caller
    BY <1>1 DEF Work, Run, Check, Token, Cli, CliFails, Respond, Trouble, Break
  <2> QED
    BY <2>1 DEF caller
<1>2. CASE Submit
  <2>1. Window!Begin
    BY <1>2 DEF Submit, Window!Begin
  <2> QED
    BY <2>1 DEF Window!WNext
<1>3. CASE Stop /\ pc = "reading"
  BY <1>3 DEF Stop
<1>4. CASE Drain
  <2>1. Window!GiveUp
    BY <1>4 DEF Drain, Window!GiveUp
  <2> QED
    BY <2>1 DEF Window!WNext
<1>5. CASE Return
  <2>1. Whole /\ got \in [Requests -> Values]
    BY <1>5, ReturnsWhole DEF Inv, Shapes
  <2>2. got \in [Requests -> {Gateway} \cup (began .. world)]
    BY <2>1 DEF Whole, Values
  <2>3. Window!Answer
    BY <1>5, <2>1, <2>2 DEF Return, Window!Answer, Window!Gateway, Window!Requests, Gateway, Requests
  <2> QED
    BY <2>3 DEF Window!WNext
<1>6. CASE Expire
  BY <1>6 DEF Expire, caller
<1>7. CASE Change
  <2>1. Window!Change
    BY <1>7 DEF Change, Window!Change
  <2> QED
    BY <2>1 DEF Window!WNext
<1>8. CASE UNCHANGED vars
  BY <1>8 DEF vars
<1> QED
  BY <1>1, <1>2, <1>3, <1>4, <1>5, <1>6, <1>7, <1>8 DEF Next, Call, Collect, Interrupt

(* read_many keeps the promise of ReadWindow, however many threads, faults *)
(* and batches there are.                                                  *)
THEOREM BatchImplements == Spec => Implements
<1>1. Init => Window!WInit
  BY DEF Init, Window!WInit, Window!Gateway, Window!Requests, Gateway, Requests
<1> QED
  BY <1>1, InvInit, InvNext, StepImplements, PTL DEF Spec, Implements, Window!WSpec

-----------------------------------------------------------------------------
(* The threads: who is at the CLI holds the lock, and what a thread still  *)
(* sends after the stop belongs to the request it is at.                   *)

Locked == \A w \in Workers : lock = w <=> at[w] = "cli"

Counted(w) ==
    /\ late[w] \in 0 .. MaxTries /\ tries[w] \in 0 .. MaxTries - 1
    /\ ~ stopped => late[w] = 0
    /\ at[w] \in {"token", "cli"} => late[w] <= tries[w]
    /\ at[w] = "sent" => late[w] <= tries[w] + 1

Rest ==
    /\ outcome \in {"none", "answered", "raised", "incomplete"}
    /\ answers \in [Requests -> Nat]
    /\ tokens \subseteq Workers \X {Hosts[i] : i \in Requests}
    /\ tries \in [Workers -> 0 .. MaxTries - 1] /\ late \in [Workers -> Nat]
    /\ pc = "idle" => \A w \in Workers : at[w] \notin Live

Asking(w) ==
    /\ turn[w] \in Nat \ {0}
    /\ at[w] \in {"token", "cli", "sent"} => turn[w] \in Requests

Threads == Rest /\ Locked /\ \A w \in Workers : Counted(w) /\ Asking(w)

LEMMA ThreadsInit == Init => Threads
<1> SUFFICES ASSUME Init PROVE Threads
  OBVIOUS
<1>1. Rest
  BY BatchAssumption DEF Init, Rest, Gateway, Live
<1>2. Locked
  BY DEF Init, Locked, Workers
<1>3. \A w \in Workers : Counted(w)
  <2> SUFFICES ASSUME NEW w \in Workers PROVE Counted(w)
    OBVIOUS
  <2>1. at[w] = "ok" /\ late[w] = 0 /\ tries[w] = 0
    BY DEF Init
  <2> QED
    BY <2>1, BatchAssumption DEF Counted
<1>4. \A w \in Workers : Asking(w)
  BY DEF Init, Asking, Workers
<1> QED
  BY <1>1, <1>2, <1>3, <1>4 DEF Threads

(* A request is sent for the tries of this one; so late exchanges are few. *)
LEMMA SendCounts ==
    ASSUME Inv, Threads, NEW w \in Workers, at[w] \in {"token", "cli"}, Send(w),
           UNCHANGED <<tries, stopped>>
    PROVE  late' \in [Workers -> Nat] /\ \A v \in Workers : Counted(v)'
<1>1. at' = [at EXCEPT ![w] = "sent"] /\ at \in [Workers -> Steps]
  BY DEF Send, Move, Inv, Shapes
<1>2. /\ late \in [Workers -> Nat] /\ Counted(w) /\ MaxTries \in Nat \ {0}
      /\ late[w] <= tries[w] /\ late[w] \in Nat /\ tries[w] \in 0 .. MaxTries - 1
  BY BatchAssumption DEF Threads, Rest, Counted
<1>3. late' = late \/ (stopped /\ late' = [late EXCEPT ![w] = late[w] + 1])
  BY DEF Send
<1>4. late' \in [Workers -> Nat]
  BY <1>2, <1>3
<1>5. Counted(w)'
  <2>1. late'[w] = late[w] \/ (stopped /\ late'[w] = late[w] + 1)
    BY <1>2, <1>3
  <2>2. at'[w] = "sent"
    BY <1>1
  <2>3. late'[w] \in 0 .. MaxTries /\ late'[w] <= tries[w] + 1
    BY <1>2, <2>1
  <2> QED
    BY <1>2, <2>1, <2>2, <2>3 DEF Counted
<1>6. ASSUME NEW v \in Workers, v # w PROVE Counted(v)'
  <2>1. at'[v] = at[v] /\ late'[v] = late[v] /\ Counted(v)
    BY <1>1, <1>2, <1>3, <1>6 DEF Threads
  <2> QED
    BY <2>1 DEF Counted
<1> QED
  BY <1>4, <1>5, <1>6

(* Any other step of a thread leaves the counts as they are, or begins a   *)
(* read before the stop, or tries again.                                   *)
LEMMA OthersCount ==
    ASSUME Inv, Threads, NEW w \in Workers, NEW step, at' = [at EXCEPT ![w] = step],
           late' = late,
           stopped => stopped', step # "sent",
           \/ step \notin {"token", "cli"} /\ tries' = tries
           \/ step = "cli" /\ at[w] = "token" /\ tries' = tries
           \/ /\ step \in {"token", "ok"} /\ tries' = [tries EXCEPT ![w] = 0]
              /\ step = "token" => ~ stopped
           \/ /\ step = "token" /\ at[w] = "sent" /\ tries[w] + 1 < MaxTries
              /\ tries' = [tries EXCEPT ![w] = tries[w] + 1]
    PROVE  /\ tries' \in [Workers -> 0 .. MaxTries - 1]
           /\ \A v \in Workers : Counted(v)'
<1>1. /\ at \in [Workers -> Steps] /\ tries \in [Workers -> 0 .. MaxTries - 1]
      /\ \A v \in Workers : Counted(v)
      /\ MaxTries \in Nat \ {0} /\ stopped \in BOOLEAN /\ at'[w] = step
  BY BatchAssumption DEF Inv, Shapes, Threads, Rest
<1>2. /\ tries' \in [Workers -> 0 .. MaxTries - 1]
      /\ \A v \in Workers : v # w => tries'[v] = tries[v] /\ at'[v] = at[v]
  <2>1. CASE tries' = tries
    BY <1>1, <2>1
  <2>2. CASE tries' = [tries EXCEPT ![w] = 0]
    BY <1>1, <2>2
  <2>3. CASE tries' = [tries EXCEPT ![w] = tries[w] + 1] /\ tries[w] + 1 < MaxTries
    <3>1. tries[w] + 1 \in 0 .. MaxTries - 1
      BY <1>1, <2>3
    <3> QED
      BY <1>1, <2>3, <3>1
  <2> QED
    BY <2>1, <2>2, <2>3
<1>3. Counted(w)'
  <2>1. /\ late[w] \in 0 .. MaxTries /\ tries'[w] \in 0 .. MaxTries - 1
        /\ ~ stopped' => late[w] = 0
    BY <1>1, <1>2 DEF Counted
  <2>2. at'[w] \in {"token", "cli"} => late[w] <= tries'[w]
    <3>1. CASE step = "cli"
      BY <1>1, <3>1 DEF Counted
    <3>2. CASE step = "token" /\ ~ stopped
      BY <1>1, <2>1, <3>2 DEF Counted
    <3>3. CASE at[w] = "sent" /\ tries' = [tries EXCEPT ![w] = tries[w] + 1]
      <4>1. tries'[w] = tries[w] + 1
        BY <1>1, <3>3
      <4> QED
        BY <1>1, <3>3, <4>1 DEF Counted
    <3> QED
      BY <1>1, <3>1, <3>2, <3>3
  <2> QED
    BY <1>1, <2>1, <2>2 DEF Counted
<1>4. ASSUME NEW v \in Workers, v # w PROVE Counted(v)'
  <2>1. tries'[v] = tries[v] /\ at'[v] = at[v]
    BY <1>2, <1>4
  <2> QED
    BY <1>1, <2>1 DEF Counted
<1> QED
  BY <1>2, <1>3, <1>4

(* The lock changes hands with the call of the CLI.                        *)
LEMMA LockGoes ==
    ASSUME Inv, Locked, NEW w \in Workers, NEW step, at' = [at EXCEPT ![w] = step],
           \/ lock' = lock /\ at[w] # "cli" /\ step # "cli"
           \/ lock' = 0 /\ at[w] = "cli" /\ step # "cli"
           \/ lock = 0 /\ lock' = w /\ step = "cli"
    PROVE  Locked'
<1>1. at \in [Workers -> Steps] /\ \A v \in Workers : v \in Nat \ {0}
  BY DEF Inv, Shapes, Workers
<1>2. at'[w] = step /\ \A v \in Workers : v # w => at'[v] = at[v]
  BY <1>1
<1>3. \A v \in Workers : lock = v <=> at[v] = "cli"
  BY DEF Locked
<1>4. \A v \in Workers : lock' = v <=> at'[v] = "cli"
  BY <1>1, <1>2, <1>3
<1> QED
  BY <1>4 DEF Locked

(* A thread asks for the request it is at.                                 *)
LEMMA AskingStays ==
    ASSUME Inv, \A v \in Workers : Asking(v), NEW w \in Workers, NEW step,
           at' = [at EXCEPT ![w] = step],
           \/ turn' = turn /\ (step \in {"token", "cli", "sent"} => turn[w] \in Requests)
           \/ turn' = [turn EXCEPT ![w] = turn[w] + W] /\ step = "check"
    PROVE  \A v \in Workers : Asking(v)'
<1>1. /\ at \in [Workers -> Steps] /\ turn \in [Workers -> Nat] /\ W \in Nat
  BY BatchAssumption DEF Inv, Shapes
<1>2. at'[w] = step /\ \A v \in Workers : v # w => at'[v] = at[v] /\ turn'[v] = turn[v]
  BY <1>1
<1>3. Asking(w)'
  <2>1. turn[w] \in Nat \ {0}
    BY DEF Asking
  <2>2. turn'[w] = turn[w] \/ turn'[w] = turn[w] + W
    BY <1>1
  <2>3. turn'[w] \in Nat \ {0}
    BY <1>1, <2>1, <2>2
  <2> QED
    BY <1>2, <2>3 DEF Asking
<1> QED
  BY <1>2, <1>3 DEF Asking

LEMMA ThreadsWork ==
    ASSUME Inv, Threads, NEW w \in Workers, Work(w)
    PROVE  Threads'
<1>0. /\ Rest /\ Locked /\ \A v \in Workers : Asking(v)
      /\ at \in [Workers -> Steps] /\ stopped \in BOOLEAN /\ turn[w] \in Nat
  BY DEF Threads, Inv, Shapes
<1>1. UNCHANGED caller /\ at[w] \in Live
  BY DEF Work, Run, Check, Token, Cli, CliFails, Respond, Trouble, Break, Live
<1>2. pc # "idle" /\ UNCHANGED <<pc, outcome, answers>>
  BY <1>0, <1>1 DEF Rest, caller
<1>3. ASSUME tokens' \subseteq Workers \X {Hosts[i] : i \in Requests}, Locked',
             tries' \in [Workers -> 0 .. MaxTries - 1], late' \in [Workers -> Nat],
             \A v \in Workers : Counted(v)', \A v \in Workers : Asking(v)'
      PROVE  Threads'
  BY <1>0, <1>2, <1>3 DEF Threads, Rest
<1>4. late \in [Workers -> Nat] /\ tokens \subseteq Workers \X {Hosts[i] : i \in Requests}
      /\ tries \in [Workers -> 0 .. MaxTries - 1]
  BY <1>0 DEF Rest
<1>5. CASE Run(w)
  <2>1. /\ at' = [at EXCEPT ![w] = "check"] /\ UNCHANGED <<turn, tries, stopped, tokens, lock, late>>
        /\ at[w] = "due"
    BY <1>5 DEF Run, Move
  <2> QED
    BY <1>0, <1>3, <1>4, <2>1, OthersCount, LockGoes, AskingStays
<1>6. CASE Check(w)
  <2>1. PICK step \in {"ok", "token"} :
             /\ at' = [at EXCEPT ![w] = step]
             /\ step = "token" => turn[w] <= N /\ ~ stopped
             /\ tries' = [tries EXCEPT ![w] = 0] /\ at[w] = "check"
             /\ UNCHANGED <<turn, stopped, tokens, lock, late>>
    <3>1. PICK step \in {"ok", "token"} : step = IF turn[w] > N \/ stopped THEN "ok" ELSE "token"
      OBVIOUS
    <3>2. turn[w] \in Nat /\ N \in Nat
      BY <1>0, BatchAssumption
    <3>3. step = "token" => turn[w] <= N /\ ~ stopped
      BY <3>1, <3>2
    <3>4. at' = [at EXCEPT ![w] = step]
      BY <1>6, <3>1 DEF Check, Move
    <3> QED
      BY <1>6, <3>3, <3>4 DEF Check
  <2>2. step = "token" => turn[w] \in Requests
    <3>1. turn[w] \in Nat \ {0} /\ N \in Nat
      BY <1>0, BatchAssumption DEF Asking
    <3> QED
      BY <2>1, <3>1 DEF Requests
  <2> QED
    BY <1>0, <1>3, <1>4, <2>1, <2>2, OthersCount, LockGoes, AskingStays
<1>7. CASE Token(w)
  <2>1. at[w] = "token" /\ UNCHANGED <<turn, tries, stopped, tokens>> /\ turn[w] \in Requests
    BY <1>0, <1>7 DEF Token, Asking
  <2>2. CASE Send(w) /\ UNCHANGED lock
    <3>1. at' = [at EXCEPT ![w] = "sent"]
      BY <2>2 DEF Send, Move
    <3> QED
      BY <1>0, <1>3, <1>4, <2>1, <2>2, <3>1, SendCounts, LockGoes, AskingStays
  <2>3. CASE lock = 0 /\ lock' = w /\ Move(w, "cli") /\ UNCHANGED late
    BY <1>0, <1>3, <1>4, <2>1, <2>3, OthersCount, LockGoes, AskingStays DEF Move
  <2> QED
    BY <1>7, <2>2, <2>3 DEF Token
<1>8. CASE Cli(w)
  <2>1. /\ at[w] = "cli" /\ UNCHANGED <<turn, tries, stopped>> /\ turn[w] \in Requests
        /\ lock' = 0 /\ Send(w) /\ tokens' = tokens \cup {<<w, Hosts[turn[w]]>>}
    BY <1>0, <1>8 DEF Cli, Asking
  <2>2. at' = [at EXCEPT ![w] = "sent"]
    BY <2>1 DEF Send, Move
  <2>3. tokens' \subseteq Workers \X {Hosts[i] : i \in Requests}
    BY <1>4, <2>1
  <2> QED
    BY <1>0, <1>3, <1>4, <2>1, <2>2, <2>3, SendCounts, LockGoes, AskingStays
<1>9. ASSUME Raise(w), UNCHANGED <<turn, tries, tokens, late>>,
             (lock' = lock /\ at[w] # "cli") \/ (lock' = 0 /\ at[w] = "cli")
      PROVE  Threads'
  <2>1. at' = [at EXCEPT ![w] = "raised"] /\ stopped'
    BY <1>9 DEF Raise, Move
  <2> QED
    BY <1>0, <1>3, <1>4, <1>9, <2>1, OthersCount, LockGoes, AskingStays
<1>10. ASSUME NEW value, Keep(w, value), UNCHANGED <<tries, stopped, tokens, lock, late>>,
              at[w] = "sent"
       PROVE  Threads'
  <2>1. at' = [at EXCEPT ![w] = "check"] /\ turn' = [turn EXCEPT ![w] = turn[w] + W]
    BY <1>10 DEF Keep, Move
  <2> QED
    BY <1>0, <1>3, <1>4, <1>10, <2>1, OthersCount, LockGoes, AskingStays
<1>11. ASSUME Again(w), tries[w] + 1 < MaxTries,
              UNCHANGED <<turn, stopped, tokens, lock, late>>,
              at[w] = "sent"
       PROVE  Threads'
  <2>1. /\ at' = [at EXCEPT ![w] = "token"] /\ tries' = [tries EXCEPT ![w] = tries[w] + 1]
        /\ turn[w] \in Requests
    BY <1>0, <1>11 DEF Again, Move, Asking
  <2> QED
    BY <1>0, <1>3, <1>4, <1>11, <2>1, OthersCount, LockGoes, AskingStays
<1>12. CASE CliFails(w)
  BY <1>9, <1>12 DEF CliFails
<1>13. CASE Respond(w)
  BY <1>10, <1>13 DEF Respond
<1>14. CASE Trouble(w)
  BY <1>9, <1>10, <1>11, <1>14 DEF Trouble
<1>15. CASE Break(w)
  BY <1>9, <1>15 DEF Break
<1> QED
  BY <1>5, <1>6, <1>7, <1>8, <1>12, <1>13, <1>14, <1>15 DEF Work

(* The caller's steps; an answered batch has no Unread.                    *)
LEMMA ThreadsCall ==
    ASSUME Inv, Threads, Call \/ Interrupt \/ Expire \/ Change \/ UNCHANGED vars
    PROVE  Threads'
<1>0. /\ Rest /\ Locked /\ \A v \in Workers : Asking(v) /\ Counted(v)
      /\ at \in [Workers -> Steps] /\ stopped \in BOOLEAN
  BY DEF Threads, Inv, Shapes
<1>1. CASE Submit
  <2>1. /\ pc = "idle" /\ pc' = "reading" /\ outcome' = "none" /\ stopped' = FALSE
        /\ at' = [v \in Workers |-> "due"] /\ turn' = [v \in Workers |-> v]
        /\ tries' = [v \in Workers |-> 0] /\ late' = [v \in Workers |-> 0]
        /\ UNCHANGED <<answers, tokens, lock>>
    BY <1>1 DEF Submit
  <2>2. Rest'
    BY <1>0, <2>1, BatchAssumption DEF Rest
  <2>3. Locked'
    BY <1>0, <2>1 DEF Locked, Rest, Live
  <2>4. ASSUME NEW v \in Workers PROVE Counted(v)' /\ Asking(v)'
    <3>1. at'[v] = "due" /\ turn'[v] = v /\ tries'[v] = 0 /\ late'[v] = 0
      BY <2>1
    <3> QED
      BY <3>1, BatchAssumption DEF Counted, Asking, Workers
  <2> QED
    BY <2>2, <2>3, <2>4 DEF Threads
<1>2. CASE Stop
  <2>1. /\ pc' = "raising" /\ stopped' = TRUE /\ UNCHANGED <<outcome, answers, turn, tries, tokens, lock, late>>
        /\ at' = [v \in Workers |-> IF at[v] = "due" THEN "cancelled" ELSE at[v]]
    BY <1>2 DEF Stop
  <2>2. Rest'
    BY <1>0, <2>1 DEF Rest
  <2>3. Locked'
    BY <1>0, <2>1 DEF Locked
  <2>4. ASSUME NEW v \in Workers PROVE Counted(v)' /\ Asking(v)'
    <3>1. at'[v] = at[v] \/ at'[v] = "cancelled"
      BY <2>1
    <3> QED
      BY <1>0, <2>1, <3>1 DEF Counted, Asking
  <2> QED
    BY <2>2, <2>3, <2>4 DEF Threads
<1>3. ASSUME UNCHANGED <<at, turn, tries, stopped, lock, late>>, tokens' \subseteq tokens,
             outcome' \in {"none", "answered", "raised", "incomplete"},
             answers' \in [Requests -> Nat],
             pc' = "idle" => \A v \in Workers : at[v] \notin Live
      PROVE  Threads'
  <2>1. Rest' /\ Locked'
    BY <1>0, <1>3 DEF Rest, Locked
  <2>2. ASSUME NEW v \in Workers PROVE Counted(v)' /\ Asking(v)'
    BY <1>0, <1>3 DEF Counted, Asking
  <2> QED
    BY <2>1, <2>2 DEF Threads
<1>4. CASE Drain
  BY <1>0, <1>3, <1>4 DEF Drain, Rest
<1>5. CASE Return
  <2>1. Whole /\ got \in [Requests -> Values] /\ began \in Nat /\ world \in Nat
    BY <1>5, ReturnsWhole DEF Inv, Shapes
  <2>2. got \in [Requests -> Nat]
    BY <2>1 DEF Whole, Values, Gateway
  <2>3. answers' = got /\ outcome' = "answered" /\ UNCHANGED <<at, turn, tries, stopped, lock, late, tokens>>
    BY <1>5, <2>1 DEF Return
  <2>4. \A v \in Workers : at[v] \notin Live
    BY <1>5 DEF Return, Live
  <2> QED
    BY <1>3, <2>2, <2>3, <2>4
<1>6. CASE Expire \/ Change \/ UNCHANGED vars
  <2>1. /\ UNCHANGED <<at, turn, tries, stopped, lock, late, outcome, answers, pc>>
        /\ tokens' \subseteq tokens
    BY <1>6 DEF Expire, Change, vars, caller
  <2> QED
    BY <1>0, <1>3, <2>1 DEF Rest
<1> QED
  BY <1>1, <1>2, <1>4, <1>5, <1>6 DEF Call, Collect, Interrupt

(* For every number of requests, threads and attempts: one thread at a     *)
(* time calls the Azure CLI, and after the first error a thread sends no   *)
(* more exchanges than one read may take (BatchSafe).                      *)
THEOREM BatchHolds == Spec => []BatchSafe
<1>1. Inv /\ Threads /\ [Next]_vars => Threads'
  BY ThreadsWork, ThreadsCall DEF Next
<1>2. Inv /\ Threads => BatchSafe
  <2> SUFFICES ASSUME Inv, Threads PROVE BatchSafe
    OBVIOUS
  <2>1. Drained
    BY BatchAssumption DEF Threads, Counted, Drained
  <2>2. got \in [Requests -> {Unread} \cup Nat]
    <3>1. Values \subseteq {Unread} \cup Nat
      BY DEF Values, Gateway, Inv, Shapes
    <3> QED
      BY <3>1 DEF Inv, Shapes
  <2>3. world \in Nat \ {0} /\ began \in 1 .. world
    BY DEF Inv, Shapes
  <2> QED
    BY <2>1, <2>2, <2>3 DEF BatchSafe, TypeOK, Threads, Rest, Locked, Inv, Shapes, Steps
<1> QED
  BY <1>1, <1>2, InvInit, ThreadsInit, InvNext, PTL DEF Spec

-----------------------------------------------------------------------------
(***************************************************************************)
(* The timed loops (ReadinessWindow), for every clock and every grant.  A   *)
(* loop is where its clock is; before a request it has its envelope, and   *)
(* what it has waited bounds how often it has asked.                       *)
(***************************************************************************)
Loops == {"package", "fence", "controller", "key", "assignment"}
Whys  == {"none", "closed", "late", "envelope", "deadline", "boundary", "attempts",
          "transport", "unfit"}

(* What no step changes.                                                   *)
Fixed == /\ kind \in Loops /\ hard \in Hards /\ grant \in Grants /\ lateReadiness \in Lates
         /\ Readiness!Admitted

(* The least delay of an attempt after the sixth.                          *)
Slot == Readiness!Seconds(Readiness!Cap)

(* The clock over the boundary, or at least as far as the attempts drive   *)
(* it.                                                                     *)
Driven(a) == clockReadiness >= Readiness!FinalAt \/ clockReadiness >= Slot * (a - 7)

Looking ==
    /\ attempts < 64
    /\ (attempts = 0 /\ clockReadiness = 0) \/ clockReadiness <= Readiness!FinalAt + lateReadiness
    /\ Driven(attempts + 1)
Sleeping ==
    /\ attempts \in 1 .. 63 /\ clockReadiness < Readiness!FinalAt /\ Driven(attempts)

(* A request has its envelope before its deadline; one that could still be *)
(* under way at the boundary begins there, by two readings of the clock.   *)
Requesting ==
    /\ attempts \in 1 .. 64 /\ Driven(attempts)
    /\ clockReadiness >= lateReadiness
    /\ clockReadiness + Readiness!Reserve <= Readiness!Limit(clockReadiness - lateReadiness)
    /\ kind = "assignment" => Readiness!Limit(clockReadiness - lateReadiness) <= hard
    /\ Readiness!Aligned => \/ clockReadiness - lateReadiness >= Readiness!FinalAt
                            \/ clockReadiness - lateReadiness + Readiness!Reserve < Readiness!FinalAt
    /\ kind \in {"package", "fence"} /\ Readiness!Uncut =>
         clockReadiness <= Readiness!FinalAt + 2 * lateReadiness

(* The create follows a read that succeeded.                               *)
Putting ==
    /\ kind \in {"package", "fence", "controller"} /\ grant[1] <= clockReadiness
    /\ attempts > 0 => clockReadiness <= Readiness!FinalRetry + lateReadiness \/ pcReadiness = "putting"
    /\ pcReadiness = "put" => attempts < 64
    /\ pcReadiness = "put" /\ attempts = 0 => clockReadiness + lateReadiness <= Readiness!Deadline
    /\ pcReadiness = "put" /\ attempts > 0 => grant[2] > grant[1]
    /\ pcReadiness = "putting" =>
         /\ attempts \in 1 .. 64
         /\ clockReadiness + Readiness!Reserve <= Readiness!CreateDeadline
Opened == kind = "assignment" =>
    Readiness!Boundary + Readiness!Slack + Readiness!Reserve <= hard

Kept ==
    /\ Readiness!FullInterval /\ Readiness!CreateFits /\ Readiness!TimeEndsIt
    /\ Readiness!ReserveKept /\ Readiness!AbsentIsLate

WindowInv ==
    /\ Fixed /\ Kept
    /\ clockReadiness \in Nat /\ attempts \in 0 .. 64 /\ lost \in 0 .. MaxLost /\ why \in Whys
    /\ pcReadiness \in {"start", "look", "asked", "sleep", "put", "putting"} \union Readiness!Ends
    /\ pcReadiness = "start" => clockReadiness = 0 /\ attempts = 0
    /\ pcReadiness \in {"look", "sleep", "asked"} => Opened
    /\ pcReadiness = "look" => Looking
    /\ pcReadiness = "sleep" => Sleeping
    /\ pcReadiness = "asked" => Requesting
    /\ pcReadiness \in {"put", "putting"} => Putting

(* The constants, and how the times of a loop lie to each other.           *)
LEMMA Circumstances ==
    ASSUME Fixed
    PROVE  /\ Second \in Nat /\ Second >= 1 /\ hard \in Nat
           /\ lateReadiness \in Nat /\ 2 * lateReadiness <= Second
           /\ grant[1] \in Nat /\ grant[2] \in Nat /\ MaxLost \in Nat
           /\ \A l \in Latencies : l \in Nat /\ l + lateReadiness <= 90 * Second
<1>1. grant \in Nat \X Nat /\ \A d \in Lates : 2 * d <= Second
  BY ReadsOK DEF Fixed
<1>2. \A d \in Lates : \A l \in Latencies : l + d <= 90 * Second
  BY ReadsOK
<1>3. /\ Second \in Nat /\ Second >= 1 /\ hard \in Nat /\ lateReadiness \in Nat /\ MaxLost \in Nat
      /\ Latencies \subseteq Nat
  BY ReadsOK DEF Fixed
<1> QED
  BY <1>1, <1>2, <1>3 DEF Fixed

LEMMA LoopTimes ==
    ASSUME Fixed
    PROVE  /\ Readiness!Reserve = 90 * Second /\ Readiness!Slack = Second
           /\ Readiness!Boundary = Second * (IF kind = "package" THEN 1800
                                            ELSE IF kind = "assignment" THEN 120 ELSE 600)
           /\ Readiness!CreateDeadline \in Int /\ Readiness!CreateDeadline <= hard - 90 * Second
           /\ Slot = Second * (IF kind = "package" THEN 32 ELSE 15)
           /\ kind = "assignment" => Readiness!FinalAt = Second * 120
           /\ kind # "assignment" =>
                /\ Readiness!Deadline \in Int
                /\ Readiness!Deadline <= hard - 90 * Second
                /\ kind \in {"package", "fence", "controller"}
                     => Readiness!Deadline <= Readiness!CreateDeadline - 90 * Second
                /\ Readiness!FinalAt = Readiness!Deadline
                       - (IF kind \in {"package", "fence"} THEN 91 ELSE 90) * Second
                /\ Readiness!FinalAt <= Readiness!Boundary
           /\ kind = "package" => Readiness!FinalAt <= 1800 * Second
           /\ kind # "package" => Readiness!FinalAt <= 600 * Second
           /\ Readiness!Aligned <=> kind \in {"package", "fence", "assignment"}
<1>1. Second \in Nat /\ Second >= 1 /\ hard \in Nat /\ kind \in Loops
  BY Circumstances DEF Fixed
<1>2. /\ Readiness!Reserve = 90 * Second /\ Readiness!Slack = Second
      /\ Readiness!CanaryCleanup = 2008 * Second
  BY <1>1 DEF Readiness!Reserve, Readiness!Slack, Readiness!Seconds, Readiness!CanaryCleanup
<1>3. CASE kind = "package"
  BY <1>1, <1>2, <1>3 DEF Readiness!Boundary, Readiness!CreateDeadline, Readiness!Work,
     Readiness!Deadline, Readiness!FinalAt, Readiness!Full, Readiness!Aligned, Readiness!Least, Readiness!Seconds,
     Slot, Readiness!Cap
<1>4. CASE kind = "fence"
  BY <1>1, <1>2, <1>4 DEF Readiness!Boundary, Readiness!CreateDeadline, Readiness!Work,
     Readiness!Deadline, Readiness!FinalAt, Readiness!Full, Readiness!Aligned, Readiness!Least, Readiness!Seconds,
     Slot, Readiness!Cap
<1>5. CASE kind = "controller"
  BY <1>1, <1>2, <1>5 DEF Readiness!Boundary, Readiness!CreateDeadline, Readiness!Work,
     Readiness!Deadline, Readiness!FinalAt, Readiness!Full, Readiness!Aligned, Readiness!Least, Readiness!Seconds,
     Slot, Readiness!Cap
<1>6. CASE kind = "key"
  BY <1>1, <1>2, <1>6 DEF Readiness!Boundary, Readiness!CreateDeadline, Readiness!Work,
     Readiness!Deadline, Readiness!FinalAt, Readiness!Full, Readiness!Aligned, Readiness!Least, Readiness!Seconds,
     Slot, Readiness!Cap
<1>7. CASE kind = "assignment"
  BY <1>1, <1>2, <1>7 DEF Readiness!Boundary, Readiness!CreateDeadline,
     Readiness!FinalAt, Readiness!Aligned, Readiness!Seconds, Slot, Readiness!Cap
<1> QED
  BY <1>1, <1>3, <1>4, <1>5, <1>6, <1>7 DEF Loops
(* The inputs stay, and so do the times that only depend on them.          *)
LEMMA LoopsStay ==
    ASSUME Fixed, Readiness!Stay
    PROVE  /\ Fixed' /\ (Opened <=> Opened')
           /\ lateReadiness' = lateReadiness /\ kind' = kind /\ hard' = hard /\ grant' = grant
           /\ Readiness!FinalAt' = Readiness!FinalAt /\ Slot' = Slot
           /\ Readiness!FinalRetry' = Readiness!FinalRetry
           /\ Readiness!Deadline' = Readiness!Deadline
           /\ Readiness!CreateDeadline' = Readiness!CreateDeadline
           /\ Readiness!Boundary' = Readiness!Boundary
           /\ Readiness!Aligned' = Readiness!Aligned
           /\ Readiness!Reserve' = Readiness!Reserve
           /\ Readiness!Full' = Readiness!Full
           /\ Readiness!Uncut' = Readiness!Uncut
           /\ \A when : (Readiness!Limit(when))' = Readiness!Limit(when)
<1>1. kind' = kind /\ hard' = hard /\ grant' = grant /\ lateReadiness' = lateReadiness
  BY DEF Readiness!Stay
<1>2. Readiness!Boundary' = Readiness!Boundary /\ Readiness!CreateDeadline' = Readiness!CreateDeadline
  BY <1>1 DEF Readiness!Boundary, Readiness!CreateDeadline
<1>3. Readiness!Work' = Readiness!Work /\ Readiness!Full' = Readiness!Full
      /\ Readiness!Aligned' = Readiness!Aligned /\ Readiness!Reserve' = Readiness!Reserve
      /\ Readiness!Slack' = Readiness!Slack
  BY <1>1, <1>2 DEF Readiness!Work, Readiness!Full, Readiness!Aligned, Readiness!Reserve, Readiness!Slack
<1>4. Readiness!Deadline' = Readiness!Deadline
  BY <1>3 DEF Readiness!Deadline
<1>5. Readiness!FinalAt' = Readiness!FinalAt
  BY <1>1, <1>2, <1>3, <1>4 DEF Readiness!FinalAt
<1>6. Readiness!FinalRetry' = Readiness!FinalRetry
  BY <1>1, <1>2, <1>3, <1>5 DEF Readiness!FinalRetry
<1>7. \A when : (Readiness!Limit(when))' = Readiness!Limit(when)
  BY <1>1, <1>3, <1>4, <1>5 DEF Readiness!Limit
<1>8. Fixed' /\ (Opened <=> Opened') /\ Slot' = Slot
  BY <1>1, <1>2, <1>3 DEF Fixed, Opened, Slot, Readiness!Cap, Readiness!Admitted
<1>9. Readiness!Uncut' = Readiness!Uncut
  BY <1>1, <1>3, <1>4 DEF Readiness!Uncut
<1> QED
  BY <1>1, <1>2, <1>3, <1>4, <1>5, <1>6, <1>7, <1>8, <1>9

(* A step that ends nothing.                                               *)
LEMMA KeptOn ==
    ASSUME Fixed, Kept, Readiness!Stay, why' = why, pcReadiness' \notin Readiness!Ends
    PROVE  Kept'
BY DEF Kept, Readiness!FullInterval, Readiness!CreateFits, Readiness!TimeEndsIt,
       Readiness!ReserveKept, Readiness!AbsentIsLate, Readiness!Missed, Readiness!Ends

(* A step that ends the loop without a result.                             *)
LEMMA KeptFailed ==
    ASSUME Fixed, Readiness!Stay, pcReadiness' = "failed", why' \in Whys,
           why' \notin {"unfit", "attempts"}, clockReadiness' \in Nat,
           clockReadiness' <= Readiness!CreateDeadline \/ kind # "controller",
           clockReadiness' <= hard,
           \/ why' \in {"none", "closed", "transport"}
           \/ grant[1] > Readiness!Boundary \/ ~Readiness!Uncut \/ grant[2] > grant[1]
           \/ kind \notin {"package", "fence"}
    PROVE  Kept'
<1>1. /\ Readiness!Boundary' = Readiness!Boundary /\ Readiness!Uncut' = Readiness!Uncut
      /\ kind' = kind /\ grant' = grant /\ hard' = hard
      /\ Readiness!CreateDeadline' = Readiness!CreateDeadline
  BY LoopsStay
<1>2. Readiness!Boundary \in Int /\ Readiness!CreateDeadline \in Int
  <2>1. Second \in Nat
    BY Circumstances
  <2>2. Readiness!Boundary = Second * (IF kind = "package" THEN 1800
                                       ELSE IF kind = "assignment" THEN 120 ELSE 600)
        /\ Readiness!CreateDeadline \in Int
    BY LoopTimes
  <2>3. Readiness!Boundary \in {Second * 1800, Second * 120, Second * 600}
    BY <2>2
  <2> QED
    BY <2>1, <2>2, <2>3
<1>3. grant[1] \in Nat /\ grant[2] \in Nat
  BY Circumstances
<1>4. Readiness!FullInterval'
  <2> SUFFICES ASSUME Readiness!Missed', Readiness!Uncut, kind \in {"package", "fence"}
               PROVE  grant[2] > grant[1]
    BY <1>1 DEF Readiness!FullInterval
  <2>1. why' \notin {"none", "closed", "transport"} /\ grant[1] <= Readiness!Boundary
    BY <1>1 DEF Readiness!Missed
  <2> QED
    BY <2>1, <1>2, <1>3
<1>5. Readiness!ReserveKept'
  BY <1>1, <1>2 DEF Readiness!ReserveKept
<1> QED
  BY <1>4, <1>5 DEF Kept, Readiness!CreateFits, Readiness!TimeEndsIt, Readiness!AbsentIsLate

LEMMA WindowInit == Readiness!Init => WindowInv
<1> SUFFICES ASSUME Readiness!Init PROVE WindowInv
  OBVIOUS
<1>1. Fixed
  BY DEF Readiness!Init, Fixed, Loops
<1>2. Kept
  BY DEF Readiness!Init, Kept, Readiness!FullInterval, Readiness!CreateFits, Readiness!TimeEndsIt,
       Readiness!ReserveKept, Readiness!AbsentIsLate, Readiness!Missed, Readiness!Ends
<1>3. MaxLost \in Nat
  BY ReadsOK
<1> QED
  BY <1>1, <1>2, <1>3 DEF Readiness!Init, WindowInv, Whys

LEMMA WindowStart == ASSUME WindowInv, Readiness!Start PROVE WindowInv'
<1>1. /\ Fixed /\ Kept /\ Readiness!Stay /\ clockReadiness = 0 /\ attempts = 0
      /\ UNCHANGED <<clockReadiness, attempts, lost>>
  BY DEF WindowInv, Readiness!Start
<1>2. CASE Readiness!Fail("closed")
  <2>1. kind = "controller" => Readiness!CreateDeadline >= 0
    BY <1>1, LoopTimes, Circumstances DEF Fixed, Readiness!Admitted, Readiness!CreateDeadline
  <2>2. Kept'
    <3>1. hard \in Nat
      BY <1>1, Circumstances
    <3>2. /\ clockReadiness' \in Nat /\ clockReadiness' <= hard
          /\ clockReadiness' <= Readiness!CreateDeadline \/ kind # "controller"
      BY <1>1, <2>1, <3>1
    <3>3. pcReadiness' = "failed" /\ why' = "closed"
      BY <1>2 DEF Readiness!Fail
    <3> QED
      BY <1>1, <3>2, <3>3, KeptFailed DEF Whys
  <2>3. Fixed'
    BY <1>1, LoopsStay
  <2> QED
    BY <1>1, <1>2, <2>2, <2>3 DEF WindowInv, Readiness!Fail, Whys, Readiness!Ends
<1>3. CASE pcReadiness' = "look" /\ UNCHANGED why /\
           ~ (\/ kind \in {"fence", "key"} /\ Readiness!Deadline < Readiness!Reserve
              \/ kind = "assignment" /\ Readiness!Boundary + Readiness!Slack + Readiness!Reserve > hard)
  <2>1. Kept' /\ Fixed'
    BY <1>1, <1>3, KeptOn, LoopsStay DEF Readiness!Ends
  <2>2. Opened
    BY <1>1, <1>3, LoopTimes, Circumstances DEF Opened
  <2>3. Looking'
    <3>1. Slot' = Slot /\ Slot \in Nat
      BY <1>1, LoopsStay, LoopTimes, Circumstances
    <3> QED
      BY <1>1, <3>1 DEF Looking, Driven
  <2>4. Opened'
    BY <1>1, <2>2, LoopsStay
  <2> QED
    BY <1>1, <1>3, <2>1, <2>3, <2>4 DEF WindowInv, Readiness!Ends
<1> QED
  BY <1>2, <1>3 DEF Readiness!Start

LEMMA TimesAreNumbers ==
    ASSUME Fixed
    PROVE  /\ Readiness!FinalAt \in Int /\ Readiness!Boundary \in Int
           /\ Slot \in Nat /\ Slot >= 15
           /\ kind # "assignment" => Readiness!Deadline \in Int
<1>1. Second \in Nat /\ Second >= 1 /\ kind \in Loops
  BY Circumstances DEF Fixed
<1>2. Readiness!Boundary \in {Second * 1800, Second * 120, Second * 600}
      /\ Slot \in {Second * 32, Second * 15}
  BY LoopTimes
<1>3. Readiness!FinalAt \in Int /\ (kind # "assignment" => Readiness!Deadline \in Int)
  <2>1. CASE kind = "assignment"
    BY <1>1, <2>1, LoopTimes
  <2>2. CASE kind \in {"package", "fence"}
    <3>1. Readiness!Deadline \in Int /\ Readiness!FinalAt = Readiness!Deadline - 91 * Second
      BY <2>2, LoopTimes
    <3> QED
      BY <1>1, <2>2, <3>1
  <2>3. CASE kind \in {"controller", "key"}
    <3>1. Readiness!Deadline \in Int /\ Readiness!FinalAt = Readiness!Deadline - 90 * Second
      BY <2>3, LoopTimes
    <3> QED
      BY <1>1, <2>3, <3>1
  <2> QED
    BY <1>1, <2>1, <2>2, <2>3 DEF Loops
<1> QED
  BY <1>1, <1>2, <1>3

(* Before a request, the clock leaves the reserve; and a loop that is not  *)
(* cut short has its time up to the boundary.                              *)
LEMMA LookTimes ==
    ASSUME Fixed, Opened, Looking, clockReadiness \in Nat
    PROVE  /\ clockReadiness <= hard
           /\ kind = "controller" => clockReadiness <= Readiness!CreateDeadline
           /\ kind \in {"package", "fence"} /\ Readiness!Uncut =>
                /\ clockReadiness <= Readiness!FinalAt + lateReadiness
                /\ Readiness!Deadline = Readiness!FinalAt + Second + 90 * Second
<1>1. /\ Second \in Nat /\ Second >= 1 /\ hard \in Nat /\ kind \in Loops
      /\ lateReadiness \in Nat /\ 2 * lateReadiness <= Second
  BY Circumstances DEF Fixed
<1>2. \/ clockReadiness = 0
      \/ clockReadiness <= Readiness!FinalAt + lateReadiness
  BY DEF Looking
<1>3. CASE kind \in {"package", "fence", "key"}
  <2>1. /\ Readiness!Deadline \in Int /\ Readiness!Deadline <= hard - 90 * Second
        /\ Readiness!FinalAt = Readiness!Deadline
               - (IF kind \in {"package", "fence"} THEN 91 ELSE 90) * Second
    BY <1>3, LoopTimes
  <2>2. clockReadiness <= hard
    BY <1>1, <1>2, <2>1
  <2>3. ASSUME kind \in {"package", "fence"}, Readiness!Uncut
        PROVE  /\ Readiness!FinalAt >= 0
               /\ Readiness!Deadline = Readiness!FinalAt + Second + 90 * Second
    <3>1. Readiness!Deadline = Readiness!Boundary + Second + 90 * Second
      <4>1. Readiness!Deadline = Readiness!Full /\ Readiness!Boundary \in Int
            /\ Readiness!Slack = Second /\ Readiness!Reserve = 90 * Second
        BY <2>3, LoopTimes, TimesAreNumbers DEF Readiness!Uncut
      <4>2. CASE kind = "package"
        BY <1>1, <4>1, <4>2 DEF Readiness!Full
      <4>3. CASE kind = "fence"
        BY <1>1, <4>1, <4>3 DEF Readiness!Full
      <4> QED
        BY <2>3, <4>2, <4>3
    <3>2. Readiness!Boundary \in {Second * 1800, Second * 600}
      BY <2>3, LoopTimes
    <3> QED
      BY <1>1, <2>1, <2>3, <3>1, <3>2
  <2> QED
    BY <1>1, <1>2, <1>3, <2>1, <2>2, <2>3
<1>4. CASE kind = "controller"
  <2>1. /\ Readiness!Deadline \in Int
        /\ Readiness!CreateDeadline \in Int /\ Readiness!CreateDeadline <= hard - 90 * Second
        /\ Readiness!Deadline <= Readiness!CreateDeadline - 90 * Second
        /\ Readiness!FinalAt = Readiness!Deadline - 90 * Second
    BY <1>4, LoopTimes
  <2>2. Readiness!CreateDeadline >= 0
    <3>1. hard - Readiness!CanaryCleanup - Readiness!Reserve >= Second * 600
      BY <1>4, LoopTimes DEF Fixed, Readiness!Admitted
    <3>2. Readiness!CreateDeadline = hard - Readiness!CanaryCleanup
      BY <1>4 DEF Readiness!CreateDeadline
    <3>3. Readiness!CanaryCleanup = 2008 * Second /\ Readiness!Reserve = 90 * Second
      BY <1>1 DEF Readiness!Reserve, Readiness!Seconds, Readiness!CanaryCleanup
    <3> QED
      BY <1>1, <3>1, <3>2, <3>3
  <2> QED
    BY <1>1, <1>2, <1>4, <2>1, <2>2
<1>5. CASE kind = "assignment"
  <2>1. Readiness!FinalAt = Second * 120 /\ Readiness!Boundary = Second * 120
    BY <1>5, LoopTimes
  <2>2. Second * 120 + Second + 90 * Second <= hard
    BY <1>5, <2>1, LoopTimes DEF Opened
  <2> QED
    BY <1>1, <1>2, <1>5, <2>1, <2>2
<1> QED
  BY <1>1, <1>3, <1>4, <1>5 DEF Loops

LEMMA WindowLook == ASSUME WindowInv, Readiness!Look PROVE WindowInv'
<1>1. /\ Fixed /\ Kept /\ Opened /\ Looking /\ Readiness!Stay /\ lost' = lost
      /\ clockReadiness \in Nat /\ attempts \in 0 .. 64 /\ lost \in 0 .. MaxLost /\ why \in Whys
  BY DEF WindowInv, Readiness!Look
<1> DEFINE when == Readiness!When
<1>2. /\ Second \in Nat /\ Second >= 1 /\ hard \in Nat
      /\ lateReadiness \in Nat /\ 2 * lateReadiness <= Second
      /\ Readiness!FinalAt \in Int /\ Slot \in Nat
  BY <1>1, Circumstances, TimesAreNumbers
<1>3. /\ when \in Int /\ when >= clockReadiness
      /\ when = clockReadiness \/ when = Readiness!FinalAt + lateReadiness
      /\ Readiness!Aligned => \/ when >= Readiness!FinalAt
                              \/ when + Readiness!Reserve < Readiness!FinalAt
  <2>1. Readiness!Reserve = 90 * Second
    BY <1>1, LoopTimes
  <2> QED
    BY <1>1, <1>2, <2>1 DEF Readiness!When
<1>4. ASSUME kind \in {"package", "fence"}, Readiness!Uncut
      PROVE  when <= Readiness!FinalAt + lateReadiness /\ when + lateReadiness + Readiness!Reserve <= Readiness!Limit(when)
  <2>1. /\ clockReadiness <= Readiness!FinalAt + lateReadiness
        /\ Readiness!Deadline = Readiness!FinalAt + Second + 90 * Second
    BY <1>1, <1>4, LookTimes
  <2>2. Readiness!Limit(when) = Readiness!Deadline
    BY <1>4 DEF Readiness!Limit
  <2>3. Readiness!Reserve = 90 * Second
    BY <1>1, LoopTimes
  <2> QED
    BY <1>2, <1>3, <2>1, <2>2, <2>3
<1>5. ASSUME pcReadiness' = "failed", UNCHANGED <<clockReadiness, attempts>>,
             \/ why' = "closed"
             \/ why' = "late" /\ when > Readiness!FinalStart
             \/ why' = "envelope" /\ when + lateReadiness + Readiness!Reserve > Readiness!Limit(when)
      PROVE  WindowInv'
  <2>1. /\ clockReadiness <= hard
        /\ kind = "controller" => clockReadiness <= Readiness!CreateDeadline
    BY <1>1, LookTimes
  <2>2. \/ why' = "closed" \/ ~Readiness!Uncut \/ kind \notin {"package", "fence"}
    <3> SUFFICES ASSUME why' # "closed", Readiness!Uncut, kind \in {"package", "fence"}
                 PROVE  FALSE
      OBVIOUS
    <3>1. when <= Readiness!FinalAt + lateReadiness /\ when + lateReadiness + Readiness!Reserve <= Readiness!Limit(when)
      BY <1>4
    <3>2. Readiness!FinalStart = Readiness!FinalAt + Second
      BY <1>1, LoopTimes DEF Readiness!FinalStart
    <3>3. Readiness!Limit(when) \in Int /\ Readiness!Reserve \in Int
      BY <1>1, <1>2, TimesAreNumbers, LoopTimes DEF Readiness!Limit
    <3> QED
      BY <1>2, <1>3, <1>5, <3>1, <3>2, <3>3
  <2>3. Kept'
    BY <1>1, <1>5, <2>1, <2>2, KeptFailed DEF Whys
  <2>4. Fixed'
    BY <1>1, LoopsStay
  <2> QED
    BY <1>1, <1>5, <2>3, <2>4 DEF WindowInv, Whys, Readiness!Ends
<1>6. ASSUME clockReadiness' = when + lateReadiness, attempts' = attempts + 1,
             pcReadiness' = "asked", UNCHANGED why,
             ~(kind = "assignment" /\ Readiness!Limit(when) > hard),
             ~(when + lateReadiness + Readiness!Reserve > Readiness!Limit(when))
      PROVE  WindowInv'
  <2>1. Fixed' /\ Kept' /\ Opened'
    BY <1>1, <1>6, KeptOn, LoopsStay DEF Readiness!Ends
  <2>2. /\ clockReadiness' - lateReadiness = when /\ clockReadiness' >= lateReadiness
        /\ clockReadiness' >= clockReadiness /\ clockReadiness' \in Nat
    BY <1>1, <1>2, <1>3, <1>6
  <2>3. Readiness!Limit(when) \in Int /\ Readiness!Reserve \in Int
    BY <1>1, <1>2, <1>3, TimesAreNumbers, LoopTimes DEF Readiness!Limit
  <2>4. /\ lateReadiness' = lateReadiness /\ kind' = kind /\ hard' = hard
        /\ Readiness!FinalAt' = Readiness!FinalAt /\ Slot' = Slot
        /\ Readiness!Aligned' = Readiness!Aligned /\ Readiness!Reserve' = Readiness!Reserve
        /\ Readiness!Uncut' = Readiness!Uncut
    BY <1>1, LoopsStay
  <2>5. Readiness!Limit(clockReadiness - lateReadiness)' = Readiness!Limit(when)
    <3>1. /\ Readiness!Deadline' = Readiness!Deadline /\ Readiness!Reserve' = Readiness!Reserve
      BY <1>1, LoopsStay
    <3> QED
      BY <2>2, <2>4, <3>1 DEF Readiness!Limit
  <2>6. attempts' \in 1 .. 64 /\ Driven(attempts)'
    <3>1. attempts \in 0 .. 63 /\ Driven(attempts + 1)
      BY <1>1 DEF Looking
    <3> QED
      BY <1>1, <1>2, <1>6, <2>2, <2>4, <3>1 DEF Driven
  <2>7. Requesting'
    BY <1>2, <1>3, <1>4, <1>6, <2>2, <2>3, <2>4, <2>5, <2>6 DEF Requesting
  <2> QED
    BY <1>1, <1>6, <2>1, <2>2, <2>6, <2>7 DEF WindowInv, Readiness!Ends
<1> HIDE DEF when
<1> QED
  BY <1>5, <1>6 DEF Readiness!Look, Readiness!Fail, when

(* A delay does not pass the boundary that it is given.                    *)
LEMMA DelayTimes ==
    ASSUME Fixed, attempts \in 1 .. 64, NEW now \in Nat, NEW end \in Int, now < end
    PROVE  /\ Readiness!Delay(now, end) \in Nat
           /\ Readiness!Delay(now, end) <= end - now
           /\ \/ Readiness!Delay(now, end) = end - now
              \/ attempts <= 6
              \/ Readiness!Delay(now, end) = Slot
<1> DEFINE delay == Readiness!Delay(now, end)
           rest  == end - now
<1>1. rest \in Nat /\ rest >= 1
  OBVIOUS
<1>2. Second \in Nat /\ Slot \in Nat
  BY Circumstances, TimesAreNumbers
<1>3. Slot = Second * (IF kind = "package" THEN 32 ELSE 15)
  BY LoopTimes
<1>4. CASE attempts > 6 \/ kind = "assignment"
  <2>1. delay = Readiness!Least(Slot, rest)
    BY <1>4 DEF Readiness!Delay, Slot, Readiness!Cap
  <2> QED
    BY <1>1, <1>2, <2>1 DEF Readiness!Least
<1>5. CASE attempts \in 1 .. 6 /\ kind # "assignment"
  <2> DEFINE d == Readiness!Least(Readiness!Doubled[attempts], Readiness!Cap)
  <2>1. delay = Readiness!Least(d * Second, rest)
    BY <1>5 DEF Readiness!Delay, Readiness!Seconds
  <2>2. d \in Nat
    BY <1>5 DEF Readiness!Least, Readiness!Doubled, Readiness!Cap
  <2>3. d * Second \in Nat
    BY <1>2, <2>2
  <2> QED
    BY <1>1, <1>5, <2>1, <2>3 DEF Readiness!Least
<1> QED
  BY <1>4, <1>5

(* Each further delay takes the loop at least a slot nearer.               *)
LEMMA WindowSleep == ASSUME WindowInv, Readiness!Sleep PROVE WindowInv'
<1> DEFINE delay == Readiness!Delay(clockReadiness, Readiness!FinalAt)
<1>1. /\ Fixed /\ Kept /\ Opened /\ Sleeping /\ Readiness!Stay
      /\ clockReadiness \in Nat /\ lost \in 0 .. MaxLost /\ why \in Whys
      /\ clockReadiness' = clockReadiness + delay + lateReadiness
      /\ pcReadiness' = "look" /\ UNCHANGED <<attempts, lost, why>>
  BY DEF WindowInv, Readiness!Sleep
<1>2. /\ Second \in Nat /\ Second >= 1 /\ kind \in Loops /\ lateReadiness \in Nat
      /\ Readiness!FinalAt \in Int /\ Slot \in Nat
      /\ attempts \in 1 .. 63 /\ clockReadiness < Readiness!FinalAt
      /\ clockReadiness >= Slot * (attempts - 7)
  BY <1>1, Circumstances, TimesAreNumbers DEF Sleeping, Driven, Fixed
<1>4. /\ delay \in Nat /\ delay <= Readiness!FinalAt - clockReadiness
      /\ delay = Readiness!FinalAt - clockReadiness \/ attempts <= 6 \/ delay = Slot
  BY <1>1, <1>2, DelayTimes
<1>5. Fixed' /\ Kept' /\ Opened' /\ Slot' = Slot /\ Readiness!FinalAt' = Readiness!FinalAt
      /\ lateReadiness' = lateReadiness
  BY <1>1, KeptOn, LoopsStay DEF Readiness!Ends
<1> HIDE DEF delay
<1>6. Driven(attempts + 1)'
  <2>1. CASE attempts <= 6
    <3>1. attempts + 1 - 7 <= 0
      BY <1>2, <2>1
    <3>2. Slot * (attempts + 1 - 7) <= 0
      BY <1>2, <3>1
    <3> QED
      BY <1>1, <1>2, <1>4, <1>5, <3>2 DEF Driven
  <2>2. CASE delay = Readiness!FinalAt - clockReadiness
    BY <1>1, <1>2, <1>5, <2>2 DEF Driven
  <2>3. CASE delay = Slot
    <3>1. Slot * (attempts + 1 - 7) = Slot * (attempts - 7) + Slot
      BY <1>2
    <3> QED
      BY <1>1, <1>2, <1>5, <2>3, <3>1 DEF Driven
  <2> QED
    BY <1>4, <2>1, <2>2, <2>3
<1>7. Looking'
  BY <1>1, <1>2, <1>4, <1>5, <1>6 DEF Looking
<1>8. clockReadiness' \in Nat
  BY <1>1, <1>2, <1>4
<1> QED
  BY <1>1, <1>2, <1>5, <1>7, <1>8 DEF WindowInv, Readiness!Ends

(* How a request ends the loop, and how it goes on.                        *)
LEMMA FailedInv ==
    ASSUME Fixed', Kept', pcReadiness' = "failed", clockReadiness' \in Nat,
           attempts' \in 0 .. 64, lost' \in 0 .. MaxLost, why' \in Whys
    PROVE  WindowInv'
BY DEF WindowInv, Readiness!Ends

LEMMA SleepInv ==
    ASSUME Fixed, Kept, Opened, Requesting, Readiness!Stay, clockReadiness \in Nat,
           NEW l \in Latencies, clockReadiness' = clockReadiness + l,
           clockReadiness' < Readiness!FinalAt, attempts # 64, attempts' = attempts,
           pcReadiness' = "sleep", why' = why, why \in Whys, lost' \in 0 .. MaxLost
    PROVE  WindowInv'
<1>1. Fixed' /\ Kept' /\ Opened' /\ Slot' = Slot /\ Readiness!FinalAt' = Readiness!FinalAt
  BY KeptOn, LoopsStay DEF Readiness!Ends
<1>2. l \in Nat /\ Slot \in Nat /\ Readiness!FinalAt \in Int
  BY Circumstances, TimesAreNumbers
<1>3. attempts \in 1 .. 63 /\ Driven(attempts)
  BY DEF Requesting
<1>4. Sleeping'
  BY <1>1, <1>2, <1>3 DEF Sleeping, Driven
<1> QED
  BY <1>1, <1>2, <1>3, <1>4 DEF WindowInv, Readiness!Ends

(* A step that ends the loop with its result.                              *)
LEMMA KeptEnded ==
    ASSUME Fixed, Kept, Readiness!Stay, why' = why,
           pcReadiness' \in {"created", "read", "exact", "absent"},
           clockReadiness' <= hard,
           pcReadiness' = "created" \/ kind = "controller" => clockReadiness' <= Readiness!CreateDeadline,
           pcReadiness' = "absent" => grant[1] > Readiness!Boundary
    PROVE  Kept'
<1>1. /\ Readiness!Boundary' = Readiness!Boundary /\ kind' = kind /\ grant' = grant /\ hard' = hard
      /\ Readiness!CreateDeadline' = Readiness!CreateDeadline
  BY LoopsStay
<1>2. Readiness!ReserveKept'
  BY <1>1 DEF Readiness!ReserveKept
<1> QED
  BY <1>1, <1>2 DEF Kept, Readiness!CreateFits, Readiness!TimeEndsIt, Readiness!AbsentIsLate,
     Readiness!FullInterval, Readiness!Missed

(* What an answer to a request may find.                                   *)
LEMMA AskTimes ==
    ASSUME Fixed, Requesting, clockReadiness \in Nat, NEW l \in Latencies
    PROVE  /\ l \in Nat /\ clockReadiness + l \in Nat
           /\ Readiness!Limit(clockReadiness - lateReadiness) \in Int
           /\ clockReadiness + l + lateReadiness <= Readiness!Limit(clockReadiness - lateReadiness)
           /\ Readiness!Limit(clockReadiness - lateReadiness) <= hard
           /\ kind = "controller" => clockReadiness + l <= Readiness!CreateDeadline
           /\ kind # "assignment" => Readiness!Limit(clockReadiness - lateReadiness) = Readiness!Deadline
<1>1. /\ Second \in Nat /\ hard \in Nat /\ kind \in Loops /\ lateReadiness \in Nat
      /\ l \in Nat /\ l + lateReadiness <= 90 * Second /\ Readiness!Reserve = 90 * Second
      /\ Readiness!FinalAt \in Int
  BY Circumstances, LoopTimes, TimesAreNumbers DEF Fixed
<1>2. CASE kind = "assignment"
  <2>1. Readiness!Limit(clockReadiness - lateReadiness) \in Int
    BY <1>1, <1>2 DEF Readiness!Limit
  <2> QED
    BY <1>1, <1>2, <2>1 DEF Requesting
<1>3. CASE kind # "assignment"
  <2>1. /\ Readiness!Limit(clockReadiness - lateReadiness) = Readiness!Deadline
        /\ Readiness!Deadline \in Int
    BY <1>3, TimesAreNumbers DEF Readiness!Limit
  <2>2. /\ Readiness!Deadline <= hard - 90 * Second /\ Readiness!CreateDeadline \in Int
        /\ kind = "controller" => Readiness!Deadline <= Readiness!CreateDeadline - 90 * Second
    BY <1>3, LoopTimes
  <2> QED
    BY <1>1, <1>3, <2>1, <2>2 DEF Requesting
<1> QED
  BY <1>2, <1>3

LEMMA WindowAnswer == ASSUME WindowInv, Readiness!Answer PROVE WindowInv'
<1>1. /\ Fixed /\ Kept /\ Opened /\ Requesting /\ Readiness!Stay /\ lost' = lost
      /\ clockReadiness \in Nat /\ attempts \in 1 .. 64 /\ lost \in 0 .. MaxLost /\ why \in Whys
  BY DEF WindowInv, Readiness!Answer, Requesting
<1> DEFINE start == clockReadiness - lateReadiness
<1>2. PICK l \in Latencies, granted \in BOOLEAN :
         /\ clockReadiness' = clockReadiness + l
         /\ granted => grant[1] <= clockReadiness + l
         /\ ~granted => grant[1] > clockReadiness
         /\ \/ /\ clockReadiness + l >= Readiness!Limit(start) /\ Readiness!Fail("deadline")
            \/ /\ granted /\ UNCHANGED why
               /\ pcReadiness' = CASE kind = "key"        -> "read"
                                   [] kind = "assignment" -> "exact"
                                   [] OTHER               -> "put"
            \/ /\ ~granted /\ kind = "assignment" /\ start >= Readiness!FinalAt
               /\ pcReadiness' = "absent" /\ UNCHANGED why
            \/ ~granted /\ clockReadiness + l >= Readiness!FinalAt /\ Readiness!Fail("boundary")
            \/ /\ ~granted /\ ~(clockReadiness + l >= Readiness!FinalAt)
               /\ attempts = 64 /\ Readiness!Fail("attempts")
            \/ /\ ~granted /\ ~(clockReadiness + l >= Readiness!FinalAt) /\ attempts # 64
               /\ pcReadiness' = "sleep" /\ UNCHANGED why
  <2>1. PICK l \in Latencies, granted \in BOOLEAN :
         /\ clockReadiness' = clockReadiness + l
         /\ granted => grant[1] <= clockReadiness + l
         /\ ~granted => grant[1] > clockReadiness
         /\ IF clockReadiness + l >= Readiness!Limit(start)
            THEN Readiness!Fail("deadline")
            ELSE IF granted
            THEN /\ pcReadiness' = CASE kind = "key"        -> "read"
                                     [] kind = "assignment" -> "exact"
                                     [] OTHER               -> "put"
                 /\ UNCHANGED why
            ELSE IF kind = "assignment" /\ start >= Readiness!FinalAt
            THEN pcReadiness' = "absent" /\ UNCHANGED why
            ELSE IF clockReadiness + l >= Readiness!FinalAt
            THEN Readiness!Fail("boundary")
            ELSE IF attempts = 64 THEN Readiness!Fail("attempts")
            ELSE pcReadiness' = "sleep" /\ UNCHANGED why
    BY DEF Readiness!Answer, Readiness!Attempts
  <2> HIDE DEF start
  <2> WITNESS l \in Latencies, granted \in BOOLEAN
  <2> QED
    BY <2>1, Zenon
<1>3. /\ Second \in Nat /\ Second >= 1 /\ hard \in Nat /\ kind \in Loops
      /\ lateReadiness \in Nat /\ 2 * lateReadiness <= Second /\ l \in Nat
      /\ l + lateReadiness <= 90 * Second
      /\ grant[1] \in Nat /\ grant[2] \in Nat /\ Readiness!Reserve = 90 * Second
      /\ Readiness!FinalAt \in Int /\ Readiness!Boundary \in Int /\ Slot \in Nat
  BY <1>1, Circumstances, TimesAreNumbers, LoopTimes DEF Fixed
<1>4. /\ clockReadiness' \in Nat /\ Readiness!Limit(start) \in Int
      /\ clockReadiness' + lateReadiness <= Readiness!Limit(start) /\ Readiness!Limit(start) <= hard
      /\ kind = "controller" => clockReadiness' <= Readiness!CreateDeadline
      /\ clockReadiness' <= hard
      /\ kind # "assignment" => Readiness!Limit(start) = Readiness!Deadline
  BY <1>1, <1>2, <1>3, AskTimes
<1>5. Fixed' /\ Opened'
  BY <1>1, LoopsStay
<1>6. ASSUME kind \in {"package", "fence"}, Readiness!Uncut
      PROVE  /\ clockReadiness' < Readiness!Limit(start)
             /\ Readiness!FinalAt = Readiness!Boundary
  <2>1. /\ Readiness!Deadline = Readiness!Boundary + Second + 90 * Second
        /\ Readiness!FinalAt = Readiness!Boundary
    <3>1. Readiness!Deadline = Readiness!Full /\ Readiness!Slack = Second
          /\ Readiness!Deadline \in Int
          /\ Readiness!FinalAt = Readiness!Deadline - 91 * Second
      BY <1>1, <1>6, LoopTimes DEF Readiness!Uncut
    <3>2. CASE kind = "package"
      BY <1>3, <3>1, <3>2 DEF Readiness!Full
    <3>3. CASE kind = "fence"
      BY <1>3, <3>1, <3>3 DEF Readiness!Full
    <3> QED
      BY <1>6, <3>2, <3>3
  <2>2. clockReadiness <= Readiness!FinalAt + 2 * lateReadiness
    BY <1>1, <1>6 DEF Requesting
  <2> QED
    BY <1>1, <1>2, <1>3, <1>4, <1>6, <2>1, <2>2
<1> HIDE DEF start
<1>7. CASE clockReadiness + l >= Readiness!Limit(start) /\ Readiness!Fail("deadline")
  <2>1. ~Readiness!Uncut \/ kind \notin {"package", "fence"}
    BY <1>2, <1>3, <1>4, <1>6, <1>7
  <2>2. Kept'
    BY <1>1, <1>4, <1>7, <2>1, KeptFailed DEF Readiness!Fail, Whys
  <2> QED
    BY <1>1, <1>4, <1>5, <1>7, <2>2, FailedInv DEF Readiness!Fail, Whys, Readiness!Answer
<1>8. CASE /\ granted /\ UNCHANGED why
           /\ pcReadiness' = CASE kind = "key"        -> "read"
                               [] kind = "assignment" -> "exact"
                               [] OTHER               -> "put"
  <2>1. CASE kind \in {"key", "assignment"}
    <3>1. pcReadiness' \in {"read", "exact"}
      BY <1>8, <2>1
    <3>2. Kept'
      BY <1>1, <1>4, <1>8, <2>1, <3>1, KeptEnded
    <3>3. attempts' = attempts
      BY <3>1 DEF Readiness!Answer
    <3> QED
      BY <1>1, <1>4, <1>5, <1>8, <3>1, <3>2, <3>3 DEF WindowInv, Readiness!Ends
  <2>2. CASE kind \in {"package", "fence", "controller"}
    <3>1. pcReadiness' = "put"
      BY <1>8, <2>2
    <3>2. Kept'
      BY <1>1, <1>8, <3>1, KeptOn DEF Readiness!Ends
    <3>3. attempts' = 0
      BY <3>1 DEF Readiness!Answer
    <3>4. /\ clockReadiness' + lateReadiness <= Readiness!Deadline
          /\ grant[1] <= clockReadiness'
      BY <1>2, <1>4, <1>8, <2>2
    <3>5. /\ kind' = kind /\ lateReadiness' = lateReadiness /\ grant' = grant
          /\ Readiness!Deadline' = Readiness!Deadline
      BY <1>1, LoopsStay
    <3>6. Putting'
      BY <2>2, <3>1, <3>3, <3>4, <3>5 DEF Putting
    <3> QED
      BY <1>1, <1>4, <1>5, <1>8, <3>1, <3>2, <3>3, <3>6 DEF WindowInv, Readiness!Ends
  <2> QED
    BY <1>3, <2>1, <2>2 DEF Loops
<1>9. CASE /\ ~granted /\ kind = "assignment" /\ start >= Readiness!FinalAt
           /\ pcReadiness' = "absent" /\ UNCHANGED why
  <2>1. grant[1] > Readiness!Boundary
    <3>1. Readiness!FinalAt = Readiness!Boundary
      BY <1>9 DEF Readiness!FinalAt
    <3>2. grant[1] > clockReadiness
      BY <1>2, <1>9
    <3> QED
      BY <1>1, <1>3, <1>9, <3>1, <3>2 DEF start
  <2>2. Kept'
    BY <1>1, <1>4, <1>9, <2>1, KeptEnded
  <2>3. attempts' = attempts
    BY <1>9 DEF Readiness!Answer
  <2> QED
    BY <1>1, <1>4, <1>5, <1>9, <2>2, <2>3 DEF WindowInv, Readiness!Ends
<1>10. CASE ~granted /\ clockReadiness + l >= Readiness!FinalAt /\ Readiness!Fail("boundary")
  <2>1. grant[1] > Readiness!Boundary \/ ~Readiness!Uncut \/ kind \notin {"package", "fence"}
    <3> SUFFICES ASSUME Readiness!Uncut, kind \in {"package", "fence"}
                 PROVE  grant[1] > Readiness!Boundary
      OBVIOUS
    <3>1. Readiness!FinalAt = Readiness!Boundary
      BY <1>6
    <3>2. Readiness!Aligned
      BY DEF Readiness!Aligned
    <3>3. start >= Readiness!FinalAt \/ start + Readiness!Reserve < Readiness!FinalAt
      BY <1>1, <3>2 DEF Requesting, start
    <3>4. grant[1] > clockReadiness
      BY <1>2, <1>10
    <3> QED
      BY <1>1, <1>3, <1>10, <3>1, <3>3, <3>4 DEF start
  <2>2. Kept'
    BY <1>1, <1>4, <1>10, <2>1, KeptFailed DEF Readiness!Fail, Whys
  <2> QED
    BY <1>1, <1>4, <1>5, <1>10, <2>2, FailedInv DEF Readiness!Fail, Whys, Readiness!Answer
<1>11. CASE /\ ~granted /\ ~(clockReadiness + l >= Readiness!FinalAt)
            /\ attempts = 64 /\ Readiness!Fail("attempts")
  <2>1. Slot * 57 >= Readiness!FinalAt
    BY <1>1, <1>3, LoopTimes DEF Loops
  <2>2. clockReadiness >= Readiness!FinalAt \/ clockReadiness >= Slot * 57
    BY <1>1, <1>11 DEF Requesting, Driven
  <2> QED
    BY <1>1, <1>3, <1>11, <2>1, <2>2
<1>12. CASE /\ ~granted /\ ~(clockReadiness + l >= Readiness!FinalAt) /\ attempts # 64
            /\ pcReadiness' = "sleep" /\ UNCHANGED why
  <2>1. clockReadiness' < Readiness!FinalAt
    BY <1>2, <1>3, <1>4, <1>12
  <2>2. attempts' = attempts
    BY <1>12 DEF Readiness!Answer
  <2> QED
    BY <1>1, <1>2, <1>12, <2>1, <2>2, SleepInv
<1> QED
  BY <1>2, <1>7, <1>8, <1>9, <1>10, <1>11, <1>12

LEMMA WindowLose == ASSUME WindowInv, Readiness!Lose PROVE WindowInv'
<1>1. /\ Fixed /\ Kept /\ Opened /\ Requesting /\ Readiness!Stay
      /\ clockReadiness \in Nat /\ attempts \in 1 .. 64 /\ lost' \in 0 .. MaxLost /\ why \in Whys
      /\ attempts' = attempts
  <2>1. MaxLost \in Nat
    BY ReadsOK
  <2> QED
    BY <2>1 DEF WindowInv, Readiness!Lose, Requesting
<1>2. PICK l \in Latencies :
         /\ clockReadiness' = clockReadiness + l
         /\ IF kind # "controller" \/ attempts = 64 \/ clockReadiness + l >= Readiness!FinalAt
            THEN Readiness!Fail("transport")
            ELSE pcReadiness' = "sleep" /\ UNCHANGED why
  BY DEF Readiness!Lose, Readiness!Attempts
<1>3. /\ clockReadiness' \in Nat
      /\ kind = "controller" => clockReadiness' <= Readiness!CreateDeadline
      /\ clockReadiness' <= hard
  <2>1. lateReadiness \in Nat /\ hard \in Nat
    BY <1>1, Circumstances
  <2> QED
    BY <1>1, <1>2, <2>1, AskTimes
<1>4. CASE Readiness!Fail("transport")
  <2>1. Kept'
    BY <1>1, <1>3, <1>4, KeptFailed DEF Readiness!Fail, Whys
  <2> QED
    BY <1>1, <1>3, <1>4, <2>1, FailedInv, LoopsStay DEF Readiness!Fail, Whys
<1>5. CASE /\ ~(kind # "controller" \/ attempts = 64 \/ clockReadiness + l >= Readiness!FinalAt)
           /\ pcReadiness' = "sleep" /\ UNCHANGED why
  <2>1. clockReadiness' < Readiness!FinalAt
    BY <1>1, <1>2, <1>3, <1>5, TimesAreNumbers
  <2> QED
    BY <1>1, <1>2, <1>5, <2>1, SleepInv
<1> QED
  BY <1>2, <1>4, <1>5

(* A further create begins an envelope before its deadline.                *)
LEMMA PutTimes ==
    ASSUME Fixed, kind \in {"package", "fence", "controller"}
    PROVE  /\ Readiness!FinalRetry \in Int
           /\ Readiness!FinalRetry <= Readiness!CreateDeadline - 90 * Second
<1>1. /\ Second \in Nat /\ Second >= 1 /\ hard \in Nat
      /\ Readiness!Reserve = 90 * Second /\ Readiness!Boundary \in Int
      /\ Readiness!CreateDeadline \in Int /\ Readiness!Deadline \in Int
      /\ Readiness!Deadline <= Readiness!CreateDeadline - 90 * Second
  BY Circumstances, LoopTimes, TimesAreNumbers
<1>2. CASE kind = "package"
  <2>1. Readiness!FinalRetry = Readiness!Least(Readiness!Boundary, hard - 2 * Readiness!Reserve)
    BY <1>2 DEF Readiness!FinalRetry
  <2>2. Readiness!CreateDeadline = hard - Readiness!Reserve
    BY <1>2 DEF Readiness!CreateDeadline
  <2> QED
    BY <1>1, <2>1, <2>2 DEF Readiness!Least
<1>3. CASE kind = "fence"
  <2>1. Readiness!FinalRetry = Readiness!FinalAt
    BY <1>3 DEF Readiness!FinalRetry
  <2>2. Readiness!FinalAt = Readiness!Deadline - 91 * Second
    BY <1>3, LoopTimes
  <2> QED
    BY <1>1, <2>1, <2>2
<1>4. CASE kind = "controller"
  <2>1. Readiness!FinalRetry = Readiness!Least(Readiness!Boundary, Readiness!CreateDeadline - Readiness!Reserve)
    BY <1>4 DEF Readiness!FinalRetry
  <2> QED
    BY <1>1, <2>1 DEF Readiness!Least
<1> QED
  BY <1>2, <1>3, <1>4

LEMMA WindowPut == ASSUME WindowInv, Readiness!Put PROVE WindowInv'
<1>1. /\ Fixed /\ Kept /\ Putting /\ Readiness!Stay /\ pcReadiness = "put"
      /\ clockReadiness \in Nat /\ attempts \in 0 .. 63 /\ lost' = lost /\ lost \in 0 .. MaxLost
      /\ why \in Whys /\ kind \in {"package", "fence", "controller"} /\ grant[1] <= clockReadiness
      /\ attempts > 0 => clockReadiness <= Readiness!FinalRetry + lateReadiness
      /\ attempts = 0 => clockReadiness + lateReadiness <= Readiness!Deadline
      /\ attempts > 0 => grant[2] > grant[1]
  BY DEF WindowInv, Readiness!Put, Putting
<1>2. /\ Second \in Nat /\ Second >= 1 /\ hard \in Nat
      /\ lateReadiness \in Nat /\ 2 * lateReadiness <= Second
      /\ Readiness!Reserve = 90 * Second
      /\ Readiness!CreateDeadline \in Int /\ Readiness!CreateDeadline <= hard - 90 * Second
      /\ Readiness!Deadline \in Int /\ Readiness!Deadline <= Readiness!CreateDeadline - 90 * Second
      /\ Readiness!FinalRetry \in Int
      /\ Readiness!FinalRetry <= Readiness!CreateDeadline - 90 * Second
  BY <1>1, Circumstances, LoopTimes, TimesAreNumbers, PutTimes
<1>3. clockReadiness <= Readiness!CreateDeadline
  BY <1>1, <1>2
<1>4. CASE attempts = 0 /\ clockReadiness > Readiness!Deadline
  BY <1>1, <1>2, <1>4
<1>5. CASE /\ pcReadiness' = "failed" /\ why' \in {"late", "envelope"} /\ attempts > 0
           /\ UNCHANGED <<clockReadiness, attempts>>
  <2>1. Kept'
    BY <1>1, <1>2, <1>3, <1>5, KeptFailed DEF Whys
  <2> QED
    BY <1>1, <1>5, <2>1, FailedInv, LoopsStay DEF Whys
<1>6. CASE attempts = 0 /\ clockReadiness + lateReadiness + Readiness!Reserve > Readiness!CreateDeadline
  BY <1>1, <1>2, <1>6
<1>7. CASE /\ ~(clockReadiness + lateReadiness + Readiness!Reserve > Readiness!CreateDeadline)
           /\ clockReadiness' = clockReadiness + lateReadiness /\ attempts' = attempts + 1
           /\ pcReadiness' = "putting" /\ UNCHANGED why
  <2>1. Kept' /\ Fixed' /\ grant' = grant /\ kind' = kind
        /\ Readiness!CreateDeadline' = Readiness!CreateDeadline
        /\ Readiness!Reserve' = Readiness!Reserve
    BY <1>1, <1>7, KeptOn, LoopsStay DEF Readiness!Ends
  <2>2. clockReadiness' \in Nat /\ grant[1] <= clockReadiness'
        /\ attempts' \in 1 .. 64
        /\ clockReadiness' + Readiness!Reserve <= Readiness!CreateDeadline
    BY <1>1, <1>2, <1>7, Circumstances
  <2>3. Putting'
    BY <1>1, <1>7, <2>1, <2>2 DEF Putting
  <2> QED
    BY <1>1, <1>7, <2>1, <2>2, <2>3 DEF WindowInv, Readiness!Ends
<1> QED
  BY <1>1, <1>4, <1>5, <1>6, <1>7 DEF Readiness!Put, Readiness!Fail

LEMMA WindowPutAnswer == ASSUME WindowInv, Readiness!PutAnswer PROVE WindowInv'
<1>1. /\ Fixed /\ Kept /\ Putting /\ Readiness!Stay /\ pcReadiness = "putting"
      /\ clockReadiness \in Nat /\ attempts \in 1 .. 64 /\ lost' = lost /\ lost \in 0 .. MaxLost
      /\ attempts' = attempts
      /\ why \in Whys /\ kind \in {"package", "fence", "controller"} /\ grant[1] <= clockReadiness
      /\ clockReadiness + Readiness!Reserve <= Readiness!CreateDeadline
  BY DEF WindowInv, Readiness!PutAnswer, Putting
<1>2. /\ Second \in Nat /\ Second >= 1 /\ hard \in Nat /\ lateReadiness \in Nat
      /\ Readiness!Reserve = 90 * Second /\ grant[1] \in Nat /\ grant[2] \in Nat
      /\ Readiness!CreateDeadline \in Int /\ Readiness!CreateDeadline <= hard - 90 * Second
      /\ Readiness!FinalRetry \in Int
      /\ \A l \in Latencies : l \in Nat /\ l + lateReadiness <= 90 * Second
  BY <1>1, Circumstances, LoopTimes, PutTimes
<1>3. PICK l \in Latencies, done \in BOOLEAN :
         /\ ~done => grant[2] > clockReadiness
         /\ IF done
            THEN pcReadiness' = "created" /\ clockReadiness' = clockReadiness + l /\ UNCHANGED why
            ELSE IF \/ attempts = 64 \/ clockReadiness + l >= Readiness!FinalRetry
                    \/ clockReadiness + l + lateReadiness
                         + Readiness!Delay(clockReadiness + l, Readiness!FinalRetry) > Readiness!FinalRetry
            THEN Readiness!Fail("boundary") /\ clockReadiness' = clockReadiness + l
            ELSE /\ pcReadiness' = "put" /\ UNCHANGED why
                 /\ clockReadiness' = clockReadiness + l + lateReadiness
                      + Readiness!Delay(clockReadiness + l, Readiness!FinalRetry) + lateReadiness
  BY DEF Readiness!PutAnswer, Readiness!Attempts
<1> DEFINE now  == clockReadiness + l
           wait == Readiness!Delay(now, Readiness!FinalRetry)
<1>4. now \in Nat /\ grant[1] <= now /\ now <= Readiness!CreateDeadline /\ now <= hard
  BY <1>1, <1>2, <1>3
<1>5. Fixed' /\ grant' = grant /\ kind' = kind /\ lateReadiness' = lateReadiness
      /\ Readiness!FinalRetry' = Readiness!FinalRetry
  BY <1>1, LoopsStay
<1>6. ~done => grant[2] > grant[1]
  BY <1>1, <1>2, <1>3
<1>7. CASE pcReadiness' = "created" /\ clockReadiness' = now /\ UNCHANGED why
  <2>1. Kept'
    BY <1>1, <1>4, <1>7, KeptEnded
  <2> QED
    BY <1>1, <1>4, <1>5, <1>7, <2>1 DEF WindowInv, Readiness!Ends
<1>8. CASE ~done /\ Readiness!Fail("boundary") /\ clockReadiness' = now
  <2>1. Kept'
    BY <1>1, <1>4, <1>6, <1>8, KeptFailed DEF Whys, Readiness!Fail
  <2> QED
    BY <1>1, <1>4, <1>5, <1>8, <2>1, FailedInv DEF Whys, Readiness!Fail
<1>9. CASE /\ ~done /\ attempts # 64 /\ ~(now >= Readiness!FinalRetry)
           /\ ~(now + lateReadiness + wait > Readiness!FinalRetry)
           /\ pcReadiness' = "put" /\ UNCHANGED why
           /\ clockReadiness' = now + lateReadiness + wait + lateReadiness
  <2>1. wait \in Nat
    <3>1. now < Readiness!FinalRetry
      BY <1>2, <1>4, <1>9
    <3> QED
      BY <1>1, <1>2, <1>4, <3>1, DelayTimes
  <2>2. Kept'
    BY <1>1, <1>9, KeptOn DEF Readiness!Ends
  <2> HIDE DEF wait
  <2>3. /\ clockReadiness' \in Nat /\ grant[1] <= clockReadiness'
        /\ clockReadiness' <= Readiness!FinalRetry + lateReadiness
    BY <1>2, <1>4, <1>9, <2>1
  <2>4. Putting'
    BY <1>1, <1>5, <1>6, <1>9, <2>3 DEF Putting
  <2> QED
    BY <1>1, <1>5, <1>9, <2>2, <2>3, <2>4 DEF WindowInv, Readiness!Ends
<1> HIDE DEF now, wait
<1> QED
  BY <1>3, <1>7, <1>8, <1>9, Zenon DEF now, wait

LEMMA WindowPutLost == ASSUME WindowInv, Readiness!PutLost PROVE WindowInv'
<1>1. /\ Fixed /\ Kept /\ Readiness!Stay
      /\ clockReadiness \in Nat /\ attempts \in 0 .. 64 /\ attempts' = attempts
      /\ lost' \in 0 .. MaxLost /\ kind \in {"package", "fence", "controller"}
      /\ clockReadiness + Readiness!Reserve <= Readiness!CreateDeadline
      /\ pcReadiness' = "failed" /\ why' = "transport"
  <2>1. MaxLost \in Nat
    BY ReadsOK
  <2> QED
    BY <2>1 DEF WindowInv, Readiness!PutLost, Putting, Readiness!Fail
<1>2. PICK l \in Latencies : clockReadiness' = clockReadiness + l
  BY DEF Readiness!PutLost
<1>3. /\ clockReadiness' \in Nat /\ clockReadiness' <= Readiness!CreateDeadline
      /\ clockReadiness' <= hard
  <2>1. /\ Second \in Nat /\ hard \in Nat /\ lateReadiness \in Nat /\ Readiness!Reserve = 90 * Second
        /\ Readiness!CreateDeadline \in Int /\ Readiness!CreateDeadline <= hard - 90 * Second
        /\ l \in Nat /\ l + lateReadiness <= 90 * Second
    BY <1>1, <1>2, Circumstances, LoopTimes
  <2> QED
    BY <1>1, <1>2, <2>1
<1>4. Kept'
  BY <1>1, <1>3, KeptFailed DEF Whys
<1> QED
  BY <1>1, <1>3, <1>4, FailedInv, LoopsStay DEF Whys

LEMMA WindowStep == WindowInv /\ (Readiness!Next \/ UNCHANGED readinessVars) => WindowInv'
<1> SUFFICES ASSUME WindowInv, Readiness!Next \/ UNCHANGED readinessVars PROVE WindowInv'
  OBVIOUS
<1>1. CASE Readiness!Next
  BY <1>1, WindowStart, WindowLook, WindowSleep, WindowAnswer, WindowLose, WindowPut,
     WindowPutAnswer, WindowPutLost DEF Readiness!Next
<1>2. CASE UNCHANGED readinessVars
  <2>1. Readiness!Stay /\ UNCHANGED <<clockReadiness, pcReadiness, attempts, lost, why>>
    BY <1>2 DEF readinessVars, Readiness!Stay
  <2>2. Fixed' /\ (Opened <=> Opened') /\ (Kept <=> Kept')
    BY <2>1, LoopsStay DEF WindowInv, Kept, Readiness!FullInterval, Readiness!CreateFits,
       Readiness!TimeEndsIt, Readiness!ReserveKept, Readiness!AbsentIsLate, Readiness!Missed
  <2>3. (Looking <=> Looking') /\ (Sleeping <=> Sleeping')
    BY <2>1, LoopsStay DEF WindowInv, Looking, Sleeping, Driven
  <2>4. Requesting <=> Requesting'
    <3>1. Readiness!Limit(clockReadiness - lateReadiness)' = Readiness!Limit(clockReadiness - lateReadiness)
      BY <2>1, LoopsStay DEF WindowInv, Readiness!Limit
    <3> QED
      BY <2>1, <3>1, LoopsStay DEF WindowInv, Requesting, Driven
  <2>5. Putting <=> Putting'
    BY <2>1, LoopsStay DEF WindowInv, Putting
  <2> QED
    BY <2>1, <2>2, <2>3, <2>4, <2>5 DEF WindowInv, Readiness!Ends
<1> QED
  BY <1>1, <1>2

(* However slow the requests and late the scheduler, for every time and    *)
(* every moment of a grant: the timed loops keep their reviewed intervals, *)
(* their creates and the reserve of the cleanup (WindowSafe).              *)
THEOREM WindowHolds == ReadsSpec => []WindowSafe
<1> DEFINE Invariant == reading = "window" => WindowInv
<1>1. ReadsInit => Invariant
  BY WindowInit DEF ReadsInit
<1>2. Invariant /\ [ReadsNext]_reads => Invariant'
  <2> SUFFICES ASSUME Invariant, [ReadsNext]_reads, reading' = "window"
               PROVE  WindowInv'
    OBVIOUS
  <2>1. reading = "window" /\ (Readiness!Next \/ UNCHANGED readinessVars)
    BY DEF ReadsNext, Reading, reads
  <2> QED
    BY <2>1, WindowStep
<1>3. Invariant => WindowSafe
  <2> SUFFICES ASSUME WindowInv
               PROVE  Readiness!TypeOK /\ Kept
    BY DEF WindowSafe, Kept
  <2> QED
    BY DEF WindowInv, Fixed, Loops, Whys, Readiness!TypeOK, Readiness!Attempts
<1> HIDE DEF Invariant
<1> QED
  BY <1>1, <1>2, <1>3, PTL DEF ReadsSpec

-----------------------------------------------------------------------------
(***************************************************************************)
(* The canary (CanaryRun, CanaryProof), for any history of the job and any *)
(* number of foreign runs, polls, attempts and details.                    *)
(***************************************************************************)
RunShape == [who : {"ours", "other"}, status : {"Running", "Success", "Failed"}]

(* One run at a time: only the last can be under way.                      *)
Serial(h) == \A k \in 1 .. Len(h) : h[k].status = "Running" => k = Len(h)

(* A history that was read: what is there now, or what was under way.      *)
Snapshot(h) ==
    /\ h \in Seq(RunShape) /\ Len(h) <= Len(runs) /\ Serial(h)
    /\ \A k \in 1 .. Len(h) : /\ h[k].who = runs[k].who
                              /\ h[k] = runs[k] \/ h[k].status = "Running"

(* Our token: unused, under way, or of one run.                            *)
Nobody  == \A k \in 1 .. Len(runs) : runs[k].who = "other"
OurRun(h, k) ==
    /\ k \in 1 .. Len(h) /\ h[k].who = "ours"
    /\ \A j \in 1 .. Len(h) : j # k => h[j].who = "other"
Untriggered == coming = 0 /\ Nobody
Pending     == coming = 1 /\ Nobody
Begun       == coming = 0 /\ \E k \in 1 .. Len(runs) : OurRun(runs, k)

(* The tale of a canary that succeeds; its run begins before or after the  *)
(* answer to the trigger.                                                  *)
Tale(early) ==
    <<"initial", "scmPre", "netInitial", "netEnabled", "scmInitial", "scmEnabled", "running",
      "job", "boundary", "trigger", IF early THEN "start" ELSE "response",
      IF early THEN "response" ELSE "start", "end", "terminal", "preStop", "census",
      "scmRestored", "netRestored", "stopped">>
TaleAsync(early) ==
    <<"initial", "scmPre", "netInitial", "netEnabled", "scmInitial", "scmEnabled", "running",
      "job", "boundary", "trigger", IF early THEN "start" ELSE "response",
      IF early THEN "response" ELSE "start", "end", "terminal", "preStop", "census",
      "scmRestored", "netOperation", "netRestored", "stopped">>
Words ==
    {"initial", "scmPre", "netInitial", "netEnabled", "scmInitial", "scmEnabled", "running",
     "job", "boundary", "trigger", "start", "response", "end", "terminal", "preStop", "census",
     "scmRestored", "netOperation", "netRestored", "stopped"}
Tells(q, m, s) ==
    q \in Seq(Words) /\ Len(q) = m /\ \A k \in 1 .. m : q[k] = s[k]
ToldUpTo(q, m, early) == Tells(q, m, Tale(early))
ToldAll(q, op) ==
    \E early \in BOOLEAN :
        IF op = "async" THEN Tells(q, 20, TaleAsync(early)) ELSE ToldUpTo(q, 19, early)

CanaryTypes ==
    /\ runs \in Seq(RunShape) /\ Len(runs) <= MaxRuns /\ Serial(runs)
    /\ site \in {"up", "stopping", "down"} /\ coming \in {0, 1}
    /\ pcCanary \in {"job", "list", "detail", "judge", "trigger", "log", "stop", "stopped",
                     "close", "done"}
    /\ stage \in {Canary!Before, Canary!Poll, Canary!Final}
    /\ meta \in BOOLEAN /\ http \in {200, 404}
    /\ todo \in SUBSET (1 .. MaxRuns) /\ told \subseteq todo
    /\ left \in 0 .. Canary!MaxDetails
    /\ whyCanary \in {"none", "error", "budget", "conflict", "failed", "incomplete"}

(* Where the executor is, and why.                                         *)
CanaryPhases ==
    /\ pcCanary = "job" => stage = Canary!Before
    /\ pcCanary \in {"trigger", "log", "stopped"} => stage = Canary!Poll
    /\ pcCanary = "stop" => stage # Canary!Final
    /\ pcCanary \in {"job", "list", "detail", "judge", "trigger", "stopped"} => whyCanary = "none"
    /\ pcCanary = "log" => whyCanary = "failed"
    /\ pcCanary \in {"stop", "stopped"} /\ whyCanary = "none" =>
         stage = Canary!Poll /\ terminal # <<>>
    /\ pcCanary \in {"close", "done"} /\ whyCanary = "none" => stage = Canary!Final
    /\ stage = Canary!Final => terminal # <<>>
    /\ pcCanary \in {"trigger", "list", "detail", "judge"} /\ stage = Canary!Poll => terminal = <<>>

(* Up to the trigger.                                                      *)
Opening ==
    /\ stage = Canary!Before \/ pcCanary = "trigger" => Untriggered /\ terminal = <<>> /\ place = 0
    /\ stage = Canary!Before => /\ boundary = <<>> /\ reserve = 0 /\ triesCanary \in 0 .. MaxBoundary
                                /\ whyCanary = "none" => ToldUpTo(seenCanary, 7, TRUE)
    /\ pcCanary = "trigger" => triesCanary = 0 /\ ToldUpTo(seenCanary, 9, TRUE) /\ asOf \subseteq 1 .. Len(boundary)
    /\ stage = Canary!Before /\ pcCanary \in {"list", "detail", "judge"} =>
         /\ asOf \subseteq 1 .. Len(runs) /\ (~meta => asOf = {})
    /\ stage = Canary!Before /\ pcCanary \in {"detail", "judge"} =>
         /\ asOf \subseteq 1 .. Len(entries) /\ (http = 404 => entries = <<>>)

(* The history that is being read.                                         *)
ReadingHistory ==
    /\ pcCanary \in {"detail", "judge"} =>
         /\ Snapshot(entries) /\ todo \subseteq 1 .. Len(entries)
         /\ stage = Canary!Final => Len(entries) = Len(runs)
    /\ pcCanary = "detail" <=> todo # {}

Found ==
    /\ terminal = <<[who |-> "ours", status |-> "Success"]>>
    /\ triesCanary >= 1 /\ place \in {0, Len(boundary) + 1}
    /\ Len(runs) >= Len(boundary) + 1 /\ runs[Len(boundary) + 1] = terminal[1] /\ coming = 0
    /\ \A k \in 1 .. Len(boundary) : runs[k] = boundary[k]

(* The boundary, and the run that was found behind it.                     *)
Behind ==
    stage # Canary!Before =>
        /\ Snapshot(boundary) /\ reserve = Len(boundary) + 1
        /\ meta = (boundary # <<>>) /\ (http = 404 => boundary = <<>>)
        /\ place \in {0, Len(boundary) + 1, Len(boundary) + 2}
        /\ triesCanary \in 0 .. MaxPolls
        /\ pcCanary \in {"detail", "judge"} => triesCanary >= 1
        /\ terminal # <<>> => Found

(* What the reads that are left suffice for.                               *)
Due == Cardinality(todo)
Budget ==
    /\ Due <= left
    /\ pcCanary \in {"job", "list"} /\ stage = Canary!Before => left = Canary!MaxDetails
    /\ pcCanary \in {"detail", "judge"} /\ stage = Canary!Before =>
         left - Due >= Canary!MaxDetails - Len(entries)
    /\ pcCanary \in {"trigger", "list", "detail", "judge"} /\ stage = Canary!Poll =>
         /\ left - Due >= reserve
         /\ Len(runs) <= PerCensus /\ Len(boundary) + 1 <= PerCensus =>
              left - Due - reserve >= PerCensus * (MaxPolls - triesCanary)
    /\ pcCanary \in {"stop", "stopped"} /\ whyCanary = "none" => left >= reserve
    /\ pcCanary = "list" /\ stage = Canary!Final => left >= reserve

(* The census is taken of a site that is down.                             *)
Census ==
    /\ stage = Canary!Final /\ pcCanary \in {"list", "detail", "judge"} => site = "down"
    /\ pcCanary \in {"close", "done"} /\ whyCanary = "none" =>
         /\ site = "down" /\ Len(runs) = Len(boundary) + 1 /\ entries = boundary \o terminal

OneToken == Untriggered \/ Pending \/ Begun

(* What has been told when nothing has failed.                             *)
Polling ==
    whyCanary = "none" /\ stage # Canary!Before /\ pcCanary # "trigger" /\ terminal = <<>> =>
        \/ Pending /\ ToldUpTo(seenCanary, 11, FALSE)
        \/ \E k \in 1 .. Len(runs), early \in BOOLEAN :
             /\ coming = 0 /\ OurRun(runs, k)
             /\ ToldUpTo(seenCanary, IF runs[k].status = "Running" THEN 12 ELSE 13, early)
Telling ==
    whyCanary = "none" =>
        /\ terminal # <<>> /\ stage = Canary!Poll =>
             \E early \in BOOLEAN : ToldUpTo(seenCanary, 14, early)
        /\ pcCanary \in {"list", "detail", "judge"} /\ stage = Canary!Final =>
             \E early \in BOOLEAN : ToldUpTo(seenCanary, 15, early)
        /\ pcCanary = "close" => \E early \in BOOLEAN : ToldUpTo(seenCanary, 16, early)
        /\ pcCanary = "done" => closing.op \in {"sync", "async"} /\ ToldAll(seenCanary, closing.op)
Story == Polling /\ Telling

CanaryInv ==
    /\ CanaryTypes /\ CanaryPhases /\ Opening /\ ReadingHistory /\ Behind /\ Budget /\ Census
    /\ OneToken /\ Story /\ Canary!FailureTruth /\ Canary!BudgetRefusal

(* The runs only grow, and change only from under way.                     *)
Grown ==
    /\ runs' \in Seq(RunShape) /\ Len(runs') <= MaxRuns /\ Serial(runs')
    /\ Len(runs) <= Len(runs')
    /\ \A k \in 1 .. Len(runs) : /\ runs'[k].who = runs[k].who
                                 /\ runs[k].status # "Running" => runs'[k] = runs[k]

(* The budget: one history before the trigger, one per poll, the census.   *)
LEMMA CanaryConstants ==
    /\ MaxRuns \in Nat /\ MaxBoundary \in Nat /\ MaxPolls \in Nat \ {0} /\ PerCensus \in Nat
    /\ Canary!MaxDetails \in Nat
    /\ \A m \in 0 .. MaxPolls : PerCensus * m \in Nat
    /\ \A m \in 1 .. MaxPolls : PerCensus * m = PerCensus * (m - 1) + PerCensus
    /\ Canary!MaxDetails = PerCensus * MaxPolls + 2 * PerCensus
    /\ PerCensus * MaxPolls >= PerCensus
<1>1. MaxRuns \in Nat /\ MaxBoundary \in Nat /\ MaxPolls \in Nat \ {0} /\ PerCensus \in Nat
  BY ExecutionsOK
<1>2. \A m \in 0 .. MaxPolls : PerCensus * m \in Nat
  BY <1>1, SMT
<1>3. \A m \in 1 .. MaxPolls : PerCensus * m = PerCensus * (m - 1) + PerCensus
  BY <1>1, SMT
<1>4. Canary!MaxDetails = PerCensus * MaxPolls + 2 * PerCensus
  BY <1>1, SMT DEF Canary!MaxDetails
<1>5. PerCensus * MaxPolls = PerCensus * (MaxPolls - 1) + PerCensus /\ PerCensus * (MaxPolls - 1) \in Nat
  BY <1>1, <1>2, <1>3
<1> QED
  BY <1>1, <1>2, <1>3, <1>4, <1>5

LEMMA DueCounts ==
    ASSUME NEW m \in Nat, NEW S \in SUBSET (1 .. m)
    PROVE  /\ Cardinality(S) \in 0 .. m
           /\ Cardinality(S) = 0 <=> S = {}
           /\ \A x \in S : Cardinality(S \ {x}) = Cardinality(S) - 1
<1>1. IsFiniteSet(1 .. m) /\ Cardinality(1 .. m) = m
  BY FS_Interval
<1>2. IsFiniteSet(S) /\ Cardinality(S) <= m
  BY <1>1, FS_Subset
<1>3. Cardinality(S) \in Nat /\ (Cardinality(S) = 0 <=> S = {})
  BY <1>2, FS_CardinalityType, FS_EmptySet
<1>4. \A x \in S : Cardinality(S \ {x}) = Cardinality(S) - 1
  BY <1>2, FS_RemoveElement
<1> QED
  BY <1>2, <1>3, <1>4

LEMMA SameCount == \A S : Canary!Cardinality(S) = Cardinality(S)
BY DEF Canary!Cardinality, Cardinality

LEMMA BeginGrows ==
    ASSUME CanaryTypes, Canary!Idle, Len(runs) < MaxRuns, NEW w \in {"ours", "other"},
           runs' = Canary!Run(w)
    PROVE  /\ Grown /\ Len(runs') = Len(runs) + 1
           /\ \A k \in 1 .. Len(runs) : runs'[k] = runs[k]
           /\ runs'[Len(runs')] = [who |-> w, status |-> "Running"]
<1>1. runs \in Seq(RunShape) /\ [who |-> w, status |-> "Running"] \in RunShape /\ MaxRuns \in Nat
  BY ExecutionsOK DEF CanaryTypes, RunShape
<1>2. \A k \in 1 .. Len(runs) : runs[k].status # "Running"
  BY <1>1 DEF Canary!Idle
<1>3. /\ runs' \in Seq(RunShape) /\ Len(runs') = Len(runs) + 1
      /\ \A k \in 1 .. Len(runs) : runs'[k] = runs[k]
      /\ runs'[Len(runs')] = [who |-> w, status |-> "Running"]
  BY <1>1 DEF Canary!Run
<1> QED
  BY <1>1, <1>2, <1>3 DEF Grown, Serial

LEMMA FinishGrows ==
    ASSUME CanaryTypes, NEW i \in DOMAIN runs, NEW e \in RunShape, e.who = runs[i].who,
           runs[i].status = "Running", e.status # "Running", runs' = [runs EXCEPT ![i] = e]
    PROVE  /\ Grown /\ Len(runs') = Len(runs) /\ i \in 1 .. Len(runs) /\ runs'[i] = e
           /\ \A k \in 1 .. Len(runs) : k # i => runs'[k] = runs[k]
<1>1. runs \in Seq(RunShape) /\ i \in 1 .. Len(runs) /\ Len(runs) \in Nat
  BY DEF CanaryTypes
<1>2. runs' \in Seq(RunShape) /\ Len(runs') = Len(runs)
  BY <1>1, ExceptSeq
<1>3. runs'[i] = e /\ \A k \in 1 .. Len(runs) : k # i => runs'[k] = runs[k]
  BY <1>1, ExceptSeq
<1>4. Serial(runs')
  BY <1>1, <1>2, <1>3 DEF Serial, CanaryTypes
<1>5. \A k \in 1 .. Len(runs) : /\ runs'[k].who = runs[k].who
                                /\ runs[k].status # "Running" => runs'[k] = runs[k]
  BY <1>1, <1>3
<1> QED
  BY <1>1, <1>2, <1>3, <1>4, <1>5 DEF Grown, CanaryTypes

(* A history that was read stays one.                                      *)
LEMMA SnapshotGrows ==
    ASSUME NEW h, Snapshot(h), CanaryTypes, Grown
    PROVE  /\ h \in Seq(RunShape) /\ Len(h) <= Len(runs') /\ Serial(h)
           /\ \A k \in 1 .. Len(h) : /\ h[k].who = runs'[k].who
                                     /\ h[k] = runs'[k] \/ h[k].status = "Running"
<1>1. h \in Seq(RunShape) /\ runs \in Seq(RunShape) /\ runs' \in Seq(RunShape)
  BY DEF Snapshot, CanaryTypes, Grown
<1> QED
  BY <1>1 DEF Snapshot, Grown

(* The tale goes on.                                                       *)
LEMMA TellsMore ==
    ASSUME NEW q, NEW m \in Nat, NEW s, Tells(q, m, s), NEW t \in Seq(Words),
           \A k \in 1 .. Len(t) : t[k] = s[m + k]
    PROVE  Tells(q \o t, m + Len(t), s)
<1>1. q \in Seq(Words) /\ Len(q) = m
  BY DEF Tells
<1>2. q \o t \in Seq(Words) /\ Len(q \o t) = m + Len(t)
  BY <1>1, ConcatProperties
<1>3. \A k \in 1 .. m + Len(t) : (q \o t)[k] = IF k <= m THEN q[k] ELSE t[k - m]
  BY <1>1, ConcatProperties
<1>4. \A k \in 1 .. m + Len(t) : (q \o t)[k] = s[k]
  <2> TAKE k \in 1 .. m + Len(t)
  <2>1. k \in Int /\ m \in Int
    OBVIOUS
  <2>2. CASE k <= m
    BY <1>3, <2>2 DEF Tells
  <2>3. CASE ~(k <= m)
    <3>1. k - m \in 1 .. Len(t) /\ m + (k - m) = k
      BY <2>1, <2>3
    <3>2. t[k - m] = s[m + (k - m)]
      BY <3>1
    <3>3. (q \o t)[k] = t[k - m]
      BY <1>3, <2>1, <2>3
    <3> QED
      BY <3>1, <3>2, <3>3
  <2> QED
    BY <2>1, <2>2, <2>3
<1> QED
  BY <1>2, <1>4 DEF Tells

LEMMA TellMore ==
    ASSUME NEW q, NEW m \in Nat, NEW e, ToldUpTo(q, m, e), NEW t \in Seq(Words),
           \A k \in 1 .. Len(t) : t[k] = Tale(e)[m + k]
    PROVE  ToldUpTo(q \o t, m + Len(t), e)
BY TellsMore, Zenon DEF ToldUpTo

LEMMA TellOne ==
    ASSUME NEW q, NEW m \in Nat, NEW e, ToldUpTo(q, m, e), NEW w \in Words, w = Tale(e)[m + 1]
    PROVE  ToldUpTo(Append(q, w), m + 1, e)
<1>1. q \in Seq(Words) /\ Len(q) = m
  BY DEF ToldUpTo, Tells
<1>2. /\ Append(q, w) \in Seq(Words) /\ Len(Append(q, w)) = m + 1
      /\ \A k \in 1 .. m + 1 : Append(q, w)[k] = IF k = m + 1 THEN w ELSE q[k]
  BY <1>1, AppendProperties
<1>3. \A k \in 1 .. m + 1 : Append(q, w)[k] = Tale(e)[k]
  BY <1>1, <1>2 DEF ToldUpTo, Tells
<1> QED
  BY <1>2, <1>3 DEF ToldUpTo, Tells

(* What the job does keeps what the executor knows.                        *)
LEMMA ServiceKeeps ==
    ASSUME CanaryInv, Grown, site = "down" => Len(runs') = Len(runs) /\ site' = "down",
           UNCHANGED <<meta, http, entries, todo, told, asOf, left, reserve, boundary, place,
                       terminal, closing, pcCanary, stage, triesCanary, whyCanary>>,
           site' \in {"up", "stopping", "down"}, coming' \in {0, 1}, OneToken',
           terminal # <<>> => coming' = 0,
           stage = Canary!Before \/ pcCanary = "trigger" => Untriggered' /\ UNCHANGED seenCanary,
           terminal # <<>> => UNCHANGED seenCanary, Polling'
    PROVE  CanaryInv'
<1> USE DEF CanaryInv, CanaryTypes
<1>0. /\ runs \in Seq(RunShape) /\ runs' \in Seq(RunShape) /\ boundary' = boundary
      /\ entries' = entries /\ Len(runs) \in Nat /\ Len(runs') \in Nat
  BY DEF Grown
<1>1. CanaryTypes'
  BY DEF Grown
<1>2. CanaryPhases'
  BY DEF CanaryPhases
<1>3. Opening'
  <2>3. asOf \subseteq 1 .. Len(runs) => asOf \subseteq 1 .. Len(runs')
    BY <1>0 DEF Grown
  <2>4. stage = Canary!Before \/ pcCanary = "trigger" =>
          Untriggered' /\ terminal = <<>> /\ place = 0
    BY DEF Opening
  <2>5. (stage = Canary!Before => /\ boundary = <<>> /\ reserve = 0 /\ triesCanary \in 0 .. MaxBoundary
                                  /\ whyCanary = "none" => ToldUpTo(seenCanary, 7, TRUE))'
    BY DEF Opening
  <2>6. (pcCanary = "trigger" => triesCanary = 0 /\ ToldUpTo(seenCanary, 9, TRUE) /\ asOf \subseteq 1 .. Len(boundary))'
    BY DEF Opening
  <2>7. (stage = Canary!Before /\ pcCanary \in {"list", "detail", "judge"} =>
           /\ asOf \subseteq 1 .. Len(runs) /\ (~meta => asOf = {}))'
    BY <2>3 DEF Opening
  <2>8. (stage = Canary!Before /\ pcCanary \in {"detail", "judge"} =>
           /\ asOf \subseteq 1 .. Len(entries) /\ (http = 404 => entries = <<>>))'
    BY DEF Opening
  <2> QED
    BY <2>4, <2>5, <2>6, <2>7, <2>8 DEF Opening
<1>4. ReadingHistory'
  BY SnapshotGrows DEF ReadingHistory, Snapshot, Census
<1>5. Behind'
  <2>1. stage # Canary!Before => Snapshot(boundary)'
    <3> SUFFICES ASSUME stage # Canary!Before
                 PROVE  Snapshot(boundary)'
      OBVIOUS
    <3>1. Snapshot(boundary)
      BY DEF Behind
    <3> QED
      BY <1>0, <3>1, SnapshotGrows DEF Snapshot
  <2>2. terminal # <<>> /\ stage # Canary!Before /\ Found => Found'
    <3> SUFFICES ASSUME terminal # <<>>, stage # Canary!Before, Found
                 PROVE  Found'
      OBVIOUS
    <3>1. Len(boundary) \in Nat
      BY DEF Behind, Snapshot
    <3>2. runs'[Len(boundary) + 1] = terminal[1]
      BY <3>1, SMTT(60) DEF Found, Grown
    <3>3. \A k \in 1 .. Len(boundary) : runs[k].status # "Running" /\ runs[k] = boundary[k]
      BY <3>1 DEF Found, Serial
    <3>4. \A k \in 1 .. Len(boundary) : runs'[k] = boundary[k]
      BY <3>1, <3>3, <1>0 DEF Found, Grown
    <3>5. Len(runs') >= Len(boundary) + 1
      BY <3>1, <1>0 DEF Found, Grown
    <3> QED
      BY <3>2, <3>4, <3>5 DEF Found
  <2> QED
    BY <2>1, <2>2 DEF Behind, Found
<1>6. Budget'
  <2>1. /\ Due' = Due
    BY DEF Due
  <2> QED
    BY <1>0, <2>1, CanaryConstants DEF Budget, Grown, Behind
<1>7. Census'
  BY <1>0 DEF Census, Grown
<1>8. (Canary!FailureTruth)'
  BY <1>0 DEF Canary!FailureTruth, Grown
<1>9. (Canary!BudgetRefusal)'
  <2> USE DEF Canary!Final, Canary!Poll, Canary!Before
  <2>0. Len(runs) <= Len(runs') /\ PerCensus \in Int
    BY ExecutionsOK DEF Grown
  <2>1. CASE stage = Canary!Before
    <3>1. whyCanary = "budget" => Len(runs) + 1 > PerCensus
      BY <2>1 DEF Canary!BudgetRefusal
    <3>2. whyCanary = "budget" => Len(runs') + 1 > PerCensus
      BY <1>0, <2>0, <3>1
    <3> QED
      BY <2>1, <3>2 DEF Canary!BudgetRefusal
  <2>2. CASE stage = Canary!Poll
    <3>1. whyCanary = "budget" => Len(runs) > PerCensus \/ Len(boundary) + 1 > PerCensus
      BY <2>2 DEF Canary!BudgetRefusal
    <3>2. whyCanary = "budget" => Len(runs') > PerCensus \/ Len(boundary) + 1 > PerCensus
      BY <1>0, <2>0, <3>1
    <3> QED
      BY <1>0, <2>2, <3>2 DEF Canary!BudgetRefusal
  <2>3. CASE stage = Canary!Final
    <3>1. boundary \in Seq(RunShape)
      BY <2>3 DEF Behind, Snapshot, Canary!Final, Canary!Before
    <3> QED
      BY <1>0, <2>3, <3>1 DEF Canary!BudgetRefusal, Grown, Canary!Final, Canary!Poll, Canary!Before
  <2> QED
    BY <2>1, <2>2, <2>3
<1>10. Telling'
  <2>1. CASE terminal # <<>>
    BY <2>1 DEF Telling, Story
  <2>2. CASE terminal = <<>>
    BY <2>2 DEF Telling, Story, CanaryPhases
  <2> QED
    BY <2>1, <2>2
<1> QED
  BY <1>1, <1>2, <1>3, <1>4, <1>5, <1>6, <1>7, <1>8, <1>9, <1>10 DEF Story

LEMMA PollingPending ==
    ASSUME Pending', ToldUpTo(seenCanary', 11, FALSE)
    PROVE  Polling'
BY DEF Polling

LEMMA PollingRun ==
    ASSUME NEW k \in 1 .. Len(runs'), NEW early \in BOOLEAN, coming' = 0, OurRun(runs', k),
           ToldUpTo(seenCanary', IF runs'[k].status = "Running" THEN 12 ELSE 13, early)
    PROVE  Polling'
BY DEF Polling

LEMMA PollingKnown ==
    ASSUME Polling, whyCanary = "none", stage # Canary!Before, pcCanary # "trigger", terminal = <<>>
    PROVE  \/ Pending /\ ToldUpTo(seenCanary, 11, FALSE)
           \/ \E k \in 1 .. Len(runs), early \in BOOLEAN :
                /\ coming = 0 /\ OurRun(runs, k)
                /\ ToldUpTo(seenCanary, IF runs[k].status = "Running" THEN 12 ELSE 13, early)
BY DEF Polling

(* What is there stays there.                                              *)
LEMMA PollingGrows ==
    ASSUME Polling, UNCHANGED <<coming, seenCanary>>,
           whyCanary' = "none" => whyCanary = "none",
           stage' # Canary!Before => stage # Canary!Before,
           pcCanary' # "trigger" => pcCanary # "trigger", terminal' = terminal,
           Len(runs) \in Nat, Len(runs') \in Nat, Len(runs') >= Len(runs), Pending => Pending',
           \A k \in 1 .. Len(runs) : OurRun(runs, k) => OurRun(runs', k) /\ runs'[k] = runs[k]
    PROVE  Polling'
<1> SUFFICES ASSUME whyCanary = "none", stage # Canary!Before, pcCanary # "trigger", terminal = <<>>
             PROVE  Polling'
  BY DEF Polling, Canary!Before
<1>1. CASE Pending /\ ToldUpTo(seenCanary, 11, FALSE)
  BY <1>1, PollingPending
<1>2. ASSUME NEW k \in 1 .. Len(runs), NEW early \in BOOLEAN, coming = 0, OurRun(runs, k),
             ToldUpTo(seenCanary, IF runs[k].status = "Running" THEN 12 ELSE 13, early)
      PROVE  Polling'
  <2>1. k \in 1 .. Len(runs')
    OBVIOUS
  <2>2. OurRun(runs', k) /\ coming' = 0 /\ runs'[k] = runs[k]
    BY <1>2
  <2>3. ToldUpTo(seenCanary', IF runs'[k].status = "Running" THEN 12 ELSE 13, early)
    BY <1>2, <2>2
  <2> QED
    BY <2>1, <2>2, <2>3, PollingRun
<1> QED
  BY <1>1, <1>2, PollingKnown

LEMMA CanaryBegins ==
    ASSUME CanaryInv, Canary!Begin
    PROVE  CanaryInv'
<1> USE DEF CanaryInv, CanaryTypes
<1> DEFINE kept == <<meta, http, entries, todo, told, asOf, left, reserve, boundary, place,
                     terminal, closing, pcCanary, stage, triesCanary, whyCanary>>
<1>1. Canary!Idle /\ Len(runs) < MaxRuns /\ site # "down" /\ site' = site /\ UNCHANGED kept
  BY DEF Canary!Begin, Canary!readVars, Canary!budgetVars, Canary!proofVars
<1>2. Len(runs) \in Nat /\ runs \in Seq(RunShape)
  OBVIOUS
<1>3. CASE runs' = Canary!Run("other") /\ UNCHANGED <<coming, seenCanary>>
  <2>1. /\ Grown /\ Len(runs') = Len(runs) + 1
        /\ \A k \in 1 .. Len(runs) : runs'[k] = runs[k]
        /\ runs'[Len(runs')] = [who |-> "other", status |-> "Running"]
    BY <1>1, <1>3, BeginGrows
  <2>2. \A k \in 1 .. Len(runs') : k = Len(runs') \/ k \in 1 .. Len(runs)
    BY <1>2, <2>1
  <2>3. (Nobody => Nobody') /\ \A k : OurRun(runs, k) => OurRun(runs', k) /\ runs'[k] = runs[k]
    BY <1>2, <2>1, <2>2 DEF Nobody, OurRun
  <2>4. OneToken'
    BY <1>2, <1>3, <2>1, <2>3 DEF OneToken, Untriggered, Pending, Begun
  <2>5. (stage = Canary!Before \/ pcCanary = "trigger" => Untriggered' /\ UNCHANGED seenCanary)
    BY <1>3, <2>3 DEF Opening, Untriggered
  <2>6. terminal # <<>> => coming' = 0
    BY <1>3 DEF Opening, Behind, Found
  <2>7. Pending => Pending'
    BY <1>3, <2>3 DEF Pending
  <2>8. Polling'
    <3>1. Polling /\ Len(runs') \in Nat
      BY <1>2, <2>1 DEF Story
    <3> QED
      BY <1>1, <1>2, <1>3, <2>1, <2>3, <2>7, <3>1, PollingGrows
  <2> QED
    BY <1>1, <1>3, <2>1, <2>4, <2>5, <2>6, <2>8, ServiceKeeps
<1>4. CASE /\ coming > 0 /\ runs' = Canary!Run("ours") /\ coming' = coming - 1
           /\ seenCanary' = Append(seenCanary, "start")
  <2>1. /\ Grown /\ Len(runs') = Len(runs) + 1
        /\ \A k \in 1 .. Len(runs) : runs'[k] = runs[k]
        /\ runs'[Len(runs')] = [who |-> "ours", status |-> "Running"]
    BY <1>1, <1>4, BeginGrows
  <2>2. Pending /\ stage # Canary!Before /\ pcCanary # "trigger" /\ terminal = <<>>
    BY <1>4 DEF OneToken, Untriggered, Pending, Begun, Opening, Behind, Found
  <2>3. OurRun(runs', Len(runs')) /\ coming' = 0
    <3>1. coming' = 0
      BY <1>4, <2>2 DEF Pending
    <3>2. \A j \in 1 .. Len(runs') : j # Len(runs') => j \in 1 .. Len(runs)
      BY <1>2, <2>1
    <3>3. Len(runs') \in 1 .. Len(runs')
      BY <1>2, <2>1
    <3> QED
      BY <2>1, <2>2, <3>1, <3>2, <3>3 DEF Pending, Nobody, OurRun
  <2>4. OneToken' /\ Len(runs') \in 1 .. Len(runs')
    BY <2>3 DEF OneToken, Begun, OurRun
  <2>5. whyCanary = "none" => ToldUpTo(seenCanary', 12, FALSE)
    <3>1. whyCanary = "none" => ToldUpTo(seenCanary, 11, FALSE)
      BY <2>2 DEF Story, Polling, Pending, OurRun, Nobody
    <3>2. "start" = Tale(FALSE)[11 + 1]
      BY DEF Tale
    <3>3. 11 \in Nat /\ 11 + 1 = 12 /\ "start" \in Words
      BY DEF Words
    <3>4. whyCanary = "none" => ToldUpTo(Append(seenCanary, "start"), 11 + 1, FALSE)
      BY <3>1, <3>2, <3>3, TellOne, ZenonT(60)
    <3> QED
      BY <1>4, <3>3, <3>4
  <2>6. Polling'
    <3>1. (IF runs'[Len(runs')].status = "Running" THEN 12 ELSE 13) = 12
      BY <2>1
    <3>2. CASE whyCanary = "none"
      BY <2>3, <2>4, <2>5, <3>1, <3>2, PollingRun
    <3> QED
      BY <1>1, <3>2 DEF Polling
  <2> QED
    BY <1>1, <1>4, <2>1, <2>2, <2>3, <2>4, <2>6, ServiceKeeps
<1> QED
  BY <1>3, <1>4 DEF Canary!Begin

LEMMA CanaryFinishes ==
    ASSUME CanaryInv, Canary!Finish
    PROVE  CanaryInv'
<1> USE DEF CanaryInv, CanaryTypes
<1> DEFINE kept == <<meta, http, entries, todo, told, asOf, left, reserve, boundary, place,
                     terminal, closing, pcCanary, stage, triesCanary, whyCanary>>
<1>1. site' = site /\ coming' = coming /\ UNCHANGED kept
  BY DEF Canary!Finish, Canary!readVars, Canary!budgetVars, Canary!proofVars
<1>2. Len(runs) \in Nat /\ runs \in Seq(RunShape)
  OBVIOUS
<1>3. PICK i \in DOMAIN runs, r \in {"Success", "Failed"} :
        /\ runs[i].status = "Running"
        /\ runs' = [runs EXCEPT ![i].status = r]
        /\ seenCanary' = IF runs[i].who = "ours" THEN Append(seenCanary, "end") ELSE seenCanary
  BY DEF Canary!Finish
<1>4. /\ Grown /\ Len(runs') = Len(runs) /\ i \in 1 .. Len(runs)
      /\ runs'[i] = [who |-> runs[i].who, status |-> r]
      /\ \A k \in 1 .. Len(runs) : k # i => runs'[k] = runs[k]
  <2>1. runs[i] \in RunShape
    BY <1>2
  <2>2. PICK e \in RunShape : e = [who |-> runs[i].who, status |-> r]
    BY <2>1 DEF RunShape
  <2>3. e = [runs[i] EXCEPT !.status = r]
    BY <2>1, <2>2 DEF RunShape
  <2>4. runs' = [runs EXCEPT ![i] = e] /\ e.who = runs[i].who /\ e.status # "Running"
    BY <1>3, <2>2, <2>3, ZenonT(60)
  <2>5. CanaryTypes /\ runs[i].status = "Running" /\ i \in DOMAIN runs
    BY <1>3
  <2> HIDE DEF CanaryTypes, CanaryInv
  <2>6. /\ Grown /\ Len(runs') = Len(runs) /\ i \in 1 .. Len(runs) /\ runs'[i] = e
        /\ \A k \in 1 .. Len(runs) : k # i => runs'[k] = runs[k]
    BY <2>4, <2>5, FinishGrows
  <2> QED
    BY <2>2, <2>6
<1>5. (Nobody => Nobody') /\ \A k : OurRun(runs, k) => OurRun(runs', k)
  BY <1>2, <1>4, SMTT(60) DEF Nobody, OurRun
<1>6. OneToken'
  BY <1>1, <1>2, <1>4, <1>5 DEF OneToken, Untriggered, Pending, Begun
<1>7. Nobody => seenCanary' = seenCanary
  BY <1>3, <1>4 DEF Nobody
<1>8. stage = Canary!Before \/ pcCanary = "trigger" => Untriggered' /\ UNCHANGED seenCanary
  BY <1>1, <1>5, <1>7 DEF Opening, Untriggered
<1>9. terminal # <<>> => coming' = 0
  BY <1>1 DEF Opening, Behind, Found
<1>10. terminal # <<>> => seenCanary' = seenCanary
  <2> SUFFICES ASSUME terminal # <<>>, runs[i].who = "ours"
               PROVE  FALSE
    BY <1>3
  <2>1. Found /\ Len(boundary) \in Nat
    BY DEF Opening, Behind, Snapshot
  <2>2. /\ Len(boundary) + 1 \in 1 .. Len(runs) /\ runs[Len(boundary) + 1].who = "ours"
        /\ runs[Len(boundary) + 1].status = "Success" /\ coming = 0
    BY <1>2, <2>1 DEF Found
  <2>3. Begun
    BY <2>2 DEF OneToken, Untriggered, Pending, Nobody
  <2>4. i = Len(boundary) + 1
    BY <1>4, <2>2, <2>3 DEF Begun, OurRun
  <2> QED
    BY <1>3, <2>2, <2>4
<1>11. Polling'
  <2> SUFFICES ASSUME whyCanary = "none", stage # Canary!Before, pcCanary # "trigger", terminal = <<>>
               PROVE  Polling'
    BY <1>1 DEF Polling
  <2>1. CASE Pending /\ ToldUpTo(seenCanary, 11, FALSE)
    <3>1. Pending' /\ ToldUpTo(seenCanary', 11, FALSE)
      BY <1>1, <1>5, <1>7, <2>1 DEF Pending
    <3> QED
      BY <3>1, PollingPending
  <2>2. ASSUME NEW k \in 1 .. Len(runs), NEW early \in BOOLEAN, coming = 0, OurRun(runs, k),
               ToldUpTo(seenCanary, IF runs[k].status = "Running" THEN 12 ELSE 13, early)
        PROVE  Polling'
    <3>1. CASE runs[i].who = "ours"
      <4>1. i = k
        BY <1>4, <2>2, <3>1 DEF OurRun
      <4>2. ToldUpTo(seenCanary, 12, early)
        BY <1>3, <2>2, <4>1
      <4>3. "end" = Tale(early)[12 + 1] /\ 12 \in Nat /\ 12 + 1 = 13 /\ "end" \in Words
        BY DEF Tale, Words
      <4>7. ToldUpTo(Append(seenCanary, "end"), 12 + 1, early)
        BY <4>2, <4>3, TellOne, ZenonT(60)
      <4>4. ToldUpTo(seenCanary', 13, early)
        BY <1>3, <3>1, <4>3, <4>7
      <4>5. OurRun(runs', k) /\ k \in 1 .. Len(runs')
        BY <1>4, <1>5, <2>2
      <4>6. (IF runs'[k].status = "Running" THEN 12 ELSE 13) = 13
        BY <1>4, <4>1
      <4> QED
        BY <1>1, <2>2, <4>4, <4>5, <4>6, PollingRun
    <3>2. CASE runs[i].who # "ours"
      <4>1. i # k
        BY <2>2, <3>2 DEF OurRun
      <4>2. OurRun(runs', k) /\ runs'[k] = runs[k] /\ k \in 1 .. Len(runs')
        BY <1>4, <1>5, <2>2, <4>1
      <4>3. seenCanary' = seenCanary
        BY <1>3, <3>2
      <4> QED
        BY <1>1, <2>2, <4>2, <4>3, PollingRun
    <3> QED
      BY <3>1, <3>2
  <2> QED
    BY <2>1, <2>2, PollingKnown DEF Story
<1> QED
  BY <1>1, <1>4, <1>6, <1>8, <1>9, <1>10, <1>11, ServiceKeeps

LEMMA CanarySiteDown ==
    ASSUME CanaryInv, Canary!SiteDown
    PROVE  CanaryInv'
<1> USE DEF CanaryInv, CanaryTypes
<1>1. site = "stopping" /\ site' = "down"
  BY DEF Canary!SiteDown
<1>2. UNCHANGED <<runs, coming, meta, http, entries, todo, told, asOf, left, reserve, boundary, place,
                  terminal, closing, pcCanary, stage, triesCanary, whyCanary, seenCanary>>
  BY DEF Canary!SiteDown, Canary!readVars, Canary!budgetVars, Canary!proofVars
<1>5. Grown
  BY <1>2 DEF Grown
<1>6. OneToken' /\ (Untriggered => Untriggered') /\ (Pending => Pending')
  BY <1>2 DEF OneToken, Untriggered, Pending, Begun, Nobody
<1>7. Polling'
  BY <1>2, <1>6, PollingGrows DEF Story
<1>8. terminal # <<>> => coming' = 0
  BY <1>2 DEF Opening, Behind, Found
<1>9. stage = Canary!Before \/ pcCanary = "trigger" => Untriggered' /\ UNCHANGED seenCanary
  BY <1>2, <1>6 DEF Opening
<1> QED
  BY <1>1, <1>2, <1>5, <1>6, <1>7, <1>8, <1>9, ServiceKeeps

(* An error: the site is stopped, or what is left is closed.               *)
LEMMA CanaryFails ==
    ASSUME CanaryInv, pcCanary \in {"job", "list", "detail", "judge", "trigger"},
           NEW reason \in {"error", "budget", "conflict"}, Canary!Fail(reason),
           UNCHANGED <<runs, site, coming, stage, reserve, boundary, place, terminal>>,
           meta' \in BOOLEAN, stage # Canary!Before => meta' = meta /\ http' = http,
           http' \in {200, 404},
           stage = Canary!Before => triesCanary' \in 0 .. MaxBoundary,
           stage # Canary!Before => triesCanary' \in 0 .. MaxPolls /\ triesCanary' >= triesCanary,
           left' \in 0 .. left, (Canary!BudgetRefusal)'
    PROVE  CanaryInv'
<1> USE DEF CanaryInv, CanaryTypes
<1>0. /\ whyCanary' = reason /\ whyCanary' # "none" /\ entries' = <<>> /\ todo' = {} /\ told' = {}
      /\ pcCanary' \in {"close", "stop"} /\ (pcCanary' = "stop" <=> stage # Canary!Final)
  BY DEF Canary!Fail, Canary!Forget
<1>1. CanaryTypes'
  <2>1. left \in Nat /\ Canary!MaxDetails \in Nat /\ left <= Canary!MaxDetails
    BY CanaryConstants
  <2>2. left' \in 0 .. Canary!MaxDetails
    BY <2>1
  <2> QED
    BY <1>0, <2>2
<1>2. CanaryPhases'
  BY <1>0 DEF CanaryPhases
<1>3. Opening'
  <2>1. stage = Canary!Before => (Untriggered /\ terminal = <<>> /\ place = 0)'
    BY DEF Opening, Untriggered, Nobody
  <2>2. stage = Canary!Before => boundary' = <<>> /\ reserve' = 0
    BY DEF Opening
  <2> QED
    BY <1>0, <2>1, <2>2, ZenonT(60) DEF Opening
<1>4. ReadingHistory'
  BY <1>0 DEF ReadingHistory
<1>5. Behind'
  <2>1. Snapshot(boundary) => Snapshot(boundary)'
    BY DEF Snapshot
  <2>2. Found /\ stage # Canary!Before => Found'
    BY DEF Found, Behind
  <2> QED
    BY <1>0, <2>1, <2>2 DEF Behind
<1>6. Budget'
  <2>1. Due' = 0
    BY <1>0, FS_EmptySet DEF Due
  <2>2. left' \in Nat /\ 0 <= left'
    BY <1>1, CanaryConstants
  <2> QED
    BY <1>0, <2>1, <2>2 DEF Budget
<1>7. Census'
  BY <1>0 DEF Census
<1>8. (Canary!FailureTruth)'
  BY <1>0 DEF Canary!FailureTruth
<1>9. OneToken' /\ Story'
  BY <1>0 DEF OneToken, Untriggered, Pending, Begun, Nobody, Story, Polling, Telling
<1> QED
  BY <1>1, <1>2, <1>3, <1>4, <1>5, <1>6, <1>7, <1>8, <1>9

LEMMA CanaryReadsJob ==
    ASSUME CanaryInv, Canary!ReadJob
    PROVE  CanaryInv'
<1> USE DEF CanaryInv, CanaryTypes
<1>1. /\ pcCanary = "job" /\ stage = Canary!Before /\ whyCanary = "none" /\ todo = {} /\ told = {}
      /\ terminal = <<>>
  BY DEF Canary!ReadJob, CanaryPhases, ReadingHistory, Opening
<1>2. UNCHANGED <<runs, site, coming, http, left, reserve, boundary, place, terminal, closing, stage,
                  seenCanary>>
  BY DEF Canary!ReadJob, Canary!serviceVars, Canary!budgetVars, Canary!proofVars
<1>3. CASE Canary!Fail("error") /\ UNCHANGED <<triesCanary, meta, asOf>>
  <2>1. (Canary!BudgetRefusal)'
    BY <1>3 DEF Canary!BudgetRefusal, Canary!Fail
  <2>2. left' \in 0 .. left
    BY <1>2, CanaryConstants
  <2>3. triesCanary' \in 0 .. MaxBoundary
    BY <1>1, <1>3 DEF Opening
  <2>4. meta' \in BOOLEAN /\ http' \in {200, 404} /\ stage # Canary!Final
    BY <1>1, <1>2, <1>3 DEF Canary!Before, Canary!Final
  <2> QED
    BY <1>1, <1>2, <1>3, <2>1, <2>2, <2>3, <2>4, CanaryFails
<1>4. CASE /\ triesCanary < MaxBoundary /\ triesCanary' = triesCanary + 1
           /\ UNCHANGED <<whyCanary, entries, todo, told>>
           /\ \/ UNCHANGED <<pcCanary, meta, asOf>>
              \/ meta' = (runs # <<>>) /\ asOf' = DOMAIN runs /\ pcCanary' = "list"
  <2>1. CanaryTypes'
    <3>1. meta' \in BOOLEAN /\ pcCanary' \in {"job", "list"}
      BY <1>1, <1>4
    <3> QED
      BY <1>1, <1>2, <1>4, <3>1
  <2>2. CanaryPhases'
    BY <1>1, <1>2, <1>4 DEF CanaryPhases, Canary!Before, Canary!Poll, Canary!Final
  <2>3. Opening'
    <3>1. triesCanary' \in 0 .. MaxBoundary
      BY <1>1, <1>4, ExecutionsOK DEF Opening
    <3>2. pcCanary' = "list" /\ asOf' = DOMAIN runs => asOf' = 1 .. Len(runs)
      BY <1>2
    <3>3. Untriggered'
      BY <1>1, <1>2 DEF Opening, Untriggered, Nobody
    <3>4. boundary' = <<>> /\ reserve' = 0 /\ ToldUpTo(seenCanary', 7, TRUE) /\ place' = 0
      BY <1>1, <1>2 DEF Opening
    <3>5. pcCanary' = "list" => asOf' \subseteq 1 .. Len(runs') /\ (~meta' => asOf' = {})
      <4>1. runs' = runs /\ (runs = <<>> => 1 .. Len(runs) = {})
        BY <1>2
      <4> QED
        BY <1>1, <1>4, <3>2, <4>1
    <3> QED
      BY <1>1, <1>2, <1>4, <3>1, <3>3, <3>4, <3>5 DEF Opening
  <2>4. ReadingHistory'
    BY <1>1, <1>2, <1>4 DEF ReadingHistory
  <2>5. Behind' /\ Census' /\ Story'
    BY <1>1, <1>2, <1>4 DEF Behind, Census, Story, Polling, Telling, Canary!Before, Canary!Poll, Canary!Final
  <2>6. Budget'
    BY <1>1, <1>2, <1>4 DEF Budget, Due, Canary!Before, Canary!Poll, Canary!Final
  <2>7. OneToken'
    BY <1>2 DEF OneToken, Untriggered, Pending, Begun, Nobody
  <2>8. (Canary!FailureTruth)' /\ (Canary!BudgetRefusal)'
    BY <1>1, <1>4 DEF Canary!FailureTruth, Canary!BudgetRefusal
  <2> QED
    BY <2>1, <2>2, <2>3, <2>4, <2>5, <2>6, <2>7, <2>8
<1> QED
  BY <1>3, <1>4 DEF Canary!ReadJob

(* A history is read, or is to be read again.                              *)
LEMMA ListKeeps ==
    ASSUME CanaryInv, pcCanary = "list",
           pcCanary' \in {"job", "list", "detail", "judge"},
           pcCanary' = "job" => stage = Canary!Before,
           UNCHANGED <<runs, site, coming, meta, left, reserve, boundary, place, terminal, closing,
                       stage, seenCanary, whyCanary>>,
           stage = Canary!Poll => triesCanary < MaxPolls /\ triesCanary' = triesCanary + 1,
           stage # Canary!Poll => triesCanary' = triesCanary,
           stage # Canary!Before => http' = http, http' \in {200, 404}
    PROVE  /\ whyCanary = "none" /\ CanaryPhases' /\ Behind' /\ Census' /\ OneToken' /\ Story'
           /\ (Canary!FailureTruth)' /\ (Canary!BudgetRefusal)'
           /\ (stage = Canary!Before => triesCanary' \in 0 .. MaxBoundary)
           /\ (stage # Canary!Before => triesCanary' \in 0 .. MaxPolls /\ triesCanary' >= triesCanary)
<1> USE DEF CanaryInv, CanaryTypes
<1>1. whyCanary = "none" /\ whyCanary' = "none"
  BY DEF CanaryPhases
<1>2. /\ stage = Canary!Before => triesCanary' \in 0 .. MaxBoundary
      /\ stage # Canary!Before => triesCanary' \in 0 .. MaxPolls /\ triesCanary' >= triesCanary
      /\ stage = Canary!Poll => triesCanary' >= 1
  <2>1. stage = Canary!Before => triesCanary \in 0 .. MaxBoundary
    BY DEF Opening
  <2>2. stage # Canary!Before => triesCanary \in 0 .. MaxPolls
    BY DEF Behind
  <2>3. MaxPolls \in Nat /\ Canary!Before # Canary!Poll
    BY ExecutionsOK DEF Canary!Before, Canary!Poll
  <2> QED
    BY <2>1, <2>2, <2>3
<1>3. CanaryPhases'
  BY <1>1 DEF CanaryPhases
<1>4. Behind'
  <2>1. Snapshot(boundary) => Snapshot(boundary)'
    BY DEF Snapshot
  <2>2. Found /\ stage # Canary!Before => Found'
    BY <1>2 DEF Found, Behind
  <2>3. stage = Canary!Final => triesCanary' >= 1
    BY <1>2 DEF CanaryPhases, Behind, Found, Canary!Before, Canary!Poll, Canary!Final
  <2>4. stage \in {Canary!Before, Canary!Poll, Canary!Final}
    OBVIOUS
  <2> QED
    BY <1>2, <2>1, <2>2, <2>3, <2>4 DEF Behind
<1>5. Census'
  BY <1>1 DEF Census
<1>6. OneToken'
  BY DEF OneToken, Untriggered, Pending, Begun, Nobody
<1>7. Story'
  <2>1. Pending => Pending'
    BY DEF Pending, Nobody
  <2>2. Len(runs) \in Nat /\ runs' = runs
    OBVIOUS
  <2>3. Polling'
    BY <1>1, <2>1, <2>2, PollingGrows DEF Story
  <2>4. Telling'
    BY <1>1 DEF Story, Telling, Canary!Before, Canary!Poll, Canary!Final
  <2> QED
    BY <2>3, <2>4 DEF Story
<1>8. (Canary!FailureTruth)' /\ (Canary!BudgetRefusal)'
  BY <1>1 DEF Canary!FailureTruth, Canary!BudgetRefusal
<1> QED
  BY <1>1, <1>2, <1>3, <1>4, <1>5, <1>6, <1>7, <1>8

LEMMA CanaryThrottled ==
    ASSUME CanaryInv, pcCanary = "list", Canary!Throttled, stage = Canary!Poll => triesCanary < MaxPolls,
           UNCHANGED <<runs, site, coming, meta, left, reserve, boundary, place, terminal, closing,
                       stage, seenCanary>>
    PROVE  CanaryInv'
<1> USE DEF CanaryInv, CanaryTypes
<1>1. /\ stage # Canary!Final /\ pcCanary' = (IF stage = Canary!Before THEN "job" ELSE "list")
      /\ UNCHANGED <<http, whyCanary>> /\ entries' = <<>> /\ todo' = {} /\ told' = {}
      /\ stage = Canary!Poll => triesCanary' = triesCanary + 1
      /\ stage # Canary!Poll => triesCanary' = triesCanary
  BY DEF Canary!Throttled, Canary!Forget, Canary!Before, Canary!Poll, Canary!Final
<1>2. /\ whyCanary = "none" /\ CanaryPhases' /\ Behind' /\ Census' /\ OneToken' /\ Story'
      /\ (Canary!FailureTruth)' /\ (Canary!BudgetRefusal)'
      /\ (stage = Canary!Before => triesCanary' \in 0 .. MaxBoundary)
      /\ (stage # Canary!Before => triesCanary' \in 0 .. MaxPolls /\ triesCanary' >= triesCanary)
  <2>1. pcCanary' \in {"job", "list", "detail", "judge"} /\ (pcCanary' = "job" => stage = Canary!Before)
    BY <1>1
  <2>2. http' \in {200, 404} /\ http' = http /\ whyCanary' = whyCanary
    BY <1>1
  <2> QED
    BY <1>1, <2>1, <2>2, ListKeeps
<1>3. CanaryTypes'
  BY <1>1
<1>4. Opening'
  <2>1. stage = Canary!Before => Untriggered' /\ boundary' = <<>> /\ reserve' = 0 /\ ToldUpTo(seenCanary', 7, TRUE)
    BY <1>2 DEF Opening, Untriggered, Nobody
  <2> QED
    BY <1>1, <1>2, <2>1 DEF Opening
<1>5. ReadingHistory'
  BY <1>1 DEF ReadingHistory
<1>6. Budget'
  <2>1. Due' = 0 /\ Due = 0
    BY <1>1, FS_EmptySet DEF Due, ReadingHistory
  <2>2. stage = Canary!Poll =>
          PerCensus * (MaxPolls - triesCanary) = PerCensus * (MaxPolls - triesCanary') + PerCensus
    <3> SUFFICES ASSUME stage = Canary!Poll
                 PROVE  PerCensus * (MaxPolls - triesCanary)
                          = PerCensus * (MaxPolls - triesCanary') + PerCensus
      OBVIOUS
    <3>1. MaxPolls - triesCanary \in 1 .. MaxPolls /\ MaxPolls - triesCanary' = (MaxPolls - triesCanary) - 1
      BY <1>1, CanaryConstants DEF Behind, Canary!Before, Canary!Poll
    <3> QED
      BY <3>1, CanaryConstants
  <2>3. PerCensus * (MaxPolls - triesCanary') \in Int /\ PerCensus \in Nat /\ left \in Nat
    BY <1>1, <1>2, CanaryConstants DEF Opening
  <2>4. CASE stage = Canary!Poll
    <3>1. left >= reserve /\ 0 <= left
      BY <2>1, <2>3, <2>4 DEF Budget, Behind, Snapshot, Canary!Before, Canary!Poll
    <3>2. Len(runs) <= PerCensus /\ Len(boundary) + 1 <= PerCensus =>
            left - reserve >= PerCensus * (MaxPolls - triesCanary')
      BY <2>1, <2>2, <2>3, <2>4 DEF Budget, Behind, Snapshot, Canary!Before, Canary!Poll
    <3> QED
      BY <1>1, <2>1, <2>4, <3>1, <3>2 DEF Budget, Canary!Before, Canary!Poll
  <2>5. CASE stage = Canary!Before
    BY <1>1, <2>1, <2>3, <2>5 DEF Budget, Canary!Before, Canary!Poll
  <2> QED
    BY <1>1, <2>4, <2>5
<1> QED
  BY <1>2, <1>3, <1>4, <1>5, <1>6

LEMMA CanaryPristine ==
    ASSUME CanaryInv, pcCanary = "list", Canary!Pristine,
           UNCHANGED <<runs, site, coming, meta, left, reserve, boundary, place, terminal, closing,
                       stage, seenCanary>>
    PROVE  CanaryInv'
<1> USE DEF CanaryInv, CanaryTypes
<1>1. /\ stage = Canary!Before /\ stage # Canary!Poll /\ ~meta /\ http' = 404 /\ pcCanary' = "judge"
      /\ UNCHANGED <<triesCanary, asOf, whyCanary>> /\ entries' = <<>> /\ todo' = {} /\ told' = {}
  BY DEF Canary!Pristine, Canary!Forget, Canary!Before, Canary!Poll
<1>2. /\ whyCanary = "none" /\ CanaryPhases' /\ Behind' /\ Census' /\ OneToken' /\ Story'
      /\ (Canary!FailureTruth)' /\ (Canary!BudgetRefusal)'
      /\ (stage = Canary!Before => triesCanary' \in 0 .. MaxBoundary)
      /\ (stage # Canary!Before => triesCanary' \in 0 .. MaxPolls /\ triesCanary' >= triesCanary)
  <2>1. pcCanary' \in {"job", "list", "detail", "judge"} /\ (pcCanary' = "job" => stage = Canary!Before)
    BY <1>1
  <2>2. http' \in {200, 404} /\ whyCanary' = whyCanary
    BY <1>1
  <2> QED
    BY <1>1, <2>1, <2>2, ListKeeps
<1>3. CanaryTypes'
  BY <1>1
<1>4. Opening'
  <2>1. Untriggered' /\ boundary' = <<>> /\ reserve' = 0 /\ ToldUpTo(seenCanary', 7, TRUE)
    BY <1>1, <1>2 DEF Opening, Untriggered, Nobody
  <2>2. asOf' = {} /\ terminal' = <<>> /\ place' = 0
    BY <1>1 DEF Opening
  <2> QED
    BY <1>1, <1>2, <2>1, <2>2 DEF Opening
<1>5. ReadingHistory'
  BY <1>1 DEF ReadingHistory, Snapshot, Serial, Canary!Before, Canary!Final
<1>6. Budget'
  <2>1. Due' = 0 /\ Due = 0
    BY <1>1, FS_EmptySet DEF Due, ReadingHistory
  <2>2. Canary!MaxDetails \in Nat /\ left = Canary!MaxDetails /\ Len(entries') = 0
    BY <1>1, CanaryConstants DEF Budget
  <2> QED
    BY <1>1, <2>1, <2>2 DEF Budget, Canary!Before, Canary!Poll
<1> QED
  BY <1>2, <1>3, <1>4, <1>5, <1>6

(* 200: there is credit for every detail, or there are too many runs.      *)
LEMMA CanaryListed ==
    ASSUME CanaryInv, pcCanary = "list", Canary!Listed, stage = Canary!Poll => triesCanary < MaxPolls,
           UNCHANGED <<runs, site, coming, meta, left, reserve, boundary, place, terminal, closing,
                       stage, seenCanary>>
    PROVE  CanaryInv'
<1> USE DEF CanaryInv, CanaryTypes
<1> USE DEF Canary!Before, Canary!Poll, Canary!Final
<1>1. PICK sparse \in SUBSET DOMAIN runs :
        \/ Cardinality(sparse) > Canary!Available /\ Canary!Fail("budget") /\ UNCHANGED http
        \/ /\ Cardinality(sparse) <= Canary!Available
           /\ http' = IF stage = Canary!Before THEN 200 ELSE http
           /\ entries' = runs /\ todo' = sparse /\ told' \in SUBSET sparse
           /\ pcCanary' = IF sparse = {} THEN "judge" ELSE "detail"
           /\ UNCHANGED whyCanary
  BY SameCount, Zenon DEF Canary!Listed
<1>2. /\ triesCanary' = (IF stage = Canary!Poll THEN triesCanary + 1 ELSE triesCanary) /\ asOf' = asOf
      /\ todo = {} /\ told = {} /\ Due = 0 /\ whyCanary = "none"
  BY FS_EmptySet DEF Canary!Listed, ReadingHistory, Due, CanaryPhases
<1>3. /\ Len(runs) \in Nat /\ DOMAIN runs = 1 .. Len(runs) /\ sparse \in SUBSET (1 .. Len(runs))
      /\ Cardinality(sparse) \in 0 .. Len(runs) /\ (Cardinality(sparse) = 0 <=> sparse = {})
  <2>1. Len(runs) \in Nat /\ DOMAIN runs = 1 .. Len(runs)
    OBVIOUS
  <2> QED
    BY <2>1, DueCounts
<1>4. /\ stage = Canary!Before => triesCanary' \in 0 .. MaxBoundary
      /\ stage # Canary!Before => triesCanary' \in 0 .. MaxPolls /\ triesCanary' >= triesCanary
  <2>1. stage = Canary!Before => triesCanary \in 0 .. MaxBoundary
    BY DEF Opening
  <2>2. stage # Canary!Before => triesCanary \in 0 .. MaxPolls
    BY DEF Behind
  <2>3. MaxPolls \in Nat
    BY ExecutionsOK
  <2> QED
    BY <1>2, <2>1, <2>2, <2>3
<1>5. /\ left \in Nat /\ reserve \in Nat /\ PerCensus \in Nat
      /\ stage # Canary!Before => reserve = Len(boundary) + 1 /\ Len(boundary) \in Nat
      /\ stage = Canary!Poll => left >= reserve
  <2>1. left \in Nat /\ PerCensus \in Nat
    BY CanaryConstants
  <2>2. stage # Canary!Before => reserve = Len(boundary) + 1 /\ Len(boundary) \in Nat
    BY DEF Behind, Snapshot
  <2>3. stage = Canary!Poll => left >= reserve
    BY <1>2, <2>1, <2>2 DEF Budget
  <2>4. stage = Canary!Before => reserve = 0
    BY DEF Opening
  <2> QED
    BY <2>1, <2>2, <2>3, <2>4
<1>6. CASE Cardinality(sparse) > Canary!Available /\ Canary!Fail("budget") /\ UNCHANGED http
  <2>4. (Canary!BudgetRefusal)'
    <3>1. CASE stage = Canary!Before
      <4>1. Canary!Available = left /\ left = Canary!MaxDetails
        BY <3>1 DEF Canary!Available, Budget
      <4>2. Canary!MaxDetails >= PerCensus
        BY CanaryConstants
      <4>3. Len(runs') + 1 > PerCensus /\ stage' = Canary!Before
        BY <1>3, <1>5, <1>6, <3>1, <4>1, <4>2
      <4> QED
        BY <4>3 DEF Canary!BudgetRefusal
    <3>2. CASE stage = Canary!Poll
      <4>1. Canary!Available = left - reserve
        BY <3>2 DEF Canary!Available
      <4>2. Len(runs) <= PerCensus /\ Len(boundary) + 1 <= PerCensus => left - reserve >= PerCensus
        <5>1. MaxPolls - triesCanary \in 1 .. MaxPolls
          BY <1>2, <1>4, <3>2, CanaryConstants DEF Behind
        <5>2. PerCensus * (MaxPolls - triesCanary) = PerCensus * ((MaxPolls - triesCanary) - 1) + PerCensus
          BY <5>1, CanaryConstants
        <5>3. PerCensus * ((MaxPolls - triesCanary) - 1) \in Nat
          BY <5>1, CanaryConstants
        <5>4. Len(runs) <= PerCensus /\ Len(boundary) + 1 <= PerCensus =>
                left - reserve >= PerCensus * (MaxPolls - triesCanary)
          BY <1>2, <1>5, <3>2 DEF Budget
        <5> QED
          BY <1>5, <5>2, <5>3, <5>4
      <4>3. (Len(runs') > PerCensus \/ Len(boundary') + 1 > PerCensus) /\ stage' = Canary!Poll
        BY <1>3, <1>5, <1>6, <3>2, <4>1, <4>2
      <4> QED
        BY <4>3 DEF Canary!BudgetRefusal
    <3>3. CASE stage = Canary!Final
      <4>1. Canary!Available = reserve
        BY <1>5, <3>3 DEF Canary!Available, Budget
      <4>2. Len(runs') > Len(boundary') + 1 /\ stage' = Canary!Final
        BY <1>3, <1>5, <1>6, <3>3, <4>1
      <4> QED
        BY <4>2 DEF Canary!BudgetRefusal
    <3> QED
      BY <3>1, <3>2, <3>3
  <2>5. left' \in 0 .. left /\ meta' \in BOOLEAN /\ http' \in {200, 404} /\ http' = http
    BY <1>5, <1>6
  <2> QED
    BY <1>4, <1>6, <2>4, <2>5, CanaryFails
<1>7. CASE /\ Cardinality(sparse) <= Canary!Available
           /\ http' = (IF stage = Canary!Before THEN 200 ELSE http)
           /\ entries' = runs /\ todo' = sparse /\ told' \in SUBSET sparse
           /\ pcCanary' = (IF sparse = {} THEN "judge" ELSE "detail")
           /\ UNCHANGED whyCanary
  <2>1. /\ CanaryPhases' /\ Behind' /\ Census' /\ OneToken' /\ Story'
        /\ (Canary!FailureTruth)' /\ (Canary!BudgetRefusal)'
    <3>1. pcCanary' \in {"job", "list", "detail", "judge"} /\ (pcCanary' = "job" => stage = Canary!Before)
      BY <1>7
    <3>2. http' \in {200, 404} /\ whyCanary' = whyCanary /\ (stage # Canary!Before => http' = http)
      BY <1>7
    <3>3. /\ stage = Canary!Poll => triesCanary < MaxPolls /\ triesCanary' = triesCanary + 1
          /\ stage # Canary!Poll => triesCanary' = triesCanary
      BY <1>2
    <3> QED
      BY <3>1, <3>2, <3>3, ListKeeps
  <2>2. CanaryTypes'
    <3>1. sparse \subseteq 1 .. MaxRuns
      BY <1>3, ExecutionsOK
    <3> QED
      BY <1>7, <3>1
  <2>3. Opening'
    <3>1. stage = Canary!Before => /\ Untriggered' /\ boundary' = <<>> /\ reserve' = 0 /\ ToldUpTo(seenCanary', 7, TRUE)
                                   /\ terminal' = <<>> /\ place' = 0
      BY <1>2 DEF Opening, Untriggered, Nobody
    <3>2. stage = Canary!Before => asOf' \subseteq 1 .. Len(runs') /\ (~meta' => asOf' = {})
      BY <1>2 DEF Opening
    <3>3. stage = Canary!Before => asOf' \subseteq 1 .. Len(entries') /\ (http' = 404 => entries' = <<>>)
      BY <1>7, <3>2
    <3>4. stage = Canary!Before \/ stage' # Canary!Before
      OBVIOUS
    <3> QED
      BY <1>4, <1>7, <3>1, <3>2, <3>3, <3>4 DEF Opening
  <2>4. ReadingHistory'
    <3>1. Snapshot(entries)'
      BY <1>7 DEF Snapshot, Serial
    <3> QED
      BY <1>3, <1>7, <3>1 DEF ReadingHistory
  <2>5. Budget'
    <3>1. Due' = Cardinality(sparse)
      BY <1>7 DEF Due
    <3>2. Cardinality(sparse) \in Nat
      BY <1>3
    <3>3. CASE stage = Canary!Before
      <4>1. Canary!Available = left /\ left = Canary!MaxDetails
        BY <3>3 DEF Canary!Available, Budget
      <4> QED
        BY <1>3, <1>5, <1>7, <3>1, <3>2, <3>3, <4>1 DEF Budget
    <3>4. CASE stage = Canary!Poll
      <4>1. Canary!Available = left - reserve
        BY <3>4 DEF Canary!Available
      <4>2. Due' <= left /\ left - Due' >= reserve
        BY <1>5, <1>7, <3>1, <3>2, <4>1
      <4>3. MaxPolls - triesCanary \in 1 .. MaxPolls /\ MaxPolls - triesCanary' = (MaxPolls - triesCanary) - 1
        BY <1>2, <1>4, <3>4, CanaryConstants DEF Behind
      <4>4. PerCensus * (MaxPolls - triesCanary) = PerCensus * (MaxPolls - triesCanary') + PerCensus
        BY <4>3, CanaryConstants
      <4>5. PerCensus * (MaxPolls - triesCanary') \in Int
        BY <4>3, CanaryConstants
      <4>6. Len(runs) <= PerCensus /\ Len(boundary) + 1 <= PerCensus =>
              left - Due' - reserve >= PerCensus * (MaxPolls - triesCanary')
        <5>1. Len(runs) <= PerCensus /\ Len(boundary) + 1 <= PerCensus =>
                left - reserve >= PerCensus * (MaxPolls - triesCanary)
          BY <1>2, <1>5, <3>4 DEF Budget
        <5> QED
          BY <1>3, <1>5, <3>1, <4>4, <4>5, <5>1
      <4> QED
        BY <1>7, <3>4, <4>2, <4>6 DEF Budget
    <3>5. CASE stage = Canary!Final
      <4>1. Due' <= left
        BY <1>5, <1>7, <3>1, <3>2, <3>5 DEF Canary!Available
      <4> QED
        BY <1>7, <3>5, <4>1 DEF Budget
    <3> QED
      BY <3>3, <3>4, <3>5
  <2> QED
    BY <2>1, <2>2, <2>3, <2>4, <2>5
<1> QED
  BY <1>1, <1>6, <1>7

LEMMA CanaryReadsList ==
    ASSUME CanaryInv, Canary!ReadList
    PROVE  CanaryInv'
<1> USE DEF CanaryInv, CanaryTypes
<1>1. pcCanary = "list" /\ UNCHANGED <<runs, site, coming, meta, left, reserve, boundary, place, terminal,
                                       closing, stage, seenCanary>>
  BY DEF Canary!ReadList, Canary!serviceVars, Canary!budgetVars, Canary!proofVars
<1>2. CASE Canary!Fail("error") /\ UNCHANGED <<triesCanary, http, asOf>>
  <2>1. (Canary!BudgetRefusal)'
    BY <1>2 DEF Canary!BudgetRefusal, Canary!Fail
  <2>2. left' \in 0 .. left
    BY <1>1, CanaryConstants
  <2>3. /\ stage = Canary!Before => triesCanary' \in 0 .. MaxBoundary
        /\ stage # Canary!Before => triesCanary' \in 0 .. MaxPolls /\ triesCanary' >= triesCanary
    <3>1. stage = Canary!Before => triesCanary \in 0 .. MaxBoundary
      BY DEF Opening
    <3>2. stage # Canary!Before => triesCanary \in 0 .. MaxPolls
      BY DEF Behind
    <3> QED
      BY <1>2, <3>1, <3>2
  <2>4. meta' \in BOOLEAN /\ http' \in {200, 404} /\ meta' = meta /\ http' = http
    BY <1>1, <1>2
  <2> QED
    BY <1>1, <1>2, <2>1, <2>2, <2>3, <2>4, CanaryFails
<1>3. CASE /\ stage = Canary!Poll => triesCanary < MaxPolls
           /\ Canary!Throttled \/ Canary!Pristine \/ Canary!Listed
  BY <1>1, <1>3, CanaryThrottled, CanaryPristine, CanaryListed
<1> QED
  BY <1>2, <1>3 DEF Canary!ReadList

(* The first number with one of S at or before it is counted out: those    *)
(* before it are as many as they are.                                      *)
LEMMA LeastThere ==
    ASSUME NEW m \in Nat, NEW S \in SUBSET (1 .. m), S # {}
    PROVE  Canary!Least(S) \in S
<1> DEFINE A == {k \in 1 .. m : \A x \in S : x > k}
           c == Cardinality(A)
<1>1. A \in SUBSET (1 .. m) /\ c \in 0 .. m
  <2>1. A \in SUBSET (1 .. m)
    OBVIOUS
  <2> HIDE DEF A
  <2> QED
    BY <2>1, DueCounts
<1>2. \A k \in 1 .. m : k \in A <=> \A x \in S : x > k
  OBVIOUS
<1>3. \A j \in Nat : A \subseteq 1 .. j => c <= j
  <2> HIDE DEF A
  <2> TAKE j \in Nat
  <2>1. A \in SUBSET (1 .. j) => Cardinality(A) \in 0 .. j
    BY DueCounts
  <2> QED
    BY <2>1
<1>4. \A j \in Nat : 1 .. j \subseteq A => j <= c
  <2> HIDE DEF A
  <2> TAKE j \in Nat
  <2>1. IsFiniteSet(1 .. m) /\ IsFiniteSet(1 .. j) /\ Cardinality(1 .. j) = j
    BY FS_Interval
  <2>2. IsFiniteSet(A)
    BY <1>1, <2>1, FS_Subset
  <2> QED
    BY <2>1, <2>2, FS_Subset
<1> HIDE DEF c
<1>5. \A x \in S : x > c
  <2>1. CASE c = 0
    BY <2>1
  <2>2. CASE c # 0
    <3> SUFFICES ASSUME c \notin A
                 PROVE  FALSE
      BY <1>1, <1>2, <2>2
    <3>1. c \in 1 .. m /\ c - 1 \in Nat
      BY <1>1, <2>2
    <3>2. PICK z \in S : ~(z > c)
      BY <1>2, <3>1
    <3>3. A \subseteq 1 .. (c - 1)
      BY <3>1, <3>2
    <3> QED
      BY <1>3, <3>1, <3>3
  <2> QED
    BY <2>1, <2>2
<1>6. c + 1 \in S
  <2> SUFFICES ASSUME c + 1 \notin S
               PROVE  FALSE
    OBVIOUS
  <2>1. \A x \in S : x > c + 1
    BY <1>1, <1>5
  <2>2. PICK x \in S : x > c + 1
    BY <2>1
  <2>3. c + 1 \in 1 .. m /\ c + 1 \in Nat
    BY <1>1, <2>2
  <2>4. 1 .. (c + 1) \subseteq A
    BY <2>1, <2>3
  <2> QED
    BY <1>1, <1>4, <2>3, <2>4
<1>7. \A x \in S : c + 1 <= x
  BY <1>1, <1>5
<1> QED
  BY <1>6, <1>7 DEF Canary!Least

LEMMA CanaryReadsDetail ==
    ASSUME CanaryInv, Canary!ReadDetail
    PROVE  CanaryInv'
<1> USE DEF CanaryInv, CanaryTypes
<1> DEFINE i == Canary!Least(todo)
<1>1. /\ pcCanary = "detail" /\ left' = left - 1
      /\ UNCHANGED <<runs, site, coming, meta, http, asOf, reserve, boundary, place, terminal, closing,
                     stage, triesCanary, seenCanary>>
  BY DEF Canary!ReadDetail, Canary!serviceVars, Canary!proofVars
<1>2. /\ whyCanary = "none" /\ Snapshot(entries) /\ todo # {} /\ todo \subseteq 1 .. Len(entries)
      /\ stage = Canary!Final => Len(entries) = Len(runs)
  BY <1>1 DEF CanaryPhases, ReadingHistory
<1>3. i \in todo /\ Len(entries) \in Nat /\ Len(runs) \in Nat /\ entries \in Seq(RunShape)
  <2>1. Len(entries) \in Nat /\ Len(runs) \in Nat /\ entries \in Seq(RunShape)
    BY <1>2 DEF Snapshot
  <2> QED
    BY <1>2, <2>1, LeastThere
<1> HIDE DEF i
<1>4. Due \in Nat /\ Due # 0 /\ Cardinality(todo \ {i}) = Due - 1 /\ left \in Nat /\ left >= Due
  <2>1. Due \in Nat /\ Due # 0
    BY <1>2, <1>3, DueCounts DEF Due
  <2>2. Cardinality(todo \ {i}) = Due - 1
    BY <1>2, <1>3, DueCounts DEF Due
  <2>3. left \in Nat /\ left >= Due
    BY CanaryConstants DEF Budget
  <2> QED
    BY <2>1, <2>2, <2>3
<1>5. ASSUME NEW reason \in {"error", "conflict"}, Canary!Fail(reason)
      PROVE  CanaryInv'
  <2>1. (Canary!BudgetRefusal)'
    BY <1>5 DEF Canary!BudgetRefusal, Canary!Fail
  <2>2. left' \in 0 .. left
    BY <1>1, <1>4
  <2>3. /\ stage = Canary!Before => triesCanary' \in 0 .. MaxBoundary
        /\ stage # Canary!Before => triesCanary' \in 0 .. MaxPolls /\ triesCanary' >= triesCanary
    <3>1. stage = Canary!Before => triesCanary \in 0 .. MaxBoundary
      BY DEF Opening
    <3>2. stage # Canary!Before => triesCanary \in 0 .. MaxPolls
      BY DEF Behind
    <3> QED
      BY <1>1, <3>1, <3>2
  <2>4. meta' \in BOOLEAN /\ http' \in {200, 404} /\ meta' = meta /\ http' = http
    BY <1>1
  <2> QED
    BY <1>1, <1>5, <2>1, <2>2, <2>3, <2>4, CanaryFails
<1>6. CASE /\ entries' = [entries EXCEPT ![i] = runs[i]]
           /\ todo' = todo \ {i} /\ told' = told \ {i}
           /\ pcCanary' = (IF todo' = {} THEN "judge" ELSE "detail")
           /\ UNCHANGED whyCanary
  <2>1. i \in 1 .. Len(entries) /\ i \in 1 .. Len(runs) /\ runs[i] \in RunShape
    BY <1>2, <1>3 DEF Snapshot
  <2>2. entries' \in Seq(RunShape) /\ Len(entries') = Len(entries)
    BY <1>3, <1>6, <2>1, ExceptSeq
  <2>3. \A k \in 1 .. Len(entries) : entries'[k] = IF k = i THEN runs[i] ELSE entries[k]
    BY <1>3, <1>6, <2>1, ExceptSeq
  <2>4. Snapshot(entries)'
    <3>1. Serial(entries)
      BY <1>2 DEF Snapshot
    <3>2. runs[i].status = "Running" => i = Len(entries)
      BY <1>1, <1>2, <1>3, <2>1 DEF Snapshot, Serial
    <3>3. Serial(entries')
      BY <1>3, <2>1, <2>2, <2>3, <3>1, <3>2 DEF Serial
    <3>4. \A k \in 1 .. Len(entries) : /\ entries'[k].who = runs[k].who
                                       /\ entries'[k] = runs[k] \/ entries'[k].status = "Running"
      BY <1>2, <1>3, <2>1, <2>3 DEF Snapshot
    <3> QED
      BY <1>1, <1>2, <1>3, <2>2, <3>3, <3>4 DEF Snapshot
  <2>5. CanaryTypes'
    <3>1. left' \in 0 .. Canary!MaxDetails
      BY <1>1, <1>4, CanaryConstants
    <3>2. todo' \in SUBSET (1 .. MaxRuns) /\ told' \subseteq todo'
      BY <1>6
    <3>3. pcCanary' \in {"judge", "detail"} /\ UNCHANGED whyCanary
      BY <1>6
    <3> QED
      BY <1>1, <3>1, <3>2, <3>3
  <2>6. CanaryPhases'
    BY <1>1, <1>2, <1>6 DEF CanaryPhases
  <2>7. Opening'
    <3>1. stage = Canary!Before => /\ Untriggered' /\ boundary' = <<>> /\ reserve' = 0 /\ ToldUpTo(seenCanary', 7, TRUE)
                                   /\ terminal' = <<>> /\ place' = 0 /\ triesCanary' \in 0 .. MaxBoundary
      BY <1>1, <1>2 DEF Opening, Untriggered, Nobody
    <3>2. stage = Canary!Before => /\ asOf' \subseteq 1 .. Len(runs') /\ (~meta' => asOf' = {})
                                   /\ asOf' \subseteq 1 .. Len(entries')
      BY <1>1, <2>2 DEF Opening
    <3>3. stage = Canary!Before /\ http' = 404 => entries' = <<>>
      BY <1>1, <1>3, <2>1, <2>2 DEF Opening
    <3> QED
      BY <1>1, <1>6, <3>1, <3>2, <3>3 DEF Opening
  <2>8. ReadingHistory'
    BY <1>1, <1>2, <1>6, <2>2, <2>4 DEF ReadingHistory
  <2>9. Behind'
    <3>1. Snapshot(boundary) => Snapshot(boundary)'
      BY <1>1 DEF Snapshot
    <3>2. Found => Found'
      BY <1>1 DEF Found
    <3> QED
      BY <1>1, <3>1, <3>2 DEF Behind
  <2>10. Budget'
    <3>1. Due' = Due - 1
      BY <1>4, <1>6 DEF Due
    <3>2. left' - Due' = left - Due
      BY <1>1, <1>4, <3>1
    <3> QED
      BY <1>1, <1>4, <1>6, <2>2, <3>1, <3>2 DEF Budget
  <2>11. Census' /\ OneToken' /\ (Canary!FailureTruth)' /\ (Canary!BudgetRefusal)'
    BY <1>1, <1>2, <1>6
       DEF Census, OneToken, Untriggered, Pending, Begun, Nobody, Canary!FailureTruth, Canary!BudgetRefusal
  <2>12. Story'
    <3>1. Pending => Pending'
      BY <1>1 DEF Pending, Nobody
    <3>2. Polling'
      BY <1>1, <1>3, <1>6, <3>1, PollingGrows DEF Story
    <3>3. Telling'
      BY <1>1, <1>6 DEF Story, Telling
    <3> QED
      BY <3>2, <3>3 DEF Story
  <2> QED
    BY <2>5, <2>6, <2>7, <2>8, <2>9, <2>10, <2>11, <2>12
<1> QED
  BY <1>5, <1>6 DEF Canary!ReadDetail, i

LEMMA CanaryJudgesBoundary ==
    ASSUME CanaryInv, Canary!JudgeBoundary
    PROVE  CanaryInv'
<1> USE DEF CanaryInv, CanaryTypes
<1>1. /\ pcCanary = "judge" /\ stage = Canary!Before /\ stage # Canary!Final /\ stage # Canary!Poll
      /\ UNCHANGED <<runs, site, coming, meta, http, asOf, left, place, terminal, closing>>
  BY DEF Canary!JudgeBoundary, Canary!serviceVars, Canary!Before, Canary!Final, Canary!Poll
<1>2. /\ whyCanary = "none" /\ Snapshot(entries) /\ todo = {} /\ told = {} /\ Due = 0
  <2>1. whyCanary = "none" /\ Snapshot(entries) /\ todo = {}
    BY <1>1 DEF CanaryPhases, ReadingHistory
  <2>2. Due = 0
    BY <2>1, FS_EmptySet DEF Due
  <2> QED
    BY <2>1, <2>2
<1>3. /\ Len(entries) \in Nat /\ Len(runs) \in Nat /\ Len(entries) <= Len(runs) /\ left \in Nat
      /\ PerCensus \in Nat /\ entries \in Seq(RunShape) /\ MaxPolls \in Nat /\ MaxBoundary \in Nat
      /\ left >= PerCensus * MaxPolls + 2 * PerCensus - Len(entries)
      /\ PerCensus * MaxPolls \in Nat /\ PerCensus * MaxPolls >= PerCensus
  <2>1. Len(entries) \in Nat /\ Len(runs) \in Nat /\ Len(entries) <= Len(runs) /\ entries \in Seq(RunShape)
    BY <1>2 DEF Snapshot
  <2>2. left \in Nat /\ PerCensus \in Nat /\ MaxPolls \in Nat /\ MaxBoundary \in Nat
    BY CanaryConstants
  <2>3. left >= Canary!MaxDetails - Len(entries)
    BY <1>1, <1>2, <2>1, <2>2, CanaryConstants DEF Budget
  <2>4. PerCensus * MaxPolls \in Nat /\ PerCensus * MaxPolls >= PerCensus
    BY <2>2, CanaryConstants
  <2> QED
    BY <2>1, <2>2, <2>3, <2>4, CanaryConstants
<1>4. /\ Untriggered /\ terminal = <<>> /\ place = 0 /\ triesCanary \in 0 .. MaxBoundary
      /\ asOf \subseteq 1 .. Len(entries) /\ (http = 404 => entries = <<>>) /\ ToldUpTo(seenCanary, 7, TRUE)
  BY <1>1, <1>2 DEF Opening
<1>5. ASSUME NEW reason \in {"error", "budget"}, Canary!Fail(reason), triesCanary' = triesCanary,
             UNCHANGED <<stage, reserve, boundary>>,
             reason = "budget" => Len(runs) + 1 > PerCensus
      PROVE  CanaryInv'
  <2>1. (Canary!BudgetRefusal)'
    <3>1. whyCanary' = reason /\ runs' = runs /\ stage' = Canary!Before
      BY <1>1, <1>5 DEF Canary!Fail
    <3>2. whyCanary' = "budget" => Len(runs') + 1 > PerCensus
      BY <1>5, <3>1
    <3> QED
      BY <3>1, <3>2 DEF Canary!BudgetRefusal, Canary!Before, Canary!Poll, Canary!Final
  <2>2. left' \in 0 .. left /\ triesCanary' \in 0 .. MaxBoundary
    BY <1>1, <1>3, <1>4, <1>5
  <2>3. meta' \in BOOLEAN /\ http' \in {200, 404}
    BY <1>1
  <2> QED
    BY <1>1, <1>5, <2>1, <2>2, <2>3, CanaryFails
<1>6. CASE left < 2 * Canary!Reserve /\ Canary!Fail("budget") /\ UNCHANGED <<reserve, boundary, stage, triesCanary>>
  <2>1. Len(runs) + 1 > PerCensus
    BY <1>3, <1>6 DEF Canary!Reserve
  <2> QED
    BY <1>5, <1>6, <2>1
<1>7. CASE /\ (entries # <<>>) = meta /\ left >= 2 * Canary!Reserve
           /\ reserve' = Canary!Reserve /\ boundary' = entries
           /\ stage' = Canary!Poll /\ triesCanary' = 0 /\ seenCanary' = seenCanary \o <<"job", "boundary">>
           /\ pcCanary' = "trigger" /\ Canary!Forget /\ UNCHANGED whyCanary
  <2>0. /\ stage' # Canary!Before /\ stage' # Canary!Final /\ entries' = <<>> /\ todo' = {} /\ told' = {}
        /\ stage' \in {Canary!Before, Canary!Poll, Canary!Final}
    BY <1>7 DEF Canary!Before, Canary!Poll, Canary!Final, Canary!Forget
  <2>1. CanaryTypes'
    BY <1>1, <1>7, <2>0
  <2>2. CanaryPhases'
    BY <1>1, <1>2, <1>4, <1>7, <2>0 DEF CanaryPhases
  <2>3. Untriggered' /\ OneToken'
    BY <1>1, <1>4 DEF Untriggered, Nobody, OneToken
  <2>4. ToldUpTo(seenCanary', 9, TRUE)
    <3> DEFINE t == <<"job", "boundary">>
    <3>1. t \in Seq(Words) /\ Len(t) = 2 /\ \A k \in 1 .. Len(t) : t[k] = Tale(TRUE)[7 + k]
      BY SMTT(60) DEF Words, Tale
    <3>2. 7 \in Nat
      OBVIOUS
    <3> HIDE DEF t
    <3>3. ToldUpTo(seenCanary \o t, 7 + Len(t), TRUE)
      BY ONLY <1>4, <3>1, <3>2, TellMore, Zenon
    <3>4. 7 + Len(t) = 9
      BY <3>1
    <3> QED
      BY <1>7, <3>3, <3>4 DEF t
  <2>5. Opening'
    BY <1>1, <1>4, <1>7, <2>0, <2>3, <2>4 DEF Opening
  <2>6. ReadingHistory'
    BY <1>7, <2>0 DEF ReadingHistory
  <2>7. Behind'
    <3>1. Snapshot(boundary)'
      BY <1>1, <1>2, <1>7 DEF Snapshot
    <3>2. reserve' = Len(boundary') + 1 /\ meta' = (boundary' # <<>>) /\ (http' = 404 => boundary' = <<>>)
      BY <1>1, <1>4, <1>7 DEF Canary!Reserve
    <3>3. place' = 0 /\ triesCanary' \in 0 .. MaxPolls /\ terminal' = <<>> /\ pcCanary' = "trigger"
      BY <1>1, <1>3, <1>4, <1>7
    <3> QED
      BY <3>1, <3>2, <3>3 DEF Behind
  <2>8. Budget'
    <3>1. Due' = 0
      BY <2>0, FS_EmptySet DEF Due
    <3>2. reserve' = Len(entries) + 1 /\ left' = left /\ left' >= reserve' /\ Len(boundary') = Len(entries)
      BY <1>1, <1>3, <1>7 DEF Canary!Reserve
    <3>3. Len(boundary') + 1 <= PerCensus => left' - reserve' >= PerCensus * MaxPolls
      BY <1>3, <3>2
    <3>4. MaxPolls - triesCanary' = MaxPolls
      BY <1>3, <1>7
    <3>5. Len(runs') <= PerCensus /\ Len(boundary') + 1 <= PerCensus =>
            left' - Due' - reserve' >= PerCensus * (MaxPolls - triesCanary')
      BY <1>3, <3>1, <3>2, <3>3, <3>4
    <3> QED
      BY <1>3, <1>7, <2>0, <3>1, <3>2, <3>5 DEF Budget
  <2>9. Census' /\ Story' /\ (Canary!FailureTruth)' /\ (Canary!BudgetRefusal)'
    BY <1>2, <1>7, <2>0, <1>1, <1>4
       DEF Census, Story, Polling, Telling, Canary!FailureTruth, Canary!BudgetRefusal
  <2> QED
    BY <2>1, <2>2, <2>3, <2>5, <2>6, <2>7, <2>8, <2>9
<1>8. CASE (entries # <<>>) # meta /\ Canary!Fail("error") /\ UNCHANGED <<reserve, boundary, stage, triesCanary>>
  BY <1>5, <1>8
<1> QED
  BY <1>6, <1>7, <1>8 DEF Canary!JudgeBoundary

LEMMA CanaryTriggers ==
    ASSUME CanaryInv, Canary!Trigger
    PROVE  CanaryInv'
<1> USE DEF CanaryInv, CanaryTypes
<1>1. /\ pcCanary = "trigger"
      /\ UNCHANGED <<site, meta, http, asOf, left, reserve, boundary, terminal, closing, stage, triesCanary>>
  BY DEF Canary!Trigger, Canary!budgetVars
<1>2. /\ stage = Canary!Poll /\ stage # Canary!Before /\ stage # Canary!Final /\ whyCanary = "none"
      /\ terminal = <<>> /\ todo = {} /\ told = {} /\ Untriggered /\ place = 0 /\ triesCanary = 0
      /\ ToldUpTo(seenCanary, 9, TRUE)
  <2>1. stage = Canary!Poll /\ whyCanary = "none" /\ todo = {}
    BY <1>1 DEF CanaryPhases, ReadingHistory
  <2>2. Untriggered /\ place = 0 /\ triesCanary = 0 /\ ToldUpTo(seenCanary, 9, TRUE) /\ terminal = <<>>
    BY <1>1 DEF Opening
  <2> QED
    BY <2>1, <2>2 DEF Canary!Before, Canary!Poll, Canary!Final
<1>3. triesCanary \in 0 .. MaxPolls /\ MaxPolls \in Nat /\ left \in Nat
  BY <1>1, <1>2, CanaryConstants DEF Behind
<1>4. CASE UNCHANGED <<runs, coming, seenCanary, place>> /\ Canary!Fail("error")
  <2>1. (Canary!BudgetRefusal)'
    BY <1>4 DEF Canary!BudgetRefusal, Canary!Fail
  <2>2. left' \in 0 .. left /\ triesCanary' \in 0 .. MaxPolls /\ triesCanary' >= triesCanary
    BY <1>1, <1>3
  <2>3. meta' \in BOOLEAN /\ http' \in {200, 404} /\ meta' = meta /\ http' = http
    BY <1>1
  <2> QED
    BY <1>1, <1>2, <1>4, <2>1, <2>2, <2>3, CanaryFails
<1>5. CASE /\ Canary!Arrives
           /\ \/ place' \in Canary!Places /\ pcCanary' = "list" /\ Canary!Forget /\ UNCHANGED whyCanary
              \/ UNCHANGED place /\ Canary!Fail("error")
  <2>0. /\ entries' = <<>> /\ todo' = {} /\ told' = {} /\ Len(boundary) \in Nat
        /\ pcCanary' \in {"list", "stop"} /\ whyCanary' \in {"none", "error"}
        /\ pcCanary' = "list" <=> whyCanary' = "none"
        /\ place' \in {0, Len(boundary) + 1, Len(boundary) + 2}
    <3>1. Len(boundary) \in Nat
      BY <1>2 DEF Behind, Snapshot
    <3> QED
      BY <1>2, <1>5, <3>1 DEF Canary!Fail, Canary!Forget, Canary!Places
  <2>1. /\ Grown /\ coming' \in {0, 1} /\ OneToken'
        /\ whyCanary' = "none" => Polling'
    <3>1. CASE /\ Canary!Idle /\ Len(runs) < MaxRuns /\ runs' = Canary!Run("ours")
               /\ seenCanary' = seenCanary \o <<"trigger", "start", "response">> /\ UNCHANGED coming
      <4>1. /\ Grown /\ Len(runs') = Len(runs) + 1
            /\ \A k \in 1 .. Len(runs) : runs'[k] = runs[k]
            /\ runs'[Len(runs')] = [who |-> "ours", status |-> "Running"]
        BY <3>1, BeginGrows
      <4>2. Len(runs) \in Nat /\ coming' = 0 /\ Nobody
        BY <1>2, <3>1 DEF Untriggered
      <4>3. OurRun(runs', Len(runs')) /\ Len(runs') \in 1 .. Len(runs')
        <5>1. \A j \in 1 .. Len(runs') : j # Len(runs') => j \in 1 .. Len(runs)
          BY <4>1, <4>2
        <5>2. Len(runs') \in 1 .. Len(runs')
          BY <4>1, <4>2
        <5> QED
          BY <4>1, <4>2, <5>1, <5>2 DEF Nobody, OurRun
      <4>4. ToldUpTo(seenCanary', 12, TRUE)
        <5> DEFINE t == <<"trigger", "start", "response">>
        <5>1. t \in Seq(Words) /\ Len(t) = 3 /\ \A k \in 1 .. Len(t) : t[k] = Tale(TRUE)[9 + k]
          BY DEF Words, Tale
        <5>2. 9 \in Nat
          OBVIOUS
        <5> HIDE DEF t
        <5>3. ToldUpTo(seenCanary \o t, 9 + Len(t), TRUE)
          BY ONLY <1>2, <5>1, <5>2, TellMore, Zenon
        <5>4. 9 + Len(t) = 12
          BY <5>1
        <5> QED
          BY <3>1, <5>3, <5>4 DEF t
      <4>5. ToldUpTo(seenCanary', IF runs'[Len(runs')].status = "Running" THEN 12 ELSE 13, TRUE)
        <5>1. (IF runs'[Len(runs')].status = "Running" THEN 12 ELSE 13) = 12
          BY <4>1
        <5> QED
          BY <4>4, <5>1
      <4>6. Polling'
        BY <4>2, <4>3, <4>5, PollingRun
      <4> QED
        BY <4>1, <4>2, <4>3, <4>6 DEF OneToken, Begun
    <3>2. CASE /\ coming' = coming + 1 /\ seenCanary' = seenCanary \o <<"trigger", "response">>
               /\ UNCHANGED runs
      <4>1. Grown /\ coming' = 1
        BY <1>2, <3>2 DEF Grown, Untriggered
      <4>2. Pending'
        BY <1>2, <3>2, <4>1 DEF Pending, Untriggered, Nobody
      <4>3. ToldUpTo(seenCanary, 9, FALSE)
        <5>1. \A k \in 1 .. 9 : Tale(TRUE)[k] = Tale(FALSE)[k]
          BY SMTT(60) DEF Tale
        <5> QED
          <6>1. seenCanary \in Seq(Words) /\ Len(seenCanary) = 9
            BY <1>2 DEF ToldUpTo, Tells
          <6>2. \A k \in 1 .. 9 : seenCanary[k] = Tale(TRUE)[k]
            BY <1>2 DEF ToldUpTo, Tells
          <6>3. \A k \in 1 .. 9 : seenCanary[k] = Tale(FALSE)[k]
            BY <6>2, SMTT(60) DEF Tale
          <6> QED
            BY <6>1, <6>3 DEF ToldUpTo, Tells
      <4>4. ToldUpTo(seenCanary', 11, FALSE)
        <5> DEFINE t == <<"trigger", "response">>
        <5>1. t \in Seq(Words) /\ Len(t) = 2 /\ \A k \in 1 .. Len(t) : t[k] = Tale(FALSE)[9 + k]
          BY SMTT(60) DEF Words, Tale
        <5>2. 9 \in Nat
          OBVIOUS
        <5> HIDE DEF t
        <5>3. ToldUpTo(seenCanary \o t, 9 + Len(t), FALSE)
          BY ONLY <4>3, <5>1, <5>2, TellMore, Zenon
        <5>4. 9 + Len(t) = 11
          BY <5>1
        <5> QED
          BY <3>2, <5>3, <5>4 DEF t
      <4> QED
        BY <4>1, <4>2, <4>4, PollingPending DEF OneToken
    <3> QED
      BY <1>5, <3>1, <3>2 DEF Canary!Arrives
  <2>2. CanaryTypes'
    BY <1>1, <2>0, <2>1 DEF Grown
  <2>3. CanaryPhases'
    BY <1>1, <1>2, <2>0 DEF CanaryPhases
  <2>4. Opening'
    BY <1>1, <1>2, <2>0 DEF Opening
  <2>5. ReadingHistory'
    BY <2>0 DEF ReadingHistory
  <2>6. Behind'
    <3>1. Snapshot(boundary)
      BY <1>2 DEF Behind
    <3>2. Snapshot(boundary)'
      BY <1>1, <2>1, <3>1, SnapshotGrows DEF Snapshot
    <3> QED
      BY <1>1, <1>2, <2>0, <3>2 DEF Behind
  <2>7. Budget'
    <3>1. Due' = 0 /\ Due = 0
      BY <1>2, <2>0, FS_EmptySet DEF Due
    <3>2. Len(runs') <= PerCensus => Len(runs) <= PerCensus
      BY <2>1, ExecutionsOK DEF Grown
    <3>3. left' = left /\ left' >= reserve' /\ 0 <= left'
      BY <1>1, <1>2, <1>3, <3>1 DEF Budget, Behind, Snapshot
    <3>4. Len(runs') <= PerCensus /\ Len(boundary') + 1 <= PerCensus =>
            left' - Due' - reserve' >= PerCensus * (MaxPolls - triesCanary')
      BY <1>1, <1>2, <3>1, <3>2 DEF Budget
    <3>5. left' - Due' >= reserve'
      BY <1>1, <1>2, <3>1 DEF Budget
    <3> QED
      BY <1>1, <1>2, <2>0, <3>1, <3>3, <3>4, <3>5 DEF Budget
  <2>8. Census' /\ (Canary!BudgetRefusal)'
    BY <1>1, <1>2, <2>0 DEF Census, Canary!BudgetRefusal
  <2>9. (Canary!FailureTruth)'
    BY <2>0 DEF Canary!FailureTruth
  <2>10. Story'
    <3>1. whyCanary' # "none" => Polling'
      BY DEF Polling
    <3>2. Telling'
      BY <1>1, <1>2, <2>0 DEF Telling
    <3> QED
      BY <2>1, <3>1, <3>2 DEF Story
  <2> QED
    BY <2>1, <2>2, <2>3, <2>4, <2>5, <2>6, <2>7, <2>8, <2>9, <2>10
<1> QED
  BY <1>4, <1>5 DEF Canary!Trigger

(* Which run is ours, if the history says so.                              *)
LEMMA CanaryJudgesPoll ==
    ASSUME CanaryInv, Canary!JudgePoll
    PROVE  CanaryInv'
<1> USE DEF CanaryInv, CanaryTypes
<1>1. /\ pcCanary = "judge" /\ stage = Canary!Poll
      /\ UNCHANGED <<runs, site, coming, meta, http, asOf, left, reserve, boundary, place, closing,
                     stage, triesCanary>>
  BY DEF Canary!JudgePoll, Canary!serviceVars, Canary!budgetVars
<1>2. /\ whyCanary = "none" /\ terminal = <<>> /\ todo = {} /\ told = {} /\ Snapshot(entries)
      /\ stage # Canary!Before /\ stage # Canary!Final /\ Due = 0
  <2>1. whyCanary = "none" /\ terminal = <<>> /\ todo = {} /\ Snapshot(entries)
    BY <1>1 DEF CanaryPhases, ReadingHistory
  <2>2. Due = 0
    BY <2>1, FS_EmptySet DEF Due
  <2> QED
    BY <1>1, <2>1, <2>2 DEF Canary!Before, Canary!Poll, Canary!Final
<1>3. /\ triesCanary \in 1 .. MaxPolls /\ MaxPolls \in Nat /\ left \in Nat
      /\ Snapshot(boundary) /\ Len(boundary) \in Nat /\ Len(entries) \in Nat /\ Len(runs) \in Nat
      /\ Len(entries) <= Len(runs) /\ reserve = Len(boundary) + 1 /\ left >= reserve
  <2>1. /\ Snapshot(boundary) /\ reserve = Len(boundary) + 1
        /\ triesCanary \in 0 .. MaxPolls /\ triesCanary >= 1
    BY <1>1, <1>2 DEF Behind
  <2>2. Len(boundary) \in Nat /\ Len(entries) \in Nat /\ Len(runs) \in Nat /\ Len(entries) <= Len(runs)
    BY <1>2, <2>1 DEF Snapshot
  <2>3. MaxPolls \in Nat /\ left \in Nat
    BY CanaryConstants
  <2>4. left >= reserve
    BY <1>1, <1>2, <2>1, <2>2, <2>3 DEF Budget
  <2> QED
    BY <2>1, <2>2, <2>3, <2>4
<1>4. ASSUME Canary!Fail("error"), UNCHANGED terminal
      PROVE  CanaryInv'
  <2>1. (Canary!BudgetRefusal)'
    BY <1>4 DEF Canary!BudgetRefusal, Canary!Fail
  <2>2. left' \in 0 .. left /\ triesCanary' \in 0 .. MaxPolls /\ triesCanary' >= triesCanary
    BY <1>1, <1>3
  <2>3. meta' \in BOOLEAN /\ http' \in {200, 404} /\ meta' = meta /\ http' = http
    BY <1>1
  <2> QED
    BY <1>1, <1>2, <1>4, <2>1, <2>2, <2>3, CanaryFails
<1>5. CASE pcCanary' = "list" /\ Canary!Forget /\ UNCHANGED <<whyCanary, terminal, seenCanary>>
  <2>0. entries' = <<>> /\ todo' = {} /\ told' = {} /\ Due' = 0
    BY <1>5, FS_EmptySet DEF Canary!Forget, Due
  <2>1. CanaryTypes' /\ CanaryPhases' /\ Opening' /\ ReadingHistory' /\ Census'
    <3>1. CanaryTypes' /\ CanaryPhases'
      BY <1>1, <1>2, <1>5, <2>0 DEF CanaryPhases
    <3>2. Opening' /\ Census'
      BY <1>1, <1>2, <1>5, <2>0 DEF Opening, Census
    <3>3. ReadingHistory'
      BY <1>1, <1>2, <1>5, <2>0 DEF ReadingHistory
    <3> QED
      BY <3>1, <3>2, <3>3
  <2>2. Behind'
    <3>1. Snapshot(boundary)'
      BY <1>1, <1>3 DEF Snapshot
    <3> QED
      BY <1>1, <1>2, <1>5, <2>0, <3>1 DEF Behind
  <2>3. Budget'
    BY <1>1, <1>2, <1>3, <1>5, <2>0 DEF Budget
  <2>4. OneToken' /\ (Canary!FailureTruth)' /\ (Canary!BudgetRefusal)'
    BY <1>1, <1>2, <1>5
       DEF OneToken, Untriggered, Pending, Begun, Nobody, Canary!FailureTruth, Canary!BudgetRefusal
  <2>5. Story'
    <3>1. Pending => Pending'
      BY <1>1 DEF Pending, Nobody
    <3>2. Polling'
      BY <1>1, <1>2, <1>3, <1>5, <3>1, PollingGrows DEF Story
    <3>3. Telling'
      BY <1>1, <1>2, <1>5 DEF Story, Telling
    <3> QED
      BY <3>2, <3>3 DEF Story
  <2> QED
    BY <2>1, <2>2, <2>3, <2>4, <2>5
<1>6. ASSUME Canary!Attributable, Canary!Ours.status # "Running", Canary!Placed
      PROVE  /\ Len(entries) = Len(boundary) + 1 /\ Len(boundary) + 1 \in 1 .. Len(runs)
             /\ Canary!Ours = runs[Len(boundary) + 1] /\ OurRun(runs, Len(boundary) + 1) /\ coming = 0
             /\ Canary!Ours \in RunShape /\ Canary!Ours.who = "ours"
             /\ \A k \in 1 .. Len(boundary) : runs[k] = boundary[k]
             /\ place \in {0, Len(boundary) + 1}
             /\ \E early \in BOOLEAN : ToldUpTo(seenCanary, 13, early)
  <2> DEFINE n == Len(boundary) + 1
  <2>1. Len(entries) = n
    <3>1. Cardinality((Len(boundary) + 1) .. Len(entries)) = 1
      BY <1>6, SameCount DEF Canary!Attributable, Canary!Fresh
    <3>2. Len(boundary) + 1 \in Int /\ Len(entries) \in Int
      BY <1>3
    <3>3. Cardinality((Len(boundary) + 1) .. Len(entries))
            = IF Len(boundary) + 1 > Len(entries) THEN 0 ELSE Len(entries) - (Len(boundary) + 1) + 1
      BY ONLY <3>2, FS_Interval, Zenon
    <3> QED
      BY <1>3, <3>1, <3>3
  <2>2. /\ entries \in Seq(RunShape) /\ boundary \in Seq(RunShape) /\ n \in 1 .. Len(entries)
        /\ n \in 1 .. Len(runs) /\ entries[n] \in RunShape
    BY <1>2, <1>3, <2>1 DEF Snapshot
  <2>3. Canary!Ours = entries[n] /\ entries[n].who = "ours" /\ entries[n].status # "Running"
    BY <1>6 DEF Canary!Ours, Canary!Attributable
  <2>4. entries[n] = runs[n]
    BY <1>2, <2>2, <2>3 DEF Snapshot
  <2>5. \A k \in 1 .. Len(boundary) : entries[k] = boundary[k]
    <3>1. SubSeq(entries, 1, Len(boundary)) = boundary
      BY <1>6 DEF Canary!Attributable, Canary!Drifted
    <3>2. Len(boundary) <= Len(entries)
      BY <1>3, <2>1
    <3>3. \A k \in 1 .. Len(boundary) : SubSeq(entries, 1, Len(boundary))[k] = entries[k]
      BY <1>3, <2>2, <3>2, SubSeqProperties
    <3> QED
      BY <3>1, <3>3
  <2>6. \A k \in 1 .. Len(boundary) : runs[k] = boundary[k]
    <3> TAKE k \in 1 .. Len(boundary)
    <3>1. k \in 1 .. Len(entries) /\ k # Len(entries)
      BY <1>3, <2>1
    <3>2. entries[k].status # "Running"
      BY <1>2, <3>1 DEF Snapshot, Serial
    <3>3. entries[k] = runs[k]
      BY <1>2, <3>1, <3>2 DEF Snapshot
    <3> QED
      BY <2>5, <3>3
  <2>7. Begun
    BY <2>2, <2>3, <2>4 DEF OneToken, Untriggered, Pending, Nobody
  <2>8. OurRun(runs, n) /\ coming = 0
    <3>1. PICK k \in 1 .. Len(runs) : OurRun(runs, k)
      BY <2>7 DEF Begun
    <3>2. k = n
      BY <2>2, <2>3, <2>4, <3>1 DEF OurRun
    <3> QED
      BY <2>7, <3>1, <3>2 DEF Begun
  <2>9. \E early \in BOOLEAN : ToldUpTo(seenCanary, 13, early)
    <3>1. ~Pending
      BY <2>8 DEF Pending
    <3>2. PICK k \in 1 .. Len(runs), early \in BOOLEAN :
            /\ coming = 0 /\ OurRun(runs, k)
            /\ ToldUpTo(seenCanary, IF runs[k].status = "Running" THEN 12 ELSE 13, early)
      BY <1>1, <1>2, <3>1, PollingKnown DEF Story
    <3>3. k = n
      BY <2>2, <2>8, <3>2 DEF OurRun
    <3>4. (IF runs[k].status = "Running" THEN 12 ELSE 13) = 13
      BY <2>3, <2>4, <3>3
    <3> QED
      BY <3>2, <3>4
  <2> QED
    BY <1>6, <2>1, <2>2, <2>3, <2>4, <2>6, <2>8, <2>9 DEF Canary!Placed
<1>7. CASE /\ Canary!Attributable /\ Canary!Ours.status = "Failed" /\ Canary!Placed
           /\ whyCanary' = "failed" /\ pcCanary' = "log" /\ Canary!Forget /\ UNCHANGED <<terminal, seenCanary>>
  <2>0. entries' = <<>> /\ todo' = {} /\ told' = {} /\ Due' = 0
    BY <1>7, FS_EmptySet DEF Canary!Forget, Due
  <2>1. CanaryTypes' /\ CanaryPhases' /\ Opening' /\ ReadingHistory' /\ Census'
    BY <1>1, <1>2, <1>7, <2>0 DEF CanaryPhases, Opening, ReadingHistory, Census
  <2>2. Behind'
    <3>1. Snapshot(boundary)'
      BY <1>1, <1>3 DEF Snapshot
    <3> QED
      BY <1>1, <1>2, <1>7, <2>0, <3>1 DEF Behind
  <2>3. Budget'
    BY <1>1, <1>2, <1>3, <1>7, <2>0 DEF Budget
  <2>4. OneToken' /\ (Canary!BudgetRefusal)' /\ Story'
    BY <1>1, <1>2, <1>7
       DEF OneToken, Untriggered, Pending, Begun, Nobody, Canary!BudgetRefusal, Story, Polling, Telling
  <2>5. (Canary!FailureTruth)'
    <3>1. /\ Len(boundary) + 1 \in DOMAIN runs' /\ runs'[Len(boundary) + 1].who = "ours"
          /\ runs'[Len(boundary) + 1].status = "Failed"
      BY <1>1, <1>6, <1>7
    <3> QED
      BY <3>1 DEF Canary!FailureTruth
  <2> QED
    BY <2>1, <2>2, <2>3, <2>4, <2>5
<1>8. CASE /\ Canary!Attributable /\ Canary!Ours.status = "Success" /\ Canary!Placed
           /\ terminal' = <<Canary!Ours>> /\ seenCanary' = Append(seenCanary, "terminal")
           /\ pcCanary' = "stop" /\ Canary!Forget /\ UNCHANGED whyCanary
  <2>0. entries' = <<>> /\ todo' = {} /\ told' = {} /\ Due' = 0 /\ terminal' # <<>>
    BY <1>8, FS_EmptySet DEF Canary!Forget, Due
  <2>1. CanaryTypes' /\ CanaryPhases' /\ Opening' /\ ReadingHistory' /\ Census'
    BY <1>1, <1>2, <1>8, <2>0, ZenonT(60) DEF CanaryPhases, Opening, ReadingHistory, Census
  <2>2. Found'
    <3>1. Canary!Ours = [who |-> "ours", status |-> "Success"]
      BY <1>6, <1>8 DEF RunShape
    <3>2. terminal' = <<[who |-> "ours", status |-> "Success"]>>
      BY <1>8, <3>1
    <3>3. runs'[Len(boundary') + 1] = terminal'[1] /\ Len(runs') >= Len(boundary') + 1 /\ coming' = 0
      BY <1>1, <1>6, <1>8
    <3>4. triesCanary' >= 1 /\ place' \in {0, Len(boundary') + 1}
      BY <1>1, <1>3, <1>6, <1>8
    <3>5. \A k \in 1 .. Len(boundary') : runs'[k] = boundary'[k]
      BY <1>1, <1>6, <1>8
    <3> QED
      BY <3>2, <3>3, <3>4, <3>5 DEF Found
  <2>3. Behind'
    <3>1. Snapshot(boundary)'
      BY <1>1, <1>3 DEF Snapshot
    <3> QED
      BY <1>1, <1>2, <1>8, <2>0, <2>2, <3>1 DEF Behind
  <2>4. Budget'
    BY <1>1, <1>2, <1>3, <1>8, <2>0 DEF Budget
  <2>5. OneToken' /\ (Canary!FailureTruth)' /\ (Canary!BudgetRefusal)'
    BY <1>1, <1>2, <1>8
       DEF OneToken, Untriggered, Pending, Begun, Nobody, Canary!FailureTruth, Canary!BudgetRefusal
  <2>6. \E early \in BOOLEAN : ToldUpTo(seenCanary', 14, early)
    <3>1. PICK early \in BOOLEAN : ToldUpTo(seenCanary, 13, early)
      BY <1>6, <1>8
    <3>2. 13 \in Nat /\ 13 + 1 = 14 /\ "terminal" \in Words /\ "terminal" = Tale(early)[13 + 1]
      BY DEF Words, Tale
    <3>3. ToldUpTo(Append(seenCanary, "terminal"), 13 + 1, early)
      BY ONLY <3>1, <3>2, TellOne, Zenon
    <3> QED
      BY <1>8, <3>2, <3>3
  <2>7. Story'
    BY <1>1, <1>2, <1>8, <2>0, <2>6 DEF Story, Polling, Telling
  <2> QED
    BY <2>1, <2>3, <2>4, <2>5, <2>7
<1> QED
  BY <1>4, <1>5, <1>7, <1>8 DEF Canary!JudgePoll

(* From the stop on nothing is written but how it ends.                    *)
LEMMA LateKeeps ==
    ASSUME CanaryInv, pcCanary \in {"log", "stop", "stopped", "judge", "close"},
           pcCanary = "judge" => stage = Canary!Final,
           UNCHANGED <<runs, coming, meta, http, entries, todo, told, left, reserve, boundary, place,
                       terminal, triesCanary>>,
           site' \in {"up", "stopping", "down"}, pcCanary' \in {"stop", "stopped", "list", "close", "done"},
           whyCanary' \in {"none", "error", "budget", "conflict", "failed", "incomplete"},
           whyCanary' = "none" => whyCanary = "none",
           whyCanary' # whyCanary => whyCanary = "none" /\ whyCanary' \in {"error", "incomplete"},
           \/ stage' = stage
           \/ pcCanary = "stopped" /\ stage' = Canary!Final /\ whyCanary' = "none" /\ pcCanary' = "list",
           pcCanary' = "list" => stage' = Canary!Final /\ site' = "down"
    PROVE  /\ CanaryTypes' /\ Opening' /\ ReadingHistory' /\ Behind' /\ OneToken' /\ Polling'
           /\ (Canary!FailureTruth)' /\ (Canary!BudgetRefusal)' /\ Due' = 0 /\ left' >= 0 /\ todo = {}
<1> USE DEF CanaryInv, CanaryTypes
<1>1. todo = {} /\ told = {} /\ Due' = 0 /\ left' \in Nat
  <2>1. todo = {}
    BY DEF ReadingHistory
  <2> QED
    BY <2>1, FS_EmptySet, CanaryConstants DEF Due
<1>2. (stage' = Canary!Before <=> stage = Canary!Before) /\ stage' \in {Canary!Before, Canary!Poll, Canary!Final}
  BY DEF CanaryPhases, Canary!Before, Canary!Poll, Canary!Final
<1>3. CanaryTypes'
  BY <1>1, <1>2
<1>4. stage = Canary!Before => whyCanary # "none" /\ whyCanary' # "none" /\ pcCanary' # "list"
  BY DEF CanaryPhases, Canary!Before, Canary!Poll, Canary!Final
<1>5. Opening'
  <2>1. stage = Canary!Before => /\ Untriggered' /\ boundary' = <<>> /\ reserve' = 0 /\ terminal' = <<>>
                                 /\ place' = 0 /\ triesCanary' \in 0 .. MaxBoundary
    BY DEF Opening, Untriggered, Nobody
  <2> QED
    BY <1>2, <1>4, <2>1 DEF Opening
<1>6. ReadingHistory'
  BY <1>1 DEF ReadingHistory
<1>7. Behind'
  <2>1. Snapshot(boundary) => Snapshot(boundary)'
    BY DEF Snapshot
  <2>2. Found => Found'
    BY DEF Found
  <2> QED
    BY <1>2, <2>1, <2>2 DEF Behind
<1>8. OneToken'
  BY DEF OneToken, Untriggered, Pending, Begun, Nobody
<1>9. Polling'
  <2> SUFFICES ASSUME whyCanary' = "none", stage' # Canary!Before, terminal' = <<>>
               PROVE  FALSE
    BY DEF Polling
  <2> QED
    BY <1>2 DEF CanaryPhases
<1>10. (Canary!FailureTruth)'
  BY DEF Canary!FailureTruth
<1>11. (Canary!BudgetRefusal)'
  <2>1. CASE stage' = stage
    BY <2>1 DEF Canary!BudgetRefusal
  <2>2. CASE whyCanary' # "budget"
    BY <2>2 DEF Canary!BudgetRefusal
  <2> QED
    BY <2>1, <2>2
<1> QED
  BY <1>1, <1>3, <1>5, <1>6, <1>7, <1>8, <1>9, <1>10, <1>11

LEMMA CanaryProbesLog ==
    ASSUME CanaryInv, Canary!ProbeLog
    PROVE  CanaryInv'
<1>1. /\ pcCanary = "log" /\ pcCanary' = "stop" /\ whyCanary = "failed"
      /\ UNCHANGED <<runs, site, coming, meta, http, entries, todo, told, asOf, left, reserve, boundary,
                     place, terminal, closing, stage, triesCanary, whyCanary, seenCanary>>
  BY DEF Canary!ProbeLog, Canary!serviceVars, Canary!readVars, Canary!budgetVars, Canary!proofVars,
         CanaryInv, CanaryPhases
<1>2. CanaryTypes /\ stage = Canary!Poll /\ stage # Canary!Final
  BY <1>1 DEF CanaryInv, CanaryPhases, Canary!Poll, Canary!Final
<1>3. /\ CanaryTypes' /\ Opening' /\ ReadingHistory' /\ Behind' /\ OneToken' /\ Polling'
      /\ (Canary!FailureTruth)' /\ (Canary!BudgetRefusal)' /\ Due' = 0 /\ left' >= 0 /\ todo = {}
  BY <1>1, <1>2, LateKeeps DEF CanaryTypes
<1>4. CanaryPhases' /\ Budget' /\ Census' /\ Story'
  BY <1>1, <1>2, <1>3 DEF CanaryPhases, Budget, Census, Story, Telling
<1> QED
  BY <1>3, <1>4 DEF CanaryInv

LEMMA CanaryStops ==
    ASSUME CanaryInv, Canary!StopSite
    PROVE  CanaryInv'
<1>1. /\ pcCanary = "stop" /\ pcCanary' = (IF whyCanary' = "none" THEN "stopped" ELSE "close")
      /\ \/ site' = "stopping" /\ UNCHANGED whyCanary
         \/ site' \in {site, "stopping"} /\ whyCanary' = (IF whyCanary = "none" THEN "error" ELSE whyCanary)
      /\ UNCHANGED <<runs, coming, meta, http, entries, todo, told, asOf, left, reserve, boundary,
                     place, terminal, closing, stage, triesCanary, seenCanary>>
  BY DEF Canary!StopSite, Canary!readVars, Canary!budgetVars, Canary!proofVars
<1>2. /\ CanaryTypes /\ CanaryPhases /\ Budget /\ Telling /\ stage # Canary!Final /\ stage' = stage
      /\ whyCanary = "none" => stage = Canary!Poll /\ terminal # <<>>
  BY <1>1 DEF CanaryInv, CanaryPhases, Story
<1>3. /\ site' \in {"up", "stopping", "down"} /\ pcCanary' \in {"stopped", "close"}
      /\ whyCanary' \in {"none", "error", "budget", "conflict", "failed", "incomplete"}
      /\ whyCanary' = "none" => whyCanary = "none"
      /\ whyCanary' # whyCanary => whyCanary = "none" /\ whyCanary' = "error"
  BY <1>1, <1>2 DEF CanaryTypes
<1>4. /\ CanaryTypes' /\ Opening' /\ ReadingHistory' /\ Behind' /\ OneToken' /\ Polling'
      /\ (Canary!FailureTruth)' /\ (Canary!BudgetRefusal)' /\ Due' = 0 /\ left' >= 0 /\ todo = {}
  BY <1>1, <1>2, <1>3, LateKeeps
<1>5. CanaryPhases' /\ Budget' /\ Census' /\ Telling'
  BY <1>1, <1>2, <1>3, <1>4 DEF CanaryPhases, Budget, Census, Telling
<1> QED
  BY <1>4, <1>5 DEF CanaryInv, Story

LEMMA CanaryAwaitsStop ==
    ASSUME CanaryInv, Canary!AwaitStopped
    PROVE  CanaryInv'
<1>1. /\ pcCanary = "stopped"
      /\ \/ /\ site = "down" /\ stage' = Canary!Final /\ pcCanary' = "list" /\ UNCHANGED whyCanary
            /\ seenCanary' = Append(seenCanary, "preStop")
         \/ whyCanary' = "error" /\ pcCanary' = "close" /\ UNCHANGED <<stage, seenCanary>>
      /\ UNCHANGED <<runs, site, coming, meta, http, entries, todo, told, asOf, left, reserve, boundary,
                     place, terminal, closing, triesCanary>>
  BY DEF Canary!AwaitStopped, Canary!serviceVars, Canary!readVars, Canary!budgetVars, Canary!proofVars
<1>2. /\ CanaryTypes /\ CanaryPhases /\ Budget /\ Telling /\ stage = Canary!Poll /\ terminal # <<>>
      /\ whyCanary = "none" /\ Canary!Poll # Canary!Final /\ Canary!Poll # Canary!Before
      /\ Canary!Final # Canary!Before
  BY <1>1 DEF CanaryInv, CanaryPhases, Story, Canary!Before, Canary!Poll, Canary!Final
<1>3. /\ CanaryTypes' /\ Opening' /\ ReadingHistory' /\ Behind' /\ OneToken' /\ Polling'
      /\ (Canary!FailureTruth)' /\ (Canary!BudgetRefusal)' /\ Due' = 0 /\ left' >= 0 /\ todo = {}
  BY <1>1, <1>2, LateKeeps DEF CanaryTypes
<1>4. CanaryPhases' /\ Budget' /\ Census'
  BY <1>1, <1>2, <1>3 DEF CanaryPhases, Budget, Census, CanaryTypes
<1>5. Telling'
  <2>1. PICK early \in BOOLEAN : ToldUpTo(seenCanary, 14, early)
    BY <1>2 DEF Telling
  <2>2. 14 \in Nat /\ 14 + 1 = 15 /\ "preStop" \in Words /\ "preStop" = Tale(early)[14 + 1]
    BY DEF Words, Tale
  <2>3. ToldUpTo(Append(seenCanary, "preStop"), 14 + 1, early)
    BY ONLY <2>1, <2>2, TellOne, Zenon
  <2> QED
    BY <1>1, <1>2, <2>2, <2>3 DEF Telling
<1> QED
  BY <1>3, <1>4, <1>5 DEF CanaryInv, Story

LEMMA CanaryJudgesFinal ==
    ASSUME CanaryInv, Canary!JudgeFinal
    PROVE  CanaryInv'
<1>1. /\ pcCanary = "judge" /\ stage = Canary!Final /\ pcCanary' = "close"
      /\ \/ entries = boundary \o terminal /\ UNCHANGED whyCanary /\ seenCanary' = Append(seenCanary, "census")
         \/ whyCanary' = "error" /\ UNCHANGED seenCanary
      /\ UNCHANGED <<runs, site, coming, meta, http, entries, todo, told, asOf, left, reserve, boundary,
                     place, terminal, closing, stage, triesCanary>>
  BY DEF Canary!JudgeFinal, Canary!serviceVars, Canary!readVars, Canary!budgetVars, Canary!proofVars
<1>2. /\ CanaryTypes /\ CanaryPhases /\ Budget /\ Telling /\ Census /\ terminal # <<>>
      /\ whyCanary = "none" /\ Canary!Poll # Canary!Final /\ Canary!Final # Canary!Before
  BY <1>1 DEF CanaryInv, CanaryPhases, Story, Canary!Before, Canary!Poll, Canary!Final
<1>3. /\ CanaryTypes' /\ Opening' /\ ReadingHistory' /\ Behind' /\ OneToken' /\ Polling'
      /\ (Canary!FailureTruth)' /\ (Canary!BudgetRefusal)' /\ Due' = 0 /\ left' >= 0 /\ todo = {}
  BY <1>1, <1>2, LateKeeps DEF CanaryTypes
<1>4. CanaryPhases' /\ Budget'
  BY <1>1, <1>2, <1>3 DEF CanaryPhases, Budget
<1>5. Census'
  <2>1. site = "down" /\ Len(entries) = Len(runs)
    BY <1>1 DEF CanaryInv, Census, ReadingHistory
  <2>2. Found /\ boundary \in Seq(RunShape)
    BY <1>1, <1>2 DEF CanaryInv, Behind, Snapshot
  <2>3. terminal \in Seq(RunShape) /\ Len(terminal) = 1
    BY <2>2 DEF Found, RunShape
  <2>4. Len(boundary \o terminal) = Len(boundary) + 1
    <3>1. Len(boundary \o terminal) = Len(boundary) + Len(terminal)
      BY <2>2, <2>3, ConcatProperties
    <3> QED
      BY <2>2, <2>3, <3>1
  <2> QED
    BY <1>1, <2>1, <2>4 DEF Census
<1>6. Telling'
  <2>1. PICK early \in BOOLEAN : ToldUpTo(seenCanary, 15, early)
    BY <1>1, <1>2 DEF Telling
  <2>2. 15 \in Nat /\ 15 + 1 = 16 /\ "census" \in Words /\ "census" = Tale(early)[15 + 1]
    BY DEF Words, Tale
  <2>3. ToldUpTo(Append(seenCanary, "census"), 15 + 1, early)
    BY ONLY <2>1, <2>2, TellOne, Zenon
  <2> QED
    BY <1>1, <1>2, <2>2, <2>3 DEF Telling
<1> QED
  BY <1>3, <1>4, <1>5, <1>6 DEF CanaryInv, Story

LEMMA CanaryCloses ==
    ASSUME CanaryInv, Canary!Close
    PROVE  CanaryInv'
<1>1. /\ pcCanary = "close" /\ pcCanary' = "done"
      /\ UNCHANGED <<runs, coming, meta, http, entries, todo, told, asOf, left, reserve, boundary,
                     place, terminal, stage, triesCanary>>
  BY DEF Canary!Close, Canary!readVars, Canary!budgetVars
<1>2. CanaryTypes /\ CanaryPhases /\ Budget /\ Telling /\ Census
  BY DEF CanaryInv, Story
<1>3. /\ site' \in {"up", "stopping", "down"}
      /\ whyCanary' \in {"none", "error", "budget", "conflict", "failed", "incomplete"}
      /\ whyCanary' = "none" => whyCanary = "none"
      /\ whyCanary' # whyCanary => whyCanary = "none" /\ whyCanary' \in {"error", "incomplete"}
  BY <1>2 DEF Canary!Close, CanaryTypes
<1>4. /\ CanaryTypes' /\ Opening' /\ ReadingHistory' /\ Behind' /\ OneToken' /\ Polling'
      /\ (Canary!FailureTruth)' /\ (Canary!BudgetRefusal)' /\ Due' = 0 /\ left' >= 0 /\ todo = {}
  BY <1>1, <1>3, LateKeeps
<1>5. CanaryPhases' /\ Budget'
  BY <1>1, <1>2, <1>3, <1>4 DEF CanaryPhases, Budget
<1>6. CASE whyCanary' # "none"
  <2>1. Census' /\ Telling'
    BY <1>1, <1>6 DEF Census, Telling
  <2> QED
    BY <1>4, <1>5, <2>1 DEF CanaryInv, Story
<1>7. CASE whyCanary' = "none"
  <2>1. PICK op \in {"sync", "async"} :
          /\ closing' = [op |-> op, again |-> site # "down"] /\ site' = "down"
          /\ seenCanary' = seenCanary \o <<"scmRestored">>
                             \o (IF op = "async" THEN <<"netOperation">> ELSE <<>>)
                             \o <<"netRestored", "stopped">>
    <3>1. whyCanary = "none"
      BY <1>3, <1>7
    <3>2. PICK op \in {"none", "sync", "async"} :
            /\ closing' = [op |-> op, again |-> site # "down"] /\ site' = "down" /\ op # "none"
            /\ seenCanary' = seenCanary \o <<"scmRestored">>
                               \o (IF closing'.op = "async" THEN <<"netOperation">> ELSE <<>>)
                               \o <<"netRestored", "stopped">>
      BY <1>7, <3>1, Zenon DEF Canary!Close
    <3>3. closing'.op = op
      BY <3>2
    <3> QED
      BY <3>2, <3>3
  <2>2. closing'.op = op
    BY <2>1
  <2>3. Census'
    BY <1>1, <1>2, <1>3, <1>7, <2>1 DEF Census
  <2>4. PICK early \in BOOLEAN : ToldUpTo(seenCanary, 16, early)
    BY <1>1, <1>2, <1>3, <1>7 DEF Telling
  <2> DEFINE a == <<"scmRestored">>
             b == <<"netOperation">>
             c == <<"netRestored", "stopped">>
  <2>5. a \in Seq(Words) /\ b \in Seq(Words) /\ c \in Seq(Words) /\ Len(a) = 1 /\ Len(b) = 1 /\ Len(c) = 2
    BY DEF Words
  <2>6. ASSUME op = "sync"
        PROVE  ToldAll(seenCanary', closing'.op)
    <3>1. seenCanary' = ((seenCanary \o a) \o <<>>) \o c
      BY <2>1, <2>6
    <3>2. 16 \in Nat /\ 17 \in Nat /\ 16 + 1 = 17 /\ 17 + 2 = 19
      OBVIOUS
    <3>3. /\ \A k \in 1 .. Len(a) : a[k] = Tale(early)[16 + k]
          /\ \A k \in 1 .. Len(c) : c[k] = Tale(early)[17 + k]
      BY DEF Tale
    <3> HIDE DEF a, c
    <3>4. ToldUpTo(seenCanary \o a, 16 + Len(a), early)
      BY ONLY <2>4, <2>5, <3>2, <3>3, TellMore, Zenon
    <3>5. ToldUpTo(seenCanary \o a, 17, early)
      BY <2>5, <3>2, <3>4
    <3>6. (seenCanary \o a) \o <<>> = seenCanary \o a
      BY <3>5, ConcatEmptySeq DEF ToldUpTo, Tells
    <3>7. ToldUpTo((seenCanary \o a) \o c, 17 + Len(c), early)
      BY ONLY <2>5, <3>2, <3>3, <3>5, TellMore, Zenon
    <3>8. ToldUpTo(seenCanary', 19, early)
      BY <2>5, <3>1, <3>2, <3>6, <3>7
    <3> QED
      BY <2>2, <2>6, <3>8 DEF ToldAll
  <2>7. ASSUME op = "async"
        PROVE  ToldAll(seenCanary', closing'.op)
    <3>1. seenCanary' = ((seenCanary \o a) \o b) \o c
      BY <2>1, <2>7
    <3>2. 16 \in Nat /\ 17 \in Nat /\ 18 \in Nat /\ 16 + 1 = 17 /\ 17 + 1 = 18 /\ 18 + 2 = 20
      OBVIOUS
    <3>3. /\ \A k \in 1 .. Len(a) : a[k] = TaleAsync(early)[16 + k]
          /\ \A k \in 1 .. Len(b) : b[k] = TaleAsync(early)[17 + k]
          /\ \A k \in 1 .. Len(c) : c[k] = TaleAsync(early)[18 + k]
      BY DEF TaleAsync
    <3> HIDE DEF a, b, c
    <3>4. Tells(seenCanary, 16, TaleAsync(early))
      <4>1. \A k \in 1 .. 16 : TaleAsync(early)[k] = Tale(early)[k]
        BY DEF Tale, TaleAsync
      <4> QED
        BY <2>4, <4>1 DEF ToldUpTo, Tells
    <3>5. Tells(seenCanary \o a, 16 + Len(a), TaleAsync(early))
      BY ONLY <2>5, <3>2, <3>3, <3>4, TellsMore, Zenon
    <3>6. Tells(seenCanary \o a, 17, TaleAsync(early))
      BY <2>5, <3>2, <3>5
    <3>7. Tells((seenCanary \o a) \o b, 17 + Len(b), TaleAsync(early))
      BY ONLY <2>5, <3>2, <3>3, <3>6, TellsMore, Zenon
    <3>8. Tells((seenCanary \o a) \o b, 18, TaleAsync(early))
      BY <2>5, <3>2, <3>7
    <3>9. Tells(((seenCanary \o a) \o b) \o c, 18 + Len(c), TaleAsync(early))
      BY ONLY <2>5, <3>2, <3>3, <3>8, TellsMore, Zenon
    <3>10. Tells(seenCanary', 20, TaleAsync(early))
      BY <2>5, <3>1, <3>2, <3>9
    <3> QED
      BY <2>2, <2>7, <3>10 DEF ToldAll
  <2>8. Telling'
    <3>1. ToldAll(seenCanary', closing'.op) /\ closing'.op \in {"sync", "async"}
      BY <2>2, <2>6, <2>7
    <3>2. stage' = Canary!Final /\ stage' # Canary!Poll
      BY <1>1, <1>2, <1>3, <1>7 DEF CanaryPhases, Canary!Final, Canary!Poll
    <3> QED
      BY <1>1, <3>1, <3>2 DEF Telling
  <2> QED
    BY <1>4, <1>5, <2>3, <2>8 DEF CanaryInv, Story
<1> QED
  BY <1>6, <1>7

LEMMA CanaryBeginsRight ==
    ASSUME Canary!Init, runs \in Histories
    PROVE  CanaryInv
<1>1. /\ site = "up" /\ coming = 0 /\ pcCanary = "job" /\ stage = Canary!Before /\ triesCanary = 0
      /\ meta = FALSE /\ http = 200 /\ entries = <<>> /\ todo = {} /\ told = {}
      /\ left = Canary!MaxDetails /\ reserve = 0 /\ boundary = <<>> /\ place = 0 /\ terminal = <<>>
      /\ whyCanary = "none" /\ seenCanary = Canary!Prelude
  BY DEF Canary!Init
<1>2. /\ runs \in Seq([who : {"other"}, status : {"Running", "Success", "Failed"}]) /\ Len(runs) <= MaxRuns
      /\ \A k \in DOMAIN runs : runs[k].status = "Running" => k = Len(runs)
  BY ExecutionsOK DEF Past
<1>3. runs \in Seq(RunShape) /\ Nobody /\ Serial(runs)
  <2>1. [who : {"other"}, status : {"Running", "Success", "Failed"}] \subseteq RunShape
    BY DEF RunShape
  <2>2. runs \in Seq(RunShape)
    BY <1>2, <2>1, SeqMonotonic
  <2>3. Nobody /\ Serial(runs)
    <3>1. \A k \in 1 .. Len(runs) : runs[k] \in [who : {"other"}, status : {"Running", "Success", "Failed"}]
      BY <1>2, ElementOfSeq
    <3>2. \A k \in 1 .. Len(runs) : runs[k].who = "other"
      BY <3>1
    <3> QED
      BY <1>2, <3>2 DEF Nobody, Serial
  <2> QED
    BY <2>2, <2>3
<1>4. CanaryTypes
  <2>1. left \in 0 .. Canary!MaxDetails
    BY <1>1, CanaryConstants
  <2>2. todo \in SUBSET (1 .. MaxRuns) /\ told \subseteq todo /\ meta \in BOOLEAN
    BY <1>1
  <2> QED
    BY <1>1, <1>2, <1>3, <2>1, <2>2 DEF CanaryTypes
<1>5. ToldUpTo(seenCanary, 7, TRUE)
  <2>1. Canary!Prelude \in Seq(Words) /\ Len(Canary!Prelude) = 7
    BY DEF Canary!Prelude, Words
  <2>2. \A k \in 1 .. 7 : Canary!Prelude[k] = Tale(TRUE)[k]
    BY DEF Canary!Prelude, Tale
  <2> QED
    BY <1>1, <2>1, <2>2 DEF ToldUpTo, Tells
<1>6. CanaryPhases /\ Opening /\ ReadingHistory /\ Behind /\ Census /\ Story
  <2>1. stage # Canary!Poll /\ stage # Canary!Final
    BY <1>1 DEF Canary!Before, Canary!Poll, Canary!Final
  <2>2. CanaryPhases /\ ReadingHistory /\ Behind /\ Census
    BY <1>1, <2>1 DEF CanaryPhases, ReadingHistory, Behind, Census
  <2>3. Opening
    <3>1. triesCanary \in 0 .. MaxBoundary
      BY <1>1, ExecutionsOK
    <3> QED
      BY <1>1, <1>3, <1>5, <3>1 DEF Opening, Untriggered
  <2>4. Story
    BY <1>1, <2>1 DEF Story, Polling, Telling
  <2> QED
    BY <2>2, <2>3, <2>4
<1>7. Budget
  <2>1. Due = 0 /\ Canary!MaxDetails \in Nat
    BY <1>1, FS_EmptySet, CanaryConstants DEF Due
  <2> QED
    BY <1>1, <2>1 DEF Budget, Canary!Before, Canary!Poll, Canary!Final
<1>8. OneToken /\ Canary!FailureTruth /\ Canary!BudgetRefusal
  BY <1>1, <1>3 DEF OneToken, Untriggered, Canary!FailureTruth, Canary!BudgetRefusal
<1> QED
  BY <1>4, <1>5, <1>6, <1>7, <1>8 DEF CanaryInv

LEMMA CanaryStays ==
    ASSUME CanaryInv, UNCHANGED canaryVars
    PROVE  CanaryInv'
<1>1. UNCHANGED <<runs, site, coming, meta, http, entries, todo, told, asOf, left, reserve, boundary, place,
                  terminal, closing, pcCanary, stage, triesCanary, whyCanary, seenCanary>>
  BY DEF canaryVars
<1>2. Len(runs) \in Nat /\ CanaryTypes /\ OneToken /\ Opening /\ Behind /\ Polling
  BY DEF CanaryInv, CanaryTypes, Story
<1>3. Grown
  BY <1>1, <1>2 DEF Grown, CanaryTypes
<1>4. OneToken' /\ (Untriggered => Untriggered') /\ (Pending => Pending')
  BY <1>1, <1>2 DEF OneToken, Untriggered, Pending, Begun, Nobody
<1>5. Polling'
  BY <1>1, <1>2, <1>4, PollingGrows
<1>6. terminal # <<>> => coming' = 0
  BY <1>1, <1>2 DEF Opening, Behind, Found
<1>7. stage = Canary!Before \/ pcCanary = "trigger" => Untriggered' /\ UNCHANGED seenCanary
  BY <1>1, <1>2, <1>4 DEF Opening
<1>8. site' \in {"up", "stopping", "down"} /\ coming' \in {0, 1}
  BY <1>1, <1>2 DEF CanaryTypes
<1> QED
  BY <1>1, <1>3, <1>4, <1>5, <1>6, <1>7, <1>8, ServiceKeeps

LEMMA CanarySteps ==
    ASSUME CanaryInv, Canary!Next
    PROVE  CanaryInv'
BY CanaryBegins, CanaryFinishes, CanarySiteDown, CanaryReadsJob, CanaryReadsList, CanaryReadsDetail,
   CanaryJudgesBoundary, CanaryTriggers, CanaryJudgesPoll, CanaryProbesLog, CanaryStops,
   CanaryAwaitsStop, CanaryJudgesFinal, CanaryCloses
   DEF Canary!Next, Canary!Executor

LEMMA TaleOnce ==
    ASSUME NEW e \in BOOLEAN, NEW i \in 1 .. 19, NEW j \in 1 .. 19, Tale(e)[i] = Tale(e)[j]
    PROVE  i = j
<1>1. CASE e = TRUE
  BY <1>1, SMTT(60) DEF Tale
<1>2. CASE e = FALSE
  BY <1>2, SMTT(60) DEF Tale
<1> QED
  BY <1>1, <1>2
LEMMA TaleAsyncOnce ==
    ASSUME NEW e \in BOOLEAN, NEW i \in 1 .. 20, NEW j \in 1 .. 20, TaleAsync(e)[i] = TaleAsync(e)[j]
    PROVE  i = j
<1>1. CASE e = TRUE
  BY <1>1, SMTT(60) DEF TaleAsync
<1>2. CASE e = FALSE
  BY <1>2, SMTT(60) DEF TaleAsync
<1> QED
  BY <1>1, <1>2

(* What the invariant says of a canary, property by property.              *)
LEMMA CanaryTyped ==
    ASSUME CanaryInv
    PROVE  Canary!TypeOK
<1>1. CanaryTypes /\ Opening /\ Behind
  BY DEF CanaryInv
<1>2. MaxRuns \in Nat /\ MaxBoundary \in Nat /\ MaxPolls \in Nat
  BY ExecutionsOK
<1>3. runs \in Seq([who : {"ours", "other"}, status : {"Running", "Success", "Failed"}]) /\ Len(runs) \in Nat
  BY <1>1 DEF CanaryTypes, RunShape
<1>4. triesCanary \in 0 .. (MaxBoundary + MaxPolls) /\ reserve \in 0 .. (MaxRuns + 1) /\ place \in 0 .. (MaxRuns + 2)
  <2>1. CASE stage = Canary!Before
    BY <1>1, <1>2, <2>1 DEF Opening
  <2>2. CASE stage # Canary!Before
    <3>1. Len(boundary) \in Nat /\ Len(boundary) <= MaxRuns
      BY <1>1, <1>2, <1>3, <2>2 DEF Behind, Snapshot, CanaryTypes
    <3> QED
      BY <1>1, <1>2, <2>2, <3>1 DEF Behind
  <2> QED
    BY <2>1, <2>2
<1> QED
  BY <1>1, <1>3, <1>4 DEF Canary!TypeOK, CanaryTypes

LEMMA CanaryAdjacent ==
    ASSUME CanaryInv
    PROVE  Canary!BoundaryAdjacent
<1>1. CanaryPhases /\ Opening /\ Behind
  BY DEF CanaryInv
<1>2. SUFFICES ASSUME pcCanary = "trigger"
               PROVE  asOf \subseteq DOMAIN boundary
  BY DEF Canary!BoundaryAdjacent
<1>3. boundary \in Seq(RunShape)
  BY <1>1, <1>2 DEF CanaryPhases, Behind, Snapshot, Canary!Poll, Canary!Before
<1> QED
  BY <1>1, <1>2, <1>3 DEF Opening

LEMMA CanaryOnce ==
    ASSUME CanaryInv
    PROVE  Canary!TriggeredOnce
<1> DEFINE mine == {i \in DOMAIN runs : runs[i].who = "ours"}
<1>1. OneToken /\ DOMAIN runs = 1 .. Len(runs)
  BY DEF CanaryInv, CanaryTypes
<1>2. CASE Untriggered \/ Pending
  <2>1. mine = {} /\ coming \in {0, 1}
    BY <1>1, <1>2 DEF Untriggered, Pending, Nobody
  <2>2. Cardinality(mine) = 0
    BY <2>1, FS_EmptySet
  <2> QED
    BY <2>1, <2>2, SameCount DEF Canary!TriggeredOnce
<1>3. CASE Begun
  <2>1. PICK k \in 1 .. Len(runs) : OurRun(runs, k)
    BY <1>3 DEF Begun
  <2>2. mine = {k} /\ coming = 0
    BY <1>1, <1>3, <2>1 DEF OurRun, Begun
  <2>3. Cardinality(mine) = 1
    BY <2>2, FS_Singleton
  <2> QED
    BY <2>2, <2>3, SameCount DEF Canary!TriggeredOnce
<1> QED
  BY <1>1, <1>2, <1>3 DEF OneToken

(* Behind a canary that has won.                                           *)
LEMMA CanaryWon ==
    ASSUME CanaryInv, Canary!Won
    PROVE  /\ Snapshot(boundary) /\ Found /\ Len(runs) = Len(boundary) + 1 /\ site = "down"
           /\ entries = boundary \o terminal /\ meta = (boundary # <<>>)
           /\ http = 404 => boundary = <<>>
           /\ triesCanary \in 1 .. MaxPolls
           /\ closing.op \in {"sync", "async"} /\ ToldAll(seenCanary, closing.op)
<1>1. pcCanary = "done" /\ whyCanary = "none" /\ CanaryPhases /\ Behind /\ Census /\ Telling
  BY DEF CanaryInv, Canary!Won, Story
<1>2. stage = Canary!Final /\ terminal # <<>>
  BY <1>1 DEF CanaryPhases
<1>3. stage # Canary!Before
  BY <1>2 DEF Canary!Before, Canary!Final
<1>4. triesCanary \in 1 .. MaxPolls
  BY <1>1, <1>2, <1>3 DEF Behind, Found
<1> QED
  BY <1>1, <1>2, <1>3, <1>4 DEF Behind, Census, Telling

LEMMA CanaryAttributed ==
    ASSUME CanaryInv
    PROVE  Canary!Attributed
<1> DEFINE won == [who |-> "ours", status |-> "Success"]
<1>1. SUFFICES ASSUME Canary!Won
               PROVE  runs = Append(boundary, won) /\ site = "down"
  BY DEF Canary!Attributed
<1>2. /\ Snapshot(boundary) /\ Found /\ Len(runs) = Len(boundary) + 1 /\ site = "down"
  BY <1>1, CanaryWon
<1>3. runs \in Seq(RunShape) /\ boundary \in Seq(RunShape) /\ won \in RunShape
  BY <1>2 DEF CanaryInv, CanaryTypes, Snapshot, RunShape
<1>4. /\ Append(boundary, won) \in Seq(RunShape) /\ Len(Append(boundary, won)) = Len(runs)
      /\ \A k \in 1 .. Len(boundary) : Append(boundary, won)[k] = boundary[k]
      /\ Append(boundary, won)[Len(boundary) + 1] = won
  BY <1>2, <1>3, AppendProperties
<1>5. runs[Len(boundary) + 1] = won /\ \A k \in 1 .. Len(boundary) : runs[k] = boundary[k]
  BY <1>2 DEF Found
<1>6. \A k \in 1 .. Len(runs) : runs[k] = Append(boundary, won)[k]
  BY <1>2, <1>3, <1>4, <1>5
<1>7. runs = Append(boundary, won)
  BY <1>3, <1>4, <1>6, SeqEqual
<1> QED
  BY <1>2, <1>7

(* A tale without repetitions, and what it says of the order of its words. *)
Recounts(p, n, t) ==
    /\ n \in Nat /\ p.seen \in Seq(Words) /\ Len(p.seen) = n /\ \A k \in 1 .. n : p.seen[k] = t[k]
    /\ \A i, j \in 1 .. n : t[i] = t[j] => i = j

LEMMA PlaceOf ==
    ASSUME NEW p, NEW n, NEW t, Recounts(p, n, t), NEW k \in 1 .. n
    PROVE  Canary!Noted(p, t[k]) /\ Canary!At(p, t[k]) = k
<1>1. DOMAIN p.seen = 1 .. n
  BY DEF Recounts
<1>2. \A i \in DOMAIN p.seen : p.seen[i] = t[k] <=> i = k
  BY <1>1 DEF Recounts
<1>3. Canary!At(p, t[k]) = k
  BY <1>1, <1>2 DEF Canary!At
<1> QED
  BY <1>1, <1>2, <1>3 DEF Canary!Noted

Follows(xs, where, n, t) ==
    /\ \A i \in DOMAIN xs : where[i] \in 1 .. n /\ xs[i] = t[where[i]]
    /\ \A i, j \in DOMAIN xs : i < j => where[i] < where[j]

LEMMA Ordered ==
    ASSUME NEW p, NEW n, NEW t, NEW xs, NEW where, Recounts(p, n, t), Follows(xs, where, n, t)
    PROVE  Canary!InOrder(p, xs)
<1>1. \A i \in DOMAIN xs : Canary!Noted(p, xs[i]) /\ Canary!At(p, xs[i]) = where[i]
  BY PlaceOf DEF Follows
<1> QED
  BY <1>1 DEF Canary!InOrder, Follows

LEMMA CanaryInOrder ==
    ASSUME NEW p, NEW early \in BOOLEAN, NEW n, NEW t, Recounts(p, n, t), n \in {19, 20},
           n = 19 => t = Tale(early), n = 20 => t = TaleAsync(early)
    PROVE  Canary!ExactOrder(p)
<1>1. /\ \A k \in 1 .. 17 : t[k] = Tale(early)[k]
      /\ n = 19 => t[18] = "netRestored" /\ t[19] = "stopped"
      /\ n = 20 => t[19] = "netRestored" /\ t[20] = "stopped"
  <2>1. CASE n = 19
    BY <2>1 DEF Tale
  <2>2. CASE n = 20
    BY <2>2 DEF Tale, TaleAsync
  <2> QED
    BY <2>1, <2>2
<1> DEFINE s == IF early THEN 11 ELSE 12
           r == IF early THEN 12 ELSE 11
<1>2. /\ t[1] = "initial" /\ t[2] = "scmPre" /\ t[3] = "netInitial" /\ t[4] = "netEnabled"
      /\ t[5] = "scmInitial" /\ t[6] = "scmEnabled" /\ t[7] = "running" /\ t[8] = "job" /\ t[9] = "boundary"
      /\ t[10] = "trigger" /\ t[s] = "start" /\ t[r] = "response" /\ t[13] = "end" /\ t[14] = "terminal"
      /\ t[15] = "preStop" /\ t[16] = "census" /\ t[17] = "scmRestored"
  <2>1. CASE early = TRUE
    BY <1>1, <2>1 DEF Tale
  <2>2. CASE early = FALSE
    BY <1>1, <2>2 DEF Tale
  <2> QED
    BY <2>1, <2>2
<1>3. s \in {11, 12} /\ r \in {11, 12}
  OBVIOUS
<1> HIDE DEF s, r
<1>4. Canary!InOrder(p, Canary!Prelude \o <<"job", "boundary", "trigger", "response", "terminal">>)
  <2> DEFINE xs == <<"initial", "scmPre", "netInitial", "netEnabled", "scmInitial", "scmEnabled", "running",
                     "job", "boundary", "trigger", "response", "terminal">>
             where == <<1, 2, 3, 4, 5, 6, 7, 8, 9, 10, r, 14>>
  <2>1. Canary!Prelude \o <<"job", "boundary", "trigger", "response", "terminal">> = xs
    <3> DEFINE a == <<"initial", "scmPre", "netInitial", "netEnabled", "scmInitial", "scmEnabled", "running">>
               b == <<"job", "boundary", "trigger", "response", "terminal">>
    <3>1. a \in Seq(Words) /\ b \in Seq(Words) /\ xs \in Seq(Words) /\ Len(a) = 7 /\ Len(b) = 5 /\ Len(xs) = 12
      BY DEF Words
    <3>2. /\ \A k \in 1 .. 7 : xs[k] = a[k]
          /\ \A k \in 8 .. 12 : xs[k] = b[k - 7]
      OBVIOUS
    <3>3. Canary!Prelude = a
      BY DEF Canary!Prelude
    <3> HIDE DEF a, b, xs
    <3>4. /\ a \o b \in Seq(Words) /\ Len(a \o b) = 12
          /\ \A k \in 1 .. 12 : (a \o b)[k] = IF k <= 7 THEN a[k] ELSE b[k - 7]
      <4>1. /\ a \o b \in Seq(Words) /\ Len(a \o b) = Len(a) + Len(b)
            /\ \A k \in 1 .. Len(a) + Len(b) : (a \o b)[k] = IF k <= Len(a) THEN a[k] ELSE b[k - Len(a)]
        BY ONLY <3>1, ConcatProperties, Zenon
      <4>2. Len(a) + Len(b) = 12
        BY <3>1
      <4> QED
        BY <3>1, <4>1, <4>2
    <3>5. \A k \in 1 .. 12 : (a \o b)[k] = xs[k]
      <4>1. ASSUME NEW k \in 1 .. 12
            PROVE  (a \o b)[k] = xs[k]
        <5>1. CASE k <= 7
          <6>1. k \in 1 .. 7
            BY <5>1
          <6>2. xs[k] = a[k]
            BY ONLY <3>2, <6>1
          <6>3. (a \o b)[k] = a[k]
            BY <3>4, <5>1
          <6> QED
            BY <6>2, <6>3
        <5>2. CASE ~ (k <= 7)
          <6>1. k \in 8 .. 12
            BY <5>2
          <6> QED
            BY <3>2, <3>4, <5>2, <6>1
        <5> QED
          BY <5>1, <5>2
      <4> QED
        BY <4>1
    <3>6. a \o b = xs
      BY <3>1, <3>4, <3>5, SeqEqual
    <3>7. Canary!Prelude \o b = xs
      BY <3>3, <3>6
    <3> QED
      BY <3>7 DEF b
  <2>3. Follows(xs, where, n, t)
    <3>1. \A i \in DOMAIN xs : where[i] \in 1 .. n /\ xs[i] = t[where[i]]
      BY <1>2, <1>3
    <3>2. \A i, j \in DOMAIN xs : i < j => where[i] < where[j]
      BY <1>3
    <3> QED
      BY ONLY <3>1, <3>2 DEF Follows
  <2>5. Canary!InOrder(p, xs)
    <3> HIDE DEF xs, where
    <3> QED
      BY <2>3, Ordered
  <2> QED
    BY <2>1, <2>5
<1>5. Canary!InOrder(p, <<"trigger", "start", "end", "terminal">>)
  <2> DEFINE xs == <<"trigger", "start", "end", "terminal">>
             where == <<10, s, 13, 14>>
  <2>3. Follows(xs, where, n, t)
    <3>1. \A i \in DOMAIN xs : where[i] \in 1 .. n /\ xs[i] = t[where[i]]
      BY <1>2, <1>3
    <3>2. \A i, j \in DOMAIN xs : i < j => where[i] < where[j]
      BY <1>3
    <3> QED
      BY ONLY <3>1, <3>2 DEF Follows
  <2>5. Canary!InOrder(p, xs)
    <3> HIDE DEF xs, where
    <3> QED
      BY <2>3, Ordered
  <2> QED
    BY <2>5
<1>6. Canary!InOrder(p, <<"terminal", "preStop", "census", "scmRestored", "netRestored", "stopped">>)
  <2> DEFINE xs == <<"terminal", "preStop", "census", "scmRestored", "netRestored", "stopped">>
             where == <<14, 15, 16, 17, n - 1, n>>
  <2>3. t[n - 1] = "netRestored" /\ t[n] = "stopped"
    <3>1. CASE n = 19
      BY <1>1, <3>1
    <3>2. CASE n = 20
      BY <1>1, <3>2
    <3> QED
      BY <3>1, <3>2
  <2>4. Follows(xs, where, n, t)
    <3>1. \A i \in DOMAIN xs : where[i] \in 1 .. n /\ xs[i] = t[where[i]]
      BY <1>2, <2>3
    <3>2. \A i, j \in DOMAIN xs : i < j => where[i] < where[j]
      OBVIOUS
    <3> QED
      BY ONLY <3>1, <3>2 DEF Follows
  <2>6. Canary!InOrder(p, xs)
    <3> HIDE DEF xs, where
    <3> QED
      BY <2>4, Ordered
  <2> QED
    BY <2>6
<1> QED
  BY <1>4, <1>5, <1>6 DEF Canary!ExactOrder

LEMMA CanaryInOrderAsync ==
    ASSUME NEW p, NEW early \in BOOLEAN, Recounts(p, 20, TaleAsync(early))
    PROVE  Canary!InOrder(p, <<"scmRestored", "netOperation", "netRestored">>)
<1> DEFINE xs == <<"scmRestored", "netOperation", "netRestored">>
           where == <<17, 18, 19>>
<1>2. /\ TaleAsync(early)[17] = "scmRestored" /\ TaleAsync(early)[18] = "netOperation"
      /\ TaleAsync(early)[19] = "netRestored"
  BY DEF TaleAsync
<1>3. \A i \in DOMAIN xs : where[i] \in 1 .. 20 /\ xs[i] = TaleAsync(early)[where[i]]
  BY <1>2
<1>4. \A i, j \in DOMAIN xs : i < j => where[i] < where[j]
  OBVIOUS
<1>5. Follows(xs, where, 20, TaleAsync(early))
  BY ONLY <1>3, <1>4 DEF Follows
<1>6. Canary!InOrder(p, xs)
  <2> HIDE DEF xs, where
  <2> QED
    BY <1>5, Ordered
<1> QED
  BY <1>6

LEMMA CanaryProven ==
    ASSUME CanaryInv
    PROVE  Canary!ProofAccepted
<1> DEFINE p == Canary!Proof
<1>1. SUFFICES ASSUME Canary!Won
               PROVE  Canary!Accepted(p)
  BY DEF Canary!ProofAccepted
<1>2. /\ Snapshot(boundary) /\ Found /\ entries = boundary \o terminal /\ meta = (boundary # <<>>)
      /\ http = 404 => boundary = <<>>
      /\ triesCanary \in 1 .. MaxPolls
      /\ closing.op \in {"sync", "async"} /\ ToldAll(seenCanary, closing.op)
  BY <1>1, CanaryWon
<1>3. /\ p.boundary = [entries |-> boundary] /\ p.census = [entries |-> entries]
      /\ p.http = http /\ p.meta = meta /\ p.terminal = terminal[1] /\ p.place = place
      /\ p.op = closing.op /\ p.polls = triesCanary /\ p.seen = seenCanary
  BY DEF Canary!Proof, Canary!Receipt, Canary!History
<1> HIDE DEF p
<1>4. Canary!ExactHistories(p) /\ p.boundary.entries = boundary /\ p.census.entries = entries
  BY <1>3 DEF Canary!ExactHistories
<1>5. Canary!ExactBoundary(p) /\ Canary!ExactRun(p)
  <2>1. http \in {200, 404}
    BY DEF CanaryInv, CanaryTypes
  <2>2. http = 404 => ~meta
    BY <1>2
  <2>3. Canary!ExactBoundary(p)
    BY <1>2, <1>3, <1>4, <2>1, <2>2 DEF Canary!ExactBoundary
  <2>4. terminal[1].who = "ours" /\ terminal[1].status = "Success" /\ place \in {0, Len(boundary) + 1}
    BY <1>2 DEF Found
  <2>5. Canary!ExactRun(p)
    BY <1>3, <1>4, <2>4 DEF Canary!ExactRun
  <2> QED
    BY <2>3, <2>5
<1>6. Canary!ExactCensus(p)
  <2>1. boundary \in Seq(RunShape) /\ terminal[1] \in RunShape /\ terminal = <<terminal[1]>>
    BY <1>2 DEF Snapshot, Found, RunShape
  <2>2. boundary \o <<terminal[1]>> = Append(boundary, terminal[1])
    BY <2>1, AppendIsConcat
  <2> QED
    BY <1>2, <1>3, <1>4, <2>1, <2>2 DEF Canary!ExactCensus
<1>7. PICK early \in BOOLEAN :
        IF closing.op = "async" THEN Recounts(p, 20, TaleAsync(early)) ELSE Recounts(p, 19, Tale(early))
  <2>1. PICK early \in BOOLEAN :
          IF closing.op = "async" THEN Tells(seenCanary, 20, TaleAsync(early))
          ELSE Tells(seenCanary, 19, Tale(early))
    BY <1>2 DEF ToldAll, ToldUpTo
  <2>2. \A i, j \in 1 .. 20 : TaleAsync(early)[i] = TaleAsync(early)[j] => i = j
    BY TaleAsyncOnce
  <2>3. \A i, j \in 1 .. 19 : Tale(early)[i] = Tale(early)[j] => i = j
    BY TaleOnce
  <2>4. 19 \in Nat /\ 20 \in Nat
    OBVIOUS
  <2>5. CASE closing.op = "async"
    BY ONLY <1>3, <2>1, <2>2, <2>4, <2>5 DEF Recounts, Tells
  <2>6. CASE closing.op # "async"
    BY ONLY <1>3, <2>1, <2>3, <2>4, <2>6 DEF Recounts, Tells
  <2> QED
    BY <2>5, <2>6
<1>8. Canary!ExactOrder(p)
  <2>1. CASE closing.op = "async"
    <3>1. Recounts(p, 20, TaleAsync(early)) /\ 20 # 19 /\ 20 \in {19, 20}
      BY <1>7, <2>1
    <3> QED
      BY ONLY <3>1, CanaryInOrder, early \in BOOLEAN
  <2>2. CASE closing.op # "async"
    <3>1. Recounts(p, 19, Tale(early)) /\ 20 # 19 /\ 19 \in {19, 20}
      BY <1>7, <2>2
    <3> QED
      BY ONLY <3>1, CanaryInOrder, early \in BOOLEAN
  <2> QED
    BY <2>1, <2>2
<1>9. Canary!ExactClosing(p)
  <2>1. p.op = "async" => Canary!InOrder(p, <<"scmRestored", "netOperation", "netRestored">>)
    BY <1>3, <1>7, CanaryInOrderAsync
  <2> QED
    BY <1>2, <1>3, <2>1 DEF Canary!ExactClosing
<1> QED
  BY <1>4, <1>5, <1>6, <1>8, <1>9 DEF Canary!Accepted

(* In every history of the job and however many runs, attempts, polls and  *)
(* reads there are: a canary that succeeds has run alone, its trigger was  *)
(* sent once, a failure told as its own is its own, polls never use up the *)
(* reads of the census, and the validator of the retained evidence takes   *)
(* the proof of every success.                                             *)
THEOREM CanaryHolds == EitherSpec => []CanarySafe
<1> DEFINE Safe == program = "canary" => CanaryInv
<1>1. EitherInit => Safe
  <2>1. EitherInit /\ program = "canary" => runs \in Histories
    BY DEF EitherInit, Canary!Init
  <2> QED
    BY <2>1, CanaryBeginsRight DEF EitherInit
<1>2. Safe /\ [EitherNext]_either => Safe'
  <2>1. SUFFICES ASSUME Safe, [EitherNext]_either, program' = "canary"
                 PROVE  CanaryInv'
    OBVIOUS
  <2>2. CASE Turn("canary") /\ Canary!Next /\ UNCHANGED observedVars
    BY <2>1, <2>2, CanarySteps DEF Turn
  <2>3. CASE Turn("observation") /\ Observed!Next /\ UNCHANGED canaryVars
    BY <2>1, <2>3 DEF Turn
  <2>4. CASE UNCHANGED either
    <3>1. program = "canary" /\ UNCHANGED canaryVars
      BY <2>1, <2>4 DEF either
    <3> QED
      BY <2>1, <3>1, CanaryStays
  <2> QED
    BY <2>1, <2>2, <2>3, <2>4 DEF EitherNext
<1>3. Safe => CanarySafe
  BY CanaryTyped, CanaryAttributed, CanaryAdjacent, CanaryOnce, CanaryProven DEF CanarySafe, CanaryInv
<1> QED
  BY <1>1, <1>2, <1>3, PTL DEF EitherSpec

-----------------------------------------------------------------------------
(***************************************************************************)
(* The observation (Observation), for any changes of others and any number *)
(* of them and of interrupted runs.                                        *)
(***************************************************************************)
Fields ==
    {"application", "service", "grant", "credential", "identity", "writer", "lock", "key",
     "definitions", "site", "scm", "assigned", "rule", "role", "package", "fence", "settings",
     "worm", "accepted", "legacy", "writerResult", "legacyFic", "locks", "production"}
Roles     == {"none", "controller", "package", "fence"}
Somebody  == {1, 2, 3}
Exactness == {"absent", "exact", "foreign"}
IsAzure(w) ==
    /\ w = [f \in Fields |-> w[f]]
    /\ w.identity \in {0} \cup Somebody /\ w.assigned \in {0} \cup Somebody
    /\ w.definitions \in [{"fence", "others"} -> Exactness] /\ w.role \in Roles

(* Evidence that was judged.                                               *)
Judged(s) ==
    /\ DOMAIN s = Observed!Batch \cup Observed!Boundary
    /\ Observed!Refused \notin
         {Observed!Claim(s), Observed!Application(s), Observed!Service(s), Observed!Grant(s),
          Observed!Credential(s), Observed!Writer(s), Observed!RoleDefinitions(s),
          Observed!Assignments(s), Observed!Bridge(s), Observed!Attachment(s),
          Observed!UploaderRule(s), Observed!Settings(s), Observed!Canary(s), Observed!LegacyFic(s)}
    /\ s["markers"] = "none"

ObservedTypes ==
    /\ IsAzure(az)
    /\ pcObserved \in {"idle", "batch", "tail", "template", "fresh", "apply", "done"}
    /\ pos \in 0 .. 31 /\ (pos > 0 <=> pcObserved = "apply")
    /\ pcObserved \in {"idle", "batch", "done"} => seenObserved = <<>>
    /\ pcObserved = "tail" => DOMAIN seenObserved = Observed!Batch
    /\ pcObserved \in {"template", "fresh", "apply"} => Judged(seenObserved)
    /\ spare = <<>> \/ Judged(spare)
    /\ whyObserved = <<>> \/ (pcObserved = "idle" /\ Len(whyObserved) = 2)
    /\ drifts \in Nat /\ stops \in Nat /\ made \in Nat /\ deleted \in Nat /\ still \in BOOLEAN
    /\ pos > 5 => own.identity \in Somebody
    /\ pos > 2 /\ seenObserved["application"] # {} => seenObserved["application"] = {own.application}
    /\ own = [application |-> own.application, identity |-> own.identity]

(* The applications the executor has created and nobody has deleted.       *)
Created ==
    \/ az.application \subseteq {1} /\ made = deleted
    \/ \E k \in Nat : az.application \ {1} = {10 + k} /\ made = deleted + 1
NoneThere ==
    /\ pcObserved = "fresh" /\ beganObserved.application = {} => az.application \subseteq {1}
    /\ pcObserved = "apply" /\ pos <= 2 /\ seenObserved["application"] = {} => az.application \subseteq {1}

(* Nobody else has changed anything.                                       *)
Undisturbed ==
    drifts = 0 => /\ pcObserved = "fresh" => beganObserved = az
                  /\ az.site = "absent" => az.settings = "empty"

(* What a run has proved or made before operation p.                       *)
Reached(w, o, p) ==
    /\ p > 2  => w.application = {o.application}
    /\ p > 3  => w.service = o.application
    /\ p > 4  => w.grant = "exact"
    /\ p > 5  => w.identity = o.identity
    /\ p > 6  => w.writer = 1
    /\ p > 8  => w.key = "exact"
    /\ p > 9  => w.definitions = [d \in {"fence", "others"} |-> "exact"]
    /\ p > 11 => w.assigned = o.identity
    /\ p > 12 => w.site = "attached"
    /\ p > 15 => w.lock = "empty"
    /\ p > 18 => w.package = "exact"
    /\ p > 21 => w.fence \in {"pinned", "ours"}
    /\ p > 22 => w.role = "none"
    /\ p > 23 => w.rule = "none"
    /\ p > 24 => w.settings = "desired"
    /\ p > 25 => w.worm = "locked"
    /\ p > 26 => w.scm = "off"
    /\ p > 27 => w.accepted = 91
    /\ p > 28 => w.legacy = "detached"
    /\ p > 29 => w.writerResult = "absent"
    /\ p > 30 => w.legacyFic = "absent"
    /\ p > 31 => w.credential = "exact"

(* What an operation comes to, and what that does to Azure.                *)
Outcome(op) ==
    IF Observed!Admission(op, seenObserved).decision \in {"adopt", "pending"}
    THEN [ok |-> Observed!Proved(op), w |-> az] ELSE Observed!Result(op)
Fits(k, r) ==
    /\ IsAzure(r.w) /\ (k # 2 => r.w.application = az.application)
    /\ r.w.site = "absent" => az.site = "absent" /\ r.w.settings = az.settings
    /\ k = 5 /\ r.ok => r.w.identity \in Somebody
    /\ r.ok /\ Reached(az, own, k) => Reached(r.w, Observed!Owned(Observed!Plan[k], r.w), k + 1)

Progress ==
    /\ pcObserved = "apply" /\ still => Reached(az, own, pos)
    /\ pcObserved = "done" /\ still => Observed!Target(az)

ObservedInv == ObservedTypes /\ Created /\ NoneThere /\ Undisturbed /\ Progress

LEMMA PlanIs ==
    /\ Len(Observed!Plan) = 31
    /\ Observed!Plan[1] = "claim" /\ Observed!Plan[2] = "application" /\ Observed!Plan[3] = "service"
    /\ Observed!Plan[4] = "grant" /\ Observed!Plan[5] = "identity" /\ Observed!Plan[6] = "writer"
    /\ Observed!Plan[7] = "lock" /\ Observed!Plan[8] = "key" /\ Observed!Plan[9] = "definitions"
    /\ Observed!Plan[10] = "bridge" /\ Observed!Plan[11] = "assignments" /\ Observed!Plan[12] = "attach"
    /\ Observed!Plan[13] = "addRule" /\ Observed!Plan[14] = "addController" /\ Observed!Plan[15] = "empty"
    /\ Observed!Plan[16] = "dropController" /\ Observed!Plan[17] = "addPackage" /\ Observed!Plan[18] = "package"
    /\ Observed!Plan[19] = "dropPackage" /\ Observed!Plan[20] = "addFence" /\ Observed!Plan[21] = "fence"
    /\ Observed!Plan[22] = "dropFence" /\ Observed!Plan[23] = "removeRule" /\ Observed!Plan[24] = "settings"
    /\ Observed!Plan[25] = "worm" /\ Observed!Plan[26] = "canary" /\ Observed!Plan[27] = "accepted"
    /\ Observed!Plan[28] = "detach" /\ Observed!Plan[29] = "writerResult" /\ Observed!Plan[30] = "legacyFic"
    /\ Observed!Plan[31] = "fic"
BY DEF Observed!Plan

LEMMA OpsAre == \A i \in 1 .. 31 : Observed!Plan[i] \in Observed!Ops
<1>1. Len(Observed!Plan) = 31 /\ DOMAIN Observed!Plan = 1 .. 31
  BY DEF Observed!Plan
<1> QED
  BY <1>1 DEF Observed!Ops, Observed!Range

(* One field of Azure is written.                                          *)
LEMMA Written ==
    ASSUME NEW w, w = [f \in Fields |-> w[f]], NEW g \in Fields, NEW v
    PROVE  /\ [w EXCEPT ![g] = v] = [f \in Fields |-> [w EXCEPT ![g] = v][f]]
           /\ [w EXCEPT ![g] = v][g] = v
           /\ \A f \in Fields : f # g => [w EXCEPT ![g] = v][f] = w[f]
OBVIOUS

LEMMA CompensatedIs ==
    ASSUME NEW w, IsAzure(w)
    PROVE  /\ IsAzure(Observed!Compensated(w))
           /\ \A f \in Fields \ {"rule", "role", "settings"} : Observed!Compensated(w)[f] = w[f]
           /\ Observed!Compensated(w).rule = "none" /\ Observed!Compensated(w).role = "none"
           /\ Observed!Compensated(w).settings = "empty"
           /\ w.rule = "none" /\ w.role = "none" /\ w.settings = "empty" => Observed!Compensated(w) = w
<1>1. PICK c : c = Observed!Compensated(w)
  OBVIOUS
<1>2. c = [f \in Fields |-> c[f]]
  BY <1>1 DEF IsAzure, Observed!Compensated
<1>3. /\ \A f \in Fields \ {"rule", "role", "settings"} : c[f] = w[f]
      /\ c.rule = "none" /\ c.role = "none" /\ c.settings = "empty"
  BY <1>1 DEF IsAzure, Observed!Compensated, Fields
<1>4. IsAzure(c)
  BY <1>2, <1>3 DEF IsAzure, Fields, Roles
<1>5. ASSUME w.rule = "none", w.role = "none", w.settings = "empty"
      PROVE  c = w
  <2>1. \A f \in Fields : c[f] = w[f]
    BY <1>3, <1>5 DEF Fields
  <2> QED
    BY <1>2, <2>1 DEF IsAzure
<1> QED
  BY <1>1, <1>3, <1>4, <1>5

LEMMA SameNumber == \A S : Observed!Cardinality(S) = Cardinality(S)
BY DEF Observed!Cardinality, Cardinality

LEMMA CreatedCounts ==
    ASSUME Created, made \in Nat, deleted \in Nat
    PROVE  made = deleted + Observed!Cardinality(az.application \ {1})
<1>1. CASE az.application \subseteq {1} /\ made = deleted
  <2>1. az.application \ {1} = {}
    BY <1>1
  <2>2. Cardinality(az.application \ {1}) = 0
    BY <2>1, FS_EmptySet
  <2> QED
    BY <1>1, <2>2, SameNumber
<1>2. CASE \E k \in Nat : az.application \ {1} = {10 + k} /\ made = deleted + 1
  <2>1. Cardinality(az.application \ {1}) = 1
    BY <1>2, FS_Singleton
  <2> QED
    BY <1>2, <2>1, SameNumber
<1> QED
  BY <1>1, <1>2 DEF Created

LEMMA DriftChanges ==
    ASSUME ObservedInv, Observed!Drift
    PROVE  \E d \in Drifts :
             /\ az' = Observed!Changed(d[1], d[2])
             /\ deleted' = deleted + IF d = <<"application", {}>> THEN Observed!Cardinality(az.application \ {1}) ELSE 0
             /\ still' = (/\ still /\ pcObserved # "done"
                          /\ pcObserved = "apply" => \A i \in 1 .. pos - 1 : Observed!Plan[i] # Observed!ProvedBy(d[1]))
             /\ d = <<d[1], d[2]>> /\ Foreign(d)
BY ExecutionsOK DEF Observed!Drift

LEMMA ForeignChanges ==
    ASSUME IsAzure(az), NEW d, Foreign(d), NEW w, w = Observed!Changed(d[1], d[2])
    PROVE  /\ IsAzure(w) /\ w.role = az.role
           /\ d[1] \in Fields \ {"role"}
           /\ \/ /\ d[1] = "application" /\ d[2] = {} /\ w.application = {}
                 /\ \A f \in Fields \ {"application", "service", "grant", "credential"} : w[f] = az[f]
              \/ /\ d[1] = "application" /\ d[2] = {1} /\ w.application = az.application \cup {1}
                 /\ \A f \in Fields \ {"application"} : w[f] = az[f]
              \/ /\ d[1] = "service" /\ d[2] = 0
                 /\ \A f \in Fields \ {"service", "grant"} : w[f] = az[f]
              \/ /\ d[1] # "application"
                 /\ \A f \in Fields \ {d[1]} : w[f] = az[f]
<1>1. d[1] \in Fields \ {"role"}
  BY DEF Foreign, Fields
<1>2. CASE d[1] = "application" /\ d[2] = {}
  <2>1. w = [az EXCEPT !.application = {}, !.service = 0, !.grant = "none", !.credential = "none"]
    BY <1>2 DEF Observed!Changed
  <2>2. /\ w = [f \in Fields |-> w[f]] /\ w.application = {}
        /\ \A f \in Fields \ {"application", "service", "grant", "credential"} : w[f] = az[f]
    BY <2>1 DEF IsAzure, Fields
  <2> QED
    BY <1>1, <1>2, <2>2 DEF IsAzure, Fields
<1>3. CASE d[1] = "application" /\ d[2] # {}
  <2>1. d[2] = {1} /\ w = [az EXCEPT !["application"] = az.application \cup {1}]
    BY <1>3 DEF Observed!Changed, Observed!Put, Foreign
  <2>2. /\ w = [f \in Fields |-> w[f]] /\ w.application = az.application \cup {1}
        /\ \A f \in Fields \ {"application"} : w[f] = az[f]
    BY <2>1 DEF IsAzure, Fields
  <2> QED
    BY <1>1, <1>3, <2>1, <2>2 DEF IsAzure, Fields
<1>4. CASE d[1] = "service" /\ d[2] = 0
  <2>1. w = [az EXCEPT !.service = 0, !.grant = "none"]
    BY <1>4 DEF Observed!Changed
  <2>2. /\ w = [f \in Fields |-> w[f]]
        /\ \A f \in Fields \ {"service", "grant"} : w[f] = az[f]
    BY <2>1 DEF IsAzure, Fields
  <2> QED
    BY <1>1, <1>4, <2>2 DEF IsAzure, Fields
<1>5. CASE d[1] # "application" /\ ~ (d[1] = "service" /\ d[2] = 0)
  <2>1. w = [az EXCEPT ![d[1]] = d[2]]
    BY <1>5 DEF Observed!Changed, Observed!Put
  <2>2. /\ w = [f \in Fields |-> w[f]] /\ w[d[1]] = d[2]
        /\ \A f \in Fields \ {d[1]} : w[f] = az[f]
    BY <1>1, <2>1, Written DEF IsAzure
  <2>3. w.identity \in {0} \cup Somebody /\ w.assigned \in {0} \cup Somebody /\ w.role = az.role
    BY <1>1, <2>2 DEF IsAzure, Fields, Foreign, Somebody
  <2>4. w.definitions \in [{"fence", "others"} -> Exactness]
    BY <1>1, <2>2 DEF IsAzure, Fields, Foreign, Exactness
  <2> QED
    BY <1>1, <1>5, <2>2, <2>3, <2>4 DEF IsAzure
<1> QED
  BY <1>2, <1>3, <1>4, <1>5

(* What others change is not proved yet, as long as the run is still.      *)
LEMMA ReachedStays ==
    ASSUME NEW d, d[1] \in Fields \ {"role"}, NEW w, NEW p \in 1 .. 31, Reached(az, own, p),
           \/ /\ d[1] = "application"
              /\ \A f \in Fields \ {"application", "service", "grant", "credential"} : w[f] = az[f]
           \/ d[1] = "service" /\ \A f \in Fields \ {"service", "grant"} : w[f] = az[f]
           \/ \A f \in Fields \ {d[1]} : w[f] = az[f],
           \A i \in 1 .. p - 1 : Observed!Plan[i] # Observed!ProvedBy(d[1])
    PROVE  Reached(w, own, p)
<1>1. /\ d[1] = "application" => p <= 2
      /\ d[1] = "service" => p <= 3
      /\ d[1] = "grant" => p <= 4
      /\ d[1] = "identity" => p <= 5
      /\ d[1] = "writer" => p <= 6
      /\ d[1] = "key" => p <= 8
      /\ d[1] = "definitions" => p <= 9
      /\ d[1] = "assigned" => p <= 11
      /\ d[1] = "site" => p <= 10
      /\ d[1] = "lock" => p <= 15
      /\ d[1] = "package" => p <= 18
      /\ d[1] = "fence" => p <= 21
      /\ d[1] = "rule" => p <= 23
      /\ d[1] = "settings" => p <= 24
      /\ d[1] = "worm" => p <= 25
      /\ d[1] = "scm" => p <= 26
      /\ d[1] = "accepted" => p <= 27
      /\ d[1] = "legacy" => p <= 28
      /\ d[1] = "writerResult" => p <= 29
      /\ d[1] = "legacyFic" => p <= 30
      /\ d[1] = "credential" => p <= 31
  BY PlanIs DEF Observed!ProvedBy
<1>2. CASE d[1] = "application"
  <2>1. \A f \in Fields \ {"application", "service", "grant", "credential"} : w[f] = az[f]
    BY <1>2 DEF Fields
  <2> QED
    BY <1>1, <1>2, <2>1 DEF Reached, Fields
<1>3. CASE d[1] = "service"
  <2>1. \A f \in Fields \ {"service", "grant"} : w[f] = az[f]
    BY <1>3 DEF Fields
  <2> QED
    BY <1>1, <1>3, <2>1 DEF Reached, Fields
<1>4. CASE d[1] # "application" /\ d[1] # "service"
  <2>1. \A f \in Fields \ {d[1]} : w[f] = az[f]
    BY <1>4
  <2> QED
    BY <1>1, <1>4, <2>1 DEF Reached, Fields
<1> QED
  BY <1>2, <1>3, <1>4

LEMMA ObservedDrifts ==
    ASSUME ObservedInv, Observed!Drift
    PROVE  ObservedInv'
<1>1. /\ UNCHANGED <<pinned, pcObserved, beganObserved, seenObserved, spare, pos, own, whyObserved, stops, made>>
      /\ drifts' = drifts + 1
  BY DEF Observed!Drift
<1>2. PICK d \in Drifts :
        /\ az' = Observed!Changed(d[1], d[2])
        /\ deleted' = deleted + IF d = <<"application", {}>> THEN Observed!Cardinality(az.application \ {1}) ELSE 0
        /\ still' = (/\ still /\ pcObserved # "done"
                     /\ pcObserved = "apply" => \A i \in 1 .. pos - 1 : Observed!Plan[i] # Observed!ProvedBy(d[1]))
        /\ d = <<d[1], d[2]>> /\ Foreign(d)
  BY DriftChanges
<1>3. ObservedTypes /\ Created /\ NoneThere /\ Progress
  BY DEF ObservedInv
<1>4. /\ IsAzure(az') /\ d[1] \in Fields \ {"role"}
      /\ \/ /\ d[1] = "application" /\ d[2] = {} /\ az'.application = {}
            /\ \A f \in Fields \ {"application", "service", "grant", "credential"} : az'[f] = az[f]
         \/ /\ d[1] = "application" /\ d[2] = {1} /\ az'.application = az.application \cup {1}
            /\ \A f \in Fields \ {"application"} : az'[f] = az[f]
         \/ /\ d[1] = "service" /\ d[2] = 0
            /\ \A f \in Fields \ {"service", "grant"} : az'[f] = az[f]
         \/ /\ d[1] # "application"
            /\ \A f \in Fields \ {d[1]} : az'[f] = az[f]
  <2>1. IsAzure(az) /\ Foreign(d) /\ az' = Observed!Changed(d[1], d[2])
    BY <1>2, <1>3 DEF ObservedTypes
  <2> QED
    BY ONLY <2>1, ForeignChanges
<1>5. deleted' \in Nat /\ Created'
  <2>1. made = deleted + Observed!Cardinality(az.application \ {1})
    BY <1>3, CreatedCounts DEF ObservedTypes
  <2>2. CASE d = <<"application", {}>>
    <3>1. az'.application = {}
      BY <1>4, <2>2
    <3>2. deleted' = made
      BY <1>2, <2>1, <2>2
    <3> QED
      BY <1>1, <1>3, <3>1, <3>2 DEF Created, ObservedTypes
  <2>3. CASE d # <<"application", {}>>
    <3>1. deleted' = deleted
      BY <1>2, <1>3, <2>3 DEF ObservedTypes
    <3>2. az'.application = az.application \/ az'.application = az.application \cup {1}
      BY <1>2, <1>4, <2>3 DEF Fields
    <3> QED
      BY <1>1, <1>3, <3>1, <3>2 DEF Created, ObservedTypes
  <2> QED
    BY <2>2, <2>3
<1>6. NoneThere'
  <2>1. az.application \subseteq {1} => az'.application \subseteq {1}
    BY <1>4 DEF Fields
  <2> QED
    BY <1>1, <1>3, <2>1 DEF NoneThere
<1>7. ObservedTypes' /\ Undisturbed'
  <2>1. still' \in BOOLEAN /\ drifts' \in Nat /\ drifts' # 0
    BY <1>1, <1>2, <1>3 DEF ObservedTypes
  <2>2. Undisturbed'
    BY <2>1 DEF Undisturbed
  <2>3. whyObserved' = <<>> \/ (pcObserved' = "idle" /\ Len(whyObserved') = 2)
    BY <1>1, <1>3 DEF ObservedTypes
  <2>4. pos' > 5 => own'.identity \in Somebody
    BY <1>1, <1>3 DEF ObservedTypes
  <2> QED
    BY <1>1, <1>3, <1>4, <1>5, <2>1, <2>2, <2>3, <2>4 DEF ObservedTypes
<1>8. Progress'
  <2>1. SUFFICES ASSUME still', pcObserved = "apply"
                 PROVE  Reached(az', own, pos)
    BY <1>1, <1>2 DEF Progress
  <2>2. still
    BY <1>2, <2>1
  <2>4. pos \in 1 .. 31
    BY <1>3, <2>1 DEF ObservedTypes
  <2>5. Reached(az, own, pos)
    BY <1>3, <2>1, <2>2 DEF Progress
  <2>3. \A i \in 1 .. pos - 1 : Observed!Plan[i] # Observed!ProvedBy(d[1])
    BY <1>2, <2>1
  <2> QED
    BY <1>4, <2>3, <2>4, <2>5, ReachedStays
<1> QED
  BY <1>5, <1>6, <1>7, <1>8 DEF ObservedInv

LEMMA AnswersAre ==
    ASSUME NEW asked, NEW a \in Observed!Answers(asked)
    PROVE  /\ DOMAIN a = asked
           /\ \A r \in asked : a[r] \in {Observed!Shown(r, az), Observed!Shown(r, beganObserved)}
           /\ beganObserved = az => a = [r \in asked |-> Observed!Shown(r, az)]
<1>1. PICK Late \in SUBSET asked :
        a = [r \in asked |-> Observed!Shown(r, IF r \in Late THEN az ELSE beganObserved)]
  BY DEF Observed!Answers
<1>2. \A r \in asked : a[r] = Observed!Shown(r, IF r \in Late THEN az ELSE beganObserved)
  BY <1>1
<1>3. \A r \in asked : a[r] \in {Observed!Shown(r, az), Observed!Shown(r, beganObserved)}
  <2>1. ASSUME NEW r \in asked
        PROVE  a[r] \in {Observed!Shown(r, az), Observed!Shown(r, beganObserved)}
    <3>1. CASE r \in Late
      BY <1>2, <3>1
    <3>2. CASE r \notin Late
      BY <1>2, <3>2
    <3> QED
      BY <3>1, <3>2
  <2> QED
    BY <2>1
<1>4. ASSUME beganObserved = az
      PROVE  a = [r \in asked |-> Observed!Shown(r, az)]
  <2>1. \A r \in asked : Observed!Shown(r, IF r \in Late THEN az ELSE beganObserved) = Observed!Shown(r, az)
    BY <1>4
  <2> QED
    BY <1>1, <2>1
<1> QED
  BY <1>1, <1>3, <1>4

(* A step of the observer or the reviewer, which changes nothing in Azure. *)
LEMMA ObservedWaits ==
    ASSUME ObservedInv, UNCHANGED <<az, pos, own, drifts, stops, made, deleted>>, pcObserved # "apply",
           pcObserved' \in {"idle", "batch", "tail", "template", "fresh"},
           pcObserved' \in {"idle", "batch"} => seenObserved' = <<>>,
           pcObserved' = "tail" => DOMAIN seenObserved' = Observed!Batch,
           pcObserved' \in {"template", "fresh"} => Judged(seenObserved'),
           pcObserved' = "fresh" => beganObserved' = az,
           spare' = <<>> \/ Judged(spare'),
           whyObserved' = <<>> \/ (pcObserved' = "idle" /\ Len(whyObserved') = 2),
           still' \in BOOLEAN
    PROVE  ObservedInv'
<1>1. ObservedTypes /\ Created /\ Undisturbed /\ pos = 0
  <2>1. ObservedTypes /\ Created /\ Undisturbed
    BY DEF ObservedInv
  <2>2. pos \in 0 .. 31 /\ (pos > 0 => pcObserved = "apply")
    BY <2>1 DEF ObservedTypes
  <2>3. pos = 0
    BY <2>2
  <2> QED
    BY <2>1, <2>3
<1>2. ObservedTypes'
  BY <1>1 DEF ObservedTypes
<1>3. Created' /\ Undisturbed'
  BY <1>1 DEF Created, Undisturbed
<1>4. NoneThere' /\ Progress'
  BY <1>1 DEF NoneThere, Progress
<1> QED
  BY <1>2, <1>3, <1>4 DEF ObservedInv

LEMMA ObservedOpens ==
    ASSUME ObservedInv, Observed!Observe
    PROVE  ObservedInv'
<1>1. /\ UNCHANGED <<az, pos, own, drifts, stops, made, deleted, seenObserved, spare, still>>
      /\ pcObserved = "idle" /\ pcObserved' = "batch" /\ whyObserved' = <<>>
  BY DEF Observed!Observe, Observed!Counts
<1>2. seenObserved = <<>> /\ (spare = <<>> \/ Judged(spare)) /\ still \in BOOLEAN
  BY <1>1 DEF ObservedInv, ObservedTypes
<1> QED
  BY <1>1, <1>2, ObservedWaits

LEMMA ObservedClosesBatch ==
    ASSUME ObservedInv, Observed!CloseBatch
    PROVE  ObservedInv'
<1>1. /\ UNCHANGED <<az, pos, own, drifts, stops, made, deleted, spare, still, whyObserved>>
      /\ pcObserved = "batch" /\ pcObserved' = "tail" /\ seenObserved' \in Observed!Answers(Observed!Batch)
  BY DEF Observed!CloseBatch, Observed!Counts
<1>2. whyObserved = <<>> /\ (spare = <<>> \/ Judged(spare)) /\ still \in BOOLEAN
  BY <1>1 DEF ObservedInv, ObservedTypes
<1>3. DOMAIN seenObserved' = Observed!Batch
  BY <1>1, AnswersAre
<1> QED
  BY <1>1, <1>2, <1>3, ObservedWaits

LEMMA NoneRefused ==
    ASSUME NEW s, DOMAIN s = Observed!Batch \cup Observed!Boundary,
           \A op \in Observed!Ops : Observed!Admission(op, s) # Observed!Refused, ~ Observed!Marked(s)
    PROVE  Judged(s)
<1>1. {"claim", "application", "service", "grant", "fic", "writer", "definitions", "assignments",
       "bridge", "attach", "addRule", "settings", "canary", "legacyFic"} \subseteq Observed!Ops
  BY OpsAre, PlanIs
<1>2. Observed!Claim(s) # Observed!Refused
  BY <1>1 DEF Observed!Admission, Observed!Adds, Observed!Drops
<1>3. Observed!Application(s) # Observed!Refused
  BY <1>1 DEF Observed!Admission, Observed!Adds, Observed!Drops
<1>4. Observed!Service(s) # Observed!Refused
  BY <1>1 DEF Observed!Admission, Observed!Adds, Observed!Drops
<1>5. Observed!Grant(s) # Observed!Refused
  BY <1>1 DEF Observed!Admission, Observed!Adds, Observed!Drops
<1>6. Observed!Credential(s) # Observed!Refused
  BY <1>1 DEF Observed!Admission, Observed!Adds, Observed!Drops
<1>7. Observed!Writer(s) # Observed!Refused
  BY <1>1 DEF Observed!Admission, Observed!Adds, Observed!Drops
<1>8. Observed!RoleDefinitions(s) # Observed!Refused
  BY <1>1 DEF Observed!Admission, Observed!Adds, Observed!Drops
<1>9. Observed!Assignments(s) # Observed!Refused
  BY <1>1 DEF Observed!Admission, Observed!Adds, Observed!Drops
<1>10. Observed!Bridge(s) # Observed!Refused
  BY <1>1 DEF Observed!Admission, Observed!Adds, Observed!Drops
<1>11. Observed!Attachment(s) # Observed!Refused
  BY <1>1 DEF Observed!Admission, Observed!Adds, Observed!Drops
<1>12. Observed!UploaderRule(s) # Observed!Refused
  BY <1>1 DEF Observed!Admission, Observed!Adds, Observed!Drops
<1>13. Observed!Settings(s) # Observed!Refused
  BY <1>1 DEF Observed!Admission, Observed!Adds, Observed!Drops
<1>14. Observed!Canary(s) # Observed!Refused
  BY <1>1 DEF Observed!Admission, Observed!Adds, Observed!Drops
<1>15. Observed!LegacyFic(s) # Observed!Refused
  BY <1>1 DEF Observed!Admission, Observed!Adds, Observed!Drops
<1>16. s["markers"] = "none"
  BY DEF Observed!Marked, Observed!Residual
<1> QED
  BY <1>2, <1>3, <1>4, <1>5, <1>6, <1>7, <1>8, <1>9, <1>10, <1>11, <1>12, <1>13, <1>14, <1>15, <1>16 DEF Judged

LEMMA ObservedJudges ==
    ASSUME ObservedInv, Observed!Judge
    PROVE  ObservedInv'
<1>1. /\ UNCHANGED <<az, pos, own, drifts, stops, made, deleted, spare, still>> /\ pcObserved = "tail"
  BY DEF Observed!Judge, Observed!Counts
<1>2. whyObserved = <<>> /\ (spare = <<>> \/ Judged(spare)) /\ still \in BOOLEAN
  BY <1>1 DEF ObservedInv, ObservedTypes
<1>3. ASSUME NEW a, NEW b, Observed!Refuse(a, b)
      PROVE  ObservedInv'
  <2>1. pcObserved' = "idle" /\ seenObserved' = <<>> /\ Len(whyObserved') = 2
    BY <1>3 DEF Observed!Refuse
  <2> QED
    BY <1>1, <1>2, <2>1, ObservedWaits
<1>4. ASSUME NEW s, DOMAIN s = Observed!Batch \cup Observed!Boundary,
             \A op \in Observed!Ops : Observed!Admission(op, s) # Observed!Refused, ~ Observed!Marked(s),
             pcObserved' = "template" /\ seenObserved' = s /\ UNCHANGED whyObserved
      PROVE  ObservedInv'
  <2>1. Judged(seenObserved')
    BY <1>4, NoneRefused
  <2> QED
    BY <1>1, <1>2, <1>4, <2>1, ObservedWaits
<1>5. PICK s : /\ DOMAIN s = Observed!Batch \cup Observed!Boundary
               /\ \/ \E a, b : Observed!Refuse(a, b)
                  \/ /\ {op \in Observed!Ops : Observed!Admission(op, s) = Observed!Refused} = {}
                     /\ ~ Observed!Marked(s)
                     /\ pcObserved' = "template" /\ seenObserved' = s /\ UNCHANGED whyObserved
  <2>1. PICK rest \in Observed!Answers(Observed!Boundary) :
          LET s   == [r \in Observed!Batch \cup Observed!Boundary |->
                        IF r \in Observed!Batch THEN seenObserved[r] ELSE rest[r]]
              bad == {op \in Observed!Ops : Observed!Admission(op, s) = Observed!Refused}
          IN IF bad # {} THEN Observed!Refuse("observe", Observed!FirstOf(bad))
             ELSE IF Observed!Marked(s) THEN Observed!Refuse("observe", "markers")
             ELSE pcObserved' = "template" /\ seenObserved' = s /\ UNCHANGED whyObserved
    BY Zenon DEF Observed!Judge
  <2> DEFINE s   == [r \in Observed!Batch \cup Observed!Boundary |->
                       IF r \in Observed!Batch THEN seenObserved[r] ELSE rest[r]]
             bad == {op \in Observed!Ops : Observed!Admission(op, s) = Observed!Refused}
  <2>2. IF bad # {} THEN Observed!Refuse("observe", Observed!FirstOf(bad))
        ELSE IF Observed!Marked(s) THEN Observed!Refuse("observe", "markers")
        ELSE pcObserved' = "template" /\ seenObserved' = s /\ UNCHANGED whyObserved
    BY <2>1
  <2>3. DOMAIN s = Observed!Batch \cup Observed!Boundary
    OBVIOUS
  <2> HIDE DEF s
  <2> QED
    BY <2>2, <2>3
<1> QED
  BY <1>3, <1>4, <1>5

LEMMA ObservedKeeps ==
    ASSUME ObservedInv, Observed!Keep
    PROVE  ObservedInv'
<1>1. /\ UNCHANGED <<az, pos, own, drifts, stops, made, deleted, whyObserved, still>>
      /\ pcObserved = "template" /\ pcObserved' = "idle" /\ spare' = seenObserved /\ seenObserved' = <<>>
  BY DEF Observed!Keep, Observed!Counts
<1>2. whyObserved = <<>> /\ Judged(seenObserved) /\ still \in BOOLEAN
  BY <1>1 DEF ObservedInv, ObservedTypes
<1> QED
  BY <1>1, <1>2, ObservedWaits

LEMMA ObservedUsesSpare ==
    ASSUME ObservedInv, Observed!UseSpare
    PROVE  ObservedInv'
<1>1. /\ UNCHANGED <<az, pos, own, drifts, stops, made, deleted, still>> /\ pcObserved = "idle" /\ spare # <<>>
      /\ pcObserved' = "template" /\ seenObserved' = spare /\ spare' = <<>> /\ whyObserved' = <<>>
  BY DEF Observed!UseSpare, Observed!Counts
<1>2. Judged(spare) /\ still \in BOOLEAN
  BY <1>1 DEF ObservedInv, ObservedTypes
<1> QED
  BY <1>1, <1>2, ObservedWaits

LEMMA ObservedStarts ==
    ASSUME ObservedInv, Observed!Start
    PROVE  ObservedInv'
<1>1. /\ UNCHANGED <<az, pos, own, drifts, stops, made, deleted, spare>> /\ pcObserved = "template"
      /\ \/ \E a, b : Observed!Refuse(a, b) /\ UNCHANGED still
         \/ /\ pcObserved' = "fresh" /\ beganObserved' = az /\ still' = TRUE
            /\ UNCHANGED <<seenObserved, whyObserved>>
  BY Zenon DEF Observed!Start, Observed!Counts
<1>2. whyObserved = <<>> /\ Judged(seenObserved) /\ still \in BOOLEAN /\ (spare = <<>> \/ Judged(spare))
  BY <1>1 DEF ObservedInv, ObservedTypes
<1>3. ASSUME NEW a, NEW b, Observed!Refuse(a, b), UNCHANGED still
      PROVE  ObservedInv'
  <2>1. pcObserved' = "idle" /\ seenObserved' = <<>> /\ Len(whyObserved') = 2
    BY <1>3 DEF Observed!Refuse
  <2> QED
    BY <1>1, <1>2, <1>3, <2>1, ObservedWaits
<1>4. CASE /\ pcObserved' = "fresh" /\ beganObserved' = az /\ still' = TRUE
           /\ UNCHANGED <<seenObserved, whyObserved>>
  BY <1>1, <1>2, <1>4, ObservedWaits
<1> QED
  BY <1>1, <1>3, <1>4

LEMMA ObservedRecovers ==
    ASSUME ObservedInv, Observed!Recover
    PROVE  ObservedInv'
<1>1. /\ UNCHANGED <<pos, own, drifts, stops, made, deleted, spare, still, pcObserved, seenObserved>>
      /\ pcObserved = "idle" /\ az' = Observed!Compensated(az) /\ whyObserved' = <<>>
  BY DEF Observed!Recover, Observed!Counts
<1>2. ObservedTypes /\ Created /\ Undisturbed
  BY DEF ObservedInv
<1>3. IsAzure(az') /\ az'.application = az.application /\ az'.settings = "empty"
  BY <1>1, <1>2, CompensatedIs DEF ObservedTypes, Fields
<1>4. ObservedTypes'
  BY <1>1, <1>2, <1>3 DEF ObservedTypes
<1>5. Created' /\ NoneThere' /\ Undisturbed' /\ Progress'
  BY <1>1, <1>2, <1>3 DEF Created, NoneThere, Undisturbed, Progress
<1> QED
  BY <1>4, <1>5 DEF ObservedInv

LEMMA ObservedInterrupts ==
    ASSUME ObservedInv, Observed!Interrupt
    PROVE  ObservedInv'
<1>1. /\ UNCHANGED <<drifts, made, deleted, spare, still, whyObserved>>
      /\ pcObserved = "apply" /\ az' \in {Observed!Compensated(az), az} /\ stops' = stops + 1
      /\ pcObserved' = "idle" /\ pos' = 0 /\ seenObserved' = <<>> /\ own' = [application |-> 0, identity |-> 0]
  BY DEF Observed!Interrupt, Observed!End, Observed!NoneOwned
<1>2. ObservedTypes /\ Created /\ Undisturbed
  BY DEF ObservedInv
<1>3. /\ IsAzure(az') /\ az'.application = az.application
      /\ az'.site = az.site /\ (az'.settings = "empty" \/ az'.settings = az.settings)
  BY <1>1, <1>2, CompensatedIs DEF ObservedTypes, Fields
<1>4. ObservedTypes'
  BY <1>1, <1>2, <1>3 DEF ObservedTypes
<1>5. Created' /\ NoneThere' /\ Undisturbed' /\ Progress'
  BY <1>1, <1>2, <1>3 DEF Created, NoneThere, Undisturbed, Progress
<1> QED
  BY <1>4, <1>5 DEF ObservedInv

(* The families of the operations, one by one.                             *)
LEMMA AdmissionIs ==
    ASSUME NEW s
    PROVE  /\ Observed!Admission("claim", s) = Observed!Claim(s)
           /\ Observed!Admission("application", s) = Observed!Application(s)
           /\ Observed!Admission("service", s) = Observed!Service(s)
           /\ Observed!Admission("grant", s) = Observed!Grant(s)
           /\ Observed!Admission("identity", s) = Observed!Present(s["identity"], 0)
           /\ Observed!Admission("writer", s) = Observed!Writer(s)
           /\ Observed!Admission("lock", s) = Observed!LockContainer(s)
           /\ Observed!Admission("key", s) = Observed!Present(s["key"], "absent")
           /\ Observed!Admission("definitions", s) = Observed!RoleDefinitions(s)
           /\ Observed!Admission("bridge", s) = Observed!Bridge(s)
           /\ Observed!Admission("assignments", s) = Observed!Assignments(s)
           /\ Observed!Admission("attach", s) = Observed!Attachment(s)
           /\ Observed!Admission("addRule", s) = Observed!UploaderRule(s)
           /\ Observed!Admission("addController", s) = Observed!TemporaryRole("addController", s)
           /\ Observed!Admission("empty", s) = Observed!As("denied", "apply")
           /\ Observed!Admission("dropController", s) = Observed!TemporaryRole("dropController", s)
           /\ Observed!Admission("addPackage", s) = Observed!TemporaryRole("addPackage", s)
           /\ Observed!Admission("package", s) = Observed!As("denied", "apply")
           /\ Observed!Admission("dropPackage", s) = Observed!TemporaryRole("dropPackage", s)
           /\ Observed!Admission("addFence", s) = Observed!TemporaryRole("addFence", s)
           /\ Observed!Admission("fence", s) = Observed!FenceBlob
           /\ Observed!Admission("dropFence", s) = Observed!TemporaryRole("dropFence", s)
           /\ Observed!Admission("removeRule", s) = Observed!As("owned-present", "apply")
           /\ Observed!Admission("settings", s) = Observed!Settings(s)
           /\ Observed!Admission("worm", s) = Observed!PackageWorm(s)
           /\ Observed!Admission("canary", s) = Observed!Canary(s)
           /\ Observed!Admission("accepted", s) = Observed!ExtendWorm(s)
           /\ Observed!Admission("detach", s) = Observed!Detach(s)
           /\ Observed!Admission("writerResult", s) = Observed!LegacyAssignment(s)
           /\ Observed!Admission("legacyFic", s) = Observed!LegacyFic(s)
           /\ Observed!Admission("fic", s) = Observed!Credential(s)
BY DEF Observed!Admission, Observed!Adds, Observed!Drops

LEMMA ResultIs ==
    /\ Observed!Result("claim") = Observed!Does(TRUE, az)
    /\ Observed!Result("application") = Observed!PostApplication
    /\ Observed!Result("service") = Observed!ApplyGraph("service")
    /\ Observed!Result("grant") = Observed!ApplyGraph("grant")
    /\ Observed!Result("identity") = Observed!ApplyResource("identity")
    /\ Observed!Result("lock") = Observed!ApplyResource("lock")
    /\ Observed!Result("key") = Observed!ApplyResource("key")
    /\ Observed!Result("definitions") = Observed!ApplyMatrix("definitions")
    /\ Observed!Result("bridge") = Observed!ApplySite("bridge")
    /\ Observed!Result("assignments") = Observed!ApplyMatrix("assignments")
    /\ Observed!Result("attach") = Observed!ApplySite("attach")
    /\ Observed!Result("addRule") = Observed!ApplyTemporary("addRule")
    /\ Observed!Result("addController") = Observed!ApplyTemporary("addController")
    /\ Observed!Result("empty") = Observed!ApplyBlob("empty")
    /\ Observed!Result("dropController") = Observed!ApplyTemporary("dropController")
    /\ Observed!Result("addPackage") = Observed!ApplyTemporary("addPackage")
    /\ Observed!Result("package") = Observed!ApplyBlob("package")
    /\ Observed!Result("dropPackage") = Observed!ApplyTemporary("dropPackage")
    /\ Observed!Result("addFence") = Observed!ApplyTemporary("addFence")
    /\ Observed!Result("fence") = Observed!ApplyBlob("fence")
    /\ Observed!Result("dropFence") = Observed!ApplyTemporary("dropFence")
    /\ Observed!Result("removeRule") = Observed!ApplyTemporary("removeRule")
    /\ Observed!Result("settings") = Observed!ApplyBridge("settings")
    /\ Observed!Result("worm") = Observed!ApplyWorm("worm")
    /\ Observed!Result("canary") = Observed!ApplyBridge("canary")
    /\ Observed!Result("accepted") = Observed!ApplyWorm("accepted")
    /\ Observed!Result("detach") = Observed!ApplyRetirement("detach")
    /\ Observed!Result("writerResult") = Observed!ApplyRetirement("writerResult")
    /\ Observed!Result("legacyFic") = Observed!ApplyRetirement("legacyFic")
    /\ Observed!Result("fic") = Observed!ApplyGraph("fic")
BY DEF Observed!Result, Observed!Adds, Observed!Drops, Observed!MayBeDenied

LEMMA ProvedIs ==
    /\ Observed!Proved("application") = Observed!ProvedPublisher("application")
    /\ Observed!Proved("service") = Observed!ProvedPublisher("service")
    /\ Observed!Proved("grant") = Observed!ProvedPublisher("grant")
    /\ Observed!Proved("identity") = Observed!ProvedResource("identity")
    /\ Observed!Proved("writer") = Observed!ProvedResource("writer")
    /\ Observed!Proved("lock") = Observed!ProvedResource("lock")
    /\ Observed!Proved("key") = Observed!ProvedResource("key")
    /\ Observed!Proved("bridge") = Observed!ProvedResource("bridge")
    /\ Observed!Proved("attach") = Observed!ProvedResource("attach")
    /\ Observed!Proved("fence") = Observed!ProvedPolicy("fence")
    /\ Observed!Proved("worm") = Observed!ProvedPolicy("worm")
    /\ Observed!Proved("accepted") = Observed!ProvedPolicy("accepted")
    /\ Observed!Proved("detach") = Observed!ProvedResource("detach")
    /\ Observed!Proved("writerResult") = Observed!ProvedPolicy("writerResult")
    /\ Observed!Proved("fic") = Observed!ProvedPublisher("fic")
BY DEF Observed!Proved

LEMMA ObservedAdmits ==
    ASSUME ObservedInv, Observed!Admit
    PROVE  ObservedInv'
<1>1. /\ UNCHANGED <<az, drifts, stops, made, deleted, spare, still>> /\ pcObserved = "fresh"
      /\ \E fresh \in Observed!Answers(Observed!Batch \cup Observed!Boundary) :
           \/ /\ fresh = seenObserved /\ pcObserved' = "apply" /\ pos' = 1
              /\ own' = [application |-> 0, identity |-> 0] /\ UNCHANGED <<seenObserved, whyObserved>>
           \/ Observed!Refuse("fresh", "projection") /\ UNCHANGED <<pos, own>>
  BY DEF Observed!Admit, Observed!Same, Observed!NoneOwned, Observed!Counts
<1>2. ObservedTypes /\ Created /\ Undisturbed /\ NoneThere
  BY DEF ObservedInv
<1>3. still \in BOOLEAN /\ (spare = <<>> \/ Judged(spare)) /\ whyObserved = <<>> /\ Judged(seenObserved)
  BY <1>1, <1>2 DEF ObservedTypes
<1>4. CASE Observed!Refuse("fresh", "projection") /\ UNCHANGED <<pos, own>>
  <2>1. pcObserved' = "idle" /\ seenObserved' = <<>> /\ Len(whyObserved') = 2
    BY <1>4 DEF Observed!Refuse
  <2> QED
    BY <1>1, <1>3, <1>4, <2>1, ObservedWaits
<1>5. ASSUME NEW fresh \in Observed!Answers(Observed!Batch \cup Observed!Boundary), fresh = seenObserved,
             pcObserved' = "apply", pos' = 1, own' = [application |-> 0, identity |-> 0],
             UNCHANGED <<seenObserved, whyObserved>>
      PROVE  ObservedInv'
  <2>1. ObservedTypes'
    BY <1>1, <1>2, <1>3, <1>5 DEF ObservedTypes
  <2>2. Created' /\ Undisturbed'
    BY <1>1, <1>2, <1>5 DEF Created, Undisturbed
  <2>3. Progress'
    BY <1>5 DEF Progress, Reached
  <2>4. NoneThere'
    <3>1. "application" \in Observed!Batch
      BY DEF Observed!Batch
    <3>2. seenObserved["application"] \in
            {Observed!Shown("application", az), Observed!Shown("application", beganObserved)}
      BY <1>5, <3>1, AnswersAre
    <3>3. \A w : Observed!Shown("application", w) = w.application
      BY DEF Observed!Shown
    <3> QED
      BY <1>1, <1>2, <1>5, <3>2, <3>3 DEF NoneThere
  <2> QED
    BY <2>1, <2>2, <2>3, <2>4 DEF ObservedInv
<1> QED
  BY <1>1, <1>4, <1>5

LEMMA Does_claim ==
    ASSUME ObservedTypes, pcObserved = "apply", pos = 1, NEW r, r = Outcome("claim")
    PROVE  Fits(1, r)
<1> DEFINE a == Observed!Admission("claim", seenObserved)
<1>1. Judged(seenObserved) /\ IsAzure(az) /\ az = [f \in Fields |-> az[f]]
  BY DEF ObservedTypes, IsAzure
<1>2. r.w = az
  <2>1. a = Observed!Claim(seenObserved)
    BY AdmissionIs
  <2>2. a.decision \notin {"adopt", "pending"}
    BY <2>1 DEF Observed!As, Observed!Refused, Observed!Claim
  <2>3. CASE a.decision \notin {"adopt", "pending"}
    <3>1. r = Observed!Result("claim")
      BY <2>3 DEF Outcome
    <3>2. Observed!Result("claim") = Observed!Does(TRUE,
                      az)
      BY ResultIs DEF Observed!Put
    <3>3. r.w = az
      <4>1. r = Observed!Does(TRUE,
                      az)
        BY ONLY <3>1, <3>2
      <4> QED
        BY ONLY <4>1 DEF Observed!Does
    <3> QED
      BY <3>3
  <2> QED
    BY <2>2, <2>3
<1>5. Observed!Owned(Observed!Plan[1], r.w) = own
  BY PlanIs DEF Observed!Owned
<1>6. ASSUME r.ok, Reached(az, own, 1)
      PROVE  Reached(r.w, own, 2)
  BY <1>2, <1>6 DEF Reached, Fields
<1> QED
  BY <1>1, <1>2, <1>5, <1>6 DEF Fits

LEMMA Does_service ==
    ASSUME ObservedTypes, pcObserved = "apply", pos = 3, NEW r, r = Outcome("service")
    PROVE  Fits(3, r)
<1> DEFINE a == Observed!Admission("service", seenObserved)
<1>1. Judged(seenObserved) /\ IsAzure(az) /\ az = [f \in Fields |-> az[f]]
      /\ (seenObserved["application"] # {} => seenObserved["application"] = {own.application})
  BY DEF ObservedTypes, IsAzure
<1>2. r.w \in {az, [az EXCEPT !["service"] = own.application]} /\ (r.ok => r.w.service = own.application)
  <2>1. a = Observed!Service(seenObserved)
    BY AdmissionIs
  <2>2. CASE a.decision \in {"adopt", "pending"}
    <3>1. r.w = az /\ (r.ok => Observed!Proved("service"))
      BY <2>2 DEF Outcome
    <3>2. Observed!Proved("service") => az.service = own.application
      <4>1. seenObserved["service"].of \in seenObserved["application"]
        BY <2>1, <2>2 DEF Observed!Service, Observed!IsAdopted, Observed!As, Observed!Refused
      <4>2. seenObserved["service"].of = own.application
        BY <1>1, <4>1
      <4> QED
        BY <4>2, ProvedIs DEF Observed!ProvedPublisher
    <3> QED
      BY <3>1, <3>2
  <2>3. CASE a.decision \notin {"adopt", "pending"}
    <3>1. r = Observed!Result("service")
      BY <2>3 DEF Outcome
    <3>2. Observed!Result("service") = Observed!Does(az.service = 0 /\ own.application \in az.application,
                      [az EXCEPT !["service"] = own.application])
      BY ResultIs DEF Observed!ApplyGraph, Observed!Put
    <3>3. r.w \in {az, [az EXCEPT !["service"] = own.application]} /\ (r.ok => r.w = [az EXCEPT !["service"] = own.application])
      <4>1. r = Observed!Does(az.service = 0 /\ own.application \in az.application,
                      [az EXCEPT !["service"] = own.application])
        BY ONLY <3>1, <3>2
      <4> QED
        BY ONLY <4>1 DEF Observed!Does
    <3>4. [az EXCEPT !["service"] = own.application].service = own.application
      BY <1>1 DEF Fields
    <3> QED
      BY <3>3, <3>4
  <2> QED
    BY <2>2, <2>3
<1>3. /\ r.w = [f \in Fields |-> r.w[f]] /\ r.w.service \in {az.service, own.application}
      /\ \A f \in Fields \ {"service"} : r.w[f] = az[f]
  BY <1>1, <1>2 DEF Fields
<1>4. IsAzure(r.w)
  BY <1>1, <1>3 DEF IsAzure, Fields, Roles, Somebody, Exactness
<1>5. Observed!Owned(Observed!Plan[3], r.w) = own
  BY PlanIs DEF Observed!Owned
<1>6. ASSUME r.ok, Reached(az, own, 3)
      PROVE  Reached(r.w, own, 4)
  BY <1>2, <1>3, <1>6 DEF Reached, Fields
<1>7. r.w.application = az.application /\ (r.w.site = "absent" => az.site = "absent" /\ r.w.settings = az.settings)
  BY <1>3 DEF Fields
<1> QED
  BY <1>4, <1>5, <1>6, <1>7 DEF Fits

LEMMA Does_grant ==
    ASSUME ObservedTypes, pcObserved = "apply", pos = 4, NEW r, r = Outcome("grant")
    PROVE  Fits(4, r)
<1> DEFINE a == Observed!Admission("grant", seenObserved)
<1>1. Judged(seenObserved) /\ IsAzure(az) /\ az = [f \in Fields |-> az[f]]
      /\ (seenObserved["application"] # {} => seenObserved["application"] = {own.application})
  BY DEF ObservedTypes, IsAzure
<1>2. r.w \in {az, [az EXCEPT !["grant"] = "exact"]} /\ (r.ok => r.w.grant = "exact")
  <2>1. a = Observed!Grant(seenObserved)
    BY AdmissionIs
  <2>2. CASE a.decision \in {"adopt", "pending"}
    <3>1. r.w = az /\ (r.ok => Observed!Proved("grant"))
      BY <2>2 DEF Outcome
    <3>2. Observed!Proved("grant") => az.grant = "exact"
      BY ProvedIs DEF Observed!ProvedPublisher
    <3> QED
      BY <3>1, <3>2
  <2>3. CASE a.decision \notin {"adopt", "pending"}
    <3>1. r = Observed!Result("grant")
      BY <2>3 DEF Outcome
    <3>2. Observed!Result("grant") = Observed!Does(az.service = own.application /\ az.grant = "none",
                      [az EXCEPT !["grant"] = "exact"])
      BY ResultIs DEF Observed!ApplyGraph, Observed!Put
    <3>3. r.w \in {az, [az EXCEPT !["grant"] = "exact"]} /\ (r.ok => r.w = [az EXCEPT !["grant"] = "exact"])
      <4>1. r = Observed!Does(az.service = own.application /\ az.grant = "none",
                      [az EXCEPT !["grant"] = "exact"])
        BY ONLY <3>1, <3>2
      <4> QED
        BY ONLY <4>1 DEF Observed!Does
    <3>4. [az EXCEPT !["grant"] = "exact"].grant = "exact"
      BY <1>1 DEF Fields
    <3> QED
      BY <3>3, <3>4
  <2> QED
    BY <2>2, <2>3
<1>3. /\ r.w = [f \in Fields |-> r.w[f]] /\ r.w.grant \in {az.grant, "exact"}
      /\ \A f \in Fields \ {"grant"} : r.w[f] = az[f]
  BY <1>1, <1>2 DEF Fields
<1>4. IsAzure(r.w)
  BY <1>1, <1>3 DEF IsAzure, Fields, Roles, Somebody, Exactness
<1>5. Observed!Owned(Observed!Plan[4], r.w) = own
  BY PlanIs DEF Observed!Owned
<1>6. ASSUME r.ok, Reached(az, own, 4)
      PROVE  Reached(r.w, own, 5)
  BY <1>2, <1>3, <1>6 DEF Reached, Fields
<1>7. r.w.application = az.application /\ (r.w.site = "absent" => az.site = "absent" /\ r.w.settings = az.settings)
  BY <1>3 DEF Fields
<1> QED
  BY <1>4, <1>5, <1>6, <1>7 DEF Fits

LEMMA Does_writer ==
    ASSUME ObservedTypes, pcObserved = "apply", pos = 6, NEW r, r = Outcome("writer")
    PROVE  Fits(6, r)
<1> DEFINE a == Observed!Admission("writer", seenObserved)
<1>1. Judged(seenObserved) /\ IsAzure(az) /\ az = [f \in Fields |-> az[f]] /\ own.identity \in Somebody
  BY DEF ObservedTypes, IsAzure
<1>2. r.w = az /\ (r.ok => r.w.writer = 1)
  <2>1. a = Observed!Writer(seenObserved)
    BY AdmissionIs
  <2>2. CASE a.decision \in {"adopt", "pending"}
    <3>1. r.w = az /\ (r.ok => Observed!Proved("writer"))
      BY <2>2 DEF Outcome
    <3>2. Observed!Proved("writer") => az.writer = 1
      BY ProvedIs DEF Observed!ProvedResource
    <3> QED
      BY <3>1, <3>2
  <2>3. a.decision = "adopt"
    BY <1>1, <2>1 DEF Judged, Observed!Writer, Observed!As, Observed!Refused
  <2> QED
    BY <2>2, <2>3
<1>5. Observed!Owned(Observed!Plan[6], r.w) = own
  BY PlanIs DEF Observed!Owned
<1>6. ASSUME r.ok, Reached(az, own, 6)
      PROVE  Reached(r.w, own, 7)
  BY <1>2, <1>6 DEF Reached, Fields
<1> QED
  BY <1>1, <1>2, <1>5, <1>6 DEF Fits

LEMMA Does_lock ==
    ASSUME ObservedTypes, pcObserved = "apply", pos = 7, NEW r, r = Outcome("lock")
    PROVE  Fits(7, r)
<1> DEFINE a == Observed!Admission("lock", seenObserved)
<1>1. Judged(seenObserved) /\ IsAzure(az) /\ az = [f \in Fields |-> az[f]] /\ own.identity \in Somebody
  BY DEF ObservedTypes, IsAzure
<1>2. r.w \in {az, [az EXCEPT !["lock"] = "empty"]}
  <2>1. a = Observed!LockContainer(seenObserved)
    BY AdmissionIs
  <2>2. CASE a.decision \in {"adopt", "pending"}
    <3>1. r.w = az /\ (r.ok => Observed!Proved("lock"))
      BY <2>2 DEF Outcome
    <3> QED
      BY <3>1
  <2>3. CASE a.decision \notin {"adopt", "pending"}
    <3>1. r = Observed!Result("lock")
      BY <2>3 DEF Outcome
    <3>2. Observed!Result("lock") = Observed!Does(TRUE, IF az.lock # "absent" THEN az ELSE [az EXCEPT !["lock"] = "empty"])
      BY ResultIs DEF Observed!ApplyResource, Observed!Put
    <3>3. r.w \in {az, [az EXCEPT !["lock"] = "empty"]}
      <4>1. r = Observed!Does(TRUE, IF az.lock # "absent" THEN az ELSE [az EXCEPT !["lock"] = "empty"])
        BY ONLY <3>1, <3>2
      <4> QED
        BY ONLY <4>1 DEF Observed!Does
    <3> QED
      BY <3>3
  <2> QED
    BY <2>2, <2>3
<1>3. /\ r.w = [f \in Fields |-> r.w[f]] /\ r.w.lock \in {az.lock, "empty"}
      /\ \A f \in Fields \ {"lock"} : r.w[f] = az[f]
  BY <1>1, <1>2 DEF Fields
<1>4. IsAzure(r.w)
  BY <1>1, <1>3 DEF IsAzure, Fields, Roles, Somebody, Exactness
<1>5. Observed!Owned(Observed!Plan[7], r.w) = own
  BY PlanIs DEF Observed!Owned
<1>6. ASSUME r.ok, Reached(az, own, 7)
      PROVE  Reached(r.w, own, 8)
  BY <1>2, <1>3, <1>6 DEF Reached, Fields
<1>7. r.w.application = az.application /\ (r.w.site = "absent" => az.site = "absent" /\ r.w.settings = az.settings)
  BY <1>3 DEF Fields
<1> QED
  BY <1>4, <1>5, <1>6, <1>7 DEF Fits

LEMMA Does_key ==
    ASSUME ObservedTypes, pcObserved = "apply", pos = 8, NEW r, r = Outcome("key")
    PROVE  Fits(8, r)
<1> DEFINE a == Observed!Admission("key", seenObserved)
<1>1. Judged(seenObserved) /\ IsAzure(az) /\ az = [f \in Fields |-> az[f]] /\ own.identity \in Somebody
  BY DEF ObservedTypes, IsAzure
<1>2. r.w \in {az, [az EXCEPT !["key"] = "exact"]} /\ (r.ok => r.w.key = "exact")
  <2>1. a = Observed!Present(seenObserved["key"], "absent")
    BY AdmissionIs
  <2>2. CASE a.decision \in {"adopt", "pending"}
    <3>1. r.w = az /\ (r.ok => Observed!Proved("key"))
      BY <2>2 DEF Outcome
    <3>2. Observed!Proved("key") => az.key = "exact"
      BY ProvedIs DEF Observed!ProvedResource
    <3> QED
      BY <3>1, <3>2
  <2>3. CASE a.decision \notin {"adopt", "pending"}
    <3>1. r = Observed!Result("key")
      BY <2>3 DEF Outcome
    <3>2. Observed!Result("key") = Observed!Does(az.key = "absent",
                      [az EXCEPT !["key"] = "exact"])
      BY ResultIs DEF Observed!ApplyResource, Observed!Put
    <3>3. r.w \in {az, [az EXCEPT !["key"] = "exact"]} /\ (r.ok => r.w = [az EXCEPT !["key"] = "exact"])
      <4>1. r = Observed!Does(az.key = "absent",
                      [az EXCEPT !["key"] = "exact"])
        BY ONLY <3>1, <3>2
      <4> QED
        BY ONLY <4>1 DEF Observed!Does
    <3>4. [az EXCEPT !["key"] = "exact"].key = "exact"
      BY <1>1 DEF Fields
    <3> QED
      BY <3>3, <3>4
  <2> QED
    BY <2>2, <2>3
<1>3. /\ r.w = [f \in Fields |-> r.w[f]] /\ r.w.key \in {az.key, "exact"}
      /\ \A f \in Fields \ {"key"} : r.w[f] = az[f]
  BY <1>1, <1>2 DEF Fields
<1>4. IsAzure(r.w)
  BY <1>1, <1>3 DEF IsAzure, Fields, Roles, Somebody, Exactness
<1>5. Observed!Owned(Observed!Plan[8], r.w) = own
  BY PlanIs DEF Observed!Owned
<1>6. ASSUME r.ok, Reached(az, own, 8)
      PROVE  Reached(r.w, own, 9)
  BY <1>2, <1>3, <1>6 DEF Reached, Fields
<1>7. r.w.application = az.application /\ (r.w.site = "absent" => az.site = "absent" /\ r.w.settings = az.settings)
  BY <1>3 DEF Fields
<1> QED
  BY <1>4, <1>5, <1>6, <1>7 DEF Fits

LEMMA Does_definitions ==
    ASSUME ObservedTypes, pcObserved = "apply", pos = 9, NEW r, r = Outcome("definitions")
    PROVE  Fits(9, r)
<1> DEFINE a == Observed!Admission("definitions", seenObserved)
<1>1. Judged(seenObserved) /\ IsAzure(az) /\ az = [f \in Fields |-> az[f]] /\ own.identity \in Somebody
  BY DEF ObservedTypes, IsAzure
<1>2. r.w \in {az, [az EXCEPT !["definitions"] = [d \in Observed!Definitions |-> "exact"]]} /\ (r.ok => r.w.definitions = [d \in {"fence", "others"} |-> "exact"])
  <2>1. a = Observed!RoleDefinitions(seenObserved)
    BY AdmissionIs
  <2>2. a.decision \notin {"adopt", "pending"}
    BY <2>1 DEF Observed!As, Observed!Refused, Observed!RoleDefinitions
  <2>3. CASE a.decision \notin {"adopt", "pending"}
    <3>1. r = Observed!Result("definitions")
      BY <2>3 DEF Outcome
    <3>2. Observed!Result("definitions") = Observed!Does(az.definitions = seenObserved["definitions"],
                      [az EXCEPT !["definitions"] = [d \in Observed!Definitions |-> "exact"]])
      BY ResultIs DEF Observed!ApplyMatrix, Observed!Put
    <3>3. r.w \in {az, [az EXCEPT !["definitions"] = [d \in Observed!Definitions |-> "exact"]]} /\ (r.ok => r.w = [az EXCEPT !["definitions"] = [d \in Observed!Definitions |-> "exact"]])
      <4>1. r = Observed!Does(az.definitions = seenObserved["definitions"],
                      [az EXCEPT !["definitions"] = [d \in Observed!Definitions |-> "exact"]])
        BY ONLY <3>1, <3>2
      <4> QED
        BY ONLY <4>1 DEF Observed!Does
    <3>4. [az EXCEPT !["definitions"] = [d \in Observed!Definitions |-> "exact"]].definitions = [d \in Observed!Definitions |-> "exact"]
      BY <1>1 DEF Fields
    <3> QED
      BY <3>3, <3>4 DEF Observed!Definitions
  <2> QED
    BY <2>2, <2>3
<1>3. /\ r.w = [f \in Fields |-> r.w[f]] /\ r.w.definitions \in {az.definitions, [d \in Observed!Definitions |-> "exact"]}
      /\ \A f \in Fields \ {"definitions"} : r.w[f] = az[f]
  BY <1>1, <1>2 DEF Fields
<1>4. IsAzure(r.w)
  BY <1>1, <1>3 DEF IsAzure, Fields, Roles, Somebody, Exactness, Observed!Definitions
<1>5. Observed!Owned(Observed!Plan[9], r.w) = own
  BY PlanIs DEF Observed!Owned
<1>6. ASSUME r.ok, Reached(az, own, 9)
      PROVE  Reached(r.w, own, 10)
  BY <1>2, <1>3, <1>6 DEF Reached, Fields
<1>7. r.w.application = az.application /\ (r.w.site = "absent" => az.site = "absent" /\ r.w.settings = az.settings)
  BY <1>3 DEF Fields
<1> QED
  BY <1>4, <1>5, <1>6, <1>7 DEF Fits

LEMMA Does_bridge ==
    ASSUME ObservedTypes, pcObserved = "apply", pos = 10, NEW r, r = Outcome("bridge")
    PROVE  Fits(10, r)
<1> DEFINE a == Observed!Admission("bridge", seenObserved)
<1>1. Judged(seenObserved) /\ IsAzure(az) /\ az = [f \in Fields |-> az[f]] /\ own.identity \in Somebody
  BY DEF ObservedTypes, IsAzure
<1>2. r.w \in {az, [az EXCEPT !["site"] = "pristine"]}
  <2>1. a = Observed!Bridge(seenObserved)
    BY AdmissionIs
  <2>2. CASE a.decision \in {"adopt", "pending"}
    <3>1. r.w = az /\ (r.ok => Observed!Proved("bridge"))
      BY <2>2 DEF Outcome
    <3> QED
      BY <3>1
  <2>3. CASE a.decision \notin {"adopt", "pending"}
    <3>1. r = Observed!Result("bridge")
      BY <2>3 DEF Outcome
    <3>2. Observed!Result("bridge") = Observed!Does(az.site = "absent",
                      [az EXCEPT !["site"] = "pristine"])
      BY ResultIs DEF Observed!ApplySite, Observed!Put
    <3>3. r.w \in {az, [az EXCEPT !["site"] = "pristine"]}
      <4>1. r = Observed!Does(az.site = "absent",
                      [az EXCEPT !["site"] = "pristine"])
        BY ONLY <3>1, <3>2
      <4> QED
        BY ONLY <4>1 DEF Observed!Does
    <3> QED
      BY <3>3
  <2> QED
    BY <2>2, <2>3
<1>3. /\ r.w = [f \in Fields |-> r.w[f]] /\ r.w.site \in {az.site, "pristine"}
      /\ \A f \in Fields \ {"site"} : r.w[f] = az[f]
  BY <1>1, <1>2 DEF Fields
<1>4. IsAzure(r.w)
  BY <1>1, <1>3 DEF IsAzure, Fields, Roles, Somebody, Exactness
<1>5. Observed!Owned(Observed!Plan[10], r.w) = own
  BY PlanIs DEF Observed!Owned
<1>6. ASSUME r.ok, Reached(az, own, 10)
      PROVE  Reached(r.w, own, 11)
  BY <1>2, <1>3, <1>6 DEF Reached, Fields
<1>7. r.w.application = az.application /\ (r.w.site = "absent" => az.site = "absent" /\ r.w.settings = az.settings)
  BY <1>3 DEF Fields
<1> QED
  BY <1>4, <1>5, <1>6, <1>7 DEF Fits

LEMMA Does_assignments ==
    ASSUME ObservedTypes, pcObserved = "apply", pos = 11, NEW r, r = Outcome("assignments")
    PROVE  Fits(11, r)
<1> DEFINE a == Observed!Admission("assignments", seenObserved)
<1>1. Judged(seenObserved) /\ IsAzure(az) /\ az = [f \in Fields |-> az[f]] /\ own.identity \in Somebody
  BY DEF ObservedTypes, IsAzure
<1>2. r.w \in {az, [az EXCEPT !["assigned"] = own.identity]} /\ (r.ok => r.w.assigned = own.identity)
  <2>1. a = Observed!Assignments(seenObserved)
    BY AdmissionIs
  <2>2. a.decision \notin {"adopt", "pending"}
    BY <2>1 DEF Observed!As, Observed!Refused, Observed!Assignments
  <2>3. CASE a.decision \notin {"adopt", "pending"}
    <3>1. r = Observed!Result("assignments")
      BY <2>3 DEF Outcome
    <3>2. Observed!Result("assignments") = Observed!Does(/\ az.assigned = seenObserved["assignments"].to
                          /\ az.identity = own.identity /\ az.assigned \in {0, own.identity},
                      [az EXCEPT !["assigned"] = own.identity])
      BY ResultIs DEF Observed!ApplyMatrix, Observed!Put
    <3>3. r.w \in {az, [az EXCEPT !["assigned"] = own.identity]} /\ (r.ok => r.w = [az EXCEPT !["assigned"] = own.identity])
      <4>1. r = Observed!Does(/\ az.assigned = seenObserved["assignments"].to
                          /\ az.identity = own.identity /\ az.assigned \in {0, own.identity},
                      [az EXCEPT !["assigned"] = own.identity])
        BY ONLY <3>1, <3>2
      <4> QED
        BY ONLY <4>1 DEF Observed!Does
    <3>4. [az EXCEPT !["assigned"] = own.identity].assigned = own.identity
      BY <1>1 DEF Fields
    <3> QED
      BY <3>3, <3>4
  <2> QED
    BY <2>2, <2>3
<1>3. /\ r.w = [f \in Fields |-> r.w[f]] /\ r.w.assigned \in {az.assigned, own.identity}
      /\ \A f \in Fields \ {"assigned"} : r.w[f] = az[f]
  BY <1>1, <1>2 DEF Fields
<1>4. IsAzure(r.w)
  BY <1>1, <1>3 DEF IsAzure, Fields, Roles, Somebody, Exactness
<1>5. Observed!Owned(Observed!Plan[11], r.w) = own
  BY PlanIs DEF Observed!Owned
<1>6. ASSUME r.ok, Reached(az, own, 11)
      PROVE  Reached(r.w, own, 12)
  BY <1>2, <1>3, <1>6 DEF Reached, Fields
<1>7. r.w.application = az.application /\ (r.w.site = "absent" => az.site = "absent" /\ r.w.settings = az.settings)
  BY <1>3 DEF Fields
<1> QED
  BY <1>4, <1>5, <1>6, <1>7 DEF Fits

LEMMA Does_attach ==
    ASSUME ObservedTypes, pcObserved = "apply", pos = 12, NEW r, r = Outcome("attach")
    PROVE  Fits(12, r)
<1> DEFINE a == Observed!Admission("attach", seenObserved)
<1>1. Judged(seenObserved) /\ IsAzure(az) /\ az = [f \in Fields |-> az[f]] /\ own.identity \in Somebody
  BY DEF ObservedTypes, IsAzure
<1>2. r.w \in {az, [az EXCEPT !["site"] = "attached"]} /\ (r.ok => r.w.site = "attached")
  <2>1. a = Observed!Attachment(seenObserved)
    BY AdmissionIs
  <2>2. CASE a.decision \in {"adopt", "pending"}
    <3>1. r.w = az /\ (r.ok => Observed!Proved("attach"))
      BY <2>2 DEF Outcome
    <3>2. Observed!Proved("attach") => az.site = "attached"
      BY ProvedIs DEF Observed!ProvedResource
    <3> QED
      BY <3>1, <3>2
  <2>3. CASE a.decision \notin {"adopt", "pending"}
    <3>1. r = Observed!Result("attach")
      BY <2>3 DEF Outcome
    <3>2. Observed!Result("attach") = Observed!Does(az.site \in {"pristine", "disabled"},
                      [az EXCEPT !["site"] = "attached"])
      BY ResultIs DEF Observed!ApplySite, Observed!Put
    <3>3. r.w \in {az, [az EXCEPT !["site"] = "attached"]} /\ (r.ok => r.w = [az EXCEPT !["site"] = "attached"])
      <4>1. r = Observed!Does(az.site \in {"pristine", "disabled"},
                      [az EXCEPT !["site"] = "attached"])
        BY ONLY <3>1, <3>2
      <4> QED
        BY ONLY <4>1 DEF Observed!Does
    <3>4. [az EXCEPT !["site"] = "attached"].site = "attached"
      BY <1>1 DEF Fields
    <3> QED
      BY <3>3, <3>4
  <2> QED
    BY <2>2, <2>3
<1>3. /\ r.w = [f \in Fields |-> r.w[f]] /\ r.w.site \in {az.site, "attached"}
      /\ \A f \in Fields \ {"site"} : r.w[f] = az[f]
  BY <1>1, <1>2 DEF Fields
<1>4. IsAzure(r.w)
  BY <1>1, <1>3 DEF IsAzure, Fields, Roles, Somebody, Exactness
<1>5. Observed!Owned(Observed!Plan[12], r.w) = own
  BY PlanIs DEF Observed!Owned
<1>6. ASSUME r.ok, Reached(az, own, 12)
      PROVE  Reached(r.w, own, 13)
  BY <1>2, <1>3, <1>6 DEF Reached, Fields
<1>7. r.w.application = az.application /\ (r.w.site = "absent" => az.site = "absent" /\ r.w.settings = az.settings)
  BY <1>3 DEF Fields
<1> QED
  BY <1>4, <1>5, <1>6, <1>7 DEF Fits

LEMMA Does_addRule ==
    ASSUME ObservedTypes, pcObserved = "apply", pos = 13, NEW r, r = Outcome("addRule")
    PROVE  Fits(13, r)
<1> DEFINE a == Observed!Admission("addRule", seenObserved)
<1>1. Judged(seenObserved) /\ IsAzure(az) /\ az = [f \in Fields |-> az[f]] /\ own.identity \in Somebody
  BY DEF ObservedTypes, IsAzure
<1>2. r.w \in {az, [az EXCEPT !["rule"] = "own"]}
  <2>1. a = Observed!UploaderRule(seenObserved)
    BY AdmissionIs
  <2>2. a.decision \notin {"adopt", "pending"}
    BY <2>1 DEF Observed!As, Observed!Refused, Observed!UploaderRule
  <2>3. CASE a.decision \notin {"adopt", "pending"}
    <3>1. r = Observed!Result("addRule")
      BY <2>3 DEF Outcome
    <3>2. Observed!Result("addRule") = Observed!Does(az.rule = "none",
                      [az EXCEPT !["rule"] = "own"])
      BY ResultIs DEF Observed!ApplyTemporary, Observed!Put, Observed!Adds, Observed!Drops
    <3>3. r.w \in {az, [az EXCEPT !["rule"] = "own"]}
      <4>1. r = Observed!Does(az.rule = "none",
                      [az EXCEPT !["rule"] = "own"])
        BY ONLY <3>1, <3>2
      <4> QED
        BY ONLY <4>1 DEF Observed!Does
    <3> QED
      BY <3>3
  <2> QED
    BY <2>2, <2>3
<1>3. /\ r.w = [f \in Fields |-> r.w[f]] /\ r.w.rule \in {az.rule, "own"}
      /\ \A f \in Fields \ {"rule"} : r.w[f] = az[f]
  BY <1>1, <1>2 DEF Fields
<1>4. IsAzure(r.w)
  BY <1>1, <1>3 DEF IsAzure, Fields, Roles, Somebody, Exactness
<1>5. Observed!Owned(Observed!Plan[13], r.w) = own
  BY PlanIs DEF Observed!Owned
<1>6. ASSUME r.ok, Reached(az, own, 13)
      PROVE  Reached(r.w, own, 14)
  BY <1>2, <1>3, <1>6 DEF Reached, Fields
<1>7. r.w.application = az.application /\ (r.w.site = "absent" => az.site = "absent" /\ r.w.settings = az.settings)
  BY <1>3 DEF Fields
<1> QED
  BY <1>4, <1>5, <1>6, <1>7 DEF Fits

LEMMA Does_addController ==
    ASSUME ObservedTypes, pcObserved = "apply", pos = 14, NEW r, r = Outcome("addController")
    PROVE  Fits(14, r)
<1> DEFINE a == Observed!Admission("addController", seenObserved)
<1>1. Judged(seenObserved) /\ IsAzure(az) /\ az = [f \in Fields |-> az[f]] /\ own.identity \in Somebody
  BY DEF ObservedTypes, IsAzure
<1>2. r.w \in {az, [az EXCEPT !["role"] = "controller"]}
  <2>1. a = Observed!TemporaryRole("addController", seenObserved)
    BY AdmissionIs
  <2>2. a.decision \notin {"adopt", "pending"}
    BY <2>1 DEF Observed!As, Observed!Refused, Observed!TemporaryRole
  <2>3. CASE a.decision \notin {"adopt", "pending"}
    <3>1. r = Observed!Result("addController")
      BY <2>3 DEF Outcome
    <3>2. Observed!Result("addController") = Observed!Does(az.role = "none" /\ az.definitions["others"] = "exact",
                      [az EXCEPT !["role"] = "controller"])
      BY ResultIs DEF Observed!ApplyTemporary, Observed!Put, Observed!Adds, Observed!Drops,
         Observed!RoleOf
    <3>3. r.w \in {az, [az EXCEPT !["role"] = "controller"]}
      <4>1. r = Observed!Does(az.role = "none" /\ az.definitions["others"] = "exact",
                      [az EXCEPT !["role"] = "controller"])
        BY ONLY <3>1, <3>2
      <4> QED
        BY ONLY <4>1 DEF Observed!Does
    <3> QED
      BY <3>3
  <2> QED
    BY <2>2, <2>3
<1>3. /\ r.w = [f \in Fields |-> r.w[f]] /\ r.w.role \in {az.role, "controller"}
      /\ \A f \in Fields \ {"role"} : r.w[f] = az[f]
  BY <1>1, <1>2 DEF Fields
<1>4. IsAzure(r.w)
  BY <1>1, <1>3 DEF IsAzure, Fields, Roles, Somebody, Exactness
<1>5. Observed!Owned(Observed!Plan[14], r.w) = own
  BY PlanIs DEF Observed!Owned
<1>6. ASSUME r.ok, Reached(az, own, 14)
      PROVE  Reached(r.w, own, 15)
  BY <1>2, <1>3, <1>6 DEF Reached, Fields
<1>7. r.w.application = az.application /\ (r.w.site = "absent" => az.site = "absent" /\ r.w.settings = az.settings)
  BY <1>3 DEF Fields
<1> QED
  BY <1>4, <1>5, <1>6, <1>7 DEF Fits

LEMMA Does_empty ==
    ASSUME ObservedTypes, pcObserved = "apply", pos = 15, NEW r, r = Outcome("empty")
    PROVE  Fits(15, r)
<1> DEFINE a == Observed!Admission("empty", seenObserved)
<1>1. Judged(seenObserved) /\ IsAzure(az) /\ az = [f \in Fields |-> az[f]] /\ own.identity \in Somebody
  BY DEF ObservedTypes, IsAzure
<1>2. r.w = az /\ (r.ok => r.w.lock = "empty")
  <2>1. a = Observed!As("denied", "apply")
    BY AdmissionIs
  <2>2. a.decision \notin {"adopt", "pending"}
    BY <2>1 DEF Observed!As, Observed!Refused
  <2>3. CASE a.decision \notin {"adopt", "pending"}
    <3>1. r = Observed!Result("empty")
      BY <2>3 DEF Outcome
    <3>2. Observed!Result("empty") = Observed!Does(az.lock = "empty" /\ az.role = "controller" /\ az.rule = "own",
                      az)
      BY ResultIs DEF Observed!ApplyBlob, Observed!Put
    <3>3. r.w = az /\ (r.ok => az.lock = "empty")
      <4>1. r = Observed!Does(az.lock = "empty" /\ az.role = "controller" /\ az.rule = "own",
                      az)
        BY ONLY <3>1, <3>2
      <4> QED
        BY ONLY <4>1 DEF Observed!Does
    <3> QED
      BY <3>3
  <2> QED
    BY <2>2, <2>3
<1>5. Observed!Owned(Observed!Plan[15], r.w) = own
  BY PlanIs DEF Observed!Owned
<1>6. ASSUME r.ok, Reached(az, own, 15)
      PROVE  Reached(r.w, own, 16)
  BY <1>2, <1>6 DEF Reached, Fields
<1> QED
  BY <1>1, <1>2, <1>5, <1>6 DEF Fits

LEMMA Does_dropController ==
    ASSUME ObservedTypes, pcObserved = "apply", pos = 16, NEW r, r = Outcome("dropController")
    PROVE  Fits(16, r)
<1> DEFINE a == Observed!Admission("dropController", seenObserved)
<1>1. Judged(seenObserved) /\ IsAzure(az) /\ az = [f \in Fields |-> az[f]] /\ own.identity \in Somebody
  BY DEF ObservedTypes, IsAzure
<1>2. r.w \in {az, [az EXCEPT !["role"] = "none"]}
  <2>1. a = Observed!TemporaryRole("dropController", seenObserved)
    BY AdmissionIs
  <2>2. a.decision \notin {"adopt", "pending"}
    BY <2>1 DEF Observed!As, Observed!Refused, Observed!TemporaryRole
  <2>3. CASE a.decision \notin {"adopt", "pending"}
    <3>1. r = Observed!Result("dropController")
      BY <2>3 DEF Outcome
    <3>2. Observed!Result("dropController") = Observed!Does(TRUE,
                      [az EXCEPT !["role"] = "none"])
      BY ResultIs DEF Observed!ApplyTemporary, Observed!Put, Observed!Adds, Observed!Drops
    <3>3. r.w \in {az, [az EXCEPT !["role"] = "none"]}
      <4>1. r = Observed!Does(TRUE,
                      [az EXCEPT !["role"] = "none"])
        BY ONLY <3>1, <3>2
      <4> QED
        BY ONLY <4>1 DEF Observed!Does
    <3> QED
      BY <3>3
  <2> QED
    BY <2>2, <2>3
<1>3. /\ r.w = [f \in Fields |-> r.w[f]] /\ r.w.role \in {az.role, "none"}
      /\ \A f \in Fields \ {"role"} : r.w[f] = az[f]
  BY <1>1, <1>2 DEF Fields
<1>4. IsAzure(r.w)
  BY <1>1, <1>3 DEF IsAzure, Fields, Roles, Somebody, Exactness
<1>5. Observed!Owned(Observed!Plan[16], r.w) = own
  BY PlanIs DEF Observed!Owned
<1>6. ASSUME r.ok, Reached(az, own, 16)
      PROVE  Reached(r.w, own, 17)
  BY <1>2, <1>3, <1>6 DEF Reached, Fields
<1>7. r.w.application = az.application /\ (r.w.site = "absent" => az.site = "absent" /\ r.w.settings = az.settings)
  BY <1>3 DEF Fields
<1> QED
  BY <1>4, <1>5, <1>6, <1>7 DEF Fits

LEMMA Does_addPackage ==
    ASSUME ObservedTypes, pcObserved = "apply", pos = 17, NEW r, r = Outcome("addPackage")
    PROVE  Fits(17, r)
<1> DEFINE a == Observed!Admission("addPackage", seenObserved)
<1>1. Judged(seenObserved) /\ IsAzure(az) /\ az = [f \in Fields |-> az[f]] /\ own.identity \in Somebody
  BY DEF ObservedTypes, IsAzure
<1>2. r.w \in {az, [az EXCEPT !["role"] = "package"]}
  <2>1. a = Observed!TemporaryRole("addPackage", seenObserved)
    BY AdmissionIs
  <2>2. a.decision \notin {"adopt", "pending"}
    BY <2>1 DEF Observed!As, Observed!Refused, Observed!TemporaryRole
  <2>3. CASE a.decision \notin {"adopt", "pending"}
    <3>1. r = Observed!Result("addPackage")
      BY <2>3 DEF Outcome
    <3>2. Observed!Result("addPackage") = Observed!Does(az.role = "none" /\ az.definitions["others"] = "exact",
                      [az EXCEPT !["role"] = "package"])
      BY ResultIs DEF Observed!ApplyTemporary, Observed!Put, Observed!Adds, Observed!Drops,
         Observed!RoleOf
    <3>3. r.w \in {az, [az EXCEPT !["role"] = "package"]}
      <4>1. r = Observed!Does(az.role = "none" /\ az.definitions["others"] = "exact",
                      [az EXCEPT !["role"] = "package"])
        BY ONLY <3>1, <3>2
      <4> QED
        BY ONLY <4>1 DEF Observed!Does
    <3> QED
      BY <3>3
  <2> QED
    BY <2>2, <2>3
<1>3. /\ r.w = [f \in Fields |-> r.w[f]] /\ r.w.role \in {az.role, "package"}
      /\ \A f \in Fields \ {"role"} : r.w[f] = az[f]
  BY <1>1, <1>2 DEF Fields
<1>4. IsAzure(r.w)
  BY <1>1, <1>3 DEF IsAzure, Fields, Roles, Somebody, Exactness
<1>5. Observed!Owned(Observed!Plan[17], r.w) = own
  BY PlanIs DEF Observed!Owned
<1>6. ASSUME r.ok, Reached(az, own, 17)
      PROVE  Reached(r.w, own, 18)
  BY <1>2, <1>3, <1>6 DEF Reached, Fields
<1>7. r.w.application = az.application /\ (r.w.site = "absent" => az.site = "absent" /\ r.w.settings = az.settings)
  BY <1>3 DEF Fields
<1> QED
  BY <1>4, <1>5, <1>6, <1>7 DEF Fits

LEMMA Does_package ==
    ASSUME ObservedTypes, pcObserved = "apply", pos = 18, NEW r, r = Outcome("package")
    PROVE  Fits(18, r)
<1> DEFINE a == Observed!Admission("package", seenObserved)
<1>1. Judged(seenObserved) /\ IsAzure(az) /\ az = [f \in Fields |-> az[f]] /\ own.identity \in Somebody
  BY DEF ObservedTypes, IsAzure
<1>2. r.w \in {az, [az EXCEPT !["package"] = "exact"]} /\ (r.ok => r.w.package = "exact")
  <2>1. a = Observed!As("denied", "apply")
    BY AdmissionIs
  <2>2. a.decision \notin {"adopt", "pending"}
    BY <2>1 DEF Observed!As, Observed!Refused
  <2>3. CASE a.decision \notin {"adopt", "pending"}
    <3>1. r = Observed!Result("package")
      BY <2>3 DEF Outcome
    <3>2. Observed!Result("package") = Observed!Does(az.package # "foreign" /\ az.role = "package" /\ az.rule = "own",
                      [az EXCEPT !["package"] = "exact"])
      BY ResultIs DEF Observed!ApplyBlob, Observed!Put
    <3>3. r.w \in {az, [az EXCEPT !["package"] = "exact"]} /\ (r.ok => r.w = [az EXCEPT !["package"] = "exact"])
      <4>1. r = Observed!Does(az.package # "foreign" /\ az.role = "package" /\ az.rule = "own",
                      [az EXCEPT !["package"] = "exact"])
        BY ONLY <3>1, <3>2
      <4> QED
        BY ONLY <4>1 DEF Observed!Does
    <3>4. [az EXCEPT !["package"] = "exact"].package = "exact"
      BY <1>1 DEF Fields
    <3> QED
      BY <3>3, <3>4
  <2> QED
    BY <2>2, <2>3
<1>3. /\ r.w = [f \in Fields |-> r.w[f]] /\ r.w.package \in {az.package, "exact"}
      /\ \A f \in Fields \ {"package"} : r.w[f] = az[f]
  BY <1>1, <1>2 DEF Fields
<1>4. IsAzure(r.w)
  BY <1>1, <1>3 DEF IsAzure, Fields, Roles, Somebody, Exactness
<1>5. Observed!Owned(Observed!Plan[18], r.w) = own
  BY PlanIs DEF Observed!Owned
<1>6. ASSUME r.ok, Reached(az, own, 18)
      PROVE  Reached(r.w, own, 19)
  BY <1>2, <1>3, <1>6 DEF Reached, Fields
<1>7. r.w.application = az.application /\ (r.w.site = "absent" => az.site = "absent" /\ r.w.settings = az.settings)
  BY <1>3 DEF Fields
<1> QED
  BY <1>4, <1>5, <1>6, <1>7 DEF Fits

LEMMA Does_dropPackage ==
    ASSUME ObservedTypes, pcObserved = "apply", pos = 19, NEW r, r = Outcome("dropPackage")
    PROVE  Fits(19, r)
<1> DEFINE a == Observed!Admission("dropPackage", seenObserved)
<1>1. Judged(seenObserved) /\ IsAzure(az) /\ az = [f \in Fields |-> az[f]] /\ own.identity \in Somebody
  BY DEF ObservedTypes, IsAzure
<1>2. r.w \in {az, [az EXCEPT !["role"] = "none"]}
  <2>1. a = Observed!TemporaryRole("dropPackage", seenObserved)
    BY AdmissionIs
  <2>2. a.decision \notin {"adopt", "pending"}
    BY <2>1 DEF Observed!As, Observed!Refused, Observed!TemporaryRole
  <2>3. CASE a.decision \notin {"adopt", "pending"}
    <3>1. r = Observed!Result("dropPackage")
      BY <2>3 DEF Outcome
    <3>2. Observed!Result("dropPackage") = Observed!Does(TRUE,
                      [az EXCEPT !["role"] = "none"])
      BY ResultIs DEF Observed!ApplyTemporary, Observed!Put, Observed!Adds, Observed!Drops
    <3>3. r.w \in {az, [az EXCEPT !["role"] = "none"]}
      <4>1. r = Observed!Does(TRUE,
                      [az EXCEPT !["role"] = "none"])
        BY ONLY <3>1, <3>2
      <4> QED
        BY ONLY <4>1 DEF Observed!Does
    <3> QED
      BY <3>3
  <2> QED
    BY <2>2, <2>3
<1>3. /\ r.w = [f \in Fields |-> r.w[f]] /\ r.w.role \in {az.role, "none"}
      /\ \A f \in Fields \ {"role"} : r.w[f] = az[f]
  BY <1>1, <1>2 DEF Fields
<1>4. IsAzure(r.w)
  BY <1>1, <1>3 DEF IsAzure, Fields, Roles, Somebody, Exactness
<1>5. Observed!Owned(Observed!Plan[19], r.w) = own
  BY PlanIs DEF Observed!Owned
<1>6. ASSUME r.ok, Reached(az, own, 19)
      PROVE  Reached(r.w, own, 20)
  BY <1>2, <1>3, <1>6 DEF Reached, Fields
<1>7. r.w.application = az.application /\ (r.w.site = "absent" => az.site = "absent" /\ r.w.settings = az.settings)
  BY <1>3 DEF Fields
<1> QED
  BY <1>4, <1>5, <1>6, <1>7 DEF Fits

LEMMA Does_addFence ==
    ASSUME ObservedTypes, pcObserved = "apply", pos = 20, NEW r, r = Outcome("addFence")
    PROVE  Fits(20, r)
<1> DEFINE a == Observed!Admission("addFence", seenObserved)
<1>1. Judged(seenObserved) /\ IsAzure(az) /\ az = [f \in Fields |-> az[f]] /\ own.identity \in Somebody
  BY DEF ObservedTypes, IsAzure
<1>2. r.w \in {az, [az EXCEPT !["role"] = "fence"]}
  <2>1. a = Observed!TemporaryRole("addFence", seenObserved)
    BY AdmissionIs
  <2>2. a.decision \notin {"adopt", "pending"}
    BY <2>1 DEF Observed!As, Observed!Refused, Observed!TemporaryRole
  <2>3. CASE a.decision \notin {"adopt", "pending"}
    <3>1. r = Observed!Result("addFence")
      BY <2>3 DEF Outcome
    <3>2. Observed!Result("addFence") = Observed!Does(az.role = "none" /\ az.definitions["fence"] = "exact",
                      [az EXCEPT !["role"] = "fence"])
      BY ResultIs DEF Observed!ApplyTemporary, Observed!Put, Observed!Adds, Observed!Drops,
         Observed!RoleOf
    <3>3. r.w \in {az, [az EXCEPT !["role"] = "fence"]}
      <4>1. r = Observed!Does(az.role = "none" /\ az.definitions["fence"] = "exact",
                      [az EXCEPT !["role"] = "fence"])
        BY ONLY <3>1, <3>2
      <4> QED
        BY ONLY <4>1 DEF Observed!Does
    <3> QED
      BY <3>3
  <2> QED
    BY <2>2, <2>3
<1>3. /\ r.w = [f \in Fields |-> r.w[f]] /\ r.w.role \in {az.role, "fence"}
      /\ \A f \in Fields \ {"role"} : r.w[f] = az[f]
  BY <1>1, <1>2 DEF Fields
<1>4. IsAzure(r.w)
  BY <1>1, <1>3 DEF IsAzure, Fields, Roles, Somebody, Exactness
<1>5. Observed!Owned(Observed!Plan[20], r.w) = own
  BY PlanIs DEF Observed!Owned
<1>6. ASSUME r.ok, Reached(az, own, 20)
      PROVE  Reached(r.w, own, 21)
  BY <1>2, <1>3, <1>6 DEF Reached, Fields
<1>7. r.w.application = az.application /\ (r.w.site = "absent" => az.site = "absent" /\ r.w.settings = az.settings)
  BY <1>3 DEF Fields
<1> QED
  BY <1>4, <1>5, <1>6, <1>7 DEF Fits

LEMMA Does_fence ==
    ASSUME ObservedTypes, pcObserved = "apply", pos = 21, NEW r, r = Outcome("fence")
    PROVE  Fits(21, r)
<1> DEFINE a == Observed!Admission("fence", seenObserved)
<1>1. Judged(seenObserved) /\ IsAzure(az) /\ az = [f \in Fields |-> az[f]] /\ own.identity \in Somebody
  BY DEF ObservedTypes, IsAzure
<1>2. r.w \in {az, [az EXCEPT !["fence"] = "ours"]} /\ (r.ok => r.w.fence \in {"pinned", "ours"})
  <2>1. a = Observed!FenceBlob
    BY AdmissionIs
  <2>2. CASE a.decision \in {"adopt", "pending"}
    <3>1. r.w = az /\ (r.ok => Observed!Proved("fence"))
      BY <2>2 DEF Outcome
    <3>2. Observed!Proved("fence") => az.fence \in {"pinned", "ours"}
      BY ProvedIs DEF Observed!ProvedPolicy
    <3> QED
      BY <3>1, <3>2
  <2>3. CASE a.decision \notin {"adopt", "pending"}
    <3>1. r = Observed!Result("fence")
      BY <2>3 DEF Outcome
    <3>2. Observed!Result("fence") = Observed!Does(az.fence = "none" /\ az.role = "fence" /\ az.rule = "own",
                      [az EXCEPT !["fence"] = "ours"])
      BY ResultIs DEF Observed!ApplyBlob, Observed!Put
    <3>3. r.w \in {az, [az EXCEPT !["fence"] = "ours"]} /\ (r.ok => r.w = [az EXCEPT !["fence"] = "ours"])
      <4>1. r = Observed!Does(az.fence = "none" /\ az.role = "fence" /\ az.rule = "own",
                      [az EXCEPT !["fence"] = "ours"])
        BY ONLY <3>1, <3>2
      <4> QED
        BY ONLY <4>1 DEF Observed!Does
    <3>4. [az EXCEPT !["fence"] = "ours"].fence = "ours"
      BY <1>1 DEF Fields
    <3> QED
      BY <3>3, <3>4
  <2> QED
    BY <2>2, <2>3
<1>3. /\ r.w = [f \in Fields |-> r.w[f]] /\ r.w.fence \in {az.fence, "ours"}
      /\ \A f \in Fields \ {"fence"} : r.w[f] = az[f]
  BY <1>1, <1>2 DEF Fields
<1>4. IsAzure(r.w)
  BY <1>1, <1>3 DEF IsAzure, Fields, Roles, Somebody, Exactness
<1>5. Observed!Owned(Observed!Plan[21], r.w) = own
  BY PlanIs DEF Observed!Owned
<1>6. ASSUME r.ok, Reached(az, own, 21)
      PROVE  Reached(r.w, own, 22)
  BY <1>2, <1>3, <1>6 DEF Reached, Fields
<1>7. r.w.application = az.application /\ (r.w.site = "absent" => az.site = "absent" /\ r.w.settings = az.settings)
  BY <1>3 DEF Fields
<1> QED
  BY <1>4, <1>5, <1>6, <1>7 DEF Fits

LEMMA Does_dropFence ==
    ASSUME ObservedTypes, pcObserved = "apply", pos = 22, NEW r, r = Outcome("dropFence")
    PROVE  Fits(22, r)
<1> DEFINE a == Observed!Admission("dropFence", seenObserved)
<1>1. Judged(seenObserved) /\ IsAzure(az) /\ az = [f \in Fields |-> az[f]] /\ own.identity \in Somebody
  BY DEF ObservedTypes, IsAzure
<1>2. r.w \in {az, [az EXCEPT !["role"] = "none"]} /\ (r.ok => r.w.role = "none")
  <2>1. a = Observed!TemporaryRole("dropFence", seenObserved)
    BY AdmissionIs
  <2>2. a.decision \notin {"adopt", "pending"}
    BY <2>1 DEF Observed!As, Observed!Refused, Observed!TemporaryRole
  <2>3. CASE a.decision \notin {"adopt", "pending"}
    <3>1. r = Observed!Result("dropFence")
      BY <2>3 DEF Outcome
    <3>2. Observed!Result("dropFence") = Observed!Does(TRUE,
                      [az EXCEPT !["role"] = "none"])
      BY ResultIs DEF Observed!ApplyTemporary, Observed!Put, Observed!Adds, Observed!Drops
    <3>3. r.w \in {az, [az EXCEPT !["role"] = "none"]} /\ (r.ok => r.w = [az EXCEPT !["role"] = "none"])
      <4>1. r = Observed!Does(TRUE,
                      [az EXCEPT !["role"] = "none"])
        BY ONLY <3>1, <3>2
      <4> QED
        BY ONLY <4>1 DEF Observed!Does
    <3>4. [az EXCEPT !["role"] = "none"].role = "none"
      BY <1>1 DEF Fields
    <3> QED
      BY <3>3, <3>4
  <2> QED
    BY <2>2, <2>3
<1>3. /\ r.w = [f \in Fields |-> r.w[f]] /\ r.w.role \in {az.role, "none"}
      /\ \A f \in Fields \ {"role"} : r.w[f] = az[f]
  BY <1>1, <1>2 DEF Fields
<1>4. IsAzure(r.w)
  BY <1>1, <1>3 DEF IsAzure, Fields, Roles, Somebody, Exactness
<1>5. Observed!Owned(Observed!Plan[22], r.w) = own
  BY PlanIs DEF Observed!Owned
<1>6. ASSUME r.ok, Reached(az, own, 22)
      PROVE  Reached(r.w, own, 23)
  BY <1>2, <1>3, <1>6 DEF Reached, Fields
<1>7. r.w.application = az.application /\ (r.w.site = "absent" => az.site = "absent" /\ r.w.settings = az.settings)
  BY <1>3 DEF Fields
<1> QED
  BY <1>4, <1>5, <1>6, <1>7 DEF Fits

LEMMA Does_removeRule ==
    ASSUME ObservedTypes, pcObserved = "apply", pos = 23, NEW r, r = Outcome("removeRule")
    PROVE  Fits(23, r)
<1> DEFINE a == Observed!Admission("removeRule", seenObserved)
<1>1. Judged(seenObserved) /\ IsAzure(az) /\ az = [f \in Fields |-> az[f]] /\ own.identity \in Somebody
  BY DEF ObservedTypes, IsAzure
<1>2. r.w \in {az, [az EXCEPT !["rule"] = "none"]} /\ (r.ok => r.w.rule = "none")
  <2>1. a = Observed!As("owned-present", "apply")
    BY AdmissionIs
  <2>2. a.decision \notin {"adopt", "pending"}
    BY <2>1 DEF Observed!As, Observed!Refused
  <2>3. CASE a.decision \notin {"adopt", "pending"}
    <3>1. r = Observed!Result("removeRule")
      BY <2>3 DEF Outcome
    <3>2. Observed!Result("removeRule") = Observed!Does(az.rule = "own",
                      [az EXCEPT !["rule"] = "none"])
      BY ResultIs DEF Observed!ApplyTemporary, Observed!Put, Observed!Adds, Observed!Drops
    <3>3. r.w \in {az, [az EXCEPT !["rule"] = "none"]} /\ (r.ok => r.w = [az EXCEPT !["rule"] = "none"])
      <4>1. r = Observed!Does(az.rule = "own",
                      [az EXCEPT !["rule"] = "none"])
        BY ONLY <3>1, <3>2
      <4> QED
        BY ONLY <4>1 DEF Observed!Does
    <3>4. [az EXCEPT !["rule"] = "none"].rule = "none"
      BY <1>1 DEF Fields
    <3> QED
      BY <3>3, <3>4
  <2> QED
    BY <2>2, <2>3
<1>3. /\ r.w = [f \in Fields |-> r.w[f]] /\ r.w.rule \in {az.rule, "none"}
      /\ \A f \in Fields \ {"rule"} : r.w[f] = az[f]
  BY <1>1, <1>2 DEF Fields
<1>4. IsAzure(r.w)
  BY <1>1, <1>3 DEF IsAzure, Fields, Roles, Somebody, Exactness
<1>5. Observed!Owned(Observed!Plan[23], r.w) = own
  BY PlanIs DEF Observed!Owned
<1>6. ASSUME r.ok, Reached(az, own, 23)
      PROVE  Reached(r.w, own, 24)
  BY <1>2, <1>3, <1>6 DEF Reached, Fields
<1>7. r.w.application = az.application /\ (r.w.site = "absent" => az.site = "absent" /\ r.w.settings = az.settings)
  BY <1>3 DEF Fields
<1> QED
  BY <1>4, <1>5, <1>6, <1>7 DEF Fits

LEMMA Does_settings ==
    ASSUME ObservedTypes, pcObserved = "apply", pos = 24, NEW r, r = Outcome("settings")
    PROVE  Fits(24, r)
<1> DEFINE a == Observed!Admission("settings", seenObserved)
<1>1. Judged(seenObserved) /\ IsAzure(az) /\ az = [f \in Fields |-> az[f]] /\ own.identity \in Somebody
  BY DEF ObservedTypes, IsAzure
<1>2. r.w \in {az, [az EXCEPT !["settings"] = "desired"]} /\ (r.ok => r.w.settings = "desired") /\ (r.w = az \/ az.site = "attached")
  <2>1. a = Observed!Settings(seenObserved)
    BY AdmissionIs
  <2>2. a.decision \notin {"adopt", "pending"}
    BY <2>1 DEF Observed!As, Observed!Refused, Observed!Settings
  <2>3. CASE a.decision \notin {"adopt", "pending"}
    <3>1. r = Observed!Result("settings")
      BY <2>3 DEF Outcome
    <3>2. Observed!Result("settings") = Observed!Does(az.settings = "empty" /\ az.site = "attached",
                      [az EXCEPT !["settings"] = "desired"])
      BY ResultIs DEF Observed!ApplyBridge, Observed!Put
    <3>3. r.w \in {az, [az EXCEPT !["settings"] = "desired"]} /\ (r.ok => r.w = [az EXCEPT !["settings"] = "desired"]) /\ (r.w = az \/ az.site = "attached")
      <4>1. r = Observed!Does(az.settings = "empty" /\ az.site = "attached",
                      [az EXCEPT !["settings"] = "desired"])
        BY ONLY <3>1, <3>2
      <4> QED
        BY ONLY <4>1 DEF Observed!Does
    <3>4. [az EXCEPT !["settings"] = "desired"].settings = "desired"
      BY <1>1 DEF Fields
    <3> QED
      BY <3>3, <3>4
  <2> QED
    BY <2>2, <2>3
<1>3. /\ r.w = [f \in Fields |-> r.w[f]] /\ r.w.settings \in {az.settings, "desired"}
      /\ \A f \in Fields \ {"settings"} : r.w[f] = az[f]
  BY <1>1, <1>2 DEF Fields
<1>4. IsAzure(r.w)
  BY <1>1, <1>3 DEF IsAzure, Fields, Roles, Somebody, Exactness
<1>5. Observed!Owned(Observed!Plan[24], r.w) = own
  BY PlanIs DEF Observed!Owned
<1>6. ASSUME r.ok, Reached(az, own, 24)
      PROVE  Reached(r.w, own, 25)
  BY <1>2, <1>3, <1>6 DEF Reached, Fields
<1>7. r.w.application = az.application /\ (r.w.site = "absent" => az.site = "absent" /\ r.w.settings = az.settings)
  BY <1>2, <1>3 DEF Fields
<1> QED
  BY <1>4, <1>5, <1>6, <1>7 DEF Fits

LEMMA Does_worm ==
    ASSUME ObservedTypes, pcObserved = "apply", pos = 25, NEW r, r = Outcome("worm")
    PROVE  Fits(25, r)
<1> DEFINE a == Observed!Admission("worm", seenObserved)
<1>1. Judged(seenObserved) /\ IsAzure(az) /\ az = [f \in Fields |-> az[f]] /\ own.identity \in Somebody
  BY DEF ObservedTypes, IsAzure
<1>2. r.w \in {az, [az EXCEPT !["worm"] = "locked"]} /\ (r.ok => r.w.worm = "locked")
  <2>1. a = Observed!PackageWorm(seenObserved)
    BY AdmissionIs
  <2>2. CASE a.decision \in {"adopt", "pending"}
    <3>1. r.w = az /\ (r.ok => Observed!Proved("worm"))
      BY <2>2 DEF Outcome
    <3>2. Observed!Proved("worm") => az.worm = "locked"
      BY ProvedIs DEF Observed!ProvedPolicy
    <3> QED
      BY <3>1, <3>2
  <2>3. CASE a.decision \notin {"adopt", "pending"}
    <3>1. r = Observed!Result("worm")
      BY <2>3 DEF Outcome
    <3>2. Observed!Result("worm") = Observed!Does(az.worm = seenObserved["worm"],
                      [az EXCEPT !["worm"] = "locked"])
      BY ResultIs DEF Observed!ApplyWorm, Observed!Put
    <3>3. r.w \in {az, [az EXCEPT !["worm"] = "locked"]} /\ (r.ok => r.w = [az EXCEPT !["worm"] = "locked"])
      <4>1. r = Observed!Does(az.worm = seenObserved["worm"],
                      [az EXCEPT !["worm"] = "locked"])
        BY ONLY <3>1, <3>2
      <4> QED
        BY ONLY <4>1 DEF Observed!Does
    <3>4. [az EXCEPT !["worm"] = "locked"].worm = "locked"
      BY <1>1 DEF Fields
    <3> QED
      BY <3>3, <3>4
  <2> QED
    BY <2>2, <2>3
<1>3. /\ r.w = [f \in Fields |-> r.w[f]] /\ r.w.worm \in {az.worm, "locked"}
      /\ \A f \in Fields \ {"worm"} : r.w[f] = az[f]
  BY <1>1, <1>2 DEF Fields
<1>4. IsAzure(r.w)
  BY <1>1, <1>3 DEF IsAzure, Fields, Roles, Somebody, Exactness
<1>5. Observed!Owned(Observed!Plan[25], r.w) = own
  BY PlanIs DEF Observed!Owned
<1>6. ASSUME r.ok, Reached(az, own, 25)
      PROVE  Reached(r.w, own, 26)
  BY <1>2, <1>3, <1>6 DEF Reached, Fields
<1>7. r.w.application = az.application /\ (r.w.site = "absent" => az.site = "absent" /\ r.w.settings = az.settings)
  BY <1>3 DEF Fields
<1> QED
  BY <1>4, <1>5, <1>6, <1>7 DEF Fits

LEMMA Does_canary ==
    ASSUME ObservedTypes, pcObserved = "apply", pos = 26, NEW r, r = Outcome("canary")
    PROVE  Fits(26, r)
<1> DEFINE a == Observed!Admission("canary", seenObserved)
<1>1. Judged(seenObserved) /\ IsAzure(az) /\ az = [f \in Fields |-> az[f]] /\ own.identity \in Somebody
  BY DEF ObservedTypes, IsAzure
<1>2. r.w = az /\ (r.ok => r.w.scm = "off")
  <2>1. a = Observed!Canary(seenObserved)
    BY AdmissionIs
  <2>2. a.decision \notin {"adopt", "pending"}
    BY <2>1 DEF Observed!As, Observed!Refused, Observed!Canary
  <2>3. CASE a.decision \notin {"adopt", "pending"}
    <3>1. r = Observed!Result("canary")
      BY <2>3 DEF Outcome
    <3>2. Observed!Result("canary") = Observed!Does(az.site = "attached" /\ az.scm = "off" /\ az.settings = "desired",
                      az)
      BY ResultIs DEF Observed!ApplyBridge, Observed!Put
    <3>3. r.w = az /\ (r.ok => az.scm = "off")
      <4>1. r = Observed!Does(az.site = "attached" /\ az.scm = "off" /\ az.settings = "desired",
                      az)
        BY ONLY <3>1, <3>2
      <4> QED
        BY ONLY <4>1 DEF Observed!Does
    <3> QED
      BY <3>3
  <2> QED
    BY <2>2, <2>3
<1>5. Observed!Owned(Observed!Plan[26], r.w) = own
  BY PlanIs DEF Observed!Owned
<1>6. ASSUME r.ok, Reached(az, own, 26)
      PROVE  Reached(r.w, own, 27)
  BY <1>2, <1>6 DEF Reached, Fields
<1> QED
  BY <1>1, <1>2, <1>5, <1>6 DEF Fits

LEMMA Does_accepted ==
    ASSUME ObservedTypes, pcObserved = "apply", pos = 27, NEW r, r = Outcome("accepted")
    PROVE  Fits(27, r)
<1> DEFINE a == Observed!Admission("accepted", seenObserved)
<1>1. Judged(seenObserved) /\ IsAzure(az) /\ az = [f \in Fields |-> az[f]] /\ own.identity \in Somebody
  BY DEF ObservedTypes, IsAzure
<1>2. r.w \in {az, [az EXCEPT !["accepted"] = 91]} /\ (r.ok => r.w.accepted = 91)
  <2>1. a = Observed!ExtendWorm(seenObserved)
    BY AdmissionIs
  <2>2. CASE a.decision \in {"adopt", "pending"}
    <3>1. r.w = az /\ (r.ok => Observed!Proved("accepted"))
      BY <2>2 DEF Outcome
    <3>2. Observed!Proved("accepted") => az.accepted = 91
      BY ProvedIs DEF Observed!ProvedPolicy
    <3> QED
      BY <3>1, <3>2
  <2>3. CASE a.decision \notin {"adopt", "pending"}
    <3>1. r = Observed!Result("accepted")
      BY <2>3 DEF Outcome
    <3>2. Observed!Result("accepted") = Observed!Does(az.accepted = 30,
                      [az EXCEPT !["accepted"] = 91])
      BY ResultIs DEF Observed!ApplyWorm, Observed!Put
    <3>3. r.w \in {az, [az EXCEPT !["accepted"] = 91]} /\ (r.ok => r.w = [az EXCEPT !["accepted"] = 91])
      <4>1. r = Observed!Does(az.accepted = 30,
                      [az EXCEPT !["accepted"] = 91])
        BY ONLY <3>1, <3>2
      <4> QED
        BY ONLY <4>1 DEF Observed!Does
    <3>4. [az EXCEPT !["accepted"] = 91].accepted = 91
      BY <1>1 DEF Fields
    <3> QED
      BY <3>3, <3>4
  <2> QED
    BY <2>2, <2>3
<1>3. /\ r.w = [f \in Fields |-> r.w[f]] /\ r.w.accepted \in {az.accepted, 91}
      /\ \A f \in Fields \ {"accepted"} : r.w[f] = az[f]
  BY <1>1, <1>2 DEF Fields
<1>4. IsAzure(r.w)
  BY <1>1, <1>3 DEF IsAzure, Fields, Roles, Somebody, Exactness
<1>5. Observed!Owned(Observed!Plan[27], r.w) = own
  BY PlanIs DEF Observed!Owned
<1>6. ASSUME r.ok, Reached(az, own, 27)
      PROVE  Reached(r.w, own, 28)
  BY <1>2, <1>3, <1>6 DEF Reached, Fields
<1>7. r.w.application = az.application /\ (r.w.site = "absent" => az.site = "absent" /\ r.w.settings = az.settings)
  BY <1>3 DEF Fields
<1> QED
  BY <1>4, <1>5, <1>6, <1>7 DEF Fits

LEMMA Does_detach ==
    ASSUME ObservedTypes, pcObserved = "apply", pos = 28, NEW r, r = Outcome("detach")
    PROVE  Fits(28, r)
<1> DEFINE a == Observed!Admission("detach", seenObserved)
<1>1. Judged(seenObserved) /\ IsAzure(az) /\ az = [f \in Fields |-> az[f]] /\ own.identity \in Somebody
  BY DEF ObservedTypes, IsAzure
<1>2. r.w \in {az, [az EXCEPT !["legacy"] = "detached"]} /\ (r.ok => r.w.legacy = "detached")
  <2>1. a = Observed!Detach(seenObserved)
    BY AdmissionIs
  <2>2. CASE a.decision \in {"adopt", "pending"}
    <3>1. r.w = az /\ (r.ok => Observed!Proved("detach"))
      BY <2>2 DEF Outcome
    <3>2. Observed!Proved("detach") => az.legacy = "detached"
      BY ProvedIs DEF Observed!ProvedResource
    <3> QED
      BY <3>1, <3>2
  <2>3. CASE a.decision \notin {"adopt", "pending"}
    <3>1. r = Observed!Result("detach")
      BY <2>3 DEF Outcome
    <3>2. Observed!Result("detach") = Observed!Does(az.legacy = "attached",
                      [az EXCEPT !["legacy"] = "detached"])
      BY ResultIs DEF Observed!ApplyRetirement, Observed!Put
    <3>3. r.w \in {az, [az EXCEPT !["legacy"] = "detached"]} /\ (r.ok => r.w = [az EXCEPT !["legacy"] = "detached"])
      <4>1. r = Observed!Does(az.legacy = "attached",
                      [az EXCEPT !["legacy"] = "detached"])
        BY ONLY <3>1, <3>2
      <4> QED
        BY ONLY <4>1 DEF Observed!Does
    <3>4. [az EXCEPT !["legacy"] = "detached"].legacy = "detached"
      BY <1>1 DEF Fields
    <3> QED
      BY <3>3, <3>4
  <2> QED
    BY <2>2, <2>3
<1>3. /\ r.w = [f \in Fields |-> r.w[f]] /\ r.w.legacy \in {az.legacy, "detached"}
      /\ \A f \in Fields \ {"legacy"} : r.w[f] = az[f]
  BY <1>1, <1>2 DEF Fields
<1>4. IsAzure(r.w)
  BY <1>1, <1>3 DEF IsAzure, Fields, Roles, Somebody, Exactness
<1>5. Observed!Owned(Observed!Plan[28], r.w) = own
  BY PlanIs DEF Observed!Owned
<1>6. ASSUME r.ok, Reached(az, own, 28)
      PROVE  Reached(r.w, own, 29)
  BY <1>2, <1>3, <1>6 DEF Reached, Fields
<1>7. r.w.application = az.application /\ (r.w.site = "absent" => az.site = "absent" /\ r.w.settings = az.settings)
  BY <1>3 DEF Fields
<1> QED
  BY <1>4, <1>5, <1>6, <1>7 DEF Fits

LEMMA Does_writerResult ==
    ASSUME ObservedTypes, pcObserved = "apply", pos = 29, NEW r, r = Outcome("writerResult")
    PROVE  Fits(29, r)
<1> DEFINE a == Observed!Admission("writerResult", seenObserved)
<1>1. Judged(seenObserved) /\ IsAzure(az) /\ az = [f \in Fields |-> az[f]] /\ own.identity \in Somebody
  BY DEF ObservedTypes, IsAzure
<1>2. r.w \in {az, [az EXCEPT !["writerResult"] = "absent"]} /\ (r.ok => r.w.writerResult = "absent")
  <2>1. a = Observed!LegacyAssignment(seenObserved)
    BY AdmissionIs
  <2>2. CASE a.decision \in {"adopt", "pending"}
    <3>1. r.w = az /\ (r.ok => Observed!Proved("writerResult"))
      BY <2>2 DEF Outcome
    <3>2. Observed!Proved("writerResult") => az.writerResult = "absent"
      BY ProvedIs DEF Observed!ProvedPolicy
    <3> QED
      BY <3>1, <3>2
  <2>3. CASE a.decision \notin {"adopt", "pending"}
    <3>1. r = Observed!Result("writerResult")
      BY <2>3 DEF Outcome
    <3>2. Observed!Result("writerResult") = Observed!Does(az.writerResult = "present" /\ az.locks = "exact",
                      [az EXCEPT !["writerResult"] = "absent"])
      BY ResultIs DEF Observed!ApplyRetirement, Observed!Put
    <3>3. r.w \in {az, [az EXCEPT !["writerResult"] = "absent"]} /\ (r.ok => r.w = [az EXCEPT !["writerResult"] = "absent"])
      <4>1. r = Observed!Does(az.writerResult = "present" /\ az.locks = "exact",
                      [az EXCEPT !["writerResult"] = "absent"])
        BY ONLY <3>1, <3>2
      <4> QED
        BY ONLY <4>1 DEF Observed!Does
    <3>4. [az EXCEPT !["writerResult"] = "absent"].writerResult = "absent"
      BY <1>1 DEF Fields
    <3> QED
      BY <3>3, <3>4
  <2> QED
    BY <2>2, <2>3
<1>3. /\ r.w = [f \in Fields |-> r.w[f]] /\ r.w.writerResult \in {az.writerResult, "absent"}
      /\ \A f \in Fields \ {"writerResult"} : r.w[f] = az[f]
  BY <1>1, <1>2 DEF Fields
<1>4. IsAzure(r.w)
  BY <1>1, <1>3 DEF IsAzure, Fields, Roles, Somebody, Exactness
<1>5. Observed!Owned(Observed!Plan[29], r.w) = own
  BY PlanIs DEF Observed!Owned
<1>6. ASSUME r.ok, Reached(az, own, 29)
      PROVE  Reached(r.w, own, 30)
  BY <1>2, <1>3, <1>6 DEF Reached, Fields
<1>7. r.w.application = az.application /\ (r.w.site = "absent" => az.site = "absent" /\ r.w.settings = az.settings)
  BY <1>3 DEF Fields
<1> QED
  BY <1>4, <1>5, <1>6, <1>7 DEF Fits

LEMMA Does_legacyFic ==
    ASSUME ObservedTypes, pcObserved = "apply", pos = 30, NEW r, r = Outcome("legacyFic")
    PROVE  Fits(30, r)
<1> DEFINE a == Observed!Admission("legacyFic", seenObserved)
<1>1. Judged(seenObserved) /\ IsAzure(az) /\ az = [f \in Fields |-> az[f]] /\ own.identity \in Somebody
  BY DEF ObservedTypes, IsAzure
<1>2. r.w \in {az, [az EXCEPT !["legacyFic"] = "absent"]} /\ (r.ok => r.w.legacyFic = "absent")
  <2>1. a = Observed!LegacyFic(seenObserved)
    BY AdmissionIs
  <2>2. a.decision \notin {"adopt", "pending"}
    BY <2>1 DEF Observed!As, Observed!Refused, Observed!LegacyFic
  <2>3. CASE a.decision \notin {"adopt", "pending"}
    <3>1. r = Observed!Result("legacyFic")
      BY <2>3 DEF Outcome
    <3>2. Observed!Result("legacyFic") = Observed!Does(az.legacyFic = "present",
                      [az EXCEPT !["legacyFic"] = "absent"])
      BY ResultIs DEF Observed!ApplyRetirement, Observed!Put
    <3>3. r.w \in {az, [az EXCEPT !["legacyFic"] = "absent"]} /\ (r.ok => r.w = [az EXCEPT !["legacyFic"] = "absent"])
      <4>1. r = Observed!Does(az.legacyFic = "present",
                      [az EXCEPT !["legacyFic"] = "absent"])
        BY ONLY <3>1, <3>2
      <4> QED
        BY ONLY <4>1 DEF Observed!Does
    <3>4. [az EXCEPT !["legacyFic"] = "absent"].legacyFic = "absent"
      BY <1>1 DEF Fields
    <3> QED
      BY <3>3, <3>4
  <2> QED
    BY <2>2, <2>3
<1>3. /\ r.w = [f \in Fields |-> r.w[f]] /\ r.w.legacyFic \in {az.legacyFic, "absent"}
      /\ \A f \in Fields \ {"legacyFic"} : r.w[f] = az[f]
  BY <1>1, <1>2 DEF Fields
<1>4. IsAzure(r.w)
  BY <1>1, <1>3 DEF IsAzure, Fields, Roles, Somebody, Exactness
<1>5. Observed!Owned(Observed!Plan[30], r.w) = own
  BY PlanIs DEF Observed!Owned
<1>6. ASSUME r.ok, Reached(az, own, 30)
      PROVE  Reached(r.w, own, 31)
  BY <1>2, <1>3, <1>6 DEF Reached, Fields
<1>7. r.w.application = az.application /\ (r.w.site = "absent" => az.site = "absent" /\ r.w.settings = az.settings)
  BY <1>3 DEF Fields
<1> QED
  BY <1>4, <1>5, <1>6, <1>7 DEF Fits

LEMMA Does_fic ==
    ASSUME ObservedTypes, pcObserved = "apply", pos = 31, NEW r, r = Outcome("fic")
    PROVE  Fits(31, r)
<1> DEFINE a == Observed!Admission("fic", seenObserved)
<1>1. Judged(seenObserved) /\ IsAzure(az) /\ az = [f \in Fields |-> az[f]] /\ own.identity \in Somebody
  BY DEF ObservedTypes, IsAzure
<1>2. r.w \in {az, [az EXCEPT !["credential"] = "exact"]} /\ (r.ok => r.w.credential = "exact")
  <2>1. a = Observed!Credential(seenObserved)
    BY AdmissionIs
  <2>2. CASE a.decision \in {"adopt", "pending"}
    <3>1. r.w = az /\ (r.ok => Observed!Proved("fic"))
      BY <2>2 DEF Outcome
    <3>2. Observed!Proved("fic") => az.credential = "exact"
      BY ProvedIs DEF Observed!ProvedPublisher
    <3> QED
      BY <3>1, <3>2
  <2>3. CASE a.decision \notin {"adopt", "pending"}
    <3>1. r = Observed!Result("fic")
      BY <2>3 DEF Outcome
    <3>2. Observed!Result("fic") = Observed!Does(az.application = {own.application} /\ az.credential = "none",
                      [az EXCEPT !["credential"] = "exact"])
      BY ResultIs DEF Observed!ApplyGraph, Observed!Put
    <3>3. r.w \in {az, [az EXCEPT !["credential"] = "exact"]} /\ (r.ok => r.w = [az EXCEPT !["credential"] = "exact"])
      <4>1. r = Observed!Does(az.application = {own.application} /\ az.credential = "none",
                      [az EXCEPT !["credential"] = "exact"])
        BY ONLY <3>1, <3>2
      <4> QED
        BY ONLY <4>1 DEF Observed!Does
    <3>4. [az EXCEPT !["credential"] = "exact"].credential = "exact"
      BY <1>1 DEF Fields
    <3> QED
      BY <3>3, <3>4
  <2> QED
    BY <2>2, <2>3
<1>3. /\ r.w = [f \in Fields |-> r.w[f]] /\ r.w.credential \in {az.credential, "exact"}
      /\ \A f \in Fields \ {"credential"} : r.w[f] = az[f]
  BY <1>1, <1>2 DEF Fields
<1>4. IsAzure(r.w)
  BY <1>1, <1>3 DEF IsAzure, Fields, Roles, Somebody, Exactness
<1>5. Observed!Owned(Observed!Plan[31], r.w) = own
  BY PlanIs DEF Observed!Owned
<1>6. ASSUME r.ok, Reached(az, own, 31)
      PROVE  Reached(r.w, own, 32)
  BY <1>2, <1>3, <1>6 DEF Reached, Fields
<1>7. r.w.application = az.application /\ (r.w.site = "absent" => az.site = "absent" /\ r.w.settings = az.settings)
  BY <1>3 DEF Fields
<1> QED
  BY <1>4, <1>5, <1>6, <1>7 DEF Fits

LEMMA Does_application ==
    ASSUME ObservedTypes, Created, NoneThere, pcObserved = "apply", pos = 2, NEW r, r = Outcome("application")
    PROVE  /\ Fits(2, r)
           /\ \/ /\ Observed!Admission("application", seenObserved).decision \in {"adopt", "pending"}
                 /\ r.w = az
              \/ /\ Observed!Admission("application", seenObserved).decision \notin {"adopt", "pending"}
                 /\ az.application \subseteq {1} /\ r.w.application = az.application \cup {10 + made}
           /\ r.ok /\ seenObserved["application"] # {} =>
                seenObserved["application"] = {Observed!Owned("application", r.w).application}
<1> DEFINE s == seenObserved
           a == Observed!Admission("application", s)
           o == Observed!Owned("application", r.w)
<1>1. Judged(s) /\ IsAzure(az) /\ az = [f \in Fields |-> az[f]] /\ made \in Nat
      /\ own = [application |-> own.application, identity |-> own.identity]
  BY DEF ObservedTypes, IsAzure
<1>2. a = Observed!Application(s) /\ a # Observed!Refused
  BY <1>1, AdmissionIs DEF Judged
<1>3. /\ ~ (Observed!Cardinality(s["application"]) > 1) /\ a = Observed!Present(s["application"], {})
      /\ a.decision \in {"adopt", "pending"} <=> s["application"] # {}
  BY <1>2 DEF Observed!Application, Observed!Present, Observed!As, Observed!Refused
<1>4. o = [own EXCEPT !.application = CHOOSE x \in r.w.application : TRUE]
      /\ Observed!Owned(Observed!Plan[2], r.w) = o
  BY PlanIs DEF Observed!Owned
<1>5. o.application = (CHOOSE x \in r.w.application : TRUE) /\ o.identity = own.identity
  BY <1>1, <1>4
<1>6. CASE a.decision \in {"adopt", "pending"}
  <2>1. r.w = az /\ (r.ok => Observed!Proved("application"))
    BY <1>6 DEF Outcome
  <2>2. r.ok => az.application = s["application"]
    BY <2>1, ProvedIs DEF Observed!ProvedPublisher
  <2>3. ASSUME r.ok
        PROVE  r.w.application = {o.application} /\ s["application"] = {o.application}
    <3>1. PICK x : x \in az.application
      BY <1>3, <1>6, <2>2, <2>3
    <3>2. ~ (Cardinality(az.application) > 1)
      BY <1>3, <2>2, <2>3, SameNumber
    <3>3. az.application = {x}
      <4>1. SUFFICES ASSUME NEW y \in az.application, y # x
                     PROVE  FALSE
        BY <3>1
      <4>2. az.application = {x, y}
        BY <3>1, <4>1 DEF Created
      <4>3. Cardinality({x, y}) = 2
        <5>1. IsFiniteSet({x}) /\ Cardinality({x}) = 1
          BY FS_Singleton
        <5>2. Cardinality({x} \cup {y}) = 2
          BY <4>1, <5>1, FS_AddElement
        <5>3. {x} \cup {y} = {x, y}
          OBVIOUS
        <5> QED
          BY <5>2, <5>3
      <4> QED
        BY <3>2, <4>2, <4>3
    <3> QED
      BY <1>5, <2>1, <2>2, <2>3, <3>3
  <2>4. ASSUME r.ok, Reached(az, own, 2)
        PROVE  Reached(r.w, o, 3)
    BY <2>3, <2>4 DEF Reached
  <2> QED
    BY <1>1, <1>4, <1>6, <2>1, <2>3, <2>4 DEF Fits
<1>7. CASE a.decision \notin {"adopt", "pending"}
  <2>1. s["application"] = {} /\ az.application \subseteq {1}
    BY <1>3, <1>7 DEF NoneThere
  <2>2. r = [ok |-> az.application = {}, w |-> [az EXCEPT !["application"] = az.application \cup {10 + made}]]
    BY <1>7, ResultIs DEF Outcome, Observed!PostApplication, Observed!Put
  <2>3. r.w = [az EXCEPT !["application"] = az.application \cup {10 + made}] /\ (r.ok => az.application = {})
    BY ONLY <2>2
  <2>4. /\ r.w = [f \in Fields |-> r.w[f]] /\ r.w.application = az.application \cup {10 + made}
        /\ \A f \in Fields \ {"application"} : r.w[f] = az[f]
    BY <1>1, <2>3 DEF Fields
  <2>5. IsAzure(r.w)
    BY <1>1, <2>4 DEF IsAzure, Fields
  <2>6. ASSUME r.ok
        PROVE  r.w.application = {o.application}
    BY <1>5, <2>3, <2>4, <2>6
  <2>7. ASSUME r.ok, Reached(az, own, 2)
        PROVE  Reached(r.w, o, 3)
    BY <2>6, <2>7 DEF Reached
  <2> QED
    BY <1>4, <1>7, <2>1, <2>4, <2>5, <2>7 DEF Fits, Fields
<1> QED
  BY <1>6, <1>7

LEMMA Does_identity ==
    ASSUME ObservedTypes, pcObserved = "apply", pos = 5, NEW r, r = Outcome("identity")
    PROVE  Fits(5, r)
<1> DEFINE a == Observed!Admission("identity", seenObserved)
           q == CHOOSE p \in Observed!Principals : p # az.assigned
           o == Observed!Owned("identity", r.w)
<1>1. IsAzure(az) /\ az = [f \in Fields |-> az[f]]
      /\ own = [application |-> own.application, identity |-> own.identity]
  BY DEF ObservedTypes, IsAzure
<1>2. q \in Somebody
  <2>1. \E p \in Observed!Principals : p # az.assigned
    BY DEF Observed!Principals
  <2> QED
    BY <2>1 DEF Observed!Principals, Somebody
<1> HIDE DEF q
<1>3. r.w \in {az, [az EXCEPT !["identity"] = q]} /\ (r.ok => r.w.identity # 0)
  <2>1. a = Observed!Present(seenObserved["identity"], 0)
    BY AdmissionIs
  <2>2. a.decision \in {"adopt", "pending"} => seenObserved["identity"] # 0
    BY <2>1 DEF Observed!Present, Observed!As
  <2>3. CASE a.decision \in {"adopt", "pending"}
    <3>1. r.w = az /\ (r.ok => Observed!Proved("identity"))
      BY <2>3 DEF Outcome
    <3>2. Observed!Proved("identity") => az.identity = seenObserved["identity"]
      BY ProvedIs DEF Observed!ProvedResource
    <3> QED
      BY <2>2, <2>3, <3>1, <3>2
  <2>4. CASE a.decision \notin {"adopt", "pending"}
    <3>1. r = Observed!Result("identity")
      BY <2>4 DEF Outcome
    <3>2. Observed!Result("identity") =
            Observed!Does(TRUE, IF az.identity # 0 THEN az ELSE [az EXCEPT !["identity"] = q])
      BY ResultIs DEF Observed!ApplyResource, Observed!Put, q
    <3>3. /\ az.identity # 0 => r.w = az
          /\ az.identity = 0 => r.w = [az EXCEPT !["identity"] = q]
      <4>1. r = Observed!Does(TRUE, IF az.identity # 0 THEN az ELSE [az EXCEPT !["identity"] = q])
        BY ONLY <3>1, <3>2
      <4> QED
        BY ONLY <4>1 DEF Observed!Does
    <3>4. [az EXCEPT !["identity"] = q].identity = q
      BY <1>1 DEF Fields
    <3> QED
      BY <1>2, <3>3, <3>4 DEF Somebody
  <2> QED
    BY <2>3, <2>4
<1>4. /\ r.w = [f \in Fields |-> r.w[f]] /\ r.w.identity \in {az.identity, q}
      /\ \A f \in Fields \ {"identity"} : r.w[f] = az[f]
  BY <1>1, <1>3 DEF Fields
<1>5. IsAzure(r.w)
  BY <1>1, <1>2, <1>4 DEF IsAzure, Fields
<1>6. o = [own EXCEPT !.identity = r.w.identity] /\ Observed!Owned(Observed!Plan[5], r.w) = o
  BY PlanIs DEF Observed!Owned
<1>7. o.application = own.application /\ o.identity = r.w.identity
  BY <1>1, <1>6
<1>8. ASSUME r.ok, Reached(az, own, 5)
      PROVE  Reached(r.w, o, 6)
  BY <1>4, <1>7, <1>8 DEF Reached, Fields
<1>9. r.ok => r.w.identity \in Somebody
  BY <1>3, <1>5 DEF IsAzure
<1>10. r.w.application = az.application /\ r.w.site = az.site /\ r.w.settings = az.settings
  BY <1>4 DEF Fields
<1> QED
  BY <1>5, <1>6, <1>8, <1>9, <1>10 DEF Fits

LEMMA OutcomeFits ==
    ASSUME ObservedTypes, Created, NoneThere, pcObserved = "apply"
    PROVE  Fits(pos, Outcome(Observed!Plan[pos]))
<1>1. pos \in 1 .. 31
  BY DEF ObservedTypes
<1>2. CASE pos = 1
  BY <1>2, PlanIs, Does_claim
<1>3. CASE pos = 2
  BY <1>3, PlanIs, Does_application
<1>4. CASE pos = 3
  BY <1>4, PlanIs, Does_service
<1>5. CASE pos = 4
  BY <1>5, PlanIs, Does_grant
<1>6. CASE pos = 5
  BY <1>6, PlanIs, Does_identity
<1>7. CASE pos = 6
  BY <1>7, PlanIs, Does_writer
<1>8. CASE pos = 7
  BY <1>8, PlanIs, Does_lock
<1>9. CASE pos = 8
  BY <1>9, PlanIs, Does_key
<1>10. CASE pos = 9
  BY <1>10, PlanIs, Does_definitions
<1>11. CASE pos = 10
  BY <1>11, PlanIs, Does_bridge
<1>12. CASE pos = 11
  BY <1>12, PlanIs, Does_assignments
<1>13. CASE pos = 12
  BY <1>13, PlanIs, Does_attach
<1>14. CASE pos = 13
  BY <1>14, PlanIs, Does_addRule
<1>15. CASE pos = 14
  BY <1>15, PlanIs, Does_addController
<1>16. CASE pos = 15
  BY <1>16, PlanIs, Does_empty
<1>17. CASE pos = 16
  BY <1>17, PlanIs, Does_dropController
<1>18. CASE pos = 17
  BY <1>18, PlanIs, Does_addPackage
<1>19. CASE pos = 18
  BY <1>19, PlanIs, Does_package
<1>20. CASE pos = 19
  BY <1>20, PlanIs, Does_dropPackage
<1>21. CASE pos = 20
  BY <1>21, PlanIs, Does_addFence
<1>22. CASE pos = 21
  BY <1>22, PlanIs, Does_fence
<1>23. CASE pos = 22
  BY <1>23, PlanIs, Does_dropFence
<1>24. CASE pos = 23
  BY <1>24, PlanIs, Does_removeRule
<1>25. CASE pos = 24
  BY <1>25, PlanIs, Does_settings
<1>26. CASE pos = 25
  BY <1>26, PlanIs, Does_worm
<1>27. CASE pos = 26
  BY <1>27, PlanIs, Does_canary
<1>28. CASE pos = 27
  BY <1>28, PlanIs, Does_accepted
<1>29. CASE pos = 28
  BY <1>29, PlanIs, Does_detach
<1>30. CASE pos = 29
  BY <1>30, PlanIs, Does_writerResult
<1>31. CASE pos = 30
  BY <1>31, PlanIs, Does_legacyFic
<1>32. CASE pos = 31
  BY <1>32, PlanIs, Does_fic
<1> QED
  BY <1>1, <1>2, <1>3, <1>4, <1>5, <1>6, <1>7, <1>8, <1>9, <1>10, <1>11, <1>12, <1>13, <1>14, <1>15, <1>16, <1>17, <1>18, <1>19, <1>20, <1>21, <1>22, <1>23, <1>24, <1>25, <1>26, <1>27, <1>28, <1>29, <1>30, <1>31, <1>32

LEMMA TargetReached ==
    ASSUME NEW w, NEW o, Reached(w, o, 32), o.identity \in Somebody
    PROVE  Observed!Target(w)
<1>1. w.definitions = [d \in {"fence", "others"} |-> "exact"]
  BY DEF Reached
<1>2. Observed!Range(w.definitions) = {"exact"}
  BY <1>1 DEF Observed!Range
<1>3. \E a \in w.application : w.application = {a} /\ w.service = a
  BY DEF Reached
<1> QED
  BY <1>2, <1>3 DEF Reached, Observed!Target, Somebody

LEMMA ObservedOperates ==
    ASSUME ObservedInv, Observed!Operation
    PROVE  ObservedInv'
<1> DEFINE op == Observed!Plan[pos]
           r  == Outcome(op)
<1>1. /\ UNCHANGED <<pinned, beganObserved, spare, drifts, stops, deleted, still>> /\ pcObserved = "apply"
      /\ made' = made + IF op = "application" /\ ~ Observed!Adopting THEN 1 ELSE 0
  BY DEF Observed!Operation
<1>2. IF r.ok
      THEN /\ az' = r.w /\ own' = Observed!Owned(op, r.w)
           /\ IF pos = Len(Observed!Plan) THEN pcObserved' = "done" /\ pos' = 0 /\ seenObserved' = <<>>
              ELSE pcObserved' = "apply" /\ pos' = pos + 1 /\ UNCHANGED seenObserved
           /\ UNCHANGED whyObserved
      ELSE az' = Observed!Compensated(r.w) /\ Observed!End /\ whyObserved' = <<"apply", op>>
  BY DEF Observed!Operation, Observed!Adopting, Outcome
<1>3. ObservedTypes /\ Created /\ NoneThere /\ Undisturbed /\ Progress
  BY DEF ObservedInv
<1>4. pos \in 1 .. 31 /\ Len(Observed!Plan) = 31 /\ made \in Nat /\ deleted \in Nat /\ still \in BOOLEAN
      /\ (spare = <<>> \/ Judged(spare)) /\ whyObserved = <<>> /\ Judged(seenObserved)
  BY <1>1, <1>3, PlanIs DEF ObservedTypes
<1>5. Fits(pos, r)
  BY <1>1, <1>3, OutcomeFits
<1>6. pos = 2 <=> op = "application"
  <2>1. \A i \in 1 .. 31 : Observed!Plan[i] = "application" <=> i = 2
    BY PlanIs
  <2> QED
    BY <1>4, <2>1
<1>7. IsAzure(r.w) /\ (r.w.site = "absent" => az.site = "absent" /\ r.w.settings = az.settings)
  BY <1>5 DEF Fits
<1>8. made' \in Nat /\ \A w : w.application = r.w.application =>
        \/ w.application \subseteq {1} /\ made' = deleted
        \/ \E k \in Nat : w.application \ {1} = {10 + k} /\ made' = deleted + 1
  <2>1. CASE op = "application" /\ ~ Observed!Adopting
    <3>1. az.application \subseteq {1} /\ r.w.application = az.application \cup {10 + made}
      BY <1>1, <1>3, <1>6, <2>1, Does_application DEF Observed!Adopting
    <3>2. made = deleted /\ made' = made + 1
      BY <1>1, <1>3, <1>4, <2>1, <3>1 DEF Created
    <3>3. r.w.application \ {1} = {10 + made}
      BY <1>4, <3>1
    <3>4. \A w : w.application = r.w.application => w.application \ {1} = {10 + made} /\ made' = deleted + 1
      BY <3>2, <3>3
    <3>5. made' \in Nat
      BY <1>4, <3>2
    <3> QED
      BY <1>4, <3>4, <3>5
  <2>2. CASE op = "application" /\ Observed!Adopting
    <3>1. r.w = az
      BY <1>1, <1>3, <1>6, <2>2, Does_application DEF Observed!Adopting
    <3>2. made' = made
      BY <1>1, <1>4, <2>2
    <3> QED
      BY <1>3, <1>4, <3>1, <3>2 DEF Created
  <2>3. CASE op # "application"
    <3>1. r.w.application = az.application
      BY <1>5, <1>6, <2>3 DEF Fits
    <3>2. made' = made
      BY <1>1, <1>4, <2>3
    <3> QED
      BY <1>3, <1>4, <3>1, <3>2 DEF Created
  <2> QED
    BY <2>1, <2>2, <2>3
<1>9. CASE ~ r.ok
  <2>1. /\ az' = Observed!Compensated(r.w) /\ pcObserved' = "idle" /\ pos' = 0 /\ seenObserved' = <<>>
        /\ own' = [application |-> 0, identity |-> 0] /\ whyObserved' = <<"apply", op>>
    BY <1>2, <1>9 DEF Observed!End, Observed!NoneOwned
  <2>2. IsAzure(az') /\ az'.application = r.w.application /\ az'.settings = "empty"
    BY <1>7, <2>1, CompensatedIs DEF Fields
  <2>3. ObservedTypes'
    BY <1>1, <1>3, <1>4, <1>8, <2>1, <2>2 DEF ObservedTypes
  <2>4. Created'
    BY <1>1, <1>8, <2>2 DEF Created
  <2>5. NoneThere' /\ Undisturbed' /\ Progress'
    BY <2>1, <2>2 DEF NoneThere, Undisturbed, Progress
  <2> QED
    BY <2>3, <2>4, <2>5 DEF ObservedInv
<1>10. CASE r.ok
  <2>1. /\ az' = r.w /\ own' = Observed!Owned(op, r.w) /\ UNCHANGED whyObserved
        /\ IF pos = 31 THEN pcObserved' = "done" /\ pos' = 0 /\ seenObserved' = <<>>
           ELSE pcObserved' = "apply" /\ pos' = pos + 1 /\ UNCHANGED seenObserved
    BY <1>2, <1>4, <1>10
  <2>2. own = [application |-> own.application, identity |-> own.identity]
    BY <1>3 DEF ObservedTypes
  <2>3. /\ own' = [application |-> own'.application, identity |-> own'.identity]
        /\ op # "application" => own'.application = own.application
        /\ op # "identity" => own'.identity = own.identity
        /\ op = "identity" => own'.identity = r.w.identity
    BY <2>1, <2>2 DEF Observed!Owned
  <2>4. pos = 5 <=> op = "identity"
    <3>1. \A i \in 1 .. 31 : Observed!Plan[i] = "identity" <=> i = 5
      BY PlanIs
    <3> QED
      BY <1>4, <3>1
  <2>5. pos >= 5 => own'.identity \in Somebody
    <3>1. CASE pos = 5
      BY <1>5, <1>10, <2>3, <2>4, <3>1 DEF Fits
    <3>2. CASE pos # 5
      <4>1. pos > 5 => own.identity \in Somebody
        BY <1>3 DEF ObservedTypes
      <4> QED
        BY <1>4, <2>3, <2>4, <3>2, <4>1, SMTT(60)
    <3> QED
      BY <3>1, <3>2
  <2>6. pos >= 2 /\ seenObserved["application"] # {} => seenObserved["application"] = {own'.application}
    <3>1. CASE pos = 2
      BY <1>1, <1>3, <1>6, <1>10, <2>1, <3>1, Does_application
    <3>2. CASE pos # 2
      <4>1. pos > 2 /\ seenObserved["application"] # {} => seenObserved["application"] = {own.application}
        BY <1>3 DEF ObservedTypes
      <4>2. pos >= 2 => pos > 2
        BY <1>4, <3>2
      <4> QED
        BY <1>6, <2>3, <3>2, <4>1, <4>2
    <3> QED
      BY <3>1, <3>2
  <2>7. still => Reached(az', own', pos + 1)
    BY <1>1, <1>3, <1>5, <1>10, <2>1 DEF Fits, Progress
  <2>8. ObservedTypes'
    <3>1. pcObserved' \in {"apply", "done"} /\ pos' \in 0 .. 31 /\ (pos' > 0 <=> pcObserved' = "apply")
      <4>1. CASE pos = 31
        BY <2>1, <4>1
      <4>2. CASE pos # 31
        <5>1. pos + 1 \in 0 .. 31 /\ pos + 1 > 0
          BY <1>4, <4>2
        <5> QED
          BY <2>1, <4>2, <5>1
      <4> QED
        BY <4>1, <4>2
    <3>2. pcObserved' = "done" => seenObserved' = <<>>
      BY <2>1
    <3>3. pcObserved' = "apply" => Judged(seenObserved')
      BY <1>4, <2>1
    <3>4. pos' > 5 => own'.identity \in Somebody
      BY <1>4, <2>1, <2>5
    <3>5. pos' > 2 /\ seenObserved'["application"] # {} => seenObserved'["application"] = {own'.application}
      BY <1>4, <2>1, <2>6
    <3>6. IsAzure(az') /\ whyObserved' = <<>>
      BY <1>4, <1>7, <2>1
    <3>7. drifts' \in Nat /\ stops' \in Nat /\ deleted' \in Nat /\ still' \in BOOLEAN
      BY <1>1, <1>3 DEF ObservedTypes
    <3> QED
      BY <1>1, <1>4, <1>8, <2>3, <3>1, <3>2, <3>3, <3>4, <3>5, <3>6, <3>7 DEF ObservedTypes
  <2>9. Created'
    BY <1>1, <1>8, <2>1 DEF Created
  <2>10. NoneThere'
    BY <1>1, <1>3, <1>4, <1>5, <2>1, SMTT(60) DEF NoneThere, Fits
  <2>11. Undisturbed'
    BY <1>1, <1>3, <1>7, <2>1 DEF Undisturbed
  <2>12. Progress'
    <3>1. CASE pos = 31
      <4>1. still' => Reached(az', own', 32)
        BY <1>1, <2>7, <3>1
      <4>2. own'.identity \in Somebody
        BY <2>5, <3>1
      <4> QED
        BY <2>1, <3>1, <4>1, <4>2, TargetReached DEF Progress
    <3>2. CASE pos # 31
      BY <1>1, <2>1, <2>7, <3>2 DEF Progress
    <3> QED
      BY <3>1, <3>2
  <2> QED
    BY <2>8, <2>9, <2>10, <2>11, <2>12 DEF ObservedInv
<1> QED
  BY <1>9, <1>10

LEMMA ObservedBegins ==
    ASSUME Observed!Init
    PROVE  ObservedInv
<1>1. PICK f \in Fences : az = Observed!AzureInit(f)
  BY DEF Observed!Init
<1>2. /\ pcObserved = "idle" /\ beganObserved = az /\ seenObserved = <<>> /\ spare = <<>> /\ pos = 0
      /\ own = [application |-> 0, identity |-> 0] /\ whyObserved = <<>>
      /\ drifts = 0 /\ stops = 0 /\ made = 0 /\ deleted = 0 /\ still = TRUE
  BY DEF Observed!Init, Observed!NoneOwned
<1>3. az = [g \in Fields |-> az[g]]
  BY <1>1 DEF Observed!AzureInit, Fields
<1>4. /\ az.application = {} /\ az.identity = 0 /\ az.assigned = 0 /\ az.role = "none"
      /\ az.settings = "empty" /\ az.definitions = [d \in {"fence", "others"} |-> "absent"]
  BY <1>1 DEF Observed!AzureInit, Observed!Definitions
<1>5. IsAzure(az)
  BY <1>3, <1>4 DEF IsAzure, Roles, Exactness
<1>6. ObservedTypes
  BY <1>2, <1>5 DEF ObservedTypes
<1>7. Created /\ NoneThere /\ Undisturbed /\ Progress
  BY <1>2, <1>4 DEF Created, NoneThere, Undisturbed, Progress
<1> QED
  BY <1>6, <1>7 DEF ObservedInv

LEMMA ObservedStays ==
    ASSUME ObservedInv, UNCHANGED observedVars
    PROVE  ObservedInv'
<1>1. UNCHANGED <<az, pcObserved, beganObserved, seenObserved, spare, pos, own, whyObserved,
                  drifts, stops, made, deleted, still>>
  BY DEF observedVars
<1>2. ObservedTypes'
  BY <1>1 DEF ObservedInv, ObservedTypes
<1>3. Created' /\ NoneThere' /\ Undisturbed' /\ Progress'
  BY <1>1 DEF ObservedInv, Created, NoneThere, Undisturbed, Progress
<1> QED
  BY <1>2, <1>3 DEF ObservedInv

LEMMA ObservedMoves ==
    ASSUME ObservedInv, Observed!Next
    PROVE  ObservedInv'
<1>1. CASE Observed!Observe
  BY <1>1, ObservedOpens
<1>2. CASE Observed!CloseBatch
  BY <1>2, ObservedClosesBatch
<1>3. CASE Observed!Judge
  BY <1>3, ObservedJudges
<1>4. CASE Observed!Admit
  BY <1>4, ObservedAdmits
<1>5. CASE Observed!Operation
  BY <1>5, ObservedOperates
<1>6. CASE Observed!Keep
  BY <1>6, ObservedKeeps
<1>7. CASE Observed!UseSpare
  BY <1>7, ObservedUsesSpare
<1>8. CASE Observed!Start
  BY <1>8, ObservedStarts
<1>9. CASE Observed!Interrupt
  BY <1>9, ObservedInterrupts
<1>10. CASE Observed!Recover
  BY <1>10, ObservedRecovers
<1>11. CASE Observed!Drift
  BY <1>11, ObservedDrifts
<1> QED
  BY <1>1, <1>2, <1>3, <1>4, <1>5, <1>6, <1>7, <1>8, <1>9, <1>10, <1>11 DEF Observed!Next, Observed!Work

LEMMA ObservedIsSafe ==
    ASSUME ObservedInv
    PROVE  ObservedSafe
<1>1. ObservedTypes /\ Created /\ Progress
  BY DEF ObservedInv
<1>2. Observed!TypeOK
  <2>1. /\ pcObserved \in {"idle", "batch", "tail", "template", "fresh", "apply", "done"}
        /\ pos \in 0 .. Len(Observed!Plan) /\ (pos > 0 <=> pcObserved = "apply")
        /\ whyObserved = <<>> \/ (pcObserved = "idle" /\ Len(whyObserved) = 2)
    BY <1>1, PlanIs DEF ObservedTypes
  <2>2. DOMAIN <<>> = {}
    OBVIOUS
  <2>3. /\ pcObserved \in {"idle", "batch", "done"} => DOMAIN seenObserved = {}
        /\ pcObserved = "tail" => DOMAIN seenObserved = Observed!Batch
        /\ pcObserved \in {"template", "fresh", "apply"} =>
             DOMAIN seenObserved = Observed!Batch \cup Observed!Boundary
    BY <1>1, <2>2 DEF ObservedTypes, Judged
  <2>4. DOMAIN seenObserved = CASE pcObserved \in {"idle", "batch", "done"} -> {}
                                [] pcObserved = "tail" -> Observed!Batch
                                [] OTHER -> Observed!Batch \cup Observed!Boundary
    BY <2>1, <2>3
  <2>5. spare = <<>> \/ DOMAIN spare = Observed!Batch \cup Observed!Boundary
    BY <1>1 DEF ObservedTypes, Judged
  <2>6. /\ az.identity \in {0} \cup Observed!Principals /\ az.assigned \in {0} \cup Observed!Principals
        /\ az.definitions \in [Observed!Definitions -> {"absent", "exact", "foreign"}]
        /\ az.role \in {"none", "controller", "package", "fence"}
    BY <1>1 DEF ObservedTypes, IsAzure, Observed!Principals, Observed!Definitions, Somebody, Exactness, Roles
  <2> QED
    BY <2>1, <2>4, <2>5, <2>6 DEF Observed!TypeOK
<1>3. Observed!CreatedOnce
  BY <1>1 DEF Created, ObservedTypes, Observed!CreatedOnce
<1>4. Observed!DoneIsTarget
  BY <1>1 DEF Progress, Observed!DoneIsTarget
<1> QED
  BY <1>2, <1>3, <1>4 DEF ObservedSafe

(* The step that admits a run.                                             *)
LEMMA AdmittedAs ==
    ASSUME ObservedInv, Observed!Next, pcObserved = "fresh", pcObserved' = "apply"
    PROVE  /\ Judged(seenObserved)
           /\ beganObserved = az =>
                \A r \in Observed!Batch \cup Observed!Boundary : Observed!Shown(r, az) = seenObserved[r]
<1>1. Observed!Admit
  BY DEF Observed!Next, Observed!Work, Observed!Observe, Observed!CloseBatch, Observed!Judge, Observed!Operation,
         Observed!Keep, Observed!UseSpare, Observed!Start, Observed!Interrupt, Observed!Recover, Observed!Drift
<1>2. PICK fresh \in Observed!Answers(Observed!Batch \cup Observed!Boundary) : fresh = seenObserved
  BY <1>1 DEF Observed!Admit, Observed!Same, Observed!Refuse
<1>3. Judged(seenObserved)
  BY DEF ObservedInv, ObservedTypes
<1> QED
  BY <1>2, <1>3, AnswersAre

(* Whatever others change and however many runs are interrupted: over all  *)
(* runs one application is created, and another only for one that was      *)
(* deleted; and a bootstrap that ends, with nothing changed that it had    *)
(* proved, leaves every resource as the plan says (apply_operation).       *)
THEOREM ObservedHolds == EitherSpec => []ObservedSafe
<1>1. EitherInit => ObservedInv
  BY ObservedBegins DEF EitherInit
<1>2. ObservedInv /\ [EitherNext]_either => ObservedInv'
  <2>1. SUFFICES ASSUME ObservedInv, [EitherNext]_either
                 PROVE  ObservedInv'
    OBVIOUS
  <2>2. Observed!Next \/ UNCHANGED observedVars
    BY <2>1 DEF EitherNext, either
  <2> QED
    BY <2>1, <2>2, ObservedMoves, ObservedStays
<1>3. ObservedInv => ObservedSafe
  BY ObservedIsSafe
<1> QED
  BY <1>1, <1>2, <1>3, PTL DEF EitherSpec

(* A run is admitted in the world its evidence describes, if nobody changed *)
(* it meanwhile, and never while a dead run has left access or settings:   *)
(* the fresh reads of the executor, before it claims the authorization.    *)
THEOREM ObservedStepsHold == EitherSpec => ObservedSteps
<1>1. EitherInit => ObservedInv
  BY ObservedBegins DEF EitherInit
<1>2. ObservedInv /\ [EitherNext]_either => ObservedInv'
  <2>1. SUFFICES ASSUME ObservedInv, [EitherNext]_either
                 PROVE  ObservedInv'
    OBVIOUS
  <2>2. Observed!Next \/ UNCHANGED observedVars
    BY <2>1 DEF EitherNext, either
  <2> QED
    BY <2>1, <2>2, ObservedMoves, ObservedStays
<1>3. ASSUME ObservedInv, [EitherNext]_either, ~ UNCHANGED Observed!vars
      PROVE  Observed!Next
  BY <1>3 DEF EitherNext, either, observedVars, Observed!vars
<1>4. ObservedInv /\ [EitherNext]_either =>
        [pcObserved = "fresh" /\ pcObserved' = "apply" /\ beganObserved = az =>
           \A r \in Observed!Batch \cup Observed!Boundary : Observed!Shown(r, az) = seenObserved[r]]_(Observed!vars)
  <2>1. SUFFICES ASSUME ObservedInv, [EitherNext]_either, ~ UNCHANGED Observed!vars,
                        pcObserved = "fresh", pcObserved' = "apply", beganObserved = az
                 PROVE  \A r \in Observed!Batch \cup Observed!Boundary : Observed!Shown(r, az) = seenObserved[r]
    OBVIOUS
  <2> QED
    BY <1>3, <2>1, AdmittedAs
<1>5. ObservedInv /\ [EitherNext]_either =>
        [pcObserved = "fresh" /\ pcObserved' = "apply" /\ drifts = 0 => az = Observed!Compensated(az)]_(Observed!vars)
  <2>1. SUFFICES ASSUME ObservedInv, [EitherNext]_either, ~ UNCHANGED Observed!vars,
                        pcObserved = "fresh", pcObserved' = "apply", drifts = 0
                 PROVE  az = Observed!Compensated(az)
    OBVIOUS
  <2>2. beganObserved = az /\ (az.site = "absent" => az.settings = "empty") /\ IsAzure(az)
    BY <2>1 DEF ObservedInv, Undisturbed, ObservedTypes
  <2>3. /\ Judged(seenObserved)
        /\ \A r \in Observed!Batch \cup Observed!Boundary : Observed!Shown(r, az) = seenObserved[r]
    BY <1>3, <2>1, <2>2, AdmittedAs
  <2>4. /\ seenObserved["storage"] = az.rule /\ seenObserved["markers"] = az.role
        /\ seenObserved["settings"] = IF az.site = "absent" THEN AbsentSite ELSE az.settings
    BY <2>3 DEF Observed!Batch, Observed!Boundary, Observed!Shown
  <2>5. az.role = "none" /\ az.rule = "none" /\ (az.site # "absent" => az.settings = "empty")
    BY <2>3, <2>4 DEF Judged, Observed!UploaderRule, Observed!Settings
  <2> QED
    BY <2>2, <2>5, CompensatedIs
<1>6. EitherSpec => Observed!AuthorizedWorld
  BY <1>1, <1>2, <1>4, PTL DEF EitherSpec, Observed!AuthorizedWorld
<1>7. EitherSpec => Observed!LeftoverBlocks
  BY <1>1, <1>2, <1>5, PTL DEF EitherSpec, Observed!LeftoverBlocks
<1> QED
  BY <1>6, <1>7 DEF ObservedSteps
=============================================================================
