----------------------- MODULE ActivationFence_proofs -------------------------
(***************************************************************************)
(* Proofs about ActivationFence, for any set of workers, releases and      *)
(* packages and any bounds.  TypeOK is not inductive alone: what a step    *)
(* writes comes from the plan and the receipt its worker holds, which      *)
(* BusyOK says it has.                                                     *)
(***************************************************************************)
EXTENDS ActivationFence, TLAPS

Typed == TypeOK /\ BusyOK

(* No worker is paused across a lease term between a last renewal and the *)
(* effect it protects.                                                     *)
NoWindowStall == StallAt \cap Window = {}

-----------------------------------------------------------------------------
(* Type correctness *)

(* The old and the desired map of a plan are App Settings.                 *)
LEMMA PlanType ==
    ASSUME NEW p \in Plan
    PROVE  p.release \in Releases /\ p.pre \in Settings /\ p.desired \in Settings
BY DEF Plan

(* A receipt holds a plan, and numbers.                                    *)
LEMMA ReceiptType ==
    ASSUME NEW d \in Receipt
    PROVE  d.plan \in Plan /\ d.version \in Nat /\ d.lease \in Nat
BY DEF Receipt

LEMMA TowardType ==
    ASSUME NEW s \in Settings, NEW r \in Releases
    PROVE  Toward(s, r) \in Settings
BY ConstantsOK DEF Toward, Settings

(* Init gives every variable its type.                                     *)
LEMMA TypeInit == Init => Typed
BY ConstantsOK DEF Init, Typed, TypeOK, BusyOK, Counter, Guarded, Window,
                   Settling, Settings

(* A request that ends leaves its worker typed.                            *)
LEMMA TypeReset ==
    ASSUME Typed, NEW w \in Workers, Reset(w)
    PROVE  /\ pc' \in [Workers -> Counter]
           /\ req' \in [Workers -> Plan \cup {NoPlan}]
           /\ grant' \in [Workers -> Receipt \cup {NoReceipt}]
           /\ mine' \in [Workers -> Nat]
           /\ BusyOK'
<1> USE DEF Typed, TypeOK, Reset, Goto
<1>1. "idle" \in Counter /\ "idle" \notin Guarded \cup Window \cup Settling
  BY DEF Counter, Guarded, Window, Settling
<1>2. QED
  BY <1>1 DEF BusyOK

(* A worker that goes on to label l with the same plan and receipt.        *)
LEMMA TypeGoto ==
    ASSUME Typed, NEW w \in Workers, NEW l \in Counter, Goto(w, l),
           pc[w] # "idle", UNCHANGED <<req, grant>>,
           l \in Guarded \cup Window \cup Settling => grant[w] \in Receipt
    PROVE  pc' \in [Workers -> Counter] /\ BusyOK'
BY DEF Typed, TypeOK, Goto, BusyOK

(* The requests a worker takes in and the binding of the fence.            *)
LEMMA TypeServe ==
    ASSUME Typed, NEW w \in Workers, Serve(w)
    PROVE  Typed'
<1> USE DEF shared, local, history
<1> DEFINE Lists == Guarded \cup Window \cup Settling
<1>0. TypeOK /\ BusyOK
  BY DEF Typed
<1>1. CASE \E r \in Releases : PrepareRecovered(w, r)
  <2>1. PICK r \in Releases : PrepareRecovered(w, r)
    BY <1>1
  <2>2. plans' \subseteq Plan
    BY <2>1, <1>0, ReceiptType DEF PrepareRecovered, TypeOK
  <2>3. QED
    BY <2>1, <2>2, <1>0 DEF PrepareRecovered, TypeOK, BusyOK, Typed
<1>2. CASE \E r \in Releases : PrepareObserve(w, r)
  <2>1. PICK r \in Releases : PrepareObserve(w, r)
    BY <1>2
  <2>2. [release |-> r, pre |-> settings, desired |-> Toward(settings, r)] \in Plan
    BY <1>0, TowardType DEF Plan, TypeOK
  <2>3. "prepare" \in Counter /\ "prepare" \notin Lists
    BY DEF Counter, Guarded, Window, Settling
  <2>4. QED
    BY <2>1, <2>2, <2>3, <1>0 DEF PrepareObserve, Goto, TypeOK, BusyOK, Typed
<1>3. CASE PrepareFence(w)
  <2>1. req[w] \in Plan
    BY <1>3, <1>0 DEF PrepareFence, BusyOK
  <2>2. Answer(w) \subseteq Plan
    BY <2>1, <1>0, ReceiptType DEF Answer, Idle, TypeOK
  <2>3. QED
    BY <1>3, <2>2, <1>0, TypeReset DEF PrepareFence, TypeOK, Typed
<1>4. CASE \E p \in plans : Request(w, p)
  <2>1. PICK p \in plans : Request(w, p)
    BY <1>4
  <2>2. "observe" \in Counter /\ "observe" \notin Lists
    BY DEF Counter, Guarded, Window, Settling
  <2>3. QED
    BY <2>1, <2>2, <1>0 DEF Request, Goto, TypeOK, BusyOK, Typed
<1>5. CASE \E p \in plans : RequestTerminal(w, p)
  <2>1. PICK p \in plans : RequestTerminal(w, p)
    BY <1>5
  <2>2. PICK d \in consumed : grant' = [grant EXCEPT ![w] = d]
    BY <2>1 DEF RequestTerminal
  <2>3. "recover" \in Counter
    BY DEF Counter
  <2>4. QED
    BY <2>1, <2>2, <2>3, <1>0 DEF RequestTerminal, Goto, TypeOK, BusyOK, Typed
<1>6. CASE Observe(w)
  <2>1. "acquire" \in Counter /\ "acquire" \notin Lists
    BY DEF Counter, Guarded, Window, Settling
  <2>2. QED
    BY <1>6, <2>1, <1>0, TypeGoto DEF Observe, TypeOK, Typed
<1>7. CASE Acquire(w)
  <2>1. "bind" \in Counter /\ "bind" \notin Lists
    BY DEF Counter, Guarded, Window, Settling
  <2>2. pc' \in [Workers -> Counter] /\ BusyOK'
    BY <1>7, <2>1, TypeGoto DEF Acquire
  <2>3. QED
    BY <1>7, <2>2, <1>0 DEF Acquire, TakeLease, TypeOK, Typed
<1>8. CASE Bind(w)
  <2>1. "read" \in Counter
    BY DEF Counter, Guarded
  <2>2. Bound(w) \in Receipt
    BY <1>8, <1>0 DEF Bind, Bound, Receipt, TypeOK, BusyOK
  <2>3. pc' \in [Workers -> Counter] /\ grant' \in [Workers -> Receipt \cup {NoReceipt}]
    BY <1>8, <2>1, <2>2, <1>0 DEF Bind, Goto, TypeOK
  <2>4. BusyOK'
    BY <1>8, <2>2, <1>0 DEF Bind, Goto, TypeOK, BusyOK
  <2>5. fence' \in [receipt: Receipt \cup {NoReceipt}, version: Nat,
                    status: {"bootstrap", "consumed", "aborted", "rollback-complete"},
                    proof: Nat]
    BY <1>8, <2>2, <1>0 DEF Bind, TypeOK
  <2>6. QED
    BY <1>8, <2>3, <2>4, <2>5, <1>0 DEF Bind, TypeOK, Typed
<1>9. CASE BindUnseen(w)
  <2>1. Bound(w) \in Receipt
    BY <1>9, <1>0 DEF BindUnseen, Bound, Receipt, TypeOK, BusyOK
  <2>2. fence' \in [receipt: Receipt \cup {NoReceipt}, version: Nat,
                    status: {"bootstrap", "consumed", "aborted", "rollback-complete"},
                    proof: Nat]
    BY <1>9, <2>1, <1>0 DEF BindUnseen, TypeOK
  <2>3. QED
    BY <1>9, <2>2, <1>0, TypeReset DEF BindUnseen, TypeOK, Typed
<1>10. CASE BindBusy(w)
  BY <1>10, <1>0, TypeReset DEF BindBusy, TypeOK, Typed
<1>11. QED
  BY <1>1, <1>2, <1>3, <1>4, <1>5, <1>6, <1>7, <1>8, <1>9, <1>10 DEF Serve

(* The activation moves workers and writes the App Settings.               *)
LEMMA TypeActivate ==
    ASSUME Typed, NEW w \in Workers, Activate(w)
    PROVE  Typed'
<1> USE DEF shared, local, history
<1>0. TypeOK /\ BusyOK /\ (pc[w] # "idle" => req[w] \in Plan)
  BY DEF Typed, BusyOK
<1>1. CASE \/ Read(w) \/ Resume(w) \/ Predeploy(w) \/ PutRead(w) \/ Probe(w)
           \/ Undo(w) \/ UndoRead(w) \/ UndoCheck(w) \/ UndoProbe(w)
  <2>1. PICK l \in Guarded \cup Window :
            Goto(w, l) /\ UNCHANGED <<shared, req, grant, mine, history>>
    BY <1>1 DEF Read, Resume, Predeploy, PutRead, Probe, Undo, UndoRead,
                UndoCheck, UndoProbe, Guarded, Window
  <2>2. pc[w] \in Guarded
    BY <1>1 DEF Read, Resume, Predeploy, PutRead, Probe, Undo, UndoRead,
                UndoCheck, UndoProbe, Guarded
  <2>3. pc[w] # "idle" /\ grant[w] \in Receipt /\ l \in Counter
    BY <2>2, <1>0 DEF BusyOK, Guarded, Counter
  <2>4. pc' \in [Workers -> Counter] /\ BusyOK'
    BY <2>1, <2>3, TypeGoto
  <2>5. QED
    BY <2>1, <2>4, <1>0 DEF TypeOK, Typed
<1>2. CASE Put(w)
  <2>1. pc[w] \in Window /\ pc[w] # "idle"
    BY <1>2 DEF Put, Window
  <2>2. PICK l \in Guarded : Goto(w, l)
    BY <1>2 DEF Put, Guarded
  <2>3. pc' \in [Workers -> Counter] /\ BusyOK'
    BY <1>2, <2>1, <2>2, <1>0, TypeGoto DEF Put, BusyOK, Counter
  <2>4. settings' \in Settings
    BY <1>2, <2>1, <1>0, PlanType DEF Put, Into, TypeOK
  <2>5. QED
    BY <1>2, <2>3, <2>4, <1>0 DEF Put, TypeOK, Typed
<1>3. CASE PutBack(w) \/ Restart(w)
  <2>1. pc[w] \in Guarded /\ pc[w] # "idle"
    BY <1>3 DEF PutBack, Restart, Guarded
  <2>2. PICK l \in Guarded : Goto(w, l)
    BY <1>3 DEF PutBack, Restart, Guarded
  <2>3. pc' \in [Workers -> Counter] /\ BusyOK'
    BY <1>3, <2>1, <2>2, <1>0, TypeGoto DEF PutBack, Restart, BusyOK, Counter
  <2>4. settings.pkg \in Packages
    BY <1>0 DEF TypeOK, Settings
  <2>5. QED
    BY <1>3, <2>3, <2>4, <1>0 DEF PutBack, Restart, TypeOK, Typed
<1>4. QED
  BY <1>1, <1>2, <1>3 DEF Activate

(* The terminal markers and the completion of the fence.                   *)
LEMMA TypeSettle ==
    ASSUME Typed, NEW w \in Workers, Settle(w)
    PROVE  Typed'
<1> USE DEF shared, local, history
<1>0. TypeOK /\ BusyOK
  BY DEF Typed
<1>1. CASE Consume(w) \/ Abort(w) \/ Recover(w) \/ FenceRead(w)
  <2>1. PICK l \in Guarded \cup Window \cup Settling :
            Goto(w, l) /\ UNCHANGED <<shared, req, grant, mine, history>>
    BY <1>1 DEF Consume, Abort, Recover, FenceRead, Window, Settling
  <2>2. pc[w] \in Guarded \cup Settling /\ pc[w] # "idle"
    BY <1>1 DEF Consume, Abort, Recover, FenceRead, Guarded, Settling
  <2>3. grant[w] \in Receipt /\ l \in Counter
    BY <2>2, <1>0 DEF BusyOK, Counter, Settling
  <2>4. pc' \in [Workers -> Counter] /\ BusyOK'
    BY <2>1, <2>2, <2>3, TypeGoto
  <2>5. QED
    BY <2>1, <2>4, <1>0 DEF TypeOK, Typed
<1>2. CASE CreateConsumed(w) \/ CreateAborted(w)
  <2>1. pc[w] \in Window /\ pc[w] # "idle" /\ "fenceread" \in Counter
    BY <1>2 DEF CreateConsumed, CreateAborted, Window, Counter
  <2>2. grant[w] \in Receipt
    BY <2>1, <1>0 DEF BusyOK
  <2>3. pc' \in [Workers -> Counter] /\ BusyOK'
    BY <1>2, <2>1, <2>2, TypeGoto DEF CreateConsumed, CreateAborted
  <2>4. QED
    BY <1>2, <2>2, <2>3, <1>0 DEF CreateConsumed, CreateAborted, TypeOK, Typed
<1>3. CASE FenceRenew(w) \/ FenceRelease(w)
  <2>1. pc[w] \in Settling /\ pc[w] # "idle" /\ "fencewrite" \in Counter
    BY <1>3 DEF FenceRenew, FenceRelease, Settling, Counter
  <2>2. pc' \in [Workers -> Counter] /\ BusyOK'
    BY <1>3, <2>1, <1>0, TypeGoto DEF FenceRenew, FenceRelease, BusyOK
  <2>3. QED
    BY <1>3, <2>2, <1>0 DEF FenceRenew, FenceRelease, TakeLease, TypeOK, Typed
<1>4. CASE FenceWrite(w)
  <2>1. pc[w] \in Settling /\ pc[w] # "idle" /\ "fencerelease" \in Counter
    BY <1>4 DEF FenceWrite, Settling, Counter
  <2>2. grant[w] \in Receipt
    BY <2>1, <1>0 DEF BusyOK
  <2>3. pc' \in [Workers -> Counter] /\ BusyOK'
    BY <1>4, <2>1, <2>2, TypeGoto DEF FenceWrite
  <2>4. Outcome(grant[w]) \in {"consumed", "aborted", "rollback-complete"}
    BY DEF Outcome
  <2>5. fence' \in [receipt: Receipt \cup {NoReceipt}, version: Nat,
                    status: {"bootstrap", "consumed", "aborted", "rollback-complete"},
                    proof: Nat]
    BY <1>4, <2>2, <2>4, <1>0, ReceiptType DEF FenceWrite, TypeOK
  <2>6. QED
    BY <1>4, <2>3, <2>5, <1>0 DEF FenceWrite, TypeOK, Typed
<1>5. CASE FenceSettled(w) \/ FenceDrift(w) \/ FenceDone(w)
  BY <1>5, <1>0, TypeReset DEF FenceSettled, FenceDrift, FenceDone, TypeOK, Typed
<1>6. QED
  BY <1>1, <1>2, <1>3, <1>4, <1>5 DEF Settle

(* Every step, those that fail and those of the environment included.      *)
LEMMA TypeNext == Typed /\ [Next]_vars => Typed'
<1> SUFFICES ASSUME Typed, [Next]_vars
             PROVE  Typed'
  OBVIOUS
<1> USE DEF shared, local, history
<1>0. TypeOK /\ BusyOK
  BY DEF Typed
<1>1. ASSUME NEW w \in Workers, Serve(w) \/ Activate(w) \/ Settle(w)
      PROVE  Typed'
  BY <1>1, TypeServe, TypeActivate, TypeSettle
<1>2. ASSUME NEW w \in Workers, Fail(w) \/ Crash(w)
      PROVE  Typed'
  BY <1>2, <1>0, TypeReset DEF Fail, Crash, TypeOK, Typed
<1>3. CASE Expire
  BY <1>3, <1>0 DEF Expire, TypeOK, BusyOK, Typed
<1>4. CASE Recycle
  <2>1. settings.pkg \in Packages
    BY <1>0 DEF TypeOK, Settings
  <2>2. QED
    BY <1>4, <2>1, <1>0 DEF Recycle, TypeOK, BusyOK, Typed
<1>5. CASE OwnerWrite
  BY <1>5, <1>0 DEF OwnerWrite, TypeOK, BusyOK, Typed
<1>6. CASE UNCHANGED vars
  BY <1>6, <1>0 DEF vars, TypeOK, BusyOK, Typed
<1>7. QED
  BY <1>1, <1>2, <1>3, <1>4, <1>5, <1>6 DEF Next

(* Every variable keeps its type, and every worker its plan and receipt.   *)
THEOREM TypeCorrect == Spec => []Typed
<1>1. QED
  BY TypeInit, TypeNext, PTL DEF Spec

(* What is written to the fence blob, to the App Settings and to the       *)
(* markers is well formed in every reachable state.                        *)
THEOREM TypeSafe == Spec => []TypeOK
<1>1. Typed => TypeOK
  BY DEF Typed
<1>2. QED
  BY TypeCorrect, <1>1, PTL

-----------------------------------------------------------------------------
(* Leases, receipts and terminal markers *)

(* Init establishes the invariant: every worker is idle.                   *)
LEMMA InvInit == Init => OwnInv
BY DEF Init, OwnInv, LeaseOK, DistinctOK, GrantOK, WindowOK, UndoOK, CheckOK,
       TerminalExclusive, Owning, Guarded, Window, Settling, Undone

(* A worker in its window holds the lease, so no other worker that has a   *)
(* lease of its own holds it.                                              *)
LEMMA Alone ==
    ASSUME OwnInv, NEW v \in Workers, pc[v] \in Window,
           NEW w \in Workers \ {v},
           pc[w] \in Owning \cup {"fencewrite", "fencerelease"}
    PROVE  lease # mine[w] /\ pc[w] \notin Window
<1>1. lease = mine[v] /\ mine[w] # mine[v]
  BY DEF OwnInv, DistinctOK, WindowOK, Owning
<1>2. pc[w] \in Window => lease = mine[w]
  BY DEF OwnInv, WindowOK
<1>3. QED
  BY <1>1, <1>2

(* assert_held succeeds only while the lease and the receipt are the       *)
(* worker's own.                                                           *)
LEMMA HoldsOwn ==
    ASSUME OwnInv, NEW w \in Workers, pc[w] \in Guarded, Holds(w)
    PROVE  lease = mine[w] /\ fence.receipt = grant[w]
BY DEF OwnInv, GrantOK, Holds

(* A worker that goes from label to label, keeping fence, leases, markers  *)
(* and what it knows, keeps the invariant but for CheckOK.                 *)
LEMMA InvGoto ==
    ASSUME Typed, OwnInv, NEW w \in Workers, NEW l \in Counter, Goto(w, l),
           UNCHANGED <<fence, lease, leases, consumed, aborted, req, grant, mine>>,
           l \in Owning => pc[w] \in Guarded \cup Window /\ l # "bind",
           l \in Window => Holds(w) /\ pc[w] \in Guarded,
           l \in Settling => pc[w] \in Settling /\ l \notin {"fencewrite", "fencerelease"},
           l \in Undone => req[w].release \in Candidates
    PROVE  /\ LeaseOK' /\ DistinctOK' /\ GrantOK' /\ WindowOK' /\ UndoOK'
           /\ TerminalExclusive'
<1>1. pc \in [Workers -> Counter] /\ pc' = [pc EXCEPT ![w] = l]
  BY DEF Typed, TypeOK, Goto
<1>2. LeaseOK' /\ TerminalExclusive'
  BY DEF OwnInv, LeaseOK, TerminalExclusive
<1>3. DistinctOK'
  BY <1>1 DEF OwnInv, DistinctOK, Owning, Settling
<1>4. GrantOK'
  BY <1>1 DEF OwnInv, GrantOK, Owning
<1>5. WindowOK'
  BY <1>1, HoldsOwn DEF OwnInv, WindowOK
<1>6. UndoOK'
  BY <1>1 DEF OwnInv, UndoOK
<1>7. QED
  BY <1>2, <1>3, <1>4, <1>5, <1>6

(* A worker whose request ends keeps the invariant, if it leaves the lease *)
(* and the fence of a worker in its window alone.                          *)
LEMMA InvReset ==
    ASSUME Typed, OwnInv, NEW w \in Workers, Reset(w),
           UNCHANGED <<leases, consumed, aborted, settings>>,
           lease' \in {lease, 0}, crossed \ {w} \subseteq crossed',
           \A v \in Workers \ {w} :
               pc[v] \in Window => lease' = lease /\ fence'.receipt = fence.receipt
    PROVE  OwnInv'
<1>0. /\ pc \in [Workers -> Counter] /\ req \in [Workers -> Plan \cup {NoPlan}]
      /\ grant \in [Workers -> Receipt \cup {NoReceipt}] /\ mine \in [Workers -> Nat]
      /\ leases \in Nat /\ lease \in Nat
  BY DEF Typed, TypeOK
<1>1. /\ pc' = [pc EXCEPT ![w] = "idle"]
      /\ req' = [req EXCEPT ![w] = NoPlan]
      /\ grant' = [grant EXCEPT ![w] = NoReceipt]
      /\ mine' = [mine EXCEPT ![w] = 0]
  BY DEF Reset, Goto
<1>2. "idle" \notin Owning \cup Settling \cup Undone
  BY DEF Owning, Guarded, Window, Settling, Undone
<1>3. LeaseOK' /\ TerminalExclusive'
  BY <1>0, <1>1 DEF OwnInv, LeaseOK, TerminalExclusive
<1>4. DistinctOK'
  BY <1>0, <1>1, <1>2 DEF OwnInv, DistinctOK
<1>5. GrantOK'
  BY <1>0, <1>1, <1>2 DEF OwnInv, GrantOK, Owning
<1>6. WindowOK'
  BY <1>0, <1>1, <1>2 DEF OwnInv, WindowOK, Owning
<1>7. UndoOK'
  BY <1>0, <1>1, <1>2 DEF OwnInv, UndoOK
<1>8. CheckOK'
  BY <1>0, <1>1, <1>2 DEF OwnInv, CheckOK, ConsumeAllowed, AbortAllowed,
     Consumed, Aborted, From, Undoing
<1>9. QED
  BY <1>3, <1>4, <1>5, <1>6, <1>7, <1>8 DEF OwnInv

(* What the other workers checked is still so after a step of w that       *)
(* creates no marker and writes no settings.                               *)
LEMMA CheckGoto ==
    ASSUME Typed, OwnInv, NEW w \in Workers, NEW l \in Counter, Goto(w, l),
           \A v \in Workers \ {w} : req'[v] = req[v],
           UNCHANGED <<consumed, aborted, settings, crossed>>,
           l \notin {"createconsumed", "createaborted", "put", "undoput"}
    PROVE  CheckOK'
<1>1. pc \in [Workers -> Counter] /\ pc' = [pc EXCEPT ![w] = l]
  BY DEF Typed, TypeOK, Goto
<1>2. QED
  BY <1>1 DEF OwnInv, CheckOK, ConsumeAllowed, AbortAllowed,
     Consumed, Aborted, From, Undoing

(* The requests a worker takes in, and the binding of the fence under a    *)
(* lease identifier never used before.                                     *)
LEMMA InvServe ==
    ASSUME Typed, OwnInv, NEW w \in Workers, Serve(w)
    PROVE  OwnInv'
<1> USE DEF shared, local, history
<1>0. /\ pc \in [Workers -> Counter] /\ req \in [Workers -> Plan \cup {NoPlan}]
      /\ grant \in [Workers -> Receipt \cup {NoReceipt}] /\ mine \in [Workers -> Nat]
      /\ leases \in Nat /\ lease \in Nat
  BY DEF Typed, TypeOK
<1> DEFINE Apart == /\ DistinctOK' /\ GrantOK' /\ WindowOK' /\ UndoOK'
<1>1. CASE \E r \in Releases : PrepareRecovered(w, r)
  BY <1>1 DEF PrepareRecovered, OwnInv, LeaseOK, DistinctOK, GrantOK, WindowOK,
     UndoOK, CheckOK, TerminalExclusive, ConsumeAllowed, AbortAllowed, Consumed,
     Aborted, From, Undoing
<1>2. ASSUME NEW l \in {"prepare", "observe"}, Goto(w, l), pc[w] = "idle",
             \A v \in Workers \ {w} : req'[v] = req[v],
             UNCHANGED <<shared, grant, mine, history>>
      PROVE  OwnInv'
  <2>1. l \in Counter /\ l \notin Owning \cup Settling \cup Undone
    BY DEF Counter, Owning, Guarded, Window, Settling, Undone
  <2>2. pc' = [pc EXCEPT ![w] = l]
    BY <1>2 DEF Goto
  <2>3. LeaseOK' /\ TerminalExclusive'
    BY <1>2 DEF OwnInv, LeaseOK, TerminalExclusive
  <2>4. DistinctOK' /\ GrantOK'
    BY <1>0, <1>2, <2>1, <2>2 DEF OwnInv, DistinctOK, GrantOK, Owning
  <2>5. WindowOK' /\ UndoOK'
    BY <1>0, <1>2, <2>1, <2>2 DEF OwnInv, WindowOK, UndoOK, Owning
  <2>6. CheckOK'
    BY <1>2, <2>1, CheckGoto
  <2>7. QED
    BY <2>3, <2>4, <2>5, <2>6 DEF OwnInv
<1>3. CASE \E r \in Releases : PrepareObserve(w, r)
  BY <1>0, <1>2, <1>3 DEF PrepareObserve
<1>4. CASE \E p \in plans : Request(w, p)
  BY <1>0, <1>2, <1>4 DEF Request
<1>5. CASE PrepareFence(w)
  BY <1>5, InvReset DEF PrepareFence
<1>6. CASE \E p \in plans : RequestTerminal(w, p)
  <2>1. PICK p \in plans : RequestTerminal(w, p)
    BY <1>6
  <2>2. /\ pc' = [pc EXCEPT ![w] = "recover"] /\ req' = [req EXCEPT ![w] = p]
        /\ \E d \in consumed : grant' = [grant EXCEPT ![w] = d]
        /\ UNCHANGED <<shared, mine, history>>
    BY <2>1 DEF RequestTerminal, Goto
  <2>3. /\ "recover" \in Counter \cap Settling
        /\ "recover" \notin Owning \cup Undone
    BY DEF Counter, Owning, Guarded, Window, Settling, Undone
  <2>4. LeaseOK' /\ TerminalExclusive'
    BY <2>2 DEF OwnInv, LeaseOK, TerminalExclusive
  <2>5. DistinctOK' /\ GrantOK'
    BY <1>0, <2>2, <2>3 DEF OwnInv, DistinctOK, GrantOK, Owning
  <2>6. WindowOK' /\ UndoOK'
    BY <1>0, <2>2, <2>3 DEF OwnInv, WindowOK, UndoOK, Owning
  <2>7. CheckOK'
    BY <1>0, <2>1, <2>2, <2>3, CheckGoto DEF RequestTerminal
  <2>8. QED
    BY <2>4, <2>5, <2>6, <2>7 DEF OwnInv
<1>7. CASE Observe(w)
  <2>1. /\ "acquire" \in Counter
        /\ "acquire" \notin Owning \cup Settling \cup Undone
    BY DEF Counter, Owning, Guarded, Window, Settling, Undone
  <2>2. QED
    BY <1>7, <2>1, InvGoto, CheckGoto DEF Observe, OwnInv, Owning
<1>8. CASE Acquire(w)
  <2>1. /\ pc' = [pc EXCEPT ![w] = "bind"] /\ lease = 0
        /\ leases' = leases + 1 /\ lease' = leases + 1
        /\ mine' = [mine EXCEPT ![w] = leases + 1]
        /\ UNCHANGED <<fence, settings, consumed, aborted, req, grant, history>>
    BY <1>8 DEF Acquire, TakeLease, Goto
  <2>2. /\ "bind" \in Counter \cap Owning
        /\ "bind" \notin Guarded \cup Window \cup Settling \cup Undone
    BY DEF Counter, Owning, Guarded, Window, Settling, Undone
  <2>3. \A d \in consumed \cup aborted : d.lease \in Nat /\ d.lease <= leases
    BY ReceiptType DEF Typed, TypeOK, OwnInv, LeaseOK
  <2>4. \A v \in Workers : mine[v] \in Nat /\ mine[v] <= leases
    BY <1>0 DEF OwnInv, LeaseOK
  <2>5. LeaseOK' /\ TerminalExclusive'
    BY <1>0, <2>1, <2>3, <2>4 DEF OwnInv, LeaseOK, TerminalExclusive
  <2>6. DistinctOK'
    <3> SUFFICES ASSUME NEW v \in Workers, pc'[v] \in Owning
                 PROVE  /\ mine'[v] # 0
                        /\ \A d \in consumed \cup aborted : d.lease # mine'[v]
                        /\ \A u \in Workers \ {v} :
                               pc'[u] \in Owning \cup {"fencewrite", "fencerelease"}
                               => mine'[u] # mine'[v]
      BY <2>1 DEF DistinctOK
    <3>1. CASE v = w
      BY <1>0, <2>1, <2>3, <2>4, <3>1
    <3>2. CASE v # w
      BY <1>0, <2>1, <2>3, <2>4, <3>2 DEF OwnInv, DistinctOK
    <3>3. QED
      BY <3>1, <3>2
  <2>7. GrantOK' /\ UndoOK'
    BY <1>0, <2>1, <2>2 DEF OwnInv, GrantOK, UndoOK
  <2>8. WindowOK'
    BY <1>0, <2>1, <2>2 DEF OwnInv, WindowOK, DistinctOK, Owning
  <2>9. CheckOK'
    BY <2>1, <2>2, CheckGoto DEF Goto
  <2>10. QED
    BY <2>5, <2>6, <2>7, <2>8, <2>9 DEF OwnInv
<1>9. CASE Bind(w)
  <2>1. /\ pc' = [pc EXCEPT ![w] = "read"] /\ lease = mine[w] /\ pc[w] = "bind"
        /\ grant' = [grant EXCEPT ![w] = Bound(w)]
        /\ UNCHANGED <<lease, leases, settings, consumed, aborted, req, mine, history>>
    BY <1>9 DEF Bind, Goto
  <2>2. /\ "read" \in Counter \cap Owning \cap Guarded /\ "bind" \in Owning
        /\ "read" \notin Window \cup Settling \cup Undone
    BY DEF Counter, Owning, Guarded, Window, Settling, Undone
  <2>3. Bound(w).plan = req[w] /\ Bound(w).lease = mine[w]
    BY DEF Bound
  <2>4. \A v \in Workers \ {w} : pc[v] \notin Window
    BY <2>1, <2>2, Alone
  <2>5. LeaseOK' /\ TerminalExclusive'
    BY <2>1 DEF OwnInv, LeaseOK, TerminalExclusive
  <2>6. DistinctOK'
    BY <1>0, <2>1, <2>2 DEF OwnInv, DistinctOK
  <2>7. GrantOK'
    BY <1>0, <2>1, <2>2, <2>3 DEF OwnInv, GrantOK
  <2>8. WindowOK' /\ UndoOK'
    BY <1>0, <2>1, <2>2, <2>4 DEF OwnInv, WindowOK, UndoOK
  <2>9. CheckOK'
    BY <2>1, <2>2, CheckGoto DEF Goto
  <2>10. QED
    BY <2>5, <2>6, <2>7, <2>8, <2>9 DEF OwnInv
<1>10. CASE BindUnseen(w) \/ BindBusy(w)
  <2>1. pc[w] \in Owning /\ lease = mine[w] /\ Reset(w) /\ lease' = 0
        /\ UNCHANGED <<leases, consumed, aborted, settings, crossed>>
    BY <1>10 DEF BindUnseen, BindBusy, Owning
  <2>2. \A v \in Workers \ {w} : pc[v] \notin Window
    BY <2>1, Alone
  <2>3. QED
    BY <2>1, <2>2, InvReset
<1>11. QED
  BY <1>1, <1>3, <1>4, <1>5, <1>6, <1>7, <1>8, <1>9, <1>10 DEF Serve

(* The activation: a window is entered only after assert_held.             *)
LEMMA InvActivate ==
    ASSUME Typed, OwnInv, NEW w \in Workers, Activate(w)
    PROVE  OwnInv'
<1> USE DEF shared, local, history
<1>0. /\ pc \in [Workers -> Counter] /\ req \in [Workers -> Plan \cup {NoPlan}]
  BY DEF Typed, TypeOK
<1>1. ASSUME NEW l \in Guarded, pc[w] \in Guarded \cup Window, Goto(w, l),
             UNCHANGED <<fence, lease, leases, consumed, aborted, req, grant, mine>>,
             l \in Undone => req[w].release \in Candidates
      PROVE  /\ LeaseOK' /\ DistinctOK' /\ GrantOK' /\ WindowOK' /\ UndoOK'
             /\ TerminalExclusive'
  <2>1. l \in Counter /\ l # "bind" /\ l \notin Window \cup Settling
    BY DEF Counter, Guarded, Window, Settling
  <2>2. QED
    BY <1>1, <2>1, InvGoto
<1>2. ASSUME NEW l \in Guarded, pc[w] \in Guarded, Goto(w, l),
             UNCHANGED <<fence, lease, leases, settings, consumed, aborted, req,
                         grant, mine, history>>,
             l \in Undone => req[w].release \in Candidates
      PROVE  OwnInv'
  <2>1. l \in Counter /\ l \notin {"createconsumed", "createaborted", "put", "undoput"}
    BY DEF Counter, Guarded
  <2>2. QED
    BY <1>1, <1>2, <2>1, CheckGoto DEF OwnInv
<1>3. CASE Read(w) \/ Resume(w) \/ Predeploy(w) \/ Probe(w)
  <2>1. \E l \in Guarded \ Undone : Goto(w, l)
    BY <1>3 DEF Read, Resume, Predeploy, Probe, Guarded, Undone
  <2>2. pc[w] \in Guarded
    BY <1>3 DEF Read, Resume, Predeploy, Probe, Guarded
  <2>3. QED
    BY <1>2, <1>3, <2>1, <2>2 DEF Read, Resume, Predeploy, Probe
<1>4. CASE Undo(w)
  <2>1. pc[w] \in Guarded /\ "undoread" \in Guarded /\ req[w].release \in Candidates
    BY <1>4 DEF Undo, Guarded
  <2>2. QED
    BY <1>2, <1>4, <2>1 DEF Undo
<1>5. CASE UndoRead(w) \/ UndoCheck(w) \/ UndoProbe(w)
  <2>1. \E l \in Guarded : Goto(w, l)
    BY <1>5 DEF UndoRead, UndoCheck, UndoProbe, Guarded
  <2>2. pc[w] \in Guarded \cap Undone
    BY <1>5 DEF UndoRead, UndoCheck, UndoProbe, Guarded, Undone
  <2>3. req[w].release \in Candidates
    BY <2>2 DEF OwnInv, UndoOK
  <2>4. QED
    BY <1>2, <1>5, <2>1, <2>2, <2>3 DEF UndoRead, UndoCheck, UndoProbe
<1>6. CASE PutBack(w) \/ Restart(w)
  <2>1. PICK l \in Guarded : Goto(w, l) /\ (l \in Undone => pc[w] \in Undone)
    BY <1>6 DEF PutBack, Restart, Undoing, Guarded, Undone
  <2>2. pc[w] \in Guarded
    BY <1>6 DEF PutBack, Restart, Guarded
  <2>3. pc[w] \in Undone => req[w].release \in Candidates
    BY DEF OwnInv, UndoOK
  <2>4. QED
    BY <1>2, <1>6, <2>1, <2>2, <2>3 DEF PutBack, Restart
<1>7. CASE PutRead(w)
  <2>1. PICK l \in {"put", "undoput", "putback", "undoputback"} :
            /\ Goto(w, l) /\ (l \in Undone => pc[w] \in Undone)
            /\ l \in {"put", "undoput"} =>
                   settings = IF l = "undoput" THEN req[w].desired ELSE req[w].pre
    BY <1>7 DEF PutRead, From, Undoing, Undone
  <2>2. /\ pc[w] \in Guarded /\ Holds(w)
        /\ UNCHANGED <<shared, req, grant, mine, history>>
    BY <1>7 DEF PutRead, Guarded
  <2>3. l \in Counter /\ l # "bind" /\ l \notin Settling
    BY DEF Counter, Guarded, Window, Settling
  <2>4. pc[w] \in Undone => req[w].release \in Candidates
    BY DEF OwnInv, UndoOK
  <2>5. /\ LeaseOK' /\ DistinctOK' /\ GrantOK' /\ WindowOK' /\ UndoOK'
        /\ TerminalExclusive'
    BY <2>1, <2>2, <2>3, <2>4, InvGoto
  <2>6. CheckOK'
    BY <1>0, <2>1, <2>2 DEF Goto, OwnInv, CheckOK, ConsumeAllowed, AbortAllowed,
       Consumed, Aborted, From, Undoing
  <2>7. QED
    BY <2>5, <2>6 DEF OwnInv
<1>8. CASE Put(w)
  <2>1. PICK l \in Guarded : Goto(w, l) /\ (l \in Undone => pc[w] \in Undone)
    BY <1>8 DEF Put, Undoing, Guarded, Undone
  <2>2. /\ pc[w] \in Window \cap Owning
        /\ UNCHANGED <<fence, lease, leases, consumed, aborted, req, grant, mine>>
        /\ crossed' = crossed \ {w}
    BY <1>8 DEF Put, Window, Owning
  <2>3. pc[w] \in Undone => req[w].release \in Candidates
    BY DEF OwnInv, UndoOK
  <2>4. \A v \in Workers \ {w} : pc[v] \notin Window
    BY <2>2, Alone DEF OwnInv, WindowOK
  <2>5. CheckOK'
    BY <1>0, <2>1, <2>2, <2>4 DEF Goto, CheckOK, Guarded, Window
  <2>6. QED
    BY <1>1, <2>1, <2>2, <2>3, <2>5 DEF OwnInv
<1>9. QED
  BY <1>3, <1>4, <1>5, <1>6, <1>7, <1>8 DEF Activate

(* A terminal marker is created in a window, so by one worker at a time.   *)
LEMMA InvSettle ==
    ASSUME Typed, OwnInv, NEW w \in Workers, Settle(w)
    PROVE  OwnInv'
<1> USE DEF shared, local, history
<1>0. /\ pc \in [Workers -> Counter] /\ req \in [Workers -> Plan \cup {NoPlan}]
      /\ grant \in [Workers -> Receipt \cup {NoReceipt}] /\ mine \in [Workers -> Nat]
      /\ leases \in Nat /\ lease \in Nat
  BY DEF Typed, TypeOK
<1>1. CASE Consume(w) \/ Abort(w)
  <2>1. PICK l \in {"createconsumed", "createaborted"} :
            /\ Goto(w, l) /\ (l \in Undone => pc[w] \in Undone)
            /\ l = "createconsumed" => ConsumeAllowed(req[w].release)
            /\ l = "createaborted" => AbortAllowed(req[w].release)
    BY <1>1 DEF Consume, Abort, Undone
  <2>2. /\ pc[w] \in Guarded /\ Holds(w)
        /\ UNCHANGED <<shared, req, grant, mine, history>>
    BY <1>1 DEF Consume, Abort, Guarded
  <2>3. l \in Counter /\ l # "bind" /\ l \notin Settling
    BY DEF Counter, Window, Settling
  <2>4. pc[w] \in Undone => req[w].release \in Candidates
    BY DEF OwnInv, UndoOK
  <2>5. /\ LeaseOK' /\ DistinctOK' /\ GrantOK' /\ WindowOK' /\ UndoOK'
        /\ TerminalExclusive'
    BY <2>1, <2>2, <2>3, <2>4, InvGoto
  <2>6. CheckOK'
    BY <1>0, <2>1, <2>2 DEF Goto, OwnInv, CheckOK, ConsumeAllowed, AbortAllowed,
       Consumed, Aborted, From, Undoing
  <2>7. QED
    BY <2>5, <2>6 DEF OwnInv
<1>2. ASSUME pc[w] \in Window \cap {"createconsumed", "createaborted"},
             Goto(w, "fenceread"),
             UNCHANGED <<fence, lease, leases, settings, req, grant, mine, history>>,
             consumed' \cup aborted' = consumed \cup aborted \cup {grant[w]}
      PROVE  /\ LeaseOK' /\ DistinctOK' /\ GrantOK' /\ WindowOK' /\ CheckOK'
             /\ \A v \in Workers : pc'[v] \in Undone => req'[v].release \in Candidates
  <2>1. /\ "fenceread" \in Counter \cap Settling
        /\ "fenceread" \notin Owning \cup Undone \cup {"fencewrite", "fencerelease"}
    BY DEF Counter, Owning, Guarded, Window, Settling, Undone
  <2>2. pc' = [pc EXCEPT ![w] = "fenceread"]
    BY <1>2 DEF Goto
  <2>3. grant[w].lease = mine[w] /\ lease = mine[w] /\ pc[w] \in Owning
    BY <1>2 DEF OwnInv, GrantOK, WindowOK, Owning
  <2>4. \A v \in Workers \ {w} : pc[v] \notin Window
    BY <2>3, Alone
  <2>5. LeaseOK'
    BY <1>2, <2>3 DEF OwnInv, LeaseOK
  <2>6. DistinctOK'
    BY <1>0, <1>2, <2>1, <2>2, <2>3 DEF OwnInv, DistinctOK
  <2>7. GrantOK'
    BY <1>0, <1>2, <2>1, <2>2 DEF OwnInv, GrantOK, Owning
  <2>8. WindowOK' /\ CheckOK'
    BY <1>0, <1>2, <2>1, <2>2, <2>4 DEF WindowOK, CheckOK, Window, Owning
  <2>9. QED
    BY <1>0, <1>2, <2>1, <2>2, <2>5, <2>6, <2>7, <2>8 DEF OwnInv, UndoOK
<1>3. CASE CreateConsumed(w)
  <2>1. /\ pc[w] \in Window \cap {"createconsumed", "createaborted"}
        /\ consumed' = consumed \cup {grant[w]} /\ aborted' = aborted
        /\ grant[w].plan = req[w] /\ ConsumeAllowed(req[w].release)
    BY <1>3 DEF CreateConsumed, Window, OwnInv, GrantOK, CheckOK
  <2>2. /\ LeaseOK' /\ DistinctOK' /\ GrantOK' /\ WindowOK' /\ CheckOK'
        /\ \A v \in Workers : pc'[v] \in Undone => req'[v].release \in Candidates
    BY <1>2, <1>3, <2>1 DEF CreateConsumed
  <2>3. UndoOK'
    BY <2>1, <2>2 DEF OwnInv, UndoOK
  <2>4. TerminalExclusive'
    BY <2>1 DEF OwnInv, UndoOK, TerminalExclusive, ConsumeAllowed, Aborted
  <2>5. QED
    BY <2>2, <2>3, <2>4 DEF OwnInv
<1>4. CASE CreateAborted(w)
  <2>1. /\ pc[w] \in Window \cap {"createconsumed", "createaborted"}
        /\ consumed' = consumed /\ aborted' = aborted \cup {grant[w]}
        /\ grant[w].plan = req[w] /\ AbortAllowed(req[w].release)
        /\ req[w].release \in Candidates
    BY <1>4 DEF CreateAborted, Window, OwnInv, GrantOK, CheckOK, UndoOK, Undone
  <2>2. /\ LeaseOK' /\ DistinctOK' /\ GrantOK' /\ WindowOK' /\ CheckOK'
        /\ \A v \in Workers : pc'[v] \in Undone => req'[v].release \in Candidates
    BY <1>2, <1>4, <2>1 DEF CreateAborted
  <2>3. UndoOK'
    BY <2>1, <2>2 DEF OwnInv, UndoOK
  <2>4. TerminalExclusive'
    BY <2>1 DEF OwnInv, TerminalExclusive, AbortAllowed, Consumed
  <2>5. QED
    BY <2>2, <2>3, <2>4 DEF OwnInv
<1>5. CASE Recover(w) \/ FenceRead(w)
  <2>1. PICK l \in {"fenceread", "fencelease"} :
            Goto(w, l) /\ UNCHANGED <<shared, req, grant, mine, history>>
    BY <1>5 DEF Recover, FenceRead
  <2>2. /\ pc[w] \in Settling /\ l \in Counter /\ l \notin Owning \cup Undone
        /\ l \notin Window /\ l \notin {"fencewrite", "fencerelease"}
    BY <1>5 DEF Recover, FenceRead, Settling, Counter, Owning, Guarded, Window, Undone
  <2>3. l \notin {"createconsumed", "createaborted", "put", "undoput"}
    OBVIOUS
  <2>4. QED
    BY <2>1, <2>2, <2>3, InvGoto, CheckGoto DEF OwnInv
<1>6. CASE FenceSettled(w)
  BY <1>6, InvReset DEF FenceSettled
<1>7. CASE FenceRenew(w) \/ FenceRelease(w)
  <2>1. /\ pc' = [pc EXCEPT ![w] = "fencewrite"] /\ pc[w] \in Settling
        /\ UNCHANGED <<fence, settings, consumed, aborted, req, grant, history>>
    BY <1>7 DEF FenceRenew, FenceRelease, Goto, Settling
  <2>2. \/ /\ mine' = [mine EXCEPT ![w] = grant[w].lease]
           /\ lease = grant[w].lease /\ UNCHANGED <<lease, leases>>
        \/ /\ mine' = [mine EXCEPT ![w] = leases + 1] /\ lease = 0
           /\ lease' = leases + 1 /\ leases' = leases + 1
    BY <1>7 DEF FenceRenew, FenceRelease, TakeLease
  <2>3. /\ "fencewrite" \in Counter \cap Settling
        /\ "fencewrite" \notin Owning \cup Undone
    BY DEF Counter, Owning, Guarded, Window, Settling, Undone
  <2>4. grant[w] \in consumed \cup aborted
    BY <2>1 DEF OwnInv, GrantOK
  <2>5. /\ \A d \in consumed \cup aborted : d.lease \in Nat /\ d.lease <= leases
        /\ \A v \in Workers : mine[v] \in Nat /\ mine[v] <= leases
    BY <1>0, ReceiptType DEF Typed, TypeOK, OwnInv, LeaseOK
  <2>6. LeaseOK' /\ TerminalExclusive'
    BY <1>0, <2>1, <2>2, <2>4, <2>5 DEF OwnInv, LeaseOK, TerminalExclusive
  <2>7. DistinctOK'
    BY <1>0, <2>1, <2>2, <2>3, <2>4, <2>5 DEF OwnInv, DistinctOK
  <2>8. GrantOK' /\ UndoOK'
    BY <1>0, <2>1, <2>2, <2>3 DEF OwnInv, GrantOK, UndoOK, Owning
  <2>9. WindowOK'
    BY <1>0, <2>1, <2>2, <2>3 DEF OwnInv, WindowOK, DistinctOK, Owning
  <2>10. CheckOK'
    BY <2>1, <2>3, CheckGoto DEF Goto
  <2>11. QED
    BY <2>6, <2>7, <2>8, <2>9, <2>10 DEF OwnInv
<1>8. CASE FenceWrite(w)
  <2>1. /\ pc' = [pc EXCEPT ![w] = "fencerelease"] /\ pc[w] = "fencewrite"
        /\ lease = mine[w]
        /\ UNCHANGED <<lease, leases, settings, consumed, aborted, req, grant, mine,
                       history>>
    BY <1>8 DEF FenceWrite, Goto
  <2>2. /\ "fencerelease" \in Counter \cap Settling /\ "fencewrite" \in Settling
        /\ "fencerelease" \notin Owning \cup Undone
    BY DEF Counter, Owning, Guarded, Window, Settling, Undone
  <2>3. \A v \in Workers \ {w} : pc[v] \notin Window
    BY <2>1, Alone
  <2>4. LeaseOK' /\ TerminalExclusive'
    BY <2>1 DEF OwnInv, LeaseOK, TerminalExclusive
  <2>5. DistinctOK' /\ GrantOK'
    BY <1>0, <2>1, <2>2 DEF OwnInv, DistinctOK, GrantOK, Owning
  <2>6. WindowOK' /\ UndoOK'
    BY <1>0, <2>1, <2>2, <2>3 DEF OwnInv, WindowOK, UndoOK, Owning
  <2>7. CheckOK'
    BY <2>1, <2>2, CheckGoto DEF Goto
  <2>8. QED
    BY <2>4, <2>5, <2>6, <2>7 DEF OwnInv
<1>9. CASE FenceDrift(w) \/ FenceDone(w)
  <2>1. /\ pc[w] \in {"fencewrite", "fencerelease"} /\ lease = mine[w] /\ Reset(w)
        /\ lease' = 0 /\ UNCHANGED <<leases, consumed, aborted, settings, crossed>>
    BY <1>9 DEF FenceDrift, FenceDone
  <2>2. \A v \in Workers \ {w} : pc[v] \notin Window
    BY <2>1, Alone
  <2>3. QED
    BY <2>1, <2>2, InvReset
<1>10. QED
  BY <1>1, <1>3, <1>4, <1>5, <1>6, <1>7, <1>8, <1>9 DEF Settle

(* Every step keeps the invariant when no worker can be paused in a window *)
(* for longer than the lease term.                                         *)
LEMMA InvNext ==
    ASSUME NoWindowStall, Typed, OwnInv, [Next]_vars
    PROVE  OwnInv'
<1> USE DEF shared, local, history
<1> USE DEF OwnInv, LeaseOK, DistinctOK, GrantOK, WindowOK, UndoOK, CheckOK,
            TerminalExclusive, ConsumeAllowed, AbortAllowed, Consumed, Aborted,
            From, Undoing
<1>1. ASSUME NEW w \in Workers, Serve(w) \/ Activate(w) \/ Settle(w)
      PROVE  OwnInv'
  BY <1>1, InvServe, InvActivate, InvSettle
<1>2. ASSUME NEW w \in Workers, Fail(w) \/ Crash(w)
      PROVE  OwnInv'
  BY <1>2, InvReset DEF Fail, Crash
<1>3. CASE Expire
  <2>1. \A w \in Workers : pc[w] \notin Window
    BY <1>3 DEF Expire, NoWindowStall
  <2>2. lease' = 0 /\ leases \in Nat
    BY <1>3 DEF Expire, Typed, TypeOK
  <2>3. QED
    BY <1>3, <2>1, <2>2 DEF Expire
<1>4. CASE Recycle
  BY <1>4 DEF Recycle
<1>5. CASE OwnerWrite
  <2>1. \A w \in Workers : pc[w] \in {"put", "undoput"} => w \in crossed'
    BY <1>5 DEF OwnerWrite
  <2>2. QED
    BY <1>5, <2>1 DEF OwnerWrite
<1>6. CASE UNCHANGED vars
  BY <1>6 DEF vars
<1>7. QED
  BY <1>1, <1>2, <1>3, <1>4, <1>5, <1>6 DEF Next

-----------------------------------------------------------------------------
(* What production carries while no owner interferes *)

(* A worker in its window is the only one whose receipt is in force, and   *)
(* no marker was made under its lease.                                     *)
LEMMA SoleReceipt ==
    ASSUME OwnInv, NEW w \in Workers, pc[w] \in Window
    PROVE  /\ fence.receipt = grant[w] /\ grant[w].lease = mine[w]
           /\ grant[w].plan = req[w]
           /\ \A v \in Workers \ {w} :
                  pc[v] \in Guarded \cup Window => fence.receipt # grant[v]
           /\ \A d \in consumed \cup aborted : d.lease # grant[w].lease
BY DEF OwnInv, WindowOK, GrantOK, DistinctOK, Owning

(* A step of one worker that leaves the fence, the map and the markers     *)
(* alone, and does not enter a label without knowing the map.              *)
LEMMA MapStep ==
    ASSUME MapOK, NEW w \in Workers,
           UNCHANGED <<fence, settings, consumed, aborted, owner>>,
           crossed' \subseteq crossed,
           \A v \in Workers \ {w} :
               pc'[v] = pc[v] /\ req'[v] = req[v] /\ grant'[v] = grant[v],
           crossed = {} /\ fence.receipt = grant'[w] =>
               /\ pc'[w] \in Carrying => settings = req'[w].desired
               /\ pc'[w] \in Restored => settings = req'[w].pre
    PROVE  MapOK'
BY DEF MapOK, Truthful, Idle

(* A step to a label at which nothing is known of the map.                 *)
LEMMA MapGoto ==
    ASSUME Typed, MapOK, NEW w \in Workers, NEW l, Goto(w, l),
           l \notin Carrying \cup Restored,
           UNCHANGED <<fence, settings, consumed, aborted, owner>>,
           crossed' \subseteq crossed,
           \A v \in Workers \ {w} : req'[v] = req[v] /\ grant'[v] = grant[v]
    PROVE  MapOK'
<1>1. pc' = [pc EXCEPT ![w] = l] /\ pc \in [Workers -> Counter]
  BY DEF Typed, TypeOK, Goto
<1>2. pc'[w] \notin Carrying \cup Restored /\ \A v \in Workers \ {w} : pc'[v] = pc[v]
  BY <1>1
<1>3. QED
  BY <1>2, MapStep

LEMMA MapReset ==
    ASSUME Typed, MapOK, NEW w \in Workers, Reset(w),
           UNCHANGED <<fence, settings, consumed, aborted, owner>>,
           crossed' \subseteq crossed
    PROVE  MapOK'
<1>1. /\ req \in [Workers -> Plan \cup {NoPlan}]
      /\ grant \in [Workers -> Receipt \cup {NoReceipt}]
  BY DEF Typed, TypeOK
<1>2. "idle" \notin Carrying \cup Restored
  BY DEF Carrying, Restored
<1>3. QED
  BY <1>1, <1>2, MapGoto DEF Reset

(* The binding of the fence: the lease is new to workers and markers.      *)
LEMMA MapBind ==
    ASSUME Typed, OwnInv, MapOK, NEW w \in Workers, Bind(w) \/ BindUnseen(w)
    PROVE  MapOK'
<1>1. /\ pc \in [Workers -> Counter] /\ req \in [Workers -> Plan \cup {NoPlan}]
      /\ grant \in [Workers -> Receipt \cup {NoReceipt}] /\ pc[w] = "bind"
      /\ Bound(w) \in Receipt /\ Bound(w).lease = mine[w]
  BY DEF Bind, BindUnseen, Bound, Receipt, Typed, TypeOK, BusyOK
<1>2. /\ fence'.receipt = Bound(w) /\ pc'[w] \notin Carrying \cup Restored
      /\ \A v \in Workers \ {w} : pc'[v] = pc[v] /\ grant'[v] = grant[v]
      /\ UNCHANGED <<settings, consumed, aborted, owner, crossed>>
  BY <1>1 DEF Bind, BindUnseen, Reset, Goto, Carrying, Restored, history
<1>3. \A v \in Workers \ {w} :
          pc[v] \in Carrying \cup Restored => grant[v].lease # mine[w]
  BY <1>1 DEF OwnInv, GrantOK, DistinctOK, Owning, Guarded, Window, Carrying, Restored
<1>4. \A d \in consumed \cup aborted : d.lease # mine[w]
  BY <1>1 DEF OwnInv, DistinctOK, Owning
<1>5. ~Idle' /\ fence'.receipt.lease = mine[w]
  BY <1>1, <1>2, ConstantsOK DEF Idle
<1>6. \A v \in Workers : pc'[v] \in Carrying \cup Restored => fence'.receipt # grant'[v]
  BY <1>1, <1>2, <1>3
<1>7. QED
  BY <1>2, <1>4, <1>5, <1>6 DEF MapOK, Truthful

LEMMA MapServe ==
    ASSUME Typed, OwnInv, MapOK, NEW w \in Workers, Serve(w)
    PROVE  MapOK'
<1> USE DEF shared, local, history
<1>0. /\ req \in [Workers -> Plan \cup {NoPlan}]
      /\ grant \in [Workers -> Receipt \cup {NoReceipt}]
  BY DEF Typed, TypeOK
<1>1. CASE Bind(w) \/ BindUnseen(w)
  BY <1>1, MapBind
<1>2. CASE \E r \in Releases : PrepareRecovered(w, r)
  BY <1>2 DEF PrepareRecovered, MapOK, Truthful, Idle
<1>3. CASE \/ \E r \in Releases : PrepareObserve(w, r)
           \/ \E p \in plans : Request(w, p) \/ RequestTerminal(w, p)
           \/ Observe(w) \/ Acquire(w)
  <2>1. /\ UNCHANGED <<fence, settings, consumed, aborted, owner, crossed>>
        /\ \E l \in {"prepare", "observe", "recover", "acquire", "bind"} : Goto(w, l)
        /\ \A v \in Workers \ {w} : req'[v] = req[v] /\ grant'[v] = grant[v]
    BY <1>0, <1>3 DEF PrepareObserve, Request, RequestTerminal, Observe, Acquire,
       TakeLease
  <2>2. {"prepare", "observe", "recover", "acquire", "bind"} \cap
        (Carrying \cup Restored) = {}
    BY DEF Carrying, Restored
  <2>3. QED
    BY <2>1, <2>2, MapGoto
<1>4. CASE PrepareFence(w) \/ BindBusy(w)
  BY <1>4, MapReset DEF PrepareFence, BindBusy
<1>5. QED
  BY <1>1, <1>2, <1>3, <1>4 DEF Serve

LEMMA MapActivate ==
    ASSUME Typed, OwnInv, MapOK, NEW w \in Workers, Activate(w)
    PROVE  MapOK'
<1> USE DEF shared, local, history
<1>0. /\ pc \in [Workers -> Counter] /\ req \in [Workers -> Plan \cup {NoPlan}]
      /\ grant \in [Workers -> Receipt \cup {NoReceipt}]
  BY DEF Typed, TypeOK
<1>1. CASE Read(w) \/ Predeploy(w) \/ PutRead(w) \/ Undo(w) \/ UndoRead(w)
  <2>1. PICK l \in {"predeploy", "putread", "put", "undoput", "putback", "undoputback",
                    "undoread", "undoputread", "undocheck"} : Goto(w, l)
    BY <1>1 DEF Read, Predeploy, PutRead, Undo, UndoRead
  <2>2. l \notin Carrying \cup Restored
    BY DEF Carrying, Restored
  <2>3. QED
    BY <1>1, <2>1, <2>2, MapGoto DEF Read, Predeploy, PutRead, Undo, UndoRead
<1>2. CASE Put(w)
  <2>1. /\ pc[w] \in Window /\ pc'[w] \notin Carrying \cup Restored
        /\ \A v \in Workers \ {w} : pc'[v] = pc[v]
        /\ UNCHANGED <<fence, consumed, aborted, req, grant, owner>>
        /\ crossed' \subseteq crossed
    BY <1>0, <1>2 DEF Put, Goto, Window, Carrying, Restored
  <2>2. grant[w] # NoReceipt
    BY <2>1, ConstantsOK DEF Typed, BusyOK
  <2>3. \A v \in Workers :
            pc'[v] \in Carrying \cup Restored => fence'.receipt # grant'[v]
    <3>1. Carrying \cup Restored \subseteq Guarded \cup Window
      BY DEF Carrying, Restored, Guarded, Window
    <3>2. QED
      BY <2>1, <3>1, SoleReceipt
  <2>4. ~Idle' /\ \A d \in consumed' \cup aborted' : d.lease # fence'.receipt.lease
    BY <2>1, <2>2, SoleReceipt DEF Idle
  <2>5. QED
    BY <2>1, <2>3, <2>4 DEF MapOK, Truthful
<1>3. CASE Resume(w)
  BY <1>0, <1>3, MapStep DEF Resume, Resumable, Goto, Carrying, Restored
<1>4. CASE PutBack(w)
  BY <1>0, <1>4, MapStep DEF PutBack, Into, Undoing, Goto, Carrying, Restored
<1>5. CASE UndoCheck(w)
  BY <1>0, <1>5, MapStep DEF UndoCheck, Goto, Carrying, Restored
<1>6. CASE Restart(w) \/ Probe(w) \/ UndoProbe(w)
  <2>1. /\ pc[w] \in Carrying => pc'[w] \in Carrying \ Restored
        /\ pc[w] \in Restored => pc'[w] \in Restored \ Carrying
        /\ pc[w] \in Carrying \cup Restored
        /\ \A v \in Workers \ {w} : pc'[v] = pc[v]
        /\ UNCHANGED <<fence, settings, consumed, aborted, req, grant, owner, crossed>>
    BY <1>0, <1>6 DEF Restart, Probe, UndoProbe, Goto, Carrying, Restored
  <2>2. QED
    BY <2>1 DEF MapOK, Truthful, Idle
<1>7. QED
  BY <1>1, <1>2, <1>3, <1>4, <1>5, <1>6 DEF Activate

LEMMA MapSettle ==
    ASSUME Typed, OwnInv, MapOK, NEW w \in Workers, Settle(w)
    PROVE  MapOK'
<1> USE DEF shared, local, history
<1>0. /\ pc \in [Workers -> Counter] /\ req \in [Workers -> Plan \cup {NoPlan}]
      /\ grant \in [Workers -> Receipt \cup {NoReceipt}]
  BY DEF Typed, TypeOK
<1>1. CASE Consume(w) \/ Abort(w)
  BY <1>0, <1>1 DEF Consume, Abort, Goto, Carrying, Restored, MapOK, Truthful, Idle
<1>2. CASE CreateConsumed(w) \/ CreateAborted(w)
  <2>1. /\ pc[w] \in Window /\ pc'[w] \notin Carrying \cup Restored
        /\ \A v \in Workers \ {w} : pc'[v] = pc[v]
        /\ UNCHANGED <<fence, settings, req, grant, owner, crossed>>
    BY <1>0, <1>2 DEF CreateConsumed, CreateAborted, Goto, Window, Carrying, Restored
  <2>2. /\ fence.receipt = grant[w] /\ grant[w].plan = req[w] /\ grant[w] # NoReceipt
        /\ \A d \in consumed \cup aborted : d.lease # grant[w].lease
    BY <2>1, SoleReceipt, ConstantsOK DEF Typed, BusyOK
  <2>3. \/ /\ pc[w] \in Carrying /\ consumed' = consumed \cup {grant[w]}
           /\ aborted' = aborted
        \/ /\ pc[w] \in Restored /\ aborted' = aborted \cup {grant[w]}
           /\ consumed' = consumed
    BY <1>2 DEF CreateConsumed, CreateAborted, Carrying, Restored
  <2>4. QED
    BY <2>1, <2>2, <2>3 DEF MapOK, Truthful, Idle
<1>3. CASE Recover(w) \/ FenceRead(w) \/ FenceRenew(w) \/ FenceRelease(w)
  <2>1. PICK l \in {"fenceread", "fencelease", "fencewrite"} : Goto(w, l)
    BY <1>3 DEF Recover, FenceRead, FenceRenew, FenceRelease
  <2>2. l \notin Carrying \cup Restored
    BY DEF Carrying, Restored
  <2>3. QED
    BY <1>3, <2>1, <2>2, MapGoto DEF Recover, FenceRead, FenceRenew, FenceRelease,
       TakeLease
<1>4. CASE FenceWrite(w)
  <2>1. /\ fence.receipt = grant[w] /\ fence'.receipt = NoReceipt
        /\ fence'.proof = grant[w].lease /\ pc'[w] \notin Carrying \cup Restored
        /\ \A v \in Workers \ {w} : pc'[v] = pc[v]
        /\ UNCHANGED <<settings, consumed, aborted, req, grant, owner, crossed>>
    BY <1>0, <1>4 DEF FenceWrite, Goto, Carrying, Restored
  <2>2. grant[w] # NoReceipt
    BY <1>4, ConstantsOK DEF FenceWrite, Typed, BusyOK, Settling
  <2>3. \A v \in Workers : pc'[v] \in Carrying \cup Restored => fence'.receipt # grant'[v]
    <3>1. Carrying \cup Restored \subseteq Guarded \cup Window
      BY DEF Carrying, Restored, Guarded, Window
    <3>2. QED
      BY <2>1, <3>1, ConstantsOK DEF Typed, BusyOK
  <2>4. QED
    BY <2>1, <2>2, <2>3 DEF MapOK, Truthful, Idle
<1>5. CASE FenceSettled(w) \/ FenceDrift(w) \/ FenceDone(w)
  BY <1>5, MapReset DEF FenceSettled, FenceDrift, FenceDone
<1>6. QED
  BY <1>1, <1>2, <1>3, <1>4, <1>5 DEF Settle

(* Every step keeps what is known of the map; an owner's write ends the    *)
(* promise.                                                                *)
LEMMA MapNext ==
    ASSUME Typed, OwnInv, MapOK, [Next]_vars
    PROVE  MapOK'
<1> USE DEF shared, local, history
<1>1. ASSUME NEW w \in Workers, Serve(w) \/ Activate(w) \/ Settle(w)
      PROVE  MapOK'
  BY <1>1, MapServe, MapActivate, MapSettle
<1>2. ASSUME NEW w \in Workers, Fail(w) \/ Crash(w)
      PROVE  MapOK'
  <2>1. /\ Reset(w) /\ crossed' \subseteq crossed
        /\ UNCHANGED <<fence, settings, consumed, aborted, owner>>
    BY <1>2 DEF Fail, Crash
  <2>2. QED
    BY <2>1, MapReset
<1>3. CASE Expire \/ Recycle \/ UNCHANGED vars
  BY <1>3 DEF Expire, Recycle, vars, MapOK, Truthful, Idle
<1>4. CASE OwnerWrite
  <2>1. owner' # 0
    BY <1>4 DEF OwnerWrite, Typed, TypeOK
  <2>2. QED
    BY <2>1 DEF MapOK
<1>5. QED
  BY <1>1, <1>2, <1>3, <1>4 DEF Next

(* Leases, receipts and checks stay a worker's own, through its windows,   *)
(* and workers and markers know the map production carries.                *)
THEOREM FenceSafe ==
    ASSUME NoWindowStall
    PROVE  Spec => []FenceInv
<1>1. Init => FenceInv
  BY InvInit DEF FenceInv, MapOK, Truthful, Init, Carrying, Restored
<1>2. Typed /\ FenceInv /\ [Next]_vars => FenceInv'
  BY InvNext, MapNext DEF FenceInv
<1>3. QED
  BY TypeCorrect, <1>1, <1>2, PTL DEF Spec

(* An idle fence tells the map production carries, unless an owner wrote   *)
(* to the site.                                                            *)
THEOREM ProductionSafe ==
    ASSUME NoWindowStall
    PROVE  Spec => []SettledProduction
<1>1. FenceInv => SettledProduction
  BY DEF FenceInv, MapOK, Truthful, SettledProduction, Idle
<1>2. QED
  BY FenceSafe, <1>1, PTL

(* No candidate is both consumed and aborted, whatever workers crash,      *)
(* stall elsewhere or take the fence over from one another.                *)
THEOREM ExclusiveSafe ==
    ASSUME NoWindowStall
    PROVE  Spec => []TerminalExclusive
<1>1. FenceInv => TerminalExclusive
  BY DEF FenceInv, OwnInv
<1>2. QED
  BY FenceSafe, <1>1, PTL

(* Production is written only under the receipt in force, over the old or  *)
(* the desired map of its plan.                                            *)
THEOREM WritesSafe ==
    ASSUME NoWindowStall
    PROVE  Spec => WritesUnderFence
<1>1. ASSUME Typed, OwnInv, NEW w \in Workers, pc[w] \in {"put", "undoput"}
      PROVE  Holds(w) /\ (w \notin crossed => settings \in {req[w].pre, req[w].desired})
  <2>1. pc[w] \in Window
    BY <1>1 DEF Window
  <2>2. lease = mine[w] /\ fence.receipt = grant[w] /\ grant[w].lease = mine[w]
    BY <1>1, <2>1 DEF OwnInv, WindowOK, GrantOK
  <2>3. grant[w] # NoReceipt
    BY <1>1, <2>1, ConstantsOK DEF Typed, BusyOK
  <2>4. w \notin crossed => settings = From(w)
    BY <1>1 DEF OwnInv, CheckOK
  <2>5. QED
    BY <2>2, <2>3, <2>4 DEF Holds, Held, Idle, From
<1>2. Typed /\ FenceInv =>
        [\A w \in Workers :
          (pc[w] \in {"put", "undoput"} /\ pc'[w] # "idle" /\ settings' # settings
             /\ pc'[w] # pc[w])
          => /\ Holds(w)
             /\ w \notin crossed => settings \in {req[w].pre, req[w].desired}]_vars
  BY <1>1 DEF FenceInv
<1>3. QED
  BY TypeCorrect, FenceSafe, <1>2, PTL DEF WritesUnderFence

-----------------------------------------------------------------------------
(* The fence changes hands only as documented, wherever workers stall      *)

(* A worker that completes the fence acts for a terminal marker.           *)
SettleOK ==
    \A w \in Workers : pc[w] \in Settling => grant[w] \in consumed \cup aborted

(* Markers are never removed, and the completion starts from one.          *)
LEMMA SettleNext ==
    ASSUME Typed, SettleOK, [Next]_vars
    PROVE  SettleOK'
<1> USE DEF shared, local, history, Goto
<1>0. /\ pc \in [Workers -> Counter] /\ grant \in [Workers -> Receipt \cup {NoReceipt}]
  BY DEF Typed, TypeOK
<1>1. ASSUME NEW w \in Workers, Serve(w)
      PROVE  SettleOK'
  BY <1>0, <1>1 DEF Serve, SettleOK, Settling, PrepareRecovered, PrepareObserve,
     PrepareFence, Request, RequestTerminal, Observe, Acquire, Bind, BindUnseen,
     BindBusy, Reset
<1>2. ASSUME NEW w \in Workers, Activate(w)
      PROVE  SettleOK'
  BY <1>0, <1>2 DEF Activate, SettleOK, Settling, Read, Resume, Predeploy, PutRead,
     Put, PutBack, Restart, Probe, Undo, UndoRead, UndoCheck, UndoProbe
<1>3. ASSUME NEW w \in Workers, Settle(w)
      PROVE  SettleOK'
  BY <1>0, <1>3 DEF Settle, SettleOK, Settling, Consume, CreateConsumed, Abort,
     CreateAborted, Recover, FenceRead, FenceSettled, FenceRenew, FenceRelease,
     FenceWrite, FenceDrift, FenceDone, Reset
<1>4. ASSUME NEW w \in Workers, Fail(w) \/ Crash(w)
      PROVE  SettleOK'
  BY <1>0, <1>4 DEF Fail, Crash, Reset, SettleOK, Settling
<1>5. CASE Expire \/ Recycle \/ OwnerWrite \/ UNCHANGED vars
  BY <1>5 DEF Expire, Recycle, OwnerWrite, vars, SettleOK
<1>6. QED
  BY <1>1, <1>2, <1>3, <1>4, <1>5 DEF Next

(* A held fence goes only to the same plan, or becomes idle for a plan     *)
(* that has its terminal marker.                                           *)
THEOREM DisciplineSafe == Spec => FenceDiscipline
<1> DEFINE Disciplined ==
      Held => \/ fence' = fence
              \/ /\ fence'.receipt # NoReceipt
                 /\ fence'.receipt.plan = fence.receipt.plan
                 /\ fence'.version = fence.version + 1
              \/ /\ fence'.receipt = NoReceipt
                 /\ fence.receipt \in consumed \cup aborted
<1>1. Init => SettleOK
  BY DEF Init, SettleOK, Settling
<1>2. Typed /\ SettleOK /\ [Next]_vars => SettleOK'
  BY SettleNext
<1>3. Typed /\ SettleOK /\ [Next]_vars => [Disciplined]_vars
  <2> SUFFICES ASSUME Typed, SettleOK, Next
               PROVE  Disciplined
    OBVIOUS
  <2>1. ASSUME NEW w \in Workers, Bind(w) \/ BindUnseen(w)
        PROVE  Disciplined
    <3>1. /\ fence'.receipt = Bound(w) /\ fence'.version = fence.version + 1
          /\ Bound(w).plan = req[w] /\ MayBind(req[w])
      BY <2>1 DEF Bind, BindUnseen, Bound
    <3>2. Bound(w) \in Receipt
      BY <2>1 DEF Bind, BindUnseen, Bound, Receipt, Typed, TypeOK, BusyOK
    <3>3. QED
      BY <3>1, <3>2, ConstantsOK DEF MayBind
  <2>2. ASSUME NEW w \in Workers, FenceWrite(w)
        PROVE  Disciplined
    <3>1. grant[w] \in consumed \cup aborted /\ fence.receipt = grant[w]
      BY <2>2 DEF FenceWrite, SettleOK, Settling
    <3>2. fence'.receipt = NoReceipt
      BY <2>2 DEF FenceWrite
    <3>3. QED
      BY <3>1, <3>2
  <2>3. ASSUME NEW w \in Workers, Serve(w), ~Bind(w), ~BindUnseen(w)
        PROVE  fence' = fence
    BY <2>3 DEF Serve, shared, PrepareRecovered, PrepareObserve, PrepareFence,
       Request, RequestTerminal, Observe, Acquire, TakeLease, BindBusy
  <2>4. ASSUME NEW w \in Workers, Activate(w)
        PROVE  fence' = fence
    BY <2>4 DEF Activate, shared, Read, Resume, Predeploy, PutRead, Put, PutBack,
       Restart, Probe, Undo, UndoRead, UndoCheck, UndoProbe
  <2>5. ASSUME NEW w \in Workers, Settle(w), ~FenceWrite(w)
        PROVE  fence' = fence
    BY <2>5 DEF Settle, shared, Consume, CreateConsumed, Abort, CreateAborted,
       Recover, FenceRead, FenceSettled, FenceRenew, FenceRelease, FenceDrift, FenceDone
  <2>6. ASSUME NEW w \in Workers, Fail(w) \/ Crash(w)
        PROVE  fence' = fence
    BY <2>6 DEF Fail, Crash, shared
  <2>7. Expire \/ Recycle \/ OwnerWrite => fence' = fence
    BY DEF Expire, Recycle, OwnerWrite
  <2>8. QED
    BY <2>1, <2>2, <2>3, <2>4, <2>5, <2>6, <2>7 DEF Next
<1>4. QED
  BY TypeCorrect, <1>1, <1>2, <1>3, PTL DEF Spec, FenceDiscipline

-----------------------------------------------------------------------------
(* The refinement: every step is a step of ReleaseSettlement or a stutter  *)

(* A step that leaves fence, map, markers and owner alone is a stutter.    *)
LEMMA Stutter ==
    ASSUME UNCHANGED <<fence, settings, consumed, aborted, owner>>
    PROVE  UNCHANGED Settlement!svars
BY DEF Settlement!svars, Idle

(* Binding an idle fence takes a plan; binding a held one leaves it.       *)
LEMMA BindTakes ==
    ASSUME Typed, NEW w \in Workers, Bind(w) \/ BindUnseen(w)
    PROVE  Settlement!Next \/ UNCHANGED Settlement!svars
<1>1. /\ Bound(w) \in Receipt /\ Bound(w).plan = req[w] /\ req[w] \in Plan
      /\ fence'.receipt = Bound(w) /\ MayBind(req[w])
      /\ UNCHANGED <<settings, consumed, aborted, owner>>
  BY DEF Bind, BindUnseen, Bound, Receipt, Typed, TypeOK, BusyOK, history
<1>2. ~Idle'
  BY <1>1, ConstantsOK DEF Idle
<1>3. CASE Idle
  <2>1. Settlement!Take(req[w])
    BY <1>1, <1>2, <1>3 DEF Settlement!Take
  <2>2. QED
    BY <1>1, <2>1 DEF Settlement!Next
<1>4. CASE ~Idle
  BY <1>1, <1>2, <1>4 DEF Settlement!svars, MayBind, Held
<1>5. QED
  BY <1>3, <1>4

(* A PUT moves the map between the ends of the plan in force, or arrives   *)
(* after an owner's write.                                                 *)
LEMMA PutMoves ==
    ASSUME Typed, FenceInv, NEW w \in Workers, Put(w)
    PROVE  Settlement!Next
<1>1. /\ pc[w] \in Window /\ pc[w] \in {"put", "undoput"}
      /\ settings' \in {settings, Into(w)}
      /\ UNCHANGED <<fence, consumed, aborted, owner>>
  BY DEF Put, Window
<1>2. /\ fence.receipt = grant[w] /\ grant[w].plan = req[w] /\ grant[w] \in Receipt
      /\ req[w] \in Plan
  BY <1>1, SoleReceipt, ReceiptType DEF FenceInv, Typed, BusyOK
<1>3. ~Idle /\ ~Idle' /\ req[w] # NoPlan
  BY <1>1, <1>2, ConstantsOK DEF Idle
<1>4. owner = 0 => settings \in {req[w].pre, req[w].desired}
  BY <1>1 DEF FenceInv, MapOK, OwnInv, CheckOK, From
<1>5. CASE settings' = Into(w) \/ owner = 0
  <2>1. settings' \in {req[w].pre, req[w].desired}
    BY <1>1, <1>4, <1>5 DEF Into
  <2>2. Settlement!Move
    BY <1>1, <1>2, <1>3, <1>4, <2>1 DEF Settlement!Move, Settlement!Ends
  <2>3. QED
    BY <2>2 DEF Settlement!Next
<1>6. CASE owner # 0
  <2>1. Settlement!Meddle
    BY <1>1, <1>3, <1>6 DEF Settlement!Meddle, Idle
  <2>2. QED
    BY <2>1 DEF Settlement!Next
<1>7. QED
  BY <1>5, <1>6

(* A terminal marker records the plan in force, while production carries   *)
(* the map it says and the release has no marker of the other kind.        *)
LEMMA CreateRecords ==
    ASSUME Typed, FenceInv, NEW w \in Workers, CreateConsumed(w) \/ CreateAborted(w)
    PROVE  Settlement!Next
<1>1. /\ pc[w] \in Window /\ UNCHANGED <<fence, settings, owner>>
  BY DEF CreateConsumed, CreateAborted, Window, history
<1>2. /\ fence.receipt = grant[w] /\ grant[w].plan = req[w] /\ grant[w] \in Receipt
      /\ req[w] \in Plan
  BY <1>1, SoleReceipt, ReceiptType DEF FenceInv, Typed, BusyOK
<1>3. ~Idle /\ ~Idle' /\ req[w] # NoPlan
  BY <1>1, <1>2, ConstantsOK DEF Idle
<1>4. CASE CreateConsumed(w)
  <2>1. /\ pc[w] = "createconsumed" /\ consumed' = consumed \cup {grant[w]}
        /\ aborted' = aborted
    BY <1>4 DEF CreateConsumed
  <2>2. owner = 0 => settings = req[w].desired
    BY <1>2, <2>1 DEF FenceInv, MapOK, Carrying
  <2>3. \A d \in aborted : d.plan.release # req[w].release
    BY <2>1 DEF FenceInv, OwnInv, CheckOK, UndoOK, ConsumeAllowed, Aborted
  <2>4. {d.plan : d \in consumed'} = {d.plan : d \in consumed} \cup {req[w]}
    BY <1>2, <2>1
  <2>5. Settlement!Do
    BY <1>1, <1>2, <1>3, <2>1, <2>2, <2>3, <2>4 DEF Settlement!Do, Settlement!Settles
  <2>6. QED
    BY <2>5 DEF Settlement!Next
<1>5. CASE CreateAborted(w)
  <2>1. /\ pc[w] = "createaborted" /\ aborted' = aborted \cup {grant[w]}
        /\ consumed' = consumed
    BY <1>5 DEF CreateAborted
  <2>2. owner = 0 => settings = req[w].pre
    BY <1>2, <2>1 DEF FenceInv, MapOK, Restored
  <2>3. \A d \in consumed : d.plan.release # req[w].release
    BY <2>1 DEF FenceInv, OwnInv, CheckOK, AbortAllowed, Consumed
  <2>4. {d.plan : d \in aborted'} = {d.plan : d \in aborted} \cup {req[w]}
    BY <1>2, <2>1
  <2>5. Settlement!Undo
    BY <1>1, <1>2, <1>3, <2>1, <2>2, <2>3, <2>4 DEF Settlement!Undo, Settlement!Settles
  <2>6. QED
    BY <2>5 DEF Settlement!Next
<1>6. QED
  BY <1>4, <1>5

(* The fence is given up for a recorded plan.                              *)
LEMMA WriteFrees ==
    ASSUME Typed, FenceInv, NEW w \in Workers, FenceWrite(w)
    PROVE  Settlement!Next
<1>1. /\ fence.receipt = grant[w] /\ grant[w] \in consumed \cup aborted
      /\ fence'.receipt = NoReceipt
      /\ UNCHANGED <<settings, consumed, aborted, owner>>
  BY DEF FenceWrite, FenceInv, OwnInv, GrantOK, Settling, history
<1>2. ~Idle /\ Idle'
  BY <1>1, ConstantsOK DEF Idle, Typed, TypeOK
<1>3. Settlement!Free
  BY <1>1, <1>2 DEF Settlement!Free
<1>4. QED
  BY <1>3 DEF Settlement!Next

(* Every step of the workers and of the environment.                       *)
LEMMA NextImplements ==
    ASSUME Typed, FenceInv, [Next]_vars
    PROVE  Settlement!Next \/ UNCHANGED Settlement!svars
<1> USE DEF shared, local, history
<1>1. ASSUME NEW w \in Workers, Serve(w)
      PROVE  Settlement!Next \/ UNCHANGED Settlement!svars
  <2>1. CASE Bind(w) \/ BindUnseen(w)
    BY <2>1, BindTakes
  <2>2. CASE ~(Bind(w) \/ BindUnseen(w))
    BY <1>1, <2>2, Stutter DEF Serve, PrepareRecovered, PrepareObserve, PrepareFence,
       Request, RequestTerminal, Observe, Acquire, TakeLease, BindBusy
  <2>3. QED
    BY <2>1, <2>2
<1>2. ASSUME NEW w \in Workers, Activate(w)
      PROVE  Settlement!Next \/ UNCHANGED Settlement!svars
  <2>1. CASE Put(w)
    BY <2>1, PutMoves
  <2>2. CASE ~Put(w)
    BY <1>2, <2>2, Stutter DEF Activate, Read, Resume, Predeploy, PutRead, PutBack,
       Restart, Probe, Undo, UndoRead, UndoCheck, UndoProbe
  <2>3. QED
    BY <2>1, <2>2
<1>3. ASSUME NEW w \in Workers, Settle(w)
      PROVE  Settlement!Next \/ UNCHANGED Settlement!svars
  <2>1. CASE CreateConsumed(w) \/ CreateAborted(w)
    BY <2>1, CreateRecords
  <2>2. CASE FenceWrite(w)
    BY <2>2, WriteFrees
  <2>3. CASE ~(CreateConsumed(w) \/ CreateAborted(w) \/ FenceWrite(w))
    BY <1>3, <2>3, Stutter DEF Settle, Consume, Abort, Recover, FenceRead,
       FenceSettled, FenceRenew, FenceRelease, TakeLease, FenceDrift, FenceDone
  <2>4. QED
    BY <2>1, <2>2, <2>3
<1>4. CASE OwnerWrite
  <2>1. owner' # 0 /\ UNCHANGED <<fence, consumed, aborted>>
    BY <1>4 DEF OwnerWrite, Typed, TypeOK
  <2>2. Settlement!Meddle
    BY <2>1 DEF Settlement!Meddle, Idle
  <2>3. QED
    BY <2>2 DEF Settlement!Next
<1>5. CASE \/ Expire \/ Recycle \/ UNCHANGED vars
           \/ \E w \in Workers : Fail(w) \/ Crash(w)
  BY <1>5, Stutter DEF Expire, Recycle, Fail, Crash, vars
<1>6. QED
  BY <1>1, <1>2, <1>3, <1>4, <1>5 DEF Next

(* The workers, leases and receipts implement the settlement: at most one  *)
(* plan in force, production moved only between its two maps, a release    *)
(* recorded only while production carries the map it records and never     *)
(* both ways, and the fence given up only for a recorded plan.             *)
THEOREM SettlementImplemented ==
    ASSUME NoWindowStall
    PROVE  Spec => Implements
<1>1. Init => Settlement!Init
  BY DEF Init, Settlement!Init, Idle
<1>2. Typed /\ FenceInv /\ [Next]_vars => [Settlement!Next]_Settlement!svars
  BY NextImplements
<1>3. QED
  BY TypeCorrect, FenceSafe, <1>1, <1>2, PTL DEF Spec, Implements, Settlement!Spec
===============================================================================
