-------------------------- MODULE BridgeHandoff_proofs --------------------------
(***************************************************************************)
(* For any number of controllers and cleaners, whatever fails and however  *)
(* often the lease changes hands: provided that nobody is paused for a     *)
(* whole lease term between a last renewal and the request it protects.    *)
(*                                                                         *)
(* The argument: only the holder of the lease sends a request, and a lease *)
(* that is lost never comes back.  So what a holder read is still there    *)
(* when it writes.  A start that is not seen yet has its controller        *)
(* waiting for it, or one that gave up; and after that nobody with the     *)
(* verifier of the code removes the map.                                   *)
(***************************************************************************)
EXTENDS BridgeHandoff, SequenceTheorems, TLAPS

Punctual == Window \cap StallAt = {}

Entry == [serves: Controllers \cup {Durable},
          status: {"running", "Success", "Failed", "Aborted"}]
Shapes ==
    /\ pc \in [Actors -> Counter] /\ mine \in [Actors -> Nat]
    /\ lease \in Nat /\ leases \in Nat
    /\ settings \in Controllers \cup {Durable}
    /\ site \in {"Stopped", "Starting", "Running", "Stopping"}
    /\ order \in {"none", "start", "stop"} /\ runs \in Seq(Entry)
    /\ owns \subseteq Controllers /\ target \in [Cleaners -> Controllers \cup {Durable}]

(* Identifiers are drawn once.                                             *)
Drawn ==
    /\ lease <= leases /\ \A a \in Actors : mine[a] <= leases
    /\ \A a, b \in Actors : mine[a] # 0 /\ mine[a] = mine[b] => a = b

(* A request is sent under the lease.                                      *)
Covered(a) == pc[a] \in Window => Holds(a)

Before == {"idle", "ready", "post", "seal", "injectread", "injectrenew", "inject"}
Working == {"start", "startrenew", "startpost", "startpoll", "run", "runpost"}
After  == {"done", "restoreback", "delete", "unlock"}
Stopping == {"stop", "stoppost", "stoppoll"}
Restoring == {"restoreread", "restorerenew", "restore"}

(* No run is alive.                                                        *)
Quiet == \A i \in DOMAIN runs : runs[i].status # "running"

(* What a controller may rely on at its next request.                      *)
Relies(c) ==
    /\ pc[c] \in {"injectrenew", "inject"} /\ Holds(c) => settings = Durable
    /\ settings = c => pc[c] \notin Before
    /\ pc[c] \in Working => c \in owns
    /\ c \in owns => pc[c] \in After \/ settings = c
    /\ pc[c] \in {"startrenew", "startpost"} /\ Holds(c) /\ gaveUp = {} => Halted
    /\ pc[c] \in Restoring /\ Holds(c) /\ settings = c => Quiet /\ (gaveUp = {} => Halted)
    /\ pc[c] \in {"restorerenew", "restore"} /\ Holds(c) => settings = c

(* With the code's verifier nobody comes to the removal of a map.          *)
Spares(c) == Exact => /\ pc[c] \notin Restoring \cup {"release", "restoreback"}
                      /\ pc[c] \in Stopping => c \notin owns

(* A pending start belongs to the map, and its controller, if it still has *)
(* the lease, waits for it.                                                *)
Awaited(c) ==
    order = "start" /\ settings = c /\ Holds(c) /\ gaveUp = {} => pc[c] = "startpoll" /\ Halted

Cleaned == {"crestoreverify", "crestoreread", "crestorerenew", "crestore"}

(* What a cleaner may rely on: the owner is gone, no start is pending.     *)
Cleans(k) ==
    /\ target[k] # Durable => target[k] \in Controllers /\ Gone(target[k])
    /\ pc[k] \in Cleaned \cup {"cstoppoll"} /\ Holds(k) => order # "start"
    /\ pc[k] \in Cleaned /\ Holds(k) => Halted
    /\ pc[k] \in {"crestorerenew", "crestore"} /\ Holds(k) => settings = target[k]
    /\ Exact => /\ pc[k] \in {"idle", "ready", "cverify", "cread", "unlock"}
                /\ pc[k] = "cread" /\ Holds(k) => settings = Durable

(* A run needs the running site, and was started under the present map.    *)
Alive == \A i \in DOMAIN runs :
             runs[i].status = "running" => /\ ~ Halted
                                           /\ settings = runs[i].serves /\ settings # Durable

Everyone ==
    /\ \A a \in Actors : Covered(a)
    /\ \A c \in Controllers : Relies(c) /\ Spares(c) /\ Awaited(c)
    /\ \A k \in Cleaners : Cleans(k)

Inv == Shapes /\ Drawn /\ Everyone /\ DurableIsStopped /\ Alive

LEMMA InitInv == Init => Inv
<1> SUFFICES ASSUME Init PROVE Inv
  OBVIOUS
<1>1. Shapes
  <2>1. runs \in Seq(Entry)
    BY DEF Init
  <2> QED
    BY <2>1 DEF Init, Shapes, Actors, Counter
<1>2. Drawn /\ Everyone
  BY HandoffConstants DEF Init, Drawn, Everyone, Covered, Relies, Spares, Awaited, Cleans, Holds,
                          Window, Before, After, Working, Stopping, Restoring, Cleaned, Actors
<1>3. DurableIsStopped /\ Alive
  BY DEF Init, DurableIsStopped, Halted, Alive
<1> QED
  BY <1>1, <1>2, <1>3 DEF Inv

(* Two actors do not hold the lease.                                       *)
LEMMA OneHolder ==
    ASSUME Inv, NEW a \in Actors, NEW b \in Actors, Holds(a), Holds(b)
    PROVE  a = b
BY DEF Inv, Drawn, Holds

(* One actor moves on; the cloud and its lease stay.                       *)
LEMMA MoveKeeps ==
    ASSUME Inv, NEW a \in Actors, NEW l \in Counter, Goto(a, l), ~ Gone(a),
           UNCHANGED <<lease, leases, settings, site, order, runs, mine, verifier>>,
           gaveUp' = {} => gaveUp = {},
           owns' \subseteq Controllers,
           \A c \in Controllers : c # a => (c \in owns' <=> c \in owns),
           target' \in [Cleaners -> Controllers \cup {Durable}],
           \A k \in Cleaners : k # a => target'[k] = target[k],
           Covered(a)', a \in Controllers => Relies(a)' /\ Spares(a)' /\ Awaited(a)',
           a \in Cleaners => Cleans(a)'
    PROVE  Inv'
<1>1. /\ pc' = [pc EXCEPT ![a] = l] /\ pc' \in [Actors -> Counter]
      /\ \A b \in Actors : b # a => pc'[b] = pc[b]
  BY DEF Goto, Inv, Shapes
<1>2. Shapes' /\ Drawn' /\ DurableIsStopped' /\ Alive'
  BY <1>1 DEF Inv, Shapes, Drawn, DurableIsStopped, Alive, Halted, Settled, Exact
<1>3. \A b \in Actors : Covered(b)'
  BY <1>1 DEF Inv, Everyone, Covered, Holds
<1>4. ASSUME NEW c \in Controllers PROVE Relies(c)' /\ Spares(c)' /\ Awaited(c)'
  <2>1. CASE c = a
    BY <2>1
  <2>2. CASE c # a
    <3>1. /\ Relies(c) /\ Spares(c) /\ Awaited(c) /\ pc'[c] = pc[c] /\ (c \in owns' <=> c \in owns)
          /\ (Holds(c)' <=> Holds(c)) /\ (Halted' <=> Halted) /\ (Quiet' <=> Quiet)
          /\ (Exact' <=> Exact)
      BY <1>1, <2>2 DEF Inv, Everyone, Holds, Halted, Quiet, Exact, Actors
    <3>2. Relies(c)'
      BY <3>1 DEF Relies
    <3>3. Spares(c)' /\ Awaited(c)'
      BY <3>1 DEF Spares, Awaited
    <3> QED
      BY <3>2, <3>3
  <2> QED
    BY <2>1, <2>2
<1>5. ASSUME NEW k \in Cleaners PROVE Cleans(k)'
  <2>1. CASE k = a
    BY <2>1
  <2>2. CASE k # a
    <3>1. Cleans(k) /\ pc'[k] = pc[k] /\ target'[k] = target[k]
      BY <1>1, <2>2 DEF Inv, Everyone, Actors
    <3>2. \A c \in Controllers : Gone(c) => Gone(c)'
      BY <1>1 DEF Gone, Actors
    <3> QED
      BY <3>1, <3>2 DEF Cleans, Holds, Halted, Exact
  <2> QED
    BY <2>1, <2>2
<1> QED
  BY <1>2, <1>3, <1>4, <1>5 DEF Inv, Everyone

-----------------------------------------------------------------------------
(* The controller between its requests                                     *)

LEMMA ControllerMove ==
    ASSUME Inv, NEW c \in Controllers, NEW l \in Counter, Goto(c, l), ~ Gone(c),
           UNCHANGED <<lease, leases, settings, site, order, runs, mine, target, verifier>>,
           gaveUp' = {} => gaveUp = {},
           owns' \subseteq Controllers,
           \A d \in Controllers : d # c => (d \in owns' <=> d \in owns),
           l \in Window => Holds(c),
           l \in {"injectrenew", "inject"} /\ Holds(c) => settings = Durable,
           settings = c => l \notin Before,
           l \in Working => c \in owns',
           c \in owns' => l \in After \/ settings = c,
           l \in {"startrenew", "startpost"} /\ Holds(c) /\ gaveUp' = {} => Halted,
           l \in Restoring /\ Holds(c) /\ settings = c => Quiet /\ (gaveUp' = {} => Halted),
           l \in {"restorerenew", "restore"} /\ Holds(c) => settings = c,
           Exact => l \notin Restoring \cup {"release", "restoreback"},
           Exact /\ l \in Stopping => c \notin owns',
           order = "start" /\ settings = c /\ Holds(c) /\ gaveUp' = {}
               => l = "startpoll" /\ Halted
    PROVE  Inv'
<1>1. c \in Actors /\ c \notin Cleaners
  BY HandoffConstants DEF Actors
<1>2. /\ pc'[c] = l /\ (Holds(c)' <=> Holds(c)) /\ (Halted' <=> Halted) /\ (Quiet' <=> Quiet)
      /\ (Exact' <=> Exact)
  BY <1>1 DEF Goto, Inv, Shapes, Holds, Halted, Quiet, Exact
<1>3. Covered(c)'
  BY <1>2 DEF Covered
<1>4. Relies(c)' /\ Awaited(c)'
  BY <1>2 DEF Relies, Awaited
<1>5. Spares(c)'
  BY <1>2 DEF Spares
<1>6. target' \in [Cleaners -> Controllers \cup {Durable}]
  BY DEF Inv, Shapes
<1> QED
  BY <1>1, <1>3, <1>4, <1>5, <1>6, MoveKeeps

(* The actions that follow one another when the cleanup part goes on.      *)
LEMMA Follows ==
    ASSUME NEW c \in Controllers
    PROVE  /\ Delete(c) \in {"delete", "unlock"}
           /\ Release(c) \in {"release", "delete", "unlock"}
           /\ c \in owns <=> Release(c) = "release"
           /\ Stop(c) \in {"stop", "release", "delete", "unlock"}
           /\ c \in owns => Stop(c) \in {"stop", "release"}
           /\ c \notin owns => Stop(c) # "release"
BY DEF Delete, Release, Stop

LEMMA Knows ==
    ASSUME Inv, NEW c \in Controllers
    PROVE  /\ Covered(c) /\ Relies(c) /\ Spares(c) /\ Awaited(c) /\ c # Durable
           /\ owns \subseteq Controllers
BY HandoffConstants DEF Inv, Everyone, Actors, Shapes

(* BridgeLease.acquire and the wait for the start and the run.             *)
LEMMA AcquireKeeps ==
    ASSUME Inv, Punctual, NEW c \in Controllers,
           \/ Verify(c) \/ Busy(c) \/ PutRequest(c) \/ Seal(c) \/ InjectRead(c)
           \/ InjectRenew(c) \/ InjectBack(c) \/ StartCheck(c) \/ StartRenew(c)
           \/ StartPoll(c) \/ RunRead(c) \/ RunPoll(c) \/ Result(c) \/ Fail(c)
    PROVE  Inv'
<1> USE Knows DEF cloud, flags, others
<1>1. CASE Verify(c)
  BY <1>1, ControllerMove DEF Verify, Counter, Window, Before, After,
       Working, Stopping, Restoring, Gone, Relies, Spares, Awaited
<1>2. CASE Busy(c)
  BY <1>2, ControllerMove DEF Busy, Counter, Window, Before, After,
       Working, Stopping, Restoring, Gone, Relies, Spares, Awaited
<1>3. CASE PutRequest(c)
  BY <1>3, ControllerMove DEF PutRequest, Counter, Window, Before, After,
       Working, Stopping, Restoring, Gone, Relies, Spares, Awaited
<1>4. CASE Seal(c)
  BY <1>4, ControllerMove DEF Seal, Counter, Window, Before, After,
       Working, Stopping, Restoring, Gone, Relies, Spares, Awaited
<1>5. CASE InjectRead(c)
  BY <1>5, ControllerMove DEF InjectRead, Counter, Window, Before, After,
       Working, Stopping, Restoring, Gone, Relies, Spares, Awaited
<1>6. CASE InjectRenew(c)
  BY <1>6, ControllerMove DEF InjectRenew, Counter, Window, Before, After,
       Working, Stopping, Restoring, Gone, Relies, Spares, Awaited
<1>7. CASE InjectBack(c)
  BY <1>7, ControllerMove DEF InjectBack, Counter, Window, Before, After,
       Working, Stopping, Restoring, Gone, Relies, Spares, Awaited
<1>8. CASE StartCheck(c)
  BY <1>8, ControllerMove DEF StartCheck, Counter, Window, Before, After,
       Working, Stopping, Restoring, Gone, Relies, Spares, Awaited
<1>9. CASE StartRenew(c)
  BY <1>9, ControllerMove DEF StartRenew, Counter, Window, Before, After,
       Working, Stopping, Restoring, Gone, Relies, Spares, Awaited
<1>10. CASE StartPoll(c)
  BY <1>10, ControllerMove DEF StartPoll, Counter, Window, Before, After,
       Working, Stopping, Restoring, Gone, Relies, Spares, Awaited
<1>11. CASE RunRead(c) \/ RunPoll(c) \/ Result(c)
  BY <1>11, ControllerMove DEF RunRead, RunPoll, Result, Counter, Window, Before, After,
       Working, Stopping, Restoring, Gone, Relies, Spares, Awaited
<1>12. CASE Fail(c)
  BY <1>12, ControllerMove DEF Fail, Fails, Counter, Window, Before, After,
       Working, Stopping, Restoring, Gone, Relies, Spares, Awaited
<1> QED
  BY <1>1, <1>2, <1>3, <1>4, <1>5, <1>6, <1>7, <1>8, <1>9, <1>10, <1>11, <1>12

(* The cleanup part, but for its requests.                                 *)
LEMMA CleanupKeeps ==
    ASSUME Inv, Punctual, NEW c \in Controllers,
           \/ Reverify(c) \/ StopCheck(c) \/ EmergencyCheck(c) \/ StopPoll(c)
           \/ ReleaseCheck(c) \/ RestoreRead(c) \/ RestoreRenew(c) \/ RestoreBack(c)
           \/ DeleteRequest(c) \/ Skip(c)
    PROVE  Inv'
<1> USE Knows, Follows DEF cloud, flags, others
<1>1. CASE Reverify(c)
  BY <1>1, ControllerMove DEF Reverify, MayVerify, Counter, Window, Before, After,
       Working, Stopping, Restoring, Gone, Relies, Spares, Awaited
<1>2. CASE StopCheck(c)
  BY <1>2, ControllerMove DEF StopCheck, Counter, Window, Before, After,
       Working, Stopping, Restoring, Gone, Relies, Spares, Awaited
<1>3. CASE EmergencyCheck(c)
  BY <1>3, ControllerMove DEF EmergencyCheck, Counter, Window, Before, After,
       Working, Stopping, Restoring, Gone, Relies, Spares, Awaited
<1>4. CASE StopPoll(c)
  BY <1>4, ControllerMove DEF StopPoll, Counter, Window, Before, After,
       Working, Stopping, Restoring, Gone, Relies, Spares, Awaited
<1>5. CASE ReleaseCheck(c)
  BY <1>5, ControllerMove DEF ReleaseCheck, MayRestore, Inv, Alive, Quiet, Counter, Window, Before, After,
       Working, Stopping, Restoring, Gone, Relies, Spares, Awaited
<1>6. CASE RestoreRead(c)
  BY <1>6, ControllerMove DEF RestoreRead, Counter, Window, Before, After,
       Working, Stopping, Restoring, Gone, Relies, Spares, Awaited
<1>7. CASE RestoreRenew(c)
  BY <1>7, ControllerMove DEF RestoreRenew, Counter, Window, Before, After,
       Working, Stopping, Restoring, Gone, Relies, Spares, Awaited
<1>8. CASE RestoreBack(c)
  BY <1>8, ControllerMove DEF RestoreBack, Counter, Window, Before, After,
       Working, Stopping, Restoring, Gone, Relies, Spares, Awaited
<1>9. CASE DeleteRequest(c)
  BY <1>9, ControllerMove DEF DeleteRequest, Counter, Window, Before, After,
       Working, Stopping, Restoring, Gone, Relies, Spares, Awaited
<1>10. CASE Skip(c)
  BY <1>10, ControllerMove DEF Skip, Counter, Window, Before, After,
       Working, Stopping, Restoring, Gone, Relies, Spares, Awaited
<1> QED
  BY <1>1, <1>2, <1>3, <1>4, <1>5, <1>6, <1>7, <1>8, <1>9, <1>10

-----------------------------------------------------------------------------
(* The cleaner between its requests                                        *)

(* Where a cleaner goes, and what it knows there.                          *)
LEMMA CleanerGoes ==
    ASSUME Inv, NEW k \in Cleaners, NEW l, pc' = [pc EXCEPT ![k] = l], Cleans(k),
           \/ Verify(k) \/ Busy(k) \/ CleanVerify(k) \/ CleanRead(k) \/ CleanStop(k)
           \/ CleanRenew(k) \/ CleanStopPoll(k) \/ CleanRestoreRead(k) \/ CleanFail(k)
    PROVE  /\ l \in Counter /\ l # "cstoppoll" /\ pc[k] # "done"
           /\ l \in Window => Holds(k)
           /\ l \in Cleaned => pc[k] \in Cleaned \cup {"cstoppoll"}
           /\ l \in Cleaned /\ Holds(k) => Halted
           /\ l \in {"crestorerenew", "crestore"} /\ Holds(k) => settings = target'[k]
           /\ Exact => l \in {"idle", "ready", "cverify", "cread", "unlock"}
           /\ Exact /\ l = "cread" /\ Holds(k) => settings = Durable
           /\ \/ target' = target
              \/ /\ target' = [target EXCEPT ![k] = settings]
                 /\ settings \in Controllers /\ Gone(settings)
<1>0. /\ k \in Actors /\ k \notin Controllers /\ pc \in [Actors -> Counter]
      /\ Durable \notin Controllers
  BY HandoffConstants DEF Actors, Inv, Shapes
<1> USE <1>0 DEF Goto, Counter, Window, Cleaned
<1>1. CASE Verify(k)
  BY <1>1 DEF Verify
<1>2. CASE Busy(k)
  BY <1>2 DEF Busy
<1>3. CASE CleanVerify(k)
  BY <1>3 DEF CleanVerify, Verifies, MayVerify, Cleans
<1>4. CASE CleanRead(k)
  BY <1>4 DEF CleanRead, RunOver, Cleans
<1>5. CASE CleanStop(k)
  BY <1>5 DEF CleanStop, Cleans
<1>6. CASE CleanRenew(k)
  BY <1>6 DEF CleanRenew, Cleans
<1>7. CASE CleanStopPoll(k)
  BY <1>7 DEF CleanStopPoll, Cleans
<1>8. CASE CleanRestoreRead(k)
  BY <1>8 DEF CleanRestoreRead, Cleans
<1>9. CASE CleanFail(k)
  BY <1>9 DEF CleanFail, Verifies
<1> QED
  BY <1>1, <1>2, <1>3, <1>4, <1>5, <1>6, <1>7, <1>8, <1>9

LEMMA CleanerKeeps ==
    ASSUME Inv, Punctual, NEW k \in Cleaners,
           \/ Verify(k) \/ Busy(k) \/ CleanVerify(k) \/ CleanRead(k) \/ CleanStop(k)
           \/ CleanRenew(k) \/ CleanStopPoll(k) \/ CleanRestoreRead(k) \/ CleanFail(k)
    PROVE  Inv'
<1> DEFINE l == pc'[k]
<1>1. k \in Actors /\ k \notin Controllers /\ Cleans(k) /\ Covered(k)
  BY HandoffConstants DEF Actors, Inv, Everyone
<1>2. UNCHANGED <<lease, leases, settings, site, order, runs, mine, owns, verifier, gaveUp>>
  BY DEF Verify, Busy, CleanVerify, CleanRead, CleanStop, CleanRenew, CleanStopPoll,
         CleanRestoreRead, CleanFail, cloud, flags, others
<1>3. pc' = [pc EXCEPT ![k] = l]
  BY <1>1 DEF Verify, Busy, CleanVerify, CleanRead, CleanStop, CleanRenew, CleanStopPoll,
         CleanRestoreRead, CleanFail, Goto, Inv, Shapes
<1> HIDE DEF l
<1>4. /\ l \in Counter /\ l # "cstoppoll" /\ pc[k] # "done"
      /\ l \in Window => Holds(k)
      /\ l \in Cleaned => pc[k] \in Cleaned \cup {"cstoppoll"}
      /\ l \in Cleaned /\ Holds(k) => Halted
      /\ l \in {"crestorerenew", "crestore"} /\ Holds(k) => settings = target'[k]
      /\ Exact => l \in {"idle", "ready", "cverify", "cread", "unlock"}
      /\ Exact /\ l = "cread" /\ Holds(k) => settings = Durable
      /\ \/ target' = target
         \/ /\ target' = [target EXCEPT ![k] = settings]
            /\ settings \in Controllers /\ Gone(settings)
  BY <1>1, <1>3, CleanerGoes
<1>5. /\ target' \in [Cleaners -> Controllers \cup {Durable}]
      /\ \A q \in Cleaners : q # k => target'[q] = target[q]
      /\ target'[k] # Durable => target'[k] \in Controllers /\ Gone(target'[k])
  BY <1>1, <1>4 DEF Inv, Shapes, Cleans
<1>6. pc'[k] = l /\ (Holds(k)' <=> Holds(k)) /\ (Halted' <=> Halted) /\ (Exact' <=> Exact)
  BY <1>1, <1>2, <1>3 DEF Holds, Halted, Exact, Inv, Shapes
<1>7. Covered(k)'
  BY <1>4, <1>6 DEF Covered
<1>8. \A c \in Controllers : Gone(c) => Gone(c)'
  BY <1>1, <1>3 DEF Gone, Actors, Inv, Shapes
<1>9. Cleans(k)'
  BY <1>1, <1>2, <1>4, <1>5, <1>6, <1>8 DEF Cleans
<1> QED
  BY <1>1, <1>2, <1>3, <1>4, <1>5, <1>7, <1>9, MoveKeeps DEF Goto, Gone, Inv, Shapes

-----------------------------------------------------------------------------
(* The lease                                                               *)

(* Nobody gains the lease, whoever loses it has no request under way, and  *)
(* at most one process starts over or ends.                                *)
LEMMA LeaseFades ==
    ASSUME Inv, NEW a \in Actors, NEW l \in {"idle", "done"},
           UNCHANGED <<leases, settings, site, order, runs, verifier, gaveUp>>,
           lease' \in {0, lease},
           \/ UNCHANGED <<pc, mine, target, owns>>
           \/ /\ Goto(a, l) /\ ~ Gone(a) /\ mine' = [mine EXCEPT ![a] = 0] /\ owns' = owns \ {a}
              /\ IF a \in Controllers THEN l # "idle" /\ target' = target
                 ELSE l = "idle" /\ target' = [target EXCEPT ![a] = Durable],
           \A b \in Actors : pc[b] \in Window => lease' = lease \/ pc'[b] \notin Window
    PROVE  Inv'
<1>0. a \in Controllers \/ a \in Cleaners
  BY DEF Actors
<1>a. /\ pc' \in [Actors -> Counter] /\ mine' \in [Actors -> Nat]
      /\ target' \in [Cleaners -> Controllers \cup {Durable}]
  <2>1. l \in Counter
    BY DEF Counter
  <2>2. CASE UNCHANGED <<pc, mine, target, owns>>
    BY <2>2 DEF Inv, Shapes
  <2>3. CASE /\ Goto(a, l) /\ mine' = [mine EXCEPT ![a] = 0]
             /\ target' = target \/ target' = [target EXCEPT ![a] = Durable]
    <3>2. target' \in [Cleaners -> Controllers \cup {Durable}]
      BY <2>3 DEF Inv, Shapes
    <3>3. pc' \in [Actors -> Counter] /\ mine' \in [Actors -> Nat]
      BY <2>1, <2>3 DEF Goto, Inv, Shapes
    <3> QED
      BY <3>2, <3>3
  <2> QED
    BY <2>2, <2>3
<1>b. /\ \A b \in Actors : pc'[b] = pc[b] \/ (b = a /\ pc'[b] = l /\ ~ Gone(b))
      /\ \A b \in Actors : mine'[b] = mine[b] \/ (mine'[b] = 0 /\ pc'[b] = l)
  BY DEF Goto, Inv, Shapes
<1>c. \A k \in Cleaners : (pc'[k] = pc[k] /\ target'[k] = target[k])
                             \/ (pc'[k] = "idle" /\ target'[k] = Durable)
  BY HandoffConstants DEF Goto, Inv, Shapes, Actors
<1>d. ASSUME NEW c \in Controllers
      PROVE  \/ pc'[c] = pc[c] /\ (c \in owns' <=> c \in owns)
             \/ pc'[c] = "done" /\ c \notin owns' /\ mine'[c] = 0
  <2>1. pc \in [Actors -> Counter] /\ mine \in [Actors -> Nat] /\ c \in Actors
    BY DEF Inv, Shapes, Actors
  <2>2. CASE UNCHANGED <<pc, mine, target, owns>>
    BY <2>2
  <2>3. CASE /\ pc' = [pc EXCEPT ![a] = l] /\ mine' = [mine EXCEPT ![a] = 0] /\ owns' = owns \ {a}
             /\ a \in Controllers => l = "done"
    BY <2>1, <2>3
  <2> QED
    BY <2>2, <2>3 DEF Goto
<1>e. owns' \subseteq owns
  OBVIOUS
<1>1. /\ pc' \in [Actors -> Counter] /\ mine' \in [Actors -> Nat]
      /\ target' \in [Cleaners -> Controllers \cup {Durable}]
      /\ \A b \in Actors : pc'[b] = pc[b] \/ (b = a /\ pc'[b] = l /\ ~ Gone(b))
      /\ \A b \in Actors : mine'[b] = mine[b] \/ (mine'[b] = 0 /\ pc'[b] = l)
      /\ \A k \in Cleaners : (pc'[k] = pc[k] /\ target'[k] = target[k])
                             \/ (pc'[k] = "idle" /\ target'[k] = Durable)
      /\ \A c \in Controllers : pc'[c] = pc[c] \/ pc'[c] = "done"
      /\ owns' \subseteq owns
  BY <1>a, <1>b, <1>c, <1>d, <1>e
<1>2. Shapes' /\ DurableIsStopped' /\ Alive'
  BY <1>1 DEF Inv, Shapes, DurableIsStopped, Alive, Halted, Settled, Exact
<1>3. Drawn'
  BY <1>1 DEF Inv, Shapes, Drawn
<1>4. \A b \in Actors : Holds(b)' => Holds(b)
  BY <1>1 DEF Holds
<1>5. ASSUME NEW b \in Actors PROVE Covered(b)'
  BY <1>1, HandoffConstants DEF Inv, Everyone, Covered, Holds, Window, Shapes
<1>6. ASSUME NEW c \in Controllers PROVE Relies(c)' /\ Spares(c)' /\ Awaited(c)'
  <2>1. /\ Relies(c) /\ Spares(c) /\ Awaited(c) /\ (Holds(c)' => Holds(c))
        /\ (Halted' <=> Halted) /\ (Quiet' <=> Quiet) /\ (Exact' <=> Exact)
    BY <1>4 DEF Inv, Everyone, Actors, Halted, Quiet, Exact
  <2>2. CASE pc'[c] = pc[c] /\ (c \in owns' <=> c \in owns)
    BY <2>1, <2>2 DEF Relies, Spares, Awaited
  <2>3. CASE pc'[c] = "done" /\ c \notin owns' /\ mine'[c] = 0
    <3>1. ~ Holds(c)'
      BY <2>3 DEF Holds
    <3> QED
      BY <2>3, <3>1 DEF Relies, Spares, Awaited, Before, Working, Restoring, Stopping
  <2> QED
    BY <1>d, <2>2, <2>3
<1>7. ASSUME NEW k \in Cleaners PROVE Cleans(k)'
  <2>1. Cleans(k) /\ (Holds(k)' => Holds(k)) /\ (Halted' <=> Halted) /\ (Exact' <=> Exact)
    BY <1>4 DEF Inv, Everyone, Actors, Halted, Exact
  <2>2. \A c \in Controllers : Gone(c) => Gone(c)'
    BY <1>1 DEF Gone
  <2> QED
    BY <1>1, <2>1, <2>2 DEF Cleans, Cleaned
<1> QED
  BY <1>2, <1>3, <1>5, <1>6, <1>7 DEF Inv, Everyone

(* What a process that ends or dies leaves behind.                         *)
LEMMA Forgotten ==
    ASSUME NEW a \in Actors, Forget(a)
    PROVE  \E l \in {"idle", "done"} :
               /\ Goto(a, l) /\ mine' = [mine EXCEPT ![a] = 0] /\ owns' = owns \ {a}
               /\ IF a \in Controllers THEN l # "idle" /\ target' = target
                  ELSE l = "idle" /\ target' = [target EXCEPT ![a] = Durable]
BY DEF Forget

LEMMA LeaseKeeps ==
    ASSUME Inv, Punctual, NEW a \in Actors,
           Lock(a) \/ Unlocked(a) \/ Crash(a) \/ Expire
    PROVE  Inv'
<1>1. CASE Lock(a)
  <2> DEFINE l == IF a \in Controllers THEN "post" ELSE "cverify"
  <2>1. /\ pc[a] = "ready" /\ lease = 0 /\ lease' = leases + 1 /\ leases' = leases + 1
        /\ mine' = [mine EXCEPT ![a] = leases + 1] /\ pc' = [pc EXCEPT ![a] = l]
        /\ UNCHANGED <<settings, site, order, runs, owns, target, verifier, gaveUp>>
    BY <1>1 DEF Lock, Goto, flags, others
  <2>2. l \in Counter /\ l \notin Window
    BY DEF Counter, Window
  <2>3. Shapes' /\ DurableIsStopped' /\ Alive'
    BY <2>1, <2>2 DEF Inv, Shapes, DurableIsStopped, Alive, Halted, Settled, Exact
  <2>4. Drawn'
    BY <2>1 DEF Inv, Shapes, Drawn
  <2>5. \A b \in Actors : ~ Holds(b) /\ pc[b] \notin Window
    BY <2>1 DEF Inv, Everyone, Covered, Holds
  <2>6. \A b \in Actors : b # a => ~ Holds(b)' /\ pc'[b] = pc[b]
    BY <2>1 DEF Inv, Shapes, Drawn, Holds
  <2>7. pc'[a] = l
    BY <2>1 DEF Inv, Shapes
  <2>8. \A b \in Actors : Covered(b)'
    BY <2>2, <2>5, <2>6, <2>7 DEF Covered
  <2>9. ASSUME NEW c \in Controllers PROVE Relies(c)' /\ Spares(c)' /\ Awaited(c)'
    <3>1. Relies(c) /\ Spares(c) /\ Awaited(c)
      BY DEF Inv, Everyone
    <3>2. CASE c = a
      BY <2>1, <2>7, <3>1, <3>2 DEF Relies, Spares, Awaited, Before, After, Working, Stopping,
                                    Restoring
    <3>3. CASE c # a
      <4>1. ~ Holds(c)' /\ pc'[c] = pc[c] /\ (Exact' <=> Exact)
        BY <2>1, <2>6, <3>3 DEF Actors, Exact
      <4> QED
        BY <2>1, <3>1, <4>1 DEF Relies, Spares, Awaited
    <3> QED
      BY <3>2, <3>3
  <2>10. ASSUME NEW k \in Cleaners PROVE Cleans(k)'
    <3>1. Cleans(k) /\ k \in Actors
      BY DEF Inv, Everyone, Actors
    <3>2. \A c \in Controllers : Gone(c) => Gone(c)'
      BY <2>1, <2>6 DEF Gone, Actors
    <3>3. CASE k = a
      BY <2>1, <2>7, <3>1, <3>2, <3>3, HandoffConstants DEF Cleans, Cleaned
    <3>4. CASE k # a
      BY <2>1, <2>6, <3>1, <3>2, <3>4 DEF Cleans, Exact
    <3> QED
      BY <3>3, <3>4
  <2> QED
    BY <2>3, <2>4, <2>8, <2>9, <2>10 DEF Inv, Everyone
<1>2. CASE Unlocked(a)
  <2>1. /\ pc[a] = "unlock" /\ Forget(a) /\ ~ Gone(a)
        /\ lease' \in {0, lease} /\ (lease' # lease => Holds(a))
        /\ UNCHANGED <<leases, settings, site, order, runs, verifier, gaveUp>>
    BY <1>2 DEF Unlocked, others, Gone
  <2>2. PICK l \in {"idle", "done"} :
               /\ Goto(a, l) /\ mine' = [mine EXCEPT ![a] = 0] /\ owns' = owns \ {a}
               /\ IF a \in Controllers THEN l # "idle" /\ target' = target
                  ELSE l = "idle" /\ target' = [target EXCEPT ![a] = Durable]
    BY <2>1, Forgotten
  <2>3. \A b \in Actors : pc[b] \in Window => lease' = lease \/ pc'[b] \notin Window
    <3>1. pc[a] \notin Window
      BY <2>1 DEF Window
    <3>2. \A b \in Actors : pc[b] \in Window => Holds(b)
      BY DEF Inv, Everyone, Covered
    <3> QED
      BY <2>1, <3>1, <3>2, OneHolder
  <2> QED
    BY <2>1, <2>2, <2>3, LeaseFades
<1>3. CASE Crash(a)
  <2>1. /\ Forget(a) /\ ~ Gone(a) /\ lease' = lease
        /\ UNCHANGED <<leases, settings, site, order, runs, verifier, gaveUp>>
    BY <1>3 DEF Crash, cloud, Gone
  <2>2. PICK l \in {"idle", "done"} :
               /\ Goto(a, l) /\ mine' = [mine EXCEPT ![a] = 0] /\ owns' = owns \ {a}
               /\ IF a \in Controllers THEN l # "idle" /\ target' = target
                  ELSE l = "idle" /\ target' = [target EXCEPT ![a] = Durable]
    BY <2>1, Forgotten
  <2> QED
    BY <2>1, <2>2, LeaseFades
<1>4. CASE Expire
  <2>1. /\ lease' = 0
        /\ UNCHANGED <<pc, mine, target, leases, settings, site, order, runs, owns, verifier, gaveUp>>
        /\ lease # 0 /\ \A b \in Actors : mine[b] = lease => pc[b] \in StallAt
    BY <1>4 DEF Expire, flags, others
  <2>2. \A b \in Actors : pc[b] \in Window => lease' = lease \/ pc'[b] \notin Window
    BY <2>1 DEF Punctual, Inv, Everyone, Covered, Holds
  <2> QED
    BY <2>1, <2>2, LeaseFades
<1> QED
  BY <1>1, <1>2, <1>3, <1>4

-----------------------------------------------------------------------------
(* The requests                                                            *)

(* Whoever sends a request holds the lease, and then nobody else does.     *)
LEMMA Sender ==
    ASSUME Inv, NEW a \in Actors, pc[a] \in Window
    PROVE  Holds(a) /\ \A b \in Actors : b # a => ~ Holds(b) /\ pc[b] \notin Window
<1>1. Holds(a)
  BY DEF Inv, Everyone, Covered
<1>2. ASSUME NEW b \in Actors, b # a PROVE ~ Holds(b) /\ pc[b] \notin Window
  BY <1>1, <1>2, OneHolder DEF Inv, Everyone, Covered
<1> QED
  BY <1>1, <1>2

(* A request of the holder: everybody else lost the lease.                 *)
LEMMA RequestKeeps ==
    ASSUME Inv, NEW a \in Actors, NEW l \in Counter \ Window, Goto(a, l), ~ Gone(a),
           pc[a] \in Window,
           UNCHANGED <<lease, leases, site, mine, owns, target, verifier, gaveUp>>,
           settings' \in Controllers \cup {Durable}, order' \in {"none", "start", "stop"},
           runs' \in Seq(Entry), DurableIsStopped', Alive',
           \/ settings' = settings
           \/ \A c \in Controllers : c # a => settings' # c /\ (c \in owns => pc[c] \in After),
           a \in Controllers => Relies(a)' /\ Spares(a)' /\ Awaited(a)',
           a \in Cleaners => Cleans(a)'
    PROVE  Inv'
<1>1. /\ pc' = [pc EXCEPT ![a] = l] /\ pc' \in [Actors -> Counter] /\ pc'[a] = l
      /\ \A b \in Actors : b # a => pc'[b] = pc[b]
  BY DEF Goto, Inv, Shapes
<1>2. Shapes' /\ Drawn'
  BY <1>1 DEF Inv, Shapes, Drawn
<1>3. \A b \in Actors : b # a => ~ Holds(b) /\ pc[b] \notin Window
  BY Sender
<1>4. \A b \in Actors : Covered(b)'
  BY <1>1, <1>3 DEF Covered
<1>5. ASSUME NEW c \in Controllers, c # a PROVE Relies(c)' /\ Spares(c)' /\ Awaited(c)'
  <2>1. /\ Relies(c) /\ Spares(c) /\ ~ Holds(c)' /\ pc'[c] = pc[c] /\ pc[c] \notin Window
        /\ (Exact' <=> Exact)
    BY <1>1, <1>3, <1>5 DEF Inv, Everyone, Holds, Actors, Exact
  <2> QED
    BY <1>5, <2>1, Knows DEF Relies, Spares, Awaited
<1>6. ASSUME NEW k \in Cleaners, k # a PROVE Cleans(k)'
  <2>1. Cleans(k) /\ ~ Holds(k)' /\ pc'[k] = pc[k] /\ pc[k] \notin Window
    BY <1>1, <1>3, <1>6 DEF Inv, Everyone, Holds, Actors
  <2>2. \A c \in Controllers : Gone(c) => Gone(c)'
    BY <1>1 DEF Gone, Actors
  <2> QED
    BY <2>1, <2>2 DEF Cleans, Exact
<1> QED
  BY <1>2, <1>4, <1>5, <1>6 DEF Inv, Everyone

(* PUT of the whole map.                                                   *)
LEMMA MapKeeps ==
    ASSUME Inv, Punctual,
           \/ \E c \in Controllers : Inject(c) \/ Restore(c)
           \/ \E k \in Cleaners : CleanRestore(k)
    PROVE  Inv'
<1>1. ASSUME NEW c \in Controllers, Inject(c) PROVE Inv'
  <2>1. /\ pc[c] = "inject" /\ Goto(c, "injectback") /\ settings = Durable
        /\ settings' \in {Durable, c} /\ ~ Gone(c)
        /\ UNCHANGED <<lease, leases, site, order, runs, mine, owns, target, verifier, gaveUp>>
        /\ c \in Actors /\ c \notin Cleaners /\ pc'[c] = "injectback" /\ c # Durable
    BY <1>1, HandoffConstants, Sender DEF Inject, PutSettings, flags, others, Inv, Everyone,
       Relies, Gone, Actors, Goto, Shapes, Window
  <2>2. Alive'
    BY <2>1 DEF Inv, Alive, Halted
  <2>3. DurableIsStopped' /\ settings' \in Controllers \cup {Durable}
        /\ order' \in {"none", "start", "stop"} /\ runs' \in Seq(Entry)
    BY <2>1 DEF DurableIsStopped, Halted, Settled, Exact, Inv, Shapes
  <2>a. gaveUp = {} => Halted /\ order # "start"
    BY <2>1 DEF Inv, DurableIsStopped, Settled
  <2>4. Relies(c)' /\ Spares(c)' /\ Awaited(c)'
    BY <2>1, <2>a, Knows DEF Relies, Spares, Awaited, Before, After, Working, Restoring, Stopping
  <2>5. \A d \in Controllers : d # c => settings' # d /\ (d \in owns => pc[d] \in After)
    BY <2>1, Knows DEF Relies
  <2>6. "injectback" \in Counter \ Window /\ "inject" \in Window
    BY DEF Counter, Window
  <2> QED
    BY <2>1, <2>2, <2>3, <2>4, <2>5, <2>6, RequestKeeps
<1>2. ASSUME NEW c \in Controllers, Restore(c) PROVE Inv'
  <2>1. /\ pc[c] = "restore" /\ Goto(c, "restoreback") /\ settings = c
        /\ settings' \in {Durable, c} /\ ~ Gone(c)
        /\ UNCHANGED <<lease, leases, site, order, runs, mine, owns, target, verifier, gaveUp>>
        /\ c \in Actors /\ c \notin Cleaners /\ pc'[c] = "restoreback" /\ c # Durable
    BY <1>2, HandoffConstants, Sender DEF Restore, PutSettings, flags, others, Inv, Everyone,
       Relies, Gone, Actors, Goto, Shapes, Window
  <2>2. Holds(c) /\ Quiet /\ ~ Exact /\ (gaveUp = {} => Halted /\ order # "start")
    BY <2>1, Sender, Knows DEF Relies, Spares, Awaited, Window, Restoring
  <2>3. Alive'
    BY <2>1, <2>2 DEF Alive, Quiet
  <2>4. DurableIsStopped' /\ settings' \in Controllers \cup {Durable}
        /\ order' \in {"none", "start", "stop"} /\ runs' \in Seq(Entry)
    BY <2>1, <2>2 DEF DurableIsStopped, Halted, Settled, Exact, Inv, Shapes
  <2>5. Relies(c)' /\ Spares(c)' /\ Awaited(c)'
    BY <2>1, <2>2, Knows DEF Relies, Spares, Awaited, Exact, Before, After, Working, Restoring
  <2>6. \A d \in Controllers : d # c => settings' # d /\ (d \in owns => pc[d] \in After)
    BY <2>1, Knows DEF Relies
  <2>7. "restoreback" \in Counter \ Window /\ "restore" \in Window
    BY DEF Counter, Window
  <2> QED
    BY <2>1, <2>3, <2>4, <2>5, <2>6, <2>7, RequestKeeps
<1>3. ASSUME NEW k \in Cleaners, CleanRestore(k) PROVE Inv'
  <2>1. /\ pc[k] = "crestore" /\ Goto(k, "unlock") /\ settings = target[k]
        /\ settings' \in {Durable, settings} /\ ~ Gone(k) /\ Cleans(k)
        /\ UNCHANGED <<lease, leases, site, order, runs, mine, owns, target, verifier, gaveUp>>
        /\ k \in Actors /\ k \notin Controllers /\ pc'[k] = "unlock"
    BY <1>3, HandoffConstants, Sender DEF CleanRestore, PutSettings, flags, others, Inv,
       Everyone, Cleans, Gone, Actors, Goto, Shapes, Window
  <2>2. Holds(k) /\ Halted /\ order # "start"
    BY <2>1, Sender DEF Cleans, Window, Cleaned
  <2>3. Alive'
    BY <2>1, <2>2 DEF Inv, Alive, Halted
  <2>4. DurableIsStopped' /\ settings' \in Controllers \cup {Durable}
        /\ order' \in {"none", "start", "stop"} /\ runs' \in Seq(Entry)
    BY <2>1, <2>2 DEF DurableIsStopped, Halted, Inv, Shapes
  <2>5. Cleans(k)'
    <3>1. \A c \in Controllers : Gone(c) => Gone(c)'
      BY <2>1 DEF Gone, Goto, Inv, Shapes, Actors
    <3> QED
      BY <2>1, <3>1 DEF Cleans, Cleaned
  <2>6. \A d \in Controllers : settings' = Durable => settings' # d /\ (d \in owns => pc[d] \in After)
    BY <2>1, Knows DEF Relies, Cleans, Gone, After
  <2>7. "unlock" \in Counter \ Window /\ "crestore" \in Window
    BY DEF Counter, Window
  <2> QED
    BY <2>1, <2>3, <2>4, <2>5, <2>6, <2>7, RequestKeeps
<1> QED
  BY <1>1, <1>2, <1>3

(* POST start, stop or run.                                                *)
LEMMA PostKeeps ==
    ASSUME Inv, Punctual,
           \/ \E c \in Controllers : StartPost(c) \/ StopPost(c) \/ RunPost(c)
           \/ \E k \in Cleaners : CleanStopPost(k)
    PROVE  Inv'
<1>1. ASSUME NEW c \in Controllers, StartPost(c) PROVE Inv'
  <2>1. /\ pc[c] = "startpost" /\ Goto(c, "startpoll") /\ order' \in {order, "start"} /\ ~ Gone(c)
        /\ UNCHANGED <<lease, leases, site, settings, runs, mine, owns, target, verifier, gaveUp>>
        /\ c \in Actors /\ c \notin Cleaners /\ pc'[c] = "startpoll"
    BY <1>1, HandoffConstants DEF StartPost, Post, flags, others, Gone, Actors, Goto, Inv, Shapes
  <2>2. /\ settings = c /\ c # Durable /\ c \in owns /\ Holds(c)
        /\ gaveUp = {} => Halted
    BY <2>1, Knows, Sender DEF Relies, After, Working, Window
  <2>3. DurableIsStopped' /\ Alive' /\ settings' \in Controllers \cup {Durable}
        /\ order' \in {"none", "start", "stop"} /\ runs' \in Seq(Entry)
    BY <2>1, <2>2 DEF DurableIsStopped, Alive, Halted, Inv, Shapes
  <2>4. Relies(c)' /\ Spares(c)' /\ Awaited(c)'
    BY <2>1, <2>2 DEF Relies, Spares, Awaited, Before, After, Working, Restoring, Stopping, Halted
  <2>5. "startpoll" \in Counter \ Window /\ "startpost" \in Window
    BY DEF Counter, Window
  <2> QED
    BY <2>1, <2>3, <2>4, <2>5, RequestKeeps
<1>2. ASSUME NEW c \in Controllers, StopPost(c) PROVE Inv'
  <2> DEFINE l == pc'[c]
  <2>1. /\ pc[c] \in {"stoppost", "estoppost"} /\ l \in {"stoppoll", "estoppoll", "unlock"}
        /\ l = "stoppoll" => pc[c] = "stoppost"
        /\ Goto(c, l) /\ order' \in {order, "stop"} /\ ~ Gone(c)
        /\ UNCHANGED <<lease, leases, site, settings, runs, mine, owns, target, verifier, gaveUp>>
        /\ c \in Actors /\ c \notin Cleaners
    BY <1>2, HandoffConstants DEF StopPost, Post, flags, others, Gone, Actors, Goto, Inv, Shapes
  <2>2. Relies(c) /\ Spares(c) /\ Awaited(c) /\ c # Durable /\ Holds(c)
    BY <2>1, Knows, Sender DEF Window
  <2>3. DurableIsStopped' /\ Alive' /\ settings' \in Controllers \cup {Durable}
        /\ order' \in {"none", "start", "stop"} /\ runs' \in Seq(Entry)
    BY <2>1 DEF DurableIsStopped, Alive, Halted, Settled, Exact, Inv, Shapes
  <2>4. Relies(c)' /\ Spares(c)' /\ Awaited(c)'
    BY <2>1, <2>2 DEF Relies, Spares, Awaited, Before, After, Working, Restoring, Stopping,
                      Halted, Exact
  <2>5. l \in Counter \ Window /\ pc[c] \in Window
    BY <2>1 DEF Counter, Window
  <2> HIDE DEF l
  <2> QED
    BY <2>1, <2>3, <2>4, <2>5, RequestKeeps
<1>3. ASSUME NEW c \in Controllers, RunPost(c) PROVE Inv'
  <2> DEFINE e == [serves |-> settings, status |-> "running"]
  <2>1. /\ pc[c] = "runpost" /\ Goto(c, "runpoll") /\ ~ Gone(c)
        /\ runs' = runs \/ (runs' = Append(runs, e) /\ site = "Running")
        /\ UNCHANGED <<lease, leases, site, settings, order, mine, owns, target, verifier, gaveUp>>
        /\ c \in Actors /\ c \notin Cleaners /\ pc'[c] = "runpoll"
    BY <1>3, HandoffConstants DEF RunPost, flags, others, Gone, Actors, Goto, Inv, Shapes
  <2>2. Relies(c) /\ Spares(c) /\ Awaited(c) /\ c # Durable /\ Holds(c) /\ settings = c
    BY <2>1, Knows, Sender DEF Window, Working, Relies, After
  <2>3. runs \in Seq(Entry) /\ e \in Entry /\ e.serves = settings
    BY DEF Inv, Shapes, Entry
  <2>4. runs' \in Seq(Entry)
    BY <2>1, <2>3
  <2>5. Alive'
    <3>1. CASE runs' = runs
      BY <2>1, <3>1 DEF Inv, Alive, Halted
    <3>2. CASE runs' = Append(runs, e) /\ site = "Running"
      <4> HIDE DEF e
      <4>1. \A i \in DOMAIN runs' : (i \in DOMAIN runs /\ runs'[i] = runs[i]) \/ runs'[i] = e
        BY <2>3, <3>2
      <4> QED
        BY <2>1, <2>2, <2>3, <3>2, <4>1 DEF Inv, Alive, Halted
    <3> QED
      BY <2>1, <3>1, <3>2
  <2>6. DurableIsStopped' /\ settings' \in Controllers \cup {Durable}
        /\ order' \in {"none", "start", "stop"}
    BY <2>1, <2>2 DEF DurableIsStopped, Halted, Inv, Shapes
  <2>7. Relies(c)' /\ Spares(c)' /\ Awaited(c)'
    BY <2>1, <2>2 DEF Relies, Spares, Awaited, Before, After, Working, Restoring, Stopping, Halted
  <2>8. "runpoll" \in Counter \ Window /\ "runpost" \in Window
    BY DEF Counter, Window
  <2> QED
    BY <2>1, <2>4, <2>5, <2>6, <2>7, <2>8, RequestKeeps
<1>4. ASSUME NEW k \in Cleaners, CleanStopPost(k) PROVE Inv'
  <2> DEFINE l == pc'[k]
  <2>1. /\ pc[k] = "cstoppost" /\ Goto(k, l) /\ ~ Gone(k) /\ Cleans(k)
        /\ (l = "cstoppoll" /\ order' = "stop") \/ (l = "unlock" /\ order' = order)
        /\ UNCHANGED <<lease, leases, site, settings, runs, mine, owns, target, verifier, gaveUp>>
        /\ k \in Actors /\ k \notin Controllers
    BY <1>4, HandoffConstants DEF CleanStopPost, flags, others, Gone, Actors, Goto, Inv, Shapes, Everyone
  <2>2. DurableIsStopped' /\ Alive' /\ settings' \in Controllers \cup {Durable}
        /\ order' \in {"none", "start", "stop"} /\ runs' \in Seq(Entry)
    BY <2>1 DEF DurableIsStopped, Alive, Halted, Settled, Exact, Inv, Shapes
  <2>3. Cleans(k)'
    <3>1. \A c \in Controllers : Gone(c) => Gone(c)'
      BY <2>1 DEF Gone, Goto, Inv, Shapes, Actors
    <3>2. ~ Exact /\ ~ Exact'
      BY <2>1 DEF Cleans, Exact
    <3> QED
      BY <2>1, <3>1, <3>2 DEF Cleans, Cleaned
  <2>4. l \in Counter \ Window /\ "cstoppost" \in Window
    BY <2>1 DEF Counter, Window
  <2> HIDE DEF l
  <2> QED
    BY <2>1, <2>2, <2>3, <2>4, RequestKeeps
<1> QED
  BY <1>1, <1>2, <1>3, <1>4

-----------------------------------------------------------------------------
(* App Service                                                             *)

(* What the history becomes when every entry keeps its map, and none comes *)
(* to life again.                                                          *)
LEMMA HistoryKeeps ==
    ASSUME runs \in Seq(Entry), Alive, DOMAIN runs' = DOMAIN runs,
           runs' = [i \in DOMAIN runs |-> runs'[i]],
           \A i \in DOMAIN runs : runs'[i] \in Entry /\ runs'[i].serves = runs[i].serves,
           \A i \in DOMAIN runs : runs'[i].status = "running" =>
               runs[i].status = "running" /\ ~ Halted' /\ settings' = settings
    PROVE  runs' \in Seq(Entry) /\ Alive'
<1>1. DOMAIN runs = 1 .. Len(runs) /\ Len(runs) \in Nat
  OBVIOUS
<1>2. runs' \in [1 .. Len(runs) -> Entry]
  BY <1>1
<1>3. runs' \in Seq(Entry)
  BY <1>1, <1>2, SeqDef
<1>4. Alive'
  BY DEF Alive
<1> QED
  BY <1>3, <1>4

LEMMA SiteKeeps ==
    ASSUME Inv, Punctual, Obey \/ Started \/ Stopped
    PROVE  Inv'
<1>1. /\ UNCHANGED <<lease, leases, settings, pc, mine, owns, target, verifier, gaveUp>>
      /\ site' \in {"Stopped", "Starting", "Running", "Stopping"}
      /\ order' \in {"none", order} /\ order' \in {"none", "start", "stop"}
  BY DEF Obey, Started, Stopped, flags, others, Inv, Shapes, Halted
<1>2. /\ Halted' => Halted \/ Stopped
      /\ Halted /\ ~ Halted' => order = "start" /\ order' = "none"
  BY DEF Obey, Started, Stopped, Halted
<1>3. runs' \in Seq(Entry) /\ Alive' /\ (Quiet => Quiet')
  <2>1. CASE Obey \/ Started
    <3>1. runs' = runs /\ (Halted' => Halted)
      BY <2>1 DEF Obey, Started, Halted
    <3> QED
      BY <1>1, <3>1 DEF Inv, Shapes, Alive, Quiet
  <2>2. CASE Stopped
    <3>1. /\ DOMAIN runs' = DOMAIN runs /\ runs' = [i \in DOMAIN runs |-> runs'[i]]
          /\ \A i \in DOMAIN runs :
                runs'[i] = IF runs[i].status = "running"
                           THEN [runs[i] EXCEPT !.status = "Aborted"] ELSE runs[i]
      BY <2>2 DEF Stopped
    <3>2. \A i \in DOMAIN runs : runs[i] \in Entry
      BY DEF Inv, Shapes
    <3>3. \A i \in DOMAIN runs : /\ runs'[i] \in Entry /\ runs'[i].serves = runs[i].serves
                                 /\ runs'[i].status # "running"
      BY <3>1, <3>2 DEF Entry
    <3> QED
      BY <3>1, <3>3, HistoryKeeps DEF Inv, Shapes, Quiet
  <2> QED
    BY <2>1, <2>2
<1>4. DurableIsStopped'
  BY <1>1, <1>2 DEF Inv, DurableIsStopped, Settled, Exact
<1>5. \A a \in Actors : Covered(a)' /\ (Holds(a)' <=> Holds(a))
  BY <1>1 DEF Inv, Everyone, Covered, Holds
<1>6. ASSUME NEW c \in Controllers PROVE Relies(c)' /\ Spares(c)' /\ Awaited(c)'
  <2>1. /\ Relies(c) /\ Spares(c) /\ Awaited(c) /\ Covered(c) /\ (Holds(c)' <=> Holds(c))
        /\ (Exact' <=> Exact)
    BY <1>1, <1>5 DEF Inv, Everyone, Actors, Exact
  <2>2. pc[c] \in {"startrenew", "startpost"} => c \in owns /\ settings = c
    BY <2>1 DEF Relies, Working, After
  <2>3. Awaited(c)' /\ Spares(c)'
    BY <1>1, <1>2, <2>1 DEF Awaited, Spares
  <2>4. pc[c] \in {"startrenew", "startpost"} \cup Restoring => pc[c] # "startpoll"
    BY DEF Restoring
  <2>5. Relies(c)'
    BY <1>1, <1>2, <1>3, <2>1, <2>2, <2>4 DEF Relies, Awaited
  <2> QED
    BY <2>3, <2>5
<1>7. ASSUME NEW k \in Cleaners PROVE Cleans(k)'
  <2>1. Cleans(k) /\ (Holds(k)' <=> Holds(k)) /\ (Exact' <=> Exact)
    BY <1>1, <1>5 DEF Inv, Everyone, Actors, Exact
  <2>2. \A c \in Controllers : Gone(c) => Gone(c)'
    BY <1>1 DEF Gone
  <2> QED
    BY <1>1, <1>2, <2>1, <2>2 DEF Cleans
<1>8. Shapes' /\ Drawn'
  BY <1>1, <1>3 DEF Inv, Shapes, Drawn
<1> QED
  BY <1>3, <1>4, <1>5, <1>6, <1>7, <1>8 DEF Inv, Everyone

LEMMA RunEndsKeeps ==
    ASSUME Inv, NEW i \in DOMAIN runs, RunEnds(i)
    PROVE  Inv'
<1>1. /\ UNCHANGED <<lease, leases, settings, site, order, pc, mine, owns, target, verifier, gaveUp>>
      /\ \E s \in Final : runs' = [runs EXCEPT ![i].status = s]
  BY DEF RunEnds, flags, others, Final
<1>2. PICK s \in Final : runs' = [runs EXCEPT ![i].status = s]
  BY <1>1
<1>3. runs \in Seq(Entry) /\ \A j \in DOMAIN runs : runs[j] \in Entry
  BY DEF Inv, Shapes
<1>4. /\ DOMAIN runs' = DOMAIN runs /\ runs' = [j \in DOMAIN runs |-> runs'[j]]
      /\ \A j \in DOMAIN runs : j # i => runs'[j] = runs[j]
      /\ runs'[i] = [runs[i] EXCEPT !.status = s]
  BY <1>2, <1>3
<1>5. runs'[i] \in Entry /\ runs'[i].serves = runs[i].serves /\ runs'[i].status # "running"
  BY <1>3, <1>4 DEF Entry, Final
<1>6. runs' \in Seq(Entry) /\ Alive' /\ (Quiet => Quiet')
  <2>1. \A j \in DOMAIN runs : runs[j].status = "running" => ~ Halted'
    BY <1>1 DEF Inv, Alive, Halted
  <2> QED
    BY <1>1, <1>3, <1>4, <1>5, <2>1, HistoryKeeps DEF Inv, Quiet
<1> QED
  <2>1. \A a \in Actors : Covered(a)' /\ (Holds(a)' <=> Holds(a))
    BY <1>1 DEF Inv, Everyone, Covered, Holds
  <2>2. Shapes' /\ Drawn' /\ DurableIsStopped' /\ (Halted' <=> Halted) /\ (Exact' <=> Exact)
    BY <1>1, <1>6 DEF Inv, Shapes, Drawn, DurableIsStopped, Settled, Halted, Exact
  <2>3. ASSUME NEW c \in Controllers PROVE Relies(c)' /\ Spares(c)' /\ Awaited(c)'
    <3>1. Holds(c)' <=> Holds(c)
      BY <2>1 DEF Actors
    <3>2. Relies(c)'
      BY <1>1, <1>6, <2>2, <3>1, Knows DEF Relies
    <3> QED
      BY <1>1, <2>2, <3>1, <3>2, Knows DEF Spares, Awaited
  <2>4. ASSUME NEW k \in Cleaners PROVE Cleans(k)'
    <3>1. Cleans(k) /\ (Holds(k)' <=> Holds(k))
      BY <2>1 DEF Inv, Everyone, Actors
    <3>2. \A c \in Controllers : Gone(c) => Gone(c)'
      BY <1>1 DEF Gone
    <3> QED
      BY <1>1, <2>2, <3>1, <3>2 DEF Cleans
  <2> QED
    BY <1>6, <2>1, <2>2, <2>3, <2>4 DEF Inv, Everyone

LEMMA NextKeeps == ASSUME Inv, Punctual, [Next]_vars PROVE Inv'
<1>1. CASE Next
  <2>1. ASSUME NEW c \in Controllers, Handoff(c) PROVE Inv'
    BY <2>1, AcquireKeeps, CleanupKeeps, LeaseKeeps, MapKeeps, PostKeeps DEF Handoff, Actors
  <2>2. ASSUME NEW k \in Cleaners, Clean(k) PROVE Inv'
    BY <2>2, CleanerKeeps, LeaseKeeps, MapKeeps, PostKeeps DEF Clean, Actors
  <2>3. ASSUME NEW a \in Actors, Crash(a) PROVE Inv'
    BY <2>3, LeaseKeeps
  <2>4. CASE Expire
    <3>1. CASE Actors = {}
      <4>1. \A k \in Cleaners : FALSE
        BY <3>1 DEF Actors
      <4> QED
        BY <2>4, <3>1, <4>1 DEF Expire, flags, others, Inv, Shapes, Drawn, Everyone, Alive,
           DurableIsStopped, Settled, Exact, Halted, Actors
    <3>2. CASE Actors # {}
      BY <2>4, <3>2, LeaseKeeps
    <3> QED
      BY <3>1, <3>2
  <2>5. CASE Cloud
    BY <2>5, SiteKeeps, RunEndsKeeps DEF Cloud
  <2> QED
    BY <1>1, <2>1, <2>2, <2>3, <2>4, <2>5 DEF Next
<1>2. CASE UNCHANGED vars
  BY <1>2 DEF vars, cloud, flags, others, Inv, Shapes, Drawn, Everyone, Covered, Relies, Spares,
              Awaited, Cleans, Holds, Halted, Quiet, Gone, DurableIsStopped, Settled, Exact, Alive
<1> QED
  BY <1>1, <1>2

-----------------------------------------------------------------------------
(* The variables that the argument does not need, and the bounds.          *)
Bounded ==
    /\ lease \in 0..MaxLeases /\ leases \in 0..MaxLeases
    /\ mine \in [Actors -> 0..MaxLeases]
    /\ requests \subseteq Controllers /\ results \subseteq Controllers
    /\ started \subseteq Controllers /\ asked \subseteq Controllers
    /\ before \in [Controllers -> Nat] /\ crashes \in 0..MaxCrashes
    /\ verifier \in Verifiers /\ gaveUp \subseteq Controllers

LEMMA BoundedKeeps == ASSUME Inv, Bounded, [Next]_vars PROVE Bounded'
<1> USE HandoffConstants DEF Bounded
<1>1. ASSUME NEW a \in Actors, Lock(a) \/ Unlocked(a) \/ Crash(a) PROVE Bounded'
  <2>1. UNCHANGED <<requests, results, verifier, gaveUp>>
    BY <1>1 DEF Lock, Unlocked, Crash, cloud, others
  <2>2. crashes' \in 0..MaxCrashes
    BY <1>1 DEF Lock, Unlocked, Crash, others
  <2>3. CASE Lock(a)
    BY <2>1, <2>2, <2>3 DEF Lock, flags
  <2>4. CASE Unlocked(a) \/ Crash(a)
    <3>1. leases' = leases /\ lease' \in {0, lease} /\ Forget(a)
      BY <2>4 DEF Unlocked, Crash, cloud
    <3>2. /\ mine' = [mine EXCEPT ![a] = 0] /\ started' \subseteq started /\ asked' \subseteq asked
          /\ before' = before \/ before' = [before EXCEPT ![a] = 0]
      BY <3>1 DEF Forget
    <3> QED
      BY <2>1, <2>2, <3>1, <3>2
  <2> QED
    BY <1>1, <2>3, <2>4
<1>2. ASSUME NEW c \in Controllers, Handoff(c), ~ Lock(c), ~ Unlocked(c) PROVE Bounded'
  <2>1. UNCHANGED <<lease, leases, mine, results, verifier, crashes>>
    BY <1>2 DEF Handoff, Verify, Busy, PutRequest, Seal, InjectRead, InjectRenew, Inject,
       InjectBack, StartCheck, StartRenew, StartPost, StartPoll, RunRead, RunPost, RunPoll, Result,
       Fail, Reverify, StopCheck, EmergencyCheck, StopPost, StopPoll, ReleaseCheck, RestoreRead,
       RestoreRenew, Restore, RestoreBack, DeleteRequest, Skip, cloud, flags, others
  <2>2. requests' \subseteq Controllers /\ started' \subseteq Controllers /\ asked' \subseteq Controllers
    BY <1>2 DEF Handoff, Verify, Busy, PutRequest, Seal, InjectRead, InjectRenew, Inject,
       InjectBack, StartCheck, StartRenew, StartPost, StartPoll, RunRead, RunPost, RunPoll, Result,
       Fail, Reverify, StopCheck, EmergencyCheck, StopPost, StopPoll, ReleaseCheck, RestoreRead,
       RestoreRenew, Restore, RestoreBack, DeleteRequest, Skip, cloud, flags, others
  <2>3. /\ before' = before \/ before' = [before EXCEPT ![c] = Len(runs)]
        /\ gaveUp' \subseteq gaveUp \cup {c}
    BY <1>2 DEF Handoff, Verify, Busy, PutRequest, Seal, InjectRead, InjectRenew, Inject,
       InjectBack, StartCheck, StartRenew, StartPost, StartPoll, RunRead, RunPost, RunPoll, Result,
       Fail, Reverify, StopCheck, EmergencyCheck, StopPost, StopPoll, ReleaseCheck, RestoreRead,
       RestoreRenew, Restore, RestoreBack, DeleteRequest, Skip, cloud, flags, others
  <2>4. Len(runs) \in Nat
    BY DEF Inv, Shapes
  <2> QED
    BY <2>1, <2>2, <2>3, <2>4
<1>3. ASSUME NEW k \in Cleaners, Clean(k), ~ Lock(k), ~ Unlocked(k) PROVE Bounded'
  BY <1>3 DEF Clean, Verify, Busy, CleanVerify, CleanRead, CleanStop, CleanRenew,
     CleanStopPost, CleanStopPoll, CleanRestoreRead, CleanRestore, CleanFail, cloud, flags, others
<1>4. CASE Expire
  BY <1>4 DEF Expire, flags, others
<1>5. CASE Obey \/ Started \/ Stopped
  BY <1>5 DEF Obey, Started, Stopped, flags, others
<1>6. ASSUME NEW i \in DOMAIN runs, RunEnds(i) PROVE Bounded'
  BY <1>6 DEF RunEnds, flags, others
<1>7. CASE UNCHANGED vars
  BY <1>7 DEF vars, cloud, flags, others
<1> QED
  BY <1>1, <1>2, <1>3, <1>4, <1>5, <1>6, <1>7 DEF Next, Handoff, Clean, Cloud, Actors

(* The map of a controller stays while it relies on it, a run never        *)
(* outlives its map, and without a transient map the bridge is stopped and *)
(* stays so (_run_bridge and cleanup_expired_transient).                   *)
THEOREM OwnerSafe ==
    ASSUME Punctual
    PROVE  Spec => []HandoffSafe
<1>1. Inv => OwnerKeepsMap /\ RunUnderItsMap /\ DurableIsStopped
  BY DEF Inv, Everyone, Relies, After, OwnerKeepsMap, RunUnderItsMap, Alive, Gone, Shapes
<1>2. Inv /\ Bounded => TypeOK
  <2>1. Inv => \A i \in DOMAIN runs : runs[i] \in Entry
    BY DEF Inv, Shapes
  <2> QED
    BY <2>1 DEF Inv, Shapes, Bounded, TypeOK, Entry
<1>3. Inv /\ Bounded => HandoffSafe
  BY <1>1, <1>2 DEF HandoffSafe
<1>4. Init => Inv /\ Bounded
  BY InitInv, HandoffConstants DEF Init, Bounded
<1>5. Inv /\ Bounded /\ [Next]_vars => Inv' /\ Bounded'
  BY NextKeeps, BoundedKeeps
<1> QED
  BY <1>3, <1>4, <1>5, PTL DEF Spec

(* The full map is only written by the holder of the lease, and over the   *)
(* map its writer read (assert_held and the settings client).              *)
LEMMA StepUnderLease ==
    ASSUME Inv, [Next]_vars, settings' # settings
    PROVE  /\ \E a \in Actors :
                /\ Holds(a) /\ pc'[a] # pc[a]
                /\ \/ pc[a] = "inject" /\ settings = Durable /\ settings' = a
                   \/ pc[a] = "restore" /\ settings = a /\ settings' = Durable
                   \/ pc[a] = "crestore" /\ settings = target[a] /\ settings' = Durable
           /\ Settled /\ settings = Durable => site = "Stopped"
<1>1. \/ \E c \in Controllers : Inject(c) \/ Restore(c)
      \/ \E k \in Cleaners : CleanRestore(k)
  BY DEF Next, Handoff, Clean, Cloud, vars, cloud, Verify, Lock, Busy, PutRequest, Seal,
         InjectRead, InjectRenew, InjectBack, StartCheck, StartRenew, StartPost, StartPoll,
         RunRead, RunPost, RunPoll, Result, Fail, Reverify, StopCheck, EmergencyCheck, StopPost,
         StopPoll, ReleaseCheck, RestoreRead, RestoreRenew, RestoreBack, DeleteRequest, Skip,
         Unlocked, CleanVerify, CleanRead, CleanStop, CleanRenew, CleanStopPost, CleanStopPoll,
         CleanRestoreRead, CleanFail, Crash, Expire, Obey, Started, Stopped, RunEnds
<1>2. Settled /\ settings = Durable => site = "Stopped"
  BY DEF Inv, DurableIsStopped, Halted
<1>3. ASSUME NEW c \in Controllers, Inject(c) \/ Restore(c)
      PROVE  /\ c \in Actors /\ Holds(c) /\ pc'[c] # pc[c]
             /\ \/ pc[c] = "inject" /\ settings = Durable /\ settings' = c
                \/ pc[c] = "restore" /\ settings = c /\ settings' = Durable
  <2>1. c \in Actors /\ pc[c] \in {"inject", "restore"} /\ pc'[c] # pc[c]
    BY <1>3 DEF Inject, Restore, Goto, Actors, Inv, Shapes
  <2>2. Holds(c)
    BY <2>1, Sender DEF Window
  <2> QED
    BY <1>3, <2>1, <2>2, Knows DEF Inject, Restore, PutSettings, Relies
<1>4. ASSUME NEW k \in Cleaners, CleanRestore(k)
      PROVE  /\ k \in Actors /\ Holds(k) /\ pc'[k] # pc[k]
             /\ pc[k] = "crestore" /\ settings = target[k] /\ settings' = Durable
  <2>1. k \in Actors /\ pc[k] = "crestore" /\ pc'[k] # pc[k] /\ Cleans(k)
    BY <1>4 DEF CleanRestore, Goto, Actors, Inv, Shapes, Everyone
  <2>2. Holds(k)
    BY <2>1, Sender DEF Window
  <2> QED
    BY <1>4, <2>1, <2>2 DEF CleanRestore, PutSettings, Cleans
<1> QED
  BY <1>1, <1>2, <1>3, <1>4

(* A lost lease prevents the mutation, and the token enters a stopped      *)
(* bridge only (ControllerLease.assert_held, BridgeLease.acquire).         *)
THEOREM LeaseSafe ==
    ASSUME Punctual PROVE Spec => HandoffSteps
<1>1. Inv /\ [Next]_vars => Inv'
  BY NextKeeps
<1>2. Inv /\ [Next]_vars =>
        [settings' # settings =>
          \E a \in Actors :
              /\ Holds(a) /\ pc'[a] # pc[a]
              /\ \/ pc[a] = "inject" /\ settings = Durable /\ settings' = a
                 \/ pc[a] = "restore" /\ settings = a /\ settings' = Durable
                 \/ pc[a] = "crestore" /\ settings = target[a]
                                      /\ settings' = Durable]_vars
  BY StepUnderLease
<1>3. Inv /\ [Next]_vars =>
        [(Settled /\ settings = Durable /\ settings' # Durable)
            => site = "Stopped"]_vars
  BY StepUnderLease
<1> QED
  BY InitInv, <1>1, <1>2, <1>3, PTL DEF Spec, HandoffSteps, MapUnderLease, InjectStopped
===============================================================================
