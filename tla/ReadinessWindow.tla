---------------------------- MODULE ReadinessWindow ----------------------------
(***************************************************************************)
(* The timed loops of the bootstrap: a role that was just assigned is      *)
(* waited for with reads ("package", "fence", "controller", "key"), then   *)
(* the one conditional create is tried; a creation whose answer was lost   *)
(* is waited for before it is called absent ("assignment").  Each loop has *)
(* a boundary in time which the review fixed, one last observation at that *)
(* boundary, and behind it the reserve of the cleanup.                     *)
(*                                                                         *)
(* Time is counted in ticks.  Two readings of the clock in a row are late  *)
(* ticks apart, and so is the end of a sleep from the time it was set for. *)
(***************************************************************************)
EXTENDS Integers

CONSTANTS
    Second,     \* ticks of a second
    Kinds,      \* the loops
    Hards,      \* the times at which the reserve of the cleanup begins
    Grants,     \* <<read, write>>: when the service grants them
    Latencies,  \* of a request with its credential: up to 90 seconds
    Lates,      \* ticks between two readings of the clock
    MaxLost     \* bound: lost answers of one loop

VARIABLES
    kind, hard, grant, late,  \* the circumstances
    clock,     \* ticks since the loop began
    pc,        \* "start", "look", "asked", "put", "putting", or an end
    attempts,  \* requests of the loop
    lost,      \* lost answers
    why        \* of a failure

vars == <<kind, hard, grant, late, clock, pc, attempts, lost, why>>
Ends == {"failed", "created", "read", "exact", "absent"}

Seconds(n) == n * Second
Least(a, b) == IF a <= b THEN a ELSE b
Reserve  == Seconds(90)
Slack    == Seconds(1)
Attempts == 64

(* The boundary up to which the service may take its time.                 *)
Boundary == Seconds(CASE kind = "package"    -> 1800
                      [] kind = "assignment" -> 120
                      [] OTHER               -> 600)

(* The lease and the removal of the blob come out of the controller's time.*)
CanaryCleanup == 21 * Reserve + Seconds(4 * 7 + 60 + 30)
CreateDeadline == IF kind = "controller" THEN hard - CanaryCleanup ELSE hard - Reserve

(* Mutant: nothing is kept for the requests that follow.                   *)
WorkForOne == IF kind = "controller" THEN hard - CanaryCleanup ELSE hard

(* What the read loop may use: envelopes for the requests that follow are  *)
(* taken off.                                                              *)
Work == CASE kind \in {"package", "fence"} -> hard - 2 * Reserve
          [] kind = "key"                  -> hard - Reserve
          [] kind = "controller"           -> CreateDeadline - Reserve

Aligned == kind \in {"package", "fence", "assignment"}
Full == Boundary + (CASE kind \in {"package", "fence"} -> Slack + Reserve
                      [] kind = "controller"           -> Reserve
                      [] kind = "key"                  -> 0)

(* Mutant: the authorization does not cut the loop.                        *)
DeadlineUncut == Full

Deadline == Least(Work, Full)

(* Mutant: the last observation of a settlement comes before its boundary. *)
FinalEarly == IF kind = "assignment" THEN Boundary - Reserve
              ELSE Deadline - Reserve - IF Aligned THEN Slack ELSE 0

(* The last observation, and how late the scheduler may be with it.        *)
FinalAt    == IF kind = "assignment" THEN Boundary
              ELSE Deadline - Reserve - IF Aligned THEN Slack ELSE 0
FinalStart == IF Aligned THEN FinalAt + Slack ELSE FinalAt

Fail(reason) == pc' = "failed" /\ why' = reason
Stay == UNCHANGED <<kind, hard, grant, late>>

(* _protected_readiness_deadline; settlement's own window.                 *)
Start ==
    /\ pc = "start"
    /\ IF \/ kind \in {"fence", "key"} /\ Deadline < Reserve
          \/ kind = "assignment" /\ Boundary + Slack + Reserve > hard
       THEN Fail("closed")
       ELSE pc' = "look" /\ UNCHANGED why
    /\ UNCHANGED <<clock, attempts, lost>> /\ Stay

(* Mutant: no request is held back for the boundary.                       *)
WhenNow == clock

(* A request that could still be under way at the boundary is held back    *)
(* until the boundary.                                                     *)
When == IF Aligned /\ clock < FinalAt /\ clock + Reserve >= FinalAt THEN FinalAt + late ELSE clock

(* The deadline of the request: before the boundary, the boundary; the     *)
(* settlement's last one has an envelope that begins now.                  *)
Limit(at) == IF kind # "assignment" THEN Deadline
             ELSE IF at >= FinalAt THEN at + Reserve ELSE FinalAt

(* The request is admitted with a full envelope before its deadline, by a  *)
(* reading of the clock that comes after the one of the loop.              *)
Look ==
    /\ pc = "look"
    /\ IF When > FinalStart
       THEN Fail("late") /\ UNCHANGED <<clock, attempts>>
       ELSE IF kind = "assignment" /\ Limit(When) > hard
       THEN Fail("closed") /\ UNCHANGED <<clock, attempts>>
       ELSE IF When + late + Reserve > Limit(When)
       THEN Fail("envelope") /\ UNCHANGED <<clock, attempts>>
       ELSE /\ clock' = When + late /\ attempts' = attempts + 1
            /\ pc' = "asked" /\ UNCHANGED why
    /\ UNCHANGED lost /\ Stay

(* Mutant: short delays, as in the other polls.                            *)
ShortCap == 8

(* The delays double up to a cap, and end at the boundary.                 *)
Cap == IF kind = "package" THEN 32 ELSE 15
(* Mutant: the time that is left has the wrong sign.                       *)
DelaySwapped(now, boundary) == Least(Seconds(Cap), now - boundary)

Doubled == <<1, 2, 4, 8, 16, 32>>
Delay(now, boundary) ==
    Least(Seconds(IF kind = "assignment" THEN 15
                  ELSE IF attempts > 6 THEN Cap ELSE Least(Doubled[attempts], Cap)),
          boundary - now)

Sleep ==
    /\ pc = "sleep"
    /\ clock' = clock + Delay(clock, FinalAt) + late
    /\ pc' = "look"
    /\ UNCHANGED <<attempts, lost, why>> /\ Stay

(* The service answers by what was granted when it looked, at any time of  *)
(* the request.                                                            *)
Answer ==
    /\ pc = "asked"
    /\ \E l \in Latencies, seen \in BOOLEAN :
         /\ clock' = clock + l
         /\ seen => grant[1] <= clock + l
         /\ ~seen => grant[1] > clock
         /\ IF clock + l >= Limit(clock - late)
            THEN Fail("deadline")
            ELSE IF seen
            THEN /\ pc' = CASE kind = "key"        -> "read"
                            [] kind = "assignment" -> "exact"
                            [] OTHER               -> "put"
                 /\ UNCHANGED why
            ELSE IF kind = "assignment" /\ clock - late >= FinalAt
            THEN pc' = "absent" /\ UNCHANGED why
            ELSE IF clock + l >= FinalAt
            THEN Fail("boundary")
            ELSE IF attempts = Attempts THEN Fail("attempts")
            ELSE pc' = "sleep" /\ UNCHANGED why
    /\ attempts' = IF pc' = "put" THEN 0 ELSE attempts
    /\ UNCHANGED lost /\ Stay

(* Only the controller's listing is asked for again after a lost answer.   *)
Lose ==
    /\ pc = "asked" /\ lost < MaxLost /\ lost' = lost + 1
    /\ \E l \in Latencies :
         /\ clock' = clock + l
         /\ IF kind # "controller" \/ attempts = Attempts \/ clock + l >= FinalAt
            THEN Fail("transport")
            ELSE pc' = "sleep" /\ UNCHANGED why
    /\ UNCHANGED attempts /\ Stay

(* The conditional create: the first attempt may use what the read loop    *)
(* left, a further one starts before the reviewed boundary.                *)
FinalRetry == CASE kind = "package"    -> Least(Boundary, hard - 2 * Reserve)
                [] kind = "fence"      -> FinalAt
                [] kind = "controller" -> Least(Boundary, CreateDeadline - Reserve)

Put ==
    /\ pc = "put"
    /\ IF attempts = 0 /\ clock > Deadline
       THEN Fail("unfit") /\ UNCHANGED <<clock, attempts>>
       ELSE IF attempts > 0 /\ clock > FinalRetry
       THEN Fail("late") /\ UNCHANGED <<clock, attempts>>
       ELSE IF clock + late + Reserve > CreateDeadline
       THEN /\ Fail(IF attempts = 0 THEN "unfit" ELSE "envelope")
            /\ UNCHANGED <<clock, attempts>>
       ELSE /\ clock' = clock + late /\ attempts' = attempts + 1
            /\ pc' = "putting" /\ UNCHANGED why
    /\ UNCHANGED lost /\ Stay

PutAnswer ==
    /\ pc = "putting"
    /\ \E l \in Latencies, done \in BOOLEAN :
         LET now  == clock + l
             wait == Delay(now, FinalRetry) IN
         /\ done => grant[2] <= now
         /\ ~done => grant[2] > clock
         /\ IF done
            THEN pc' = "created" /\ clock' = now /\ UNCHANGED why
            ELSE IF attempts = Attempts \/ now >= FinalRetry \/ now + late + wait > FinalRetry
            THEN Fail("boundary") /\ clock' = now
            ELSE pc' = "put" /\ clock' = now + late + wait + late /\ UNCHANGED why
    /\ UNCHANGED <<attempts, lost>> /\ Stay

PutLost ==
    /\ pc = "putting" /\ lost < MaxLost /\ lost' = lost + 1
    /\ \E l \in Latencies : clock' = clock + l
    /\ Fail("transport")
    /\ UNCHANGED attempts /\ Stay

(* The controller's role is not even added without this time.              *)
Admitted == kind = "controller" => hard - CanaryCleanup - Reserve >= Boundary

Init ==
    /\ kind \in Kinds /\ hard \in Hards /\ grant \in Grants /\ late \in Lates
    /\ Admitted
    /\ clock = 0 /\ pc = "start" /\ attempts = 0 /\ lost = 0 /\ why = "none"

Next == Start \/ Look \/ Sleep \/ Answer \/ Lose \/ Put \/ PutAnswer \/ PutLost

Spec == Init /\ [][Next]_vars

(***************************************************************************)
(* Properties                                                              *)
(***************************************************************************)

TypeOK ==
    /\ kind \in Kinds /\ hard \in Hards /\ grant \in Grants /\ late \in Lates
    /\ clock \in Nat /\ attempts \in 0 .. Attempts /\ lost \in 0 .. MaxLost
    /\ pc \in {"start", "look", "asked", "sleep", "put", "putting"} \union Ends
    /\ why \in {"none", "closed", "late", "envelope", "deadline", "boundary", "attempts",
                "transport", "unfit"}

(* The authorization did not cut the loop short; the loop ended without    *)
(* what was granted within its reviewed interval.                          *)
Uncut == kind # "assignment" /\ Deadline = Full
Missed == /\ pc = "failed" /\ why \in {"late", "envelope", "deadline", "boundary", "attempts"}
          /\ grant[1] <= Boundary

(* A loop that the authorization did not cut short sees every grant that   *)
(* is made within its reviewed interval, and the create that a grant of    *)
(* both allows is made, as slow as the requests and as late as the         *)
(* scheduler may be.                                                       *)
FullInterval == Missed /\ Uncut /\ kind \in {"package", "fence"} => grant[2] > grant[1]

(* A read that succeeds leaves time for the create that it is for.         *)
CreateFits == why # "unfit"

(* The attempts are enough for the time: a loop is ended by its deadline   *)
(* and never by its count.                                                 *)
TimeEndsIt == why # "attempts"

(* However the loop ends, the reserve of the cleanup is untouched, and so  *)
(* is the envelope for the read that follows a create.                     *)
ReserveKept ==
    pc \in Ends =>
        clock <= IF kind = "controller" \/ pc = "created" THEN CreateDeadline ELSE hard

(* A creation is called absent only if it was not there at the boundary of *)
(* its settlement.                                                         *)
AbsentIsLate == pc = "absent" => grant[1] > Boundary

(* private_release_v2_bootstrap.py:17638 preserves the full interval for   *)
(* the controller's listing before the last envelope.                      *)
ControllerInterval == Missed /\ Uncut /\ kind = "controller" => grant[2] > grant[1]

(* private_release_v2_bootstrap.py:21835 preserves the final envelope for  *)
(* a request begun at the boundary, and that request decides.              *)
SettlementDecides == kind = "assignment" => why # "envelope"
===============================================================================
