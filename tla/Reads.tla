--------------------------------- MODULE Reads ---------------------------------
(* What the bootstrap executor reads: a batch of resources by several      *)
(* threads, a resource that a new grant opens at an unknown time, and,     *)
(* with all its writes behind it, its own journal. They share nothing      *)
(* here; a behaviour is one of the three. The batch keeps its names.       *)
EXTENDS BatchRead

CONSTANTS
    Second,     \* of the timed loops: ticks of a second
    Hards,      \* ... the times at which the reserve of the cleanup begins
    Grants,     \* ... when the service grants a read and a write
    Latencies,  \* ... of a request
    Lates,      \* ... between two readings of the clock
    MaxLost,    \* ... bound: lost answers
    Contexts,   \* of the journal: what the preflight may have authorized
    MaxDenials, MaxSlow,   \* ... bounds
    PutWindow   \* ... in which the settings must be put

(* The clock is read twice within half a second, and a request that is     *)
(* answered is, with such a reading, within its ninety seconds.            *)
ASSUME ReadsOK ==
    /\ Second \in Nat \ {0} /\ Hards \subseteq Nat /\ Grants \subseteq Nat \X Nat
    /\ Latencies \subseteq Nat /\ Lates \subseteq Nat /\ MaxLost \in Nat
    /\ \A d \in Lates : 2 * d <= Second /\ \A l \in Latencies : l + d <= 90 * Second

VARIABLES
    reading,  \* the one that runs
    kind, hard, grant, lateReadiness, clockReadiness, pcReadiness, attempts,
    lost, why,
    context, proj, seen, clockJournal, journal, effects, operation, request,
    pcJournal, denials, again, slow, edited

Readiness == INSTANCE ReadinessWindow WITH
    Kinds <- {"package", "fence", "controller", "key", "assignment"},
    late <- lateReadiness,
    clock <- clockReadiness, pc <- pcReadiness

Journal == INSTANCE TerminalJournal WITH
    clock <- clockJournal, pc <- pcJournal, i <- operation, n <- request

readinessVars ==
    <<kind, hard, grant, lateReadiness, clockReadiness, pcReadiness, attempts,
      lost, why>>
journalVars ==
    <<context, proj, seen, clockJournal, journal, effects, operation, request,
      pcJournal, denials, again, slow, edited>>

ReadsInit ==
    /\ reading \in {"batch", "window", "journal"}
    /\ Init
    /\ Readiness!Init
    /\ Journal!Init
    /\ reading # "window" =>
           /\ kind = "key" /\ lateReadiness = CHOOSE d \in Lates : TRUE
           /\ hard = (CHOOSE h \in Hards : TRUE) /\ grant = CHOOSE g \in Grants : TRUE
    /\ reading # "journal" => context = CHOOSE c \in Contexts : TRUE

Reading(p) == reading = p /\ UNCHANGED reading

ReadsNext ==
    \/ Reading("batch") /\ Next /\ UNCHANGED <<readinessVars, journalVars>>
    \/ Reading("window") /\ Readiness!Next /\ UNCHANGED <<vars, journalVars>>
    \/ Reading("journal") /\ Journal!Next /\ UNCHANGED <<vars, readinessVars>>

reads == <<reading, vars, readinessVars, journalVars>>
ReadsSpec == ReadsInit /\ [][ReadsNext]_reads

-----------------------------------------------------------------------------
(* With slow requests and a late scheduler: a loop that is not cut short   *)
(* uses its whole reviewed interval, a read that succeeds leaves time for  *)
(* its create, the count of attempts never ends a loop, the reserve of the *)
(* cleanup stays untouched, and a creation is called absent only after its *)
(* settlement (ReadinessWindow).                                           *)
WindowSafe ==
    reading = "window" =>
        /\ Readiness!TypeOK
        /\ Readiness!FullInterval
        /\ Readiness!CreateFits
        /\ Readiness!TimeEndsIt
        /\ Readiness!ReserveKept
        /\ Readiness!AbsentIsLate
(* The terminal policy takes every journal that a complete execution       *)
(* writes if its last read before the PUT of the settings took no longer   *)
(* than the policy's thirty seconds (the read itself may take ninety), and *)
(* none of another execution; no journal with a record lost, doubled,      *)
(* exchanged or relabelled that tells another story (TerminalJournal).     *)
JournalSafe ==
    reading = "journal" =>
        /\ Journal!TypeOK
        /\ Journal!NominalAccepted
        /\ Journal!AcceptedIsTrue
=============================================================================
