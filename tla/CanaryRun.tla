------------------------------- MODULE CanaryRun -------------------------------
(***************************************************************************)
(* The one run of the bridge's WebJob: how the bootstrap executor finds    *)
(* its own run in a history that others can write to as well.  A boundary  *)
(* of older runs is read before the trigger, the history is polled after   *)
(* it, and a census is taken once the site is stopped.  A history is a     *)
(* list, and one more read for every run that the list shows without its   *)
(* fields: the reads of one history are made at different times, and paid  *)
(* from a budget.  BoundedCanary has the enabling and closing around it.   *)
(***************************************************************************)
EXTENDS Naturals, FiniteSets, Sequences

CONSTANTS
    Histories, \* the runs there may be before the canary
    MaxRuns,   \* bound: runs of the job
    MaxTries,  \* 180: attempts to read the boundary
    MaxPolls,  \* MAX_TERMINAL_POLLS
    PerCensus  \* MAX_WEBJOB_HISTORY_DETAIL_READS

VARIABLES
    runs,     \* the job's runs in the order they started
    site,     \* up, stopping or down
    coming,   \* triggers of ours under way
    pc,
    stage,    \* what the history is read for
    tries,    \* attempts of the loop
    meta,     \* latestRunPresent, as read with the boundary
    http,     \* the status of the boundary's history
    entries,  \* the history as it is being put together
    todo,     \* listed without fields: their details are to be read
    told,     \* those of them whose listing shows a status all the same
    left,     \* detail reads left in the budget
    reserve,  \* of which for the census
    boundary, \* the history before the trigger
    place,    \* the run in the answer's Location; 0: none
    terminal, \* our run as it was found in the history
    closing,  \* how the network's disabling went
    why,      \* the reason for which the canary has failed
    seen,     \* what was observed, in order
    asOf      \* the runs at the answer before the history's (not in the code)

serviceVars == <<runs, site, coming>>
readVars    == <<meta, http, entries, todo, told, asOf>>
budgetVars  == <<left, reserve>>
proofVars   == <<boundary, place, terminal, closing>>
vars == <<serviceVars, readVars, budgetVars, proofVars, pc, stage, tries, why, seen>>

Before == "history-boundary"
Poll   == "terminal-history"
Final  == "final-history-census"

(* The observations of the opening, in the order the code makes them.      *)
Prelude == <<"initial", "scmPre", "netInitial", "netEnabled",
             "scmInitial", "scmEnabled", "running">>

MaxDetails == PerCensus * (1 + MaxPolls + 1)

Idle == \A i \in DOMAIN runs : runs[i].status # "Running"

(***************************************************************************)
(* The service.  The job is a singleton; a site runs it until it is down,  *)
(* which is later than the answer of its stop.                             *)
(***************************************************************************)
Run(who) == Append(runs, [who |-> who, status |-> "Running"])

Begin ==
    /\ site # "down" /\ Idle /\ Len(runs) < MaxRuns
    /\ \/ /\ runs' = Run("other")
          /\ UNCHANGED <<coming, seen>>
       \/ /\ coming > 0 /\ runs' = Run("ours")
          /\ coming' = coming - 1
          /\ seen' = Append(seen, "start")
    /\ UNCHANGED <<site, readVars, budgetVars, proofVars, pc, stage, tries, why>>

Finish ==
    /\ \E i \in DOMAIN runs, s \in {"Success", "Failed"} :
         /\ runs[i].status = "Running"
         /\ site = "down" => s = "Failed"
         /\ runs' = [runs EXCEPT ![i].status = s]
         /\ seen' = IF runs[i].who = "ours" THEN Append(seen, "end") ELSE seen
    /\ UNCHANGED <<site, coming, readVars, budgetVars, proofVars, pc, stage, tries, why>>

SiteDown ==
    /\ site = "stopping" /\ site' = "down"
    /\ UNCHANGED <<runs, coming, readVars, budgetVars, proofVars, pc, stage, tries, why, seen>>

(***************************************************************************)
(* The executor.  An error before the stop leads to the stop, an error     *)
(* after it to the closing of the rest; the history being read is gone.    *)
(***************************************************************************)
Forget == entries' = <<>> /\ todo' = {} /\ told' = {}

Fail(reason) ==
    /\ why' = reason
    /\ pc' = IF stage = Final THEN "close" ELSE "stop"
    /\ Forget

(* The job's metadata.  Startup errors, a time-out and a 429 spend an      *)
(* attempt.                                                                *)
ReadJob ==
    /\ pc = "job"
    /\ \/ /\ Fail("error")
          /\ UNCHANGED <<tries, meta, asOf>>
       \/ /\ tries < MaxTries
          /\ tries' = tries + 1
          /\ UNCHANGED <<pc, why, meta, asOf, entries, todo, told>>
       \/ /\ tries < MaxTries
          /\ tries' = tries + 1
          /\ meta' = (runs # <<>>)
          /\ asOf' = DOMAIN runs
          /\ pc' = "list"
          /\ UNCHANGED <<why, entries, todo, told>>
    /\ UNCHANGED <<serviceVars, http, budgetVars, proofVars, stage, seen>>

(* Mutant: the whole budget is there for every history.                    *)
AvailableAll == MaxDetails

Available ==
    CASE stage = Before -> left
      [] stage = Poll   -> left - reserve
      [] stage = Final  -> IF left < reserve THEN left ELSE reserve

(* Mutant: after a 429 the history alone is read again.                    *)
ThrottledAlone ==
    /\ stage # Final
    /\ pc' = "list"
    /\ asOf' = (IF stage = Before THEN DOMAIN runs ELSE asOf)
    /\ tries' = tries + 1
    /\ Forget
    /\ UNCHANGED <<http, why>>

(* 429: the boundary starts again with the job's metadata.                 *)
Throttled ==
    /\ stage # Final
    /\ pc' = IF stage = Before THEN "job" ELSE "list"
    /\ asOf' = (IF stage = Before THEN DOMAIN runs ELSE asOf)
    /\ tries' = IF stage = Poll THEN tries + 1 ELSE tries
    /\ Forget
    /\ UNCHANGED <<http, why>>

(* 404 of a job that, by its metadata, has never run.                      *)
Pristine ==
    /\ stage = Before /\ ~meta
    /\ http' = 404
    /\ Forget
    /\ pc' = "judge"
    /\ UNCHANGED <<tries, asOf, why>>

(* Mutant: only a throttled poll counts as an attempt.                     *)
ListedFree ==
    /\ UNCHANGED <<tries, asOf>>
    /\ \E sparse \in SUBSET DOMAIN runs :
         \/ /\ Cardinality(sparse) > Available
            /\ Fail("budget")
            /\ UNCHANGED http
         \/ /\ Cardinality(sparse) <= Available
            /\ http' = IF stage = Before THEN 200 ELSE http
            /\ entries' = runs
            /\ todo' = sparse
            /\ told' \in SUBSET sparse
            /\ pc' = IF sparse = {} THEN "judge" ELSE "detail"
            /\ UNCHANGED why

(* 200: any of the runs may be listed without its fields; there must be    *)
(* credit for all of them before the first detail is read.                 *)
Listed ==
    /\ tries' = IF stage = Poll THEN tries + 1 ELSE tries
    /\ UNCHANGED asOf
    /\ \E sparse \in SUBSET DOMAIN runs :
         \/ /\ Cardinality(sparse) > Available
            /\ Fail("budget")
            /\ UNCHANGED http
         \/ /\ Cardinality(sparse) <= Available
            /\ http' = IF stage = Before THEN 200 ELSE http
            /\ entries' = runs
            /\ todo' = sparse
            /\ told' \in SUBSET sparse
            /\ pc' = IF sparse = {} THEN "judge" ELSE "detail"
            /\ UNCHANGED why

ReadList ==
    /\ pc = "list"
    /\ \/ Fail("error") /\ UNCHANGED <<tries, http, asOf>>
       \/ /\ stage = Poll => tries < MaxPolls
          /\ Throttled \/ Pristine \/ Listed
    /\ UNCHANGED <<serviceVars, meta, budgetVars, proofVars, stage, seen>>

Least(S) == CHOOSE i \in S : \A j \in S : i <= j

(* One credit, one read; what the listing told must still be so.           *)
ReadDetail ==
    /\ pc = "detail"
    /\ left' = left - 1
    /\ LET i == Least(todo) IN
       \/ Fail("error")
       \/ /\ i \in told /\ runs[i] # entries[i]
          /\ Fail("conflict")
       \/ /\ i \in told => runs[i] = entries[i]
          /\ entries' = [entries EXCEPT ![i] = runs[i]]
          /\ todo' = todo \ {i}
          /\ told' = told \ {i}
          /\ pc' = IF todo' = {} THEN "judge" ELSE "detail"
          /\ UNCHANGED why
    /\ UNCHANGED <<serviceVars, meta, http, asOf, reserve, proofVars, stage, tries, seen>>

(* Mutant: the census is budgeted for the runs of the boundary only.       *)
ReserveShort == Len(entries)

(* What a later history may need: every run of the boundary, and ours.     *)
Reserve == Len(entries) + 1

JudgeBoundary ==
    /\ pc = "judge" /\ stage = Before
    /\ \/ /\ (entries # <<>>) # meta
          /\ Fail("error")
          /\ UNCHANGED <<reserve, boundary, stage, tries, seen>>
       \/ /\ (entries # <<>>) = meta
          /\ left < 2 * Reserve
          /\ Fail("budget")
          /\ UNCHANGED <<reserve, boundary, stage, tries, seen>>
       \/ /\ (entries # <<>>) = meta
          /\ left >= 2 * Reserve
          /\ reserve' = Reserve
          /\ boundary' = entries
          /\ stage' = Poll
          /\ tries' = 0
          /\ seen' = seen \o <<"job", "boundary">>
          /\ pc' = "trigger"
          /\ Forget
          /\ UNCHANGED why
    /\ UNCHANGED <<serviceVars, meta, http, asOf, left, place, terminal, closing>>

(* No Location, or one of our run or of another.                           *)
Places == {0, Len(boundary) + 1, Len(boundary) + 2}

(* What a POST that may have reached the service does, now or later.       *)
Arrives ==
    \/ /\ Idle /\ site = "up" /\ Len(runs) < MaxRuns
       /\ runs' = Run("ours")
       /\ seen' = seen \o <<"trigger", "start", "response">>
       /\ UNCHANGED coming
    \/ /\ coming' = coming + 1
       /\ seen' = seen \o <<"trigger", "response">>
       /\ UNCHANGED runs

(* Mutant: a trigger without an answer is sent again.                      *)
TriggerAgain ==
    /\ pc = "trigger"
    /\ \/ /\ UNCHANGED <<runs, coming, seen, place>> /\ Fail("error")
       \/ /\ Arrives
          /\ place' \in Places
          /\ pc' = "list" /\ Forget /\ UNCHANGED why
       \/ Arrives /\ coming < 2 /\ Forget /\ UNCHANGED <<place, why, pc>>
    /\ UNCHANGED <<site, meta, http, asOf, budgetVars, boundary, terminal, closing, stage, tries>>

(* The only POST, with a token of its own in its User-Agent.  It is        *)
(* refused, lost, or answered 200, with or without a Location.             *)
Trigger ==
    /\ pc = "trigger"
    /\ \/ /\ UNCHANGED <<runs, coming, seen, place>> /\ Fail("error")
       \/ /\ Arrives
          /\ place' \in Places
          /\ pc' = "list" /\ Forget /\ UNCHANGED why
       \/ Arrives /\ UNCHANGED place /\ Fail("error")
    /\ UNCHANGED <<site, meta, http, asOf, budgetVars, boundary, terminal, closing, stage, tries>>

Drifted == SubSeq(entries, 1, Len(boundary)) # boundary
Fresh   == (Len(boundary) + 1)..Len(entries)
Ours    == entries[Len(boundary) + 1]
Placed  == place \in {0, Len(boundary) + 1}

(* Mutant: the fresh run is not compared with the token.                   *)
AttributableAny == ~Drifted /\ Cardinality(Fresh) = 1

(* One fresh run, and it carries our token.                                *)
Attributable == ~Drifted /\ Cardinality(Fresh) = 1 /\ Ours.who = "ours"

(* Nothing fresh, or ours under way: poll on.                              *)
JudgePoll ==
    /\ pc = "judge" /\ stage = Poll
    /\ \/ /\ \/ Drifted
             \/ Cardinality(Fresh) > 1
             \/ Cardinality(Fresh) = 1 /\ ~Attributable
          /\ Fail("error") /\ UNCHANGED <<terminal, seen>>
       \/ /\ \/ ~Drifted /\ Fresh = {}
             \/ Attributable /\ Ours.status = "Running"
          /\ pc' = "list" /\ Forget /\ UNCHANGED <<why, terminal, seen>>
       \/ /\ Attributable /\ Ours.status # "Running" /\ ~Placed
          /\ Fail("error") /\ UNCHANGED <<terminal, seen>>
       \/ /\ Attributable /\ Ours.status = "Failed" /\ Placed
          /\ why' = "failed" /\ pc' = "log" /\ Forget /\ UNCHANGED <<terminal, seen>>
       \/ /\ Attributable /\ Ours.status = "Success" /\ Placed
          /\ terminal' = <<Ours>>
          /\ seen' = Append(seen, "terminal")
          /\ pc' = "stop"
          /\ Forget
          /\ UNCHANGED why
    /\ UNCHANGED <<serviceVars, meta, http, asOf, budgetVars, boundary, place, closing, stage, tries>>

(* The log of a failed run is read if there is time; whatever comes of it, *)
(* the site is stopped next.                                               *)
ProbeLog ==
    /\ pc = "log" /\ pc' = "stop"
    /\ UNCHANGED <<serviceVars, readVars, budgetVars, proofVars, stage, tries, why, seen>>

StopSite ==
    /\ pc = "stop"
    /\ \/ /\ site' = "stopping"
          /\ UNCHANGED why
       \/ /\ site' \in {site, "stopping"}
          /\ why' = IF why = "none" THEN "error" ELSE why
    /\ pc' = IF why' = "none" THEN "stopped" ELSE "close"
    /\ UNCHANGED <<runs, coming, readVars, budgetVars, proofVars, stage, tries, seen>>

(* Mutant: the census does not wait until the site is stopped.             *)
AwaitNothing ==
    /\ pc = "stopped"
    /\ stage' = Final /\ pc' = "list"
    /\ seen' = Append(seen, "preStop")
    /\ UNCHANGED why
    /\ UNCHANGED <<serviceVars, readVars, budgetVars, proofVars, tries>>

AwaitStopped ==
    /\ pc = "stopped"
    /\ \/ /\ site = "down"
          /\ stage' = Final /\ pc' = "list"
          /\ seen' = Append(seen, "preStop")
          /\ UNCHANGED why
       \/ why' = "error" /\ pc' = "close" /\ UNCHANGED <<stage, seen>>
    /\ UNCHANGED <<serviceVars, readVars, budgetVars, proofVars, tries>>

JudgeFinal ==
    /\ pc = "judge" /\ stage = Final
    /\ pc' = "close"
    /\ \/ /\ entries = boundary \o terminal
          /\ seen' = Append(seen, "census")
          /\ UNCHANGED why
       \/ entries # boundary \o terminal /\ why' = "error" /\ UNCHANGED seen
    /\ UNCHANGED <<serviceVars, readVars, budgetVars, proofVars, stage, tries>>

(* Mutant: the network is closed before SCM.                               *)
CloseNetworkFirst ==
    /\ pc = "close" /\ pc' = "done"
    /\ closing' = [op |-> "sync", again |-> site # "down"]
    /\ site' = "down"
    /\ seen' = seen \o <<"netRestored", "scmRestored", "stopped">>
    /\ UNCHANGED <<runs, coming, readVars, budgetVars, boundary, place, terminal, stage, tries, why>>

(* SCM, network and site are closed again.  The proof is complete only if  *)
(* the network had to be disabled: with an answer 200, or by an operation. *)
Close ==
    /\ pc = "close" /\ pc' = "done"
    /\ \/ /\ \E op \in {"none", "sync", "async"} :
               /\ closing' = [op |-> op, again |-> site # "down"]
               /\ why' = IF why = "none" /\ op = "none" THEN "incomplete" ELSE why
          /\ site' = "down"
          /\ seen' = seen \o <<"scmRestored">>
                          \o (IF closing'.op = "async" THEN <<"netOperation">> ELSE <<>>)
                          \o <<"netRestored", "stopped">>
       \/ /\ why' = IF why = "none" THEN "error" ELSE why
          /\ site' \in {site, "stopping", "down"}
          /\ UNCHANGED <<closing, seen>>
    /\ UNCHANGED <<runs, coming, readVars, budgetVars, boundary, place, terminal, stage, tries>>

Executor ==
    \/ ReadJob \/ ReadList \/ ReadDetail \/ JudgeBoundary \/ Trigger \/ JudgePoll
    \/ ProbeLog \/ StopSite \/ AwaitStopped \/ JudgeFinal \/ Close

Init ==
    /\ runs \in Histories
    /\ site = "up" /\ coming = 0
    /\ pc = "job" /\ stage = Before /\ tries = 0
    /\ meta = FALSE /\ http = 200 /\ entries = <<>> /\ todo = {} /\ told = {}
    /\ left = MaxDetails /\ reserve = 0
    /\ boundary = <<>> /\ place = 0 /\ terminal = <<>>
    /\ closing = [op |-> "none", again |-> FALSE]
    /\ why = "none" /\ seen = Prelude /\ asOf = {}

Next == Executor \/ Begin \/ Finish \/ SiteDown

Spec == Init /\ [][Next]_vars /\ WF_vars(Executor)
=============================================================================
