------------------------------ MODULE CanaryProof ------------------------------
(***************************************************************************)
(* What the canary hands on as its proof, how the validator of retained    *)
(* evidence (private_release_v2_webjob_evidence) reads it, and what both   *)
(* are for.                                                                *)
(***************************************************************************)
EXTENDS CanaryRun

History(h) == [entries |-> h, details |-> TRUE]

(* Mutant: the reader's digests stay in the receipt.                       *)
ReceiptWhole(h) == h

(* receipt: the reader's digests of details are left out.                  *)
Receipt(h) == [entries |-> h.entries]

Proof ==
    [boundary |-> Receipt(History(boundary)),
     census   |-> Receipt(History(entries)),
     http     |-> http,
     meta     |-> meta,
     terminal |-> terminal[1],
     place    |-> place,
     op       |-> closing.op,
     again    |-> closing.again,
     polls    |-> tries,
     seen     |-> seen]

At(p, x)     == CHOOSE i \in DOMAIN p.seen : p.seen[i] = x
Noted(p, x)  == \E i \in DOMAIN p.seen : p.seen[i] = x
InOrder(p, xs) ==
    /\ \A i \in DOMAIN xs : Noted(p, xs[i])
    /\ \A i, j \in DOMAIN xs : i < j => At(p, xs[i]) < At(p, xs[j])

ExactHistories(p) == DOMAIN p.boundary = {"entries"} /\ DOMAIN p.census = {"entries"}

ExactBoundary(p) ==
    /\ p.http \in {200, 404}
    /\ p.http = 404 => ~p.meta /\ p.boundary.entries = <<>>
    /\ p.http = 200 => (p.boundary.entries # <<>>) = p.meta

ExactRun(p) ==
    /\ p.terminal.who = "ours" /\ p.terminal.status = "Success"
    /\ p.place \in {0, Len(p.boundary.entries) + 1}

ExactCensus(p) == p.census.entries = Append(p.boundary.entries, p.terminal)

(* The disabling is proven by an operation if it was issued.               *)
ExactClosing(p) ==
    /\ p.op = "async" => InOrder(p, <<"scmRestored", "netOperation", "netRestored">>)
    /\ p.polls \in 1..MaxPolls

ExactOrder(p) ==
    /\ InOrder(p, Prelude \o <<"job", "boundary", "trigger", "response", "terminal">>)
    /\ InOrder(p, <<"trigger", "start", "end", "terminal">>)
    /\ InOrder(p, <<"terminal", "preStop", "census", "scmRestored", "netRestored", "stopped">>)

Accepted(p) ==
    /\ ExactHistories(p) /\ ExactBoundary(p) /\ ExactRun(p)
    /\ ExactCensus(p) /\ ExactClosing(p) /\ ExactOrder(p)

Won == pc = "done" /\ why = "none"

-----------------------------------------------------------------------------
TypeOK ==
    /\ runs \in Seq([who : {"ours", "other"}, status : {"Running", "Success", "Failed"}])
    /\ Len(runs) <= MaxRuns
    /\ site \in {"up", "stopping", "down"}
    /\ coming \in 0..1
    /\ pc \in {"job", "list", "detail", "judge", "trigger", "log", "stop", "stopped",
               "close", "done"}
    /\ stage \in {Before, Poll, Final}
    /\ tries \in 0..(MaxTries + MaxPolls)
    /\ meta \in BOOLEAN /\ http \in {200, 404}
    /\ told \subseteq 1..MaxRuns /\ todo \subseteq 1..MaxRuns
    /\ left \in 0..MaxDetails /\ reserve \in 0..(MaxRuns + 1)
    /\ place \in 0..(MaxRuns + 2)
    /\ why \in {"none", "error", "budget", "conflict", "failed", "incomplete"}

(* A canary that succeeds has run the job, and nobody else has: when it    *)
(* ends the job's runs are those of its boundary, unchanged, and its own,  *)
(* which succeeded -- whoever else triggered the job between the reads     *)
(* (_wait_for_fresh_webjob_success, _read_final_webjob_history).           *)
Attributed ==
    Won => /\ runs = Append(boundary, [who |-> "ours", status |-> "Success"])
           /\ site = "down"

(* A failure reported as the WebJob's own is one: its run has failed.      *)
(* A foreign run that failed is never diagnosed as ours.                   *)
FailureTruth ==
    why = "failed" =>
        \E i \in DOMAIN runs : runs[i].who = "ours" /\ runs[i].status = "Failed"

(* The boundary leaves out no run that was there when the answer before    *)
(* its history was received: a 404 is believed of a job only with metadata *)
(* read next to it (_wait_for_webjob_history_boundary).                    *)
BoundaryAdjacent ==
    pc = "trigger" => asOf \subseteq DOMAIN boundary

(* The trigger is sent once, so our token has at most one run, also when   *)
(* the answer was lost or the run starts late.                             *)
TriggeredOnce ==
    Cardinality({i \in DOMAIN runs : runs[i].who = "ours"}) + coming <= 1

(* A canary ends for want of detail reads only when the job, with our run, *)
(* has more runs than one history may read, and its census only when there *)
(* is a run too many: no number of polls and of histories without fields   *)
(* uses up what the census needs (CanaryWebJobHistoryDetailBudget).        *)
BudgetRefusal ==
    why = "budget" =>
        CASE stage = Before -> Len(runs) + 1 > PerCensus
          [] stage = Poll   -> \/ Len(runs) > PerCensus
                               \/ Len(boundary) + 1 > PerCensus
          [] stage = Final  -> Len(runs) > Len(boundary) + 1

(* What a successful canary hands on is accepted by the validator of       *)
(* retained evidence: neither refuses what the other calls a success.      *)
ProofAccepted == Won => Accepted(Proof)

(* The canary comes to an end, however often it is throttled, finds the    *)
(* job not ready or its run under way.                                     *)
Ends == <>(pc = "done")

(* The validator accepts a canary whose network was found disabled, with   *)
(* publicNetworkAccessDisableMutationIssued FALSE, so a canary that did    *)
(* everything else is not failed for it.                                   *)
ClosedIsProven == why # "incomplete"
=============================================================================
