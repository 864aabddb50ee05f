------------------------------- MODULE BatchRead -------------------------------
(***************************************************************************)
(* AzureCliReadOnlySession.read_many: four threads, each with a session of *)
(* its own, share the requests of a batch by turns.  The sessions outlive  *)
(* the batch and keep their tokens; the calls of the Azure CLI that fetch  *)
(* one take turns under a lock.  A read is tried three times.  The first   *)
(* thread to fail stops the others, and the batch ends only when none is   *)
(* running.  The executor's own session has neither threads nor retries.   *)
(***************************************************************************)
EXTENDS Integers, Sequences, FiniteSets

CONSTANTS
    N,           \* requests of a batch
    W,           \* threads
    Hosts,       \* the host of each request
    MaxTries,    \* attempts of a read
    MaxWorld,    \* bound: changes of Azure
    MaxFaults,   \* bound: time-outs, lost connections, 504s
    MaxBatches   \* bound

ASSUME BatchAssumption ==
    /\ N \in Nat \ {0} /\ W \in Nat \ {0} /\ MaxTries \in Nat \ {0}
    /\ MaxWorld \in Nat /\ MaxFaults \in Nat /\ MaxBatches \in Nat
    /\ Hosts \in [1 .. N -> STRING]

Requests == 1 .. N
Workers  == 1 .. W
Gateway  == 0
Unread   == -1

VARIABLES
    world, began, outcome, answers,   \* as in ReadWindow
    pc,          \* of the caller: "idle", "reading", "raising"
    at,          \* of a thread: "due", "check", "token", "cli", "sent", "ok", "raised", "cancelled"
    turn,        \* the request a thread is at
    tries,       \* attempts it has made of it
    got,         \* answers so far
    stopped,     \* the event all threads look at
    tokens,      \* <<thread, host>> with a token that lasts
    lock,        \* the thread that calls the Azure CLI
    faults, batches,
    late         \* exchanges a thread began after the stop

vars == <<world, began, outcome, answers, pc, at, turn, tries, got, stopped, tokens, lock, faults, batches, late>>
caller == <<world, began, outcome, answers, pc, batches>>

Window == INSTANCE ReadWindow WITH open <- pc # "idle"

Live == {"due", "check", "token", "cli", "sent"}

-----------------------------------------------------------------------------
(* read_many: all partitions are submitted.  The account is inspected in   *)
(* the first batch only, before there are threads.                         *)
Submit ==
    /\ pc = "idle" /\ batches < MaxBatches /\ batches' = batches + 1
    /\ pc' = "reading" /\ began' = world /\ outcome' = "none"
    /\ at' = [w \in Workers |-> "due"] /\ turn' = [w \in Workers |-> w]
    /\ tries' = [w \in Workers |-> 0] /\ late' = [w \in Workers |-> 0]
    /\ got' = [i \in Requests |-> Unread] /\ stopped' = FALSE
    /\ UNCHANGED <<world, answers, tokens, lock, faults>>

Move(w, step) == at' = [at EXCEPT ![w] = step]

(* read_partition.                                                         *)
Run(w) ==
    /\ at[w] = "due" /\ Move(w, "check")
    /\ UNCHANGED <<caller, turn, tries, got, stopped, tokens, lock, faults, late>>

(* Mutant: nobody looks at the event.                                      *)
CheckOn(w) ==
    /\ at[w] = "check"
    /\ Move(w, IF turn[w] > N THEN "ok" ELSE "token")
    /\ tries' = [tries EXCEPT ![w] = 0]
    /\ UNCHANGED <<caller, turn, got, stopped, tokens, lock, faults, late>>

Check(w) ==
    /\ at[w] = "check"
    /\ Move(w, IF turn[w] > N \/ stopped THEN "ok" ELSE "token")
    /\ tries' = [tries EXCEPT ![w] = 0]
    /\ UNCHANGED <<caller, turn, got, stopped, tokens, lock, faults, late>>

(* Mutant: the thread that fails ends as if it had stopped.                *)
RaiseQuietly(w) == Move(w, "ok") /\ stopped' = TRUE

Raise(w) == Move(w, "raised") /\ stopped' = TRUE

Send(w) ==
    /\ Move(w, "sent")
    /\ late' = IF stopped THEN [late EXCEPT ![w] = @ + 1] ELSE late

(* _token: of the session, or of the CLI, one thread at a time.            *)
Token(w) ==
    /\ at[w] = "token"
    /\ IF <<w, Hosts[turn[w]]>> \in tokens THEN Send(w) /\ UNCHANGED lock
       ELSE lock = 0 /\ lock' = w /\ Move(w, "cli") /\ UNCHANGED late
    /\ UNCHANGED <<caller, turn, tries, got, stopped, tokens, faults>>

(* Mutant: a call that fails leaves the lock held.                         *)
CliFailsHolding(w) ==
    /\ at[w] = "cli" /\ UNCHANGED lock /\ Raise(w)
    /\ UNCHANGED <<caller, turn, tries, got, tokens, faults, late>>

CliFails(w) ==
    /\ at[w] = "cli" /\ lock' = 0 /\ Raise(w)
    /\ UNCHANGED <<caller, turn, tries, got, tokens, faults, late>>

(* Mutant: a call that succeeds keeps the lock.                            *)
CliHolding(w) ==
    /\ at[w] = "cli" /\ UNCHANGED lock /\ Send(w)
    /\ tokens' = tokens \cup {<<w, Hosts[turn[w]]>>}
    /\ UNCHANGED <<caller, turn, tries, got, stopped, faults>>

Cli(w) ==
    /\ at[w] = "cli" /\ lock' = 0 /\ Send(w)
    /\ tokens' = tokens \cup {<<w, Hosts[turn[w]]>>}
    /\ UNCHANGED <<caller, turn, tries, got, stopped, faults>>

Keep(w, value) ==
    /\ got' = [got EXCEPT ![turn[w]] = value]
    /\ turn' = [turn EXCEPT ![w] = @ + W]
    /\ Move(w, "check")

(* Mutant: an answer of the last batch will do.                            *)
RespondStale(w) ==
    /\ at[w] = "sent" /\ Keep(w, IF outcome = "none" /\ answers[turn[w]] # Gateway THEN answers[turn[w]] ELSE world)
    /\ UNCHANGED <<caller, tries, stopped, tokens, lock, faults, late>>

Respond(w) ==
    /\ at[w] = "sent" /\ Keep(w, world)
    /\ UNCHANGED <<caller, tries, stopped, tokens, lock, faults, late>>

(* A 504 is tried again; the last one is the answer.  A time-out or a lost *)
(* connection is tried again, and raises in the end.                       *)
Again(w) == tries' = [tries EXCEPT ![w] = @ + 1] /\ Move(w, "token")
Trouble(w) ==
    /\ at[w] = "sent" /\ faults < MaxFaults /\ faults' = faults + 1
    /\ \/ tries[w] + 1 < MaxTries /\ Again(w) /\ UNCHANGED <<turn, got, stopped>>
       \/ tries[w] + 1 = MaxTries /\ Keep(w, Gateway) /\ UNCHANGED <<tries, stopped>>
       \/ tries[w] + 1 = MaxTries /\ Raise(w) /\ UNCHANGED <<turn, tries, got>>
    /\ UNCHANGED <<caller, tokens, lock, late>>

(* Any other error, of the request or of the response.                     *)
Break(w) ==
    /\ at[w] = "sent" /\ faults < MaxFaults /\ faults' = faults + 1 /\ Raise(w)
    /\ UNCHANGED <<caller, turn, tries, got, tokens, lock, late>>

(* Fewer than 300 seconds are left of a token.                             *)
Expire ==
    /\ \E t \in tokens : tokens' = tokens \ {t}
    /\ UNCHANGED <<caller, at, turn, tries, got, stopped, lock, faults, late>>

-----------------------------------------------------------------------------
(* The caller takes the results in order: the first failure in this order  *)
(* is the batch's.  Partitions that have not begun are cancelled.          *)
Stop ==
    /\ pc' = "raising" /\ stopped' = TRUE
    /\ at' = [w \in Workers |-> IF at[w] = "due" THEN "cancelled" ELSE at[w]]
    /\ UNCHANGED <<world, began, outcome, answers, batches, turn, tries, got, tokens, lock, faults, late>>

Collect ==
    /\ pc = "reading"
    /\ \E w \in Workers : at[w] = "raised" /\ \A v \in 1 .. w - 1 : at[v] = "ok"
    /\ Stop

(* Ctrl-C while it waits.                                                  *)
Interrupt == pc = "reading" /\ (\E w \in Workers : at[w] \in Live) /\ Stop

(* Leaving the pool waits for the threads.                                 *)
Drain ==
    /\ pc = "raising" /\ \A w \in Workers : at[w] \notin Live
    /\ pc' = "idle" /\ outcome' = "raised"
    /\ UNCHANGED <<world, began, answers, batches, at, turn, tries, got, stopped, tokens, lock, faults, late>>

Whole == \A i \in Requests : got[i] # Unread
Return ==
    /\ pc = "reading" /\ \A w \in Workers : at[w] = "ok"
    /\ pc' = "idle"
    /\ IF Whole THEN outcome' = "answered" /\ answers' = got
       ELSE outcome' = "incomplete" /\ UNCHANGED answers
    /\ UNCHANGED <<world, began, batches, at, turn, tries, got, stopped, tokens, lock, faults, late>>

Change ==
    /\ world < MaxWorld /\ world' = world + 1
    /\ UNCHANGED <<began, outcome, answers, pc, batches, at, turn, tries, got, stopped, tokens, lock, faults, late>>

Init ==
    /\ world = 1 /\ began = 1 /\ outcome = "none" /\ answers = [i \in Requests |-> Gateway]
    /\ pc = "idle" /\ at = [w \in Workers |-> "ok"] /\ turn = [w \in Workers |-> w]
    /\ tries = [w \in Workers |-> 0] /\ got = [i \in Requests |-> Unread] /\ stopped = FALSE
    /\ tokens = {} /\ lock = 0 /\ faults = 0 /\ batches = 0 /\ late = [w \in Workers |-> 0]

Work(w) == Run(w) \/ Check(w) \/ Token(w) \/ Cli(w) \/ CliFails(w) \/ Respond(w) \/ Trouble(w) \/ Break(w)
Call == Submit \/ Collect \/ Drain \/ Return
Next == (\E w \in Workers : Work(w)) \/ Call \/ Interrupt \/ Expire \/ Change

(* Threads run, the CLI and the exchanges have time limits, and the lock   *)
(* is given to each thread that waits.  Nobody has to begin a batch.       *)
Spec ==
    /\ Init /\ [][Next]_vars
    /\ WF_vars(Collect \/ Drain \/ Return)
    /\ \A w \in 1 .. W : SF_vars(Work(w))

-----------------------------------------------------------------------------
(* The shapes of the state; who is at the CLI holds the lock.              *)
TypeOK ==
    /\ pc \in {"idle", "reading", "raising"} /\ outcome \in {"none", "answered", "raised", "incomplete"}
    /\ at \in [Workers -> Live \cup {"ok", "raised", "cancelled"}] /\ turn \in [Workers -> Nat]
    /\ tries \in [Workers -> 0 .. MaxTries - 1] /\ stopped \in BOOLEAN
    /\ world \in Nat \ {0} /\ began \in 1 .. world /\ answers \in [Requests -> Nat]
    /\ got \in [Requests -> {Unread} \cup Nat] /\ tokens \subseteq Workers \X {Hosts[i] : i \in Requests}
    /\ \A w \in Workers : lock = w <=> at[w] = "cli"

(* read_many returns what it promises: all answers, each of a time within  *)
(* the batch, or it raises.                                                *)
Implements == Window!WSpec

(* The check for an incomplete batch is never needed: whoever is stopped   *)
(* is stopped by one whose error the caller meets.                         *)
NeverIncomplete == outcome # "incomplete"

(* After the stop a thread finishes the read it is at, and no other.       *)
Drained == \A w \in Workers : late[w] <= MaxTries

(* The threads and their shapes: one at a time calls the Azure CLI, and    *)
(* after the first error a thread finishes the read it is at, with its     *)
(* attempts, and begins no other.                                          *)
BatchSafe == TypeOK /\ Drained

(* Every batch ends, whoever fails while others wait for the lock.         *)
Ends == pc = "reading" ~> pc = "idle"
===============================================================================
