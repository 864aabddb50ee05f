------------------------------ MODULE ReadWindow ------------------------------
(***************************************************************************)
(* What the observer may rely on when it reads many resources at once: the *)
(* batch either raises or answers every request, and each answer is the    *)
(* world at some time after the batch was begun, or the gateway's refusal. *)
(* The answers of one batch need not be of one time.                       *)
(***************************************************************************)
EXTENDS Integers

CONSTANT N            \* requests of a batch

Requests == 1 .. N
Gateway  == 0         \* HTTP 504, an answer like any other

VARIABLES
    world,            \* the version of Azure that reads see now
    open,             \* a batch is under way
    began,            \* the version it was begun at
    outcome,          \* of the last batch: "none", "answered", "raised"
    answers           \* its answers, in the order of the requests

windowVars == <<world, open, began, outcome, answers>>

WInit ==
    /\ world = 1 /\ open = FALSE /\ began = 1
    /\ outcome = "none" /\ answers = [i \in Requests |-> Gateway]

Begin ==
    /\ ~ open /\ open' = TRUE /\ began' = world /\ outcome' = "none"
    /\ UNCHANGED <<world, answers>>

Change == world' = world + 1 /\ UNCHANGED <<open, began, outcome, answers>>

Answer ==
    /\ open /\ open' = FALSE /\ outcome' = "answered"
    /\ answers' \in [Requests -> {Gateway} \cup began .. world]
    /\ UNCHANGED <<world, began>>

GiveUp ==
    /\ open /\ open' = FALSE /\ outcome' = "raised"
    /\ UNCHANGED <<world, began, answers>>

WNext == Begin \/ Change \/ Answer \/ GiveUp
WSpec == WInit /\ [][WNext]_windowVars
===============================================================================
