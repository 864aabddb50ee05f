---------------------------- MODULE BootstrapCloud ----------------------------
(***************************************************************************)
(* What the bootstrap executor acts on: the resources of one subscription, *)
(* each in one of two states, the requests that may still take effect      *)
(* after their answer was lost, and the journal of requests, written       *)
(* before each of them is sent (AzureCliBootstrapTransport).               *)
(***************************************************************************)
EXTENDS Naturals, FiniteSets, Sequences

VARIABLES
    pc,      \* where the executor is
    cloud,   \* resource -> TRUE: present, enabled, running, or as desired
    flight,  \* requests under way: they take effect later
    asked,   \* the journal's intents: request -> how often it was sent
    doubt,   \* the requests whose answer did not tell their outcome
    live     \* the authorization has not expired

cloudVars == <<cloud, flight, asked, doubt>>

(* The resources whose deletion a CanNotDelete lock prevents.              *)
Locked == {"assignment", "writer", "reader", "legacy"}

(* What one role phase grants temporarily, in the order of creation.       *)
Grants == [controller |-> <<"assignment">>,
           fence      |-> <<"assignment">>,
           key        |-> <<"definition", "assignment">>,
           package    |-> <<"writer", "reader">>]

Resources == Locked \union {"definition", "blob", "rule", "lock",
                            "settings", "network", "scm", "site"}
Requests  == Resources \X BOOLEAN

(* Resources that ARM changes after it has accepted a request (HTTP 202).  *)
Deferred == {<<"lock", FALSE>>, <<"network", TRUE>>, <<"network", FALSE>>,
             <<"site", TRUE>>, <<"site", FALSE>>}
               \union (Locked \X {FALSE})

(* The service refuses to delete under a lock, and to touch a blob without *)
(* the role that permits it.                                               *)
Permitted(r) ==
    /\ (r[1] \in Locked /\ ~r[2]) => ~cloud["lock"]
    /\ (r[1] = "blob") => cloud["assignment"]

Take(r)  == cloud' = [cloud EXCEPT ![r[1]] = r[2]] /\ UNCHANGED flight
Delay(r) == flight' = flight \union {r} /\ UNCHANGED cloud
Ignore   == UNCHANGED <<cloud, flight>>

Answers == {"ok", "denied", "lost"}

(* One _mutation_request: the intent is durable, the request is sent, and  *)
(* its answer is an expected status in time, a refusal, or no answer to    *)
(* rely on: a transport error, a server error, an expected status too late *)
(* or one that could not be journaled.                                     *)
Send(x, value, answer) ==
    LET r == <<x, value>> IN
    /\ asked' = [asked EXCEPT ![r] = @ + 1]
    /\ doubt' = IF answer = "lost" THEN doubt \union {r} ELSE doubt
    /\ \/ answer = "ok" /\ Permitted(r) /\ Take(r)
       \/ answer = "ok" /\ Permitted(r) /\ r \in Deferred /\ Delay(r)
       \/ answer \in {"denied", "lost"} /\ Ignore
       \/ answer = "lost" /\ Delay(r)
       \/ answer = "lost" /\ Permitted(r) /\ Take(r)

(* A request under way reaches its service.                                *)
Land ==
    \E r \in flight :
        /\ flight' = flight \ {r}
        /\ cloud' = IF Permitted(r) THEN [cloud EXCEPT ![r[1]] = r[2]] ELSE cloud
        /\ UNCHANGED <<pc, asked, doubt, live>>

(* The authorization's expiresAt passes.                                   *)
Expire ==
    /\ live
    /\ live' = FALSE
    /\ UNCHANGED <<pc, cloud, flight, asked, doubt>>

(* The settlement window of a creation is over: it can no longer happen.   *)
Settled(x) == <<x, TRUE>> \notin flight

Goto(label) == pc' = label /\ UNCHANGED cloudVars

CloudInit ==
    /\ pc = "op"
    /\ cloud = [x \in Resources |-> x \in {"lock", "legacy"}]
    /\ flight = {}
    /\ asked = [r \in Requests |-> 0]
    /\ doubt = {}
    /\ live = TRUE

CloudOK ==
    /\ cloud \in [Resources -> BOOLEAN]
    /\ flight \in SUBSET Requests
    /\ asked \in [Requests -> Nat]
    /\ doubt \in SUBSET Requests
    /\ live \in BOOLEAN
=============================================================================
