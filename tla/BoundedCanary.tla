---------------------------- MODULE BoundedCanary -----------------------------
(***************************************************************************)
(* startBridgeForBoundedCanary: public network access and SCM basic        *)
(* authentication of the bridge are enabled, its job is run once, and      *)
(* everything is closed again in finally.  A file in the ledger marks an   *)
(* enabling of the network that is not proven undone.                      *)
(***************************************************************************)
EXTENDS BootstrapCloud

VARIABLES
    marker,  \* unresolved-public-network-enable.json exists
    tried,   \* which of network, scm, site were asked to be enabled
    opened,  \* the enabling of the network is known to be complete
    heard,   \* its response was received
    hurt     \* the operation has failed

canaryVars == <<marker, tried, opened, heard, hurt>>

(* An error in the try block leads to finally.                             *)
Break == hurt' = TRUE

(* The preconditions are read, the marker is written, the network enabled. *)
CanaryMark ==
    /\ pc = "canary"
    /\ UNCHANGED <<tried, opened, heard>>
    /\ \/ /\ ~cloud["site"] /\ ~cloud["scm"] /\ ~cloud["network"]
          /\ marker' = TRUE
          /\ UNCHANGED hurt
          /\ Goto("enableNetwork")
       \/ Break /\ marker' \in {marker, TRUE} /\ Goto("canaryStop")

EnableNetwork ==
    /\ pc = "enableNetwork"
    /\ tried' = tried \union {"network"}
    /\ UNCHANGED <<marker, opened>>
    /\ \/ ~live /\ Break /\ UNCHANGED heard /\ Goto("canaryStop")
       \/ \E a \in Answers :
            /\ live
            /\ Send("network", TRUE, a)
            /\ heard' = (a = "ok")
            /\ hurt' = (a # "ok")
            /\ pc' = IF a = "ok" THEN "awaitNetwork" ELSE "canaryStop"

(* ARM's asynchronous operation is awaited; the site is stopped again and  *)
(* read back.                                                              *)
AwaitNetwork ==
    /\ pc = "awaitNetwork"
    /\ UNCHANGED <<marker, tried, heard>>
    /\ \/ /\ <<"network", TRUE>> \notin flight
          /\ opened' = TRUE
          /\ UNCHANGED hurt
          /\ Goto("restop")
       \/ Break /\ UNCHANGED opened /\ Goto("canaryStop")

Restop ==
    /\ pc = "restop"
    /\ UNCHANGED <<marker, tried, opened, heard>>
    /\ \/ ~live /\ Break /\ Goto("canaryStop")
       \/ \E a \in Answers :
            /\ live
            /\ Send("site", FALSE, a)
            /\ hurt' = (a # "ok")
            /\ pc' = IF a = "ok" THEN "enableScm" ELSE "canaryStop"

EnableScm ==
    /\ pc = "enableScm"
    /\ UNCHANGED <<marker, opened, heard>>
    /\ \/ Break /\ tried' \in {tried, tried \union {"scm"}} /\ Goto("canaryStop")
       \/ \E a \in Answers :
            /\ live
            /\ ~cloud["site"] /\ cloud["network"] /\ ~cloud["scm"]
            /\ tried' = tried \union {"scm"}
            /\ Send("scm", TRUE, a)
            /\ hurt' = (a # "ok")
            /\ pc' = IF a = "ok" THEN "startSite" ELSE "canaryStop"

StartSite ==
    /\ pc = "startSite"
    /\ UNCHANGED <<marker, opened, heard>>
    /\ \/ Break /\ tried' \in {tried, tried \union {"site"}} /\ Goto("canaryStop")
       \/ \E a \in Answers :
            /\ live
            /\ cloud["scm"]
            /\ tried' = tried \union {"site"}
            /\ Send("site", TRUE, a)
            /\ hurt' = (a # "ok")
            /\ pc' = IF a = "ok" THEN "runJob" ELSE "canaryStop"

(* The job is triggered once the site runs; its history ends in Success,   *)
(* or the canary has failed.                                               *)
RunJob ==
    /\ pc = "runJob"
    /\ UNCHANGED <<marker, tried, opened, heard>>
    /\ \/ cloud["site"] /\ live /\ UNCHANGED hurt
       \/ Break
    /\ Goto("canaryStop")

(* finally, first: a site that was asked to start is stopped.              *)
CanaryStop ==
    /\ pc = "canaryStop"
    /\ UNCHANGED <<marker, tried, opened, heard>>
    /\ \/ "site" \notin tried /\ UNCHANGED hurt /\ Goto("census")
       \/ \E a \in Answers :
            /\ "site" \in tried
            /\ Send("site", FALSE, a)
            /\ hurt' = (hurt \/ a # "ok")
            /\ pc' = "census"

(* Without an error so far, the site is proven stopped and the history is  *)
(* read a last time.                                                       *)
Census ==
    /\ pc = "census"
    /\ UNCHANGED <<marker, tried, opened, heard>>
    /\ \/ hurt /\ UNCHANGED hurt
       \/ ~hurt /\ ~cloud["site"] /\ live /\ UNCHANGED hurt
       \/ ~hurt /\ Break
    /\ Goto("closeScm")

CloseScm ==
    /\ pc = "closeScm"
    /\ UNCHANGED <<marker, tried, opened, heard>>
    /\ \/ ("scm" \notin tried \/ ~cloud["scm"]) /\ UNCHANGED hurt /\ Goto("resolve")
       \/ "scm" \in tried /\ Break /\ Goto("resolve")
       \/ \E a \in Answers, read \in BOOLEAN :
            /\ "scm" \in tried /\ cloud["scm"]
            /\ Send("scm", FALSE, a)
            /\ hurt' = (hurt \/ a # "ok" \/ ~read)
            /\ pc' = "resolve"

(* An enabling that was answered but not awaited gets another wait.        *)
Resolve ==
    /\ pc = "resolve"
    /\ UNCHANGED <<marker, tried, heard, hurt>>
    /\ \/ heard /\ ~opened /\ <<"network", TRUE>> \notin flight /\ opened' = TRUE
       \/ UNCHANGED opened
    /\ Goto(IF "network" \in tried THEN "closeNetwork" ELSE "canaryEnd")

(* The network is disabled unless it is read disabled after a completed    *)
(* enabling.                                                               *)
CloseNetwork ==
    /\ pc = "closeNetwork"
    /\ UNCHANGED <<marker, tried, opened, heard>>
    /\ \/ opened /\ ~cloud["network"] /\ UNCHANGED hurt /\ Goto("finalStop")
       \/ Break /\ Goto("canaryEnd")
       \/ \E a \in Answers :
            /\ ~opened \/ cloud["network"]
            /\ Send("network", FALSE, a)
            /\ hurt' = (hurt \/ a # "ok" \/ ~opened)
            /\ pc' = IF a = "ok" THEN "closing" ELSE "canaryEnd"

Closing ==
    /\ pc = "closing"
    /\ UNCHANGED <<marker, tried, opened, heard>>
    /\ \/ /\ <<"network", FALSE>> \notin flight /\ ~cloud["network"]
          /\ UNCHANGED hurt
          /\ Goto("finalStop")
       \/ Break /\ Goto("canaryEnd")

(* The restoration is proven: the site must be stopped as well, and then   *)
(* the marker of a completed enabling is removed.                          *)
FinalStop ==
    /\ pc = "finalStop"
    /\ UNCHANGED <<marker, tried, opened, heard>>
    /\ \/ ~cloud["site"] /\ UNCHANGED hurt /\ Goto("clear")
       \/ Break /\ Goto("canaryEnd")
       \/ \E a \in Answers :
            /\ cloud["site"]
            /\ Send("site", FALSE, a)
            /\ hurt' = (hurt \/ a # "ok")
            /\ pc' = IF a = "ok" THEN "clear" ELSE "canaryEnd"

(* Mutant: a restoration clears the marker, however the enabling ended.    *)
ClearAlways ==
    /\ pc = "clear"
    /\ UNCHANGED <<tried, opened, heard>>
    /\ \/ ~cloud["site"] /\ marker' = FALSE /\ hurt' = (hurt \/ ~opened)
       \/ Break /\ UNCHANGED marker
    /\ Goto("canaryEnd")

ClearMarker ==
    /\ pc = "clear"
    /\ UNCHANGED <<tried, opened, heard>>
    /\ \/ /\ ~cloud["site"]
          /\ marker' = (marker /\ ~opened)
          /\ hurt' \in {TRUE, hurt \/ ~opened}
       \/ Break /\ UNCHANGED marker
    /\ Goto("canaryEnd")

CanaryNext ==
    /\ \/ CanaryMark \/ EnableNetwork \/ AwaitNetwork \/ Restop \/ EnableScm
       \/ StartSite \/ RunJob \/ CanaryStop \/ Census \/ CloseScm \/ Resolve
       \/ CloseNetwork \/ Closing \/ FinalStop \/ ClearMarker
    /\ UNCHANGED live

CanaryInit ==
    /\ marker = FALSE
    /\ tried = {}
    /\ opened = FALSE
    /\ heard = FALSE
    /\ hurt = FALSE

CanaryOK ==
    /\ marker \in BOOLEAN
    /\ tried \in SUBSET {"network", "scm", "site"}
    /\ opened \in BOOLEAN
    /\ heard \in BOOLEAN
    /\ hurt \in BOOLEAN
=============================================================================
