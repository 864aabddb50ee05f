--------------------------- MODULE SettingsRecovery ---------------------------
(***************************************************************************)
(* private_release_v2_bridge_settings_recovery: one PUT restores the empty *)
(* App Settings map of the stopped bridge after the incident.  Several     *)
(* processes may apply one reviewed authorization; they share its ledger   *)
(* directory and the site, which an administrator may write at any time.   *)
(***************************************************************************)
EXTENDS Naturals, FiniteSets

CONSTANTS
    Auths, Runs,
    MaxFaults,    \* bound: lost answers, processes dead
    MaxEdits,     \* bound: writes of the administrator
    MaxReads      \* bound: the 20 readbacks

VARIABLES
    settings,  \* the App Settings map
    broken,    \* what no longer has its reviewed value
    doc,       \* authorization -> its documents
    ledger,    \* authorization -> the files in its directory, "dir" included
    terminal,  \* authorization -> the status of terminal.json
    puts,      \* authorization -> PUT requests that left the process
    flight,    \* authorizations whose PUT takes effect later
    edited,    \* authorization -> a write since its run's last look at it
    pc, auth, tries,
    dead,      \* authorizations whose process died
    faults, edits

vars == <<settings, broken, doc, ledger, terminal, puts, flight, edited, pc,
          auth, tries, dead, faults, edits>>

Facts    == {"site", "storage", "access", "lock"}
Files    == {"dir", "claim", "intent", "result", "terminal"}
Failures == {"failedBefore", "ambiguous", "unresolved", "failedAfter"}
Labels   == {"idle", "claim", "safety", "finalSite", "finalMap", "intent",
             "put", "answered", "refused", "back", "complete"}

(* classify_settings: by the digests of the whole map and of its wrapper.  *)
Classify(map) == CASE map = "empty"    -> "empty-source-prestate"
                   [] map = "incident" -> "exact-azure-normalized-incident-map"
                   [] OTHER            -> "third-state-untouched"

(* validate_site: stopped, private, with its two identities.               *)
SiteExact    == "site" \notin broken
(* validate_storage: the network admits the one subnet.                    *)
StorageExact == "storage" \notin broken
(* require_absence: the temporary assignments and role definition are gone. *)
AccessGone   == "access" \notin broken
(* validate_lock: both CanNotDelete locks have their reviewed notes.       *)
LocksExact   == "lock" \notin broken

(* validate_control: the incident map's control setting is the attempted   *)
(* one less its final line feed, so no other map passes for it.            *)
ControlExact == settings = "incident"

(* observe_safety, with the map it finds.                                  *)
Safety(state) ==
    /\ SiteExact /\ StorageExact /\ AccessGone /\ LocksExact
    /\ Classify(settings) = state
    /\ state = "exact-azure-normalized-incident-map" => ControlExact

Incident == "exact-azure-normalized-incident-map"
Empty    == "empty-source-prestate"

Go(r, label) == pc' = [pc EXCEPT ![r] = label]

(* write_durable_ledger_file: a file is created once and synced, with its  *)
(* directory; a process that dies before has left nothing that counts.     *)
Write(a, f) == /\ f \notin ledger[a]
               /\ ledger' = [ledger EXCEPT ![a] = @ \union {f}]

(* terminal.json closes the authorization, with its status.                *)
Close(r, status) ==
    /\ Write(auth[r], "terminal")
    /\ terminal' = [terminal EXCEPT ![auth[r]] = status]
    /\ Go(r, "idle")

Azure == <<settings, broken, flight>>
Rest  == <<doc, auth, dead, faults, edits>>

(***************************************************************************)
(* The documents                                                           *)
(***************************************************************************)

(* observe: a read-only look that names a fresh authorization.             *)
Observe(a) ==
    /\ doc[a] = "none"
    /\ Safety(Incident)
    /\ doc' = [doc EXCEPT ![a] = "observed"]
    /\ UNCHANGED <<Azure, ledger, terminal, puts, edited, pc, auth, tries, dead, faults, edits>>

(* The user confirms the exact phrase in a file of its own.                *)
Confirm(a) ==
    /\ doc[a] = "observed"
    /\ doc' = [doc EXCEPT ![a] = "confirmed"]
    /\ UNCHANGED <<Azure, ledger, terminal, puts, edited, pc, auth, tries, dead, faults, edits>>

(* The window passes, or the source is changed after the review.           *)
Expire(a) ==
    /\ doc[a] \in {"observed", "confirmed"}
    /\ doc' = [doc EXCEPT ![a] = "stale"]
    /\ UNCHANGED <<Azure, ledger, terminal, puts, edited, pc, auth, tries, dead, faults, edits>>

(* validate_template: the documents bind one another and are in time.      *)
Live(a) == doc[a] \in {"observed", "confirmed"}

(***************************************************************************)
(* apply                                                                   *)
(***************************************************************************)

(* Live, confirmed, unused, and everything as it was reviewed.             *)
Begin(r, a) ==
    /\ pc[r] = "idle"
    /\ Live(a) /\ doc[a] = "confirmed"
    /\ "dir" \notin ledger[a]
    /\ Safety(Incident)
    /\ auth' = [auth EXCEPT ![r] = a]
    /\ Go(r, "claim")
    /\ UNCHANGED <<Azure, doc, ledger, terminal, puts, edited, tries, dead, faults, edits>>

(* create_durable_ledger: mkdir admits one process; then the claim file.   *)
Claim(r) ==
    /\ pc[r] = "claim"
    /\ IF "dir" \in ledger[auth[r]]
       THEN Go(r, "idle") /\ UNCHANGED ledger
       ELSE Go(r, "safety") /\ Write(auth[r], "dir")
    /\ UNCHANGED <<Azure, Rest, terminal, puts, edited, tries>>

(* single-use-state.json, then everything is read again.                   *)
FinalSafety(r) ==
    /\ pc[r] = "safety"
    /\ \/ "claim" \notin ledger[auth[r]]
          /\ Write(auth[r], "claim") /\ UNCHANGED <<terminal, pc>>
       \/ /\ "claim" \in ledger[auth[r]]
          /\ IF Safety(Incident) THEN Go(r, "finalSite") /\ UNCHANGED <<ledger, terminal>>
                                 ELSE Close(r, "failedBefore")
    /\ UNCHANGED <<Azure, Rest, puts, edited, tries>>

(* observe_final_mutation_boundary: the stopped site, then the map.        *)
FinalSite(r) ==
    /\ pc[r] = "finalSite"
    /\ IF SiteExact THEN Go(r, "finalMap") /\ UNCHANGED <<ledger, terminal>>
                    ELSE Close(r, "failedBefore")
    /\ UNCHANGED <<Azure, Rest, puts, edited, tries>>

(* Mutant: the map is not read again next to the PUT.                      *)
FinalMapSkipped(r) ==
    /\ pc[r] = "finalMap"
    /\ Go(r, "intent")
    /\ edited' = [edited EXCEPT ![auth[r]] = FALSE]
    /\ UNCHANGED <<Azure, Rest, ledger, terminal, puts, tries>>

FinalMap(r) ==
    /\ pc[r] = "finalMap"
    /\ IF Classify(settings) = Incident
       THEN /\ Go(r, "intent")
            /\ edited' = [edited EXCEPT ![auth[r]] = FALSE]
            /\ UNCHANGED <<ledger, terminal>>
       ELSE Close(r, "failedBefore") /\ UNCHANGED edited
    /\ UNCHANGED <<Azure, Rest, puts, tries>>

(* Mutant: the intent is journaled with the result.                        *)
IntentLater(r) ==
    /\ pc[r] = "intent"
    /\ Go(r, "put")
    /\ UNCHANGED <<Azure, Rest, ledger, terminal, puts, edited, tries>>

Intent(r) ==
    /\ pc[r] = "intent"
    /\ Write(auth[r], "intent")
    /\ Go(r, "put")
    /\ UNCHANGED <<Azure, Rest, terminal, puts, edited, tries>>

Fault == faults < MaxFaults /\ faults' = faults + 1

(* Mutant: a PUT whose answer is lost is sent again.                       *)
PutAgain(r) ==
    /\ pc[r] = "put"
    /\ puts' = [puts EXCEPT ![auth[r]] = @ + 1]
    /\ \/ Go(r, "answered") /\ settings' = "empty" /\ UNCHANGED faults
       \/ Fault /\ settings' \in {settings, "empty"} /\ UNCHANGED pc
    /\ UNCHANGED <<flight, ledger, terminal, broken, doc, edited, auth, tries, dead, edits>>

(* RecoveryBoundSession admits the one full-map PUT, before the deadline.  *)
(* Azure answers 200, answers something else with or without the effect,   *)
(* or the answer is lost and the effect, if any, may come later.           *)
Put(r) ==
    LET a == auth[r] IN
    /\ pc[r] = "put"
    /\ \/ /\ doc[a] = "stale"
          /\ Close(r, "ambiguous")
          /\ UNCHANGED <<settings, flight, puts, faults>>
       \/ /\ Live(a)
          /\ puts' = [puts EXCEPT ![a] = @ + 1]
          /\ \/ Go(r, "answered") /\ settings' = "empty" /\ UNCHANGED <<flight, faults, ledger, terminal>>
             \/ /\ Fault
                /\ Go(r, "refused")
                /\ settings' \in {settings, "empty"}
                /\ UNCHANGED <<flight, ledger, terminal>>
             \/ /\ Fault
                /\ Close(r, "ambiguous")
                /\ \/ settings' \in {settings, "empty"} /\ UNCHANGED flight
                   \/ flight' = flight \union {a} /\ UNCHANGED settings
    /\ UNCHANGED <<broken, doc, edited, auth, tries, dead, edits>>

(* mutation-result.json is on disk before anything is read back.           *)
Result(r) ==
    /\ pc[r] = "answered"
    /\ Write(auth[r], "result")
    /\ Go(r, "back")
    /\ tries' = [tries EXCEPT ![r] = 0]
    /\ UNCHANGED <<Azure, Rest, terminal, puts, edited>>

(* After another status than 200 the state is read once.                   *)
Refused(r) ==
    /\ pc[r] = "refused"
    /\ \/ /\ "result" \notin ledger[auth[r]]
          /\ Write(auth[r], "result")
          /\ UNCHANGED <<terminal, pc>>
       \/ /\ "result" \in ledger[auth[r]]
          /\ IF Safety(Empty) THEN Go(r, "complete") /\ UNCHANGED <<ledger, terminal>>
                              ELSE Close(r, "unresolved")
    /\ UNCHANGED <<Azure, Rest, puts, edited, tries>>

(* Mutant: the readback is repeated until the map is empty.                *)
ReadBackForever(r) ==
    /\ pc[r] = "back"
    /\ IF Safety(Empty) THEN Go(r, "complete") ELSE UNCHANGED pc
    /\ UNCHANGED <<Azure, Rest, ledger, terminal, puts, edited, tries>>

(* Mutant: one readback too many.                                          *)
ReadBackPast(r) ==
    LET again == Classify(settings) # Empty /\ tries[r] < MaxReads IN
    /\ pc[r] = "back"
    /\ \/ Safety(Empty) /\ Go(r, "complete") /\ UNCHANGED <<ledger, terminal, tries>>
       \/ ~Safety(Empty) /\ again
          /\ tries' = [tries EXCEPT ![r] = @ + 1] /\ UNCHANGED <<ledger, terminal, pc>>
       \/ ~Safety(Empty) /\ ~again
          /\ Close(r, "failedAfter") /\ UNCHANGED tries
    /\ UNCHANGED <<Azure, Rest, puts, edited>>

(* A map that is not yet empty is read again; any other drift is final.    *)
ReadBack(r) ==
    LET again == Classify(settings) # Empty /\ tries[r] + 1 < MaxReads
                 /\ SiteExact /\ StorageExact /\ AccessGone /\ LocksExact IN
    /\ pc[r] = "back"
    /\ \/ Safety(Empty) /\ Go(r, "complete") /\ UNCHANGED <<ledger, terminal, tries>>
       \/ ~Safety(Empty) /\ again
          /\ tries' = [tries EXCEPT ![r] = @ + 1] /\ UNCHANGED <<ledger, terminal, pc>>
       \/ ~Safety(Empty) /\ ~again
          /\ Close(r, "failedAfter") /\ UNCHANGED tries
    /\ UNCHANGED <<Azure, Rest, puts, edited>>

Complete(r) ==
    /\ pc[r] = "complete"
    /\ Close(r, "complete")
    /\ UNCHANGED <<Azure, Rest, puts, edited, tries>>

Step(r) == \/ Claim(r) \/ FinalSafety(r) \/ FinalSite(r) \/ FinalMap(r) \/ Intent(r)
           \/ Put(r) \/ Result(r) \/ Refused(r) \/ ReadBack(r) \/ Complete(r)

(***************************************************************************)
(* The environment                                                         *)
(***************************************************************************)

Edit ==
    /\ edits < MaxEdits
    /\ edits' = edits + 1
    /\ \/ settings' \in {"other", "incident"} \ {settings} /\ UNCHANGED broken
          /\ edited' = [a \in Auths |-> TRUE]
       \/ \E f \in Facts : /\ broken' = IF f \in broken THEN broken \ {f} ELSE broken \union {f}
                           /\ UNCHANGED <<settings, edited>>
    /\ UNCHANGED <<flight, doc, ledger, terminal, puts, pc, auth, tries, dead, faults>>

Land(a) ==
    /\ a \in flight
    /\ flight' = flight \ {a}
    /\ settings' = "empty"
    /\ UNCHANGED <<broken, doc, ledger, terminal, puts, edited, pc, auth, tries, dead, faults, edits>>

Crash(r) ==
    /\ pc[r] # "idle"
    /\ Fault
    /\ Go(r, "idle")
    /\ dead' = dead \union {auth[r]}
    /\ UNCHANGED <<Azure, doc, ledger, terminal, puts, edited, auth, tries, edits>>

(* The incident left its map on the stopped bridge.                        *)
Init ==
    /\ settings = "incident"
    /\ broken = {}
    /\ doc = [a \in Auths |-> "none"]
    /\ ledger = [a \in Auths |-> {}]
    /\ terminal = [a \in Auths |-> "none"]
    /\ puts = [a \in Auths |-> 0]
    /\ flight = {}
    /\ edited = [a \in Auths |-> FALSE]
    /\ pc = [r \in Runs |-> "idle"]
    /\ auth \in [Runs -> Auths]
    /\ tries = [r \in Runs |-> 0]
    /\ dead = {}
    /\ faults = 0 /\ edits = 0

Next == \/ \E a \in Auths : Observe(a) \/ Confirm(a) \/ Expire(a) \/ Land(a)
        \/ \E r \in Runs, a \in Auths : Begin(r, a)
        \/ \E r \in Runs : Step(r) \/ Crash(r)
        \/ Edit

Spec == Init /\ [][Next]_vars

(* A process that runs takes its next step.                                *)
Fairness == \A r \in Runs : WF_vars(Step(r))
FairSpec == Spec /\ Fairness

(***************************************************************************)
(* Properties                                                              *)
(***************************************************************************)

(* Every variable stays in its domain.                                     *)
TypeOK ==
    /\ settings \in {"incident", "empty", "other"} /\ broken \subseteq Facts
    /\ doc \in [Auths -> {"none", "observed", "confirmed", "stale"}]
    /\ ledger \in [Auths -> SUBSET Files]
    /\ terminal \in [Auths -> Failures \union {"none", "complete"}]
    /\ puts \in [Auths -> Nat] /\ flight \subseteq Auths
    /\ edited \in [Auths -> BOOLEAN]
    /\ pc \in [Runs -> Labels] /\ auth \in [Runs -> Auths]
    /\ tries \in [Runs -> 0..(MaxReads - 1)]
    /\ dead \subseteq Auths /\ faults \in 0..MaxFaults /\ edits \in 0..MaxEdits

(* apply's "at most once" PUT: however many processes hold the             *)
(* authorization and wherever they die, one request leaves them.           *)
OnePut == \A a \in Auths : puts[a] <= 1

(* The ledger tells what happened: a request is preceded by the durable    *)
(* intent, "failed before" excludes one, and "complete" has its result.    *)
LedgerTruth ==
    \A a \in Auths :
        /\ puts[a] > 0 => {"claim", "intent"} \subseteq ledger[a]
        /\ terminal[a] = "failedBefore" => puts[a] = 0 /\ "intent" \notin ledger[a]
        /\ terminal[a] \in {"complete", "unresolved", "failedAfter"} =>
               puts[a] = 1 /\ {"intent", "result", "terminal"} \subseteq ledger[a]

(* However many processes hold one authorization and wherever they die,    *)
(* one PUT leaves them, after its durable intent, and the terminal record  *)
(* tells what became of it.                                                *)
SettingsSafe == TypeOK /\ OnePut /\ LedgerTruth

(* The race the confirmation phrase accepts is the only one: the PUT       *)
(* replaces another map than the incident's or the empty one only if it    *)
(* was written after the run's final adjacent read.                        *)
OnlyAcceptedRace ==
    [][ settings = "other" /\ settings' = "empty"
        => \E a \in Auths : /\ puts'[a] # puts[a] \/ a \in flight \ flight'
                            /\ edited[a] ]_vars

(* A used authorization is closed by a terminal record, unless its process *)
(* died: no outcome leaves the readback loop running.                      *)
Closed == \A a \in Auths : "dir" \in ledger[a] ~> (terminal[a] # "none" \/ a \in dead)
===============================================================================
