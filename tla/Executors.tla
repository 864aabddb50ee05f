------------------------------- MODULE Executors -------------------------------
(* The programs that are to take effect once: the credential repin, the    *)
(* recoveries of the bridge's settings, of the bridge and of the role      *)
(* assignments, the key maintenance, the persistence of an accepted        *)
(* release, and the ledger of the bootstrap. They share nothing; a         *)
(* behaviour is one of them, run by several operators, processes or        *)
(* executions. The variables of the registry keep their names.             *)
EXTENDS Sequences, Registry

CONSTANTS
    Hosts,        \* of the repin
    Processes,    \* of the settings recovery
    Auths,        \* authorizations that they hold
    Recoveries,   \* of the bridge or the roles: one process for each
    Targets,      \* role assignments, in the order of their deletion
    Starts,       \* when the claimed key maintenance begins
    Procs,        \* of the ledger
    IntentOf, ResultOf,   \* the files of its journal
    MaxTroubles,  \* bound: MaxFaults where it is not the registry's
    MaxEdits, MaxReads, MaxRestarts, MaxMutations, MaxUndone   \* bounds

VARIABLES
    program,  \* the one that runs
    fic, claim, flightRepin, papers, pcRepin, seen, ledgerRepin, torn,
    faultsRepin,
    settings, broken, docSettings, ledgerSettings, terminalSettings, puts,
    flightSettings, edited, pcSettings, auth, tries, dead, faultsSettings,
    edits,
    site, marker, docBridge, ledgerBridge, issuedBridge, flightBridge,
    pcBridge, step, changed, faultsBridge, restarts,
    lockRole, present, docRole, used, issuedRole, intents, flightRole, pcRole,
    err, n, terminalRole, excused, faultsRole,
    now, claimed, there, lockKey, exp, flightKey, owned, uncertain, boundary,
    attempts, pcKey, renewal, failure, lateKey, receipt, faultsKey,
    view, safe, mode, pcLedger, atLedger, sent, next, net, status, admitted,
    power, faultsLedger

Repin == INSTANCE FicRepin WITH
    MaxFaults <- MaxTroubles, flight <- flightRepin, pc <- pcRepin,
    ledger <- ledgerRepin, faults <- faultsRepin

Settings == INSTANCE SettingsRecovery WITH
    Runs <- Processes, MaxFaults <- MaxTroubles, doc <- docSettings,
    ledger <- ledgerSettings,
    terminal <- terminalSettings, flight <- flightSettings, pc <- pcSettings,
    faults <- faultsSettings

Bridge == INSTANCE BridgeRecovery WITH
    Auths <- Recoveries, doc <- docBridge,
    ledger <- ledgerBridge, issued <- issuedBridge, flight <- flightBridge,
    pc <- pcBridge, faults <- faultsBridge

Role == INSTANCE RoleRecovery WITH
    Auths <- Recoveries, MaxFaults <- MaxTroubles,
    lock <- lockRole, doc <- docRole, issued <- issuedRole,
    flight <- flightRole, pc <- pcRole, terminal <- terminalRole,
    faults <- faultsRole

Key == INSTANCE KeyMaintenance WITH
    MaxFaults <- MaxTroubles, lock <- lockKey,
    flight <- flightKey, pc <- pcKey, late <- lateKey, faults <- faultsKey

Ledger == INSTANCE EvidenceLedger WITH
    MaxFaults <- MaxTroubles, pc <- pcLedger,
    at <- atLedger, faults <- faultsLedger

(* The settings are read back at least once; there is an assignment to     *)
(* delete, and none of them is a lock; the journal's files are no other    *)
(* files of the ledger.                                                    *)
ASSUME ExecutorsOK ==
    /\ MaxFaults \in Nat /\ MaxTroubles \in Nat
    /\ MaxEdits \in Nat /\ MaxRestarts \in Nat
    /\ MaxReads \in Nat \ {0}
    /\ Targets \in Seq(Role!Roles) /\ Targets # <<>>
    /\ {"unlock", "relock"} \cap Role!Roles = {}
    /\ Starts \subseteq Nat
    /\ MaxMutations \in Nat /\ MaxUndone \in Nat
    /\ {IntentOf, ResultOf} \subseteq [1..(MaxMutations + MaxUndone) -> STRING]
    /\ Ledger!Records(1..(MaxMutations + MaxUndone)) \cap
         ({"none", "dir", "state", "marker", "terminal"} \union Ledger!Written) = {}

repinVars ==
    <<fic, claim, flightRepin, papers, pcRepin, seen, ledgerRepin, torn,
      faultsRepin>>
settingsVars ==
    <<settings, broken, docSettings, ledgerSettings, terminalSettings, puts,
      flightSettings, edited, pcSettings, auth, tries, dead, faultsSettings,
      edits>>
bridgeVars ==
    <<site, marker, docBridge, ledgerBridge, issuedBridge, flightBridge,
      pcBridge, step, changed, faultsBridge, restarts>>
roleVars ==
    <<lockRole, present, docRole, used, issuedRole, intents, flightRole,
      pcRole, err, n, terminalRole, excused, faultsRole>>
keyVars ==
    <<now, claimed, there, lockKey, exp, flightKey, owned, uncertain,
      boundary, attempts, pcKey, renewal, failure, lateKey, receipt,
      faultsKey>>
ledgerVars ==
    <<view, safe, mode, pcLedger, atLedger, sent, next, net, status, admitted,
      power, faultsLedger>>

EitherInit ==
    /\ program \in {"repin", "settings", "bridge", "role", "key", "registry",
       "ledger"}
    /\ Repin!Init
    /\ Settings!Init
    /\ Bridge!Init
    /\ Role!Init
    /\ Key!Init
    /\ Init
    /\ Ledger!Init
    /\ program # "settings" => auth = [h \in Processes |-> CHOOSE a \in Auths : TRUE]
    /\ program # "key" => now = CHOOSE s \in Starts : TRUE
    /\ program # "registry" =>
           /\ grants = {}
           /\ bound = [p \in Runs |-> CHOOSE a \in Artifacts : TRUE]

Turn(p) == program = p /\ UNCHANGED program

EitherNext ==
    \/ Turn("repin") /\ Repin!Next /\ UNCHANGED <<settingsVars, bridgeVars,
           roleVars, keyVars, vars, ledgerVars>>
    \/ Turn("settings") /\ Settings!Next /\ UNCHANGED <<repinVars, bridgeVars,
           roleVars, keyVars, vars, ledgerVars>>
    \/ Turn("bridge") /\ Bridge!Next /\ UNCHANGED <<repinVars, settingsVars,
           roleVars, keyVars, vars, ledgerVars>>
    \/ Turn("role") /\ Role!Next /\ UNCHANGED <<repinVars, settingsVars,
           bridgeVars, keyVars, vars, ledgerVars>>
    \/ Turn("key") /\ Key!Next /\ UNCHANGED <<repinVars, settingsVars,
           bridgeVars, roleVars, vars, ledgerVars>>
    \/ Turn("registry") /\ Next /\ UNCHANGED <<repinVars,
           settingsVars, bridgeVars, roleVars, keyVars, ledgerVars>>
    \/ Turn("ledger") /\ Ledger!Next /\ UNCHANGED <<repinVars, settingsVars,
           bridgeVars, roleVars, keyVars, vars>>

either ==
    <<program, repinVars, settingsVars, bridgeVars, roleVars, keyVars,
      vars, ledgerVars>>
EitherSpec == EitherInit /\ [][EitherNext]_either

-----------------------------------------------------------------------------
(* Whatever hosts apply the authorization at a time and however late a     *)
(* lost request takes effect: the two credentials never exist together, a  *)
(* terminal receipt is true and stays so, and an emptied inventory has a   *)
(* record from which it can be resumed (FicRepin).                         *)
RepinSafe == program = "repin" => Repin!RepinSafe
(* However many processes hold one authorization and wherever they die,    *)
(* one PUT leaves them, after its durable intent, and the terminal record  *)
(* tells what became of it (SettingsRecovery).                             *)
SettingsSafe == program = "settings" => Settings!SettingsSafe
(* In whatever order the accepted changes take effect and Azure restarts   *)
(* the site: the settings are never empty behind an open door, the marker  *)
(* is archived only for a closed bridge, and each mutation is sent once    *)
(* after its intent (BridgeRecovery).                                      *)
BridgeSafe ==
    program = "bridge" =>
        /\ Bridge!TypeOK
        /\ Bridge!OrderSafe
        /\ Bridge!ArchivedTruth
        /\ Bridge!OnceEach
(* Whatever request or read fails between the suspension of the lock and   *)
(* the last deletion: the lock comes back, a success is true, and the      *)
(* deletions are made once and in order (RoleRecovery).                    *)
RoleSafe ==
    program = "role" =>
        /\ Role!TypeOK
        /\ Role!LockBack
        /\ Role!SuccessTruth
        /\ Role!InOrder
(* Whatever the setup spent and whichever answers are lost: the cleanup is *)
(* still in time, no grant that may exist is forgotten, PASS is true for   *)
(* good, and behind every receipt the lock is in place (KeyMaintenance).   *)
KeySafe ==
    program = "key" =>
        /\ Key!TypeOK
        /\ Key!ReceiptTruth
        /\ Key!CleanupFits
        /\ Key!NothingForgotten

(* Through dying processes and lost power between any two calls of the     *)
(* file system: one execution mutates, each mutation, those of its         *)
(* compensation included, has its durable intent, evidence is made of the  *)
(* complete journal of the plan, the bundle comes last, and an open        *)
(* network is durably marked (EvidenceLedger).                             *)
LedgerSafe ==
    program = "ledger" =>
        /\ Ledger!TypeOK
        /\ Ledger!SingleUse
        /\ Ledger!JournalAhead
        /\ Ledger!EvidenceFromJournal
        /\ Ledger!BundleLast
        /\ Ledger!OpenIsMarked
(* Of the settings that an administrator writes, the PUT replaces only     *)
(* those that were written after the last read of its run                  *)
(* (SettingsRecovery).                                                     *)
OnlyAcceptedRace == Settings!OnlyAcceptedRace
=============================================================================
