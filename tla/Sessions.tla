-------------------------------- MODULE Sessions --------------------------------
(* Two programs that own a bridge for the length of a session: the handoff *)
(* of the external controller, and the cleanup of the registry's bridge.   *)
(* They share nothing; a behaviour is one of either.                       *)
EXTENDS BridgeHandoff

CONSTANTS
    Runners,      \* runner sessions of the registry's bridge
    Generation,   \* the authority generation each of them runs under
    Watchers,     \* instances of the cleanup watcher
    MaxFence, MaxBeats, MaxFaults,   \* bounds
    None

VARIABLES
    program,  \* the one that runs
    state, late, bridge, revoked, fences, resultsWatcher, evidence, markers,
    runner, cleaner, beats, faults, closings

Watcher == INSTANCE CleanupWatcher WITH
    Cleaners <- Watchers, results <- resultsWatcher

(* None is a value of its own.                                             *)
Chosen ==
    /\ None \notin Watcher!Doc /\ None \notin Watcher!Assessment
    /\ MaxFence \in Nat /\ MaxBeats \in Nat /\ MaxFaults \in Nat

ASSUME SessionsOK == Chosen

watcherVars ==
    <<state, late, bridge, revoked, fences, resultsWatcher, evidence, markers,
      runner, cleaner, beats, faults, closings>>

EitherInit ==
    /\ program \in {"handoff", "cleanup"}
    /\ Init
    /\ Watcher!Init

Turn(p) == program = p /\ UNCHANGED program

EitherNext ==
    \/ Turn("handoff") /\ Next /\ UNCHANGED watcherVars
    \/ Turn("cleanup") /\ Watcher!Next /\ UNCHANGED vars

either == <<program, vars, watcherVars>>
EitherSpec == EitherInit /\ [][EitherNext]_either

-----------------------------------------------------------------------------
(* A session that is closed as sealed is so for good, although its runner  *)
(* may still hold a token, and the next session never overwrites the only  *)
(* record of a closing (CleanupWatcher).                                   *)
CleanupSafe == program = "cleanup" => Watcher!CleanupSafe

(* A slow cleaner records nothing in the claim of another one, and a late  *)
(* heartbeat does not bring back a session that was claimed                *)
(* (CleanupWatcher).                                                       *)
CleanupSteps == Watcher!CleanupSteps
=============================================================================
