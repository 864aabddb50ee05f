-------------------------- MODULE MCActivationFence ---------------------------
(* Values of the constants of ActivationFence for TLC.                     *)
EXTENDS ActivationFence, TLC

CONSTANTS w1, w2

(* One candidate that replaces package a by b, and a rollback to a.        *)
MCReleases == {"candidate", "rollback"}
MCTarget == [r \in MCReleases |-> IF r = "candidate" THEN "b" ELSE "a"]
MCBaseline == [r \in MCReleases |-> "a"]
MCInitial == [pkg |-> "a", rest |-> "x"]
(* Everywhere but between a last renewal and the effect it protects.       *)
Punctual == Counter \ Window
Symmetry == Permutations(Workers)
=============================================================================
