------------------------------- MODULE MCHandoff -------------------------------
(* One controller of the handoff and the cleanup after it, with the code's *)
(* own verifier, which fails for no other reason than the App Settings,    *)
(* and with whatever fairness could help the cleanup.                      *)
EXTENDS BridgeHandoff

CONSTANTS c1

(* Everywhere but between a last renewal and the request it protects.      *)
Punctual == Counter \ Window
=============================================================================
