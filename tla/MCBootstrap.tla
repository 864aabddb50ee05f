------------------------------ MODULE MCBootstrap ------------------------------
(* The bootstrap executor for TLC: the bound of MCBootstrap.cfg is all that  *)
(* it needs.                                                                 *)
EXTENDS BootstrapExecutor
================================================================================
