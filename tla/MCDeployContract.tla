-------------------------- MODULE MCDeployContract ---------------------------
(***************************************************************************)
(* A deployment built one to three blocks after it was executed, on a      *)
(* chain of at most six blocks.                                             *)
(***************************************************************************)
EXTENDS DeployContract

MCDelays == 1 .. 3
=============================================================================
