---------------------------- MODULE MCLocalSend ------------------------------
(***************************************************************************)
(* Three calls for one account.  The clock outlives the ttl, one block is  *)
(* forked out and the process is restarted once.                           *)
(***************************************************************************)
EXTENDS LocalSend

CONSTANT a

MCAccount == [x \in Calls |-> a]

=============================================================================
