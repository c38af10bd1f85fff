--------------------------- MODULE MCRpcTransport ----------------------------
(***************************************************************************)
(* RpcTransport with the client's own table of operations.                 *)
(***************************************************************************)
EXTENDS RpcTransport, DioxMethods

MCOperations == DOMAIN Table

=============================================================================
