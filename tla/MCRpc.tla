------------------------------- MODULE MCRpc -------------------------------
(* rpc.c and two runs of app.c. *)
EXTENDS Rpc
============================================================================
