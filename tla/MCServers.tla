----------------------------- MODULE MCServers -----------------------------
(* All servers with two TCP clients and a UDP client. *)
EXTENDS Servers
============================================================================
