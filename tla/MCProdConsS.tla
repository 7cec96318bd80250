---------------------------- MODULE MCProdConsS ----------------------------
(* prodcons_s.c with the constants of prodcons.h. *)
EXTENDS ProdConsS
============================================================================
