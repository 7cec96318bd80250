---------------------------- MODULE MCProdConsM ----------------------------
(* prodcons_m.c with the constants of prodcons.h and two spurious wakeups. *)
EXTENDS ProdConsM
============================================================================
