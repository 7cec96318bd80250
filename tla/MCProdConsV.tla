---------------------------- MODULE MCProdConsV ----------------------------
(* producer_s.c and consumer_s.c, started and killed in different orders. *)
EXTENDS ProdConsV
============================================================================
