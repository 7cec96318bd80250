------------------------------ MODULE MCChatS ------------------------------
(* A small chat room: chats.c with fewer entries and a few short runs of chatc. *)
EXTENDS ChatS, TLC

Symmetry == Permutations(Peers)
=============================================================================
