---------------------------- MODULE BoundedFifo ----------------------------
(***************************************************************************)
(* What every producer/consumer program of "6_Synchronization" promises:   *)
(* the items of one producer reach one consumer in the order they were     *)
(* produced, none lost, none twice, and never more than Capacity of them   *)
(* are on the way.  Item k is the k-th item the producer makes.            *)
(***************************************************************************)
EXTENDS Naturals, Sequences

CONSTANTS Capacity,   \* items that fit in the buffer
          Total       \* items the producer makes

VARIABLES sent,       \* how many items have been put into the buffer
          received    \* the items the consumer took, in order

fifoVars == <<sent, received>>

Init == /\ sent = 0
        /\ received = << >>

Send == /\ sent < Total
        /\ sent - Len(received) < Capacity
        /\ sent' = sent + 1
        /\ UNCHANGED received

Receive == /\ Len(received) < sent
           /\ received' = Append(received, Len(received) + 1)
           /\ UNCHANGED sent

Next == Send \/ Receive

Safety == Init /\ [][Next]_fifoVars

Spec == Safety /\ WF_fifoVars(Send) /\ WF_fifoVars(Receive)
============================================================================
