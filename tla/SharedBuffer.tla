---------------------------- MODULE SharedBuffer ----------------------------
(***************************************************************************)
(* The buffer of "6_Synchronization/prodcons.h" and the accesses that the  *)
(* producer and the consumer of prodcons_t.c, prodcons_m.c, prodcons_s.c,  *)
(* producer.c, consumer.c, producer_s.c and consumer_s.c make to it.  The  *)
(* programs differ in what they do around these accesses.                  *)
(*                                                                         *)
(* counter is read and written by both sides, so counter++ and counter--   *)
(* are a load and a store.  in and the slot at in belong to the producer,  *)
(* out and the slot at out to the consumer: filling a slot and moving in   *)
(* is one step.                                                            *)
(***************************************************************************)
EXTENDS Integers, Sequences

CONSTANTS MAX_BUF,    \* slots of the buffer
          NLOOPS      \* items produced, and items consumed

ASSUME BufferAssumption == MAX_BUF \in Nat \ {0} /\ NLOOPS \in Nat \ {0}

VARIABLES buf, in, out, counter,   \* BoundedBufferType
          reg,        \* the value each side loaded for its update of counter
          produced,   \* how many items were put into a slot so far
          consumed    \* the items read from the slots so far

bufVars == <<buf, in, out, counter, reg, produced, consumed>>

Sides == {"Producer", "Consumer"}
Slots == 0 .. MAX_BUF - 1

\* A slot holds the number of the item in it, 0 before the first one.
BufInit == /\ buf = [s \in Slots |-> 0]
           /\ in = 0 /\ out = 0 /\ counter = 0
           /\ reg = [t \in Sides |-> 0]
           /\ produced = 0
           /\ consumed = << >>

\* A faulty PutItem: moves in before it fills the slot.
PutItemMovingFirst == /\ in' = (in + 1) % MAX_BUF
                      /\ buf' = [buf EXCEPT ![in'] = produced + 1]
                      /\ produced' = produced + 1
                      /\ UNCHANGED <<out, counter, reg, consumed>>

\* buf[in].data = data;  in = (in + 1) % MAX_BUF
PutItem == /\ buf' = [buf EXCEPT ![in] = produced + 1]
           /\ in' = (in + 1) % MAX_BUF
           /\ produced' = produced + 1
           /\ UNCHANGED <<out, counter, reg, consumed>>

\* data = buf[out].data;  out = (out + 1) % MAX_BUF
GetItem == /\ consumed' = Append(consumed, buf[out])
           /\ out' = (out + 1) % MAX_BUF
           /\ UNCHANGED <<buf, in, counter, reg, produced>>

AccessItem(t) == \/ t = "Producer" /\ PutItem
                 \/ t = "Consumer" /\ GetItem

LoadCounter(t) == /\ reg' = [reg EXCEPT ![t] = counter]
                  /\ UNCHANGED <<buf, in, out, counter, produced, consumed>>

Update == [Producer |-> 1, Consumer |-> -1]

StoreCounter(t) == /\ counter' = reg[t] + Update[t]
                   /\ UNCHANGED <<buf, in, out, reg, produced, consumed>>

\* The condition under which side t waits.
MustWait == [Producer |-> MAX_BUF, Consumer |-> 0]

BufTypeOK == /\ buf \in [Slots -> 0..NLOOPS]
             /\ in \in Slots /\ out \in Slots
             /\ counter \in 0..MAX_BUF
             /\ reg \in [Sides -> 0..MAX_BUF]
             /\ produced \in 0..NLOOPS
             /\ consumed \in Seq(0..NLOOPS)

\* What the consumer has read so far is exactly the first items, in order.
InOrder == \A k \in DOMAIN consumed : consumed[k] = k

Fifo == INSTANCE BoundedFifo WITH Capacity <- MAX_BUF, Total <- NLOOPS,
                                  sent <- produced, received <- consumed
=============================================================================
