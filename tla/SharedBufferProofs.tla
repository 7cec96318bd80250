-------------------------- MODULE SharedBufferProofs --------------------------
(***************************************************************************)
(* What a put and a get do to the slots, for every program that makes them *)
(* in turn and only when there is a free slot, or an item.                 *)
(***************************************************************************)
EXTENDS SharedBuffer, SequenceTheorems, TLAPS

Items == produced - Len(consumed)

Wrap(x) == IF x < MAX_BUF THEN x ELSE x - MAX_BUF

\* The types that hold whatever the two sides do.
Slotted == /\ buf \in [Slots -> Nat]
           /\ in \in Slots /\ out \in Slots
           /\ produced \in Nat
           /\ consumed \in Seq(Nat)

\* The items in the buffer are in the slots from out on, in order, and in is
\* the slot after them.
Window == /\ in = Wrap(out + Items)
          /\ \A k \in 0 .. Items - 1 :
                buf[Wrap(out + k)] = Len(consumed) + 1 + k

\* No slot holds an item that was not produced.
Genuine == \A s \in Slots : buf[s] <= produced

\* The next index of the ring is one more, or 0 after the last.
LEMMA ModStep == ASSUME NEW x \in Slots
                 PROVE  (x + 1) % MAX_BUF = Wrap(x + 1)
  BY BufferAssumption DEF Slots, Wrap

\* The k-th index from out is computed without the remainder.
LEMMA WrapIsMod == ASSUME NEW o \in Slots, NEW k \in 1..MAX_BUF
                   PROVE  (o + k - 1) % MAX_BUF = Wrap(o + (k - 1))
  BY BufferAssumption DEF Slots, Wrap

\* Distinct places of the window are distinct slots.
LEMMA WrapInjective == ASSUME NEW o \in Slots, NEW k \in Nat, NEW l \in Nat,
                              k < l, l < MAX_BUF
                       PROVE  Wrap(o + k) # Wrap(o + l)
  BY BufferAssumption DEF Wrap, Slots

\* The buffer's invariants hold at first.
LEMMA SlottedInit == BufInit => Slotted /\ Window /\ Genuine /\ InOrder
<1> SUFFICES ASSUME BufInit PROVE Slotted /\ Window /\ Genuine /\ InOrder
  OBVIOUS
<1>1. /\ in = 0 /\ out = 0 /\ produced = 0 /\ consumed = << >>
      /\ buf = [s \in Slots |-> 0]
  BY DEF BufInit
<1>2. Len(consumed) = 0 /\ DOMAIN consumed = {} /\ consumed \in Seq(Nat)
  <2>1. Len(consumed) = 0 /\ DOMAIN consumed = 1..0 /\ consumed \in Seq(Nat)
    BY <1>1, EmptySeq, LenProperties
  <2>2. QED
    BY <2>1
<1>3. Items = 0
  <2>1. produced = 0 /\ Len(consumed) = 0
    BY <1>1, <1>2
  <2>2. QED
    BY <2>1 DEF Items
<1>4. 0 \in Slots
  BY BufferAssumption DEF Slots
<1>5. Slotted /\ Genuine /\ InOrder
  BY <1>1, <1>2, <1>4 DEF Slotted, Genuine, InOrder
<1>6. Window
  BY <1>1, <1>3, BufferAssumption DEF Window, Wrap
<1>7. QED
  BY <1>5, <1>6

\* A put and a get keep the types.
LEMMA SlottedPut == Slotted /\ PutItem => Slotted'
<1> SUFFICES ASSUME Slotted, PutItem PROVE Slotted'
  OBVIOUS
<1>1. in' \in Slots
  BY ModStep, BufferAssumption DEF Slotted, PutItem, Slots, Wrap
<1>2. QED
  BY <1>1 DEF Slotted, PutItem

\* A Get keeps the indices within the buffer.
LEMMA SlottedGet == Slotted /\ GetItem => Slotted'
<1> SUFFICES ASSUME Slotted, GetItem PROVE Slotted'
  OBVIOUS
<1>1. out' \in Slots
  BY ModStep, BufferAssumption DEF Slotted, GetItem, Slots, Wrap
<1>2. QED
  BY <1>1 DEF Slotted, GetItem

\* A Put keeps the slots full of what was produced.
LEMMA GenuinePut == Slotted /\ Genuine /\ PutItem => Genuine'
<1> SUFFICES ASSUME Slotted, Genuine, PutItem PROVE Genuine'
  OBVIOUS
<1>1. /\ buf \in [Slots -> Nat] /\ produced \in Nat
      /\ \A s \in Slots : buf[s] <= produced /\ buf[s] \in Nat
  BY DEF Slotted, Genuine
<1>2. QED
  BY <1>1 DEF PutItem, Genuine

\* A put into a buffer that is not full adds its item behind the others.
LEMMA PutStep == Slotted /\ Window /\ Items \in 0 .. MAX_BUF - 1 /\ PutItem
                 => Window'
<1> SUFFICES ASSUME Slotted, Window, Items \in 0 .. MAX_BUF - 1, PutItem
             PROVE  Window'
  OBVIOUS
<1> USE BufferAssumption
<1>1. /\ buf' = [buf EXCEPT ![in] = produced + 1]
      /\ in' = Wrap(in + 1) /\ produced' = produced + 1
      /\ UNCHANGED <<out, consumed>>
  BY ModStep DEF Slotted, PutItem
<1>2. /\ Items \in Nat /\ Items < MAX_BUF /\ out \in Slots
      /\ Len(consumed) \in Nat /\ produced \in Nat
  BY DEF Slotted
<1>3. Items' = Items + 1
  BY <1>1, <1>2 DEF Items
<1>4. in' = Wrap(out' + Items')
  BY <1>1, <1>2, <1>3 DEF Window, Wrap, Slots
<1>5. ASSUME NEW k \in 0 .. Items' - 1
      PROVE  buf'[Wrap(out' + k)] = Len(consumed') + 1 + k
  <2>1. Wrap(out + k) \in Slots /\ buf \in [Slots -> Nat]
    BY <1>2, <1>3 DEF Wrap, Slots, Slotted
  <2>2. CASE k = Items
    BY <1>1, <1>2, <2>1, <2>2 DEF Window, Items
  <2>3. CASE k < Items
    <3>1. Wrap(out + k) # in
      BY <1>2, <2>3, WrapInjective DEF Window
    <3>2. buf'[Wrap(out + k)] = buf[Wrap(out + k)]
      BY <1>1, <2>1, <3>1
    <3>3. buf[Wrap(out + k)] = Len(consumed) + 1 + k
      BY <1>2, <2>3 DEF Window
    <3>4. QED
      BY <1>1, <3>2, <3>3
  <2>4. QED
    BY <1>2, <1>3, <2>2, <2>3
<1>6. QED
  BY <1>4, <1>5 DEF Window

\* A get from a buffer that is not empty returns the next item.
LEMMA GetStep == Slotted /\ Window /\ Items \in 1 .. MAX_BUF /\ GetItem =>
                   /\ Window'
                   /\ consumed' = Append(consumed, Len(consumed) + 1)
<1> SUFFICES ASSUME Slotted, Window, Items \in 1 .. MAX_BUF, GetItem
             PROVE  Window' /\ consumed' = Append(consumed, Len(consumed) + 1)
  OBVIOUS
<1> USE BufferAssumption
<1>1. /\ consumed' = Append(consumed, buf[out]) /\ out' = Wrap(out + 1)
      /\ UNCHANGED <<buf, in, produced>>
  BY ModStep DEF Slotted, GetItem
<1>2. /\ Items \in 1..MAX_BUF /\ out \in Slots
      /\ produced \in Nat /\ Len(consumed) \in Nat
  BY DEF Slotted
<1>3. /\ Len(consumed') = Len(consumed) + 1
      /\ Items' = Items - 1
  BY <1>1, <1>2 DEF Items, Slotted, Slots
<1>4. buf[out] = Len(consumed) + 1
  <2>1. Wrap(out + 0) = out
    BY <1>2 DEF Wrap, Slots
  <2>2. QED
    BY <1>2, <2>1 DEF Window
<1>5. in' = Wrap(out' + Items')
  BY <1>1, <1>2, <1>3 DEF Window, Wrap, Slots
<1>6. ASSUME NEW k \in 0 .. Items' - 1
      PROVE  buf'[Wrap(out' + k)] = Len(consumed') + 1 + k
  <2>1. Wrap(out' + k) = Wrap(out + (k + 1)) /\ k + 1 \in 0 .. Items - 1
    BY <1>1, <1>2, <1>3 DEF Wrap, Slots
  <2>2. QED
    BY <1>1, <1>2, <1>3, <2>1 DEF Window
<1>7. QED
  BY <1>1, <1>4, <1>5, <1>6 DEF Window

\* The next item in turn keeps the order of what was consumed.
LEMMA OrderStep == Slotted /\ InOrder
                   /\ consumed' = Append(consumed, Len(consumed) + 1) => InOrder'
  BY DEF Slotted, InOrder

\* What is read from the slots is in the range of what is in them.
LEMMA InRange == Slotted /\ Genuine /\ InOrder /\ Len(consumed) <= NLOOPS
                 /\ produced \in 0..NLOOPS =>
                   /\ buf \in [Slots -> 0..NLOOPS]
                   /\ consumed \in Seq(0..NLOOPS)
<1> SUFFICES ASSUME Slotted, Genuine, InOrder, Len(consumed) <= NLOOPS,
                    produced \in 0..NLOOPS
             PROVE  /\ buf \in [Slots -> 0..NLOOPS]
                    /\ consumed \in Seq(0..NLOOPS)
  OBVIOUS
<1>1. consumed \in Seq(0..NLOOPS)
  <2>1. \A k \in DOMAIN consumed : consumed[k] \in 0..NLOOPS
    BY BufferAssumption DEF Slotted, InOrder
  <2>2. /\ Len(consumed) \in Nat /\ DOMAIN consumed = 1..Len(consumed)
        /\ consumed \in [1..Len(consumed) -> Nat]
    BY LenProperties DEF Slotted
  <2>3. consumed \in [1..Len(consumed) -> 0..NLOOPS]
    BY <2>1, <2>2
  <2>4. QED
    BY <2>2, <2>3, SeqDef
<1>2. buf \in [Slots -> 0..NLOOPS]
  <2>1. \A s \in Slots : buf[s] \in Nat /\ buf[s] <= produced
    BY DEF Slotted, Genuine
  <2>2. \A s \in Slots : buf[s] \in 0..NLOOPS
    BY <2>1, BufferAssumption
  <2>3. QED
    BY <2>2 DEF Slotted
<1>3. QED
  BY <1>1, <1>2

==============================================================================
