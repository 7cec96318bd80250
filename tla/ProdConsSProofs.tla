--------------------------- MODULE ProdConsSProofs ---------------------------
(***************************************************************************)
(* Proofs about ProdConsS, for any size of the buffer and any number of    *)
(* items.                                                                  *)
(***************************************************************************)
EXTENDS ProdConsS, SharedBufferProofs

------------------------------------------------------------------------------
(* The inductive invariant *)

\* TypeOK without the upper bounds, which depend on the semaphores.
Shape == /\ Slotted
         /\ counter \in Int
         /\ reg \in [Sides -> Int]
         /\ sem \in [Semaphores -> Nat]
         /\ pc \in [Sides \cup {"main"} -> SideLabels \cup MainLabels]
         /\ \A t \in Sides : pc[t] \in SideLabels
         /\ pc["main"] \in MainLabels
         /\ i \in [Sides -> 0..NLOOPS]

\* A side that has moved its item and not yet posted its token.
Moved == {"load", "store", "postMutex", "postToken"}

\* The mutex is free or held by one of the two.
MutexInv == sem["Mutex"] + Bit(pc["Producer"] \in InMutex)
                         + Bit(pc["Consumer"] \in InMutex) = 1

\* FullSem counts the items whose token the consumer has not taken yet.
FullInv == sem["Full"] = Items - Bit(pc["Producer"] \in Moved)
                               - Bit(pc["Consumer"] \in {"waitMutex", "access"})

\* The loop counters follow the items.
LoopInv == /\ i["Producer"] = produced - Bit(pc["Producer"] \in Moved)
           /\ i["Consumer"] = Len(consumed) - Bit(pc["Consumer"] \in Moved)
           /\ \A t \in Sides :
                /\ pc[t] \notin {"loop", "exited"} => i[t] < NLOOPS
                /\ pc[t] = "exited" => i[t] = NLOOPS

\* What a side loaded stays the value of counter until the side stores.
RegInv == \A t \in Sides : pc[t] = "store" => reg[t] = counter

JoinInv == /\ pc["main"] # "join1" => pc["Producer"] = "exited"
           /\ pc["main"] \in {"destroy", "returned"} =>
                pc["Consumer"] = "exited"

Books == /\ MutexInv /\ TokensConserved /\ FullInv /\ LoopInv
         /\ CounterExact /\ RegInv /\ JoinInv

Control == Shape /\ Books

\* A loaded value is one that counter may have.
RegRange == \A t \in Sides : reg[t] \in 0..MAX_BUF

IInv == Control /\ Window /\ Genuine /\ InOrder /\ RegRange

------------------------------------------------------------------------------
(* Lemmas *)

USE DEF Bit

\* The number of items in the buffer is bounded by the tokens.
LEMMA ItemsBound == Control => /\ Items \in 0..MAX_BUF
                               /\ pc["Producer"] = "access" => Items < MAX_BUF
                               /\ pc["Consumer"] = "access" => Items > 0
<1> SUFFICES ASSUME Control
             PROVE  /\ Items \in 0..MAX_BUF
                    /\ pc["Producer"] = "access" => Items < MAX_BUF
                    /\ pc["Consumer"] = "access" => Items > 0
  OBVIOUS
<1>1. /\ sem["Empty"] \in Nat /\ sem["Full"] \in Nat
      /\ produced \in Nat /\ Len(consumed) \in Nat
  BY DEF Control, Shape, Slotted, Semaphores
<1>2. Items = sem["Full"] + Bit(pc["Producer"] \in Moved)
                          + Bit(pc["Consumer"] \in {"waitMutex", "access"})
  BY <1>1 DEF Control, Books, FullInv, Items
<1>3. sem["Full"] <= MAX_BUF - Holds("Producer") - Holds("Consumer")
  BY <1>1, BufferAssumption DEF Control, Books, TokensConserved, Holds
<1>4. QED
  BY <1>1, <1>2, <1>3, BufferAssumption, SMTT(40) DEF Holds, Moved, InMutex

\* counter is in the range of the buffer, whatever the two sides are doing.
LEMMA CounterRange == Control => counter \in 0..MAX_BUF
<1> SUFFICES ASSUME Control PROVE counter \in 0..MAX_BUF
  OBVIOUS
<1>1. /\ sem["Empty"] \in Nat /\ sem["Full"] \in Nat /\ counter \in Int
      /\ produced \in Nat /\ Len(consumed) \in Nat
  BY DEF Control, Shape, Slotted, Semaphores
<1>2. /\ sem["Full"] + Holds("Producer") + Holds("Consumer") <= MAX_BUF
      /\ counter = sem["Full"] + Bit(pc["Producer"] \in Moved)
                   + Bit(pc["Consumer"] \in {"waitMutex", "access"})
                   - Bit(pc["Producer"] \in {"load", "store"})
                   + Bit(pc["Consumer"] \in {"load", "store"})
  BY <1>1, BufferAssumption, SMTT(40)
      DEF Control, Books, TokensConserved, FullInv, CounterExact, Items, Holds
<1>3. /\ Bit(pc["Producer"] \in {"load", "store"}) <= Bit(pc["Producer"] \in Moved)
      /\ Bit(pc["Producer"] \in Moved) <= Holds("Producer")
  BY DEF Holds, Moved, InMutex
<1>4. Bit(pc["Consumer"] \in {"waitMutex", "access"})
      + Bit(pc["Consumer"] \in {"load", "store"}) <= Holds("Consumer")
  BY DEF Holds, InMutex
<1>5. QED
  BY <1>1, <1>2, <1>3, <1>4, BufferAssumption, SMTT(40) DEF Holds

\* The control invariant holds at first.
LEMMA ControlInit == Init => Control
  BY BufferAssumption
     DEF Init, BufInit, Control, Books, Shape, Slotted, MutexInv,
         TokensConserved, FullInv, LoopInv, CounterExact, RegInv, JoinInv, Items, Moved, Holds, Sides,
         Slots, Semaphores, SideLabels, MainLabels, InMutex

\* Every step preserves the types.
LEMMA ShapeStep == Shape /\ LoopInv /\ [Next]_vars => Shape'
<1> SUFFICES ASSUME Shape, LoopInv, [Next]_vars PROVE Shape'
  OBVIOUS
<1>1. ASSUME NEW s \in Semaphores, Wait(s) \/ Post(s)
      PROVE  sem' \in [Semaphores -> Nat]
  <2>1. sem \in [Semaphores -> Nat]
    BY DEF Shape
  <2>2. CASE Wait(s)
    BY <2>1, <2>2 DEF Wait
  <2>3. CASE Post(s)
    BY <2>1, <2>3 DEF Post
  <2>4. QED
    BY <1>1, <2>2, <2>3
<1>2. \A t \in Sides : /\ WaitsFor[t] \in Semaphores
                       /\ Posts[t] \in Semaphores
                       /\ t # "main" /\ t \in Sides \cup {"main"}
  BY DEF Sides, Semaphores, WaitsFor, Posts
<1>3. "Mutex" \in Semaphores
  BY DEF Semaphores
<1> USE BufferAssumption DEF Shape, Slotted, Goto, SideLabels, MainLabels, InMutex
<1>4. ASSUME NEW t \in Sides, WaitToken(t) \/ WaitMutex(t) \/ PostMutex(t)
      PROVE  Shape'
  BY <1>1, <1>2, <1>3, <1>4, ZenonT(40) DEF WaitToken, WaitMutex, PostMutex, bufVars
<1>5. ASSUME NEW t \in Sides, PostToken(t) PROVE Shape'
  <2>1. i' \in [Sides -> 0..NLOOPS]
    <3>1. i[t] < NLOOPS
      BY <1>5 DEF PostToken, LoopInv
    <3>2. i[t] \in 0..NLOOPS /\ NLOOPS \in Nat
      OBVIOUS
    <3>3. i[t] + 1 \in 0..NLOOPS
      BY <3>1, <3>2
    <3>4. QED
      BY <1>5, <3>3 DEF PostToken
  <2>2. sem' \in [Semaphores -> Nat]
    BY <1>1, <1>2, <1>5 DEF PostToken
  <2>3. QED
    BY <1>2, <1>5, <2>1, <2>2 DEF PostToken, bufVars
<1>6. ASSUME NEW t \in Sides, Access(t) PROVE Shape'
  <2>1. Slotted'
    BY <1>6, SlottedPut, SlottedGet DEF Access, AccessItem
  <2>2. UNCHANGED <<counter, reg>>
    BY <1>6 DEF Access, AccessItem, PutItem, GetItem
  <2>3. QED
    BY <1>2, <1>6, <2>1, <2>2 DEF Access
<1>7. ASSUME NEW t \in Sides, Load(t) PROVE Shape'
  BY <1>2, <1>7 DEF Load, LoadCounter
<1>8. ASSUME NEW t \in Sides, Store(t) PROVE Shape'
  <2>1. Update[t] \in Int
    BY DEF Update, Sides
  <2>2. QED
    BY <1>2, <1>8, <2>1, SMTT(40) DEF Store, StoreCounter
<1>9. ASSUME NEW t \in Sides, Exit(t) PROVE Shape'
  BY <1>2, <1>9 DEF Exit, bufVars
<1>10. CASE Main
  BY <1>2, <1>10, ZenonT(40) DEF Main, Join, Destroy, bufVars
<1>11. CASE UNCHANGED vars
  BY <1>11 DEF vars, bufVars
<1>12. QED
  BY <1>4, <1>5, <1>6, <1>7, <1>8, <1>9, <1>10, <1>11 DEF Next, Side, Ended

\* Only the holder of the mutex posts it.
LEMMA MutexInvStep == Shape /\ MutexInv /\ [Next]_vars => MutexInv'
<1> SUFFICES ASSUME Shape, MutexInv, [Next]_vars
             PROVE  MutexInv'
  OBVIOUS
<1>0. /\ pc \in [Sides \cup {"main"} -> SideLabels \cup MainLabels]
      /\ sem \in [Semaphores -> Nat]
  BY DEF Shape
<1> USE <1>0 DEF MutexInv, Semaphores, InMutex, Sides, Goto
<1>1. ASSUME NEW t \in Sides, WaitToken(t) PROVE MutexInv'
  <2>1. CASE t = "Producer"
    BY <1>1, <2>1 DEF WaitToken, WaitsFor, Wait, bufVars
  <2>2. CASE t = "Consumer"
    BY <1>1, <2>2 DEF WaitToken, WaitsFor, Wait, bufVars
  <2>3. QED
    BY <2>1, <2>2
<1>2. ASSUME NEW t \in Sides, WaitMutex(t) PROVE MutexInv'
  BY <1>2 DEF WaitMutex, Wait, bufVars
<1>3. ASSUME NEW t \in Sides, Access(t) PROVE MutexInv'
  BY <1>3 DEF Access, AccessItem, PutItem, GetItem
<1>4. ASSUME NEW t \in Sides, Load(t) PROVE MutexInv'
  BY <1>4 DEF Load, LoadCounter
<1>5. ASSUME NEW t \in Sides, Store(t) PROVE MutexInv'
  BY <1>5 DEF Store, StoreCounter, Update
<1>6. ASSUME NEW t \in Sides, PostMutex(t) PROVE MutexInv'
  BY <1>6 DEF PostMutex, Post, bufVars
<1>7. ASSUME NEW t \in Sides, PostToken(t) PROVE MutexInv'
  <2>1. CASE t = "Producer"
    BY <1>7, <2>1 DEF PostToken, Posts, Post, bufVars
  <2>2. CASE t = "Consumer"
    BY <1>7, <2>2 DEF PostToken, Posts, Post, bufVars
  <2>3. QED
    BY <2>1, <2>2
<1>8. ASSUME NEW t \in Sides, Exit(t) PROVE MutexInv'
  BY <1>8 DEF Exit, bufVars
<1>9. CASE Main
  BY <1>9 DEF Main, Join, Destroy, bufVars
<1>10. CASE UNCHANGED vars
  BY <1>10 DEF vars, bufVars
<1>11. QED
  BY <1>1, <1>2, <1>3, <1>4, <1>5, <1>6, <1>7, <1>8, <1>9, <1>10
     DEF Next, Side, Ended

\* A side trades its token for one of the other kind.
LEMMA TokensConservedStep == Shape /\ TokensConserved /\ [Next]_vars
                             => TokensConserved'
<1> SUFFICES ASSUME Shape, TokensConserved, [Next]_vars
             PROVE  TokensConserved'
  OBVIOUS
<1>0. /\ pc \in [Sides \cup {"main"} -> SideLabels \cup MainLabels]
      /\ sem \in [Semaphores -> Nat]
  BY DEF Shape
<1> USE <1>0 DEF TokensConserved, Holds, Semaphores, InMutex, Sides, Goto
<1>1. ASSUME NEW t \in Sides, WaitToken(t) PROVE TokensConserved'
  <2>1. CASE t = "Producer"
    BY <1>1, <2>1 DEF WaitToken, WaitsFor, Wait, bufVars
  <2>2. CASE t = "Consumer"
    BY <1>1, <2>2 DEF WaitToken, WaitsFor, Wait, bufVars
  <2>3. QED
    BY <2>1, <2>2
<1>2. ASSUME NEW t \in Sides, WaitMutex(t) PROVE TokensConserved'
  BY <1>2 DEF WaitMutex, Wait, bufVars
<1>3. ASSUME NEW t \in Sides, Access(t) PROVE TokensConserved'
  BY <1>3 DEF Access, AccessItem, PutItem, GetItem
<1>4. ASSUME NEW t \in Sides, Load(t) PROVE TokensConserved'
  BY <1>4 DEF Load, LoadCounter
<1>5. ASSUME NEW t \in Sides, Store(t) PROVE TokensConserved'
  BY <1>5 DEF Store, StoreCounter, Update
<1>6. ASSUME NEW t \in Sides, PostMutex(t) PROVE TokensConserved'
  BY <1>6 DEF PostMutex, Post, bufVars
<1>7. ASSUME NEW t \in Sides, PostToken(t) PROVE TokensConserved'
  <2>1. CASE t = "Producer"
    BY <1>7, <2>1 DEF PostToken, Posts, Post, bufVars
  <2>2. CASE t = "Consumer"
    BY <1>7, <2>2 DEF PostToken, Posts, Post, bufVars
  <2>3. QED
    BY <2>1, <2>2
<1>8. ASSUME NEW t \in Sides, Exit(t) PROVE TokensConserved'
  BY <1>8 DEF Exit, bufVars
<1>9. CASE Main
  BY <1>9 DEF Main, Join, Destroy, bufVars
<1>10. CASE UNCHANGED vars
  BY <1>10 DEF vars, bufVars
<1>11. QED
  BY <1>1, <1>2, <1>3, <1>4, <1>5, <1>6, <1>7, <1>8, <1>9, <1>10
     DEF Next, Side, Ended

\* FullSem follows the items.
LEMMA FullInvStep == Shape /\ FullInv /\ [Next]_vars => FullInv'
<1> SUFFICES ASSUME Shape, FullInv, [Next]_vars
             PROVE  FullInv'
  OBVIOUS
<1>0. /\ pc \in [Sides \cup {"main"} -> SideLabels \cup MainLabels]
      /\ sem \in [Semaphores -> Nat] /\ produced \in Nat /\ consumed \in Seq(Nat)
  BY DEF Shape, Slotted
<1> USE <1>0 DEF FullInv, Items, Moved, Semaphores, Sides, Goto
<1>1. ASSUME NEW t \in Sides, WaitToken(t) PROVE FullInv'
  BY <1>1, SMTT(40) DEF WaitToken, WaitsFor, Wait, bufVars
<1>2. ASSUME NEW t \in Sides, WaitMutex(t) PROVE FullInv'
  BY <1>2 DEF WaitMutex, Wait, bufVars
<1>3. ASSUME NEW t \in Sides, Access(t) PROVE FullInv'
  <2>1. CASE t = "Producer"
    BY <1>3, <2>1 DEF Access, AccessItem, PutItem, GetItem
  <2>2. CASE t = "Consumer"
    BY <1>3, <2>2 DEF Access, AccessItem, PutItem, GetItem
  <2>3. QED
    BY <2>1, <2>2
<1>4. ASSUME NEW t \in Sides, Load(t) PROVE FullInv'
  BY <1>4 DEF Load, LoadCounter
<1>5. ASSUME NEW t \in Sides, Store(t) PROVE FullInv'
  BY <1>5 DEF Store, StoreCounter, Update
<1>6. ASSUME NEW t \in Sides, PostMutex(t) PROVE FullInv'
  BY <1>6 DEF PostMutex, Post, bufVars
<1>7. ASSUME NEW t \in Sides, PostToken(t) PROVE FullInv'
  BY <1>7 DEF PostToken, Posts, Post, bufVars
<1>8. ASSUME NEW t \in Sides, Exit(t) PROVE FullInv'
  BY <1>8 DEF Exit, bufVars
<1>9. CASE Main
  BY <1>9 DEF Main, Join, Destroy, bufVars
<1>10. CASE UNCHANGED vars
  BY <1>10 DEF vars, bufVars
<1>11. QED
  BY <1>1, <1>2, <1>3, <1>4, <1>5, <1>6, <1>7, <1>8, <1>9, <1>10
     DEF Next, Side, Ended

\* The loop counters follow the items.
LEMMA LoopInvStep == Shape /\ LoopInv /\ [Next]_vars => LoopInv'
<1> SUFFICES ASSUME Shape, LoopInv, [Next]_vars
             PROVE  LoopInv'
  OBVIOUS
<1>0. /\ pc \in [Sides \cup {"main"} -> SideLabels \cup MainLabels]
      /\ i \in [Sides -> 0..NLOOPS] /\ produced \in Nat /\ consumed \in Seq(Nat)
  BY DEF Shape, Slotted
<1> USE <1>0 DEF LoopInv, Moved, Sides, Goto
<1>1. ASSUME NEW t \in Sides, WaitToken(t) PROVE LoopInv'
  BY <1>1 DEF WaitToken, WaitsFor, Wait, bufVars
<1>2. ASSUME NEW t \in Sides, WaitMutex(t) PROVE LoopInv'
  BY <1>2 DEF WaitMutex, Wait, bufVars
<1>3. ASSUME NEW t \in Sides, Access(t) PROVE LoopInv'
  <2>1. CASE t = "Producer"
    BY <1>3, <2>1, SMTT(40) DEF Access, AccessItem, PutItem, GetItem
  <2>2. CASE t = "Consumer"
    BY <1>3, <2>2, SMTT(40) DEF Access, AccessItem, PutItem, GetItem
  <2>3. QED
    BY <2>1, <2>2
<1>4. ASSUME NEW t \in Sides, Load(t) PROVE LoopInv'
  BY <1>4 DEF Load, LoadCounter
<1>5. ASSUME NEW t \in Sides, Store(t) PROVE LoopInv'
  BY <1>5 DEF Store, StoreCounter, Update
<1>6. ASSUME NEW t \in Sides, PostMutex(t) PROVE LoopInv'
  BY <1>6 DEF PostMutex, Post, bufVars
<1>7. ASSUME NEW t \in Sides, PostToken(t) PROVE LoopInv'
  BY <1>7 DEF PostToken, Posts, Post, bufVars
<1>8. ASSUME NEW t \in Sides, Exit(t) PROVE LoopInv'
  BY <1>8 DEF Exit, bufVars
<1>9. CASE Main
  BY <1>9 DEF Main, Join, Destroy, bufVars
<1>10. CASE UNCHANGED vars
  BY <1>10 DEF vars, bufVars
<1>11. QED
  BY <1>1, <1>2, <1>3, <1>4, <1>5, <1>6, <1>7, <1>8, <1>9, <1>10
     DEF Next, Side, Ended

\* A side stores what it loaded, changed by one.
LEMMA CounterExactStep == Shape /\ CounterExact /\ RegInv
                         /\ [Next]_vars => CounterExact'
<1> SUFFICES ASSUME Shape, CounterExact, RegInv, [Next]_vars
             PROVE  CounterExact'
  OBVIOUS
<1>0. /\ pc \in [Sides \cup {"main"} -> SideLabels \cup MainLabels]
      /\ reg \in [Sides -> Int] /\ counter \in Int /\ produced \in Nat /\ consumed \in Seq(Nat)
  BY DEF Shape, Slotted
<1> USE <1>0 DEF CounterExact, RegInv, Sides, Goto
<1>1. ASSUME NEW t \in Sides, WaitToken(t) PROVE CounterExact'
  BY <1>1 DEF WaitToken, WaitsFor, Wait, bufVars
<1>2. ASSUME NEW t \in Sides, WaitMutex(t) PROVE CounterExact'
  BY <1>2 DEF WaitMutex, Wait, bufVars
<1>3. ASSUME NEW t \in Sides, Access(t) PROVE CounterExact'
  <2>1. CASE t = "Producer"
    BY <1>3, <2>1 DEF Access, AccessItem, PutItem, GetItem
  <2>2. CASE t = "Consumer"
    BY <1>3, <2>2 DEF Access, AccessItem, PutItem, GetItem
  <2>3. QED
    BY <2>1, <2>2
<1>4. ASSUME NEW t \in Sides, Load(t) PROVE CounterExact'
  BY <1>4 DEF Load, LoadCounter
<1>5. ASSUME NEW t \in Sides, Store(t) PROVE CounterExact'
  <2>1. CASE t = "Producer"
    BY <1>5, <2>1 DEF Store, StoreCounter, Update
  <2>2. CASE t = "Consumer"
    BY <1>5, <2>2 DEF Store, StoreCounter, Update
  <2>3. QED
    BY <2>1, <2>2
<1>6. ASSUME NEW t \in Sides, PostMutex(t) PROVE CounterExact'
  BY <1>6 DEF PostMutex, Post, bufVars
<1>7. ASSUME NEW t \in Sides, PostToken(t) PROVE CounterExact'
  BY <1>7 DEF PostToken, Posts, Post, bufVars
<1>8. ASSUME NEW t \in Sides, Exit(t) PROVE CounterExact'
  BY <1>8 DEF Exit, bufVars
<1>9. CASE Main
  BY <1>9 DEF Main, Join, Destroy, bufVars
<1>10. CASE UNCHANGED vars
  BY <1>10 DEF vars, bufVars
<1>11. QED
  BY <1>1, <1>2, <1>3, <1>4, <1>5, <1>6, <1>7, <1>8, <1>9, <1>10
     DEF Next, Side, Ended

\* The mutex keeps other stores out between a load and its store.
LEMMA RegInvStep == Shape /\ RegInv /\ MutexInv /\ [Next]_vars
                    => RegInv'
<1> SUFFICES ASSUME Shape, RegInv, MutexInv, [Next]_vars
             PROVE  RegInv'
  OBVIOUS
<1>0. /\ pc \in [Sides \cup {"main"} -> SideLabels \cup MainLabels]
      /\ reg \in [Sides -> Int] /\ sem \in [Semaphores -> Nat]
  BY DEF Shape
<1> USE <1>0 DEF RegInv, MutexInv, InMutex, Semaphores, Sides, Goto
<1>1. ASSUME NEW t \in Sides, WaitToken(t) PROVE RegInv'
  BY <1>1 DEF WaitToken, WaitsFor, Wait, bufVars
<1>2. ASSUME NEW t \in Sides, WaitMutex(t) PROVE RegInv'
  BY <1>2 DEF WaitMutex, Wait, bufVars
<1>3. ASSUME NEW t \in Sides, Access(t) PROVE RegInv'
  BY <1>3 DEF Access, AccessItem, PutItem, GetItem
<1>4. ASSUME NEW t \in Sides, Load(t) PROVE RegInv'
  BY <1>4 DEF Load, LoadCounter
<1>5. ASSUME NEW t \in Sides, Store(t) PROVE RegInv'
  BY <1>5 DEF Store, StoreCounter, Update
<1>6. ASSUME NEW t \in Sides, PostMutex(t) PROVE RegInv'
  BY <1>6 DEF PostMutex, Post, bufVars
<1>7. ASSUME NEW t \in Sides, PostToken(t) PROVE RegInv'
  BY <1>7 DEF PostToken, Posts, Post, bufVars
<1>8. ASSUME NEW t \in Sides, Exit(t) PROVE RegInv'
  BY <1>8 DEF Exit, bufVars
<1>9. CASE Main
  BY <1>9 DEF Main, Join, Destroy, bufVars
<1>10. CASE UNCHANGED vars
  BY <1>10 DEF vars, bufVars
<1>11. QED
  BY <1>1, <1>2, <1>3, <1>4, <1>5, <1>6, <1>7, <1>8, <1>9, <1>10
     DEF Next, Side, Ended

\* main goes on only when the thread it joins has ended.
LEMMA JoinInvStep == Shape /\ JoinInv /\ [Next]_vars => JoinInv'
<1> SUFFICES ASSUME Shape, JoinInv, [Next]_vars
             PROVE  JoinInv'
  OBVIOUS
<1>0. /\ pc \in [Sides \cup {"main"} -> SideLabels \cup MainLabels]
      /\ sem \in [Semaphores -> Nat]
  BY DEF Shape
<1> USE <1>0 DEF JoinInv, Sides, Goto
<1>1. ASSUME NEW t \in Sides, WaitToken(t) PROVE JoinInv'
  BY <1>1 DEF WaitToken, WaitsFor, Wait, bufVars
<1>2. ASSUME NEW t \in Sides, WaitMutex(t) PROVE JoinInv'
  BY <1>2 DEF WaitMutex, Wait, bufVars
<1>3. ASSUME NEW t \in Sides, Access(t) PROVE JoinInv'
  BY <1>3 DEF Access, AccessItem, PutItem, GetItem
<1>4. ASSUME NEW t \in Sides, Load(t) PROVE JoinInv'
  BY <1>4 DEF Load, LoadCounter
<1>5. ASSUME NEW t \in Sides, Store(t) PROVE JoinInv'
  BY <1>5 DEF Store, StoreCounter, Update
<1>6. ASSUME NEW t \in Sides, PostMutex(t) PROVE JoinInv'
  BY <1>6 DEF PostMutex, Post, bufVars
<1>7. ASSUME NEW t \in Sides, PostToken(t) PROVE JoinInv'
  BY <1>7 DEF PostToken, Posts, Post, bufVars
<1>8. ASSUME NEW t \in Sides, Exit(t) PROVE JoinInv'
  BY <1>8 DEF Exit, bufVars
<1>9. CASE Main
  BY <1>9 DEF Main, Join, Destroy, bufVars
<1>10. CASE UNCHANGED vars
  BY <1>10 DEF vars, bufVars
<1>11. QED
  BY <1>1, <1>2, <1>3, <1>4, <1>5, <1>6, <1>7, <1>8, <1>9, <1>10
     DEF Next, Side, Ended

\* Every step preserves the control invariant.
LEMMA ControlStep == Control /\ [Next]_vars => Control'
  BY ShapeStep, MutexInvStep, TokensConservedStep, FullInvStep, LoopInvStep,
     CounterExactStep, RegInvStep, JoinInvStep DEF Control, Books

------------------------------------------------------------------------------
(* The slots *)

\* The steps that do not move an item leave the slots and the history alone.
LEMMA OnlyAccess ==
  [Next]_vars => \/ \E t \in Sides : Access(t)
                 \/ UNCHANGED <<buf, in, out, produced, consumed>>
  BY DEF Next, Side, Main, Join, Destroy, Ended, vars, bufVars, WaitToken,
         WaitMutex, Load, LoadCounter, Store, StoreCounter, PostMutex,
         PostToken, Exit

\* Every step keeps the loaded values of counter in range.
LEMMA RegRangeStep == Control /\ RegRange /\ [Next]_vars => RegRange'
<1> SUFFICES ASSUME Control, RegRange, [Next]_vars PROVE RegRange'
  OBVIOUS
<1>1. reg \in [Sides -> Int] /\ counter \in 0..MAX_BUF
  BY CounterRange DEF Control, Shape
<1>2. ASSUME NEW t \in Sides, Load(t) PROVE RegRange'
  BY <1>1, <1>2 DEF Load, LoadCounter, RegRange
<1>3. CASE UNCHANGED reg
  BY <1>3 DEF RegRange
<1>4. (\E t \in Sides : Load(t)) \/ UNCHANGED reg
  BY DEF Next, Side, Main, Join, Destroy, Ended, vars, bufVars, WaitToken,
         WaitMutex, Access, AccessItem, PutItem, GetItem, Store, StoreCounter,
         PostMutex, PostToken, Exit
<1>5. QED
  BY <1>2, <1>3, <1>4

\* Every step preserves the invariant.
LEMMA Inductive == IInv /\ [Next]_vars => IInv'
<1> SUFFICES ASSUME IInv, [Next]_vars
             PROVE  Window' /\ Genuine' /\ InOrder'
  BY ControlStep, RegRangeStep DEF IInv
<1>0. Slotted /\ Window /\ Genuine /\ InOrder
  BY DEF IInv, Control, Shape
<1>1. CASE Access("Producer")
  <2>1. PutItem /\ consumed' = consumed
    BY <1>1 DEF Access, AccessItem, PutItem
  <2>2. Items \in 0 .. MAX_BUF - 1
    BY <1>1, ItemsBound, BufferAssumption DEF IInv, Access
  <2>3. QED
    BY <1>0, <2>1, <2>2, PutStep, GenuinePut DEF InOrder
<1>2. CASE Access("Consumer")
  <2>1. GetItem /\ UNCHANGED <<buf, produced>>
    BY <1>2 DEF Access, AccessItem, GetItem
  <2>2. Items \in 1 .. MAX_BUF
    BY <1>2, ItemsBound, BufferAssumption DEF IInv, Access
  <2>3. QED
    BY <1>0, <2>1, <2>2, GetStep, OrderStep DEF Genuine
<1>3. CASE UNCHANGED <<buf, in, out, produced, consumed>>
  BY <1>0, <1>3 DEF Window, Genuine, InOrder, Items
<1>4. QED
  BY <1>1, <1>2, <1>3, OnlyAccess DEF Sides

\* The invariant holds at first.
LEMMA IInvInit == Init => IInv
<1>1. Init => Window /\ Genuine /\ InOrder
  BY SlottedInit DEF Init
<1>2. Init => RegRange
  BY BufferAssumption DEF Init, BufInit, RegRange
<1>3. QED
  BY <1>1, <1>2, ControlInit DEF IInv

\* The invariant holds in every behaviour.
LEMMA Always == Spec => []IInv
  BY IInvInit, Inductive, PTL DEF Spec

------------------------------------------------------------------------------
(* Theorems *)

\* The loop bodies are run at most NLOOPS times.
LEMMA Totals == IInv => /\ produced \in 0..NLOOPS
                        /\ Len(consumed) \in 0..NLOOPS
                        /\ pc["Producer"] = "access" => produced < NLOOPS
<1> SUFFICES ASSUME IInv PROVE /\ produced \in 0..NLOOPS
                               /\ Len(consumed) \in 0..NLOOPS
                               /\ pc["Producer"] = "access" => produced < NLOOPS
  OBVIOUS
<1>1. /\ i \in [Sides -> 0..NLOOPS] /\ produced \in Nat /\ NLOOPS \in Nat
      /\ Len(consumed) \in Nat /\ LoopInv
  BY BufferAssumption DEF IInv, Control, Shape, Slotted, Books
<1>2. QED
  BY <1>1 DEF LoopInv, Moved, Sides

\* Every variable keeps its range: in particular counter stays between 0 and
\* MAX_BUF and no semaphore goes above MAX_BUF.
THEOREM TypeCorrect == Spec => []TypeOK
<1>1. IInv => TypeOK
  <2> SUFFICES ASSUME IInv PROVE TypeOK
    OBVIOUS
  <2>1. Slotted /\ Genuine /\ InOrder /\ produced \in 0..NLOOPS
        /\ Len(consumed) <= NLOOPS
    BY Totals, BufferAssumption DEF IInv, Control, Shape
  <2>2. buf \in [Slots -> 0..NLOOPS] /\ consumed \in Seq(0..NLOOPS)
    BY <2>1, InRange
  <2>3. /\ TokensConserved /\ MutexInv /\ sem \in [Semaphores -> Nat]
        /\ reg \in [Sides -> Int] /\ RegRange
    BY DEF IInv, Control, Shape, Books
  <2>4. counter \in 0..MAX_BUF /\ reg \in [Sides -> 0..MAX_BUF]
    BY <2>3, CounterRange DEF IInv, RegRange
  <2>5. sem \in [Semaphores -> 0..MAX_BUF]
    <3>1. sem["Empty"] \in 0..MAX_BUF /\ sem["Full"] \in 0..MAX_BUF
      BY <2>3, BufferAssumption DEF TokensConserved, Holds, Semaphores
    <3>2. sem["Mutex"] \in 0..MAX_BUF
      BY <2>3, BufferAssumption DEF MutexInv, Semaphores
    <3>3. QED
      BY <2>3, <3>1, <3>2 DEF Semaphores
  <2>6. QED
    BY <2>1, <2>2, <2>4, <2>5
       DEF TypeOK, BufTypeOK, IInv, Control, Shape, Slotted
<1>2. QED
  BY <1>1, Always, PTL

\* No token is lost or made.
THEOREM TokensSafe == Spec => []TokensConserved
<1>1. IInv => TokensConserved
  BY DEF IInv, Control, Books
<1>2. QED
  BY <1>1, Always, PTL

\* No update of Buf.counter is lost.
THEOREM CounterSafe == Spec => []CounterExact
<1>1. IInv => CounterExact
  BY DEF IInv, Control, Books
<1>2. QED
  BY <1>1, Always, PTL

\* What main reports at the end: the threads are gone, the buffer is empty and
\* every item was consumed in order.
THEOREM ReportSafe == Spec => []FinalReport
<1>1. IInv => FinalReport
  <2> SUFFICES ASSUME IInv, pc["main"] \in {"destroy", "returned"}
               PROVE  /\ \A t \in Sides : pc[t] = "exited"
                      /\ counter = 0
                      /\ consumed = [k \in 1..NLOOPS |-> k]
    BY DEF FinalReport
  <2>1. pc["Producer"] = "exited" /\ pc["Consumer"] = "exited"
    BY DEF IInv, Control, Books, JoinInv
  <2>2. produced = NLOOPS /\ Len(consumed) = NLOOPS
    BY <2>1, BufferAssumption
       DEF IInv, Control, Shape, Slotted, Books, LoopInv, Sides, Moved
  <2>3. counter = 0
    BY <2>1, <2>2, BufferAssumption
       DEF IInv, Control, Shape, Slotted, Books, CounterExact
  <2>4. consumed = [k \in 1..NLOOPS |-> k]
    <3>1. consumed \in [1..NLOOPS -> Nat]
      BY <2>2, LenProperties DEF IInv, Control, Shape, Slotted
    <3>2. QED
      BY <3>1 DEF IInv, InOrder
  <2>5. QED
    BY <2>1, <2>3, <2>4 DEF Sides
<1>2. QED
  BY <1>1, Always, PTL

\* Neither side is left waiting.  Who waits for the mutex finds the other in it;
\* who waits for a token finds the other with one, or on its way to one of
\* those that are left: by TokensConserved, and since the loop counters tell
\* how many tokens a side that has ended has passed on.
THEOREM WaitersGo == Spec => []NobodyLeftWaiting
<1>1. IInv => NobodyLeftWaiting
  <2> SUFFICES ASSUME IInv PROVE NobodyLeftWaiting
    OBVIOUS
  <2> DEFINE Stuck(t) == pc[t] = "exited" \/ Waits(t)
  <2>1. /\ WaitsFor["Producer"] = "Empty" /\ WaitsFor["Consumer"] = "Full"
        /\ \A t \in Sides : t = "Producer" \/ t = "Consumer"
        /\ "Producer" \in Sides /\ "Consumer" \in Sides
    BY DEF WaitsFor, Sides
  <2>2. /\ sem["Empty"] \in Nat /\ sem["Full"] \in Nat /\ sem["Mutex"] \in Nat
        /\ produced \in Nat /\ Len(consumed) \in Nat
    BY DEF IInv, Control, Shape, Slotted, Semaphores
  <2>3. ASSUME Stuck("Producer"), Stuck("Consumer")
        PROVE  pc["Producer"] \in {"loop", "exited"} /\ pc["Consumer"] \in {"loop", "exited"}
    <3>1. pc["Producer"] \notin InMutex /\ pc["Consumer"] \notin InMutex
      BY <2>3 DEF Waits, InMutex
    <3>2. sem["Mutex"] = 1
      BY <2>2, <3>1 DEF IInv, Control, Books, MutexInv
    <3>3. QED
      BY <2>3, <3>2 DEF Waits
  <2>4. ASSUME pc["Producer"] \in {"loop", "exited"}, pc["Consumer"] \in {"loop", "exited"}
        PROVE  /\ sem["Empty"] + sem["Full"] = MAX_BUF
               /\ sem["Full"] = produced - Len(consumed)
               /\ i["Producer"] = produced /\ i["Consumer"] = Len(consumed)
    <3>1. /\ Holds("Producer") = 0 /\ Holds("Consumer") = 0
          /\ pc["Producer"] \notin Moved /\ pc["Consumer"] \notin Moved
          /\ pc["Consumer"] \notin {"waitMutex", "access"}
      BY <2>4 DEF Holds, InMutex, Moved
    <3>2. sem["Empty"] + sem["Full"] = MAX_BUF
      BY <2>2, <3>1 DEF IInv, Control, Books, TokensConserved
    <3>3. sem["Full"] = produced - Len(consumed)
      BY <2>2, <3>1 DEF IInv, Control, Books, FullInv, Items
    <3>4. i["Producer"] = produced /\ i["Consumer"] = Len(consumed)
      BY <2>2, <3>1 DEF IInv, Control, Books, LoopInv
    <3>5. QED
      BY <3>2, <3>3, <3>4
  <2>5. \A t \in Sides : pc[t] = "exited" => i[t] = NLOOPS
    BY DEF IInv, Control, Books, LoopInv
  <2>6. ASSUME NEW t \in Sides, Waits(t), Stuck("Producer"), Stuck("Consumer") PROVE FALSE
    <3>1. pc[t] = "loop" /\ i[t] < NLOOPS /\ sem[WaitsFor[t]] = 0
      BY <2>1, <2>3, <2>6 DEF Waits
    <3>2. CASE t = "Producer"
      <4>1. sem["Empty"] = 0 /\ produced < NLOOPS
        BY <2>1, <2>3, <2>4, <2>6, <3>1, <3>2
      <4>2. Len(consumed) < NLOOPS /\ sem["Full"] = MAX_BUF
        BY <2>2, <2>3, <2>4, <2>6, <4>1, BufferAssumption
      <4>3. pc["Consumer"] = "loop" /\ sem["Full"] = 0
        BY <2>1, <2>2, <2>3, <2>4, <2>5, <2>6, <4>2, BufferAssumption DEF Waits
      <4>4. QED
        BY <4>2, <4>3, BufferAssumption
    <3>3. CASE t = "Consumer"
      <4>1. sem["Full"] = 0 /\ Len(consumed) < NLOOPS /\ produced = Len(consumed)
        BY <2>1, <2>2, <2>3, <2>4, <2>6, <3>1, <3>3
      <4>2. pc["Producer"] = "loop" /\ sem["Empty"] = 0
        BY <2>1, <2>2, <2>3, <2>4, <2>5, <2>6, <4>1, BufferAssumption DEF Waits
      <4>3. QED
        BY <2>2, <2>3, <2>4, <2>6, <4>1, <4>2, BufferAssumption
    <3>4. QED
      BY <2>1, <3>2, <3>3
  <2>7. QED
    BY <2>1, <2>6 DEF NobodyLeftWaiting
<1>2. QED
  BY <1>1, Always, PTL

\* The program is a bounded FIFO buffer: every step of its threads is a step
\* of BoundedFifo or changes nothing there.
THEOREM FifoSafe == Spec => Fifo!Safety
<1>1. Init => Fifo!Init
  BY DEF Init, BufInit, Fifo!Init
<1>2. IInv /\ [Next]_vars => [Fifo!Next]_(Fifo!fifoVars)
  <2> SUFFICES ASSUME IInv, [Next]_vars
               PROVE  [Fifo!Next]_(Fifo!fifoVars)
    OBVIOUS
  <2>1. CASE Access("Producer")
    <3>1. produced < NLOOPS /\ produced - Len(consumed) < MAX_BUF
      BY <2>1, Totals, ItemsBound DEF IInv, Access, Items
    <3>2. produced' = produced + 1 /\ consumed' = consumed
      BY <2>1 DEF Access, AccessItem, PutItem
    <3>3. QED
      BY <3>1, <3>2 DEF Fifo!Next, Fifo!Send
  <2>2. CASE Access("Consumer")
    <3>1. Len(consumed) < produced
      BY <2>2, ItemsBound DEF IInv, Access, Items, Control, Shape, Slotted
    <3>2. produced' = produced /\ consumed' = Append(consumed, Len(consumed) + 1)
      <4>1. GetItem /\ produced' = produced
        BY <2>2 DEF Access, AccessItem, GetItem
      <4>2. Items \in 1 .. MAX_BUF
        BY <2>2, ItemsBound, BufferAssumption DEF IInv, Access
      <4>3. QED
        BY <4>1, <4>2, GetStep DEF IInv, Control, Shape
    <3>3. QED
      BY <3>1, <3>2 DEF Fifo!Next, Fifo!Receive
  <2>3. CASE UNCHANGED <<buf, in, out, produced, consumed>>
    BY <2>3 DEF Fifo!fifoVars
  <2>4. QED
    BY <2>1, <2>2, <2>3, OnlyAccess DEF Sides
<1>3. QED
  BY <1>1, <1>2, Always, PTL DEF Spec, Fifo!Safety

==============================================================================
