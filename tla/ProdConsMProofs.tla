---------------------------- MODULE ProdConsMProofs ----------------------------
(***************************************************************************)
(* Proofs about ProdConsM, for any size of the buffer, any number of items *)
(* and any number of spurious wakeups.                                     *)
(***************************************************************************)
EXTENDS ProdConsM, SharedBufferProofs

\* Between the item and the store of the counter, and up to the unlock.
Moving == {"load", "store"}
Moved == Moving \cup {"signal", "unlock"}

\* The loop counters follow the items.
LoopInv == /\ i["Producer"] = produced - Bit(pc["Producer"] \in Moved)
           /\ i["Consumer"] = Len(consumed) - Bit(pc["Consumer"] \in Moved)
           /\ \A t \in Sides : /\ pc[t] \notin {"loop", "exited"} => i[t] < NLOOPS
                               /\ pc[t] = "exited" => i[t] = NLOOPS

\* What a side has tested stays true until it stores, and what it has loaded
\* is still the counter.
TestInv == \A t \in Sides :
             /\ pc[t] \in {"access", "load", "store"} => counter # MustWait[t]
             /\ pc[t] = "store" => reg[t] = counter

Control == TypeOK /\ LoopInv /\ MutexGuardsCounter /\ TestInv

IInv == Control /\ SignalComing /\ Window /\ InOrder

USE DEF Bit

\* The threads' names differ from each other and from Free.
LEMMA Names == /\ "main" \notin Sides /\ "Producer" \in Sides /\ "Consumer" \in Sides
               /\ Free \notin Sides
               /\ \A t \in Sides : t = "Producer" \/ t = "Consumer"
  BY MonitorAssumption DEF Sides

------------------------------------------------------------------------------
(* Types and loop counters *)

\* The control invariant holds at first.
LEMMA ControlInit == Init => Control /\ SignalComing
<1> SUFFICES ASSUME Init PROVE Control /\ SignalComing
  OBVIOUS
<1>1. /\ Len(consumed) = 0 /\ consumed \in Seq(0..NLOOPS)
  BY EmptySeq DEF Init, BufInit
<1>2. 0 \in Slots /\ 0 \in 0..NLOOPS /\ 0 \in 0..MAX_BUF /\ 0 \in 0..MaxSpurious
  BY BufferAssumption, MonitorAssumption DEF Slots
<1>3. /\ pc["Producer"] = "loop" /\ pc["Consumer"] = "loop" /\ pc["main"] = "join1"
      /\ i["Producer"] = 0 /\ i["Consumer"] = 0
      /\ produced = 0 /\ counter = 0 /\ mutex = Free
  BY DEF Init, BufInit, Sides
<1>4. TypeOK
  <2>1. BufTypeOK
    BY <1>1, <1>2 DEF Init, BufInit, BufTypeOK
  <2>2. DOMAIN pc = Sides \cup {"main"}
    BY DEF Init, Sides
  <2>3. i \in [Sides -> 0..NLOOPS]
    BY <1>2 DEF Init
  <2>4. QED
    BY <1>2, <1>3, <2>1, <2>2, <2>3
       DEF Init, TypeOK, SideLabels, MainLabels, Sides
<1>5. /\ Bit(pc["Producer"] \in Moved) = 0 /\ Bit(pc["Consumer"] \in Moved) = 0
      /\ Bit(pc["Producer"] \in Moving) = 0 /\ Bit(pc["Consumer"] \in Moving) = 0
  BY <1>3 DEF Moved, Moving
<1>6. LoopInv
  <2>1. /\ i["Producer"] = produced - 0 /\ i["Consumer"] = Len(consumed) - 0
    BY <1>1, <1>3
  <2>2. QED
    BY <1>3, <1>5, <2>1 DEF LoopInv, Sides
<1>7. MutexGuardsCounter
  <2>1. counter = produced - Len(consumed) - 0 + 0
    BY <1>1, <1>3
  <2>2. \A t \in Sides : (pc[t] \in InMutex) <=> (mutex = t)
    BY <1>3, Names DEF InMutex, Sides
  <2>3. QED
    BY <1>5, <2>1, <2>2 DEF MutexGuardsCounter, Moving
<1>8. TestInv /\ SignalComing
  BY <1>3 DEF TestInv, SignalComing, Sides
<1>9. QED
  BY <1>4, <1>6, <1>7, <1>8 DEF Control

\* The access to a slot keeps the types of the buffer.
LEMMA AccessTypes == ASSUME Control, NEW t \in Sides, Access(t) PROVE BufTypeOK'
<1>1. BufTypeOK /\ NLOOPS \in Nat
  BY BufferAssumption DEF Control, TypeOK
<1>2. CASE t = "Producer"
  <2>1. PutItem /\ pc["Producer"] = "access"
    BY <1>2 DEF Access, AccessItem
  <2>2. produced \in Nat /\ i["Producer"] \in Nat
    BY <1>1, Names DEF BufTypeOK, Control, TypeOK
  <2>3. i["Producer"] < NLOOPS /\ i["Producer"] = produced
    BY <2>1, <2>2, Names DEF Control, LoopInv, Moved, Moving
  <2>4. produced + 1 \in 0..NLOOPS
    BY <1>1, <2>2, <2>3
  <2>5. in' \in Slots
    BY <1>1, <2>1, ModStep, BufferAssumption DEF BufTypeOK, PutItem, Slots, Wrap
  <2>6. QED
    BY <1>1, <2>1, <2>4, <2>5 DEF BufTypeOK, PutItem
<1>3. CASE t = "Consumer"
  <2>1. GetItem
    BY <1>3 DEF Access, AccessItem
  <2>2. out' \in Slots
    BY <1>1, <2>1, ModStep, BufferAssumption DEF BufTypeOK, GetItem, Slots, Wrap
  <2>3. buf[out] \in 0..NLOOPS
    BY <1>1 DEF BufTypeOK
  <2>4. consumed' \in Seq(0..NLOOPS)
    BY <1>1, <2>1, <2>3 DEF BufTypeOK, GetItem
  <2>5. QED
    BY <1>1, <2>1, <2>2, <2>4 DEF BufTypeOK, GetItem
<1>4. QED
  BY <1>2, <1>3, Names

\* What a side stores in counter is in range.
LEMMA StoreRange == ASSUME Control, NEW t \in Sides, Store(t)
                    PROVE  counter' \in 0..MAX_BUF
<1>1. /\ counter \in 0..MAX_BUF /\ counter' = reg[t] + Update[t]
      /\ reg[t] = counter /\ counter # MustWait[t]
  BY DEF Control, TypeOK, BufTypeOK, TestInv, Store, StoreCounter
<1>2. QED
  BY <1>1, Names, BufferAssumption DEF Update, MustWait

\* Every step leaves each thread at a place of its own.
LEMMA PcStep == ASSUME TypeOK, [Next]_vars
                PROVE  /\ DOMAIN pc' = Sides \cup {"main"}
                       /\ \A t \in Sides : pc'[t] \in SideLabels
                       /\ pc'["main"] \in MainLabels
<1> USE Names DEF TypeOK, Goto, SideLabels, MainLabels, InMutex
<1>1. ASSUME NEW t \in Sides, Side(t) \/ SpuriousWake(t)
      PROVE  /\ DOMAIN pc' = Sides \cup {"main"}
             /\ \A s \in Sides : pc'[s] \in SideLabels
             /\ pc'["main"] \in MainLabels
  <2>1. CASE Signal(t)
    BY <2>1 DEF Signal, Other
  <2>2. CASE Lock(t) \/ Sleep(t) \/ Proceed(t) \/ SpuriousWake(t)
    BY <2>2 DEF Lock, Sleep, Proceed, SpuriousWake
  <2>3. CASE Access(t) \/ Load(t) \/ Store(t) \/ Unlock(t) \/ Exit(t)
    BY <2>3 DEF Access, Load, Store, Unlock, Exit
  <2>4. QED
    BY <1>1, <2>1, <2>2, <2>3 DEF Side
<1>2. CASE Main
  BY <1>2 DEF Main, Join, Destroy
<1>3. CASE UNCHANGED vars
  BY <1>3 DEF vars
<1>4. QED
  BY <1>1, <1>2, <1>3 DEF Next, Ended

\* Every step preserves the types.
LEMMA TypesStep == Control /\ [Next]_vars => TypeOK'
<1> SUFFICES ASSUME Control, [Next]_vars PROVE TypeOK'
  OBVIOUS
<1>0. TypeOK /\ BufTypeOK
  BY DEF Control, TypeOK
<1>1. BufTypeOK'
  <2>1. ASSUME NEW t \in Sides, Load(t) PROVE BufTypeOK'
    BY <1>0, <2>1 DEF Load, LoadCounter, BufTypeOK
  <2>2. ASSUME NEW t \in Sides, Store(t) PROVE BufTypeOK'
    BY <1>0, <2>2, StoreRange DEF Store, StoreCounter, BufTypeOK
  <2>3. CASE UNCHANGED bufVars
    BY <1>0, <2>3 DEF bufVars, BufTypeOK
  <2>4. QED
    BY <2>1, <2>2, <2>3, AccessTypes
       DEF Next, Side, Main, Join, Destroy, Ended, vars, Lock, Sleep, Proceed,
           SpuriousWake, Signal, Unlock, Exit
<1>2. mutex' \in Sides \cup {Free}
  BY <1>0 DEF TypeOK, Next, Side, Main, Join, Destroy, Ended, vars, Lock, Sleep,
              Proceed, SpuriousWake, Access, Load, Store, Signal, Unlock, Exit
<1>3. i' \in [Sides -> 0..NLOOPS]
  <2>1. ASSUME NEW t \in Sides, Unlock(t) PROVE i' \in [Sides -> 0..NLOOPS]
    <3>1. i[t] \in 0..NLOOPS /\ i[t] < NLOOPS /\ i \in [Sides -> 0..NLOOPS]
      BY <1>0, <2>1 DEF Control, TypeOK, LoopInv, Unlock
    <3>2. i[t] + 1 \in 0..NLOOPS
      BY <3>1, BufferAssumption
    <3>3. QED
      BY <2>1, <3>1, <3>2 DEF Unlock
  <2>2. CASE UNCHANGED i
    BY <1>0, <2>2 DEF TypeOK
  <2>3. QED
    BY <2>1, <2>2
       DEF Next, Side, Main, Join, Destroy, Ended, vars, Lock, Sleep, Proceed,
           SpuriousWake, Access, Load, Store, Signal, Exit
<1>4. spurious' \in 0..MaxSpurious
  <2>1. ASSUME NEW t \in Sides, SpuriousWake(t) PROVE spurious' \in 0..MaxSpurious
    BY <1>0, <2>1, MonitorAssumption DEF TypeOK, SpuriousWake
  <2>2. CASE UNCHANGED spurious
    BY <1>0, <2>2 DEF TypeOK
  <2>3. QED
    BY <2>1, <2>2
       DEF Next, Side, Main, Join, Destroy, Ended, vars, Lock, Sleep, Proceed,
           Access, Load, Store, Signal, Unlock, Exit
<1>5. QED
  BY <1>0, <1>1, <1>2, <1>3, <1>4, PcStep DEF TypeOK

\* Every step preserves the relation of the loop variables to the buffer.
LEMMA LoopInvStep == Control /\ [Next]_vars => LoopInv'
<1> SUFFICES ASSUME Control, [Next]_vars PROVE LoopInv'
  OBVIOUS
<1>0. /\ LoopInv /\ DOMAIN pc = Sides \cup {"main"} /\ i \in [Sides -> 0..NLOOPS]
      /\ produced \in Nat /\ Len(consumed) \in Nat /\ consumed \in Seq(0..NLOOPS)
  BY BufferAssumption DEF Control, TypeOK, BufTypeOK
<1> USE <1>0, Names, BufferAssumption DEF LoopInv, Moved, Moving, Goto
<1>1. ASSUME NEW t \in Sides, Lock(t) \/ Sleep(t) \/ Proceed(t) \/ SpuriousWake(t)
      PROVE  LoopInv'
  BY <1>1, ZenonT(40) DEF Lock, Sleep, Proceed, SpuriousWake, bufVars
<1>2. ASSUME NEW t \in Sides, Access(t) PROVE LoopInv'
  <2>1. CASE t = "Producer"
    BY <1>2, <2>1, SMTT(40) DEF Access, AccessItem, PutItem
  <2>2. CASE t = "Consumer"
    <3>1. Len(consumed') = Len(consumed) + 1
      BY <1>2, <2>2 DEF Access, AccessItem, GetItem, TypeOK, BufTypeOK, Control
    <3>2. QED
      BY <1>2, <2>2, <3>1, SMTT(40) DEF Access, AccessItem, GetItem
  <2>3. QED
    BY <2>1, <2>2
<1>3. ASSUME NEW t \in Sides, Load(t) PROVE LoopInv'
  BY <1>3 DEF Load, LoadCounter
<1>4. ASSUME NEW t \in Sides, Store(t) PROVE LoopInv'
  BY <1>4 DEF Store, StoreCounter
<1>5. ASSUME NEW t \in Sides, Signal(t) PROVE LoopInv'
  BY <1>5 DEF Signal, Other, bufVars
<1>6. ASSUME NEW t \in Sides, Unlock(t) PROVE LoopInv'
  BY <1>6, SMTT(40) DEF Unlock, bufVars
<1>7. ASSUME NEW t \in Sides, Exit(t) PROVE LoopInv'
  BY <1>7 DEF Exit, bufVars
<1>8. CASE Main
  BY <1>8, SMTT(40) DEF Main, Join, Destroy, bufVars
<1>9. CASE UNCHANGED vars
  BY <1>9 DEF vars, bufVars
<1>10. QED
  BY <1>1, <1>2, <1>3, <1>4, <1>5, <1>6, <1>7, <1>8, <1>9 DEF Next, Side, Ended

------------------------------------------------------------------------------
(* The mutex and the counter *)

\* Only the holder of the mutex is in the loop body.
HolderInv == \A t \in Sides : (pc[t] \in InMutex) <=> (mutex = t)

\* The counter follows the items.
FollowsInv == counter = Items - Bit(pc["Producer"] \in Moving)
                              + Bit(pc["Consumer"] \in Moving)

\* MutexGuardsCounter, by its two parts.
LEMMA Guards == MutexGuardsCounter <=> HolderInv /\ FollowsInv
  BY DEF MutexGuardsCounter, HolderInv, FollowsInv, Items, Moving

\* Every step keeps the threads inside the holder of the mutex.
LEMMA HolderStep == Control /\ HolderInv /\ [Next]_vars => HolderInv'
<1> SUFFICES ASSUME Control, HolderInv, [Next]_vars PROVE HolderInv'
  OBVIOUS
<1>0. /\ DOMAIN pc = Sides \cup {"main"} /\ mutex \in Sides \cup {Free}
  BY DEF Control, TypeOK
<1> USE <1>0, Names DEF HolderInv, InMutex, Goto
<1>1. ASSUME NEW t \in Sides, Lock(t) PROVE HolderInv'
  BY <1>1 DEF Lock
<1>2. ASSUME NEW t \in Sides, Sleep(t) PROVE HolderInv'
  BY <1>2 DEF Sleep
<1>3. ASSUME NEW t \in Sides, Proceed(t) \/ SpuriousWake(t) PROVE HolderInv'
  BY <1>3 DEF Proceed, SpuriousWake
<1>4. ASSUME NEW t \in Sides, Access(t) \/ Load(t) \/ Store(t) PROVE HolderInv'
  BY <1>4 DEF Access, Load, Store
<1>5. ASSUME NEW t \in Sides, Signal(t) PROVE HolderInv'
  BY <1>5 DEF Signal, Other
<1>6. ASSUME NEW t \in Sides, Unlock(t) \/ Exit(t) PROVE HolderInv'
  BY <1>6 DEF Unlock, Exit
<1>7. CASE Main
  BY <1>7 DEF Main, Join, Destroy
<1>8. CASE UNCHANGED vars
  BY <1>8 DEF vars
<1>9. QED
  BY <1>1, <1>2, <1>3, <1>4, <1>5, <1>6, <1>7, <1>8 DEF Next, Side, Ended

\* Every step keeps counter equal to the items between the steps that change them.
LEMMA FollowsStep == Control /\ FollowsInv /\ [Next]_vars => FollowsInv'
<1> SUFFICES ASSUME Control, FollowsInv, [Next]_vars PROVE FollowsInv'
  OBVIOUS
<1>0. /\ DOMAIN pc = Sides \cup {"main"} /\ reg \in [Sides -> 0..MAX_BUF]
      /\ counter \in Int /\ produced \in Nat /\ consumed \in Seq(0..NLOOPS)
      /\ Len(consumed) \in Nat
  BY DEF Control, TypeOK, BufTypeOK
<1> USE <1>0, Names, BufferAssumption DEF FollowsInv, Items, Moving, Goto
<1>1. ASSUME NEW t \in Sides, Lock(t) \/ Sleep(t) \/ Proceed(t) \/ SpuriousWake(t)
      PROVE  FollowsInv'
  BY <1>1, ZenonT(40) DEF Lock, Sleep, Proceed, SpuriousWake, bufVars
<1>2. ASSUME NEW t \in Sides, Access(t) PROVE FollowsInv'
  <2>1. CASE t = "Producer"
    BY <1>2, <2>1, SMTT(40) DEF Access, AccessItem, PutItem
  <2>2. CASE t = "Consumer"
    <3>1. Len(consumed') = Len(consumed) + 1
      BY <1>2, <2>2 DEF Access, AccessItem, GetItem, TypeOK, BufTypeOK, Control
    <3>2. QED
      BY <1>2, <2>2, <3>1 DEF Access, AccessItem, GetItem
  <2>3. QED
    BY <2>1, <2>2
<1>3. ASSUME NEW t \in Sides, Load(t) PROVE FollowsInv'
  BY <1>3 DEF Load, LoadCounter
<1>4. ASSUME NEW t \in Sides, Store(t) PROVE FollowsInv'
  <2>1. /\ counter' = counter + Update[t]
        /\ UNCHANGED <<produced, consumed>> /\ pc[t] = "store"
        /\ pc' = [pc EXCEPT ![t] = "signal"]
    BY <1>4 DEF Store, StoreCounter, Control, TestInv
  <2>2. CASE t = "Producer"
    BY <2>1, <2>2 DEF Update
  <2>3. CASE t = "Consumer"
    <3>1. counter' = counter - 1
      BY <2>1, <2>3 DEF Update
    <3>2. QED
      BY <2>1, <2>3, <3>1
  <2>4. QED
    BY <2>2, <2>3
<1>5. ASSUME NEW t \in Sides, Signal(t) PROVE FollowsInv'
  BY <1>5 DEF Signal, Other, bufVars
<1>6. ASSUME NEW t \in Sides, Unlock(t) \/ Exit(t) PROVE FollowsInv'
  BY <1>6, ZenonT(40) DEF Unlock, Exit, bufVars
<1>7. CASE Main
  BY <1>7 DEF Main, Join, Destroy, bufVars
<1>8. CASE UNCHANGED vars
  BY <1>8 DEF vars, bufVars
<1>9. QED
  BY <1>1, <1>2, <1>3, <1>4, <1>5, <1>6, <1>7, <1>8 DEF Next, Side, Ended

\* The mutex keeps the other side away from counter between the test and the
\* store.
LEMMA TestStep == Control /\ [Next]_vars => TestInv'
<1> SUFFICES ASSUME Control, [Next]_vars PROVE TestInv'
  OBVIOUS
<1>0. /\ TestInv /\ HolderInv /\ DOMAIN pc = Sides \cup {"main"}
      /\ reg \in [Sides -> 0..MAX_BUF]
  BY Guards DEF Control, TypeOK, BufTypeOK
<1> USE <1>0, Names DEF TestInv, Goto
<1>1. ASSUME NEW t \in Sides, Lock(t) \/ Sleep(t) \/ SpuriousWake(t)
      PROVE  TestInv'
  BY <1>1 DEF Lock, Sleep, SpuriousWake, bufVars
<1>2. ASSUME NEW t \in Sides, Proceed(t) PROVE TestInv'
  BY <1>2 DEF Proceed, bufVars
<1>3. ASSUME NEW t \in Sides, Access(t) PROVE TestInv'
  BY <1>3 DEF Access, AccessItem, PutItem, GetItem
<1>4. ASSUME NEW t \in Sides, Load(t) PROVE TestInv'
  BY <1>4 DEF Load, LoadCounter
<1>5. ASSUME NEW t \in Sides, Store(t) PROVE TestInv'
  <2>1. ASSUME NEW s \in Sides, s # t
        PROVE  pc'[s] \notin {"access", "load", "store"}
    BY <1>5, <2>1 DEF Store, HolderInv, InMutex
  <2>2. pc'[t] = "signal"
    BY <1>5 DEF Store
  <2>3. QED
    BY <2>1, <2>2
<1>6. ASSUME NEW t \in Sides, Signal(t) PROVE TestInv'
  BY <1>6 DEF Signal, Other, bufVars
<1>7. ASSUME NEW t \in Sides, Unlock(t) \/ Exit(t) PROVE TestInv'
  BY <1>7 DEF Unlock, Exit, bufVars
<1>8. CASE Main
  BY <1>8 DEF Main, Join, Destroy, bufVars
<1>9. CASE UNCHANGED vars
  BY <1>9 DEF vars, bufVars
<1>10. QED
  BY <1>1, <1>2, <1>3, <1>4, <1>5, <1>6, <1>7, <1>8, <1>9 DEF Next, Side, Ended

\* Every step preserves the control invariant.
LEMMA ControlStep == Control /\ [Next]_vars => Control'
<1> SUFFICES ASSUME Control, [Next]_vars PROVE Control'
  OBVIOUS
<1>1. HolderInv' /\ FollowsInv'
  BY Guards, HolderStep, FollowsStep DEF Control
<1>2. MutexGuardsCounter'
  BY <1>1 DEF MutexGuardsCounter, HolderInv, FollowsInv, Items, Moving
<1>3. QED
  BY <1>2, TypesStep, LoopInvStep, TestStep DEF Control

\* Whoever makes the condition of a sleeper false is on the way to its signal.
LEMMA WakeupStep == Control /\ SignalComing /\ [Next]_vars => SignalComing'
<1> SUFFICES ASSUME Control, SignalComing, [Next]_vars PROVE SignalComing'
  OBVIOUS
<1>0. /\ HolderInv /\ DOMAIN pc = Sides \cup {"main"}
      /\ \A t \in Sides : Other[t] \in Sides /\ Other[t] # t /\ Other[Other[t]] = t
      /\ \A s, t \in Sides : s # t => s = Other[t]
  BY Guards DEF Control, TypeOK, Other, Sides
<1> USE <1>0, Names DEF SignalComing, Goto
<1>1. ASSUME NEW t \in Sides, Lock(t) \/ Proceed(t) \/ SpuriousWake(t)
      PROVE  SignalComing'
  BY <1>1 DEF Lock, Proceed, SpuriousWake, bufVars
<1>2. ASSUME NEW t \in Sides, Sleep(t) PROVE SignalComing'
  BY <1>2 DEF Sleep, bufVars
<1>3. ASSUME NEW t \in Sides, Access(t) PROVE SignalComing'
  BY <1>3 DEF Access, AccessItem, PutItem, GetItem
<1>4. ASSUME NEW t \in Sides, Load(t) PROVE SignalComing'
  BY <1>4 DEF Load, LoadCounter
<1>5. ASSUME NEW t \in Sides, Store(t) PROVE SignalComing'
  BY <1>5 DEF Store
<1>6. ASSUME NEW t \in Sides, Signal(t) PROVE SignalComing'
  BY <1>6 DEF Signal, bufVars
<1>7. ASSUME NEW t \in Sides, Unlock(t) \/ Exit(t) PROVE SignalComing'
  BY <1>7 DEF Unlock, Exit, bufVars
<1>8. CASE Main
  BY <1>8 DEF Main, Join, Destroy, bufVars
<1>9. CASE UNCHANGED vars
  BY <1>9 DEF vars, bufVars
<1>10. QED
  BY <1>1, <1>2, <1>3, <1>4, <1>5, <1>6, <1>7, <1>8, <1>9 DEF Next, Side, Ended

------------------------------------------------------------------------------
(* The items *)

\* There are never more items than slots, and a free slot for a Put.
LEMMA ItemsBound == Control =>
                      /\ Items \in 0..MAX_BUF
                      /\ pc["Producer"] = "access" => Items < MAX_BUF
                      /\ pc["Consumer"] = "access" => Items > 0
<1> SUFFICES ASSUME Control
             PROVE  /\ Items \in 0..MAX_BUF
                    /\ pc["Producer"] = "access" => Items < MAX_BUF
                    /\ pc["Consumer"] = "access" => Items > 0
  OBVIOUS
<1>1. /\ counter \in 0..MAX_BUF /\ Items \in Int /\ HolderInv
      /\ counter = Items - Bit(pc["Producer"] \in Moving)
                         + Bit(pc["Consumer"] \in Moving)
  BY Guards DEF Control, TypeOK, BufTypeOK, FollowsInv, Items
<1>2. /\ pc["Producer"] \in {"access", "load", "store"} => counter # MAX_BUF
      /\ pc["Consumer"] \in {"access", "load", "store"} => counter # 0
  BY Names DEF Control, TestInv, MustWait
<1>3. ~(pc["Producer"] \in InMutex /\ pc["Consumer"] \in InMutex)
  BY <1>1, Names DEF HolderInv, InMutex
<1>4. QED
  BY <1>1, <1>2, <1>3, BufferAssumption DEF Moving, InMutex

\* The steps that do not move an item leave the slots and the history alone.
LEMMA OnlyAccess ==
  [Next]_vars => \/ \E t \in Sides : Access(t)
                 \/ UNCHANGED <<buf, in, out, produced, consumed>>
  BY DEF Next, Side, Main, Join, Destroy, Ended, vars, bufVars, Lock, Sleep,
         Proceed, SpuriousWake, Load, LoadCounter, Store, StoreCounter, Signal,
         Unlock, Exit

\* The control invariant implies that of the buffer's indices.
LEMMA ControlSlotted == Control => Slotted
<1> SUFFICES ASSUME Control PROVE Slotted
  OBVIOUS
<1>1. \A s \in Slots : buf[s] \in Nat
  BY DEF Control, TypeOK, BufTypeOK
<1>2. /\ consumed \in [1..Len(consumed) -> 0..NLOOPS] /\ Len(consumed) \in Nat
  BY LenProperties DEF Control, TypeOK, BufTypeOK
<1>3. consumed \in [1..Len(consumed) -> Nat]
  BY <1>2
<1>4. consumed \in Seq(Nat)
  BY <1>2, <1>3, SeqDef
<1>5. buf \in [Slots -> 0..NLOOPS]
  BY DEF Control, TypeOK, BufTypeOK
<1>6. buf \in [Slots -> Nat]
  BY <1>1, <1>5
<1>7. QED
  BY <1>4, <1>6 DEF Control, TypeOK, BufTypeOK, Slotted

\* The producer puts an item only when there is a free slot.
LEMMA PutAllowed == ASSUME IInv, Access("Producer")
                    PROVE  /\ PutItem /\ Items \in 0 .. MAX_BUF - 1
                           /\ produced < NLOOPS
<1>1. PutItem /\ pc["Producer"] = "access"
  BY DEF Access, AccessItem
<1>2. Items \in 0 .. MAX_BUF - 1
  BY <1>1, ItemsBound, BufferAssumption DEF IInv
<1>3. produced \in Nat /\ i["Producer"] \in Nat
  BY Names, BufferAssumption DEF IInv, Control, TypeOK, BufTypeOK
<1>4. produced < NLOOPS
  BY <1>1, <1>3, Names DEF IInv, Control, LoopInv, Moved, Moving
<1>5. QED
  BY <1>1, <1>2, <1>4

\* The consumer gets an item only when there is one.
LEMMA GetAllowed == ASSUME IInv, Access("Consumer")
                    PROVE  GetItem /\ Items \in 1 .. MAX_BUF
<1>1. GetItem /\ pc["Consumer"] = "access"
  BY DEF Access, AccessItem
<1>2. QED
  BY <1>1, ItemsBound, BufferAssumption DEF IInv

\* Every step preserves the invariant.
LEMMA Inductive == IInv /\ [Next]_vars => IInv'
<1> SUFFICES ASSUME IInv, [Next]_vars PROVE Window' /\ InOrder'
  BY ControlStep, WakeupStep DEF IInv
<1>1. Slotted /\ Window /\ InOrder
  BY ControlSlotted DEF IInv
<1>2. CASE Access("Producer")
  <2>1. consumed' = consumed
    BY <1>2, PutAllowed DEF PutItem
  <2>2. QED
    BY <1>1, <1>2, <2>1, PutAllowed, PutStep DEF InOrder
<1>3. CASE Access("Consumer")
  BY <1>1, <1>3, GetAllowed, GetStep, OrderStep
<1>4. CASE UNCHANGED <<buf, in, out, produced, consumed>>
  BY <1>1, <1>4 DEF Window, InOrder, Items
<1>5. QED
  BY <1>2, <1>3, <1>4, OnlyAccess DEF Sides

\* The invariant holds in every behaviour.
LEMMA Always == Spec => []IInv
<1>1. Init => IInv
  BY ControlInit, SlottedInit DEF Init, IInv
<1>2. QED
  BY <1>1, Inductive, PTL DEF Spec

------------------------------------------------------------------------------
(* Theorems *)

\* Every variable keeps its type.
THEOREM TypeCorrect == Spec => []TypeOK
<1>1. IInv => TypeOK
  BY DEF IInv, Control
<1>2. QED
  BY <1>1, Always, PTL

\* The mutex keeps the two apart, and counter misses no update.
THEOREM CounterGuarded == Spec => []MutexGuardsCounter
<1>1. IInv => MutexGuardsCounter
  BY DEF IInv, Control
<1>2. QED
  BY <1>1, Always, PTL

\* No wakeup is lost, however often the threads are woken for nothing, and no
\* side is left asleep.  Were both asleep, or one behind the end of the other,
\* no signal would be on its way: counter would be what each sleeper waits at,
\* but then it cannot be full and empty at a time, nor can it be at the limit
\* of one side when the other has moved all its items.
THEOREM WakeupSafe == Spec => []NoLostWakeup
<1>1. IInv => NobodyLeftAsleep
  <2> SUFFICES ASSUME IInv PROVE NobodyLeftAsleep
    OBVIOUS
  <2>1. /\ Other["Producer"] = "Consumer" /\ Other["Consumer"] = "Producer"
        /\ MustWait["Producer"] = MAX_BUF /\ MustWait["Consumer"] = 0
    BY DEF Other, MustWait
  <2>2. /\ pc["Producer"] = "asleep" => counter = MAX_BUF \/ pc["Consumer"] = "signal"
        /\ pc["Consumer"] = "asleep" => counter = 0 \/ pc["Producer"] = "signal"
    BY <2>1, Names DEF IInv, SignalComing
  <2>3. ~(pc["Producer"] = "asleep" /\ pc["Consumer"] = "asleep")
    BY <2>2, BufferAssumption
  <2>4. /\ counter = Items - Bit(pc["Producer"] \in Moving)
                           + Bit(pc["Consumer"] \in Moving)
        /\ Items \in 0..MAX_BUF /\ produced \in Nat /\ Len(consumed) \in Nat
    BY Guards, ItemsBound DEF IInv, Control, TypeOK, BufTypeOK, FollowsInv
  <2>5. /\ i["Producer"] = produced - Bit(pc["Producer"] \in Moved)
        /\ i["Consumer"] = Len(consumed) - Bit(pc["Consumer"] \in Moved)
        /\ \A t \in Sides : /\ pc[t] = "asleep" => i[t] < NLOOPS
                            /\ pc[t] = "exited" => i[t] = NLOOPS
    BY DEF IInv, Control, LoopInv
  <2>6. ASSUME pc["Producer"] = "asleep", pc["Consumer"] = "exited" PROVE FALSE
    <3>1. produced < NLOOPS /\ Len(consumed) = NLOOPS
      BY <2>4, <2>5, <2>6, Names DEF Moved, Moving
    <3>2. QED
      BY <2>4, <3>1, BufferAssumption DEF Items
  <2>7. ASSUME pc["Consumer"] = "asleep", pc["Producer"] = "exited" PROVE FALSE
    <3>1. Len(consumed) < NLOOPS /\ produced = NLOOPS
      BY <2>4, <2>5, <2>7, Names DEF Moved, Moving
    <3>2. counter = 0 /\ counter = Items
      BY <2>2, <2>4, <2>7 DEF Moving
    <3>3. QED
      BY <2>4, <3>1, <3>2, BufferAssumption DEF Items
  <2>8. QED
    BY <2>1, <2>3, <2>6, <2>7, Names DEF NobodyLeftAsleep
<1>2. IInv => NoLostWakeup
  BY <1>1 DEF IInv, NoLostWakeup
<1>3. QED
  BY <1>2, Always, PTL

\* The program is a bounded FIFO buffer: every step of its threads is a step
\* of BoundedFifo or changes nothing there.
THEOREM FifoSafe == Spec => Fifo!Safety
<1>1. Init => Fifo!Init
  BY DEF Init, BufInit, Fifo!Init
<1>2. IInv /\ [Next]_vars => [Fifo!Next]_(Fifo!fifoVars)
  <2> SUFFICES ASSUME IInv, [Next]_vars
               PROVE  [Fifo!Next]_(Fifo!fifoVars)
    OBVIOUS
  <2>1. CASE Access("Producer")
    <3>1. produced < NLOOPS /\ produced - Len(consumed) < MAX_BUF
      BY <2>1, PutAllowed, BufferAssumption DEF Items
    <3>2. produced' = produced + 1 /\ consumed' = consumed
      BY <2>1, PutAllowed DEF PutItem
    <3>3. QED
      BY <3>1, <3>2 DEF Fifo!Next, Fifo!Send
  <2>2. CASE Access("Consumer")
    <3>1. produced \in Nat /\ Len(consumed) \in Nat
      BY DEF IInv, Control, TypeOK, BufTypeOK
    <3>2. Len(consumed) < produced
      BY <2>2, <3>1, GetAllowed, BufferAssumption DEF Items
    <3>3. produced' = produced /\ consumed' = Append(consumed, Len(consumed) + 1)
      <4>1. Slotted /\ Window
        BY ControlSlotted DEF IInv
      <4>2. QED
        BY <2>2, <4>1, GetAllowed, GetStep DEF GetItem
    <3>4. QED
      BY <3>2, <3>3 DEF Fifo!Next, Fifo!Receive
  <2>3. CASE UNCHANGED <<buf, in, out, produced, consumed>>
    BY <2>3 DEF Fifo!fifoVars
  <2>4. QED
    BY <2>1, <2>2, <2>3, OnlyAccess DEF Sides
<1>3. QED
  BY <1>1, <1>2, Always, PTL DEF Spec, Fifo!Safety

==============================================================================
