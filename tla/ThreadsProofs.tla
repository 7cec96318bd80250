---------------------------- MODULE ThreadsProofs ----------------------------
(***************************************************************************)
(* Proofs about programs whose threads share memory: SemLib2, for any      *)
(* finite set of threads, any initial value and number of calls;           *)
(* ProdConsT, for any size of the buffer and number of items; and Sizes,   *)
(* for any directory and any buffer.                                       *)
(***************************************************************************)
EXTENDS MCThreads, SharedBufferProofs, FiniteSetTheorems

------------------------------------------------------------------------------
(* The semaphore of semlib2.c *)

\* The types hold at first.
LEMMA TypeInit == Init => TypeOK
  BY SemAssumption DEF Init, TypeOK, Labels

\* Every step preserves the types.
LEMMA TypeStep == TypeOK /\ [Next]_vars => TypeOK'
<1> SUFFICES ASSUME TypeOK, [Next]_vars PROVE TypeOK'
  OBVIOUS
<1> USE SemAssumption DEF TypeOK, Goto, Labels, Holding, Returning, AfterLock
<1>1. ASSUME NEW t \in Threads, Call(t) PROVE TypeOK'
  BY <1>1 DEF Call, Entry
<1>2. ASSUME NEW t \in Threads, SpuriousWake(t) PROVE TypeOK'
  BY <1>2 DEF SpuriousWake, Blocked
<1>3. ASSUME NEW t \in Threads, Lock(t) PROVE TypeOK'
  BY <1>3 DEF Lock
<1>4. ASSUME NEW t \in Threads, Unlock(t) PROVE TypeOK'
  BY <1>4 DEF Unlock
<1>5. ASSUME NEW t \in Threads, WaitBlock(t) PROVE TypeOK'
  BY <1>5 DEF WaitBlock
<1>6. ASSUME NEW t \in Threads, WaitTake(t) PROVE TypeOK'
  BY <1>6 DEF WaitTake
<1>7. ASSUME NEW t \in Threads, TryTake(t) PROVE TypeOK'
  BY <1>7 DEF TryTake
<1>8. ASSUME NEW t \in Threads, TryRefuse(t) PROVE TypeOK'
  BY <1>8 DEF TryRefuse
<1>9. ASSUME NEW t \in Threads, PostSignal(t) PROVE TypeOK'
  BY <1>9 DEF PostSignal, Blocked
<1>10. ASSUME NEW t \in Threads, PostAdd(t) PROVE TypeOK'
  BY <1>10 DEF PostAdd
<1>11. CASE UNCHANGED vars
  BY <1>11 DEF vars
<1>12. QED
  BY <1>1, <1>2, <1>3, <1>4, <1>5, <1>6, <1>7, <1>8, <1>9, <1>10, <1>11
     DEF Next, Step, Quiet

\* Every variable keeps its range.
THEOREM TypeCorrect == Spec => []TypeOK
  BY TypeInit, TypeStep, PTL DEF Spec

------------------------------------------------------------------------------
(* Mutual exclusion inside the semaphore *)

\* Nobody is inside at first.
LEMMA HolderInit == Init => HolderInside
  BY SemAssumption DEF Init, HolderInside, Holding, Returning

\* Every step keeps the threads that touch sval the holders of the mutex.
LEMMA HolderStep == TypeOK /\ HolderInside /\ [Next]_vars => HolderInside'
<1> SUFFICES ASSUME TypeOK, HolderInside, [Next]_vars,
                    NEW u \in Threads
             PROVE  (pc'[u] \in Holding) <=> (mutex' = u)
  BY DEF HolderInside
<1> USE SemAssumption DEF TypeOK, HolderInside, Goto, Holding, Returning,
                          AfterLock
<1>1. ASSUME NEW t \in Threads, Call(t) \/ SpuriousWake(t)
      PROVE  (pc'[u] \in Holding) <=> (mutex' = u)
  BY <1>1 DEF Call, SpuriousWake, Entry, Blocked
<1>2. ASSUME NEW t \in Threads, Lock(t)
      PROVE  (pc'[u] \in Holding) <=> (mutex' = u)
  BY <1>2 DEF Lock
<1>3. ASSUME NEW t \in Threads, Unlock(t) \/ WaitBlock(t)
      PROVE  (pc'[u] \in Holding) <=> (mutex' = u)
  BY <1>3 DEF Unlock, WaitBlock
<1>4. ASSUME NEW t \in Threads,
             WaitTake(t) \/ TryTake(t) \/ TryRefuse(t) \/ PostAdd(t)
      PROVE  (pc'[u] \in Holding) <=> (mutex' = u)
  BY <1>4 DEF WaitTake, TryTake, TryRefuse, PostAdd
<1>5. ASSUME NEW t \in Threads, PostSignal(t)
      PROVE  (pc'[u] \in Holding) <=> (mutex' = u)
  BY <1>5 DEF PostSignal, Blocked
<1>6. CASE UNCHANGED vars
  BY <1>6 DEF vars
<1>7. QED
  BY <1>1, <1>2, <1>3, <1>4, <1>5, <1>6 DEF Next, Step, Quiet

\* sval is only touched under the mutex.
THEOREM Exclusion == Spec => []HolderInside
  BY HolderInit, HolderStep, TypeCorrect, PTL DEF Spec

------------------------------------------------------------------------------
(* No thread sleeps on a permit that nobody is coming for *)

\* A poster that has signalled and not yet added its permit.
Adding == \E t \in Threads : pc[t] = "postAdd"

\* NoStranded is not inductive: between the signal and the increment of
\* sem_post the permit of that poster has to be counted already.
StrandInv == Blocked # {} =>
               IF Adding THEN sval + 1 <= Cardinality(Awake)
                         ELSE sval <= Cardinality(Awake)

\* The threads that are on their way can be counted.
LEMMA AwakeFinite == /\ IsFiniteSet(Awake) /\ Cardinality(Awake) \in Nat
                     /\ IsFiniteSet(Awake') /\ Cardinality(Awake') \in Nat
  BY SemAssumption, FS_Subset, FS_CardinalityType DEF Awake

\* Every step leaves enough threads on their way to the permits.
LEMMA StrandStep == TypeOK /\ HolderInside /\ StrandInv /\ [Next]_vars
                    => StrandInv'
<1> SUFFICES ASSUME TypeOK, HolderInside, StrandInv, [Next]_vars,
                    TypeOK', Blocked' # {}
             PROVE  IF Adding' THEN sval' + 1 <= Cardinality(Awake')
                               ELSE sval' <= Cardinality(Awake')
  BY TypeStep DEF StrandInv
<1> DEFINE Goal == IF Adding' THEN sval' + 1 <= Cardinality(Awake')
                              ELSE sval' <= Cardinality(Awake')
<1> USE SemAssumption, AwakeFinite DEF TypeOK, Goto
<1>1. ASSUME Awake \subseteq Awake', Blocked' \subseteq Blocked,
             sval' <= sval, (Adding' => Adding)
      PROVE  Goal
  <2>1. Cardinality(Awake) <= Cardinality(Awake')
    BY <1>1, FS_Subset
  <2>2. QED
    BY <1>1, <2>1 DEF StrandInv
<1>2. ASSUME NEW t \in Threads, Call(t) \/ Lock(t) \/ Unlock(t)
      PROVE  Goal
  <2>1. /\ Awake \subseteq Awake' /\ Blocked' \subseteq Blocked
        /\ sval' = sval /\ (Adding' => Adding)
    BY <1>2 DEF Call, Lock, Unlock, Awake, Blocked, Adding, Entry,
                AfterLock, Returning
  <2>2. QED
    BY <1>1, <2>1
<1>3. ASSUME NEW t \in Threads, SpuriousWake(t) PROVE Goal
  <2>1. /\ Awake \subseteq Awake' /\ Blocked' \subseteq Blocked
        /\ sval' = sval /\ (Adding' => Adding)
    BY <1>3 DEF SpuriousWake, Awake, Blocked, Adding
  <2>2. QED
    BY <1>1, <2>1
<1>4. ASSUME NEW t \in Threads, TryTake(t) \/ TryRefuse(t) PROVE Goal
  <2>1. /\ Awake \subseteq Awake' /\ Blocked' \subseteq Blocked
        /\ sval' <= sval /\ (Adding' => Adding)
    BY <1>4 DEF TryTake, TryRefuse, Awake, Blocked, Adding
  <2>2. QED
    BY <1>1, <2>1
<1>5. ASSUME NEW t \in Threads, WaitBlock(t) PROVE Goal
  <2>1. sval' = 0 /\ ~Adding'
    BY <1>5 DEF WaitBlock, Adding, HolderInside, Holding
  <2>2. QED
    BY <2>1
<1>6. ASSUME NEW t \in Threads, WaitTake(t) PROVE Goal
  <2>1. /\ t \in Awake /\ Awake' = Awake \ {t} /\ Blocked' = Blocked
        /\ sval' = sval - 1 /\ (Adding' => Adding)
    BY <1>6 DEF WaitTake, Awake, Blocked, Adding
  <2>2. Cardinality(Awake') = Cardinality(Awake) - 1
    BY <2>1, FS_RemoveElement
  <2>3. QED
    BY <2>1, <2>2 DEF StrandInv
<1>7. ASSUME NEW t \in Threads, PostSignal(t) PROVE Goal
  <2>1. ~Adding /\ sval' = sval
    BY <1>7 DEF PostSignal, Adding, HolderInside, Holding
  <2>2. CASE Blocked = {}
    BY <1>7, <2>2 DEF PostSignal, Blocked
  <2>3. ASSUME NEW w \in Blocked,
               pc' = [pc EXCEPT ![t] = "postAdd", ![w] = "waitRelock"]
        PROVE  Goal
    <3>1. w \notin Awake /\ Awake' = Awake \cup {w}
      BY <1>7, <2>3 DEF PostSignal, Awake, Blocked
    <3>2. Cardinality(Awake') = Cardinality(Awake) + 1
      BY <3>1, FS_AddElement
    <3>3. QED
      BY <2>1, <2>3, <3>2 DEF StrandInv
  <2>4. QED
    BY <1>7, <2>2, <2>3 DEF PostSignal
<1>8. ASSUME NEW t \in Threads, PostAdd(t) PROVE Goal
  <2>1. /\ Awake' = Awake /\ Blocked' = Blocked
        /\ Adding /\ ~Adding' /\ sval' = sval + 1
    BY <1>8 DEF PostAdd, Awake, Blocked, Adding, HolderInside, Holding
  <2>2. QED
    BY <2>1 DEF StrandInv
<1>9. CASE UNCHANGED vars
  BY <1>9 DEF vars, StrandInv, Awake, Blocked, Adding
<1>10. QED
  BY <1>2, <1>3, <1>4, <1>5, <1>6, <1>7, <1>8, <1>9 DEF Next, Step, Quiet

\* Nobody sleeps at first.
LEMMA StrandInit == Init => StrandInv
  BY DEF Init, StrandInv, Blocked

\* The invariant says more than NoStranded.
LEMMA StrandEnough == TypeOK /\ StrandInv => NoStranded
  BY AwakeFinite DEF TypeOK, StrandInv, NoStranded

\* One pthread_cond_signal per sem_post, sent before the increment, is enough:
\* whenever a thread sleeps in sem_wait, at least as many threads are awake
\* and about to take permits as there are permits.
THEOREM NobodyStranded == Spec => []NoStranded
  BY StrandInit, StrandStep, StrandEnough, TypeCorrect, Exclusion, PTL DEF Spec

------------------------------------------------------------------------------
(* The semaphore the three functions implement *)

\* Every step is one of the abstract semaphore or changes nothing of it.
LEMMA RefinementStep ==
  ASSUME TypeOK, [Next]_vars
  PROVE  [Sem!Next]_(Sem!semVars)
<1> DEFINE call == [t \in Threads |-> CallOf[pc[t]]]
<1> USE SemAssumption DEF TypeOK, Goto
<1>1. ASSUME NEW t \in Threads, Call(t) PROVE Sem!Invoke(t)
  <2>1. PICK entry \in Entry : pc' = [pc EXCEPT ![t] = entry]
    BY <1>1 DEF Call
  <2>2. CallOf[entry] \in Sem!Operations /\ CallOf[pc[t]] = "none"
    BY <1>1 DEF Call, Entry, CallOf, Sem!Operations
  <2>3. call' = [call EXCEPT ![t] = CallOf[entry]]
    BY <2>1
  <2>4. QED
    BY <1>1, <2>2, <2>3 DEF Call, Sem!Invoke
<1>2. ASSUME NEW t \in Threads, Lock(t) \/ WaitBlock(t) \/ SpuriousWake(t)
      PROVE  UNCHANGED Sem!semVars
  <2>1. \A u \in Threads : CallOf[pc'[u]] = CallOf[pc[u]]
    BY <1>2 DEF Lock, WaitBlock, SpuriousWake, Blocked, AfterLock, CallOf
  <2>2. QED
    BY <1>2, <2>1 DEF Lock, WaitBlock, SpuriousWake, Sem!semVars
<1>3. ASSUME NEW t \in Threads, Unlock(t) PROVE Sem!Return(t)
  <2>1. CallOf[pc[t]] \in {"done", "refused"} /\ CallOf["idle"] = "none"
    BY <1>3 DEF Unlock, Returning, CallOf
  <2>2. QED
    BY <1>3, <2>1 DEF Unlock, Sem!Return
<1>4. ASSUME NEW t \in Threads, WaitTake(t) \/ TryTake(t)
      PROVE  Sem!Decrement(t)
  <2>1. CallOf[pc[t]] \in {"wait", "trywait"} /\ CallOf[pc'[t]] = "done"
    BY <1>4 DEF WaitTake, TryTake, CallOf
  <2>2. call' = [call EXCEPT ![t] = CallOf[pc'[t]]]
    BY <1>4 DEF WaitTake, TryTake
  <2>3. sval > 0 /\ sval' = sval - 1
    BY <1>4 DEF WaitTake, TryTake
  <2>4. QED
    BY <2>1, <2>2, <2>3 DEF Sem!Decrement
<1>5. ASSUME NEW t \in Threads, TryRefuse(t) PROVE Sem!Refuse(t)
  <2>1. CallOf["tryTest"] = "trywait" /\ CallOf["tryFailUnlock"] = "refused"
    BY DEF CallOf
  <2>2. QED
    BY <1>5, <2>1 DEF TryRefuse, Sem!Refuse
<1>6. ASSUME NEW t \in Threads, PostSignal(t) PROVE UNCHANGED Sem!semVars
  <2>1. \A u \in Threads : CallOf[pc'[u]] = CallOf[pc[u]]
    BY <1>6 DEF PostSignal, Blocked, CallOf
  <2>2. QED
    BY <1>6, <2>1 DEF PostSignal, Sem!semVars
<1>7. ASSUME NEW t \in Threads, PostAdd(t) PROVE Sem!Increment(t)
  <2>1. CallOf["postAdd"] = "post" /\ CallOf["postUnlock"] = "done"
    BY DEF CallOf
  <2>2. QED
    BY <1>7, <2>1 DEF PostAdd, Sem!Increment
<1>8. CASE UNCHANGED vars
  BY <1>8 DEF vars, Sem!semVars
<1>9. QED
  BY <1>1, <1>2, <1>3, <1>4, <1>5, <1>6, <1>7, <1>8
     DEF Next, Step, Quiet, Sem!Next

\* semlib2.c is a semaphore: whatever its threads do, each call acts as one
\* indivisible step of the abstract semaphore.
THEOREM Linearizable == Spec => Sem!Safety
<1>1. Init => Sem!Init
  BY DEF Init, Sem!Init, CallOf
<1>2. QED
  BY <1>1, RefinementStep, TypeCorrect, PTL DEF Spec, Sem!Safety

------------------------------------------------------------------------------
(* Busy waiting *)

Bit(b) == IF b THEN 1 ELSE 0

\* Between the item and the store of the counter.
Moving == {"load", "store"}

\* counter says how many items there are, but for the sides that are moving one.
FollowsInv == counter = Items - Bit(where["Producer"] \in Moving)
                              + Bit(where["Consumer"] \in Moving)

USE DEF Bit

\* The sides and the slots are those of SharedBuffer.
USE DEF Sides, Busy!Sides, Slots, Busy!Slots

\* The accesses to the buffer, too.
LEMMA SameBuffer == /\ Busy!BufInit <=> BufInit
                    /\ Busy!PutItem <=> PutItem
                    /\ Busy!GetItem <=> GetItem
                    /\ Busy!Update = Update /\ Busy!MustWait = MustWait
  BY DEF Busy!BufInit, BufInit, Busy!PutItem, PutItem, Busy!GetItem, GetItem,
         Busy!Update, Update, Busy!MustWait, MustWait

\* The loop counters follow the items.
BusyLoopInv ==
    /\ i["Producer"] = produced - Bit(where["Producer"] \in Moving)
    /\ i["Consumer"] = Len(consumed) - Bit(where["Consumer"] \in Moving)
    /\ \A t \in Sides : /\ where[t] \notin {"loop", "exited"} => i[t] < NLOOPS
                        /\ where[t] = "exited" => i[t] = NLOOPS

\* Neither side spoils what the other one has seen, up to the store, and what
\* a side has loaded may be counted up, or down, by one.
SeenInv == /\ where["Producer"] \in {"access", "load", "store"} => counter < MAX_BUF
           /\ where["Consumer"] \in {"access", "load", "store"} => counter > 0
           /\ where["Producer"] = "store" => reg["Producer"] < MAX_BUF
           /\ where["Consumer"] = "store" => reg["Consumer"] > 0

\* Until an update is lost, counter follows the items.
BusyFollowsInv == ~lost => FollowsInv

BusyControl == Busy!TypeOK /\ BusyLoopInv /\ SeenInv

BusyInv == /\ BusyControl /\ BusyFollowsInv
           /\ ~lost => Window /\ InOrder

------------------------------------------------------------------------------
(* The range of the counter *)

\* The control invariant holds at first.
LEMMA BusyControlInit == Busy!Init => BusyControl
<1> SUFFICES ASSUME Busy!Init PROVE BusyControl
  OBVIOUS
<1>1. /\ Len(consumed) = 0 /\ consumed \in Seq(0..NLOOPS)
  BY EmptySeq DEF Busy!Init, Busy!BufInit
<1>2. 0 \in Slots /\ 0 \in 0..NLOOPS /\ 0 \in 0..MAX_BUF
  BY BufferAssumption
<1>3. Busy!TypeOK
  BY <1>1, <1>2 DEF Busy!Init, Busy!BufInit, Busy!TypeOK, Busy!BufTypeOK, Busy!SideLabels
<1>4. /\ produced = 0 /\ i = [t \in Sides |-> 0]
      /\ where = [t \in Sides |-> "loop"]
  BY DEF Busy!Init, Busy!BufInit
<1>5. BusyLoopInv /\ SeenInv
  <2>1. Len(consumed) = 0
    BY <1>1
  <2>2. /\ where["Producer"] = "loop" /\ where["Consumer"] = "loop"
        /\ i["Producer"] = 0 /\ i["Consumer"] = 0 /\ produced = 0
    BY <1>4
  <2>3. SeenInv
    BY <2>2 DEF SeenInv
  <2>4. BusyLoopInv
    <3>1. /\ Bit(where["Producer"] \in Moving) = 0
          /\ Bit(where["Consumer"] \in Moving) = 0
      BY <2>2 DEF Moving
    <3>2. \A t \in Sides : /\ where[t] \notin {"loop", "exited"} => i[t] < NLOOPS
                           /\ where[t] = "exited" => i[t] = NLOOPS
      BY <2>2
    <3>3. /\ i["Producer"] = produced - 0
          /\ i["Consumer"] = Len(consumed) - 0
      BY <2>1, <2>2
    <3>4. QED
      BY <3>1, <3>2, <3>3 DEF BusyLoopInv
  <2>5. QED
    BY <2>3, <2>4
<1>6. QED
  BY <1>3, <1>5 DEF BusyControl

\* A Put keeps the types of the buffer.
LEMMA BusyPutTypes == ASSUME BusyControl, Busy!PutItem, where["Producer"] = "access"
                      PROVE  Busy!BufTypeOK'
<1>1. Busy!BufTypeOK /\ i["Producer"] < NLOOPS /\ i["Producer"] = produced
  <2>1. Busy!BufTypeOK /\ produced \in Nat
    BY BufferAssumption DEF BusyControl, Busy!TypeOK, Busy!BufTypeOK
  <2>2. QED
    BY <2>1 DEF BusyControl, BusyLoopInv, Moving
<1>2. produced + 1 \in 0..NLOOPS
  BY <1>1, BufferAssumption DEF Busy!BufTypeOK
<1>3. in' \in Slots
  BY <1>1, ModStep, BufferAssumption DEF Busy!BufTypeOK, Busy!PutItem, Wrap
<1>4. QED
  BY <1>1, <1>2, <1>3 DEF Busy!BufTypeOK, Busy!PutItem

\* A Get keeps the types of the buffer.
LEMMA BusyGetTypes == ASSUME BusyControl, Busy!GetItem PROVE Busy!BufTypeOK'
<1>1. Busy!BufTypeOK
  BY DEF BusyControl, Busy!TypeOK
<1>2. out' \in Slots
  BY <1>1, ModStep, BufferAssumption DEF Busy!BufTypeOK, Busy!GetItem, Wrap
<1>3. buf[out] \in 0..NLOOPS
  BY <1>1 DEF Busy!BufTypeOK
<1>4. consumed' \in Seq(0..NLOOPS)
  BY <1>1, <1>3 DEF Busy!BufTypeOK, Busy!GetItem
<1>5. QED
  BY <1>1, <1>2, <1>4 DEF Busy!BufTypeOK, Busy!GetItem

\* What a side stores is in range, and leaves the other one what it has seen.
LEMMA BusyStoreRange == ASSUME BusyControl, NEW t \in Sides, Busy!Store(t)
                        PROVE  /\ counter' \in 0..MAX_BUF
                               /\ t = "Producer" => counter' > 0
                               /\ t = "Consumer" => counter' < MAX_BUF
<1>1. /\ reg[t] \in 0..MAX_BUF /\ counter' = reg[t] + Update[t]
      /\ t = "Producer" => reg[t] < MAX_BUF
      /\ t = "Consumer" => reg[t] > 0
  BY SameBuffer
     DEF BusyControl, Busy!TypeOK, Busy!BufTypeOK, SeenInv, Busy!Store,
         Busy!StoreCounter
<1>2. t = "Producer" \/ t = "Consumer"
  OBVIOUS
<1>3. QED
  BY <1>1, <1>2, BufferAssumption DEF Update, Busy!Update

\* Every step preserves the types.
LEMMA BusyTypesStep == BusyControl /\ [Busy!Next]_(Busy!vars) => Busy!TypeOK'
<1> SUFFICES ASSUME BusyControl, [Busy!Next]_(Busy!vars) PROVE Busy!TypeOK'
  OBVIOUS
<1>0. Busy!TypeOK
  BY DEF BusyControl
<1>1. ASSUME NEW t \in Sides, Busy!Proceed(t) \/ Busy!Exit(t) PROVE Busy!TypeOK'
  BY <1>0, <1>1
     DEF Busy!TypeOK, Busy!BufTypeOK, Busy!Proceed, Busy!Exit, Busy!Goto,
         Busy!SideLabels, Busy!bufVars
<1>2. ASSUME NEW t \in Sides, Busy!Access(t) PROVE Busy!TypeOK'
  <2>1. Busy!BufTypeOK'
    BY <1>2, BusyPutTypes, BusyGetTypes DEF Busy!Access, Busy!AccessItem
  <2>2. QED
    BY <1>0, <1>2, <2>1 DEF Busy!TypeOK, Busy!Access, Busy!Goto, Busy!SideLabels
<1>3. ASSUME NEW t \in Sides, Busy!Load(t) PROVE Busy!TypeOK'
  BY <1>0, <1>3
     DEF Busy!TypeOK, Busy!BufTypeOK, Busy!Load, Busy!LoadCounter, Busy!Goto,
         Busy!SideLabels
<1>4. ASSUME NEW t \in Sides, Busy!Store(t) PROVE Busy!TypeOK'
  <2>1. Busy!BufTypeOK'
    BY <1>0, <1>4, BusyStoreRange
       DEF Busy!TypeOK, Busy!BufTypeOK, Busy!Store, Busy!StoreCounter
  <2>2. i' \in [Sides -> 0..NLOOPS]
    <3>1. i[t] \in 0..NLOOPS /\ i[t] < NLOOPS
      BY <1>0, <1>4 DEF BusyControl, Busy!TypeOK, BusyLoopInv, Busy!Store
    <3>2. i[t] + 1 \in 0..NLOOPS
      BY <3>1, BufferAssumption
    <3>3. QED
      BY <1>0, <1>4, <3>2 DEF Busy!TypeOK, Busy!Store
  <2>3. where' \in [Sides -> Busy!SideLabels]
    BY <1>0, <1>4 DEF Busy!TypeOK, Busy!Store, Busy!Goto, Busy!SideLabels
  <2>4. lost' \in BOOLEAN
    BY <1>0, <1>4 DEF Busy!TypeOK, Busy!Store
  <2>5. QED
    BY <2>1, <2>2, <2>3, <2>4 DEF Busy!TypeOK
<1>5. CASE UNCHANGED Busy!vars
  BY <1>0, <1>5 DEF Busy!TypeOK, Busy!BufTypeOK, Busy!vars, Busy!bufVars
<1>6. QED
  BY <1>1, <1>2, <1>3, <1>4, <1>5 DEF Busy!Next, Busy!Side, Busy!Spin, Busy!Ended

\* Every step preserves the relation of the loop variables to the buffer.
LEMMA BusyLoopInvStep == BusyControl /\ [Busy!Next]_(Busy!vars) => BusyLoopInv'
<1> SUFFICES ASSUME BusyControl, [Busy!Next]_(Busy!vars) PROVE BusyLoopInv'
  OBVIOUS
<1>0. /\ BusyLoopInv /\ where \in [Sides -> Busy!SideLabels] /\ i \in [Sides -> 0..NLOOPS]
      /\ produced \in Nat /\ Len(consumed) \in Nat /\ consumed \in Seq(0..NLOOPS)
  BY BufferAssumption DEF BusyControl, Busy!TypeOK, Busy!BufTypeOK
<1> USE <1>0, BufferAssumption DEF BusyLoopInv, Moving, Busy!Goto
<1>1. ASSUME NEW t \in Sides, Busy!Proceed(t) \/ Busy!Exit(t) PROVE BusyLoopInv'
  BY <1>1, ZenonT(40) DEF Busy!Proceed, Busy!Exit, Busy!bufVars
<1>2. ASSUME NEW t \in Sides, Busy!Access(t) PROVE BusyLoopInv'
  <2>1. CASE t = "Producer"
    BY <1>2, <2>1, SMTT(40) DEF Busy!Access, Busy!AccessItem, Busy!PutItem
  <2>2. CASE t = "Consumer"
    <3>1. Len(consumed') = Len(consumed) + 1
      BY <1>2, <2>2
         DEF Busy!Access, Busy!AccessItem, Busy!GetItem, Busy!TypeOK, Busy!BufTypeOK,
             BusyControl
    <3>2. QED
      BY <1>2, <2>2, <3>1, SMTT(40) DEF Busy!Access, Busy!AccessItem, Busy!GetItem
  <2>3. QED
    BY <2>1, <2>2
<1>3. ASSUME NEW t \in Sides, Busy!Load(t) PROVE BusyLoopInv'
  BY <1>3 DEF Busy!Load, Busy!LoadCounter
<1>4. ASSUME NEW t \in Sides, Busy!Store(t) PROVE BusyLoopInv'
  BY <1>4, SMTT(40) DEF Busy!Store, Busy!StoreCounter
<1>5. CASE UNCHANGED Busy!vars
  BY <1>5 DEF Busy!vars, Busy!bufVars
<1>6. QED
  BY <1>1, <1>2, <1>3, <1>4, <1>5 DEF Busy!Next, Busy!Side, Busy!Spin, Busy!Ended

\* The producer only counts up and the consumer only down, so what one side
\* has seen stays true whatever the other one overwrites.
LEMMA SeenInvStep == BusyControl /\ [Busy!Next]_(Busy!vars) => SeenInv'
<1> SUFFICES ASSUME BusyControl, [Busy!Next]_(Busy!vars) PROVE SeenInv'
  OBVIOUS
<1>0. /\ SeenInv /\ where \in [Sides -> Busy!SideLabels] /\ reg \in [Sides -> 0..MAX_BUF]
      /\ counter \in 0..MAX_BUF
  BY DEF BusyControl, Busy!TypeOK, Busy!BufTypeOK
<1> USE <1>0, BufferAssumption DEF SeenInv, Busy!Goto
<1>1. ASSUME NEW t \in Sides, Busy!Proceed(t) PROVE SeenInv'
  BY <1>1 DEF Busy!Proceed, MustWait, Busy!MustWait, Busy!bufVars
<1>2. ASSUME NEW t \in Sides, Busy!Exit(t) PROVE SeenInv'
  BY <1>2 DEF Busy!Exit, Busy!bufVars
<1>3. ASSUME NEW t \in Sides, Busy!Access(t) PROVE SeenInv'
  BY <1>3 DEF Busy!Access, Busy!AccessItem, Busy!PutItem, Busy!GetItem
<1>4. ASSUME NEW t \in Sides, Busy!Load(t) PROVE SeenInv'
  BY <1>4 DEF Busy!Load, Busy!LoadCounter
<1>5. ASSUME NEW t \in Sides, Busy!Store(t) PROVE SeenInv'
  BY <1>5, BusyStoreRange DEF Busy!Store, Busy!StoreCounter
<1>6. CASE UNCHANGED Busy!vars
  BY <1>6 DEF Busy!vars, Busy!bufVars
<1>7. QED
  BY <1>1, <1>2, <1>3, <1>4, <1>5, <1>6 DEF Busy!Next, Busy!Side, Busy!Spin, Busy!Ended

\* Every step preserves the control invariant.
LEMMA BusyControlStep == BusyControl /\ [Busy!Next]_(Busy!vars) => BusyControl'
  BY BusyTypesStep, BusyLoopInvStep, SeenInvStep DEF BusyControl

------------------------------------------------------------------------------
(* What works until an update is lost *)

\* Until the first lost update, every step keeps counter equal to the items.
LEMMA BusyFollowsStep ==
    BusyControl /\ BusyFollowsInv /\ [Busy!Next]_(Busy!vars) => BusyFollowsInv'
<1> SUFFICES ASSUME BusyControl, BusyFollowsInv, [Busy!Next]_(Busy!vars)
             PROVE  BusyFollowsInv'
  OBVIOUS
<1>0. /\ where \in [Sides -> Busy!SideLabels] /\ reg \in [Sides -> 0..MAX_BUF]
      /\ counter \in Int /\ produced \in Nat /\ consumed \in Seq(0..NLOOPS)
      /\ Len(consumed) \in Nat /\ lost \in BOOLEAN
  BY DEF BusyControl, Busy!TypeOK, Busy!BufTypeOK
<1> USE <1>0, BufferAssumption DEF BusyFollowsInv, FollowsInv, Items, Moving, Busy!Goto
<1>1. ASSUME NEW t \in Sides, Busy!Proceed(t) \/ Busy!Exit(t) PROVE BusyFollowsInv'
  BY <1>1 DEF Busy!Proceed, Busy!Exit, Busy!bufVars
<1>2. ASSUME NEW t \in Sides, Busy!Access(t) PROVE BusyFollowsInv'
  <2>1. CASE t = "Producer"
    BY <1>2, <2>1 DEF Busy!Access, Busy!AccessItem, Busy!PutItem
  <2>2. CASE t = "Consumer"
    <3>1. Len(consumed') = Len(consumed) + 1
      BY <1>2, <2>2
         DEF Busy!Access, Busy!AccessItem, Busy!GetItem, Busy!TypeOK, Busy!BufTypeOK,
             BusyControl
    <3>2. QED
      BY <1>2, <2>2, <3>1, SMTT(40) DEF Busy!Access, Busy!AccessItem, Busy!GetItem
  <2>3. QED
    BY <2>1, <2>2
<1>3. ASSUME NEW t \in Sides, Busy!Load(t) PROVE BusyFollowsInv'
  BY <1>3 DEF Busy!Load, Busy!LoadCounter
<1>4. ASSUME NEW t \in Sides, Busy!Store(t) PROVE BusyFollowsInv'
  <2>1. ~lost' => ~lost /\ counter = reg[t]
    BY <1>4 DEF Busy!Store
  <2>2. counter' = reg[t] + Update[t] /\ UNCHANGED <<produced, consumed>>
    BY <1>4, SameBuffer DEF Busy!Store, Busy!StoreCounter
  <2>3. CASE t = "Producer"
    BY <1>4, <2>1, <2>2, <2>3 DEF Busy!Store, Update, Busy!Update
  <2>4. CASE t = "Consumer"
    <3>1. counter' = reg["Consumer"] - 1 /\ reg["Consumer"] \in Int
      BY <2>2, <2>4 DEF Update, Busy!Update
    <3>2. /\ where["Consumer"] = "store" /\ where'["Consumer"] = "loop"
          /\ where'["Producer"] = where["Producer"]
      BY <1>4, <2>4 DEF Busy!Store
    <3>3. QED
      BY <2>1, <2>2, <2>4, <3>1, <3>2, SMTT(40)
  <2>5. QED
    BY <2>3, <2>4
<1>5. CASE UNCHANGED Busy!vars
  BY <1>5 DEF Busy!vars, Busy!bufVars
<1>6. QED
  BY <1>1, <1>2, <1>3, <1>4, <1>5 DEF Busy!Next, Busy!Side, Busy!Spin, Busy!Ended

\* As long as counter follows the items, the waits of the two sides do what
\* they are for.
LEMMA BusyItemsBound == ASSUME BusyControl, BusyFollowsInv, ~lost
                    PROVE  /\ Items \in 0..MAX_BUF
                           /\ where["Producer"] = "access" => Items < MAX_BUF
                           /\ where["Consumer"] = "access" => Items > 0
<1>1. /\ counter \in 0..MAX_BUF /\ Items \in Int
      /\ counter = Items - Bit(where["Producer"] \in Moving)
                         + Bit(where["Consumer"] \in Moving)
  BY DEF BusyControl, Busy!TypeOK, Busy!BufTypeOK, BusyFollowsInv, FollowsInv, Items
<1>2. QED
  BY <1>1, BufferAssumption DEF BusyControl, SeenInv, Moving

\* Every step that loses no update preserves the invariant.
LEMMA BusyInductive == BusyInv /\ [Busy!Next]_(Busy!vars) => BusyInv'
<1> SUFFICES ASSUME BusyInv, [Busy!Next]_(Busy!vars), ~lost' PROVE Window' /\ InOrder'
  BY BusyControlStep, BusyFollowsStep DEF BusyInv
<1>0. ~lost
  BY DEF Busy!Next, Busy!Side, Busy!Proceed, Busy!Access, Busy!Load, Busy!Store,
     Busy!Exit, Busy!Spin, Busy!Ended, Busy!vars
<1>1. Slotted /\ Window /\ InOrder
  <2>1. buf \in [Slots -> Nat] /\ consumed \in Seq(Nat)
    <3>1. \A s \in Slots : buf[s] \in Nat
      BY DEF BusyInv, BusyControl, Busy!TypeOK, Busy!BufTypeOK
    <3>2. /\ consumed \in [1..Len(consumed) -> 0..NLOOPS] /\ Len(consumed) \in Nat
      BY LenProperties DEF BusyInv, BusyControl, Busy!TypeOK, Busy!BufTypeOK
    <3>3. consumed \in [1..Len(consumed) -> Nat]
      BY <3>2
    <3>4. consumed \in Seq(Nat)
      BY <3>2, <3>3, SeqDef
    <3>5. buf \in [Slots -> 0..NLOOPS]
      BY DEF BusyInv, BusyControl, Busy!TypeOK, Busy!BufTypeOK
    <3>6. QED
      BY <3>1, <3>4, <3>5
  <2>2. QED
    BY <1>0, <2>1 DEF BusyInv, BusyControl, Busy!TypeOK, Busy!BufTypeOK, Slotted
<1>2. CASE Busy!Access("Producer")
  <2>1. Busy!PutItem /\ consumed' = consumed
    BY <1>2 DEF Busy!Access, Busy!AccessItem, Busy!PutItem
  <2>2. Items \in 0 .. MAX_BUF - 1
    BY <1>0, <1>2, BusyItemsBound, BufferAssumption DEF BusyInv, Busy!Access
  <2>3. QED
    BY <1>1, <2>1, <2>2, PutStep, SameBuffer DEF InOrder
<1>3. CASE Busy!Access("Consumer")
  <2>1. Busy!GetItem
    BY <1>3 DEF Busy!Access, Busy!AccessItem
  <2>2. Items \in 1 .. MAX_BUF
    BY <1>0, <1>3, BusyItemsBound, BufferAssumption DEF BusyInv, Busy!Access
  <2>3. QED
    BY <1>1, <2>1, <2>2, GetStep, OrderStep, SameBuffer
<1>4. CASE UNCHANGED <<buf, in, out, produced, consumed>>
  BY <1>1, <1>4 DEF Window, InOrder, Items
<1>5. QED
  BY <1>2, <1>3, <1>4
     DEF Busy!Next, Busy!Side, Busy!Proceed, Busy!Load, Busy!LoadCounter,
         Busy!Store, Busy!StoreCounter, Busy!Exit, Busy!Spin,
         Busy!Ended, Busy!vars, Busy!bufVars

\* The buffer is empty at first.
LEMMA BusyInit == Busy!Init => BusyInv
<1> SUFFICES ASSUME Busy!Init PROVE BusyFollowsInv /\ Window /\ InOrder
  BY BusyControlInit DEF BusyInv
<1>1. Window /\ InOrder
  BY SlottedInit, SameBuffer DEF Busy!Init
<1>2. counter = 0 /\ produced = 0 /\ Len(consumed) = 0
  BY EmptySeq DEF Busy!Init, Busy!BufInit
<1>3. BusyFollowsInv
  BY <1>2 DEF Busy!Init, BusyFollowsInv, FollowsInv, Items, Moving
<1>4. QED
  BY <1>1, <1>3

\* The invariant holds in every behaviour, and bounds the counter.
LEMMA BusyAlways == Busy!Spec => []BusyInv
  BY BusyInit, BusyInductive, PTL DEF Busy!Spec

LEMMA BusyRange == BusyInv => CounterInRange
  BY DEF BusyInv, BusyControl, Busy!TypeOK, Busy!BufTypeOK, SeenInv, Busy!CounterInRange,
         CounterInRange

------------------------------------------------------------------------------
(* Theorems about busy waiting *)

\* Every variable keeps its type, although nothing guards the buffer.
THEOREM BusyTypeCorrect == Busy!Spec => []Busy!TypeOK
<1>1. BusyInv => Busy!TypeOK
  BY DEF BusyInv, BusyControl
<1>2. QED
  BY <1>1, BusyAlways, PTL

\* No interleaving of the two unlocked updates drives counter out of the range
\* the two waits test for.
THEOREM BusyRangeSafe == Busy!Spec => []CounterInRange
  BY BusyRange, BusyAlways, PTL

\* Until the first update is lost no side is left spinning: two that spin would
\* see a buffer that is full and empty, and one that spins behind the end of the
\* other would wait for an item that was made, or a slot that was freed.
THEOREM BusyNoneSpins == Busy!Spec => []Busy!NoneLeftSpinning
<1> DEFINE Spins(t) == /\ where[t] = "loop" /\ i[t] < NLOOPS
                       /\ counter = MustWait[t]
<1>1. BusyInv => Busy!NoneLeftSpinning
  <2> SUFFICES ASSUME BusyInv, ~lost PROVE Busy!NoneLeftSpinning
    BY DEF Busy!NoneLeftSpinning
  <2>1. MustWait["Producer"] = MAX_BUF /\ MustWait["Consumer"] = 0
    BY DEF MustWait
  <2>2. ~(Spins("Producer") /\ Spins("Consumer"))
    BY <2>1, BufferAssumption
  <2>3. /\ counter = Items - Bit(where["Producer"] \in Moving)
                           + Bit(where["Consumer"] \in Moving)
        /\ Items \in 0..MAX_BUF /\ produced \in Nat /\ Len(consumed) \in Nat
    BY BusyItemsBound DEF BusyInv, BusyFollowsInv, FollowsInv, BusyControl, Busy!TypeOK,
                          Busy!BufTypeOK
  <2>4. /\ i["Producer"] = produced - Bit(where["Producer"] \in Moving)
        /\ i["Consumer"] = Len(consumed) - Bit(where["Consumer"] \in Moving)
        /\ \A t \in Sides : where[t] = "exited" => i[t] = NLOOPS
    BY DEF BusyInv, BusyControl, BusyLoopInv
  <2>5. ASSUME Spins("Producer"), where["Consumer"] = "exited" PROVE FALSE
    <3>1. produced < NLOOPS /\ Len(consumed) = NLOOPS
      BY <2>3, <2>4, <2>5 DEF Moving
    <3>2. QED
      BY <2>3, <3>1, BufferAssumption DEF Items
  <2>6. ASSUME Spins("Consumer"), where["Producer"] = "exited" PROVE FALSE
    <3>1. Len(consumed) < NLOOPS /\ produced = NLOOPS /\ counter = Items
      BY <2>3, <2>4, <2>6 DEF Moving
    <3>2. QED
      BY <2>1, <2>3, <2>6, <3>1, BufferAssumption DEF Items
  <2>7. QED
    BY <2>1, <2>2, <2>5, <2>6, SameBuffer DEF Busy!NoneLeftSpinning
<1>2. QED
  BY <1>1, BusyAlways, PTL

\* The consumer gets the items in order until the first update is lost.
THEOREM BusyFifoSafe == Busy!Spec => []Busy!FifoUntilLost
<1>1. BusyInv => Busy!FifoUntilLost
  <2> SUFFICES ASSUME BusyInv, ~lost PROVE Busy!FifoUntilLost
    BY DEF Busy!FifoUntilLost
  <2>1. Items \in 0..MAX_BUF /\ Window /\ InOrder /\ out \in Slots
    BY BusyItemsBound DEF BusyInv, BusyControl, Busy!TypeOK, Busy!BufTypeOK
  <2>2. ASSUME NEW k \in 1 .. Items
        PROVE  buf[(out + k - 1) % MAX_BUF] = Len(consumed) + k
    <3>1. k \in 1..MAX_BUF /\ k - 1 \in 0 .. Items - 1
      BY <2>1, BufferAssumption
    <3>2. (out + k - 1) % MAX_BUF = Wrap(out + (k - 1))
      BY <2>1, <3>1, WrapIsMod
    <3>3. Len(consumed) \in Nat
      BY DEF BusyInv, BusyControl, Busy!TypeOK, Busy!BufTypeOK
    <3>4. buf[Wrap(out + (k - 1))] = Len(consumed) + 1 + (k - 1)
      BY <2>1, <3>1 DEF Window
    <3>5. QED
      BY <2>1, <3>1, <3>2, <3>3, <3>4
  <2>3. QED
    BY <2>1, <2>2 DEF Busy!FifoUntilLost, Busy!InOrder, InOrder, Items
<1>2. QED
  BY <1>1, BusyAlways, PTL

------------------------------------------------------------------------------
(* Threads that print sizes *)

\* What a thread is, and what the process.
Work == [at : {"lstat", "print", "exited"}, name : 0 .. Room - 1, st_size : Nat]
Process ==
    [entries : 1..MaxEntries, there : SUBSET Nat, last : Nat,
     buffer : [0 .. Room - 1 -> Nat], threads : Seq(Work),
     printed : Seq(Nat \X Nat), status : {"running", "exited", "failed"}]

\* The k-th thread has a pointer to the slot of the k-th entry, and what it
\* finds there and prints is the k-th entry, once.
ThreadInv(z) ==
    /\ z.buffer = [s \in 0 .. Room - 1 |-> s + 1]
    /\ \A t \in DOMAIN z.threads :
         /\ z.threads[t].name = t - 1
         /\ z.threads[t].at = "print" => z.threads[t].st_size = t
    /\ \A k \in DOMAIN z.printed :
         /\ z.printed[k][1] = z.printed[k][2]
         /\ z.printed[k][1] \in DOMAIN z.threads
         /\ z.threads[z.printed[k][1]].at = "exited"
         /\ \A j \in DOMAIN z.printed : z.printed[j] = z.printed[k] => j = k

SizeInv == /\ size \in Process
           /\ size.last <= size.entries /\ Len(size.threads) = size.last
           /\ size.entries <= Room => ThreadInv(size)

\* At first there are no threads, and the buffer holds the first entries.
LEMMA SizeInit == ASSUME Room \in Nat \ {0}, MaxEntries \in Nat, Z!Init PROVE SizeInv
<1>1. << >> \in Seq(Work) /\ << >> \in Seq(Nat \X Nat) /\ Len(<< >>) = 0
  BY EmptySeq
<1>2. /\ size.entries \in 1..MaxEntries /\ size.last = 0 /\ size.threads = << >>
      /\ size.printed = << >> /\ size.buffer = [s \in 0 .. Room - 1 |-> s + 1]
      /\ size.status = "running" /\ size.there = 1..MaxEntries
      /\ size \in Z!Starts
  BY DEF Z!Init, Z!Starts
<1>3. size \in Process
  <2>1. size.there \subseteq Nat /\ size.entries \in 1..MaxEntries
    BY <1>2
  <2>2. size.buffer \in [0 .. Room - 1 -> Nat]
    BY <1>2
  <2>3. /\ size.threads \in Seq(Work) /\ size.printed \in Seq(Nat \X Nat)
        /\ size.last \in Nat /\ size.status \in {"running", "exited", "failed"}
    BY <1>1, <1>2
  <2>4. size = [entries |-> size.entries, there |-> size.there, last |-> size.last,
                buffer |-> size.buffer, threads |-> size.threads,
                printed |-> size.printed, status |-> size.status]
    BY <1>2 DEF Z!Starts
  <2>5. QED
    BY <2>1, <2>2, <2>3, <2>4 DEF Process
<1>4. ThreadInv(size)
  BY <1>1, <1>2 DEF ThreadInv
<1>5. QED
  BY <1>1, <1>2, <1>3, <1>4 DEF SizeInv

\* The slot of the next entry; it is its own as long as the buffer lasts.
LEMMA SlotOf == ASSUME Room \in Nat \ {0}, NEW m \in Nat
                PROVE  /\ Z!Slot(m + 1) \in 0 .. Room - 1
                       /\ m + 1 <= Room => Z!Slot(m + 1) = m
  BY DEF Z!Slot

\* A new thread is given the slot of its entry, which holds the entry's number.
LEMMA CreateStep == ASSUME Room \in Nat \ {0}, SizeInv, Z!Create PROVE SizeInv'
<1> DEFINE n == size.last + 1
           w == [at |-> "lstat", name |-> Z!Slot(n), st_size |-> 0]
           b == IF Z!Slot(n) = 0 THEN [s \in DOMAIN size.buffer |-> n + s]
                               ELSE size.buffer
<1>0. /\ size \in Process /\ size.threads \in Seq(Work) /\ Len(size.threads) = size.last
      /\ size.buffer \in [0 .. Room - 1 -> Nat]
      /\ size.last \in Nat /\ size.entries \in Nat
  BY DEF SizeInv, Process
<1>1. /\ size.last < size.entries
      /\ size' = [size EXCEPT !.last = n, !.buffer = b, !.threads = Append(@, w)]
  BY DEF Z!Create
<1>2. Z!Slot(n) \in 0 .. Room - 1 /\ (n <= Room => Z!Slot(n) = n - 1)
  <2>1. size.last \in Nat /\ n - 1 = size.last
    BY <1>0
  <2>2. Z!Slot(size.last + 1) \in 0 .. Room - 1
    BY <2>1, SlotOf
  <2>3. size.last + 1 <= Room => Z!Slot(size.last + 1) = size.last
    BY <2>1, SlotOf
  <2>4. QED
    BY <2>1, <2>2, <2>3
<1>3. w \in Work /\ b \in [0 .. Room - 1 -> Nat] /\ n \in Nat
  <2>1. n \in Nat
    BY <1>0
  <2>2. w \in Work
    <3>1. Z!Slot(n) \in 0 .. Room - 1
      BY <1>2
    <3>2. QED
      BY <3>1 DEF Work
  <2>3. \A s \in 0 .. Room - 1 : n + s \in Nat
    BY <2>1
  <2>4. b \in [0 .. Room - 1 -> Nat]
    BY <1>0, <2>3
  <2>5. QED
    BY <2>1, <2>2, <2>4
<1>4. w.name = Z!Slot(n) /\ w.at = "lstat"
  OBVIOUS
<1>5. /\ Append(size.threads, w) \in Seq(Work)
      /\ Len(Append(size.threads, w)) = n
      /\ DOMAIN Append(size.threads, w) = 1..n /\ DOMAIN size.threads = 1 .. size.last
      /\ Append(size.threads, w)[n] = w
      /\ \A t \in 1 .. size.last : Append(size.threads, w)[t] = size.threads[t]
  BY <1>0, <1>3
<1>6. n = 1 => b = [s \in 0 .. Room - 1 |-> s + 1]
  <2> SUFFICES ASSUME n = 1 PROVE b = [s \in 0 .. Room - 1 |-> s + 1]
    OBVIOUS
  <2>0. DOMAIN size.buffer = 0 .. Room - 1
    BY <1>0
  <2>1. Z!Slot(n) = 0
    <3>1. n <= Room /\ n - 1 = 0
      OBVIOUS
    <3>2. QED
      BY <1>2, <3>1
  <2>2. \A s \in 0 .. Room - 1 : n + s = s + 1
    OBVIOUS
  <2>3. QED
    BY <2>0, <2>1, <2>2
<1>7. n <= Room /\ n # 1 => b = size.buffer
  BY <1>0, <1>2
<1> HIDE DEF n, w, b
<1>8. size' \in Process
  BY <1>0, <1>1, <1>3, <1>5 DEF Process
<1>9. /\ size'.last = n /\ size'.threads = Append(size.threads, w) /\ size'.buffer = b
      /\ size'.entries = size.entries /\ size'.printed = size.printed
  BY <1>0, <1>1 DEF Process
<1>10. n <= size.entries
  BY <1>0, <1>1 DEF n
<1>11. ASSUME size.entries <= Room PROVE ThreadInv(size')
  <2>1. ThreadInv(size) /\ n <= Room
    BY <1>0, <1>3, <1>10, <1>11 DEF SizeInv
  <2>2. b = [s \in 0 .. Room - 1 |-> s + 1]
    BY <1>6, <1>7, <2>1 DEF ThreadInv
  <2>3. ASSUME NEW t \in 1..n
        PROVE  /\ size'.threads[t].name = t - 1
               /\ size'.threads[t].at = "print" => size'.threads[t].st_size = t
    <3>1. CASE t = n
      <4>1. size'.threads[t] = w
        BY <1>5, <1>9, <3>1
      <4>2. w.name = t - 1 /\ w.at # "print"
        BY <1>2, <1>4, <2>1, <3>1
      <4>3. QED
        BY <4>1, <4>2
    <3>2. CASE t # n
      <4>1. t \in 1 .. size.last
        BY <1>0, <1>3, <3>2 DEF n
      <4>2. size'.threads[t] = size.threads[t] /\ t \in DOMAIN size.threads
        BY <1>5, <1>9, <4>1
      <4>3. QED
        BY <2>1, <4>2 DEF ThreadInv
    <3>3. QED
      BY <3>1, <3>2
  <2>4. ASSUME NEW k \in DOMAIN size.printed
        PROVE  /\ size.printed[k][1] \in 1..n
               /\ size'.threads[size.printed[k][1]].at = "exited"
    <3>1. size.printed[k][1] \in 1 .. size.last
      BY <1>5, <2>1 DEF ThreadInv
    <3>2. size.printed[k][1] \in 1..n
      BY <1>0, <3>1 DEF n
    <3>3. QED
      BY <1>5, <1>9, <2>1, <3>1, <3>2, SMTT(40) DEF ThreadInv
  <2>5. QED
    BY <1>5, <1>9, <2>1, <2>2, <2>3, <2>4, ZenonT(40) DEF ThreadInv
<1>12. QED
  BY <1>5, <1>8, <1>9, <1>10, <1>11 DEF SizeInv

\* The t-th thread asks for the size of the t-th entry.
LEMMA LstatStep == ASSUME Room \in Nat \ {0}, SizeInv,
                          NEW t \in DOMAIN size.threads, Z!Lstat(t)
                   PROVE  SizeInv'
<1> DEFINE n == size.buffer[size.threads[t].name]
<1>0. /\ size \in Process /\ size.threads \in Seq(Work) /\ Len(size.threads) = size.last
      /\ size.buffer \in [0 .. Room - 1 -> Nat]
      /\ size.last \in Nat /\ size.entries \in Nat
      /\ DOMAIN size.threads = 1 .. size.last /\ size.threads[t] \in Work
      /\ size.threads[t].at = "lstat"
  BY DEF SizeInv, Process, Z!Lstat
<1>1. n \in Nat
  BY <1>0 DEF Work
<1>2. CASE size' = [size EXCEPT !.status = "failed"]
  <2>1. size' \in Process
    BY <1>0, <1>2 DEF Process
  <2>2. /\ size'.last = size.last /\ size'.threads = size.threads
        /\ size'.buffer = size.buffer
        /\ size'.entries = size.entries /\ size'.printed = size.printed
    BY <1>0, <1>2 DEF Process
  <2>3. QED
    BY <2>1, <2>2 DEF SizeInv, ThreadInv
<1>3. CASE size' = [size EXCEPT !.threads[t].at = "print", !.threads[t].st_size = n]
  <2> DEFINE w == [size.threads[t] EXCEPT !.at = "print", !.st_size = n]
             q == [size.threads EXCEPT ![t] = w]
  <2>1. w \in Work /\ w.name = size.threads[t].name /\ w.at = "print" /\ w.st_size = n
    BY <1>0, <1>1 DEF Work
  <2>2. /\ q \in Seq(Work) /\ Len(q) = size.last /\ DOMAIN q = 1 .. size.last
        /\ q[t] = w /\ \A u \in 1 .. size.last : u # t => q[u] = size.threads[u]
    BY <1>0, <2>1
  <2>3. size' = [size EXCEPT !.threads = q]
    BY <1>0, <1>3, <2>1 DEF Process, Work
  <2> HIDE DEF w, q, n
  <2>4. size' \in Process
    BY <1>0, <2>2, <2>3 DEF Process
  <2>5. /\ size'.last = size.last /\ size'.threads = q /\ size'.buffer = size.buffer
        /\ size'.entries = size.entries /\ size'.printed = size.printed
    BY <1>0, <2>3 DEF Process
  <2>6. ASSUME size.entries <= Room PROVE ThreadInv(size')
    <3>1. ThreadInv(size) /\ size.last <= Room /\ t \in 1 .. size.last
      BY <1>0, <2>6 DEF SizeInv
    <3>2. w.name = t - 1 /\ n = t
      BY <1>0, <2>1, <3>1 DEF ThreadInv, n
    <3>3. ASSUME NEW u \in 1 .. size.last
          PROVE  /\ q[u].name = u - 1
                 /\ q[u].at = "print" => q[u].st_size = u
                 /\ size.threads[u].at = "exited" => q[u].at = "exited"
      <4>1. CASE u = t
        <5>1. q[u] = w /\ size.threads[u].at = "lstat"
          BY <1>0, <2>2, <4>1
        <5>2. QED
          BY <2>1, <3>2, <4>1, <5>1
      <4>2. CASE u # t
        <5>1. q[u] = size.threads[u]
          BY <2>2, <4>2
        <5>2. QED
          BY <1>0, <3>1, <5>1, ZenonT(40) DEF ThreadInv
      <4>3. QED
        BY <4>1, <4>2
    <3>4. ASSUME NEW k \in DOMAIN size.printed
          PROVE  /\ size.printed[k][1] \in 1 .. size.last
                 /\ q[size.printed[k][1]].at = "exited"
      BY <1>0, <3>1, <3>3 DEF ThreadInv
    <3>5. QED
      BY <1>0, <2>2, <2>5, <3>1, <3>3, <3>4 DEF ThreadInv
  <2>7. QED
    BY <2>2, <2>4, <2>5, <2>6 DEF SizeInv
<1>4. QED
  BY <1>2, <1>3 DEF Z!Lstat

\* The t-th thread prints the t-th entry and its size, and ends.
LEMMA PrintStep == ASSUME Room \in Nat \ {0}, SizeInv,
                          NEW t \in DOMAIN size.threads, Z!PrintName(t)
                   PROVE  SizeInv'
<1> DEFINE n == size.buffer[size.threads[t].name]
           w == [size.threads[t] EXCEPT !.at = "exited"]
           q == [size.threads EXCEPT ![t] = w]
           e == <<n, size.threads[t].st_size>>
           p == Append(size.printed, e)
<1>0. /\ size \in Process /\ size.threads \in Seq(Work) /\ Len(size.threads) = size.last
      /\ size.buffer \in [0 .. Room - 1 -> Nat]
      /\ size.last \in Nat /\ size.entries \in Nat
      /\ DOMAIN size.threads = 1 .. size.last /\ size.threads[t] \in Work
      /\ size.threads[t].at = "print" /\ size.printed \in Seq(Nat \X Nat)
  BY DEF SizeInv, Process, Z!PrintName
<1>1. e \in Nat \X Nat /\ e[1] = n /\ e[2] = size.threads[t].st_size
  BY <1>0 DEF Work
<1>2. w \in Work /\ w.name = size.threads[t].name /\ w.at = "exited"
  BY <1>0 DEF Work
<1>3. /\ q \in Seq(Work) /\ Len(q) = size.last /\ DOMAIN q = 1 .. size.last
      /\ q[t] = w /\ \A u \in 1 .. size.last : u # t => q[u] = size.threads[u]
  BY <1>0, <1>2
<1>4. size' = [size EXCEPT !.threads = q, !.printed = p]
  BY <1>0, <1>2 DEF Process, Work, Z!PrintName
<1> HIDE DEF e
<1>5. /\ p \in Seq(Nat \X Nat) /\ DOMAIN size.printed = 1 .. Len(size.printed)
      /\ DOMAIN p = 1 .. Len(size.printed) + 1 /\ p[Len(size.printed) + 1] = e
      /\ Len(size.printed) \in Nat
      /\ \A k \in DOMAIN size.printed : p[k] = size.printed[k]
  <2>1. size.printed \in Seq(Nat \X Nat) /\ e \in Nat \X Nat
    BY <1>0, <1>1
  <2>2. p \in Seq(Nat \X Nat) /\ Len(p) = Len(size.printed) + 1
    BY <2>1, AppendProperties
  <2>3. /\ p[Len(size.printed) + 1] = e
        /\ \A k \in 1 .. Len(size.printed) : p[k] = size.printed[k]
    BY <2>1, AppendProperties
  <2>4. QED
    BY <2>1, <2>2, <2>3, LenProperties
<1> HIDE DEF w, q, n, p
<1>6. size' \in Process
  BY <1>0, <1>3, <1>4, <1>5 DEF Process
<1>7. /\ size'.last = size.last /\ size'.threads = q /\ size'.buffer = size.buffer
      /\ size'.entries = size.entries /\ size'.printed = p
  BY <1>0, <1>4 DEF Process
<1>8. ASSUME size.entries <= Room PROVE ThreadInv(size')
  <2>1. ThreadInv(size) /\ size.last <= Room /\ t \in 1 .. size.last
    BY <1>0, <1>8 DEF SizeInv
  <2>2. w.name = t - 1 /\ n = t /\ e[1] = t /\ e[2] = t
    BY <1>0, <1>1, <1>2, <2>1, SMTT(40) DEF ThreadInv, n
  <2>3. ASSUME NEW u \in 1 .. size.last
        PROVE  /\ q[u].name = u - 1
               /\ q[u].at = "print" => q[u].st_size = u
               /\ size.threads[u].at = "exited" => q[u].at = "exited"
    <3>1. CASE u = t
      <4>1. q[u] = w
        BY <1>3, <3>1
      <4>2. QED
        BY <1>2, <2>2, <3>1, <4>1
    <3>2. CASE u # t
      <4>1. q[u] = size.threads[u]
        BY <1>3, <3>2
      <4>2. QED
        BY <1>0, <2>1, <4>1, ZenonT(40) DEF ThreadInv
    <3>3. QED
      BY <3>1, <3>2
  <2>4. ASSUME NEW k \in DOMAIN size.printed
        PROVE  /\ size.printed[k][1] = size.printed[k][2]
               /\ size.printed[k][1] \in 1 .. size.last
               /\ q[size.printed[k][1]].at = "exited"
               /\ size.printed[k] # e
               /\ \A j \in DOMAIN size.printed :
                     size.printed[j] = size.printed[k] => j = k
    <3>1. /\ size.printed[k][1] = size.printed[k][2]
          /\ size.printed[k][1] \in 1 .. size.last
          /\ size.threads[size.printed[k][1]].at = "exited"
          /\ \A j \in DOMAIN size.printed : size.printed[j] = size.printed[k] => j = k
      BY <1>0, <2>1 DEF ThreadInv
    <3>2. size.printed[k][1] # t
      BY <1>0, <3>1
    <3>3. QED
      BY <2>2, <2>3, <3>1, <3>2
  <2>5. ASSUME NEW k \in DOMAIN p
        PROVE  /\ p[k][1] = p[k][2]
               /\ p[k][1] \in 1 .. size.last
               /\ q[p[k][1]].at = "exited"
               /\ \A j \in DOMAIN p : p[j] = p[k] => j = k
    <3>1. ASSUME NEW j \in DOMAIN p
          PROVE  j \in DOMAIN size.printed \/ j = Len(size.printed) + 1
      BY <1>5
    <3>2. CASE k \in DOMAIN size.printed
      <4>1. p[k] = size.printed[k]
        BY <1>5, <3>2
      <4>2. ASSUME NEW j \in DOMAIN p, p[j] = p[k] PROVE j = k
        BY <1>5, <2>4, <3>1, <3>2, <4>1, <4>2
      <4>3. QED
        BY <2>4, <3>2, <4>1, <4>2
    <3>3. CASE k = Len(size.printed) + 1
      <4>1. p[k] = e /\ q[t].at = "exited"
        BY <1>2, <1>3, <1>5, <2>1, <3>3
      <4>2. QED
        BY <1>5, <2>1, <2>2, <2>4, <3>1, <3>3, <4>1
    <3>4. QED
      BY <3>1, <3>2, <3>3
  <2>6. QED
    BY <1>0, <1>3, <1>7, <2>1, <2>3, <2>5 DEF ThreadInv
<1>9. QED
  BY <1>3, <1>6, <1>7, <1>8 DEF SizeInv

\* The end of main, and the removal of a file.
LEMMA OtherStep == ASSUME Room \in Nat \ {0}, SizeInv,
                          \/ Z!Return
                          \/ \E n \in 1..MaxEntries : Z!Remove(n)
                          \/ UNCHANGED size
                   PROVE  SizeInv'
<1>0. size \in Process
  BY DEF SizeInv
<1>1. /\ size'.last = size.last /\ size'.threads = size.threads
      /\ size'.buffer = size.buffer
      /\ size'.entries = size.entries /\ size'.printed = size.printed
  BY <1>0 DEF Process, Z!Return, Z!Remove
<1>2. size' \in Process
  <2>1. CASE Z!Return
    BY <1>0, <2>1, ZenonT(40) DEF Process, Z!Return
  <2>2. ASSUME NEW n \in 1..MaxEntries, Z!Remove(n) PROVE size' \in Process
    BY <1>0, <2>2, SMTT(40) DEF Process, Z!Remove
  <2>3. CASE UNCHANGED size
    BY <1>0, <2>3
  <2>4. QED
    BY <2>1, <2>2, <2>3
<1>3. QED
  BY <1>1, <1>2, ZenonT(40) DEF SizeInv, ThreadInv

\* Every step keeps the threads and the buffer in line, and that is enough.
LEMMA SizeStep == ASSUME Room \in Nat \ {0}
                  PROVE  SizeInv /\ [Z!Next]_size => SizeInv'
  BY CreateStep, LstatStep, PrintStep, OtherStep DEF Z!Next

LEMMA SizeEnough == SizeInv => OwnSizes
  BY DEF SizeInv, ThreadInv, OwnSizes, Z!OwnSizes

\* size.c prints each name once and with its own size, wherever its threads are
\* when files are removed, for any directory that fits into the buffer of
\* readdir, whatever the size of that.
THEOREM SizesSafe ==
    Room \in Nat \ {0} /\ MaxEntries \in Nat => (Z!Spec => []OwnSizes)
<1> SUFFICES ASSUME Room \in Nat \ {0}, MaxEntries \in Nat
             PROVE  Z!Spec => []OwnSizes
  OBVIOUS
<1>1. Z!Init => SizeInv
  BY SizeInit
<1>2. QED
  BY <1>1, SizeStep, SizeEnough, PTL DEF Z!Spec

------------------------------------------------------------------------------
(* All three *)

\* Whichever program is chosen, each of the three takes its own steps or none.
LEMMA AnyInits == AnyInit => Init /\ Busy!Init /\ Z!Init
  BY DEF AnyInit

LEMMA AnySteps == [Calling \/ Spinning \/ Printing]_anyVars =>
                    [Next]_vars /\ [Busy!Next]_(Busy!vars) /\ [Z!Next]_size
<1> SUFFICES ASSUME [Calling \/ Spinning \/ Printing]_anyVars
             PROVE  [Next]_vars /\ [Busy!Next]_(Busy!vars) /\ [Z!Next]_size
  OBVIOUS
<1>0. UNCHANGED busyVars => UNCHANGED Busy!vars
  BY DEF Busy!vars, busyVars, Busy!bufVars, bufVars
<1>1. CASE Calling
  <2>1. Next /\ UNCHANGED busyVars /\ UNCHANGED size
    BY <1>1 DEF Calling
  <2>2. QED
    BY <1>0, <2>1
<1>2. CASE Spinning
  <2>1. Busy!Next /\ UNCHANGED vars /\ UNCHANGED size
    BY <1>2 DEF Spinning
  <2>2. QED
    BY <2>1
<1>3. CASE Printing
  <2>1. (Z!Next \/ UNCHANGED size) /\ UNCHANGED vars /\ UNCHANGED busyVars
    BY <1>3 DEF Printing
  <2>2. QED
    BY <1>0, <2>1
<1>4. CASE UNCHANGED anyVars
  <2>1. UNCHANGED vars /\ UNCHANGED busyVars /\ UNCHANGED size
    BY <1>4 DEF anyVars
  <2>2. QED
    BY <1>0, <2>1
<1>5. QED
  BY <1>1, <1>2, <1>3, <1>4

\* In every behaviour of the run, whichever program it is of, no thread is left
\* stranded on a permit of semlib2.c, the counter of prodcons_t.c stays in its
\* range, and size.c prints each name with its own size.
THEOREM ThreadsSafe ==
    Room \in Nat \ {0} /\ MaxEntries \in Nat =>
      (AnySpec => [](NoStranded /\ CounterInRange /\ OwnSizes))
<1> SUFFICES ASSUME Room \in Nat \ {0}, MaxEntries \in Nat
             PROVE  AnySpec => [](NoStranded /\ CounterInRange /\ OwnSizes)
  OBVIOUS
<1>1. AnyInit => TypeOK /\ HolderInside /\ StrandInv /\ BusyInv /\ SizeInv
  BY AnyInits, TypeInit, HolderInit, StrandInit, BusyInit, SizeInit
<1>2. TypeOK /\ HolderInside /\ StrandInv /\ [Next]_vars
        => TypeOK' /\ HolderInside' /\ StrandInv'
  BY TypeStep, HolderStep, StrandStep
<1>3. BusyInv /\ [Busy!Next]_(Busy!vars) => BusyInv'
  BY BusyInductive
<1>4. SizeInv /\ [Z!Next]_size => SizeInv'
  BY SizeStep
<1>5. TypeOK /\ StrandInv /\ BusyInv /\ SizeInv
        => NoStranded /\ CounterInRange /\ OwnSizes
  BY StrandEnough, BusyRange, SizeEnough
<1>6. QED
  BY <1>1, <1>2, <1>3, <1>4, <1>5, AnySteps, PTL DEF AnySpec

==============================================================================
