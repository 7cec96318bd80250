---------------------------- MODULE ProdConsVProofs ----------------------------
(***************************************************************************)
(* Proofs about ProdConsV, for any size of the buffer, any number of items *)
(* and any number of kills.                                                *)
(*   IInv  SEM_UNDO keeps the mutex of two processes that are started,     *)
(*         killed and end at any time: MutexKept.                          *)
(*   BInv  the permits of Empty and Full never exceed the free slots and   *)
(*         the items, so that the buffer is a FIFO: FifoSafe.              *)
(*   AInv  run as intended no permit is lost either, and the consumer ends *)
(*         with all items: AllGot.                                         *)
(***************************************************************************)
EXTENDS ProdConsV, SharedBufferProofs

------------------------------------------------------------------------------
(* The inductive invariant *)

Sem(e, v, q, undo) == [exists |-> e, val |-> v, queue |-> q, undo |-> undo]

Removed(v, undo) == Sem(FALSE, v, << >>, undo)

\* The adjustments when h would give the mutex back by exiting.
Undo(h) == [t \in Sides |-> IF t = h THEN 1 ELSE 0]

\* A mutex, who holds it, a side or "nobody", and who waits for it.
MutexIs(v, q, holder) == Sem(TRUE, v, q, Undo(holder))

\* Adjustments after p took a permit, gave one, or exited; and after a SETVAL.
Took(undo, p) == [undo EXCEPT ![p] = @ + 1]
Gave(undo, p) == [undo EXCEPT ![p] = @ - 1]
Cleared(undo, p) == [undo EXCEPT ![p] = 0]
Zero == [p \in Sides |-> 0]

\* A semaphore that only t waits for.
IsToken(t, sem) == /\ sem = Sem(sem.exists, sem.val, sem.queue, sem.undo)
                   /\ sem.val \in Nat /\ sem.undo \in [Sides -> Int]
                   /\ sem.queue = << >> \/ (sem.queue = <<t>> /\ sem.exists)

Opening == {"openEmpty", "openFull", "openMutex"}
Preset  == Opening \cup {"setEmpty", "setMutex"}
Late    == {"postToken", "pause", "destroyEmpty", "destroyMutex", "destroyFull"}

Labels == Setup \cup InMutex \cup Gone \cup Late \cup
          {"start", "loop", "waitMutex", "failed"}

Other(t) == IF t = "Producer" THEN "Consumer" ELSE "Producer"

\* The mutex is not created yet, or was destroyed; in neither case is the producer
\* in the buffer, and while it is still opening the semaphores so is the consumer,
\* unless it has given up.
Missing ==
    /\ \E v \in Nat, undo \in [Sides -> Int] : sems["Mutex"] = Removed(v, undo)
    /\ pc["Producer"] \notin InMutex
    /\ pc["Producer"] \in Opening \cup {"start"} =>
         pc["Consumer"] \in Opening \cup {"aborted"}

\* It is created and has the value 0 until the consumer sets it.
Unset ==
    /\ pc["Consumer"] \in Preset \cup {"aborted"}
    /\ \/ sems["Mutex"] = MutexIs(0, << >>, "nobody") /\ pc["Producer"] \notin InMutex
       \/ sems["Mutex"] = MutexIs(0, <<"Producer">>, "nobody") /\ pc["Producer"] = "access"

Free == /\ sems["Mutex"] = MutexIs(1, << >>, "nobody")
        /\ pc["Producer"] \notin InMutex /\ pc["Consumer"] \notin InMutex
        /\ pc["Consumer"] \notin Preset

Held(t) == /\ pc[t] \in InMutex
           /\ pc["Consumer"] \notin Preset
           /\ \/ sems["Mutex"] = MutexIs(0, << >>, t) /\ pc[Other(t)] \notin InMutex
              \/ sems["Mutex"] = MutexIs(0, <<Other(t)>>, t) /\ pc[Other(t)] = "access"

MutexState == Missing \/ Unset \/ Free \/ Held("Producer") \/ Held("Consumer")

\* Only t waits for its tokens, and goes on at "waitMutex".
TokenState ==
    \A t \in Sides : /\ IsToken(t, sems[WaitsFor[t]])
                     /\ sems[WaitsFor[t]].queue # << >> => pc[t] = "waitMutex"

\* As long as the mutex has no value the producer gets no further than to it.
EarlyState ==
    /\ pc["Consumer"] \in Preset => /\ pc["Producer"] \notin Late
                                    /\ i["Producer"] = 0
    /\ pc["Consumer"] \in {"openFull", "openMutex", "setEmpty"} => sems["Empty"].exists

Shape == /\ pc \in [Sides -> Labels]
         /\ i \in [Sides -> Int]
         /\ sems = [s \in Semaphores |-> sems[s]]

IInv == Shape /\ MutexState /\ TokenState /\ EarlyState
------------------------------------------------------------------------------
(* Queues of at most one process, and adjustments *)

\* The sequence operators on a queue of nobody and of one process.
LEMMA Queues == ASSUME NEW t \in Sides
                PROVE  /\ Len(<< >>) = 0 /\ Len(<<t>>) = 1 /\ <<t>> # << >>
                       /\ SubSeq(<< >>, 1, 0) = << >>
                       /\ SubSeq(<<t>>, 1, 1) = <<t>>
                       /\ SubSeq(<<t>>, 2, 1) = << >>
                       /\ Append(<< >>, t) = <<t>>
<1>1. Len(<< >>) = 0
  BY EmptySeq
<1>2. <<t>> \in Seq(Sides) /\ Len(<<t>>) = 1 /\ <<t>> # << >>
  OBVIOUS
<1>3. SubSeq(<<t>>, 1, 1) = <<t>>
  BY <1>2, SubSeqFull
<1>4. SubSeq(<< >>, 1, 0) = << >>
  OBVIOUS
<1>5. SubSeq(<<t>>, 2, 1) = << >>
  OBVIOUS
<1>6. Append(<< >>, t) = <<t>>
  OBVIOUS
<1>7. QED
  BY <1>1, <1>2, <1>3, <1>4, <1>5, <1>6

\* Who leaves a queue of at most one process.
LEMMA Leaving == ASSUME NEW p \in Sides, NEW t \in Sides
                 PROVE  /\ Without(<< >>, p) = << >>
                        /\ Without(<<t>>, p) = IF t = p THEN << >> ELSE <<t>>
<1>1. Without(<< >>, p) = << >>
  BY DEF Without
<1>2. CASE t = p
  <2>1. /\ DOMAIN <<t>> = {1} /\ <<t>>[1] = p
    BY <1>2
  <2>2. (CHOOSE k \in DOMAIN <<t>> : <<t>>[k] = p) = 1
    BY <2>1
  <2>3. Without(<<t>>, p) = SubSeq(<<t>>, 1, 0) \o SubSeq(<<t>>, 2, 1)
    BY <2>1, <2>2 DEF Without
  <2>4. SubSeq(<<t>>, 1, 0) = << >> /\ SubSeq(<<t>>, 2, 1) = << >>
    OBVIOUS
  <2>5. << >> \o << >> = << >>
    OBVIOUS
  <2>6. QED
    BY <1>1, <1>2, <2>3, <2>4, <2>5
<1>3. CASE t # p
  <2>1. ~ \E k \in DOMAIN <<t>> : <<t>>[k] = p
    BY <1>3
  <2>2. QED
    BY <1>1, <1>3, <2>1 DEF Without
<1>4. QED
  BY <1>2, <1>3

\* The sleepers of a queue of nobody and of one process.
LEMMA SleepersOf == ASSUME NEW t \in Sides, NEW sem
                    PROVE  /\ sem.queue = << >> => Sleepers(sem) = {}
                           /\ sem.queue = <<t>> => Sleepers(sem) = {t}
  BY DEF Sleepers

\* Taking and giving back.
LEMMA Adjust == ASSUME NEW t \in Sides
                PROVE  /\ Took(Undo("nobody"), t) = Undo(t)
                       /\ Gave(Undo(t), t) = Undo("nobody")
<1> DEFINE f == Undo("nobody")
           g == Undo(t)
<1>1. "nobody" \notin Sides
  BY DEF Sides
<1>2. /\ f = [u \in Sides |-> f[u]] /\ g = [u \in Sides |-> g[u]]
      /\ \A u \in Sides : f[u] = 0 /\ g[u] = IF u = t THEN 1 ELSE 0
  BY <1>1 DEF Undo
<1> HIDE DEF f, g
<1>3. [f EXCEPT ![t] = f[t] + 1] = g
  <2>1. [f EXCEPT ![t] = f[t] + 1] = [u \in Sides |-> IF u = t THEN f[t] + 1 ELSE f[u]]
    BY <1>2
  <2>2. \A u \in Sides : g[u] = IF u = t THEN f[t] + 1 ELSE f[u]
    BY <1>2
  <2>3. QED
    BY <1>2, <2>1, <2>2
<1>4. [g EXCEPT ![t] = g[t] - 1] = f
  <2>1. [g EXCEPT ![t] = g[t] - 1] = [u \in Sides |-> IF u = t THEN g[t] - 1 ELSE g[u]]
    BY <1>2
  <2>2. \A u \in Sides : f[u] = IF u = t THEN g[t] - 1 ELSE g[u]
    BY <1>2
  <2>3. QED
    BY <1>2, <2>1, <2>2
<1>5. QED
  BY <1>3, <1>4 DEF f, g, Took, Gave

\* Clearing the adjustment of the holder leaves none, that of another side nothing new.
LEMMA Forget == ASSUME NEW t \in Sides
                PROVE  /\ Cleared(Undo(t), t) = Undo("nobody")
                       /\ \A h : h # t => Cleared(Undo(h), t) = Undo(h)
                       /\ Zero = Undo("nobody")
<1>1. "nobody" \notin Sides
  BY DEF Sides
<1>2. Cleared(Undo(t), t) = Undo("nobody")
  BY <1>1 DEF Undo, Cleared
<1>3. ASSUME NEW h, h # t PROVE Cleared(Undo(h), t) = Undo(h)
  BY <1>3 DEF Undo, Cleared
<1>4. Zero = Undo("nobody")
  BY <1>1 DEF Undo, Zero
<1>5. QED
  BY <1>2, <1>3, <1>4

------------------------------------------------------------------------------
(* The calls on a semaphore *)

\* Assignments to fields of a semaphore.
WithQueue(sem, q) == [sem EXCEPT !.queue = q]
WithPermits(sem, v, undo) == [sem EXCEPT !.val = v, !.undo = undo]
WithAll(sem, v, q, undo) == [sem EXCEPT !.val = v, !.queue = q, !.undo = undo]

\* A semaphore with some of its fields replaced.
LEMMA Assigned ==
    ASSUME NEW e, NEW v, NEW q, NEW undo, NEW w, NEW r, NEW y
    PROVE  /\ WithQueue(Sem(e, v, q, undo), r) = Sem(e, v, r, undo)
           /\ WithPermits(Sem(e, v, q, undo), w, y) = Sem(e, w, q, y)
           /\ WithAll(Sem(e, v, q, undo), w, r, y) = Sem(e, w, r, y)
<1>1. [Sem(e, v, q, undo) EXCEPT !.queue = r] = Sem(e, v, r, undo)
  BY DEF Sem
<1>2. [Sem(e, v, q, undo) EXCEPT !.val = w] = Sem(e, w, q, undo)
  BY DEF Sem
<1>3. [Sem(e, w, q, undo) EXCEPT !.undo = y] = Sem(e, w, q, y)
  BY DEF Sem
<1>4. [Sem(e, w, q, undo) EXCEPT !.queue = r] = Sem(e, w, r, undo)
  BY DEF Sem
<1>5. [Sem(e, w, r, undo) EXCEPT !.undo = y] = Sem(e, w, r, y)
  BY DEF Sem
<1>6. WithPermits(Sem(e, v, q, undo), w, y) =
        [[Sem(e, v, q, undo) EXCEPT !.val = w] EXCEPT !.undo = y]
  BY DEF WithPermits
<1>7. WithAll(Sem(e, v, q, undo), w, r, y) =
        [[[Sem(e, v, q, undo) EXCEPT !.val = w] EXCEPT !.queue = r] EXCEPT !.undo = y]
  BY DEF WithAll
<1>8. WithPermits(Sem(e, v, q, undo), w, y) = Sem(e, w, q, y)
  BY <1>2, <1>3, <1>6
<1>9. WithAll(Sem(e, v, q, undo), w, r, y) = Sem(e, w, r, y)
  BY <1>2, <1>4, <1>5, <1>7
<1>10. QED
  BY <1>1, <1>8, <1>9 DEF WithQueue

\* The fields of a semaphore.
LEMMA Fields == ASSUME NEW e, NEW v, NEW q, NEW undo
                PROVE  /\ Sem(e, v, q, undo).exists = e
                       /\ Sem(e, v, q, undo).val = v
                       /\ Sem(e, v, q, undo).queue = q
                       /\ Sem(e, v, q, undo).undo = undo
  BY DEF Sem

\* What Settle does when n sleepers go on and w are the woken ones.
LetGo(sem, n, w) ==
    [sem EXCEPT !.val = sem.val - n,
                !.queue = SubSeq(sem.queue, n + 1, Len(sem.queue)),
                !.undo = [p \in Sides |-> IF p \in w THEN sem.undo[p] + 1
                                                     ELSE sem.undo[p]]]

\* Settle, with its local definitions named.
LEMMA SettleIs == ASSUME NEW sem, NEW n, NEW w,
                         n = IF sem.val < Len(sem.queue) THEN sem.val
                                                         ELSE Len(sem.queue),
                         w = {sem.queue[k] : k \in 1..n}
                  PROVE  Settle(sem) = LetGo(sem, n, w)
  BY DEF Settle, LetGo

\* Nobody goes on if nobody sleeps or there is no permit; the one sleeper goes
\* on if there is one.
LEMMA Settled == ASSUME NEW e, NEW t \in Sides,
                        NEW undo \in [Sides -> Int], NEW v \in Nat
                 PROVE  /\ Settle(Sem(e, v, << >>, undo)) = Sem(e, v, << >>, undo)
                        /\ Settle(Sem(e, 0, <<t>>, undo)) = Sem(e, 0, <<t>>, undo)
                        /\ v > 0 => Settle(Sem(e, v, <<t>>, undo)) =
                                      Sem(e, v - 1, << >>, Took(undo, t))
<1>1. Settle(Sem(e, v, << >>, undo)) = Sem(e, v, << >>, undo)
  <2> DEFINE sem == Sem(e, v, << >>, undo)
  <2>0. sem = Sem(e, v, << >>, undo)
    OBVIOUS
  <2> HIDE DEF sem
  <2>1. sem.val = v /\ sem.queue = << >> /\ sem.undo = undo
    BY <2>0, Fields
  <2>2. 0 = IF sem.val < Len(sem.queue) THEN sem.val ELSE Len(sem.queue)
    BY <2>1, Queues
  <2>3. {} = {sem.queue[k] : k \in 1..0}
    OBVIOUS
  <2>4. Settle(sem) = LetGo(sem, 0, {})
    BY <2>2, <2>3, SettleIs
  <2>5. SubSeq(sem.queue, 1, Len(sem.queue)) = << >>
    BY <2>1, Queues
  <2>6. [p \in Sides |-> IF p \in {} THEN sem.undo[p] + 1 ELSE sem.undo[p]] = undo
    BY <2>1
  <2>7. v - 0 = v /\ 0 + 1 = 1
    OBVIOUS
  <2>8. LetGo(sem, 0, {}) = WithAll(sem, v, << >>, undo)
    BY <2>1, <2>5, <2>6, <2>7 DEF LetGo, WithAll
  <2>9. QED
    BY <2>0, <2>4, <2>8, Assigned DEF sem
<1>2. Settle(Sem(e, 0, <<t>>, undo)) = Sem(e, 0, <<t>>, undo)
  <2> DEFINE sem == Sem(e, 0, <<t>>, undo)
  <2>0. sem = Sem(e, 0, <<t>>, undo)
    OBVIOUS
  <2> HIDE DEF sem
  <2>1. sem.val = 0 /\ sem.queue = <<t>> /\ sem.undo = undo
    BY <2>0, Fields
  <2>2. 0 = IF sem.val < Len(sem.queue) THEN sem.val ELSE Len(sem.queue)
    BY <2>1, Queues
  <2>3. {} = {sem.queue[k] : k \in 1..0}
    OBVIOUS
  <2>4. Settle(sem) = LetGo(sem, 0, {})
    BY <2>2, <2>3, SettleIs
  <2>5. SubSeq(sem.queue, 1, Len(sem.queue)) = <<t>>
    BY <2>1, Queues
  <2>6. [p \in Sides |-> IF p \in {} THEN sem.undo[p] + 1 ELSE sem.undo[p]] = undo
    BY <2>1
  <2>7. 0 - 0 = 0 /\ 0 + 1 = 1
    OBVIOUS
  <2>8. LetGo(sem, 0, {}) = WithAll(sem, 0, <<t>>, undo)
    BY <2>1, <2>5, <2>6, <2>7 DEF LetGo, WithAll
  <2>9. QED
    BY <2>0, <2>4, <2>8, Assigned DEF sem
<1>3. ASSUME v > 0
      PROVE  Settle(Sem(e, v, <<t>>, undo)) = Sem(e, v - 1, << >>, Took(undo, t))
  <2> DEFINE sem == Sem(e, v, <<t>>, undo)
  <2>0. sem = Sem(e, v, <<t>>, undo)
    OBVIOUS
  <2> HIDE DEF sem
  <2>1. sem.val = v /\ sem.queue = <<t>> /\ sem.undo = undo
    BY <2>0, Fields
  <2>2. 1 = IF sem.val < Len(sem.queue) THEN sem.val ELSE Len(sem.queue)
    BY <1>3, <2>1, Queues
  <2>3. {t} = {sem.queue[k] : k \in 1..1}
    BY <2>1
  <2>4. Settle(sem) = LetGo(sem, 1, {t})
    BY <2>2, <2>3, SettleIs
  <2>5. SubSeq(sem.queue, 2, Len(sem.queue)) = << >>
    BY <2>1, Queues
  <2>6. [p \in Sides |-> IF p \in {t} THEN sem.undo[p] + 1 ELSE sem.undo[p]] =
           Took(undo, t)
    BY <2>1 DEF Took
  <2>7. 1 + 1 = 2
    OBVIOUS
  <2>8. LetGo(sem, 1, {t}) = WithAll(sem, v - 1, << >>, Took(undo, t))
    BY <2>1, <2>5, <2>6, <2>7 DEF LetGo, WithAll
  <2>9. QED
    BY <2>0, <2>4, <2>8, Assigned DEF sem
<1>4. QED
  BY <1>1, <1>2, <1>3

\* The value to which an exit sets a semaphore.
Back(n) == IF n < 0 THEN 0 ELSE n

\* semWait takes a permit when there is one, and semop notes it for the exit.
LEMMA TakeCall ==
    ASSUME NEW e, NEW v \in Nat, NEW q, NEW undo \in [Sides -> Int], NEW p \in Sides
    PROVE  v > 0 => WaitOp(Sem(e, v, q, undo), p) = Sem(e, v - 1, q, Took(undo, p))
<1> DEFINE sem == Sem(e, v, q, undo)
<1>1. sem = Sem(e, v, q, undo)
  OBVIOUS
<1> HIDE DEF sem
<1>2. sem.exists = e /\ sem.val = v /\ sem.queue = q /\ sem.undo = undo
  BY <1>1, Fields
<1>3. ASSUME v > 0 PROVE WaitOp(sem, p) = WithPermits(sem, v - 1, Took(undo, p))
  BY <1>2, <1>3 DEF WaitOp, WithPermits, Took
<1>4. QED
  BY <1>1, <1>3, Assigned DEF sem

\* semWait sleeps when there is no permit.
LEMMA SleepCall ==
    ASSUME NEW e, NEW q, NEW undo \in [Sides -> Int], NEW p \in Sides
    PROVE  WaitOp(Sem(e, 0, q, undo), p) = Sem(e, 0, Append(q, p), undo)
<1> DEFINE sem == Sem(e, 0, q, undo)
<1>1. sem = Sem(e, 0, q, undo)
  OBVIOUS
<1> HIDE DEF sem
<1>2. sem.exists = e /\ sem.val = 0 /\ sem.queue = q /\ sem.undo = undo
  BY <1>1, Fields
<1>3. WaitOp(sem, p) = WithQueue(sem, Append(q, p))
  BY <1>2 DEF WaitOp, WithQueue
<1>4. QED
  BY <1>1, <1>3, Assigned DEF sem

\* semPost adds a permit, which a sleeper may take at once.
LEMMA PostCall ==
    ASSUME NEW e, NEW v \in Nat, NEW q, NEW undo \in [Sides -> Int], NEW p \in Sides
    PROVE  PostOp(Sem(e, v, q, undo), p) = Settle(Sem(e, v + 1, q, Gave(undo, p)))
<1> DEFINE sem == Sem(e, v, q, undo)
<1>1. sem = Sem(e, v, q, undo)
  OBVIOUS
<1> HIDE DEF sem
<1>2. sem.exists = e /\ sem.val = v /\ sem.queue = q /\ sem.undo = undo
  BY <1>1, Fields
<1>3. PostOp(sem, p) = Settle(WithPermits(sem, v + 1, Gave(undo, p)))
  BY <1>2 DEF PostOp, WithPermits, Gave
<1>4. QED
  BY <1>1, <1>3, Assigned DEF sem

\* semInitValue sets the value and clears the adjustments.
LEMMA SetCall ==
    ASSUME NEW e, NEW v \in Nat, NEW q, NEW undo \in [Sides -> Int], NEW w
    PROVE  SetValOp(Sem(e, v, q, undo), w) = Settle(Sem(e, w, q, Zero))
<1>1. SetValOp(Sem(e, v, q, undo), w) =
        Settle(WithPermits(Sem(e, v, q, undo), w, Zero))
  BY DEF SetValOp, WithPermits, Zero
<1>2. QED
  BY <1>1, Assigned

\* The exit of p adds its adjustment to the value, which a sleeper may take.
LEMMA ExitExisting ==
    ASSUME NEW e, NEW v \in Nat, NEW q, NEW undo \in [Sides -> Int], NEW p \in Sides,
           Sem(e, v, q, undo).exists
    PROVE  ExitOp(Sem(e, v, q, undo), p) =
             Settle(Sem(e, Back(v + undo[p]), Without(q, p), Cleared(undo, p)))
<1> DEFINE sem == Sem(e, v, q, undo)
<1>1. sem = Sem(e, v, q, undo) /\ sem.exists
  OBVIOUS
<1> HIDE DEF sem
<1>2. sem.val = v /\ sem.queue = q /\ sem.undo = undo
  BY <1>1, Fields
<1>3. ExitOp(sem, p) =
        Settle(WithAll(sem, Back(v + undo[p]), Without(q, p), Cleared(undo, p)))
  BY <1>1, <1>2, ZenonT(40) DEF ExitOp, WithAll, Back, Cleared
<1>4. WithAll(sem, Back(v + undo[p]), Without(q, p), Cleared(undo, p)) =
        Sem(e, Back(v + undo[p]), Without(q, p), Cleared(undo, p))
  BY <1>1, Assigned
<1>5. QED
  BY <1>3, <1>4 DEF sem

\* The same of a semaphore that exists.
LEMMA ExitCall ==
    ASSUME NEW v \in Nat, NEW q, NEW undo \in [Sides -> Int], NEW p \in Sides
    PROVE  ExitOp(Sem(TRUE, v, q, undo), p) =
             Settle(Sem(TRUE, Back(v + undo[p]), Without(q, p), Cleared(undo, p)))
<1> DEFINE yes == TRUE
<1>1. Sem(yes, v, q, undo).exists
  BY Fields
<1> HIDE DEF yes
<1>2. ExitOp(Sem(yes, v, q, undo), p) =
        Settle(Sem(yes, Back(v + undo[p]), Without(q, p), Cleared(undo, p)))
  BY <1>1, ExitExisting
<1>3. QED
  BY <1>2 DEF yes

\* semInit opens the semaphore there is, or creates one of value 0.
LEMMA CreateCall ==
    ASSUME NEW sem
    PROVE  /\ sem.exists => CreateOp(sem) = sem
           /\ ~sem.exists => CreateOp(sem) = Sem(TRUE, 0, << >>, Zero)
<1> DEFINE yes == TRUE
<1>1. Absent = Sem(FALSE, 0, << >>, Zero)
  BY DEF Absent, Sem, Zero
<1> HIDE DEF yes
<1>2. [Sem(FALSE, 0, << >>, Zero) EXCEPT !.exists = yes] = Sem(yes, 0, << >>, Zero)
  BY DEF Sem
<1>3. [Absent EXCEPT !.exists = TRUE] = Sem(TRUE, 0, << >>, Zero)
  BY <1>1, <1>2 DEF yes
<1>4. QED
  BY <1>3 DEF CreateOp

\* semDestroy leaves a semaphore that is not there, with nobody asleep.
LEMMA Destroyed == ASSUME NEW e, NEW v, NEW q, NEW undo
                   PROVE  DestroyOp(Sem(e, v, q, undo)) = Removed(v, undo)
<1> DEFINE no == FALSE
           empty == << >>
<1>1. DestroyOp(Sem(e, v, q, undo)) =
        [[Sem(e, v, q, undo) EXCEPT !.exists = no] EXCEPT !.queue = empty]
  BY DEF DestroyOp
<1> HIDE DEF no, empty
<1>2. [Sem(e, v, q, undo) EXCEPT !.exists = no] = Sem(no, v, q, undo)
  BY DEF Sem
<1>3. [Sem(no, v, q, undo) EXCEPT !.queue = empty] = Sem(no, v, empty, undo)
  BY DEF Sem
<1>4. DestroyOp(Sem(e, v, q, undo)) = Sem(no, v, empty, undo)
  BY <1>1, <1>2, <1>3
<1>5. QED
  BY <1>4 DEF no, empty, Removed

------------------------------------------------------------------------------
(* The calls on the mutex *)

\* The adjustments of a mutex are numbers.
LEMMA UndoType == \A h : Undo(h) \in [Sides -> Int]
  BY DEF Undo

\* A mutex nobody waits for stays as it is; a free one goes to the one who waits.
LEMMA MutexSettles ==
    ASSUME NEW t \in Sides, NEW h
    PROVE  /\ \A v \in Nat : Settle(MutexIs(v, << >>, h)) = MutexIs(v, << >>, h)
           /\ Settle(MutexIs(0, <<t>>, h)) = MutexIs(0, <<t>>, h)
           /\ Settle(MutexIs(1, <<t>>, "nobody")) = MutexIs(0, << >>, t)
<1>1. Undo(h) \in [Sides -> Int] /\ Undo("nobody") \in [Sides -> Int]
  BY UndoType
<1>2. ASSUME NEW v \in Nat
      PROVE  Settle(MutexIs(v, << >>, h)) = MutexIs(v, << >>, h)
  BY <1>1, Settled DEF MutexIs
<1>3. Settle(MutexIs(0, <<t>>, h)) = MutexIs(0, <<t>>, h)
  BY <1>1, Settled DEF MutexIs
<1>4. Settle(MutexIs(1, <<t>>, "nobody")) = MutexIs(0, << >>, t)
  <2>1. Settle(MutexIs(1, <<t>>, "nobody")) =
          Sem(TRUE, 1 - 1, << >>, Took(Undo("nobody"), t))
    BY <1>1, 1 \in Nat /\ 1 > 0, Settled DEF MutexIs
  <2>2. 1 - 1 = 0
    OBVIOUS
  <2>3. QED
    BY <2>1, <2>2, Adjust DEF MutexIs
<1>5. QED
  BY <1>2, <1>3, <1>4

\* semWait on the mutex: taken if it is free, waited for if it is not.
LEMMA MutexWait ==
    ASSUME NEW t \in Sides, NEW h
    PROVE  /\ WaitOp(MutexIs(1, << >>, "nobody"), t) = MutexIs(0, << >>, t)
           /\ WaitOp(MutexIs(0, << >>, h), t) = MutexIs(0, <<t>>, h)
<1>1. WaitOp(MutexIs(1, << >>, "nobody"), t) = MutexIs(0, << >>, t)
  <2>1. WaitOp(MutexIs(1, << >>, "nobody"), t) =
          Sem(TRUE, 1 - 1, << >>, Took(Undo("nobody"), t))
    <3>1. Undo("nobody") \in [Sides -> Int]
      BY UndoType
    <3>2. 1 \in Nat /\ 1 > 0
      OBVIOUS
    <3>3. QED
      BY <3>1, <3>2, TakeCall DEF MutexIs
  <2>2. 1 - 1 = 0
    OBVIOUS
  <2>3. QED
    BY <2>1, <2>2, Adjust DEF MutexIs
<1>2. WaitOp(MutexIs(0, << >>, h), t) = MutexIs(0, <<t>>, h)
  <2>1. WaitOp(MutexIs(0, << >>, h), t) = Sem(TRUE, 0, Append(<< >>, t), Undo(h))
    <3>1. Undo(h) \in [Sides -> Int]
      BY UndoType
    <3>2. QED
      BY <3>1, SleepCall DEF MutexIs
  <2>2. QED
    BY <2>1, Queues DEF MutexIs
<1>3. QED
  BY <1>1, <1>2

\* semPost by the holder: the mutex is free, or the waiter has it.
LEMMA MutexPost ==
    ASSUME NEW t \in Sides, NEW u \in Sides
    PROVE  /\ PostOp(MutexIs(0, << >>, t), t) = MutexIs(1, << >>, "nobody")
           /\ PostOp(MutexIs(0, <<u>>, t), t) = MutexIs(0, << >>, u)
<1>1. ASSUME NEW q
      PROVE  PostOp(MutexIs(0, q, t), t) = Settle(MutexIs(1, q, "nobody"))
  <2>1. PostOp(MutexIs(0, q, t), t) =
          Settle(Sem(TRUE, 0 + 1, q, Gave(Undo(t), t)))
    <3>1. Undo(t) \in [Sides -> Int] /\ 0 \in Nat
      BY UndoType
    <3>2. QED
      BY <3>1, PostCall DEF MutexIs
  <2>2. 0 + 1 = 1
    OBVIOUS
  <2>3. QED
    BY <2>1, <2>2, Adjust DEF MutexIs
<1>2. QED
  BY <1>1, MutexSettles

\* semInitValue with 1 on a mutex that has no value yet.
LEMMA MutexSet ==
    ASSUME NEW u \in Sides
    PROVE  /\ SetValOp(MutexIs(0, << >>, "nobody"), 1) = MutexIs(1, << >>, "nobody")
           /\ SetValOp(MutexIs(0, <<u>>, "nobody"), 1) = MutexIs(0, << >>, u)
<1>1. ASSUME NEW q
      PROVE  SetValOp(MutexIs(0, q, "nobody"), 1) = Settle(MutexIs(1, q, "nobody"))
  <2>1. SetValOp(MutexIs(0, q, "nobody"), 1) =
          Settle(Sem(TRUE, 1, q, Zero))
    <3>1. Undo("nobody") \in [Sides -> Int] /\ 0 \in Nat
      BY UndoType
    <3>2. QED
      BY <3>1, SetCall, ZenonT(40) DEF MutexIs
  <2>2. QED
    BY <2>1, Forget DEF MutexIs
<1>2. QED
  BY <1>1, MutexSettles

\* An exit: who waits stops waiting; who holds the mutex gives it back.
LEMMA ExitOfOther ==
    ASSUME NEW p \in Sides, NEW h, h # p, NEW v \in Nat, NEW q
    PROVE  ExitOp(MutexIs(v, q, h), p) = Settle(MutexIs(v, Without(q, p), h))
<1>1. Undo(h)[p] = 0
  BY DEF Undo
<1>2. ExitOp(MutexIs(v, q, h), p) =
        Settle(Sem(TRUE, Back(v + Undo(h)[p]), Without(q, p), Cleared(Undo(h), p)))
  <2>1. Undo(h) \in [Sides -> Int]
    BY UndoType
  <2>2. QED
    BY <2>1, ExitCall DEF MutexIs
<1>3. Back(v + 0) = v
  BY DEF Back
<1>4. Cleared(Undo(h), p) = Undo(h)
  BY Forget
<1>5. QED
  BY <1>1, <1>2, <1>3, <1>4 DEF MutexIs

\* The exit of the holder gives the mutex back.
LEMMA ExitOfHolder ==
    ASSUME NEW p \in Sides, NEW q
    PROVE  ExitOp(MutexIs(0, q, p), p) = Settle(MutexIs(1, Without(q, p), "nobody"))
<1>1. Undo(p)[p] = 1
  BY DEF Undo
<1>2. ExitOp(MutexIs(0, q, p), p) =
        Settle(Sem(TRUE, Back(0 + Undo(p)[p]), Without(q, p), Cleared(Undo(p), p)))
  <2>1. Undo(p) \in [Sides -> Int] /\ 0 \in Nat
    BY UndoType
  <2>2. QED
    BY <2>1, ExitCall DEF MutexIs
<1>3. Back(0 + 1) = 1
  BY DEF Back
<1>4. Cleared(Undo(p), p) = Undo("nobody")
  BY Forget
<1>5. QED
  BY <1>1, <1>2, <1>3, <1>4 DEF MutexIs

\* The exit of one who does not hold a mutex nobody waits for changes nothing.
LEMMA IdleExit ==
    ASSUME NEW p \in Sides, NEW h, h # p, NEW v \in Nat
    PROVE  ExitOp(MutexIs(v, << >>, h), p) = MutexIs(v, << >>, h)
<1>1. ExitOp(MutexIs(v, << >>, h), p) = Settle(MutexIs(v, Without(<< >>, p), h))
  BY ExitOfOther
<1>2. QED
  BY <1>1, Leaving, MutexSettles

\* Nor does it when the other side waits.
LEMMA WaiterStays ==
    ASSUME NEW p \in Sides, NEW u \in Sides, u # p, NEW h, h # p
    PROVE  ExitOp(MutexIs(0, <<u>>, h), p) = MutexIs(0, <<u>>, h)
<1>1. ExitOp(MutexIs(0, <<u>>, h), p) = Settle(MutexIs(0, Without(<<u>>, p), h))
  BY ExitOfOther, 0 \in Nat
<1>2. QED
  BY <1>1, Leaving, MutexSettles

\* The exit of a side that waits takes it out of the queue.
LEMMA WaiterLeaves ==
    ASSUME NEW p \in Sides, NEW h, h # p
    PROVE  ExitOp(MutexIs(0, <<p>>, h), p) = MutexIs(0, << >>, h)
<1>1. ExitOp(MutexIs(0, <<p>>, h), p) = Settle(MutexIs(0, Without(<<p>>, p), h))
  BY ExitOfOther, 0 \in Nat
<1>2. QED
  BY <1>1, 0 \in Nat, Leaving, MutexSettles

\* After the exit of the holder the mutex is free, or has the waiter as its holder.
LEMMA HolderExits ==
    ASSUME NEW p \in Sides, NEW u \in Sides, u # p
    PROVE  /\ ExitOp(MutexIs(0, << >>, p), p) = MutexIs(1, << >>, "nobody")
           /\ ExitOp(MutexIs(0, <<u>>, p), p) = MutexIs(0, << >>, u)
<1>1. ExitOp(MutexIs(0, << >>, p), p) = Settle(MutexIs(1, Without(<< >>, p), "nobody"))
  BY ExitOfHolder
<1>2. ExitOp(MutexIs(0, <<u>>, p), p) = Settle(MutexIs(1, Without(<<u>>, p), "nobody"))
  BY ExitOfHolder
<1>3. Settle(MutexIs(1, << >>, "nobody")) = MutexIs(1, << >>, "nobody")
  BY 1 \in Nat, MutexSettles
<1>4. Settle(MutexIs(1, <<u>>, "nobody")) = MutexIs(0, << >>, u)
  BY MutexSettles
<1>5. QED
  BY <1>1, <1>2, <1>3, <1>4, Leaving
------------------------------------------------------------------------------
(* The mutex in the steps *)

\* A mutex exists, and its sleepers are those of its queue.
LEMMA MutexShape ==
    ASSUME NEW v, NEW h, NEW t \in Sides
    PROVE  /\ \A q : MutexIs(v, q, h).exists /\ MutexIs(v, q, h).queue = q
           /\ Sleepers(MutexIs(v, << >>, h)) = {}
           /\ Sleepers(MutexIs(v, <<t>>, h)) = {t}
<1>1. \A q : MutexIs(v, q, h).exists /\ MutexIs(v, q, h).queue = q
  BY DEF MutexIs, Sem
<1>2. QED
  BY <1>1, SleepersOf

\* A missing mutex does not exist.
LEMMA Absence == Missing => ~sems["Mutex"].exists
<1>1. ASSUME NEW v, NEW undo PROVE ~Removed(v, undo).exists
  BY DEF Sem, Removed
<1>2. QED
  BY <1>1 DEF Missing

\* What move t does, when the mutex stays as it is.
LEMMA QuietMove ==
    ASSUME MutexState, NEW t \in Sides, NEW from, NEW to,
           pc \in [Sides -> Labels], pc[t] = from, pc' = [pc EXCEPT ![t] = to],
           sems'["Mutex"] = sems["Mutex"], t \notin Sleepers(sems["Mutex"]),
           from \in InMutex <=> to \in InMutex,
           t = "Producer" /\ to \in Opening \cup {"start"} =>
             from \in Opening \cup {"start"},
           t = "Consumer" => /\ from \in Preset <=> to \in Preset
                             /\ from \in Opening => to \in Opening
                             /\ from # "aborted"
    PROVE  MutexState'
<1>1. "Producer" \in Sides /\ "Consumer" \in Sides
  BY DEF Sides
<1>2. /\ t = "Producer" => pc'["Producer"] = to /\ pc'["Consumer"] = pc["Consumer"]
      /\ t = "Consumer" => pc'["Consumer"] = to /\ pc'["Producer"] = pc["Producer"]
      /\ t = "Producer" \/ t = "Consumer"
  BY <1>1 DEF Sides
<1>3. CASE Missing
  <2>1. Missing'
    BY <1>2, <1>3 DEF Missing
  <2>2. QED
    BY <2>1 DEF MutexState
<1>4. CASE Unset
  <2>1. Unset'
    BY <1>1, <1>2, <1>4, MutexShape DEF Unset
  <2>2. QED
    BY <2>1 DEF MutexState
<1>5. CASE Free
  <2>1. Free'
    BY <1>2, <1>5 DEF Free
  <2>2. QED
    BY <2>1 DEF MutexState
<1>6. ASSUME NEW h \in Sides, Held(h) PROVE Held(h)'
  <2>1. CASE sems["Mutex"] = MutexIs(0, << >>, h) /\ pc[Other(h)] \notin InMutex
    BY <1>2, <1>6, <2>1 DEF Held, Other, Sides
  <2>2. CASE sems["Mutex"] = MutexIs(0, <<Other(h)>>, h) /\ pc[Other(h)] = "access"
    <3>1. t # Other(h) /\ t = h
      BY <1>2, <1>6, <2>2, MutexShape DEF Other, Sides
    <3>2. QED
      BY <1>2, <1>6, <2>2, <3>1 DEF Held, Other, Sides
  <2>3. QED
    BY <1>6, <2>1, <2>2 DEF Held
<1>7. QED
  BY <1>1, <1>3, <1>4, <1>5, <1>6 DEF MutexState
\* Calls on a mutex that does not exist fail.
LEMMA MissingMove ==
    ASSUME MutexState, ~sems["Mutex"].exists, NEW t \in Sides, NEW from,
           pc \in [Sides -> Labels], pc[t] = from, pc' = [pc EXCEPT ![t] = "failed"],
           sems'["Mutex"] = sems["Mutex"],
           t = "Consumer" => from \notin Opening \cup {"aborted"}
    PROVE  MutexState'
<1>1. Missing
  BY MutexShape DEF MutexState, Unset, Free, Held, Sides, Other
<1>2. /\ "Producer" \in Sides /\ "Consumer" \in Sides
      /\ t = "Producer" => pc'["Producer"] = "failed" /\ pc'["Consumer"] = pc["Consumer"]
      /\ t = "Consumer" => pc'["Consumer"] = "failed" /\ pc'["Producer"] = pc["Producer"]
      /\ t = "Producer" \/ t = "Consumer"
  BY DEF Sides
<1>3. Missing'
  BY <1>1, <1>2 DEF Missing, Opening, InMutex
<1>4. QED
  BY <1>3 DEF MutexState

\* semInit of the mutex.
LEMMA CreateMove ==
    ASSUME MutexState, NEW t \in Sides, t \notin Sleepers(sems["Mutex"]),
           pc \in [Sides -> Labels], pc[t] = "openMutex",
           pc' = [pc EXCEPT ![t] = Opened[t]],
           sems'["Mutex"] = CreateOp(sems["Mutex"])
    PROVE  MutexState'
<1>1. CASE Missing
  <2>1. sems'["Mutex"] = MutexIs(0, << >>, "nobody")
    <3>1. CreateOp(sems["Mutex"]) = Sem(TRUE, 0, << >>, Zero)
      BY <1>1, Absence, CreateCall
    <3>2. QED
      BY <3>1, Forget DEF MutexIs
  <2>2. pc["Consumer"] \in Opening \cup {"aborted"}
    BY <1>1 DEF Missing, Opening, Sides
  <2>3. pc'["Producer"] \notin InMutex /\ pc'["Consumer"] \in Preset \cup {"aborted"}
    BY <1>1, <2>2 DEF Missing, Opening, Preset, InMutex, Sides, Opened
  <2>4. QED
    BY <2>1, <2>3 DEF MutexState, Unset
<1>2. CASE ~Missing
  <2>1. sems["Mutex"].exists
    BY <1>2, MutexShape DEF MutexState, Unset, Free, Held, Sides, Other
  <2>2. CreateOp(sems["Mutex"]) = sems["Mutex"]
    BY <2>1 DEF CreateOp
  <2>3. CASE Unset
    <3>1. t = "Producer" => sems["Mutex"] = MutexIs(0, << >>, "nobody")
      BY <2>3, MutexShape DEF Unset, Sides
    <3>2. Unset'
      BY <2>2, <2>3, <3>1 DEF Unset, Opening, Preset, InMutex, Sides, Opened
    <3>3. QED
      BY <3>2 DEF MutexState
  <2>4. CASE Free
    BY <2>2, <2>4 DEF MutexState, Free, Opening, Preset, InMutex, Sides, Opened
  <2>5. ASSUME NEW h \in Sides, Held(h) PROVE Held(h)'
    BY <2>2, <2>5 DEF Held, Other, Opening, Preset, InMutex, Sides, Opened
  <2>6. QED
    BY <1>2, <2>3, <2>4, <2>5 DEF MutexState, Sides
<1>3. QED
  BY <1>1, <1>2

\* The consumer gives the mutex its value.
LEMMA SetMove ==
    ASSUME MutexState, sems["Mutex"].exists,
           pc \in [Sides -> Labels], pc["Consumer"] = "setMutex",
           pc' = [pc EXCEPT !["Consumer"] = "setFull"],
           sems'["Mutex"] = SetValOp(sems["Mutex"], 1)
    PROVE  MutexState'
<1>1. ~Missing
  BY Absence
<1>2. Unset
  BY <1>1 DEF MutexState, Free, Held, Preset, Sides
<1>3. pc'["Producer"] = pc["Producer"] /\ pc'["Consumer"] = "setFull"
  BY DEF Sides
<1>4. CASE sems["Mutex"] = MutexIs(0, << >>, "nobody") /\ pc["Producer"] \notin InMutex
  <2>1. sems'["Mutex"] = MutexIs(1, << >>, "nobody")
    BY <1>4, MutexSet DEF Sides
  <2>2. Free'
    BY <1>3, <1>4, <2>1 DEF Free, InMutex, Preset, Opening
  <2>3. QED
    BY <2>2 DEF MutexState
<1>5. CASE sems["Mutex"] = MutexIs(0, <<"Producer">>, "nobody") /\ pc["Producer"] = "access"
  <2>1. sems'["Mutex"] = MutexIs(0, << >>, "Producer")
    BY <1>5, MutexSet DEF Sides
  <2>2. Held("Producer")'
    BY <1>3, <1>5, <2>1 DEF Held, Other, InMutex, Preset, Opening
  <2>3. QED
    BY <2>2 DEF MutexState
<1>6. QED
  BY <1>2, <1>4, <1>5 DEF Unset

\* semWait on the mutex.
LEMMA WaitMove ==
    ASSUME MutexState, sems["Mutex"].exists, NEW t \in Sides,
           t \notin Sleepers(sems["Mutex"]),
           pc \in [Sides -> Labels], pc[t] = "waitMutex",
           pc' = [pc EXCEPT ![t] = "access"],
           sems'["Mutex"] = WaitOp(sems["Mutex"], t)
    PROVE  MutexState'
<1>1. ~Missing
  BY Absence
<1>2. /\ pc'[t] = "access" /\ pc'[Other(t)] = pc[Other(t)]
      /\ Other(t) \in Sides /\ Other(Other(t)) = t /\ Other(t) # t
  BY DEF Sides, Other
<1>3. CASE Unset
  <2>1. t = "Producer" /\ sems["Mutex"] = MutexIs(0, << >>, "nobody")
    BY <1>3, MutexShape DEF Unset, Sides, Preset, Opening
  <2>2. sems'["Mutex"] = MutexIs(0, <<"Producer">>, "nobody")
    BY <2>1, MutexWait
  <2>3. Unset'
    BY <1>2, <1>3, <2>1, <2>2 DEF Unset, Other
  <2>4. QED
    BY <2>3 DEF MutexState
<1>4. CASE Free
  <2>1. sems'["Mutex"] = MutexIs(0, << >>, t)
    BY <1>4, MutexWait DEF Free
  <2>2. pc[Other(t)] \notin InMutex /\ pc["Consumer"] \notin Preset
    BY <1>4 DEF Free, Other
  <2>3. Held(t)'
    BY <1>2, <2>1, <2>2 DEF Held, InMutex, Preset, Opening, Other
  <2>4. QED
    BY <2>3 DEF MutexState, Sides
<1>5. ASSUME NEW h \in Sides, Held(h) PROVE Held(h)'
  <2>1. h = Other(t) /\ t = Other(h)
    BY <1>5 DEF Held, InMutex, Other, Sides
  <2>2. sems["Mutex"] = MutexIs(0, << >>, h)
    BY <1>5, <2>1, MutexShape DEF Held
  <2>3. sems'["Mutex"] = MutexIs(0, <<t>>, h)
    BY <2>2, MutexWait
  <2>4. QED
    BY <1>2, <1>5, <2>1, <2>3 DEF Held, Preset, Opening, Other
<1>6. QED
  BY <1>1, <1>3, <1>4, <1>5 DEF MutexState, Sides

\* semPost on the mutex by its holder.
LEMMA PostMove ==
    ASSUME MutexState, sems["Mutex"].exists, NEW t \in Sides,
           t \notin Sleepers(sems["Mutex"]),
           pc \in [Sides -> Labels], pc[t] = "postMutex",
           pc' = [pc EXCEPT ![t] = "postToken"],
           sems'["Mutex"] = PostOp(sems["Mutex"], t)
    PROVE  MutexState'
<1>1. /\ pc'[t] = "postToken" /\ pc'[Other(t)] = pc[Other(t)]
      /\ Other(t) \in Sides /\ Other(Other(t)) = t /\ Other(t) # t
  BY DEF Sides, Other
<1>2. Held(t)
  <2>1. ~Missing
    BY Absence
  <2>2. ~Unset /\ ~Free
    BY DEF Unset, Free, InMutex, Preset, Opening, Sides
  <2>3. ASSUME NEW h \in Sides, Held(h), h # t PROVE FALSE
    BY <2>3 DEF Held, InMutex, Other, Sides
  <2>4. QED
    BY <2>1, <2>2, <2>3 DEF MutexState, Sides
<1>3. pc'["Consumer"] \notin Preset
  BY <1>1, <1>2 DEF Held, Preset, Opening, Sides, Other
<1>4. CASE sems["Mutex"] = MutexIs(0, << >>, t) /\ pc[Other(t)] \notin InMutex
  <2>1. sems'["Mutex"] = MutexIs(1, << >>, "nobody")
    BY <1>4, MutexPost
  <2>2. Free'
    BY <1>1, <1>3, <1>4, <2>1 DEF Free, InMutex, Other, Sides
  <2>3. QED
    BY <2>2 DEF MutexState
<1>5. CASE sems["Mutex"] = MutexIs(0, <<Other(t)>>, t) /\ pc[Other(t)] = "access"
  <2>1. sems'["Mutex"] = MutexIs(0, << >>, Other(t))
    BY <1>1, <1>5, MutexPost
  <2>2. Held(Other(t))'
    BY <1>1, <1>3, <1>5, <2>1 DEF Held, InMutex
  <2>3. QED
    BY <2>2 DEF MutexState, Sides, Other
<1>6. QED
  BY <1>2, <1>4, <1>5 DEF Held

\* A destroyed mutex keeps its value and its adjustments, and nobody sleeps on it.
LEMMA MutexDestroy ==
    ASSUME NEW v, NEW q, NEW h
    PROVE  DestroyOp(MutexIs(v, q, h)) = Removed(v, Undo(h))
<1> DEFINE yes == TRUE
<1>1. MutexIs(v, q, h) = Sem(yes, v, q, Undo(h))
  BY DEF MutexIs
<1> HIDE DEF yes
<1>2. QED
  BY <1>1, Destroyed

\* semDestroy of the mutex.
LEMMA DestroyMove ==
    ASSUME MutexState, pc \in [Sides -> Labels],
           pc' = [q \in Sides |-> IF q = "Producer" THEN "destroyFull"
                                  ELSE IF q \in Sleepers(sems["Mutex"]) THEN "failed"
                                  ELSE pc[q]],
           sems'["Mutex"] = DestroyOp(sems["Mutex"])
    PROVE  MutexState'
<1>1. ASSUME NEW w \in Nat, NEW r, NEW h, sems["Mutex"] = MutexIs(w, r, h)
      PROVE  \E v \in Nat, undo \in [Sides -> Int] :
               sems'["Mutex"] = Removed(v, undo)
  BY <1>1, MutexDestroy, UndoType
<1>2. \E v \in Nat, undo \in [Sides -> Int] : sems'["Mutex"] = Removed(v, undo)
  <2>1. CASE Missing
    <3>1. PICK v \in Nat, undo \in [Sides -> Int] : sems["Mutex"] = Removed(v, undo)
      BY <2>1 DEF Missing
    <3>2. sems'["Mutex"] = Removed(v, undo)
      <4> DEFINE no == FALSE
      <4>1. sems["Mutex"] = Sem(no, v, << >>, undo)
        BY <3>1 DEF Removed
      <4> HIDE DEF no
      <4>2. QED
        BY <4>1, Destroyed
    <3>3. QED
      BY <3>2
  <2>2. CASE Unset
    BY <1>1, <2>2, 0 \in Nat DEF Unset
  <2>3. CASE Free
    BY <1>1, <2>3, 1 \in Nat DEF Free
  <2>4. ASSUME NEW h \in Sides, Held(h)
        PROVE  \E v \in Nat, undo \in [Sides -> Int] :
                 sems'["Mutex"] = Removed(v, undo)
    BY <1>1, <2>4, 0 \in Nat DEF Held
  <2>5. QED
    BY <2>1, <2>2, <2>3, <2>4 DEF MutexState, Sides
<1>3. pc'["Producer"] = "destroyFull"
  BY DEF Sides
<1>4. Missing'
  BY <1>2, <1>3 DEF Missing, InMutex, Opening
<1>5. QED
  BY <1>4 DEF MutexState

\* semDestroy of another semaphore: it may end a process that waits for a token.
LEMMA EndMove ==
    ASSUME MutexState, pc \in [Sides -> Labels], NEW S, NEW from, NEW to,
           pc["Producer"] = from, "Producer" \notin Sleepers(sems["Mutex"]),
           pc' = [q \in Sides |-> IF q = "Producer" THEN to
                                  ELSE IF q \in S THEN "failed" ELSE pc[q]],
           \A q \in S : pc[q] = "waitMutex",
           from \notin InMutex, to \notin InMutex \cup Opening \cup {"start"},
           sems'["Mutex"] = sems["Mutex"]
    PROVE  MutexState'
<1>1. /\ pc'["Producer"] = to
      /\ pc'["Consumer"] = IF "Consumer" \in S THEN "failed" ELSE pc["Consumer"]
      /\ "Consumer" \in S => pc["Consumer"] = "waitMutex"
  BY DEF Sides
<1>2. CASE Missing
  BY <1>1, <1>2 DEF Missing, MutexState
<1>3. CASE Unset
  BY <1>1, <1>3, MutexShape DEF Unset, MutexState, Preset, Opening, Sides
<1>4. CASE Free
  BY <1>1, <1>4 DEF Free, MutexState, Preset, Opening, InMutex
<1>5. CASE Held("Consumer")
  <2>1. Held("Consumer")'
    BY <1>1, <1>5, MutexShape DEF Held, Other, Preset, Opening, InMutex, Sides
  <2>2. QED
    BY <2>1 DEF MutexState
<1>6. ~Held("Producer")
  BY DEF Held
<1>7. QED
  BY <1>2, <1>3, <1>4, <1>5, <1>6 DEF MutexState

\* The end of t, which gives the mutex back.
LEMMA LeaveMove ==
    ASSUME MutexState, NEW t \in Sides, NEW how \in Gone,
           pc \in [Sides -> Labels], pc' = [pc EXCEPT ![t] = how],
           pc[t] \notin Gone, t = "Consumer" /\ pc[t] \in Preset => how = "aborted",
           sems'["Mutex"] = ExitOp(sems["Mutex"], t)
    PROVE  MutexState'
<1>1. /\ pc'[t] = how /\ pc'[Other(t)] = pc[Other(t)]
      /\ Other(t) \in Sides /\ Other(Other(t)) = t /\ Other(t) # t
      /\ how \notin InMutex /\ how \notin Preset /\ how # "start"
      /\ "nobody" # t /\ "nobody" \notin Sides
  BY DEF Sides, Other, Gone, InMutex, Preset, Opening
<1>2. CASE Missing
  <2>1. PICK v \in Nat, undo \in [Sides -> Int] : sems["Mutex"] = Removed(v, undo)
    BY <1>2 DEF Missing
  <2>2. sems'["Mutex"] = sems["Mutex"]
    BY <1>2, Absence DEF ExitOp
  <2>3. pc'["Producer"] \notin InMutex
    BY <1>1, <1>2 DEF Missing, Sides, Other
  <2>4. pc'["Producer"] \in Opening \cup {"start"} =>
          pc'["Consumer"] \in Opening \cup {"aborted"}
    BY <1>1, <1>2 DEF Missing, Sides, Other, Opening, Gone, Preset
  <2>5. Missing'
    BY <2>1, <2>2, <2>3, <2>4 DEF Missing
  <2>6. QED
    BY <2>5 DEF MutexState
<1>3. CASE Unset
  <2>1. /\ pc'["Consumer"] \in Preset \cup {"aborted"}
        /\ pc'["Producer"] = IF t = "Producer" THEN how ELSE pc["Producer"]
    BY <1>1, <1>3 DEF Unset, Sides, Other, Gone
  <2>2. CASE sems["Mutex"] = MutexIs(0, << >>, "nobody") /\ pc["Producer"] \notin InMutex
    <3>1. sems'["Mutex"] = MutexIs(0, << >>, "nobody")
      BY <1>1, <2>2, 0 \in Nat, IdleExit
    <3>2. QED
      BY <1>1, <2>1, <2>2, <3>1 DEF Unset, MutexState
  <2>3. CASE sems["Mutex"] = MutexIs(0, <<"Producer">>, "nobody") /\ pc["Producer"] = "access"
    <3>1. CASE t = "Producer"
      <4>1. sems'["Mutex"] = MutexIs(0, << >>, "nobody")
        BY <1>1, <2>3, <3>1, WaiterLeaves
      <4>2. QED
        BY <1>1, <2>1, <3>1, <4>1 DEF Unset, MutexState
    <3>2. CASE t = "Consumer"
      <4>1. sems'["Mutex"] = MutexIs(0, <<"Producer">>, "nobody")
        BY <1>1, <2>3, <3>2, WaiterStays DEF Sides
      <4>2. QED
        BY <1>1, <2>1, <2>3, <3>2, <4>1 DEF Unset, MutexState
    <3>3. QED
      BY <3>1, <3>2 DEF Sides
  <2>4. QED
    BY <1>3, <2>2, <2>3 DEF Unset
<1>4. CASE Free
  <2>1. sems'["Mutex"] = MutexIs(1, << >>, "nobody")
    BY <1>1, <1>4, 1 \in Nat, IdleExit DEF Free
  <2>2. Free'
    BY <1>1, <1>4, <2>1 DEF Free, Other, Sides
  <2>3. QED
    BY <2>2 DEF MutexState
<1>5. CASE Held(t)
  <2>1. CASE sems["Mutex"] = MutexIs(0, << >>, t) /\ pc[Other(t)] \notin InMutex
    <3>1. sems'["Mutex"] = MutexIs(1, << >>, "nobody")
      BY <1>1, <2>1, HolderExits
    <3>2. Free'
      BY <1>1, <1>5, <2>1, <3>1 DEF Free, Held, Other, Sides
    <3>3. QED
      BY <3>2 DEF MutexState
  <2>2. CASE sems["Mutex"] = MutexIs(0, <<Other(t)>>, t) /\ pc[Other(t)] = "access"
    <3>1. sems'["Mutex"] = MutexIs(0, << >>, Other(t))
      BY <1>1, <2>2, HolderExits
    <3>2. Held(Other(t))'
      BY <1>1, <1>5, <2>2, <3>1 DEF Held, Other, Sides, InMutex
    <3>3. QED
      BY <1>1, <3>2 DEF MutexState, Sides, Other
  <2>3. QED
    BY <1>5, <2>1, <2>2 DEF Held
<1>6. CASE Held(Other(t))
  <2>1. sems'["Mutex"] = MutexIs(0, << >>, Other(t))
    <3>1. CASE sems["Mutex"] = MutexIs(0, << >>, Other(t))
      BY <1>1, <3>1, 0 \in Nat, IdleExit
    <3>2. CASE sems["Mutex"] = MutexIs(0, <<t>>, Other(t))
      BY <1>1, <3>2, WaiterLeaves
    <3>3. QED
      BY <1>1, <1>6, <3>1, <3>2 DEF Held
  <2>2. Held(Other(t))'
    BY <1>1, <1>6, <2>1 DEF Held, Other, Sides
  <2>3. QED
    BY <1>1, <2>2 DEF MutexState, Sides, Other
<1>7. QED
  BY <1>2, <1>3, <1>4, <1>5, <1>6 DEF MutexState, Sides, Other
------------------------------------------------------------------------------
(* The calls on a semaphore that one process waits for *)

\* A semaphore nobody sleeps on is one of tokens.
LEMMA TokenIdle ==
    ASSUME NEW t \in Sides, NEW e, NEW v \in Nat, NEW undo \in [Sides -> Int]
    PROVE  IsToken(t, Sem(e, v, << >>, undo)) /\ Sem(e, v, << >>, undo).queue = << >>
<1> DEFINE sem == Sem(e, v, << >>, undo)
<1>1. sem.exists = e /\ sem.val = v /\ sem.queue = << >> /\ sem.undo = undo
  BY Fields
<1>2. sem = Sem(sem.exists, sem.val, sem.queue, sem.undo)
  BY <1>1
<1> HIDE DEF sem
<1>3. IsToken(t, sem)
  <2>1. sem.val \in Nat /\ sem.undo \in [Sides -> Int]
    BY <1>1
  <2>2. sem.queue = << >> \/ (sem.queue = <<t>> /\ sem.exists)
    BY <1>1
  <2>3. QED
    BY <1>2, <2>1, <2>2 DEF IsToken
<1>4. QED
  BY <1>1, <1>3 DEF sem

\* So is one that exists and on which its one waiter sleeps.
LEMMA TokenWaited ==
    ASSUME NEW t \in Sides, NEW e, NEW v \in Nat, NEW undo \in [Sides -> Int],
           Sem(e, v, <<t>>, undo).exists
    PROVE  IsToken(t, Sem(e, v, <<t>>, undo)) /\ Sem(e, v, <<t>>, undo).queue = <<t>>
<1> DEFINE sem == Sem(e, v, <<t>>, undo)
<1>1. sem.exists = e /\ sem.val = v /\ sem.queue = <<t>> /\ sem.undo = undo
  BY Fields
<1>2. sem = Sem(sem.exists, sem.val, sem.queue, sem.undo)
  BY <1>1
<1> HIDE DEF sem
<1>3. sem.exists => IsToken(t, sem)
  BY <1>1, <1>2 DEF IsToken
<1>4. QED
  BY <1>1, <1>3 DEF sem

\* Every call leaves adjustments that are numbers.
LEMMA UndoTypes ==
    ASSUME NEW undo \in [Sides -> Int], NEW p \in Sides
    PROVE  /\ Took(undo, p) \in [Sides -> Int] /\ Gave(undo, p) \in [Sides -> Int]
           /\ Cleared(undo, p) \in [Sides -> Int] /\ Zero \in [Sides -> Int]
  BY DEF Took, Gave, Cleared, Zero

\* Every call but semWait leaves such a semaphore, and nobody new in its queue.
Kept(t, sem, after) == /\ IsToken(t, after)
                       /\ after.queue = << >> \/ after.queue = sem.queue
                       /\ after.exists = sem.exists

\* Settle of a semaphore nobody sleeps on.
LEMMA SettleIdle ==
    ASSUME NEW t \in Sides, NEW sem, NEW e, NEW v \in Nat, NEW undo \in [Sides -> Int],
           sem.exists = e
    PROVE  /\ Kept(t, sem, Settle(Sem(e, v, << >>, undo)))
           /\ Settle(Sem(e, v, << >>, undo)).queue = << >>
<1>1. Settle(Sem(e, v, << >>, undo)) = Sem(e, v, << >>, undo)
  BY Settled
<1>2. Sem(e, v, << >>, undo).exists = e
  BY Fields
<1>3. QED
  BY <1>1, <1>2, TokenIdle DEF Kept

\* Settle of a semaphore its waiter sleeps on.
LEMMA SettleWaited ==
    ASSUME NEW t \in Sides, NEW sem, NEW e, NEW v \in Nat, NEW undo \in [Sides -> Int],
           sem.queue = <<t>>, Sem(e, v, <<t>>, undo).exists, sem.exists = e
    PROVE  Kept(t, sem, Settle(Sem(e, v, <<t>>, undo)))
<1>1. CASE v = 0
  <2>1. Settle(Sem(e, v, <<t>>, undo)) = Sem(e, v, <<t>>, undo)
    BY <1>1, Settled
  <2>2. IsToken(t, Sem(e, v, <<t>>, undo)) /\ Sem(e, v, <<t>>, undo).queue = <<t>>
    BY TokenWaited
  <2>3. Sem(e, v, <<t>>, undo).exists = e
    BY Fields
  <2>4. QED
    BY <2>1, <2>2, <2>3 DEF Kept
<1>2. CASE v > 0
  <2>1. Settle(Sem(e, v, <<t>>, undo)) = Sem(e, v - 1, << >>, Took(undo, t))
    BY <1>2, Settled
  <2>2. v - 1 \in Nat /\ Took(undo, t) \in [Sides -> Int]
    BY <1>2, UndoTypes
  <2>3. Sem(e, v - 1, << >>, Took(undo, t)).exists = e
    BY Fields
  <2>4. QED
    BY <2>1, <2>2, <2>3, TokenIdle DEF Kept
<1>3. QED
  BY <1>1, <1>2

\* Settle of a semaphore of tokens, whatever its value and adjustments.
LEMMA TokenSettles ==
    ASSUME NEW t \in Sides, NEW sem, IsToken(t, sem), NEW w \in Nat,
           NEW y \in [Sides -> Int]
    PROVE  Kept(t, sem, Settle(Sem(sem.exists, w, sem.queue, y)))
<1> DEFINE e == sem.exists
<1>1. CASE sem.queue = << >>
  BY <1>1, SettleIdle
<1>2. CASE sem.queue = <<t>> /\ e
  <2>1. Sem(e, w, <<t>>, y).exists
    <3>1. Sem(e, w, <<t>>, y).exists = e
      BY Fields
    <3>2. QED
      BY <1>2, <3>1
  <2>2. QED
    BY <1>2, <2>1, SettleWaited
<1>3. QED
  BY <1>1, <1>2 DEF IsToken

\* semWait by its waiter keeps a semaphore of tokens.
LEMMA TokenWait ==
    ASSUME NEW t \in Sides, NEW sem, IsToken(t, sem), sem.exists, sem.queue = << >>
    PROVE  IsToken(t, WaitOp(sem, t)) /\ WaitOp(sem, t).exists
<1> DEFINE e == sem.exists
           v == sem.val
           undo == sem.undo
<1>1. sem = Sem(e, v, << >>, undo) /\ v \in Nat /\ undo \in [Sides -> Int] /\ e
  BY DEF IsToken
<1> HIDE DEF e, v, undo
<1>2. CASE v > 0
  <2>1. WaitOp(sem, t) = Sem(e, v - 1, << >>, Took(undo, t))
    BY <1>1, <1>2, TakeCall
  <2>2. v - 1 \in Nat /\ Took(undo, t) \in [Sides -> Int]
    BY <1>1, <1>2, UndoTypes
  <2>3. Sem(e, v - 1, << >>, Took(undo, t)).exists = e
    BY Fields
  <2>4. QED
    BY <1>1, <2>1, <2>2, <2>3, TokenIdle
<1>3. CASE v = 0
  <2>1. WaitOp(sem, t) = Sem(e, 0, Append(<< >>, t), undo)
    BY <1>1, <1>3, SleepCall, ZenonT(40)
  <2>2. WaitOp(sem, t) = Sem(e, 0, <<t>>, undo)
    BY <2>1, Queues
  <2>3. Sem(e, 0, <<t>>, undo).exists
    <3>1. Sem(e, 0, <<t>>, undo).exists = e
      BY Fields
    <3>2. QED
      BY <1>1, <3>1
  <2>4. 0 \in Nat
    OBVIOUS
  <2>5. QED
    BY <1>1, <2>2, <2>3, <2>4, TokenWaited
<1>4. v > 0 \/ v = 0
  BY <1>1
<1>5. QED
  BY <1>2, <1>3, <1>4

\* semPost keeps a semaphore of tokens.
LEMMA TokenPost ==
    ASSUME NEW t \in Sides, NEW sem, IsToken(t, sem), NEW p \in Sides
    PROVE  Kept(t, sem, PostOp(sem, p))
<1>1. sem = Sem(sem.exists, sem.val, sem.queue, sem.undo) /\ sem.val \in Nat
      /\ sem.undo \in [Sides -> Int]
  BY DEF IsToken
<1>2. PostOp(sem, p) = Settle(Sem(sem.exists, sem.val + 1, sem.queue, Gave(sem.undo, p)))
  BY <1>1, PostCall
<1>3. sem.val + 1 \in Nat /\ Gave(sem.undo, p) \in [Sides -> Int]
  BY <1>1, UndoTypes
<1>4. QED
  BY <1>2, <1>3, TokenSettles

\* semInitValue keeps a semaphore of tokens.
LEMMA TokenSet ==
    ASSUME NEW t \in Sides, NEW sem, IsToken(t, sem), NEW w \in Nat
    PROVE  Kept(t, sem, SetValOp(sem, w))
<1>1. sem = Sem(sem.exists, sem.val, sem.queue, sem.undo) /\ sem.val \in Nat
      /\ sem.undo \in [Sides -> Int]
  BY DEF IsToken
<1>2. SetValOp(sem, w) = Settle(Sem(sem.exists, w, sem.queue, Zero))
  BY <1>1, SetCall
<1>3. Zero \in [Sides -> Int]
  BY DEF Zero
<1>4. QED
  BY <1>2, <1>3, TokenSettles

\* semInit keeps a semaphore of tokens.
LEMMA TokenCreate ==
    ASSUME NEW t \in Sides, NEW sem, IsToken(t, sem)
    PROVE  /\ IsToken(t, CreateOp(sem)) /\ CreateOp(sem).exists
           /\ CreateOp(sem).queue = << >> \/ CreateOp(sem).queue = sem.queue
<1>1. CASE sem.exists
  BY <1>1, CreateCall
<1>2. CASE ~sem.exists
  <2> DEFINE yes == TRUE
  <2>1. CreateOp(sem) = Sem(yes, 0, << >>, Zero) /\ 0 \in Nat
    BY <1>2, CreateCall
  <2>2. Sem(yes, 0, << >>, Zero).exists
    BY Fields
  <2>3. Zero \in [Sides -> Int]
    BY DEF Zero
  <2> HIDE DEF yes
  <2>4. QED
    BY <2>1, <2>2, <2>3, TokenIdle
<1>3. QED
  BY <1>1, <1>2

\* semDestroy keeps a semaphore of tokens, and wakes its waiter.
LEMMA TokenDestroy ==
    ASSUME NEW t \in Sides, NEW sem, IsToken(t, sem)
    PROVE  IsToken(t, DestroyOp(sem)) /\ DestroyOp(sem).queue = << >>
<1>1. sem = Sem(sem.exists, sem.val, sem.queue, sem.undo) /\ sem.val \in Nat
      /\ sem.undo \in [Sides -> Int]
  BY DEF IsToken
<1> DEFINE no == FALSE
<1>2. DestroyOp(sem) = Removed(sem.val, sem.undo)
  BY <1>1, Destroyed
<1>3. DestroyOp(sem) = Sem(no, sem.val, << >>, sem.undo)
  BY <1>2 DEF Removed
<1> HIDE DEF no
<1>4. QED
  BY <1>1, <1>3, TokenIdle

\* The exit of a process keeps a semaphore of tokens, without the one that exits.
LEMMA TokenExit ==
    ASSUME NEW t \in Sides, NEW sem, IsToken(t, sem), NEW p \in Sides
    PROVE  /\ Kept(t, sem, ExitOp(sem, p))
           /\ p = t => ExitOp(sem, p).queue = << >>
<1>1. sem = Sem(sem.exists, sem.val, sem.queue, sem.undo) /\ sem.val \in Nat
      /\ sem.undo \in [Sides -> Int]
  BY DEF IsToken
<1>2. CASE ~sem.exists
  <2>1. ExitOp(sem, p) = sem
    BY <1>2 DEF ExitOp
  <2>2. sem.queue = << >>
    BY <1>2 DEF IsToken
  <2>3. QED
    BY <2>1, <2>2 DEF Kept
<1>3. CASE sem.exists
  <2> DEFINE back == Back(sem.val + sem.undo[p])
             clear == Cleared(sem.undo, p)
  <2>1. ExitOp(sem, p) = Settle(Sem(sem.exists, back, Without(sem.queue, p), clear))
    <3>1. Sem(sem.exists, sem.val, sem.queue, sem.undo).exists
      BY <1>1, <1>3
    <3>2. QED
      BY <1>1, <3>1, ExitExisting
  <2>2. back \in Nat /\ clear \in [Sides -> Int]
    <3>1. sem.val + sem.undo[p] \in Int
      BY <1>1
    <3>2. QED
      BY <1>1, <3>1, UndoTypes DEF Back
  <2> HIDE DEF back, clear
  <2>3. CASE sem.queue = << >> \/ p = t
    <3>1. Without(sem.queue, p) = << >>
      BY <2>3, Leaving DEF IsToken
    <3>2. QED
      BY <2>1, <2>2, <3>1, SettleIdle
  <2>4. CASE sem.queue = <<t>> /\ p # t
    <3>1. Without(sem.queue, p) = sem.queue
      BY <2>4, Leaving
    <3>2. QED
      BY <2>1, <2>2, <2>4, <3>1, TokenSettles
  <2>5. QED
    BY <2>3, <2>4 DEF IsToken
<1>4. QED
  BY <1>2, <1>3
------------------------------------------------------------------------------
(* The steps *)

\* Which semaphore each side waits for and posts.
LEMMA Tokens == /\ WaitsFor["Producer"] = "Empty" /\ WaitsFor["Consumer"] = "Full"
                /\ Posts["Producer"] = "Full" /\ Posts["Consumer"] = "Empty"
                /\ \A t \in Sides : /\ WaitsFor[t] \in Semaphores
                                    /\ Posts[t] \in Semaphores
                                    /\ WaitsFor[t] # "Mutex" /\ Posts[t] # "Mutex"
                                    /\ \A u \in Sides : WaitsFor[u] = WaitsFor[t] => u = t
                /\ "Mutex" \in Semaphores
  BY DEF WaitsFor, Posts, Semaphores, Sides

\* A process that goes on is in no queue.
LEMMA Awake ==
    ASSUME TokenState, NEW t \in Sides, ~Asleep(t)
    PROVE  t \notin Sleepers(sems["Mutex"]) /\ sems[WaitsFor[t]].queue = << >>
<1>1. \A s \in Semaphores : t \notin Sleepers(sems[s])
  BY DEF Asleep
<1>2. sems[WaitsFor[t]].queue # <<t>>
  BY <1>1, Tokens, SleepersOf
<1>3. QED
  BY <1>1, <1>2, Tokens DEF TokenState, IsToken

\* Who sleeps on a semaphore for tokens.
LEMMA TokenSleepers ==
    ASSUME TokenState, NEW t \in Sides
    PROVE  \A u \in Sleepers(sems[WaitsFor[t]]) : u = t /\ pc[u] = "waitMutex"
<1>1. CASE sems[WaitsFor[t]].queue = << >>
  BY <1>1, SleepersOf
<1>2. CASE sems[WaitsFor[t]].queue = <<t>>
  <2>1. <<t>> # << >>
    BY Queues
  <2>2. QED
    BY <1>2, <2>1, SleepersOf DEF TokenState
<1>3. QED
  BY <1>1, <1>2 DEF TokenState, IsToken

\* Calls that put nobody new to sleep, by t or by nobody.
LEMMA TokensAfter ==
    ASSUME TokenState, NEW t \in Sides, sems[WaitsFor[t]].queue = << >>,
           \A u \in Sides :
              /\ IsToken(u, sems'[WaitsFor[u]])
              /\ \/ sems'[WaitsFor[u]].queue = << >>
                 \/ sems'[WaitsFor[u]].queue = sems[WaitsFor[u]].queue,
           \A u \in Sides : u # t => pc'[u] = pc[u]
    PROVE  TokenState'
  BY DEF TokenState

\* A step of t with no call, or one call on a semaphore s for tokens.
LEMMA LocalStep ==
    ASSUME Shape, MutexState, TokenState, NEW t \in Sides, ~Asleep(t), NEW to,
           pc' = [pc EXCEPT ![t] = to], to \in Labels, i' \in [Sides -> Int],
           pc[t] \in InMutex <=> to \in InMutex,
           t = "Producer" /\ to \in Opening \cup {"start"} =>
             pc[t] \in Opening \cup {"start"},
           t = "Consumer" => /\ pc[t] \in Preset <=> to \in Preset
                             /\ pc[t] \in Opening => to \in Opening
                             /\ pc[t] # "aborted",
           \/ UNCHANGED sems
           \/ \E u \in Sides : \E after :
                 /\ sems' = [sems EXCEPT ![WaitsFor[u]] = after]
                 /\ IsToken(u, after)
                 /\ after.queue = << >> \/ after.queue = sems[WaitsFor[u]].queue
    PROVE  Shape' /\ MutexState' /\ TokenState'
<1>1. t \notin Sleepers(sems["Mutex"]) /\ sems[WaitsFor[t]].queue = << >>
  BY Awake
<1>2. pc \in [Sides -> Labels] /\ pc' \in [Sides -> Labels]
  BY DEF Shape
<1>3. CASE UNCHANGED sems
  <2>1. Shape'
    BY <1>2, <1>3 DEF Shape
  <2>2. MutexState'
    BY <1>1, <1>2, <1>3, QuietMove
  <2>3. TokenState'
    BY <1>1, <1>2, <1>3, TokensAfter DEF TokenState
  <2>4. QED
    BY <2>1, <2>2, <2>3
<1>4. ASSUME NEW u \in Sides, NEW after, sems' = [sems EXCEPT ![WaitsFor[u]] = after],
             IsToken(u, after),
             after.queue = << >> \/ after.queue = sems[WaitsFor[u]].queue
      PROVE  Shape' /\ MutexState' /\ TokenState'
  <2>1. Shape'
    BY <1>2, <1>4, Tokens DEF Shape
  <2>2. /\ sems'[WaitsFor[u]] = after /\ sems'["Mutex"] = sems["Mutex"]
        /\ \A v \in Sides : v # u => sems'[WaitsFor[v]] = sems[WaitsFor[v]]
    BY <1>4, Tokens DEF Shape
  <2>3. MutexState'
    BY <1>1, <1>2, <2>2, QuietMove
  <2>4. \A v \in Sides :
              /\ IsToken(v, sems'[WaitsFor[v]])
              /\ \/ sems'[WaitsFor[v]].queue = << >>
                 \/ sems'[WaitsFor[v]].queue = sems[WaitsFor[v]].queue
    BY <1>4, <2>2 DEF TokenState
  <2>5. \A v \in Sides : v # t => pc'[v] = pc[v]
    BY <1>2
  <2>6. TokenState'
    BY <1>1, <2>4, <2>5, TokensAfter
  <2>7. QED
    BY <2>1, <2>3, <2>6
<1>5. QED
  BY <1>3, <1>4

\* A step of t with a call on the mutex.
LEMMA MutexStep ==
    ASSUME Shape, TokenState, NEW t \in Sides, ~Asleep(t), NEW to, to \in Labels,
           pc' = [pc EXCEPT ![t] = to], i' \in [Sides -> Int], NEW after,
           sems' = [sems EXCEPT !["Mutex"] = after]
    PROVE  Shape' /\ TokenState' /\ sems'["Mutex"] = after /\ sems'["Empty"] = sems["Empty"]
<1>1. sems[WaitsFor[t]].queue = << >>
  BY Awake
<1>2. Shape'
  BY Tokens DEF Shape
<1>3. /\ \A u \in Sides : sems'[WaitsFor[u]] = sems[WaitsFor[u]]
      /\ sems'["Mutex"] = after /\ sems'["Empty"] = sems["Empty"]
  BY Tokens DEF Shape
<1>4. \A u \in Sides : u # t => pc'[u] = pc[u]
  BY DEF Shape
<1>5. TokenState'
  BY <1>1, <1>3, <1>4, TokensAfter DEF TokenState
<1>6. QED
  BY <1>2, <1>3, <1>5

\* EarlyState after a step of t.
LEMMA EarlyStep ==
    ASSUME Shape, EarlyState, NEW t \in Sides, NEW to, pc' = [pc EXCEPT ![t] = to],
           t = "Producer" =>
             /\ pc["Consumer"] \in Preset => to \notin Late /\ i'["Producer"] = 0
             /\ sems["Empty"].exists => sems'["Empty"].exists,
           t = "Consumer" =>
             /\ to \in Preset => pc[t] \in Preset /\ i'["Producer"] = i["Producer"]
             /\ to \in {"openFull", "openMutex", "setEmpty"} => sems'["Empty"].exists
    PROVE  EarlyState'
<1>1. /\ t = "Producer" => pc'["Producer"] = to /\ pc'["Consumer"] = pc["Consumer"]
      /\ t = "Consumer" => pc'["Consumer"] = to /\ pc'["Producer"] = pc["Producer"]
      /\ t = "Producer" \/ t = "Consumer"
  BY DEF Sides, Shape
<1>2. CASE t = "Producer"
  BY <1>1, <1>2 DEF EarlyState, Preset, Opening
<1>3. CASE t = "Consumer"
  BY <1>1, <1>3 DEF EarlyState, Preset, Opening
<1>4. QED
  BY <1>1, <1>2, <1>3
------------------------------------------------------------------------------
(* The invariant in every action *)

\* A call of semInit preserves the invariant.
LEMMA OpenStep == ASSUME IInv, NEW t \in Sides, Open(t) PROVE IInv'
<1>1. /\ Shape /\ MutexState /\ TokenState /\ EarlyState
      /\ i' = i /\ i' \in [Sides -> Int]
  BY DEF IInv, Open, Shape
<1>2. ASSUME NEW u \in Sides, NEW from, NEW to, SemInit(t, from, WaitsFor[u], to),
             \/ from = "openEmpty" /\ to = "openFull" /\ WaitsFor[u] = "Empty"
             \/ from = "openFull" /\ to = "openMutex" /\ WaitsFor[u] = "Full"
      PROVE  IInv'
  <2>1. /\ ~Asleep(t) /\ pc[t] = from /\ pc' = [pc EXCEPT ![t] = to]
        /\ sems' = [sems EXCEPT ![WaitsFor[u]] = CreateOp(sems[WaitsFor[u]])]
    BY <1>2 DEF SemInit, At, Goto
  <2>2. IsToken(u, sems[WaitsFor[u]])
    BY <1>1 DEF TokenState
  <2>3. /\ IsToken(u, CreateOp(sems[WaitsFor[u]]))
        /\ CreateOp(sems[WaitsFor[u]]).exists
        /\ \/ CreateOp(sems[WaitsFor[u]]).queue = << >>
           \/ CreateOp(sems[WaitsFor[u]]).queue = sems[WaitsFor[u]].queue
    BY <2>2, TokenCreate
  <2>4. /\ to \in Labels /\ to \in Opening /\ from \in Opening
        /\ to \notin InMutex /\ from \notin InMutex
        /\ from \in Preset /\ to \in Preset /\ from # "aborted"
    BY <1>2 DEF InMutex, Opening, Preset, Labels, Setup
  <2>5. Shape' /\ MutexState' /\ TokenState'
    BY <1>1, <2>1, <2>3, <2>4, LocalStep
  <2>6. WaitsFor[u] = "Empty" => sems'["Empty"].exists
    BY <1>1, <2>1, <2>3, Tokens DEF Shape
  <2>7. WaitsFor[u] # "Empty" => sems'["Empty"] = sems["Empty"]
    BY <1>1, <2>1 DEF Shape, Semaphores
  <2>8. EarlyState'
    BY <1>1, <1>2, <2>1, <2>6, <2>7, EarlyStep DEF EarlyState, Late, Preset, Opening
  <2>9. QED
    BY <2>5, <2>8 DEF IInv
<1>3. ASSUME SemInit(t, "openMutex", "Mutex", Opened[t]) PROVE IInv'
  <2>1. /\ ~Asleep(t) /\ pc[t] = "openMutex" /\ pc' = [pc EXCEPT ![t] = Opened[t]]
        /\ sems' = [sems EXCEPT !["Mutex"] = CreateOp(sems["Mutex"])]
    BY <1>3 DEF SemInit, At, Goto
  <2>2. /\ t = "Consumer" => Opened[t] = "setEmpty"
        /\ t = "Producer" => Opened[t] = "loop"
        /\ Opened[t] \in Labels
    <3>1. Opened["Consumer"] = "setEmpty" /\ Opened["Producer"] = "loop"
      BY DEF Opened
    <3>2. QED
      BY <3>1 DEF Sides, Labels, Setup
  <2>3. /\ Shape' /\ TokenState' /\ sems'["Empty"] = sems["Empty"]
        /\ sems'["Mutex"] = CreateOp(sems["Mutex"])
    BY <1>1, <2>1, <2>2, MutexStep
  <2>4. t \notin Sleepers(sems["Mutex"]) /\ pc \in [Sides -> Labels]
    BY <1>1, <2>1, Awake DEF Shape
  <2>5. MutexState'
    BY <1>1, <2>1, <2>3, <2>4, CreateMove
  <2>6. EarlyState'
    BY <1>1, <2>1, <2>2, <2>3, EarlyStep DEF EarlyState, Late, Preset, Opening
  <2>7. QED
    BY <2>3, <2>5, <2>6 DEF IInv
<1>4. QED
  BY <1>2, <1>3, Tokens DEF Open, Sides

\* The consumer's calls of semInitValue preserve the invariant.
LEMMA StartStep == ASSUME IInv, Start PROVE IInv'
<1>1. /\ Shape /\ MutexState /\ TokenState /\ EarlyState
      /\ i' = i /\ i' \in [Sides -> Int] /\ pc \in [Sides -> Labels]
  BY DEF IInv, Start, SetValues, Shape
<1>2. "Consumer" \in Sides /\ "Producer" \in Sides
  BY DEF Sides
<1>3. ASSUME NEW u \in Sides, NEW from, NEW to, NEW v \in Nat,
             SemInitValue("Consumer", from, WaitsFor[u], v, to),
             \/ from = "setEmpty" /\ to = "setMutex" /\ WaitsFor[u] = "Empty"
             \/ from = "setFull" /\ to = "loop" /\ WaitsFor[u] = "Full"
      PROVE  IInv'
  <2>1. ~Asleep("Consumer") /\ pc["Consumer"] = from
    BY <1>3 DEF SemInitValue, Call, At
  <2>2. CASE sems[WaitsFor[u]].exists
    <3>1. /\ pc' = [pc EXCEPT !["Consumer"] = to]
          /\ sems' = [sems EXCEPT ![WaitsFor[u]] = SetValOp(sems[WaitsFor[u]], v)]
      BY <1>3, <2>2 DEF SemInitValue, Call, Goto
    <3>2. Kept(u, sems[WaitsFor[u]], SetValOp(sems[WaitsFor[u]], v))
      BY <1>1, TokenSet DEF TokenState
    <3>3. /\ to \in Labels /\ to \notin InMutex /\ from \notin InMutex
          /\ from \in Preset <=> to \in Preset
          /\ from \notin Opening /\ from # "aborted"
      BY <1>3 DEF InMutex, Opening, Preset, Labels, Setup
    <3>4. Shape' /\ MutexState' /\ TokenState'
      BY <1>1, <1>2, <2>1, <3>1, <3>2, <3>3, LocalStep DEF Kept
    <3>5. EarlyState'
      BY <1>1, <1>2, <1>3, <2>1, <3>1, EarlyStep DEF Preset, Opening
    <3>6. QED
      BY <3>4, <3>5 DEF IInv
  <2>3. CASE ~sems[WaitsFor[u]].exists
    <3>1. pc' = [pc EXCEPT !["Consumer"] = "failed"] /\ UNCHANGED sems
      BY <1>3, <2>3 DEF SemInitValue, Call, Goto
    <3>2. from = "setFull"
      BY <1>1, <1>3, <2>1, <2>3 DEF EarlyState
    <3>3. Shape' /\ MutexState' /\ TokenState'
      <4>1. /\ "failed" \in Labels /\ "failed" \notin InMutex /\ from \notin InMutex
            /\ "failed" \notin Preset /\ from \notin Preset
            /\ from \notin Opening /\ from # "aborted"
        BY <3>2 DEF InMutex, Opening, Preset, Labels
      <4>2. QED
        BY <1>1, <1>2, <2>1, <3>1, <4>1, LocalStep
    <3>4. EarlyState'
      BY <1>1, <1>2, <2>1, <3>1, EarlyStep DEF Preset, Opening
    <3>5. QED
      BY <3>3, <3>4 DEF IInv
  <2>4. QED
    BY <2>2, <2>3
<1>4. ASSUME SemInitValue("Consumer", "setMutex", "Mutex", 1, "setFull") PROVE IInv'
  <2>1. ~Asleep("Consumer") /\ pc["Consumer"] = "setMutex"
    BY <1>4 DEF SemInitValue, Call, At
  <2>2. CASE sems["Mutex"].exists
    <3>1. /\ pc' = [pc EXCEPT !["Consumer"] = "setFull"]
          /\ sems' = [sems EXCEPT !["Mutex"] = SetValOp(sems["Mutex"], 1)]
      BY <1>4, <2>2 DEF SemInitValue, Call, Goto
    <3>0. "setFull" \in Labels
      BY DEF Labels, Setup
    <3>2. Shape' /\ TokenState' /\ sems'["Mutex"] = SetValOp(sems["Mutex"], 1)
      BY <1>1, <1>2, <2>1, <3>1, <3>0, MutexStep
    <3>3. MutexState'
      BY <1>1, <2>1, <2>2, <3>1, <3>2, SetMove
    <3>4. EarlyState'
      BY <1>1, <1>2, <2>1, <3>1, EarlyStep DEF Preset, Opening
    <3>5. QED
      BY <3>2, <3>3, <3>4 DEF IInv
  <2>3. CASE ~sems["Mutex"].exists
    <3>1. pc' = [pc EXCEPT !["Consumer"] = "failed"] /\ UNCHANGED sems
      BY <1>4, <2>3 DEF SemInitValue, Call, Goto
    <3>2. MutexState'
      BY <1>1, <1>2, <2>1, <2>3, <3>1, MissingMove DEF Opening
    <3>3. Shape'
      BY <1>1, <3>1 DEF Shape, Labels
    <3>4. TokenState'
      BY <1>1, <1>2, <2>1, <3>1, Awake, TokensAfter DEF TokenState
    <3>5. EarlyState'
      BY <1>1, <1>2, <2>1, <3>1, EarlyStep DEF Preset, Opening
    <3>6. QED
      BY <3>2, <3>3, <3>4, <3>5 DEF IInv
  <2>4. QED
    BY <2>2, <2>3
<1>5. MAX_BUF \in Nat /\ 0 \in Nat
  BY BufferAssumption
<1>6. QED
  BY <1>2, <1>3, <1>4, <1>5, Tokens DEF Start, SetValues
\* A call fails: no state but the process's own changes.
LEMMA FailStep ==
    ASSUME IInv, NEW t \in Sides, ~Asleep(t), i' = i, UNCHANGED sems,
           pc' = [pc EXCEPT ![t] = "failed"],
           pc[t] \notin Preset \cup {"aborted"},
           pc[t] \in InMutex => ~sems["Mutex"].exists
    PROVE  IInv'
<1>1. /\ Shape /\ MutexState /\ TokenState /\ EarlyState
      /\ i' \in [Sides -> Int] /\ pc \in [Sides -> Labels]
  BY DEF IInv, Shape
<1>2. /\ "failed" \in Labels /\ "failed" \notin InMutex /\ "failed" \notin Preset
      /\ "failed" \notin Opening /\ "failed" \notin Late /\ "failed" # "start"
      /\ pc[t] \notin Opening
  BY DEF Labels, InMutex, Preset, Opening, Late
<1>3. Shape' /\ MutexState' /\ TokenState'
  <2>1. CASE pc[t] \notin InMutex
    BY <1>1, <1>2, <2>1, LocalStep
  <2>2. CASE ~sems["Mutex"].exists
    <3>1. MutexState'
      BY <1>1, <1>2, <2>2, MissingMove
    <3>2. Shape'
      BY <1>1, <1>2 DEF Shape
    <3>3. TokenState'
      BY <1>1, Awake, TokensAfter DEF TokenState
    <3>4. QED
      BY <3>1, <3>2, <3>3
  <2>3. QED
    BY <2>1, <2>2
<1>4. t = "Producer" /\ pc["Consumer"] \in Preset => i'["Producer"] = 0
  BY <1>1 DEF EarlyState
<1>5. "failed" \notin {"openFull", "openMutex", "setEmpty"}
  OBVIOUS
<1>6. EarlyState'
  BY <1>1, <1>2, <1>4, <1>5, EarlyStep
<1>7. QED
  BY <1>3, <1>6 DEF IInv

\* semWait on Empty or Full preserves the invariant.
LEMMA WaitTokenStep == ASSUME IInv, NEW t \in Sides, WaitToken(t) PROVE IInv'
<1>1. /\ Shape /\ MutexState /\ TokenState /\ EarlyState
      /\ i' = i /\ i' \in [Sides -> Int] /\ pc \in [Sides -> Labels]
  BY DEF IInv, WaitToken, Shape
<1> DEFINE s == WaitsFor[t]
<1>2. ~Asleep(t) /\ pc[t] = "loop" /\ s \in Semaphores /\ s # "Mutex"
  BY Tokens DEF WaitToken, SemWait, Call, At
<1>3. /\ "loop" \notin Preset /\ "waitMutex" \notin Preset
      /\ "loop" \notin InMutex /\ "waitMutex" \notin InMutex
      /\ "loop" \notin Opening /\ "waitMutex" \notin Opening
      /\ "waitMutex" \notin Late /\ "waitMutex" \in Labels
  BY DEF Preset, Opening, InMutex, Late, Labels
<1>4. CASE sems[s].exists
  <2>1. /\ pc' = [pc EXCEPT ![t] = "waitMutex"]
        /\ sems' = [sems EXCEPT ![s] = WaitOp(sems[s], t)]
    BY <1>4 DEF WaitToken, SemWait, Call, Goto
  <2>2. t \notin Sleepers(sems["Mutex"]) /\ sems[s].queue = << >>
    BY <1>1, <1>2, Awake
  <2>3. IsToken(t, WaitOp(sems[s], t)) /\ WaitOp(sems[s], t).exists
    BY <1>1, <1>4, <2>2, TokenWait DEF TokenState
  <2>4. /\ sems'[s] = WaitOp(sems[s], t) /\ sems'["Mutex"] = sems["Mutex"]
        /\ \A u \in Sides : u # t => sems'[WaitsFor[u]] = sems[WaitsFor[u]]
        /\ s = "Empty" \/ sems'["Empty"] = sems["Empty"]
    BY <1>1, <1>2, <2>1, Tokens DEF Shape, Semaphores
  <2>5. Shape'
    BY <1>1, <1>2, <1>3, <2>1 DEF Shape
  <2>6. MutexState'
    BY <1>1, <1>2, <1>3, <2>1, <2>2, <2>4, QuietMove
  <2>7. pc'[t] = "waitMutex" /\ \A u \in Sides : u # t => pc'[u] = pc[u]
    BY <1>1, <2>1
  <2>8. TokenState'
    BY <1>1, <2>3, <2>4, <2>7 DEF TokenState
  <2>9. t = "Producer" /\ pc["Consumer"] \in Preset => i'["Producer"] = 0
    BY <1>1 DEF EarlyState
  <2>10. sems["Empty"].exists => sems'["Empty"].exists
    BY <2>3, <2>4
  <2>11. "waitMutex" \notin {"openFull", "openMutex", "setEmpty"}
    OBVIOUS
  <2>12. EarlyState'
    BY <1>1, <1>3, <2>1, <2>9, <2>10, <2>11, EarlyStep
  <2>13. QED
    BY <2>5, <2>6, <2>8, <2>12 DEF IInv
<1>5. CASE ~sems[s].exists
  <2>1. pc' = [pc EXCEPT ![t] = "failed"] /\ UNCHANGED sems
    BY <1>5 DEF WaitToken, SemWait, Call, Goto
  <2>2. QED
    BY <1>1, <1>2, <1>3, <2>1, FailStep
<1>6. QED
  BY <1>4, <1>5

\* semWait on Mutex preserves the invariant.
LEMMA WaitMutexStep == ASSUME IInv, NEW t \in Sides, WaitMutex(t) PROVE IInv'
<1>1. /\ Shape /\ MutexState /\ TokenState /\ EarlyState
      /\ i' = i /\ i' \in [Sides -> Int] /\ pc \in [Sides -> Labels]
  BY DEF IInv, WaitMutex, Shape
<1>2. ~Asleep(t) /\ pc[t] = "waitMutex"
  BY DEF WaitMutex, SemWait, Call, At
<1>3. /\ "waitMutex" \notin Preset /\ "access" \notin Preset
      /\ "waitMutex" \notin InMutex /\ "access" \notin Late /\ "access" \in Labels
      /\ "access" \notin {"openFull", "openMutex", "setEmpty"}
  BY DEF Preset, Opening, InMutex, Late, Labels
<1>4. CASE sems["Mutex"].exists
  <2>1. /\ pc' = [pc EXCEPT ![t] = "access"]
        /\ sems' = [sems EXCEPT !["Mutex"] = WaitOp(sems["Mutex"], t)]
    BY <1>4 DEF WaitMutex, SemWait, Call, Goto
  <2>2. /\ Shape' /\ TokenState' /\ sems'["Mutex"] = WaitOp(sems["Mutex"], t)
        /\ sems'["Empty"] = sems["Empty"]
    BY <1>1, <1>2, <1>3, <2>1, MutexStep
  <2>3. t \notin Sleepers(sems["Mutex"])
    BY <1>1, <1>2, Awake
  <2>4. MutexState'
    BY <1>1, <1>2, <1>4, <2>1, <2>2, <2>3, WaitMove
  <2>5. t = "Producer" /\ pc["Consumer"] \in Preset => i'["Producer"] = 0
    BY <1>1 DEF EarlyState
  <2>6. EarlyState'
    BY <1>1, <1>3, <2>1, <2>2, <2>5, EarlyStep
  <2>7. QED
    BY <2>2, <2>4, <2>6 DEF IInv
<1>5. CASE ~sems["Mutex"].exists
  <2>1. pc' = [pc EXCEPT ![t] = "failed"] /\ UNCHANGED sems
    BY <1>5 DEF WaitMutex, SemWait, Call, Goto
  <2>2. QED
    BY <1>1, <1>2, <1>3, <2>1, FailStep
<1>6. QED
  BY <1>4, <1>5

\* In the mutex no semaphore is called.
LEMMA InsideStep ==
    ASSUME IInv, NEW t \in Sides, Access(t) \/ Load(t) \/ Store(t)
    PROVE  IInv'
<1>1. /\ Shape /\ MutexState /\ TokenState /\ EarlyState /\ UNCHANGED sems
      /\ i' = i /\ i' \in [Sides -> Int] /\ pc \in [Sides -> Labels]
  BY DEF IInv, Access, Load, Store, Shape
<1>2. PICK to \in {"load", "store", "postMutex"} :
        ~Asleep(t) /\ pc[t] \in InMutex /\ pc' = [pc EXCEPT ![t] = to]
  BY DEF Access, Load, Store, At, Goto, InMutex
<1>3. /\ to \in Labels /\ to \in InMutex /\ to \notin Opening /\ to # "start"
      /\ to \notin Preset /\ to \notin Late /\ to \notin {"openFull", "openMutex", "setEmpty"}
      /\ pc[t] \notin Preset /\ pc[t] \notin Opening /\ pc[t] # "aborted"
  BY <1>2 DEF Labels, InMutex, Opening, Preset, Late
<1>4. Shape' /\ MutexState' /\ TokenState'
  BY <1>1, <1>2, <1>3, LocalStep
<1>5. t = "Producer" /\ pc["Consumer"] \in Preset => i'["Producer"] = 0
  BY <1>1 DEF EarlyState
<1>6. EarlyState'
  BY <1>1, <1>2, <1>3, <1>5, EarlyStep
<1>7. QED
  BY <1>4, <1>6 DEF IInv

\* While the mutex has no value the producer is not in it.
LEMMA NotInside ==
    ASSUME MutexState, pc["Consumer"] \in Preset,
           "Producer" \notin Sleepers(sems["Mutex"])
    PROVE  pc["Producer"] \notin InMutex
<1>1. pc["Consumer"] \notin InMutex
  BY DEF Preset, Opening, InMutex
<1>2. QED
  BY <1>1, MutexShape DEF MutexState, Missing, Unset, Free, Held, Sides

\* semPost on Mutex preserves the invariant.
LEMMA PostMutexStep == ASSUME IInv, NEW t \in Sides, PostMutex(t) PROVE IInv'
<1>1. /\ Shape /\ MutexState /\ TokenState /\ EarlyState
      /\ i' = i /\ i' \in [Sides -> Int] /\ pc \in [Sides -> Labels]
  BY DEF IInv, PostMutex, Shape
<1>2. ~Asleep(t) /\ pc[t] = "postMutex"
  BY DEF PostMutex, SemPost, Call, At
<1>3. /\ "postMutex" \notin Preset /\ "postToken" \notin Preset
      /\ "postMutex" \in InMutex /\ "postToken" \in Labels
      /\ "postToken" \notin {"openFull", "openMutex", "setEmpty"}
  BY DEF Preset, Opening, InMutex, Late, Labels
<1>4. t \notin Sleepers(sems["Mutex"])
  BY <1>1, <1>2, Awake
<1>5. CASE sems["Mutex"].exists
  <2>1. /\ pc' = [pc EXCEPT ![t] = "postToken"]
        /\ sems' = [sems EXCEPT !["Mutex"] = PostOp(sems["Mutex"], t)]
    BY <1>5 DEF PostMutex, SemPost, Call, Goto
  <2>2. /\ Shape' /\ TokenState' /\ sems'["Mutex"] = PostOp(sems["Mutex"], t)
        /\ sems'["Empty"] = sems["Empty"]
    BY <1>1, <1>2, <1>3, <2>1, MutexStep
  <2>3. MutexState'
    BY <1>1, <1>2, <1>4, <1>5, <2>1, <2>2, PostMove
  <2>4. t = "Producer" => pc["Consumer"] \notin Preset
    BY <1>1, <1>2, <1>3, <1>4, NotInside
  <2>5. EarlyState'
    BY <1>1, <1>3, <2>1, <2>2, <2>4, EarlyStep
  <2>6. QED
    BY <2>2, <2>3, <2>5 DEF IInv
<1>6. CASE ~sems["Mutex"].exists
  <2>1. pc' = [pc EXCEPT ![t] = "failed"] /\ UNCHANGED sems
    BY <1>6 DEF PostMutex, SemPost, Call, Goto
  <2>2. QED
    BY <1>1, <1>2, <1>3, <1>6, <2>1, FailStep
<1>7. QED
  BY <1>5, <1>6

\* semPost on Empty or Full preserves the invariant.
LEMMA PostTokenStep == ASSUME IInv, NEW t \in Sides, PostToken(t) PROVE IInv'
<1> DEFINE s == Posts[t]
<1>1. /\ Shape /\ MutexState /\ TokenState /\ EarlyState /\ pc \in [Sides -> Labels]
  BY DEF IInv, Shape
<1>2. ~Asleep(t) /\ pc[t] = "postToken"
  BY DEF PostToken, SemPost, Call, At
<1>3. /\ "loop" \notin Preset /\ "postToken" \notin Preset
      /\ "loop" \notin InMutex /\ "postToken" \notin InMutex
      /\ "loop" \notin Opening /\ "postToken" \notin Opening
      /\ "postToken" \in Late /\ "loop" \in Labels
      /\ "loop" \notin {"openFull", "openMutex", "setEmpty"}
  BY DEF Preset, Opening, InMutex, Late, Labels
<1>4. CASE sems[s].exists
  <2>1. /\ pc' = [pc EXCEPT ![t] = "loop"]
        /\ sems' = [sems EXCEPT ![s] = PostOp(sems[s], t)]
        /\ i' = [i EXCEPT ![t] = @ + 1]
    BY <1>4 DEF PostToken, SemPost, Call, Goto
  <2>2. i' \in [Sides -> Int]
    BY <1>1, <2>1 DEF Shape
  <2>3. PICK u \in Sides : s = WaitsFor[u]
    BY Tokens DEF Sides
  <2>4. Kept(u, sems[s], PostOp(sems[s], t))
    BY <1>1, <2>3, TokenPost DEF TokenState
  <2>5. Shape' /\ MutexState' /\ TokenState'
    BY <1>1, <1>2, <1>3, <2>1, <2>2, <2>3, <2>4, LocalStep DEF Kept
  <2>6. t = "Producer" => pc["Consumer"] \notin Preset
    BY <1>1, <1>2, <1>3 DEF EarlyState
  <2>7. t = "Producer" => sems'["Empty"] = sems["Empty"]
    BY <1>1, <2>1, Tokens DEF Shape, Semaphores
  <2>8. EarlyState'
    BY <1>1, <1>3, <2>1, <2>6, <2>7, EarlyStep
  <2>9. QED
    BY <2>5, <2>8 DEF IInv
<1>5. CASE ~sems[s].exists
  <2>1. pc' = [pc EXCEPT ![t] = "failed"] /\ UNCHANGED sems /\ i' = i
    BY <1>5 DEF PostToken, SemPost, Call, Goto
  <2>2. QED
    BY <1>1, <1>2, <1>3, <2>1, FailStep
<1>6. QED
  BY <1>4, <1>5
\* The end of a process, by exit() or a signal, whether it sleeps or not.
LEMMA LeaveStep ==
    ASSUME IInv, NEW t \in Sides, NEW how \in Gone, Leave(t, how), i' = i,
           pc[t] \notin Gone, t = "Consumer" /\ pc[t] \in Preset => how = "aborted"
    PROVE  IInv'
<1>1. /\ Shape /\ MutexState /\ TokenState /\ EarlyState /\ pc \in [Sides -> Labels]
      /\ sems' = [s \in Semaphores |-> ExitOp(sems[s], t)]
      /\ pc' = [pc EXCEPT ![t] = how]
  BY DEF IInv, Shape, Leave, Goto
<1>2. /\ how \in Labels /\ how \notin Preset /\ how \notin Late
      /\ how \notin {"openFull", "openMutex", "setEmpty"}
  BY DEF Gone, Labels, Preset, Opening, Late
<1>3. /\ sems'["Mutex"] = ExitOp(sems["Mutex"], t)
      /\ \A u \in Sides : sems'[WaitsFor[u]] = ExitOp(sems[WaitsFor[u]], t)
  BY <1>1, Tokens
<1>4. \A u \in Sides : /\ Kept(u, sems[WaitsFor[u]], sems'[WaitsFor[u]])
                       /\ u = t => sems'[WaitsFor[u]].queue = << >>
  <2>1. ASSUME NEW u \in Sides
        PROVE  /\ Kept(u, sems[WaitsFor[u]], ExitOp(sems[WaitsFor[u]], t))
               /\ t = u => ExitOp(sems[WaitsFor[u]], t).queue = << >>
    <3>1. IsToken(u, sems[WaitsFor[u]])
      BY <1>1 DEF TokenState
    <3>2. QED
      BY <3>1, TokenExit
  <2>2. QED
    BY <1>3, <2>1
<1>5. Shape'
  BY <1>1, <1>2 DEF Shape
<1>6. MutexState'
  BY <1>1, <1>3, LeaveMove
<1>7. TokenState'
  <2>1. \A u \in Sides : u # t => pc'[u] = pc[u]
    BY <1>1
  <2>2. QED
    BY <1>1, <1>4, <2>1, ZenonT(40) DEF TokenState, Kept
<1>8. sems["Empty"].exists => sems'["Empty"].exists
  <2>1. "Producer" \in Sides
    BY DEF Sides
  <2>2. QED
    BY <1>4, <2>1, Tokens DEF Kept
<1>9. t = "Producer" /\ pc["Consumer"] \in Preset => i'["Producer"] = 0
  BY <1>1 DEF EarlyState
<1>10. EarlyState'
  BY <1>1, <1>2, <1>8, <1>9, EarlyStep
<1>11. QED
  BY <1>5, <1>6, <1>7, <1>10 DEF IInv

\* The regular exit of a process preserves the invariant.
LEMMA ExitStep == ASSUME IInv, NEW t \in Sides, Exit(t) PROVE IInv'
<1>1. pc[t] \in {"failed", "loop"} /\ Leave(t, "exited") /\ i' = i
  BY DEF Exit, At
<1>2. "exited" \in Gone /\ pc[t] \notin Gone /\ pc[t] \notin Preset
  BY <1>1 DEF Gone, Preset, Opening
<1>3. QED
  BY <1>1, <1>2, LeaveStep

\* A process that is killed preserves the invariant.
LEMMA KillStep == ASSUME IInv, NEW t \in Sides, Kill(t) PROVE IInv'
<1> DEFINE how == IF pc[t] \in Setup THEN "aborted" ELSE "exited"
<1>1. pc[t] \notin Gone /\ Leave(t, how) /\ i' = i
  BY DEF Kill
<1>2. how \in Gone /\ (pc[t] \in Preset => how = "aborted")
  BY DEF Gone, Preset, Opening, Setup
<1> HIDE DEF how
<1>3. QED
  BY <1>1, <1>2, LeaveStep

\* What the producer does alone, before and after its loop.
LEMMA ProducerStep ==
    ASSUME IInv, StartProducer \/ Pause \/ EndPause
    PROVE  IInv'
<1>1. /\ Shape /\ MutexState /\ TokenState /\ EarlyState /\ UNCHANGED sems
      /\ i' = i /\ i' \in [Sides -> Int] /\ pc \in [Sides -> Labels]
      /\ ~Asleep("Producer") /\ "Producer" \in Sides
  BY DEF IInv, StartProducer, Pause, EndPause, At, Shape, Sides
<1>2. PICK to \in {"openEmpty", "pause", "destroyEmpty"} :
        /\ pc' = [pc EXCEPT !["Producer"] = to]
        /\ to = "openEmpty" => pc["Producer"] = "start"
        /\ to = "pause" => pc["Producer"] = "loop" /\ i["Producer"] = NLOOPS
        /\ to = "destroyEmpty" => pc["Producer"] = "pause"
  BY DEF StartProducer, Pause, EndPause, At, Goto
<1>3. /\ to \in Labels /\ to \notin InMutex /\ pc["Producer"] \notin InMutex
      /\ to \in Opening \cup {"start"} => pc["Producer"] = "start"
      /\ pc["Producer"] = "pause" => pc["Producer"] \in Late
      /\ to = "openEmpty" => to \notin Late
  BY <1>2 DEF Labels, Setup, InMutex, Opening, Late
<1>4. Shape' /\ MutexState' /\ TokenState'
  BY <1>1, <1>2, <1>3, LocalStep
<1>5. pc["Consumer"] \in Preset => to \notin Late /\ i'["Producer"] = 0
  <2>1. NLOOPS # 0
    BY BufferAssumption
  <2>2. QED
    BY <1>1, <1>2, <1>3, <2>1 DEF EarlyState
<1>6. EarlyState'
  BY <1>1, <1>2, <1>5, EarlyStep
<1>7. QED
  BY <1>4, <1>6 DEF IInv

\* Only a side on its way into the buffer sleeps on the mutex.
LEMMA MutexSleepers ==
    ASSUME MutexState
    PROVE  \A t \in Sleepers(sems["Mutex"]) : pc[t] = "access"
<1>1. CASE Missing
  <2>1. ASSUME NEW v, NEW undo PROVE Removed(v, undo).queue = << >>
    BY DEF Sem, Removed
  <2>2. sems["Mutex"].queue = << >>
    BY <2>1, <1>1 DEF Missing
  <2>3. QED
    BY <2>2, SleepersOf DEF Sides
<1>2. CASE Unset
  BY <1>2, MutexShape DEF Unset, Sides
<1>3. CASE Free
  BY <1>3, MutexShape DEF Free, Sides
<1>4. ASSUME NEW h \in Sides, Held(h)
      PROVE  \A t \in Sleepers(sems["Mutex"]) : pc[t] = "access"
  <2>1. Other(h) \in Sides
    BY DEF Other, Sides
  <2>2. CASE sems["Mutex"] = MutexIs(0, << >>, h)
    <3>1. Sleepers(sems["Mutex"]) = {}
      BY <2>2, MutexShape
    <3>2. QED
      BY <3>1
  <2>3. CASE sems["Mutex"] = MutexIs(0, <<Other(h)>>, h) /\ pc[Other(h)] = "access"
    <3>1. Sleepers(sems["Mutex"]) = {Other(h)}
      BY <2>1, <2>3, MutexShape
    <3>2. QED
      BY <2>3, <3>1
  <2>4. QED
    BY <1>4, <2>2, <2>3 DEF Held
<1>5. QED
  BY <1>1, <1>2, <1>3, <1>4 DEF MutexState, Sides

\* The mutex is removed when the consumer may sleep on it, the others when it may
\* sleep on them.
LEMMA DestroyStep == ASSUME IInv, DestroyAll PROVE IInv'
<1>1. /\ Shape /\ MutexState /\ TokenState /\ EarlyState
      /\ i' = i /\ i' \in [Sides -> Int] /\ pc \in [Sides -> Labels]
      /\ "Producer" \in Sides /\ "Consumer" \in Sides
  BY DEF IInv, DestroyAll, Shape, Sides
<1>2. PICK s \in Semaphores, to \in {"destroyMutex", "destroyFull", "exited"} :
        /\ ~Asleep("Producer")
        /\ s = "Empty" => pc["Producer"] = "destroyEmpty" /\ to = "destroyMutex"
        /\ s = "Mutex" => pc["Producer"] = "destroyMutex" /\ to = "destroyFull"
        /\ s = "Full" => pc["Producer"] = "destroyFull" /\ to = "exited"
        /\ sems' = [sems EXCEPT ![s] = DestroyOp(sems[s])]
        /\ pc' = [q \in Sides |-> IF q = "Producer" THEN to
                                  ELSE IF q \in Sleepers(sems[s]) THEN "failed"
                                  ELSE pc[q]]
  BY DEF DestroyAll, SemDestroy, At, Semaphores
<1>3. /\ "Producer" \notin Sleepers(sems["Mutex"])
      /\ sems[WaitsFor["Producer"]].queue = << >>
  BY <1>1, <1>2, Awake
<1>4. /\ to \in Labels /\ "failed" \in Labels /\ to \notin InMutex
      /\ to \notin Opening \cup {"start"}
      /\ pc["Producer"] \in Late /\ pc["Producer"] \notin InMutex
      /\ "failed" \notin Preset
  BY <1>2 DEF Labels, Gone, InMutex, Opening, Late, Preset, Semaphores
<1>5. Shape'
  BY <1>1, <1>2, <1>4 DEF Shape
<1>6. /\ sems'[s] = DestroyOp(sems[s])
      /\ \A r \in Semaphores : r # s => sems'[r] = sems[r]
  BY <1>1, <1>2 DEF Shape
<1>7. pc["Consumer"] \notin Preset
  BY <1>1, <1>4 DEF EarlyState
<1>8. /\ pc'["Producer"] = to
      /\ pc'["Consumer"] = IF "Consumer" \in Sleepers(sems[s]) THEN "failed"
                           ELSE pc["Consumer"]
  BY <1>1, <1>2
<1>9. EarlyState'
  BY <1>4, <1>7, <1>8 DEF EarlyState, Preset, Opening
<1>10. CASE s = "Mutex"
  <2>1. MutexState'
    BY <1>1, <1>2, <1>6, <1>10, DestroyMove
  <2>2. \A u \in Sides : sems'[WaitsFor[u]] = sems[WaitsFor[u]]
    BY <1>6, <1>10, Tokens
  <2>3. "Consumer" \in Sleepers(sems["Mutex"]) => pc["Consumer"] = "access"
    BY <1>1, MutexSleepers
  <2>4. TokenState'
    BY <1>1, <1>3, <1>8, <1>10, <2>2, <2>3, Tokens DEF TokenState, Sides
  <2>5. QED
    BY <1>5, <1>9, <2>1, <2>4 DEF IInv
<1>11. CASE s # "Mutex"
  <2>1. PICK u \in Sides : s = WaitsFor[u]
    BY <1>11, Tokens DEF Semaphores, Sides
  <2>2. \A q \in Sleepers(sems[s]) : q = u /\ pc[q] = "waitMutex"
    BY <1>1, <2>1, TokenSleepers
  <2>3. sems'["Mutex"] = sems["Mutex"]
    BY <1>6, <1>11, Tokens
  <2>4. MutexState'
    BY <1>1, <1>2, <1>3, <1>4, <2>2, <2>3, EndMove
  <2>5. IsToken(u, sems'[WaitsFor[u]]) /\ sems'[WaitsFor[u]].queue = << >>
    BY <1>1, <1>6, <2>1, TokenDestroy DEF TokenState
  <2>6. ASSUME NEW v \in Sides, v # u
        PROVE  /\ IsToken(v, sems'[WaitsFor[v]])
               /\ sems'[WaitsFor[v]].queue # << >> => pc'[v] = "waitMutex"
    <3>1. sems'[WaitsFor[v]] = sems[WaitsFor[v]]
      BY <1>6, <2>1, <2>6, Tokens
    <3>2. v \notin Sleepers(sems[s])
      BY <2>2, <2>6
    <3>3. v # "Producer" => pc'[v] = pc[v]
      BY <1>2, <3>2
    <3>4. QED
      BY <1>1, <1>3, <3>1, <3>3 DEF TokenState
  <2>7. TokenState'
    BY <2>5, <2>6 DEF TokenState
  <2>8. QED
    BY <1>5, <1>9, <2>4, <2>7 DEF IInv
<1>12. QED
  BY <1>10, <1>11
------------------------------------------------------------------------------
(* The theorems *)

\* The invariant holds at first.
LEMMA Initial == Init => IInv
<1> SUFFICES ASSUME Init PROVE IInv
  OBVIOUS
<1>1. /\ pc = [Producer |-> "start", Consumer |-> "openEmpty"]
      /\ i = [t \in Sides |-> 0]
      /\ sems = [s \in Semaphores |-> Absent]
  BY DEF Init
<1>2. Absent = Removed(0, Zero) /\ Zero \in [Sides -> Int]
  BY DEF Absent, Removed, Sem, Zero
<1>3. pc \in [Sides -> Labels]
  BY <1>1 DEF Sides, Labels, Setup
<1>4. Shape
  BY <1>1, <1>3 DEF Shape
<1>5. Missing
  BY <1>1, <1>2, Tokens DEF Missing, InMutex, Opening
<1>6. \A t \in Sides : IsToken(t, Absent) /\ Absent.queue = << >>
  <2> DEFINE no == FALSE
  <2>1. Absent = Sem(no, 0, << >>, Zero) /\ 0 \in Nat
    BY <1>2 DEF Removed
  <2> HIDE DEF no
  <2>2. QED
    BY <1>2, <2>1, TokenIdle
<1>7. TokenState
  BY <1>1, <1>6, Tokens DEF TokenState
<1>8. EarlyState
  BY <1>1 DEF EarlyState, Late, Sides
<1>9. QED
  BY <1>4, <1>5, <1>7, <1>8 DEF IInv, MutexState

\* Every step preserves the invariant.
LEMMA Consecution == IInv /\ [Next]_vars => IInv'
<1> SUFFICES ASSUME IInv, [Next]_vars PROVE IInv'
  OBVIOUS
<1>1. CASE UNCHANGED vars
  BY <1>1 DEF vars, IInv, Shape, MutexState, Missing, Unset, Free, Held, TokenState,
              EarlyState
<1>2. ASSUME NEW t \in Sides, Side(t) PROVE IInv'
  BY <1>2, OpenStep, WaitTokenStep, WaitMutexStep, InsideStep, PostMutexStep,
     PostTokenStep, ExitStep DEF Side
<1>3. CASE Producer
  BY <1>2, <1>3, ProducerStep, DestroyStep DEF Producer, Sides
<1>4. CASE Consumer
  BY <1>2, <1>4, StartStep DEF Consumer, Sides
<1>5. ASSUME NEW t \in Sides, Kill(t) PROVE IInv'
  BY <1>5, KillStep
<1>6. CASE Stopped
  BY <1>1, <1>6 DEF Stopped
<1>7. QED
  BY <1>1, <1>3, <1>4, <1>5, <1>6 DEF Next

\* Where the mutex is, in every state: not there, without a value, free, or held by
\* one live process that the other may wait for.
THEOREM Invariance == Spec => []IInv
<1>1. Init => IInv
  BY Initial
<1>2. IInv /\ [Next]_vars => IInv'
  BY Consecution
<1>3. QED
  BY <1>1, <1>2, PTL DEF Spec

\* SEM_UNDO (semlib.c:38,64) keeps the mutex: whoever is started first, is killed or
\* destroys the semaphores early, never are both processes in the buffer, and once
\* the mutex has its value it is free or held by a live process.
THEOREM MutexKept == Spec => []MutexReturned
<1>1. IInv => MutexReturned
  <2> SUFFICES ASSUME IInv PROVE MutexReturned
    OBVIOUS
  <2>1. Shape /\ MutexState /\ TokenState
    BY DEF IInv
  <2>2. ASSUME NEW t \in Sides
        PROVE  /\ pc[t] \notin InMutex => Holds(t) = 0
               /\ t \in Sleepers(sems["Mutex"]) => Holds(t) = 0
               /\ pc[t] \in InMutex /\ t \notin Sleepers(sems["Mutex"]) => Holds(t) = 1
    <3>1. t \in Sleepers(sems["Mutex"]) => Asleep(t)
      BY Tokens DEF Asleep
    <3>2. pc[t] \in InMutex /\ t \notin Sleepers(sems["Mutex"]) => ~Asleep(t)
      <4>1. \A s \in Semaphores : s = "Mutex" \/ \E u \in Sides : s = WaitsFor[u]
        BY Tokens DEF Semaphores, Sides
      <4>2. "waitMutex" \notin InMutex
        BY DEF InMutex
      <4>3. QED
        BY <2>1, <4>1, <4>2, TokenSleepers DEF Asleep
    <3>3. QED
      BY <3>1, <3>2 DEF Holds, Bit
  <2>3. "Producer" \in Sides /\ "Consumer" \in Sides
    BY DEF Sides
  <2>4. Setup \ {"setFull"} = Preset
    BY DEF Setup, Preset, Opening
  <2>5. CASE Missing
    <3>1. Holds("Producer") = 0 /\ Holds("Consumer") \in {0, 1}
      BY <2>2, <2>3, <2>5 DEF Missing
    <3>2. ~sems["Mutex"].exists
      BY <2>5, Absence
    <3>3. QED
      BY <3>1, <3>2 DEF MutexReturned
  <2>6. CASE Unset
    <3>1. pc["Consumer"] \notin InMutex
      BY <2>6 DEF Unset, Preset, Opening, InMutex
    <3>2. Holds("Producer") = 0 /\ Holds("Consumer") = 0
      BY <2>2, <2>3, <2>6, <3>1, MutexShape DEF Unset
    <3>3. QED
      BY <2>4, <2>6, <3>2 DEF Unset, MutexReturned
  <2>7. CASE Free
    <3>1. Holds("Producer") = 0 /\ Holds("Consumer") = 0
      BY <2>2, <2>3, <2>7 DEF Free
    <3>2. sems["Mutex"].val = 1
      BY <2>7, Fields DEF Free, MutexIs, Sem
    <3>3. QED
      BY <3>1, <3>2 DEF MutexReturned
  <2>8. ASSUME NEW h \in Sides, Held(h) PROVE MutexReturned
    <3>1. Other(h) \in Sides /\ Other(h) # h /\ Other(Other(h)) = h
      BY DEF Sides, Other
    <3>2. sems["Mutex"].val = 0
      BY <2>8 DEF Held, MutexIs, Sem
    <3>3. h \notin Sleepers(sems["Mutex"])
      <4>1. CASE sems["Mutex"] = MutexIs(0, << >>, h)
        BY <4>1, MutexShape
      <4>2. CASE sems["Mutex"] = MutexIs(0, <<Other(h)>>, h)
        BY <4>2, <3>1, MutexShape
      <4>3. QED
        BY <2>8, <4>1, <4>2 DEF Held
    <3>4. Holds(h) = 1
      BY <2>2, <2>8, <3>3 DEF Held
    <3>5. Holds(Other(h)) = 0
      BY <2>2, <2>8, <3>1, MutexShape DEF Held
    <3>6. Holds("Producer") + Holds("Consumer") = 1
      BY <3>1, <3>4, <3>5 DEF Sides, Other
    <3>7. QED
      BY <3>2, <3>4, <3>5, <3>6 DEF MutexReturned, Sides, Other
  <2>9. QED
    BY <2>1, <2>5, <2>6, <2>7, <2>8 DEF MutexState, Sides
<1>2. QED
  BY <1>1, Invariance, PTL
------------------------------------------------------------------------------
(* What the two semaphores of tokens say of the buffer: the invariant *)

\* Permits that are free, less those that are waited for.
Balance(sem) == sem.val - Len(sem.queue)

Claiming == {"waitMutex", "access"}                        \* has a token
Giving   == {"load", "store", "postMutex", "postToken"}    \* has one to post

\* A semaphore that only t waits for, and only if there is no permit, and whose
\* permits the other process has given and would take back by exiting.
SoundToken(t, sem) == /\ IsToken(t, sem)
                      /\ sem.queue # << >> => sem.val = 0
                      /\ sem.undo[Other(t)] <= 0

Sound == \A t \in Sides : SoundToken(t, sems[WaitsFor[t]])

Claims(l) == IF l \in Claiming THEN 1 ELSE 0
Gives(l) == IF l \in Giving THEN 1 ELSE 0

\* The permits for t: free, taken by t, or about to be posted by the other.
Total(t) == Balance(sems[WaitsFor[t]]) + Claims(pc[t]) + Gives(pc[Other(t)])

\* There are never more permits than slots, or items, for a process that lives.
Room  == pc["Producer"] \notin Gone => Total("Producer") + Items <= MAX_BUF
Stock == pc["Consumer"] \notin Gone => Total("Consumer") <= Items

\* Until Empty has its value nothing is produced, and nobody has a permit for it.
Unvalued == Opening \cup {"setEmpty"}
Unstarted == pc["Consumer"] \in Unvalued /\ pc["Producer"] \notin Gone
                => /\ produced = 0 /\ pc["Producer"] # "access"
                   /\ Total("Producer") = 0

\* How far the producer is, when it is at l.
Reached(l) == /\ l \in Claiming => produced < NLOOPS
              /\ l \in Giving => produced = i["Producer"] + 1
              /\ l \notin Giving \cup Gone \cup {"failed"} => produced = i["Producer"]
Progress == /\ produced \in 0..NLOOPS
            /\ Reached(pc["Producer"])

Pools == Sound /\ Room /\ Stock /\ Unstarted /\ Progress

Ring == /\ Slotted /\ Window /\ InOrder
        /\ Items \in 0..MAX_BUF

BInv == IInv /\ Pools /\ Ring
------------------------------------------------------------------------------
(* What the calls do to the balance of a semaphore *)

\* The fields of a semaphore of tokens.
LEMMA TokenFields ==
    ASSUME NEW t \in Sides, NEW sem, IsToken(t, sem)
    PROVE  /\ sem.val \in Nat /\ sem.undo \in [Sides -> Int] /\ Balance(sem) \in Int
           /\ \/ sem.queue = << >> /\ Len(sem.queue) = 0 /\ Balance(sem) = sem.val
              \/ sem.queue = <<t>> /\ Len(sem.queue) = 1 /\ Balance(sem) = sem.val - 1
                 /\ sem.queue # << >> /\ sem.exists
<1>1. /\ sem.val \in Nat /\ sem.undo \in [Sides -> Int]
      /\ sem.queue = << >> \/ (sem.queue = <<t>> /\ sem.exists)
  BY DEF IsToken
<1>2. CASE sem.queue = << >>
  <2>1. Len(sem.queue) = 0
    BY <1>2, Queues
  <2>2. Balance(sem) = sem.val - 0
    BY <2>1 DEF Balance
  <2>3. QED
    BY <1>1, <1>2, <2>1, <2>2
<1>3. CASE sem.queue = <<t>> /\ sem.exists
  <2>1. Len(sem.queue) = 1 /\ sem.queue # << >>
    BY <1>3, Queues
  <2>2. Balance(sem) = sem.val - 1
    BY <2>1 DEF Balance
  <2>3. QED
    BY <1>1, <1>3, <2>1, <2>2
<1>4. QED
  BY <1>1, <1>2, <1>3

\* The other of two processes.
LEMMA Others == /\ Other("Producer") = "Consumer" /\ Other("Consumer") = "Producer"
                /\ \A t \in Sides : /\ Other(t) \in Sides /\ Other(t) # t
                                    /\ Other(Other(t)) = t
                                    /\ Posts[t] = WaitsFor[Other(t)]
                                    /\ \A u \in Sides : u = t \/ u = Other(t)
  BY DEF Other, Sides, Posts, WaitsFor

\* The adjustments of a process that a call is not about.
LEMMA UndoOfOther ==
    ASSUME NEW undo \in [Sides -> Int], NEW p \in Sides
    PROVE  /\ \A u \in Sides : u # p => /\ Took(undo, p)[u] = undo[u]
                                        /\ Gave(undo, p)[u] = undo[u]
                                        /\ Cleared(undo, p)[u] = undo[u]
           /\ Gave(undo, p)[p] = undo[p] - 1
           /\ Cleared(undo, p)[p] = 0
           /\ \A u \in Sides : Zero[u] = 0
  BY DEF Took, Gave, Cleared, Zero

\* What the call leaves, besides a semaphore of tokens.
Settling(t, r, balance) == /\ r.queue # << >> => r.val = 0
                           /\ r.undo[Other(t)] <= 0
                           /\ Balance(r) = balance

\* A semaphore that has a balance is sound.
LEMMA Sounder == ASSUME NEW t \in Sides, NEW r, NEW b, IsToken(t, r), Settling(t, r, b)
                 PROVE  SoundToken(t, r) /\ Balance(r) = b
  BY DEF SoundToken, Settling

\* The balance of a semaphore nobody sleeps on, and of one its waiter sleeps on.
LEMMA Plain ==
    ASSUME NEW t \in Sides, NEW e, NEW v \in Int, NEW y, NEW r, y[Other(t)] <= 0
    PROVE  /\ r = Sem(e, v, << >>, y) => Settling(t, r, v)
           /\ r = Sem(e, v, <<t>>, y) /\ v = 0 => Settling(t, r, v - 1)
<1>1. ASSUME r = Sem(e, v, << >>, y) PROVE Settling(t, r, v)
  <2>1. r.val = v /\ r.queue = << >> /\ r.undo = y
    BY <1>1, Fields
  <2>2. Len(r.queue) = 0
    BY <2>1, Queues
  <2>3. QED
    BY <2>1, <2>2 DEF Settling, Balance
<1>2. ASSUME r = Sem(e, v, <<t>>, y), v = 0 PROVE Settling(t, r, v - 1)
  <2>1. r.val = v /\ r.queue = <<t>> /\ r.undo = y
    BY <1>2, Fields
  <2>2. Len(r.queue) = 1
    BY <2>1, Queues
  <2>3. QED
    BY <1>2, <2>1, <2>2 DEF Settling, Balance
<1>3. QED
  BY <1>1, <1>2

\* Settle lets a sleeper go on with a permit, if there is one: the balance stays.
LEMMA SoundSettle ==
    ASSUME NEW t \in Sides, NEW e, NEW w \in Nat, NEW q, NEW y \in [Sides -> Int],
           q = << >> \/ q = <<t>>, y[Other(t)] <= 0, NEW r,
           r = Settle(Sem(e, w, q, y))
    PROVE  Settling(t, r, w - Len(q))
<1>1. Len(<< >>) = 0 /\ Len(<<t>>) = 1 /\ w - 0 = w /\ w \in Int
  BY Queues
<1>2. CASE q = << >>
  <2>1. r = Sem(e, w, << >>, y)
    BY <1>2, Settled
  <2>2. Settling(t, r, w)
    BY <1>1, <2>1, Plain
  <2>3. w - Len(q) = w
    BY <1>1, <1>2
  <2>4. QED
    BY <2>2, <2>3
<1>3. CASE q = <<t>> /\ w = 0
  <2>1. r = Sem(e, w, <<t>>, y)
    BY <1>3, Settled
  <2>2. Settling(t, r, w - 1)
    BY <1>1, <1>3, <2>1, Plain
  <2>3. w - Len(q) = w - 1
    BY <1>1, <1>3
  <2>4. QED
    BY <2>2, <2>3
<1>4. CASE q = <<t>> /\ w > 0
  <2>1. r = Sem(e, w - 1, << >>, Took(y, t))
    BY <1>4, Settled
  <2>2. Took(y, t)[Other(t)] <= 0
    BY UndoOfOther, Others
  <2>3. w - 1 \in Int
    OBVIOUS
  <2>4. Settling(t, r, w - 1)
    BY <2>1, <2>2, <2>3, Plain
  <2>5. w - Len(q) = w - 1
    BY <1>1, <1>4
  <2>6. QED
    BY <2>4, <2>5
<1>5. QED
  BY <1>2, <1>3, <1>4

\* semWait takes a permit, or waits for one.
LEMMA SoundWait ==
    ASSUME NEW t \in Sides, NEW sem, SoundToken(t, sem), sem.exists,
           sem.queue = << >>
    PROVE  /\ SoundToken(t, WaitOp(sem, t)) /\ WaitOp(sem, t).exists
           /\ Balance(WaitOp(sem, t)) = Balance(sem) - 1
<1>1. PICK e, v, undo :
        /\ sem = Sem(e, v, << >>, undo) /\ v \in Nat /\ undo \in [Sides -> Int]
        /\ undo[Other(t)] <= 0 /\ sem.val = v
  BY DEF SoundToken, IsToken
<1>2. IsToken(t, WaitOp(sem, t)) /\ WaitOp(sem, t).exists
  BY TokenWait DEF SoundToken
<1>3. Balance(sem) = v
  <2>1. IsToken(t, sem) /\ ~(sem.queue # << >>)
    BY DEF SoundToken
  <2>2. QED
    BY <1>1, <2>1, TokenFields
<1>4. CASE v > 0
  <2>1. WaitOp(sem, t) = Sem(e, v - 1, << >>, Took(undo, t))
    BY <1>1, <1>4, TakeCall
  <2>2. Took(undo, t)[Other(t)] <= 0
    BY <1>1, UndoOfOther, Others
  <2>3. Settling(t, WaitOp(sem, t), v - 1)
    <3>1. v - 1 \in Int
      BY <1>1
    <3>2. QED
      BY <2>1, <2>2, <3>1, Plain
  <2>4. QED
    BY <1>2, <1>3, <2>3, Sounder
<1>5. CASE v = 0
  <2>1. WaitOp(sem, t) = Sem(e, 0, Append(<< >>, t), undo)
    <3>1. sem = Sem(e, 0, << >>, undo)
      BY <1>1, <1>5
    <3>2. undo \in [Sides -> Int]
      BY <1>1
    <3>3. \A q : WaitOp(Sem(e, 0, q, undo), t) = Sem(e, 0, Append(q, t), undo)
      BY <3>2, SleepCall
    <3>4. QED
      BY <3>1, <3>3
  <2>2. WaitOp(sem, t) = Sem(e, v, <<t>>, undo)
    BY <1>5, <2>1, Queues
  <2>3. Settling(t, WaitOp(sem, t), v - 1)
    <3>1. v \in Int
      BY <1>1
    <3>2. QED
      BY <1>1, <1>5, <2>2, <3>1, Plain
  <2>4. QED
    BY <1>2, <1>3, <2>3, Sounder
<1>6. QED
  BY <1>1, <1>4, <1>5

\* The parts of a sound semaphore.
LEMMA SoundParts ==
    ASSUME NEW t \in Sides, NEW sem, SoundToken(t, sem)
    PROVE  \E e, v, q, undo :
             /\ sem = Sem(e, v, q, undo) /\ v \in Nat /\ undo \in [Sides -> Int]
             /\ q = << >> \/ q = <<t>>
             /\ sem.val = v /\ sem.queue = q /\ sem.undo = undo
             /\ undo[Other(t)] <= 0 /\ Len(q) \in 0..1 /\ Balance(sem) = v - Len(q)
<1>1. IsToken(t, sem) /\ sem.undo[Other(t)] <= 0
  BY DEF SoundToken
<1>2. Len(sem.queue) \in 0..1
  BY <1>1, TokenFields
<1>3. QED
  BY <1>1, <1>2 DEF IsToken, Balance

\* semPost by the other adds a permit.
LEMMA SoundPost ==
    ASSUME NEW t \in Sides, NEW sem, SoundToken(t, sem), NEW p \in Sides, p # t
    PROVE  /\ SoundToken(t, PostOp(sem, p)) /\ PostOp(sem, p).exists = sem.exists
           /\ Balance(PostOp(sem, p)) = Balance(sem) + 1
<1>1. PICK e, v, q, undo :
        /\ sem = Sem(e, v, q, undo) /\ v \in Nat /\ undo \in [Sides -> Int]
        /\ q = << >> \/ q = <<t>>
        /\ undo[Other(t)] <= 0 /\ Len(q) \in 0..1 /\ Balance(sem) = v - Len(q)
  BY SoundParts
<1>2. PostOp(sem, p) = Settle(Sem(e, v + 1, q, Gave(undo, p)))
  BY <1>1, PostCall
<1>3. v + 1 \in Nat /\ Gave(undo, p) \in [Sides -> Int] /\ Gave(undo, p)[Other(t)] <= 0
  <2>1. p = Other(t) /\ undo[p] \in Int
    BY <1>1, Others
  <2>2. Gave(undo, p)[p] = undo[p] - 1
    BY <1>1, UndoOfOther
  <2>3. Gave(undo, p)[Other(t)] <= 0
    BY <1>1, <2>1, <2>2
  <2>4. QED
    BY <1>1, <2>3, UndoTypes
<1>4. Settling(t, PostOp(sem, p), v + 1 - Len(q))
  BY <1>1, <1>2, <1>3, SoundSettle
<1>5. Kept(t, sem, PostOp(sem, p))
  BY TokenPost DEF SoundToken
<1>6. v + 1 - Len(q) = Balance(sem) + 1
  BY <1>1
<1>7. QED
  BY <1>4, <1>5, <1>6, Sounder DEF Kept

\* semInitValue sets the permits.
LEMMA SoundSet ==
    ASSUME NEW t \in Sides, NEW sem, SoundToken(t, sem), NEW w \in Nat
    PROVE  /\ SoundToken(t, SetValOp(sem, w)) /\ SetValOp(sem, w).exists = sem.exists
           /\ Balance(SetValOp(sem, w)) = w - Len(sem.queue)
<1>1. PICK e, v, q, undo :
        /\ sem = Sem(e, v, q, undo) /\ v \in Nat /\ undo \in [Sides -> Int]
        /\ q = << >> \/ q = <<t>>
        /\ sem.queue = q
  BY SoundParts
<1>2. SetValOp(sem, w) = Settle(Sem(e, w, q, Zero))
  BY <1>1, SetCall
<1>3. Zero \in [Sides -> Int] /\ Zero[Other(t)] <= 0
  BY Others DEF Zero
<1>4. Settling(t, SetValOp(sem, w), w - Len(q))
  BY <1>1, <1>2, <1>3, SoundSettle
<1>5. Kept(t, sem, SetValOp(sem, w))
  BY TokenSet DEF SoundToken
<1>6. QED
  BY <1>1, <1>4, <1>5, Sounder DEF Kept

\* semInit makes no permits.
LEMMA SoundCreate ==
    ASSUME NEW t \in Sides, NEW sem, SoundToken(t, sem)
    PROVE  /\ SoundToken(t, CreateOp(sem)) /\ CreateOp(sem).exists
           /\ sem.exists => CreateOp(sem) = sem
           /\ ~sem.exists => Balance(CreateOp(sem)) = 0 /\ sem.queue = << >>
<1>1. CASE sem.exists
  BY <1>1, CreateCall
<1>2. CASE ~sem.exists
  <2>1. PICK e : CreateOp(sem) = Sem(e, 0, << >>, Zero)
    BY <1>2, CreateCall, Zenon
  <2>2. IsToken(t, CreateOp(sem)) /\ CreateOp(sem).exists
    BY TokenCreate DEF SoundToken
  <2>3. Zero[Other(t)] <= 0 /\ 0 \in Int
    BY Others DEF Zero
  <2>4. Settling(t, CreateOp(sem), 0)
    BY <2>1, <2>3, Plain
  <2>5. sem.queue = << >>
    BY <1>2 DEF SoundToken, IsToken
  <2>6. SoundToken(t, CreateOp(sem)) /\ Balance(CreateOp(sem)) = 0
    BY <2>2, <2>4, Sounder
  <2>7. QED
    BY <1>2, <2>2, <2>5, <2>6
<1>3. QED
  BY <1>1, <1>2

\* semDestroy only wakes the waiter.
LEMMA SoundDestroy ==
    ASSUME NEW t \in Sides, NEW sem, SoundToken(t, sem)
    PROVE  /\ SoundToken(t, DestroyOp(sem)) /\ DestroyOp(sem).queue = << >>
           /\ Balance(DestroyOp(sem)) = sem.val
<1>1. PICK e, v, q, undo :
        /\ sem = Sem(e, v, q, undo) /\ v \in Nat /\ undo \in [Sides -> Int]
        /\ sem.val = v /\ undo[Other(t)] <= 0
  BY SoundParts
<1>2. PICK no : DestroyOp(sem) = Sem(no, v, << >>, undo)
  <2>1. DestroyOp(sem) = Removed(v, undo)
    BY <1>1, Destroyed
  <2>2. QED
    BY <2>1, Zenon DEF Removed
<1>3. Settling(t, DestroyOp(sem), v)
  <2>1. v \in Int
    BY <1>1
  <2>2. QED
    BY <1>1, <1>2, <2>1, Plain
<1>4. IsToken(t, DestroyOp(sem)) /\ DestroyOp(sem).queue = << >>
  BY TokenDestroy DEF SoundToken
<1>5. QED
  BY <1>1, <1>3, <1>4, Sounder

\* The exit of the other takes back what it gave.
LEMMA SoundExit ==
    ASSUME NEW t \in Sides, NEW sem, SoundToken(t, sem), NEW p \in Sides
    PROVE  /\ SoundToken(t, ExitOp(sem, p)) /\ ExitOp(sem, p).exists = sem.exists
           /\ p # t => Balance(ExitOp(sem, p)) <= Balance(sem)
<1>1. PICK e, v, q, undo :
        /\ sem = Sem(e, v, q, undo) /\ v \in Nat /\ undo \in [Sides -> Int]
        /\ q = << >> \/ q = <<t>>
        /\ undo[Other(t)] <= 0 /\ Len(q) \in 0..1 /\ Balance(sem) = v - Len(q)
  BY SoundParts
<1>2. Kept(t, sem, ExitOp(sem, p))
  BY TokenExit DEF SoundToken
<1>3. CASE ~sem.exists
  <2>1. ExitOp(sem, p) = sem
    BY <1>3 DEF ExitOp
  <2>2. Balance(sem) \in Int
    BY <1>1
  <2>3. QED
    BY <2>1, <2>2
<1>4. CASE sem.exists
  <2> DEFINE back == Back(v + undo[p])
             clear == Cleared(undo, p)
             rest == Without(q, p)
  <2>1. ExitOp(sem, p) = Settle(Sem(e, back, rest, clear))
    BY <1>1, <1>4, ExitExisting
  <2>2. back \in Nat /\ (p # t => back <= v)
    <3>1. undo[p] \in Int /\ (p # t => p = Other(t))
      BY <1>1, Others
    <3>2. QED
      BY <1>1, <3>1 DEF Back
  <2>3. clear \in [Sides -> Int]
    BY <1>1, UndoTypes
  <2>4. clear[Other(t)] <= 0
    <3>1. clear[Other(t)] = 0 \/ clear[Other(t)] = undo[Other(t)]
      BY <1>1, UndoOfOther, Others
    <3>2. QED
      BY <1>1, <3>1
  <2>5. /\ rest = << >> \/ rest = <<t>>
        /\ p # t => rest = q
    BY <1>1, Leaving
  <2> HIDE DEF back, clear, rest
  <2>6. Settling(t, ExitOp(sem, p), back - Len(rest))
    BY <2>1, <2>2, <2>3, <2>4, <2>5, SoundSettle
  <2>7. p # t => back - Len(rest) <= Balance(sem)
    BY <1>1, <2>2, <2>5
  <2>8. QED
    BY <1>2, <2>6, <2>7, Sounder DEF Kept
<1>5. QED
  BY <1>3, <1>4
------------------------------------------------------------------------------
(* What the steps do to the totals *)

\* A call on a semaphore of tokens leaves the other one, one on the mutex both.
LEMMA TokenFrame ==
    ASSUME Shape, NEW after
    PROVE  /\ \A u \in Sides : sems' = [sems EXCEPT ![WaitsFor[u]] = after] =>
                 /\ sems'[WaitsFor[u]] = after
                 /\ sems'[WaitsFor[Other(u)]] = sems[WaitsFor[Other(u)]]
           /\ sems' = [sems EXCEPT !["Mutex"] = after] =>
                 \A u \in Sides : sems'[WaitsFor[u]] = sems[WaitsFor[u]]
<1>1. sems = [s \in Semaphores |-> sems[s]]
  BY DEF Shape
<1>2. \A u \in Sides : /\ WaitsFor[u] \in Semaphores /\ WaitsFor[Other(u)] \in Semaphores
                       /\ WaitsFor[u] # WaitsFor[Other(u)] /\ WaitsFor[u] # "Mutex"
  BY Tokens, Others
<1>3. QED
  BY <1>1, <1>2, Tokens

\* The semaphores of tokens after a call that leaves a sound one.
LEMMA SoundAfter ==
    ASSUME Shape, Sound, NEW u \in Sides, NEW after, SoundToken(u, after),
           sems' = [sems EXCEPT ![WaitsFor[u]] = after]
    PROVE  Sound'
<1>1. \A v \in Sides : v = u \/ v = Other(u)
  BY Others
<1>2. Other(u) \in Sides
  BY Others
<1>3. SoundToken(Other(u), sems[WaitsFor[Other(u)]])
  BY <1>2 DEF Sound
<1>4. /\ sems'[WaitsFor[u]] = after
      /\ sems'[WaitsFor[Other(u)]] = sems[WaitsFor[Other(u)]]
  BY TokenFrame
<1>5. ASSUME NEW v \in Sides PROVE SoundToken(v, sems'[WaitsFor[v]])
  <2>1. CASE v = u
    BY <1>4, <2>1
  <2>2. CASE v = Other(u)
    BY <1>3, <1>4, <2>2
  <2>3. QED
    BY <1>1, <2>1, <2>2
<1>6. QED
  BY <1>5 DEF Sound

\* A balance is a number, and not below 0 if nobody waits.
LEMMA Balances ==
    ASSUME Sound, NEW t \in Sides
    PROVE  /\ Balance(sems[WaitsFor[t]]) \in Int
           /\ sems[WaitsFor[t]].queue = << >> => Balance(sems[WaitsFor[t]]) >= 0
           /\ ~sems[WaitsFor[t]].exists => Balance(sems[WaitsFor[t]]) >= 0
<1>1. IsToken(t, sems[WaitsFor[t]])
  BY DEF Sound, SoundToken
<1>2. QED
  BY <1>1, TokenFields

\* The parts that the place of a process has in the totals.
LEMMA Shares == \A l : Claims(l) \in 0..1 /\ Gives(l) \in 0..1
                       /\ (l \notin Claiming => Claims(l) = 0)
                       /\ (l \in Claiming => Claims(l) = 1)
                       /\ (l \notin Giving => Gives(l) = 0)
                       /\ (l \in Giving => Gives(l) = 1)
  BY DEF Claims, Gives

\* The numbers of items and of permits are numbers.
LEMMA Sums == ASSUME Sound, Ring
              PROVE  Items \in Nat /\ \A t \in Sides : Total(t) \in Int
<1>1. Items \in Nat
  BY BufferAssumption DEF Ring
<1>2. QED
  BY <1>1, Balances, Shares DEF Total

\* The buffer, when no item is put or got.
LEMMA RingKept ==
    ASSUME Ring, UNCHANGED <<buf, in, out, produced, consumed>>
    PROVE  Ring' /\ Items' = Items
  BY DEF Ring, Slotted, Window, InOrder, Items, Wrap

\* A step of t in which no item is put or got, and no permit is made.
LEMMA PoolStep ==
    ASSUME BInv, NEW t \in Sides, pc[t] \notin Gone, NEW to,
           pc' = [pc EXCEPT ![t] = to], Sound',
           UNCHANGED <<buf, in, out, produced, consumed>>,
           NEW own \in Int, own = Balance(sems'[WaitsFor[t]]),
           NEW others \in Int, others = Balance(sems'[WaitsFor[Other(t)]]),
           own + Claims(to) <= Balance(sems[WaitsFor[t]]) + Claims(pc[t]),
           others + Gives(to) <= Balance(sems[WaitsFor[Other(t)]]) + Gives(pc[t]),
           t = "Producer" =>
             /\ pc["Consumer"] \in Unvalued =>
                  /\ to # "access"
                  /\ own + Claims(to) = Balance(sems[WaitsFor[t]]) + Claims(pc[t])
             /\ Reached(to)',
           t = "Consumer" =>
             /\ i'["Producer"] = i["Producer"]
             /\ to \in Unvalued /\ pc["Producer"] \notin Gone =>
                  /\ pc[t] \in Unvalued
                  /\ others + Gives(to) = Balance(sems[WaitsFor[Other(t)]]) + Gives(pc[t])
    PROVE  Pools' /\ Ring'
<1>1. /\ Sound /\ Room /\ Stock /\ Unstarted /\ Progress /\ Ring
      /\ pc \in [Sides -> Labels]
  BY DEF BInv, Pools, IInv, Shape
<1>2. Ring' /\ Items' = Items /\ Items \in Nat /\ produced' = produced
  BY <1>1, RingKept, Sums
<1>3. /\ Other(t) \in Sides /\ Other(t) # t /\ Other(Other(t)) = t
      /\ \A u \in Sides : u = t \/ u = Other(t)
      /\ "Producer" \in Sides /\ "Consumer" \in Sides
      /\ Other("Producer") = "Consumer" /\ Other("Consumer") = "Producer"
  BY Others DEF Sides
<1>4. pc'[t] = to /\ pc'[Other(t)] = pc[Other(t)]
  BY <1>1, <1>3
<1>5. /\ Total(t)' = own + Claims(to) + Gives(pc[Other(t)])
      /\ Total(Other(t))' = others + Claims(pc[Other(t)]) + Gives(to)
      /\ Total(t) = Balance(sems[WaitsFor[t]]) + Claims(pc[t]) + Gives(pc[Other(t)])
      /\ Total(Other(t)) = Balance(sems[WaitsFor[Other(t)]]) + Claims(pc[Other(t)])
                                                             + Gives(pc[t])
  BY <1>3, <1>4 DEF Total
<1>6. /\ Balance(sems[WaitsFor[t]]) \in Int /\ Balance(sems[WaitsFor[Other(t)]]) \in Int
      /\ \A l : Claims(l) \in Int /\ Gives(l) \in Int
  BY <1>1, <1>3, Balances, Shares
<1>7. /\ Total(t)' <= Total(t) /\ Total(Other(t))' <= Total(Other(t))
      /\ Total(t)' \in Int /\ Total(t) \in Int
      /\ Total(Other(t))' \in Int /\ Total(Other(t)) \in Int
  BY <1>5, <1>6
<1>8. CASE t = "Producer"
  <2>1. /\ Total("Producer")' <= Total("Producer") /\ Total("Consumer")' <= Total("Consumer")
        /\ Total("Producer")' \in Int /\ Total("Producer") \in Int
        /\ Total("Consumer")' \in Int /\ Total("Consumer") \in Int
        /\ pc'["Consumer"] = pc["Consumer"] /\ pc["Producer"] \notin Gone
        /\ pc'["Producer"] = to
    BY <1>3, <1>4, <1>7, <1>8
  <2>2. Room' /\ Stock'
    BY <1>1, <1>2, <2>1, BufferAssumption DEF Room, Stock
  <2>3. Unstarted'
    <3>1. SUFFICES ASSUME pc["Consumer"] \in Unvalued
                   PROVE  to # "access" /\ Total("Producer")' = 0 /\ produced' = 0
      BY <2>1 DEF Unstarted
    <3>2. produced = 0 /\ Total("Producer") = 0
      BY <1>1, <2>1, <3>1 DEF Unstarted
    <3>3. Total("Producer")' = Total("Producer")
      BY <1>5, <1>6, <1>8, <3>1
    <3>4. QED
      BY <1>2, <1>8, <3>1, <3>2, <3>3
  <2>4. Progress'
    BY <1>1, <1>2, <1>8, <2>1 DEF Progress, Reached
  <2>5. QED
    BY <1>2, <2>2, <2>3, <2>4 DEF Pools
<1>9. CASE t = "Consumer"
  <2>1. /\ Total("Producer")' <= Total("Producer") /\ Total("Consumer")' <= Total("Consumer")
        /\ Total("Producer")' \in Int /\ Total("Producer") \in Int
        /\ Total("Consumer")' \in Int /\ Total("Consumer") \in Int
        /\ pc'["Producer"] = pc["Producer"] /\ pc["Consumer"] \notin Gone
        /\ pc'["Consumer"] = to
    BY <1>3, <1>4, <1>7, <1>9
  <2>2. Room' /\ Stock'
    BY <1>1, <1>2, <2>1, BufferAssumption DEF Room, Stock
  <2>3. Unstarted'
    <3>1. SUFFICES ASSUME to \in Unvalued, pc["Producer"] \notin Gone
                   PROVE  /\ pc["Producer"] # "access" /\ Total("Producer")' = 0
                          /\ produced' = 0
      BY <2>1 DEF Unstarted
    <3>2. /\ produced = 0 /\ Total("Producer") = 0 /\ pc["Producer"] # "access"
      BY <1>1, <1>9, <3>1 DEF Unstarted
    <3>3. Total("Producer")' = Total("Producer")
      BY <1>3, <1>5, <1>6, <1>9, <3>1
    <3>4. QED
      BY <1>2, <3>2, <3>3
  <2>4. Progress'
    BY <1>1, <1>2, <1>9, <2>1 DEF Progress, Reached
  <2>5. QED
    BY <1>2, <2>2, <2>3, <2>4 DEF Pools
<1>10. QED
  BY <1>8, <1>9 DEF Sides
------------------------------------------------------------------------------
(* The steps keep the pools of permits *)

\* The parts of the invariant.
LEMMA PartsOf ==
    ASSUME BInv
    PROVE  /\ Shape /\ MutexState /\ TokenState /\ EarlyState
           /\ Sound /\ Room /\ Stock /\ Unstarted /\ Progress /\ Ring
           /\ pc \in [Sides -> Labels] /\ i \in [Sides -> Int]
           /\ "Producer" \in Sides /\ "Consumer" \in Sides
  BY DEF BInv, IInv, Pools, Shape, Sides

\* Nobody waits for the permits of a process that goes on.
LEMMA AwakeBalance ==
    ASSUME BInv, NEW t \in Sides, ~Asleep(t)
    PROVE  /\ sems[WaitsFor[t]].queue = << >>
           /\ Balance(sems[WaitsFor[t]]) \in Int /\ Balance(sems[WaitsFor[t]]) >= 0
<1>1. sems[WaitsFor[t]].queue = << >>
  BY PartsOf, Awake
<1>2. QED
  BY <1>1, PartsOf, Balances

\* Before Empty has its value the producer does not go on with a permit.
LEMMA NoClaim ==
    ASSUME BInv, ~Asleep("Producer"), pc["Producer"] \in Claiming
    PROVE  pc["Consumer"] \notin Unvalued
<1> SUFFICES ASSUME pc["Consumer"] \in Unvalued PROVE FALSE
  OBVIOUS
<1>1. pc["Producer"] \notin Gone
  BY DEF Claiming, Gone
<1>2. Total("Producer") = 0
  BY <1>1, PartsOf DEF Unstarted
<1>3. /\ Balance(sems[WaitsFor["Producer"]]) \in Int
      /\ Balance(sems[WaitsFor["Producer"]]) >= 0
  BY PartsOf, AwakeBalance
<1>4. Claims(pc["Producer"]) = 1 /\ Gives(pc[Other("Producer")]) \in 0..1
  BY Shares
<1>5. QED
  BY <1>2, <1>3, <1>4 DEF Total

\* A step of t with no call on a semaphore of tokens, and no item.
LEMMA StillPool ==
    ASSUME BInv, NEW t \in Sides, pc[t] \notin Gone, NEW to,
           pc' = [pc EXCEPT ![t] = to],
           UNCHANGED <<buf, in, out, produced, consumed>>,
           \A u \in Sides : sems'[WaitsFor[u]] = sems[WaitsFor[u]],
           Claims(to) <= Claims(pc[t]), Gives(to) <= Gives(pc[t]),
           t = "Producer" =>
             /\ pc["Consumer"] \in Unvalued => to # "access" /\ Claims(to) = Claims(pc[t])
             /\ Reached(to)',
           t = "Consumer" =>
             /\ i'["Producer"] = i["Producer"]
             /\ to \in Unvalued => pc[t] \in Unvalued /\ Gives(to) = Gives(pc[t])
    PROVE  Pools' /\ Ring'
<1> DEFINE own == Balance(sems[WaitsFor[t]])
           others == Balance(sems[WaitsFor[Other(t)]])
<1>1. Sound /\ Other(t) \in Sides
  BY PartsOf, Others
<1>2. own \in Int /\ others \in Int
  BY <1>1, Balances
<1>3. own = Balance(sems'[WaitsFor[t]]) /\ others = Balance(sems'[WaitsFor[Other(t)]])
  BY <1>1
<1>4. Sound'
  BY <1>1 DEF Sound
<1>5. /\ Claims(to) \in Int /\ Claims(pc[t]) \in Int
      /\ Gives(to) \in Int /\ Gives(pc[t]) \in Int
  BY Shares
<1>6. /\ own = Balance(sems[WaitsFor[t]]) /\ others = Balance(sems[WaitsFor[Other(t)]])
  OBVIOUS
<1> HIDE DEF own, others
<1>7. own + Claims(to) <= own + Claims(pc[t]) /\ others + Gives(to) <= others + Gives(pc[t])
  BY <1>2, <1>5
<1>8. QED
  BY <1>2, <1>3, <1>4, <1>6, <1>7, PoolStep

\* A step of the producer that leaves its loop counter, outside the loop body.
LEMMA ReachedSame ==
    ASSUME Progress, produced' = produced, i' = i, NEW to, to \notin Claiming \cup Giving,
           to = "failed" \/ pc["Producer"] \notin Giving \cup Gone \cup {"failed"}
    PROVE  Reached(to)'
  BY DEF Progress, Reached

\* A call that fails keeps the pools.
LEMMA FailPool ==
    ASSUME BInv, NEW t \in Sides, ~Asleep(t), pc[t] \notin Gone,
           pc' = [pc EXCEPT ![t] = "failed"], UNCHANGED sems, i' = i,
           UNCHANGED <<buf, in, out, produced, consumed>>
    PROVE  Pools' /\ Ring'
<1>1. /\ "failed" \notin Claiming \cup Giving /\ "failed" \notin Unvalued
      /\ "failed" # "access"
  BY DEF Claiming, Giving, Unvalued, Opening
<1>2. /\ Claims("failed") = 0 /\ Gives("failed") = 0
      /\ Claims(pc[t]) \in 0..1 /\ Gives(pc[t]) \in 0..1
      /\ pc[t] \notin Claiming => Claims(pc[t]) = 0
  BY <1>1, Shares
<1>3. Reached("failed")'
  BY <1>1, PartsOf, ReachedSame
<1>4. t = "Producer" /\ pc["Consumer"] \in Unvalued => pc[t] \notin Claiming
  BY NoClaim
<1>5. \A u \in Sides : sems'[WaitsFor[u]] = sems[WaitsFor[u]]
  OBVIOUS
<1>6. Claims("failed") <= Claims(pc[t]) /\ Gives("failed") <= Gives(pc[t])
  BY <1>2
<1>7. QED
  BY <1>1, <1>2, <1>3, <1>4, <1>5, <1>6, StillPool

\* A call of semInit keeps the pools.
LEMMA OpenPool == ASSUME BInv, NEW t \in Sides, Open(t) PROVE Pools' /\ Ring'
<1>1. PICK s \in Semaphores, to \in {"openFull", "openMutex", Opened[t]} :
        /\ pc[t] \in Opening /\ ~Asleep(t)
        /\ sems' = [sems EXCEPT ![s] = CreateOp(sems[s])]
        /\ pc' = [pc EXCEPT ![t] = to]
  BY DEF Open, SemInit, At, Goto, Opening, Semaphores
<1>2. /\ UNCHANGED <<buf, in, out, produced, consumed>> /\ i' = i
  BY DEF Open, bufVars
<1>3. to \in {"openFull", "openMutex", "setEmpty", "loop"}
  BY <1>1 DEF Opened, Sides
<1>4. /\ to \notin Claiming \cup Giving /\ pc[t] \notin Claiming \cup Giving
      /\ pc[t] \notin Giving \cup Gone \cup {"failed"}
      /\ pc[t] \in Unvalued /\ to # "access" /\ pc[t] \notin Gone
  BY <1>1, <1>3 DEF Claiming, Giving, Gone, Opening, Unvalued
<1>5. Claims(to) = 0 /\ Gives(to) = 0 /\ Claims(pc[t]) = 0 /\ Gives(pc[t]) = 0
  BY <1>4, Shares
<1>6. t = "Producer" => Reached(to)'
  BY <1>2, <1>4, PartsOf, ReachedSame
<1>7. CASE s = "Mutex"
  <2>1. \A u \in Sides : sems'[WaitsFor[u]] = sems[WaitsFor[u]]
    BY <1>1, <1>7, PartsOf, TokenFrame
  <2>2. Claims(to) <= Claims(pc[t]) /\ Gives(to) <= Gives(pc[t])
    BY <1>5
  <2>3. QED
    BY <1>1, <1>2, <1>4, <1>5, <1>6, <2>1, <2>2, StillPool
<1>8. CASE s # "Mutex"
  <2>1. PICK u \in Sides : s = WaitsFor[u]
    BY <1>8, Tokens DEF Semaphores, Sides
  <2> DEFINE after == CreateOp(sems[s])
  <2>2. /\ SoundToken(u, sems[s]) /\ Balance(sems[s]) \in Int
        /\ ~sems[s].exists => Balance(sems[s]) >= 0
    BY <2>1, PartsOf, Balances DEF Sound
  <2>3. /\ SoundToken(u, after)
        /\ sems[s].exists => after = sems[s]
        /\ ~sems[s].exists => Balance(after) = 0
    BY <2>2, SoundCreate
  <2>4. Balance(after) \in Int /\ Balance(after) <= Balance(sems[s])
    BY <2>2, <2>3
  <2>5. /\ sems'[WaitsFor[u]] = after
        /\ sems'[WaitsFor[Other(u)]] = sems[WaitsFor[Other(u)]]
        /\ sems' = [sems EXCEPT ![WaitsFor[u]] = after]
    BY <1>1, <2>1, PartsOf, TokenFrame
  <2>6. Sound'
    BY <2>3, <2>5, PartsOf, SoundAfter
  <2>7. u = "Producer" /\ pc["Consumer"] \in Unvalued /\ pc["Producer"] \notin Gone
          => Balance(after) = Balance(sems[s])
    <3>1. SUFFICES ASSUME u = "Producer", pc["Consumer"] \in Unvalued,
                          pc["Producer"] \notin Gone, ~sems[s].exists
                   PROVE  Balance(after) = Balance(sems[s])
      BY <2>3
    <3>2. Total("Producer") = 0
      BY <3>1, PartsOf DEF Unstarted
    <3>3. Claims(pc["Producer"]) \in 0..1 /\ Gives(pc[Other("Producer")]) \in 0..1
      BY Shares
    <3>4. Balance(sems[s]) = 0
      BY <2>1, <2>2, <3>1, <3>2, <3>3 DEF Total
    <3>5. QED
      BY <2>3, <3>1, <3>4
  <2> HIDE DEF after
  <2>8. Balance(sems[WaitsFor[Other(u)]]) \in Int
    BY PartsOf, Balances, Others
  <2>9. CASE u = t
    <3>1. /\ Balance(after) + Claims(to) <= Balance(sems[WaitsFor[t]]) + Claims(pc[t])
          /\ Balance(sems[WaitsFor[Other(t)]]) + Gives(to) <=
               Balance(sems[WaitsFor[Other(t)]]) + Gives(pc[t])
      BY <1>5, <2>1, <2>2, <2>4, <2>8, <2>9
    <3>2. t = "Producer" /\ pc["Consumer"] \in Unvalued =>
            Balance(after) + Claims(to) = Balance(sems[WaitsFor[t]]) + Claims(pc[t])
      BY <1>4, <1>5, <2>1, <2>7, <2>9
    <3>3. QED
      BY <1>1, <1>2, <1>4, <1>5, <1>6, <2>4, <2>5, <2>6, <2>8, <2>9, <3>1, <3>2, PoolStep
  <2>10. CASE u = Other(t)
    <3>1. Other(u) = t /\ (t = "Consumer" => u = "Producer")
      BY <2>10, Others
    <3>2. /\ Balance(after) + Gives(to) <= Balance(sems[WaitsFor[Other(t)]]) + Gives(pc[t])
          /\ Balance(sems[WaitsFor[t]]) + Claims(to) <=
               Balance(sems[WaitsFor[t]]) + Claims(pc[t])
      BY <1>5, <2>1, <2>2, <2>4, <2>8, <2>10, <3>1
    <3>3. t = "Consumer" /\ pc["Producer"] \notin Gone =>
            Balance(after) + Gives(to) = Balance(sems[WaitsFor[Other(t)]]) + Gives(pc[t])
      BY <1>4, <1>5, <2>1, <2>7, <2>10, <3>1
    <3>4. Balance(sems[WaitsFor[t]]) + Claims(to) = Balance(sems[WaitsFor[t]]) + Claims(pc[t])
      BY <1>5
    <3>5. QED
      BY <1>1, <1>2, <1>4, <1>5, <1>6, <2>4, <2>5, <2>6, <2>8, <2>10, <3>1, <3>2, <3>3,
         <3>4, PoolStep
  <2>11. QED
    BY <2>9, <2>10, Others
<1>9. QED
  BY <1>7, <1>8

\* The consumer's calls of semInitValue keep the pools.
LEMMA StartPool == ASSUME BInv, Start PROVE Pools' /\ Ring'
<1>1. /\ UNCHANGED <<buf, in, out, produced, consumed>> /\ i' = i
      /\ ~Asleep("Consumer") /\ pc["Consumer"] \in {"setEmpty", "setMutex", "setFull"}
  BY DEF Start, SetValues, SemInitValue, Call, At, bufVars
<1>2. /\ Shape /\ Sound /\ Room /\ Stock /\ Unstarted /\ Progress /\ Ring
      /\ pc \in [Sides -> Labels] /\ "Producer" \in Sides /\ "Consumer" \in Sides
      /\ Other("Producer") = "Consumer" /\ Other("Consumer") = "Producer"
      /\ WaitsFor["Producer"] = "Empty" /\ WaitsFor["Consumer"] = "Full"
  BY PartsOf, Others, Tokens
<1>3. /\ pc["Consumer"] \notin Gone /\ pc["Consumer"] \notin Claiming \cup Giving
      /\ {"setMutex", "setFull", "loop"} \cap (Claiming \cup Giving \cup Unvalued) = {}
  BY <1>1 DEF Gone, Claiming, Giving, Unvalued, Opening
<1>4. /\ Claims(pc["Consumer"]) = 0 /\ Gives(pc["Consumer"]) = 0
      /\ \A l \in {"setMutex", "setFull", "loop"} :
            Claims(l) = 0 /\ Gives(l) = 0 /\ l \notin Unvalued
  BY <1>3, Shares
<1>5. CASE /\ pc["Consumer"] = "setEmpty"
           /\ sems' = [sems EXCEPT !["Empty"] = SetValOp(sems["Empty"], MAX_BUF)]
           /\ pc' = [pc EXCEPT !["Consumer"] = "setMutex"]
  <2> DEFINE after == SetValOp(sems["Empty"], MAX_BUF)
  <2>1. SoundToken("Producer", sems["Empty"]) /\ MAX_BUF \in Nat
    BY <1>2, BufferAssumption DEF Sound
  <2>2. SoundToken("Producer", after) /\ Balance(after) = MAX_BUF - Len(sems["Empty"].queue)
    BY <1>2, <2>1, SoundSet
  <2>3. sems' = [sems EXCEPT ![WaitsFor["Producer"]] = after]
    BY <1>2, <1>5
  <2> HIDE DEF after
  <2>4. sems'["Empty"] = after /\ sems'["Full"] = sems["Full"]
    <3>1. /\ sems'[WaitsFor["Producer"]] = after
          /\ sems'[WaitsFor[Other("Producer")]] = sems[WaitsFor[Other("Producer")]]
      BY <2>3, PartsOf, TokenFrame
    <3>2. QED
      BY <1>2, <3>1
  <2>5. Sound'
    BY <1>2, <2>2, <2>3, SoundAfter
  <2>6. Ring' /\ Items' = Items /\ produced' = produced
    BY <1>1, <1>2, RingKept
  <2>7. pc'["Consumer"] = "setMutex" /\ pc'["Producer"] = pc["Producer"]
    BY <1>2, <1>5
  <2>8. Unstarted' /\ Progress'
    BY <1>1, <1>2, <1>4, <2>7 DEF Unstarted, Progress, Reached
  <2>9. Stock'
    <3>1. Total("Consumer")' = Total("Consumer")
      BY <1>2, <1>4, <2>4, <2>7 DEF Total
    <3>2. QED
      BY <1>2, <1>3, <2>6, <2>7, <3>1 DEF Stock
  <2>10. Room'
    <3>1. SUFFICES ASSUME pc["Producer"] \notin Gone
                   PROVE  Total("Producer")' + Items' <= MAX_BUF
      BY <2>7 DEF Room
    <3>2. Total("Producer") = 0 /\ produced = 0
      BY <1>2, <1>5, <3>1 DEF Unstarted, Unvalued
    <3>3. Items = 0
      BY <1>2, <3>2, BufferAssumption DEF Ring, Slotted, Items
    <3>4. /\ Total("Producer") = Balance(sems["Empty"]) + Claims(pc["Producer"])
                                                        + Gives(pc["Consumer"])
          /\ Total("Producer")' = Balance(after) + Claims(pc["Producer"])
                                                 + Gives("setMutex")
      BY <1>2, <2>4, <2>7 DEF Total
    <3>5. Claims(pc["Producer"]) \in 0..1 /\ Gives("setMutex") = 0
      BY <1>4, Shares
    <3>6. IsToken("Producer", sems["Empty"])
          /\ (sems["Empty"].queue # << >> => sems["Empty"].val = 0)
      BY <2>1 DEF SoundToken
    <3>7. Claims(pc["Producer"]) = Len(sems["Empty"].queue)
          /\ Len(sems["Empty"].queue) \in 0..1
      <4>1. Balance(sems["Empty"]) + Claims(pc["Producer"]) = 0
        <5>1. Balance(sems["Empty"]) \in Int
          BY <1>2, Balances
        <5>2. QED
          BY <1>4, <3>2, <3>4, <3>5, <5>1
      <4>2. CASE sems["Empty"].queue = << >>
        <5>1. /\ Balance(sems["Empty"]) = sems["Empty"].val /\ sems["Empty"].val \in Nat
              /\ Len(sems["Empty"].queue) = 0
          BY <1>2, <3>6, <4>2, TokenFields
        <5>2. QED
          BY <3>5, <4>1, <5>1
      <4>3. CASE sems["Empty"].queue # << >>
        <5>1. /\ Balance(sems["Empty"]) = 0 - 1 /\ Len(sems["Empty"].queue) = 1
          BY <1>2, <3>6, <4>3, TokenFields
        <5>2. QED
          BY <3>5, <4>1, <5>1
      <4>4. QED
        BY <4>2, <4>3
    <3>8. QED
      BY <2>1, <2>2, <2>6, <3>3, <3>4, <3>5, <3>7
  <2>11. QED
    BY <2>5, <2>6, <2>8, <2>9, <2>10 DEF Pools
<1>6. CASE /\ pc["Consumer"] = "setMutex"
           /\ sems' = [sems EXCEPT !["Mutex"] = SetValOp(sems["Mutex"], 1)]
           /\ pc' = [pc EXCEPT !["Consumer"] = "setFull"]
  <2>1. \A u \in Sides : sems'[WaitsFor[u]] = sems[WaitsFor[u]]
    BY <1>2, <1>6, TokenFrame
  <2>2. /\ Claims("setFull") <= Claims(pc["Consumer"])
        /\ Gives("setFull") <= Gives(pc["Consumer"])
        /\ "setFull" \notin Unvalued /\ "Consumer" # "Producer"
    BY <1>4
  <2>3. QED
    BY <1>1, <1>2, <1>3, <1>6, <2>1, <2>2, StillPool
<1>7. CASE /\ pc["Consumer"] = "setFull"
           /\ sems' = [sems EXCEPT !["Full"] = SetValOp(sems["Full"], 0)]
           /\ pc' = [pc EXCEPT !["Consumer"] = "loop"]
  <2> DEFINE after == SetValOp(sems["Full"], 0)
             empty == Balance(sems["Empty"])
  <2>1. SoundToken("Consumer", sems["Full"]) /\ 0 \in Nat
    BY <1>2 DEF Sound
  <2>2. /\ sems["Full"].queue = << >>
        /\ Balance(sems["Full"]) \in Int /\ Balance(sems["Full"]) >= 0
    BY <1>1, <1>2, AwakeBalance
  <2>3. SoundToken("Consumer", after) /\ Balance(after) = 0
    <3>1. SoundToken("Consumer", after) /\ Balance(after) = 0 - Len(sems["Full"].queue)
      BY <1>2, <2>1, SoundSet
    <3>2. Len(sems["Full"].queue) = 0
      BY <2>2, EmptySeq
    <3> HIDE DEF after
    <3>3. QED
      BY <3>1, <3>2
  <2>4. sems' = [sems EXCEPT ![WaitsFor["Consumer"]] = after]
    BY <1>2, <1>7
  <2> HIDE DEF after
  <2>5. sems'["Full"] = after /\ sems'["Empty"] = sems["Empty"]
    <3>1. /\ sems'[WaitsFor["Consumer"]] = after
          /\ sems'[WaitsFor[Other("Consumer")]] = sems[WaitsFor[Other("Consumer")]]
      BY <2>4, PartsOf, TokenFrame
    <3>2. QED
      BY <1>2, <3>1
  <2>6. Sound'
    BY <1>2, <2>3, <2>4, SoundAfter
  <2>7. Balance(sems["Empty"]) \in Int
    BY <1>2, Balances
  <2>8. /\ Balance(after) \in Int
        /\ Balance(after) + Claims("loop") <= Balance(sems["Full"]) + Claims(pc["Consumer"])
        /\ empty + Gives("loop") <= empty + Gives(pc["Consumer"])
    BY <1>4, <2>2, <2>3, <2>7
  <2>9. empty = Balance(sems'["Empty"]) /\ Balance(after) = Balance(sems'["Full"])
    BY <2>5
  <2>10. empty = Balance(sems["Empty"])
    OBVIOUS
  <2> HIDE DEF empty
  <2>11. QED
    BY <1>1, <1>2, <1>3, <1>4, <1>7, <2>6, <2>7, <2>8, <2>9, <2>10, PoolStep
<1>8. CASE pc' = [pc EXCEPT !["Consumer"] = "failed"] /\ UNCHANGED sems
  BY <1>1, <1>2, <1>3, <1>8, FailPool
<1>9. QED
  BY <1>5, <1>6, <1>7, <1>8 DEF Start, SetValues, SemInitValue, Call, At, Goto

\* semWait on Empty or Full keeps the pools: a permit is taken or waited for.
LEMMA WaitTokenPool == ASSUME BInv, NEW t \in Sides, WaitToken(t) PROVE Pools' /\ Ring'
<1>1. /\ UNCHANGED <<buf, in, out, produced, consumed>> /\ i' = i
      /\ ~Asleep(t) /\ pc[t] = "loop" /\ i[t] < NLOOPS
  BY DEF WaitToken, SemWait, Call, At, bufVars
<1>2. /\ Shape /\ Sound /\ Progress /\ Other(t) \in Sides
  BY PartsOf, Others
<1>3. /\ "loop" \notin Gone /\ "loop" \notin Claiming \cup Giving
      /\ "waitMutex" \in Claiming /\ "waitMutex" \notin Giving
      /\ "waitMutex" \notin Unvalued /\ "waitMutex" # "access"
      /\ "loop" \notin Giving \cup Gone \cup {"failed"}
      /\ "waitMutex" \notin Giving \cup Gone \cup {"failed"}
  BY DEF Gone, Claiming, Giving, Unvalued, Opening
<1>4. CASE sems[WaitsFor[t]].exists
  <2> DEFINE sem == sems[WaitsFor[t]]
             after == WaitOp(sem, t)
  <2>1. /\ pc' = [pc EXCEPT ![t] = "waitMutex"]
        /\ sems' = [sems EXCEPT ![WaitsFor[t]] = after]
    BY <1>4 DEF WaitToken, SemWait, Call, Goto
  <2>2. SoundToken(t, sem) /\ sem.exists /\ sem.queue = << >> /\ Balance(sem) \in Int
    BY <1>1, <1>2, <1>4, AwakeBalance DEF Sound
  <2>3. SoundToken(t, after) /\ Balance(after) = Balance(sem) - 1
    BY <2>2, SoundWait
  <2> HIDE DEF after
  <2>4. /\ sems'[WaitsFor[t]] = after
        /\ sems'[WaitsFor[Other(t)]] = sems[WaitsFor[Other(t)]]
    BY <1>2, <2>1, TokenFrame
  <2>5. Sound'
    BY <1>2, <2>1, <2>3, SoundAfter
  <2>6. Balance(sems[WaitsFor[Other(t)]]) \in Int /\ Balance(after) \in Int
    BY <1>2, <2>2, <2>3, Balances
  <2>7. Claims(pc[t]) = 0 /\ Gives(pc[t]) = 0 /\ Claims("waitMutex") = 1
        /\ Gives("waitMutex") = 0
    BY <1>1, <1>3, Shares
  <2>8. /\ Balance(after) + Claims("waitMutex") = Balance(sem) + Claims(pc[t])
        /\ Balance(after) + Claims("waitMutex") <= Balance(sem) + Claims(pc[t])
        /\ Balance(sems[WaitsFor[Other(t)]]) + Gives("waitMutex") <=
             Balance(sems[WaitsFor[Other(t)]]) + Gives(pc[t])
    BY <2>2, <2>3, <2>6, <2>7
  <2>9. t = "Producer" => Reached("waitMutex")'
    BY <1>1, <1>2, <1>3 DEF Progress, Reached
  <2>10. QED
    BY <1>1, <1>3, <2>1, <2>4, <2>5, <2>6, <2>8, <2>9, PoolStep
<1>5. CASE pc' = [pc EXCEPT ![t] = "failed"] /\ UNCHANGED sems
  BY <1>1, <1>3, <1>5, FailPool
<1>6. QED
  BY <1>4, <1>5 DEF WaitToken, SemWait, Call, Goto

\* semWait on Mutex keeps the pools.
LEMMA WaitMutexPool == ASSUME BInv, NEW t \in Sides, WaitMutex(t) PROVE Pools' /\ Ring'
<1>1. /\ UNCHANGED <<buf, in, out, produced, consumed>> /\ i' = i
      /\ ~Asleep(t) /\ pc[t] = "waitMutex"
  BY DEF WaitMutex, SemWait, Call, At, bufVars
<1>2. /\ "waitMutex" \notin Gone /\ "waitMutex" \in Claiming /\ "access" \in Claiming
      /\ "waitMutex" \notin Giving /\ "access" \notin Giving /\ "access" \notin Unvalued
      /\ "waitMutex" \notin Giving \cup Gone \cup {"failed"}
      /\ "access" \notin Giving \cup Gone \cup {"failed"}
  BY DEF Gone, Claiming, Giving, Unvalued, Opening
<1>3. CASE sems["Mutex"].exists
  <2>1. /\ pc' = [pc EXCEPT ![t] = "access"]
        /\ sems' = [sems EXCEPT !["Mutex"] = WaitOp(sems["Mutex"], t)]
    BY <1>3 DEF WaitMutex, SemWait, Call, Goto
  <2>2. \A u \in Sides : sems'[WaitsFor[u]] = sems[WaitsFor[u]]
    BY <2>1, PartsOf, TokenFrame
  <2>3. /\ Claims("access") = 1 /\ Claims(pc[t]) = 1
        /\ Gives("access") = 0 /\ Gives(pc[t]) = 0
    BY <1>1, <1>2, Shares
  <2>4. t = "Producer" => Reached("access")'
    BY <1>1, <1>2, PartsOf DEF Progress, Reached
  <2>5. t = "Producer" => pc["Consumer"] \notin Unvalued
    BY <1>1, <1>2, NoClaim
  <2>6. Claims("access") <= Claims(pc[t]) /\ Gives("access") <= Gives(pc[t])
    BY <2>3
  <2>7. QED
    BY <1>1, <1>2, <2>1, <2>2, <2>4, <2>5, <2>6, StillPool
<1>4. CASE pc' = [pc EXCEPT ![t] = "failed"] /\ UNCHANGED sems
  BY <1>1, <1>2, <1>4, FailPool
<1>5. QED
  BY <1>3, <1>4 DEF WaitMutex, SemWait, Call, Goto

\* The update of counter, and semPost on Mutex, keep the pools.
LEMMA InsidePool ==
    ASSUME BInv, NEW t \in Sides, Load(t) \/ Store(t) \/ PostMutex(t)
    PROVE  Pools' /\ Ring'
<1>1. /\ UNCHANGED <<buf, in, out, produced, consumed>> /\ i' = i
      /\ ~Asleep(t) /\ pc[t] \in {"load", "store", "postMutex"}
  BY DEF Load, Store, PostMutex, SemPost, Call, At, bufVars, LoadCounter, StoreCounter
<1>2. CASE pc' = [pc EXCEPT ![t] = "failed"] /\ UNCHANGED sems
  BY <1>1, <1>2, FailPool DEF Gone
<1>3. ASSUME NEW to \in {"store", "postMutex", "postToken"},
             pc' = [pc EXCEPT ![t] = to],
             UNCHANGED sems \/ sems' = [sems EXCEPT !["Mutex"] = PostOp(sems["Mutex"], t)]
      PROVE  Pools' /\ Ring'
  <2>1. \A u \in Sides : sems'[WaitsFor[u]] = sems[WaitsFor[u]]
    BY <1>3, PartsOf, TokenFrame
  <2>2. /\ to \notin Claiming /\ pc[t] \notin Claiming /\ to \in Giving /\ pc[t] \in Giving
        /\ pc[t] \notin Gone /\ to \notin Unvalued /\ to # "access"
        /\ to \notin Gone \cup {"failed"}
    BY <1>1, <1>3 DEF Claiming, Giving, Gone, Unvalued, Opening
  <2>3. /\ Claims(to) = 0 /\ Claims(pc[t]) = 0 /\ Gives(to) = 1 /\ Gives(pc[t]) = 1
    BY <2>2, Shares
  <2>4. Claims(to) <= Claims(pc[t]) /\ Gives(to) <= Gives(pc[t])
    BY <2>3
  <2>5. t = "Producer" => Reached(to)'
    BY <1>1, <2>2, PartsOf DEF Progress, Reached
  <2>6. QED
    BY <1>1, <1>3, <2>1, <2>2, <2>3, <2>4, <2>5, StillPool
<1>4. CASE Load(t) \/ Store(t)
  BY <1>3, <1>4 DEF Load, Store, Goto
<1>5. CASE PostMutex(t)
  BY <1>2, <1>3, <1>5 DEF PostMutex, SemPost, Call, Goto
<1>6. QED
  BY <1>4, <1>5

\* semPost on Empty or Full keeps the pools: what was to be posted is posted.
LEMMA PostTokenPool == ASSUME BInv, NEW t \in Sides, PostToken(t) PROVE Pools' /\ Ring'
<1>1. /\ UNCHANGED <<buf, in, out, produced, consumed>>
      /\ ~Asleep(t) /\ pc[t] = "postToken"
  BY DEF PostToken, SemPost, Call, At, bufVars
<1>2. /\ Shape /\ Sound /\ Progress /\ Other(t) \in Sides /\ Other(t) # t
      /\ Posts[t] = WaitsFor[Other(t)] /\ Other(Other(t)) = t
      /\ i \in [Sides -> Int]
  BY PartsOf, Others
<1>3. /\ "postToken" \notin Gone /\ "postToken" \notin Claiming /\ "postToken" \in Giving
      /\ "loop" \notin Claiming \cup Giving /\ "loop" \notin Unvalued /\ "loop" # "access"
  BY DEF Gone, Claiming, Giving, Unvalued, Opening
<1>4. CASE sems[Posts[t]].exists
  <2> DEFINE u == Other(t)
             sem == sems[WaitsFor[Other(t)]]
             after == PostOp(sem, t)
  <2>1. /\ pc' = [pc EXCEPT ![t] = "loop"]
        /\ sems' = [sems EXCEPT ![WaitsFor[Other(t)]] = after]
        /\ i' = [i EXCEPT ![t] = @ + 1]
    BY <1>2, <1>4 DEF PostToken, SemPost, Call, Goto
  <2>2. SoundToken(Other(t), sem) /\ Balance(sem) \in Int
    BY <1>2, Balances DEF Sound
  <2>3. SoundToken(Other(t), after) /\ Balance(after) = Balance(sem) + 1
    BY <1>2, <2>2, SoundPost
  <2> HIDE DEF after
  <2>4. /\ sems'[WaitsFor[Other(t)]] = after
        /\ sems'[WaitsFor[t]] = sems[WaitsFor[t]]
    BY <1>2, <2>1, TokenFrame, ZenonT(40)
  <2>5. Sound'
    BY <1>2, <2>1, <2>3, SoundAfter
  <2>6. Balance(sems[WaitsFor[t]]) \in Int /\ Balance(after) \in Int
    BY <1>2, <2>2, <2>3, Balances
  <2>7. Claims(pc[t]) = 0 /\ Gives(pc[t]) = 1 /\ Claims("loop") = 0 /\ Gives("loop") = 0
    BY <1>1, <1>3, Shares
  <2>8. /\ Balance(after) + Gives("loop") <= Balance(sem) + Gives(pc[t])
        /\ Balance(sems[WaitsFor[t]]) + Claims("loop") <=
             Balance(sems[WaitsFor[t]]) + Claims(pc[t])
        /\ Balance(sems[WaitsFor[t]]) + Claims("loop") =
             Balance(sems[WaitsFor[t]]) + Claims(pc[t])
    BY <2>2, <2>3, <2>6, <2>7
  <2>9. t = "Producer" => Reached("loop")'
    BY <1>1, <1>2, <1>3, <2>1 DEF Progress, Reached
  <2>10. t = "Consumer" => i'["Producer"] = i["Producer"]
    BY <1>2, <2>1
  <2>11. QED
    BY <1>1, <1>3, <2>1, <2>4, <2>5, <2>6, <2>8, <2>9, <2>10, PoolStep
<1>5. CASE ~sems[Posts[t]].exists
  <2>1. pc' = [pc EXCEPT ![t] = "failed"] /\ UNCHANGED sems /\ i' = i
    BY <1>5 DEF PostToken, SemPost, Call, Goto
  <2>2. QED
    BY <1>1, <1>3, <2>1, FailPool
<1>6. QED
  BY <1>4, <1>5

\* A put finds a free slot, and keeps the pools.
LEMMA PutPool == ASSUME BInv, Access("Producer") PROVE Pools' /\ Ring' /\ Items < MAX_BUF
                                                         /\ produced < NLOOPS
<1>1. /\ ~Asleep("Producer") /\ pc["Producer"] = "access"
      /\ pc' = [pc EXCEPT !["Producer"] = "load"]
      /\ UNCHANGED sems /\ i' = i /\ PutItem
      /\ produced' = produced + 1 /\ consumed' = consumed
  BY DEF Access, AccessItem, At, Goto, PutItem
<1>2. /\ Sound /\ Room /\ Stock /\ Unstarted /\ Progress /\ Ring
      /\ pc \in [Sides -> Labels] /\ "Producer" \in Sides /\ "Consumer" \in Sides
      /\ Other("Producer") = "Consumer" /\ Other("Consumer") = "Producer"
  BY PartsOf, Others
<1>3. /\ "access" \notin Gone /\ "access" \in Claiming /\ "access" \notin Giving
      /\ "load" \in Giving /\ "load" \notin Claiming /\ "load" \notin Gone
      /\ "access" \notin Giving \cup Gone \cup {"failed"}
  BY DEF Gone, Claiming, Giving
<1>4. /\ Claims("access") = 1 /\ Claims("load") = 0
      /\ Gives("access") = 0 /\ Gives("load") = 1
      /\ Gives(pc["Consumer"]) \in 0..1 /\ Claims(pc["Consumer"]) \in 0..1
  BY <1>3, Shares
<1>5. pc'["Producer"] = "load" /\ pc'["Consumer"] = pc["Consumer"]
  BY <1>1, <1>2
<1> DEFINE b == Balance(sems[WaitsFor["Producer"]])
           c == Balance(sems[WaitsFor["Consumer"]])
<1>6. b \in Int /\ b >= 0 /\ c \in Int
  BY <1>1, <1>2, AwakeBalance, Balances
<1>7. /\ Total("Producer") = b + 1 + Gives(pc["Consumer"])
      /\ Total("Producer")' = b + 0 + Gives(pc["Consumer"])
      /\ Total("Consumer") = c + Claims(pc["Consumer"]) + 0
      /\ Total("Consumer")' = c + Claims(pc["Consumer"]) + 1
  BY <1>1, <1>2, <1>4, <1>5 DEF Total
<1> HIDE DEF b, c
<1>8. Items \in 0..MAX_BUF /\ MAX_BUF \in Nat
  BY <1>2, BufferAssumption DEF Ring
<1>9. Total("Producer") + Items <= MAX_BUF
  BY <1>1, <1>2, <1>3 DEF Room
<1>10. Items \in 0 .. MAX_BUF - 1
  BY <1>4, <1>6, <1>7, <1>8, <1>9
<1>11. produced < NLOOPS /\ produced = i["Producer"] /\ produced \in 0..NLOOPS
  BY <1>1, <1>2, <1>3 DEF Progress, Reached
<1>12. Items' = Items + 1
  <2>1. Len(consumed) \in Nat
    BY <1>2 DEF Ring, Slotted
  <2>2. QED
    BY <1>1, <1>11, <2>1, BufferAssumption DEF Items
<1>13. Ring'
  <2>1. Slotted' /\ Window'
    BY <1>1, <1>2, <1>10, SlottedPut, PutStep DEF Ring
  <2>2. InOrder'
    BY <1>1, <1>2 DEF Ring, InOrder
  <2>3. QED
    BY <1>8, <1>10, <1>12, <2>1, <2>2 DEF Ring
<1>14. Room'
  BY <1>4, <1>6, <1>7, <1>8, <1>9, <1>12 DEF Room
<1>15. Stock'
  <2>1. SUFFICES ASSUME pc["Consumer"] \notin Gone
                 PROVE  Total("Consumer")' <= Items'
    BY <1>5 DEF Stock
  <2>2. Total("Consumer") <= Items
    BY <1>2, <2>1 DEF Stock
  <2>3. QED
    BY <1>4, <1>6, <1>7, <1>8, <1>12, <2>2
<1>16. Unstarted'
  BY <1>1, <1>3, <1>5, NoClaim DEF Unstarted
<1>17. Progress'
  BY <1>1, <1>3, <1>5, <1>11, BufferAssumption DEF Progress, Reached
<1>18. Sound'
  BY <1>1, <1>2 DEF Sound
<1>19. QED
  BY <1>8, <1>10, <1>11, <1>13, <1>14, <1>15, <1>16, <1>17, <1>18 DEF Pools

\* A get finds an item, and keeps the pools.
LEMMA GetPool == ASSUME BInv, Access("Consumer")
                 PROVE  /\ Pools' /\ Ring' /\ Items > 0
                        /\ consumed' = Append(consumed, Len(consumed) + 1)
<1>1. /\ ~Asleep("Consumer") /\ pc["Consumer"] = "access"
      /\ pc' = [pc EXCEPT !["Consumer"] = "load"]
      /\ UNCHANGED sems /\ i' = i /\ GetItem /\ produced' = produced
  BY DEF Access, AccessItem, At, Goto, GetItem
<1>2. /\ Sound /\ Room /\ Stock /\ Unstarted /\ Progress /\ Ring
      /\ pc \in [Sides -> Labels] /\ "Producer" \in Sides /\ "Consumer" \in Sides
      /\ Other("Producer") = "Consumer" /\ Other("Consumer") = "Producer"
  BY PartsOf, Others
<1>3. /\ "access" \notin Gone /\ "access" \in Claiming /\ "access" \notin Giving
      /\ "load" \in Giving /\ "load" \notin Claiming /\ "load" \notin Gone
      /\ "load" \notin Unvalued
  BY DEF Gone, Claiming, Giving, Unvalued, Opening
<1>4. /\ Claims("access") = 1 /\ Claims("load") = 0
      /\ Gives("access") = 0 /\ Gives("load") = 1
      /\ Gives(pc["Producer"]) \in 0..1 /\ Claims(pc["Producer"]) \in 0..1
  BY <1>3, Shares
<1>5. pc'["Consumer"] = "load" /\ pc'["Producer"] = pc["Producer"]
  BY <1>1, <1>2
<1> DEFINE b == Balance(sems[WaitsFor["Producer"]])
           c == Balance(sems[WaitsFor["Consumer"]])
<1>6. c \in Int /\ c >= 0 /\ b \in Int
  BY <1>1, <1>2, AwakeBalance, Balances
<1>7. /\ Total("Consumer") = c + 1 + Gives(pc["Producer"])
      /\ Total("Consumer")' = c + 0 + Gives(pc["Producer"])
      /\ Total("Producer") = b + Claims(pc["Producer"]) + 0
      /\ Total("Producer")' = b + Claims(pc["Producer"]) + 1
  BY <1>1, <1>2, <1>4, <1>5 DEF Total
<1> HIDE DEF b, c
<1>8. Items \in 0..MAX_BUF /\ MAX_BUF \in Nat
  BY <1>2, BufferAssumption DEF Ring
<1>9. Total("Consumer") <= Items
  BY <1>1, <1>2, <1>3 DEF Stock
<1>10. Items \in 1 .. MAX_BUF
  BY <1>4, <1>6, <1>7, <1>8, <1>9
<1>11. Window' /\ consumed' = Append(consumed, Len(consumed) + 1) /\ Slotted'
  BY <1>1, <1>2, <1>10, SlottedGet, GetStep DEF Ring
<1>12. Items' = Items - 1
  <2>1. Len(consumed) \in Nat /\ consumed \in Seq(Nat) /\ produced \in Nat
    BY <1>2 DEF Ring, Slotted
  <2>2. Len(consumed') = Len(consumed) + 1
    BY <1>11, <2>1
  <2>3. QED
    BY <1>1, <2>1, <2>2 DEF Items
<1>13. Ring'
  <2>1. InOrder'
    BY <1>2, <1>11, OrderStep DEF Ring
  <2>2. QED
    BY <1>8, <1>10, <1>11, <1>12, <2>1 DEF Ring
<1>14. Stock'
  BY <1>4, <1>6, <1>7, <1>8, <1>9, <1>12 DEF Stock
<1>15. Room'
  <2>1. SUFFICES ASSUME pc["Producer"] \notin Gone
                 PROVE  Total("Producer")' + Items' <= MAX_BUF
    BY <1>5 DEF Room
  <2>2. Total("Producer") + Items <= MAX_BUF
    BY <1>2, <2>1 DEF Room
  <2>3. QED
    BY <1>4, <1>6, <1>7, <1>8, <1>12, <2>2
<1>16. Unstarted'
  BY <1>3, <1>5 DEF Unstarted
<1>17. Progress'
  BY <1>1, <1>2, <1>5 DEF Progress, Reached
<1>18. Sound'
  BY <1>1, <1>2 DEF Sound
<1>19. QED
  BY <1>8, <1>10, <1>11, <1>13, <1>14, <1>15, <1>16, <1>17, <1>18 DEF Pools

\* The end of a process takes no permit from the other's pool that it needs.
LEMMA LeavePool ==
    ASSUME BInv, NEW t \in Sides, NEW how \in Gone, Leave(t, how), i' = i,
           pc[t] \notin Gone, UNCHANGED <<buf, in, out, produced, consumed>>
    PROVE  Pools' /\ Ring'
<1>1. /\ Sound /\ Room /\ Stock /\ Unstarted /\ Progress /\ Ring
      /\ pc \in [Sides -> Labels] /\ "Producer" \in Sides /\ "Consumer" \in Sides
      /\ Other(t) \in Sides /\ Other(t) # t /\ Other(Other(t)) = t
      /\ \A u \in Sides : u = t \/ u = Other(t)
  BY PartsOf, Others
<1>2. /\ \A s \in Semaphores : sems'[s] = ExitOp(sems[s], t)
      /\ pc'[t] = how /\ pc'[Other(t)] = pc[Other(t)]
  BY <1>1 DEF Leave, Goto
<1>3. \A u \in Sides : sems'[WaitsFor[u]] = ExitOp(sems[WaitsFor[u]], t)
  BY <1>2, Tokens
<1>4. Sound'
  <2>1. ASSUME NEW u \in Sides PROVE SoundToken(u, ExitOp(sems[WaitsFor[u]], t))
    BY <1>1, SoundExit DEF Sound
  <2>2. QED
    BY <1>3, <2>1 DEF Sound
<1>5. Balance(sems'[WaitsFor[Other(t)]]) <= Balance(sems[WaitsFor[Other(t)]])
  <2>1. SoundToken(Other(t), sems[WaitsFor[Other(t)]])
    BY <1>1 DEF Sound
  <2>2. Balance(ExitOp(sems[WaitsFor[Other(t)]], t)) <= Balance(sems[WaitsFor[Other(t)]])
    BY <1>1, <2>1, SoundExit
  <2>3. QED
    BY <1>1, <1>3, <2>2
<1>6. /\ Balance(sems[WaitsFor[Other(t)]]) \in Int
      /\ Balance(sems'[WaitsFor[Other(t)]]) \in Int
  <2>1. Balance(sems[WaitsFor[Other(t)]]) \in Int
    BY <1>1, Balances
  <2>2. IsToken(Other(t), sems'[WaitsFor[Other(t)]])
    BY <1>1, <1>4 DEF Sound, SoundToken
  <2>3. Balance(sems'[WaitsFor[Other(t)]]) \in Int
    BY <1>1, <2>2, TokenFields
  <2>4. QED
    BY <2>1, <2>3
<1>7. Ring' /\ Items' = Items /\ Items \in Nat /\ produced' = produced
  BY <1>1, RingKept, Sums
<1>8. how \notin Giving /\ how \notin Unvalued /\ how \notin Claiming
  BY DEF Gone, Giving, Unvalued, Opening, Claiming
<1>9. Total(Other(t))' <= Total(Other(t)) /\ Total(Other(t))' \in Int
      /\ Total(Other(t)) \in Int
  <2>1. /\ Total(Other(t)) = Balance(sems[WaitsFor[Other(t)]])
                               + Claims(pc[Other(t)]) + Gives(pc[t])
        /\ Total(Other(t))' = Balance(sems'[WaitsFor[Other(t)]])
                                + Claims(pc[Other(t)]) + Gives(how)
    BY <1>1, <1>2 DEF Total
  <2>2. Gives(how) = 0 /\ Gives(pc[t]) \in 0..1 /\ Claims(pc[Other(t)]) \in 0..1
    BY <1>8, Shares
  <2>3. QED
    BY <1>5, <1>6, <2>1, <2>2
<1>10. CASE t = "Producer"
  <2>1. /\ pc'["Producer"] \in Gone /\ pc'["Consumer"] = pc["Consumer"]
        /\ Total("Consumer")' <= Total("Consumer") /\ Total("Consumer")' \in Int
        /\ Total("Consumer") \in Int
    BY <1>2, <1>9, <1>10, Others
  <2>2. Room' /\ Unstarted'
    BY <2>1 DEF Room, Unstarted
  <2>3. Stock'
    BY <1>1, <1>7, <2>1 DEF Stock
  <2>4. Progress'
    BY <1>1, <1>2, <1>7, <1>8, <1>10 DEF Progress, Reached
  <2>5. QED
    BY <1>4, <1>7, <2>2, <2>3, <2>4 DEF Pools
<1>11. CASE t = "Consumer"
  <2>1. /\ pc'["Consumer"] = how /\ pc'["Producer"] = pc["Producer"]
        /\ Total("Producer")' <= Total("Producer") /\ Total("Producer")' \in Int
        /\ Total("Producer") \in Int
    BY <1>2, <1>9, <1>11, Others
  <2>2. Stock' /\ Unstarted'
    BY <1>8, <2>1 DEF Stock, Unstarted
  <2>3. Room'
    BY <1>1, <1>7, <2>1, BufferAssumption DEF Room
  <2>4. Progress'
    BY <1>1, <1>7, <2>1 DEF Progress, Reached
  <2>5. QED
    BY <1>4, <1>7, <2>2, <2>3, <2>4 DEF Pools
<1>12. QED
  BY <1>10, <1>11 DEF Sides

\* The regular exit of a process, and its end by a signal, keep the pools.
LEMMA EndPool == ASSUME BInv, NEW t \in Sides, Exit(t) \/ Kill(t) PROVE Pools' /\ Ring'
<1>1. UNCHANGED <<buf, in, out, produced, consumed>> /\ i' = i
  BY DEF Exit, Kill, bufVars
<1>2. CASE Exit(t)
  <2>1. pc[t] \in {"failed", "loop"} /\ Leave(t, "exited")
    BY <1>2 DEF Exit, At
  <2>2. pc[t] \notin Gone /\ "exited" \in Gone
    BY <2>1 DEF Gone
  <2>3. QED
    BY <1>1, <2>1, <2>2, LeavePool
<1>3. CASE Kill(t)
  <2> DEFINE how == IF pc[t] \in Setup THEN "aborted" ELSE "exited"
  <2>1. pc[t] \notin Gone /\ Leave(t, how) /\ how \in Gone
    BY <1>3 DEF Kill, Gone
  <2> HIDE DEF how
  <2>2. QED
    BY <1>1, <2>1, LeavePool
<1>4. QED
  BY <1>2, <1>3

\* What the producer does alone, before and after its loop, keeps the pools.
LEMMA ProducerPool ==
    ASSUME BInv, StartProducer \/ Pause \/ EndPause
    PROVE  Pools' /\ Ring'
<1>1. /\ UNCHANGED <<buf, in, out, produced, consumed>> /\ UNCHANGED sems /\ i' = i
  BY DEF StartProducer, Pause, EndPause, bufVars
<1>2. PICK to \in {"openEmpty", "pause", "destroyEmpty"} :
        /\ pc' = [pc EXCEPT !["Producer"] = to]
        /\ pc["Producer"] \in {"start", "loop", "pause"}
  BY DEF StartProducer, Pause, EndPause, At, Goto
<1>3. /\ to \notin Claiming \cup Giving /\ pc["Producer"] \notin Claiming \cup Giving
      /\ pc["Producer"] \notin Giving \cup Gone \cup {"failed"} /\ pc["Producer"] \notin Gone
      /\ to # "access"
  BY <1>2 DEF Claiming, Giving, Gone
<1>4. /\ Claims(to) = 0 /\ Claims(pc["Producer"]) = 0
      /\ Gives(to) = 0 /\ Gives(pc["Producer"]) = 0
  BY <1>3, Shares
<1>5. Reached(to)'
  BY <1>1, <1>3, PartsOf, ReachedSame
<1>6. /\ \A u \in Sides : sems'[WaitsFor[u]] = sems[WaitsFor[u]]
      /\ Claims(to) <= Claims(pc["Producer"]) /\ Gives(to) <= Gives(pc["Producer"])
      /\ Claims(to) = Claims(pc["Producer"]) /\ "Producer" # "Consumer"
      /\ "Producer" \in Sides
  BY <1>1, <1>4 DEF Sides
<1>7. QED
  BY <1>1, <1>2, <1>3, <1>5, <1>6, StillPool

\* The removal of a semaphore keeps the pools: who waited for a permit has none.
LEMMA DestroyPool == ASSUME BInv, DestroyAll PROVE Pools' /\ Ring'
<1>1. /\ Shape /\ Sound /\ Room /\ Stock /\ Unstarted /\ Progress /\ Ring
      /\ TokenState /\ EarlyState /\ MutexState
      /\ pc \in [Sides -> Labels] /\ "Producer" \in Sides /\ "Consumer" \in Sides
      /\ Other("Producer") = "Consumer" /\ Other("Consumer") = "Producer"
      /\ WaitsFor["Producer"] = "Empty" /\ WaitsFor["Consumer"] = "Full"
      /\ UNCHANGED <<buf, in, out, produced, consumed>> /\ i' = i
  BY PartsOf, Others, Tokens DEF DestroyAll, bufVars
<1>2. PICK s \in Semaphores, to \in {"destroyMutex", "destroyFull", "exited"} :
        /\ ~Asleep("Producer")
        /\ pc["Producer"] \in {"destroyEmpty", "destroyMutex", "destroyFull"}
        /\ sems' = [sems EXCEPT ![s] = DestroyOp(sems[s])]
        /\ pc' = [q \in Sides |-> IF q = "Producer" THEN to
                                  ELSE IF q \in Sleepers(sems[s]) THEN "failed"
                                  ELSE pc[q]]
  BY DEF DestroyAll, SemDestroy, At, Semaphores
<1>3. /\ pc["Producer"] \in Late /\ pc["Producer"] \notin Claiming \cup Giving
      /\ pc["Producer"] \notin Giving \cup Gone \cup {"failed"} /\ pc["Producer"] \notin Gone
      /\ to \notin Claiming \cup Giving /\ "failed" \notin Claiming \cup Giving
      /\ "failed" \notin Unvalued /\ Unvalued \subseteq Preset
  BY <1>2 DEF Claiming, Giving, Gone, Late, Unvalued, Preset, Opening
<1>4. /\ Claims(to) = 0 /\ Gives(to) = 0 /\ Claims("failed") = 0 /\ Gives("failed") = 0
      /\ Claims(pc["Producer"]) = 0 /\ Gives(pc["Producer"]) = 0
      /\ Claims(pc["Consumer"]) \in 0..1 /\ Gives(pc["Consumer"]) \in 0..1
  BY <1>3, Shares
<1>5. /\ pc'["Producer"] = to
      /\ pc'["Consumer"] = IF "Consumer" \in Sleepers(sems[s]) THEN "failed"
                           ELSE pc["Consumer"]
      /\ sems'[s] = DestroyOp(sems[s])
      /\ \A r \in Semaphores : r # s => sems'[r] = sems[r]
  BY <1>1, <1>2 DEF Shape
<1>6. /\ sems["Empty"].queue = << >>
      /\ Balance(sems["Empty"]) \in Int /\ Balance(sems["Full"]) \in Int
  BY <1>1, <1>2, AwakeBalance, Balances
<1>7. SoundToken("Producer", sems["Empty"]) /\ SoundToken("Consumer", sems["Full"])
  BY <1>1 DEF Sound
<1>8. "Empty" \in Semaphores /\ "Full" \in Semaphores
  BY DEF Semaphores
<1>9. SoundToken("Producer", sems'["Empty"]) /\ SoundToken("Consumer", sems'["Full"])
  BY <1>5, <1>7, <1>8, SoundDestroy, <1>1
<1>10. Sound'
  BY <1>1, <1>9 DEF Sound, Sides
<1>11. Balance(sems'["Empty"]) = Balance(sems["Empty"])
  <2>1. CASE s = "Empty"
    <3>1. Balance(DestroyOp(sems["Empty"])) = sems["Empty"].val
      BY <1>1, <1>7, SoundDestroy
    <3>2. Balance(sems["Empty"]) = sems["Empty"].val
      BY <1>1, <1>6, <1>7, TokenFields DEF SoundToken
    <3>3. QED
      BY <1>5, <2>1, <3>1, <3>2
  <2>2. QED
    BY <1>5, <1>8, <2>1
<1>12. /\ Balance(sems'["Full"]) + Claims(pc'["Consumer"]) <=
            Balance(sems["Full"]) + Claims(pc["Consumer"])
       /\ Balance(sems'["Full"]) + Claims(pc'["Consumer"]) \in Int
  <2>1. CASE s = "Full"
    <3>1. Balance(DestroyOp(sems["Full"])) = sems["Full"].val
      BY <1>1, <1>7, SoundDestroy
    <3>2. IsToken("Consumer", sems["Full"])
          /\ (sems["Full"].queue # << >> => sems["Full"].val = 0)
      BY <1>7 DEF SoundToken
    <3>3. CASE sems["Full"].queue = << >>
      <4>1. Balance(sems["Full"]) = sems["Full"].val
        BY <1>1, <3>2, <3>3, TokenFields
      <4>2. pc'["Consumer"] = pc["Consumer"]
        BY <1>1, <1>5, <2>1, <3>3, SleepersOf
      <4>3. Balance(sems'["Full"]) = Balance(sems["Full"])
        BY <1>5, <2>1, <3>1, <4>1
      <4>4. QED
        BY <1>4, <1>6, <4>2, <4>3
    <3>4. CASE sems["Full"].queue # << >>
      <4>1. sems["Full"].queue = <<"Consumer">> /\ Balance(sems["Full"]) = 0 - 1
        BY <1>1, <3>2, <3>4, TokenFields
      <4>2. "Consumer" \in Sleepers(sems["Full"])
        BY <1>1, <4>1, SleepersOf
      <4>3. pc["Consumer"] = "waitMutex"
        BY <1>1, <3>4 DEF TokenState
      <4>4. Claims(pc["Consumer"]) = 1
        BY <4>3, Shares DEF Claiming
      <4>5. Balance(sems'["Full"]) = 0 /\ Claims(pc'["Consumer"]) = 0
        BY <1>4, <1>5, <2>1, <3>1, <3>2, <3>4, <4>2
      <4>6. QED
        BY <4>1, <4>4, <4>5
    <3>5. QED
      BY <3>3, <3>4
  <2>2. CASE s # "Full"
    <3>1. Balance(sems'["Full"]) = Balance(sems["Full"])
      BY <1>5, <1>8, <2>2
    <3>2. Claims(pc'["Consumer"]) <= Claims(pc["Consumer"]) /\ Claims(pc'["Consumer"]) \in 0..1
      BY <1>4, <1>5
    <3>3. QED
      BY <1>4, <1>6, <3>1, <3>2
  <2>3. QED
    BY <2>1, <2>2
<1>13. Ring' /\ Items' = Items /\ Items \in Nat /\ produced' = produced
  BY <1>1, RingKept, Sums
<1>14. Gives(pc'["Consumer"]) <= Gives(pc["Consumer"]) /\ Gives(pc'["Consumer"]) \in 0..1
  BY <1>4, <1>5
<1>15. Room'
  <2>1. /\ Total("Producer") = Balance(sems["Empty"]) + 0 + Gives(pc["Consumer"])
        /\ Total("Producer")' = Balance(sems["Empty"]) + 0 + Gives(pc'["Consumer"])
    BY <1>1, <1>4, <1>5, <1>11 DEF Total
  <2>2. Total("Producer") + Items <= MAX_BUF
    BY <1>1, <1>3 DEF Room
  <2>3. Total("Producer")' + Items' <= MAX_BUF
    BY <1>4, <1>6, <1>13, <1>14, <2>1, <2>2, BufferAssumption
  <2>4. QED
    BY <2>3 DEF Room
<1>16. Stock'
  <2>1. SUFFICES ASSUME pc["Consumer"] \notin Gone
                 PROVE  Total("Consumer")' <= Items'
    <3>1. pc["Consumer"] \in Gone => pc'["Consumer"] \in Gone
      <4>1. CASE s = "Mutex"
        BY <1>1, <1>5, <4>1, MutexSleepers DEF Gone
      <4>2. CASE s # "Mutex"
        <5>1. PICK u \in Sides : s = WaitsFor[u]
          BY <4>2, Tokens DEF Semaphores, Sides
        <5>2. QED
          BY <1>1, <1>5, <5>1, TokenSleepers DEF Gone
      <4>3. QED
        BY <4>1, <4>2
    <3>2. QED
      BY <3>1 DEF Stock
  <2>2. /\ Total("Consumer") = Balance(sems["Full"]) + Claims(pc["Consumer"]) + 0
        /\ Total("Consumer")' = Balance(sems'["Full"]) + Claims(pc'["Consumer"]) + 0
    BY <1>1, <1>4, <1>5 DEF Total
  <2>3. Total("Consumer") <= Items
    BY <1>1, <2>1 DEF Stock
  <2>4. QED
    BY <1>4, <1>6, <1>12, <1>13, <2>2, <2>3
<1>17. Unstarted'
  <2>1. pc["Consumer"] \notin Preset
    BY <1>1, <1>3 DEF EarlyState
  <2>2. pc'["Consumer"] \notin Unvalued
    BY <1>3, <1>5, <2>1
  <2>3. QED
    BY <2>2 DEF Unstarted
<1>18. Progress'
  BY <1>1, <1>3, <1>5, <1>13 DEF Progress, Reached
<1>19. QED
  BY <1>10, <1>13, <1>15, <1>16, <1>17, <1>18 DEF Pools
------------------------------------------------------------------------------
(* Nothing is lost, doubled or overtaken in the buffer *)

\* Only an access changes the slots, what was produced and what was consumed.
LEMMA OnlyAccess ==
    ASSUME [Next]_vars
    PROVE  \/ \E t \in Sides : Access(t)
           \/ UNCHANGED <<buf, in, out, produced, consumed>>
<1> DEFINE Same == UNCHANGED <<buf, in, out, produced, consumed>>
<1>1. ASSUME NEW t \in Sides, Side(t) PROVE Access(t) \/ Same
  <2>1. CASE Open(t) \/ WaitToken(t) \/ WaitMutex(t) \/ PostMutex(t) \/ PostToken(t)
    BY <2>1 DEF Open, WaitToken, WaitMutex, PostMutex, PostToken, bufVars
  <2>2. CASE Load(t) \/ Store(t) \/ Exit(t)
    BY <2>2 DEF Load, Store, LoadCounter, StoreCounter, Exit, bufVars
  <2>3. QED
    BY <1>1, <2>1, <2>2 DEF Side
<1>2. StartProducer \/ Pause \/ EndPause \/ DestroyAll \/ Start => Same
  BY DEF StartProducer, Pause, EndPause, DestroyAll, Start, SetValues, bufVars
<1>3. ASSUME NEW t \in Sides, Kill(t) PROVE Same
  BY <1>3 DEF Kill, bufVars
<1>4. UNCHANGED vars => Same
  BY DEF vars, bufVars
<1> HIDE DEF Same
<1>5. Producer \/ Consumer => (\E t \in Sides : Access(t)) \/ Same
  BY <1>1, <1>2 DEF Producer, Consumer, Sides
<1>6. Stopped \/ (\E t \in Sides : Kill(t)) => Same
  BY <1>3, <1>4 DEF Stopped
<1>7. (\E t \in Sides : Access(t)) \/ Same
  BY <1>4, <1>5, <1>6 DEF Next
<1>8. QED
  BY <1>7 DEF Same

\* The pools and the buffer at first.
LEMMA PoolsInitial == Init => Pools /\ Ring
<1> SUFFICES ASSUME Init PROVE Pools /\ Ring
  OBVIOUS
<1>1. /\ pc["Producer"] = "start" /\ pc["Consumer"] = "openEmpty"
      /\ i["Producer"] = 0 /\ produced = 0 /\ consumed = << >> /\ BufInit
      /\ \A s \in Semaphores : sems[s] = Absent
  BY DEF Init, BufInit, Sides
<1>2. \A t \in Sides : SoundToken(t, Absent) /\ Balance(Absent) = 0
  <2>1. PICK e : Absent = Sem(e, 0, << >>, Zero)
    BY Zenon DEF Absent, Sem, Zero
  <2>2. Zero \in [Sides -> Int] /\ \A t \in Sides : Zero[Other(t)] <= 0
    BY Others DEF Zero
  <2>3. 0 \in Nat /\ 0 \in Int
    OBVIOUS
  <2>4. ASSUME NEW t \in Sides PROVE SoundToken(t, Absent) /\ Balance(Absent) = 0
    <3>1. IsToken(t, Absent)
      BY <2>1, <2>2, <2>3, TokenIdle
    <3>2. Settling(t, Absent, 0)
      BY <2>1, <2>2, <2>3, Plain
    <3>3. QED
      BY <3>1, <3>2, Sounder
  <2>5. QED
    BY <2>4
<1>3. \A t \in Sides : SoundToken(t, sems[WaitsFor[t]]) /\ Balance(sems[WaitsFor[t]]) = 0
  BY <1>1, <1>2, Tokens
<1>4. Slotted /\ Window /\ InOrder
  BY <1>1, SlottedInit
<1>5. Items = 0
  <2>1. Len(consumed) = 0 /\ produced = 0
    BY <1>1, EmptySeq
  <2>2. QED
    BY <2>1 DEF Items
<1>6. Ring
  BY <1>4, <1>5, BufferAssumption DEF Ring
<1>7. "start" \notin Claiming \cup Giving /\ "openEmpty" \notin Claiming \cup Giving
      /\ "start" # "access"
  BY DEF Claiming, Giving
<1>8. \A t \in Sides : Total(t) = 0
  <2>1. ASSUME NEW t \in Sides PROVE Total(t) = 0
    <3>1. Claims(pc[t]) = 0 /\ Gives(pc[Other(t)]) = 0
      BY <1>1, <1>7, Shares DEF Sides, Other
    <3>2. QED
      BY <1>3, <3>1 DEF Total
  <2>2. QED
    BY <2>1
<1>9. Sound
  BY <1>3 DEF Sound
<1>10. Room /\ Stock /\ Unstarted
  BY <1>1, <1>5, <1>7, <1>8, BufferAssumption DEF Room, Stock, Unstarted, Sides
<1>11. Progress
  BY <1>1, <1>7, BufferAssumption DEF Progress, Reached
<1>12. QED
  BY <1>6, <1>9, <1>10, <1>11 DEF Pools

\* Every step preserves the pools of permits and the buffer.
LEMMA PoolsConsecution == BInv /\ [Next]_vars => BInv'
<1> SUFFICES ASSUME BInv, [Next]_vars PROVE BInv'
  OBVIOUS
<1>1. IInv'
  BY Consecution DEF BInv
<1>2. CASE UNCHANGED vars
  <2>1. UNCHANGED <<sems, pc, i, buf, in, out, produced, consumed>>
    BY <1>2 DEF vars, bufVars
  <2>2. Pools' /\ Ring'
    BY <2>1, PartsOf, RingKept DEF Pools, Sound, Room, Stock, Total, Unstarted, Progress,
       Reached
  <2>3. QED
    BY <1>1, <2>2 DEF BInv
<1>3. ASSUME NEW t \in Sides, Side(t) PROVE Pools' /\ Ring'
  <2>1. CASE Access(t)
    BY <2>1, PutPool, GetPool DEF Sides
  <2>2. CASE Open(t) \/ WaitToken(t) \/ WaitMutex(t)
    BY <2>2, OpenPool, WaitTokenPool, WaitMutexPool
  <2>3. CASE Load(t) \/ Store(t) \/ PostMutex(t) \/ PostToken(t) \/ Exit(t)
    BY <2>3, InsidePool, PostTokenPool, EndPool
  <2>4. QED
    BY <1>3, <2>1, <2>2, <2>3 DEF Side
<1>4. CASE Producer
  BY <1>1, <1>3, <1>4, ProducerPool, DestroyPool DEF Producer, Sides, BInv
<1>5. CASE Consumer
  BY <1>1, <1>3, <1>5, StartPool DEF Consumer, Sides, BInv
<1>6. ASSUME NEW t \in Sides, Kill(t) PROVE BInv'
  BY <1>1, <1>6, EndPool DEF BInv
<1>7. CASE Stopped
  BY <1>2, <1>7 DEF Stopped
<1>8. QED
  BY <1>2, <1>4, <1>5, <1>6, <1>7 DEF Next

\* How many permits there are for each side, and what is in the slots, in every state.
THEOREM Stocked == Spec => []BInv
<1>1. Init => BInv
  BY Initial, PoolsInitial DEF BInv
<1>2. BInv /\ [Next]_vars => BInv'
  BY PoolsConsecution
<1>3. QED
  BY <1>1, <1>2, PTL DEF Spec

\* However the two processes are started, killed or ended (producer_s.c, consumer_s.c),
\* they implement the safety part of the abstract buffer: no item is repeated,
\* overtaken or overwritten.
THEOREM FifoSafe == Spec => FifoSafety
<1>1. Init => Fifo!Init
  BY DEF Init, BufInit, Fifo!Init
<1>2. BInv /\ [Next]_vars => [Fifo!Next]_(Fifo!fifoVars)
  <2> SUFFICES ASSUME BInv, [Next]_vars PROVE [Fifo!Next]_(Fifo!fifoVars)
    OBVIOUS
  <2>1. Len(consumed) \in Nat /\ produced \in Nat
    BY PartsOf DEF Ring, Slotted
  <2>2. CASE Access("Producer")
    <3>1. produced < NLOOPS /\ produced - Len(consumed) < MAX_BUF
      BY <2>2, PutPool DEF Items
    <3>2. produced' = produced + 1 /\ consumed' = consumed
      BY <2>2 DEF Access, AccessItem, PutItem
    <3>3. QED
      BY <3>1, <3>2 DEF Fifo!Next, Fifo!Send
  <2>3. CASE Access("Consumer")
    <3>1. Items > 0 /\ consumed' = Append(consumed, Len(consumed) + 1)
      BY <2>3, GetPool
    <3>2. Len(consumed) < produced
      BY <2>1, <3>1 DEF Items
    <3>3. produced' = produced
      BY <2>3 DEF Access, AccessItem, GetItem
    <3>4. QED
      BY <3>1, <3>2, <3>3 DEF Fifo!Next, Fifo!Receive
  <2>4. CASE UNCHANGED <<buf, in, out, produced, consumed>>
    BY <2>4 DEF Fifo!fifoVars
  <2>5. QED
    BY <2>2, <2>3, <2>4, OnlyAccess DEF Sides
<1>3. QED
  BY <1>1, <1>2, Stocked, PTL DEF Spec, FifoSafety, Fifo!Safety
------------------------------------------------------------------------------
(* Run as intended, the consumer gets everything: the invariant *)

Ending == {"destroyEmpty", "destroyMutex", "destroyFull", "exited"}

\* A semaphore exists from the time the consumer has opened it until the producer
\* destroys them.
Created == pc["Producer"] \notin Ending =>
             /\ pc["Consumer"] # "openEmpty" => sems["Empty"].exists
             /\ pc["Consumer"] \notin {"openEmpty", "openFull"} => sems["Full"].exists
             /\ pc["Consumer"] \notin Opening => sems["Mutex"].exists

\* The producer starts when the consumer has set the values, and ends after it.
InTurn == /\ pc["Consumer"] \in Setup => pc["Producer"] = "start" /\ produced = 0
          /\ \A t \in Sides : pc[t] \notin {"failed", "aborted"}
          /\ pc["Producer"] \in Ending => pc["Consumer"] = "exited"
          /\ pc["Producer"] = "pause" => i["Producer"] = NLOOPS

\* No permit for an item is lost.
Exact == pc["Consumer"] \notin Setup \cup Gone => Total("Consumer") = Items

\* How far the consumer is.
Share == /\ i["Consumer"] = Len(consumed) - Gives(pc["Consumer"])
         /\ pc["Consumer"] \in Claiming \cup Giving => i["Consumer"] < NLOOPS
         /\ pc["Consumer"] = "exited" => Len(consumed) = NLOOPS

Meant == Created /\ InTurn /\ Exact /\ Share

AInv == /\ BInv
        /\ setting \in Settings
        /\ setting = "intended" => Meant
------------------------------------------------------------------------------
(* Run as intended: the steps *)

Working == {"loop"} \cup Claiming \cup Giving

\* Places of the loop.
LEMMA Places == \A l \in Working : /\ l \notin Setup \cup Gone /\ l \notin Opening
                                   /\ l \notin Ending /\ l \notin {"start", "pause"}
                                   /\ l \notin {"failed", "aborted", "exited"}
                                   /\ l \notin {"openEmpty", "openFull"}
  BY DEF Working, Claiming, Giving, Setup, Gone, Opening, Ending

\* Settle leaves a semaphore as existing as it was.
LEMMA SettleLasting ==
    ASSUME NEW e, NEW w, NEW q, NEW y
    PROVE  Settle(Sem(e, w, q, y)).exists = e
<1> DEFINE r == Sem(e, w, q, y)
<1>1. r = Sem(e, w, q, y)
  OBVIOUS
<1> HIDE DEF r
<1>2. ASSUME NEW n, NEW g PROVE LetGo(r, n, g).exists = e
  <2> DEFINE a == r.val - n
             b == SubSeq(r.queue, n + 1, Len(r.queue))
             c == [s \in Sides |-> IF s \in g THEN r.undo[s] + 1 ELSE r.undo[s]]
  <2>1. LetGo(r, n, g) = WithAll(r, a, b, c)
    BY DEF LetGo, WithAll
  <2> HIDE DEF a, b, c
  <2>2. LetGo(r, n, g) = Sem(e, a, b, c)
    BY <1>1, <2>1, Assigned
  <2>3. QED
    BY <2>2, Fields
<1>3. PICK n, g : Settle(r) = LetGo(r, n, g)
  BY SettleIs
<1>4. Settle(r).exists = e
  BY <1>2, <1>3
<1>5. QED
  BY <1>4 DEF r

\* The calls on a mutex, and an exit, do so too.
LEMMA Lasting ==
    ASSUME NEW e, NEW v \in Nat, NEW q, NEW undo \in [Sides -> Int], NEW sem,
           sem = Sem(e, v, q, undo), NEW p \in Sides
    PROVE  /\ WaitOp(sem, p).exists = sem.exists
           /\ PostOp(sem, p).exists = sem.exists
           /\ \A w : SetValOp(sem, w).exists = sem.exists
           /\ ExitOp(sem, p).exists = sem.exists
<1>1. sem.exists = e /\ sem.val = v
  BY Fields
<1>2. WaitOp(sem, p).exists = sem.exists
  <2>1. CASE v > 0
    <3>1. WaitOp(sem, p) = Sem(e, v - 1, q, Took(undo, p))
      BY <2>1, TakeCall
    <3>2. QED
      BY <1>1, <3>1, Fields
  <2>2. CASE ~(v > 0)
    <3>1. WaitOp(sem, p) = WithQueue(sem, Append(sem.queue, p))
      BY <1>1, <2>2 DEF WaitOp, WithQueue
    <3>2. PICK r : WithQueue(sem, Append(sem.queue, p)) = Sem(e, v, r, undo)
      BY Assigned
    <3>3. QED
      BY <1>1, <3>1, <3>2, Fields
  <2>3. QED
    BY <2>1, <2>2
<1>3. PostOp(sem, p).exists = sem.exists
  BY <1>1, PostCall, SettleLasting
<1>4. \A w : SetValOp(sem, w).exists = sem.exists
  BY <1>1, SetCall, SettleLasting
<1>5. ExitOp(sem, p).exists = sem.exists
  <2>1. CASE sem.exists
    <3>1. ExitOp(sem, p) = Settle(Sem(e, Back(v + undo[p]), Without(q, p), Cleared(undo, p)))
      BY <2>1, ExitExisting
    <3>2. QED
      BY <1>1, <3>1, SettleLasting
  <2>2. CASE ~sem.exists
    BY <2>2 DEF ExitOp
  <2>3. QED
    BY <2>1, <2>2
<1>6. QED
  BY <1>2, <1>3, <1>4, <1>5

\* A created semaphore exists.
LEMMA CreateLasting == \A sem : CreateOp(sem).exists
  BY DEF CreateOp, Absent

\* The mutex has the fields of a semaphore.
LEMMA MutexFields ==
    ASSUME MutexState
    PROVE  \E e : \E v \in Nat : \E q : \E undo \in [Sides -> Int] :
              sems["Mutex"] = Sem(e, v, q, undo)
<1>1. CASE Missing
  BY <1>1, Zenon DEF Missing, Removed
<1>2. CASE ~Missing
  <2>1. PICK v, q, h : v \in {0, 1} /\ sems["Mutex"] = MutexIs(v, q, h)
    BY <1>2 DEF MutexState, Unset, Free, Held
  <2>2. v \in Nat
    BY <2>1
  <2>3. Undo(h) \in [Sides -> Int]
    BY UndoType
  <2>4. QED
    BY <2>1, <2>2, <2>3, Zenon DEF MutexIs
<1>3. QED
  BY <1>1, <1>2

\* The calls of p on the mutex, and its exit, leave the mutex as existing as it was.
LEMMA MutexLasting ==
    ASSUME MutexState, NEW p \in Sides
    PROVE  /\ WaitOp(sems["Mutex"], p).exists = sems["Mutex"].exists
           /\ PostOp(sems["Mutex"], p).exists = sems["Mutex"].exists
           /\ \A w : SetValOp(sems["Mutex"], w).exists = sems["Mutex"].exists
           /\ ExitOp(sems["Mutex"], p).exists = sems["Mutex"].exists
<1>1. PICK e, v, q, undo : /\ sems["Mutex"] = Sem(e, v, q, undo)
                           /\ v \in Nat /\ undo \in [Sides -> Int]
  BY MutexFields
<1>2. QED
  BY <1>1, Lasting, SMTT(40)

\* Who works finds the semaphores.
LEMMA AllThere ==
    ASSUME Created, InTurn, NEW t \in Sides, pc[t] \in Working
    PROVE  /\ \A s \in Semaphores : sems[s].exists
           /\ pc["Consumer"] \notin Setup /\ pc["Producer"] \notin Ending
<1>1. pc["Consumer"] \notin Setup /\ pc["Producer"] \notin Ending
  <2>1. CASE t = "Producer"
    BY <2>1, Places DEF InTurn
  <2>2. CASE t = "Consumer"
    BY <2>2, Places DEF InTurn
  <2>3. QED
    BY <2>1, <2>2 DEF Sides
<1>2. pc["Consumer"] # "openEmpty" /\ pc["Consumer"] \notin {"openEmpty", "openFull"}
      /\ pc["Consumer"] \notin Opening
  BY <1>1 DEF Setup, Opening
<1>3. QED
  BY <1>1, <1>2 DEF Created, Semaphores

\* A step of the loop body.
LEMMA BodyStep ==
    ASSUME BInv, Meant, NEW t \in Sides, pc[t] \in Working, NEW to \in Working,
           pc' = [pc EXCEPT ![t] = to], \A s \in Semaphores : sems'[s].exists,
           Total("Consumer") = Items => Total("Consumer")' = Items',
           t = "Consumer" => /\ i'["Producer"] = i["Producer"]
                             /\ i'["Consumer"] = Len(consumed') - Gives(to)
                             /\ to \in Claiming \cup Giving => i'["Consumer"] < NLOOPS,
           t = "Producer" => i'["Consumer"] = i["Consumer"] /\ consumed' = consumed
    PROVE  Meant'
<1>1. /\ Created /\ InTurn /\ Exact /\ Share /\ pc \in [Sides -> Labels]
      /\ "Producer" \in Sides /\ "Consumer" \in Sides
  BY PartsOf DEF Meant
<1>2. pc["Consumer"] \notin Setup /\ pc["Producer"] \notin Ending
  BY <1>1, AllThere
<1>3. /\ pc'[t] = to /\ \A u \in Sides : u # t => pc'[u] = pc[u]
  BY <1>1
<1>4. /\ to \notin Setup \cup Gone /\ to \notin Ending /\ to # "pause"
      /\ to \notin {"failed", "aborted", "exited"}
      /\ pc[t] \notin Setup \cup Gone /\ pc[t] \notin Ending
  BY Places
<1>5. Created'
  BY DEF Created, Semaphores
<1>6. InTurn'
  <2>1. pc'["Consumer"] \notin Setup
    BY <1>1, <1>2, <1>3, <1>4
  <2>2. \A u \in Sides : pc'[u] \notin {"failed", "aborted"}
    BY <1>1, <1>3, <1>4 DEF InTurn
  <2>3. pc'["Producer"] \notin Ending
    BY <1>1, <1>2, <1>3, <1>4
  <2>4. pc'["Producer"] = "pause" => t = "Consumer" /\ pc["Producer"] = "pause"
    BY <1>1, <1>3, <1>4 DEF Sides
  <2>5. pc'["Producer"] = "pause" => i'["Producer"] = NLOOPS
    BY <1>1, <2>4 DEF InTurn
  <2>6. QED
    BY <2>1, <2>2, <2>3, <2>5 DEF InTurn
<1>7. Exact'
  <2>1. pc'["Consumer"] \notin Setup \cup Gone => pc["Consumer"] \notin Setup \cup Gone
    BY <1>1, <1>2, <1>3, <1>4 DEF Sides
  <2>2. QED
    BY <1>1, <2>1 DEF Exact
<1>8. Share'
  <2>1. CASE t = "Consumer"
    BY <1>3, <1>4, <2>1 DEF Share
  <2>2. CASE t = "Producer"
    BY <1>1, <1>3, <2>2 DEF Share
  <2>3. QED
    BY <2>1, <2>2 DEF Sides
<1>9. QED
  BY <1>5, <1>6, <1>7, <1>8 DEF Meant

\* A call leaves every semaphore there.
LEMMA StillThere ==
    ASSUME Shape, \A s \in Semaphores : sems[s].exists, NEW s \in Semaphores, NEW after,
           sems' = [sems EXCEPT ![s] = after], after.exists
    PROVE  \A r \in Semaphores : sems'[r].exists
<1>1. \A r \in Semaphores : sems'[r] = IF r = s THEN after ELSE sems[r]
  BY DEF Shape
<1>2. ASSUME NEW r \in Semaphores PROVE sems'[r].exists
  <2>1. CASE r = s
    BY <1>1, <2>1
  <2>2. CASE r # s
    BY <1>1, <2>2
  <2>3. QED
    BY <2>1, <2>2
<1>3. QED
  BY <1>2

\* The permits of the consumer, spelled out.
LEMMA ConsumerTotal ==
    /\ Total("Consumer") = Balance(sems["Full"]) + Claims(pc["Consumer"])
                                                 + Gives(pc["Producer"])
    /\ Total("Consumer")' = Balance(sems'["Full"]) + Claims(pc'["Consumer"])
                                                   + Gives(pc'["Producer"])
  BY Tokens, Others DEF Total

\* A step of the loop body that leaves Full, the buffer, and the consumer's claims
\* and the producer's debts as they are, keeps what holds as intended.
LEMMA PlainBody ==
    ASSUME BInv, Meant, NEW t \in Sides, pc[t] \in Working, NEW to \in Working,
           pc' = [pc EXCEPT ![t] = to], \A s \in Semaphores : sems'[s].exists,
           sems'["Full"] = sems["Full"], UNCHANGED <<buf, in, out, produced, consumed>>,
           t = "Consumer" => /\ i'["Producer"] = i["Producer"]
                             /\ Claims(to) = Claims(pc[t])
                             /\ i'["Consumer"] = Len(consumed) - Gives(to)
                             /\ to \in Claiming \cup Giving => i'["Consumer"] < NLOOPS,
           t = "Producer" => i'["Consumer"] = i["Consumer"] /\ Gives(to) = Gives(pc[t])
    PROVE  Meant'
<1>1. pc \in [Sides -> Labels] /\ "Producer" \in Sides /\ "Consumer" \in Sides /\ Ring
  BY PartsOf
<1>2. Items' = Items
  BY <1>1, RingKept
<1>3. /\ Claims(pc'["Consumer"]) = Claims(pc["Consumer"])
      /\ Gives(pc'["Producer"]) = Gives(pc["Producer"])
  BY <1>1 DEF Sides
<1>4. Total("Consumer")' = Total("Consumer")
  BY <1>3, ConsumerTotal
<1>5. consumed' = consumed
  OBVIOUS
<1>6. QED
  BY <1>2, <1>4, <1>5, BodyStep

\* semWait on Empty or Full, as intended.
LEMMA WaitTokenMeant ==
    ASSUME BInv, Meant, NEW t \in Sides, WaitToken(t)
    PROVE  Meant'
<1>1. /\ UNCHANGED <<buf, in, out, produced, consumed>> /\ i' = i
      /\ ~Asleep(t) /\ pc[t] = "loop" /\ i[t] < NLOOPS
  BY DEF WaitToken, SemWait, Call, At, bufVars
<1>2. /\ Shape /\ Sound /\ Share /\ Created /\ InTurn /\ Other(t) \in Sides
      /\ "Consumer" \in Sides /\ "Producer" \in Sides /\ pc \in [Sides -> Labels]
  BY PartsOf, Others DEF Meant
<1>3. /\ "loop" \in Working /\ "waitMutex" \in Working
      /\ Gives("loop") = 0 /\ Gives("waitMutex") = 0
      /\ Claims("loop") = 0 /\ Claims("waitMutex") = 1
  BY Shares DEF Working, Claiming, Giving
<1>4. \A s \in Semaphores : sems[s].exists
  BY <1>1, <1>2, <1>3, AllThere
<1> DEFINE sem == sems[WaitsFor[t]]
           after == WaitOp(sem, t)
<1>5. /\ pc' = [pc EXCEPT ![t] = "waitMutex"]
      /\ sems' = [sems EXCEPT ![WaitsFor[t]] = after]
  BY <1>4, Tokens DEF WaitToken, SemWait, Call, Goto
<1>6. SoundToken(t, sem) /\ sem.exists /\ sem.queue = << >> /\ Balance(sem) \in Int
  BY <1>1, <1>2, <1>4, AwakeBalance, Tokens DEF Sound
<1>7. after.exists /\ Balance(after) = Balance(sem) - 1
  BY <1>6, SoundWait
<1> HIDE DEF after
<1>8. /\ sems'[WaitsFor[t]] = after
      /\ sems'[WaitsFor[Other(t)]] = sems[WaitsFor[Other(t)]]
  BY <1>2, <1>5, TokenFrame
<1>9. \A s \in Semaphores : sems'[s].exists
  BY <1>2, <1>4, <1>5, <1>7, Tokens, StillThere
<1>10. CASE t = "Producer"
  <2>1. sems'["Full"] = sems["Full"]
    BY <1>8, <1>10, Tokens, Others
  <2>2. QED
    BY <1>1, <1>3, <1>5, <1>9, <1>10, <2>1, PlainBody
<1>11. CASE t = "Consumer"
  <2>1. Balance(sems'["Full"]) = Balance(sems["Full"]) - 1 /\ Balance(sems["Full"]) \in Int
    BY <1>6, <1>7, <1>8, <1>11, Tokens
  <2>2. pc'["Consumer"] = "waitMutex" /\ pc'["Producer"] = pc["Producer"]
    BY <1>2, <1>5, <1>11
  <2>3. Gives(pc["Producer"]) \in Int
    BY Shares
  <2>4. Total("Consumer")' = Total("Consumer")
    BY <1>1, <1>3, <1>11, <2>1, <2>2, <2>3, ConsumerTotal
  <2>5. Items' = Items
    BY <1>1, PartsOf, RingKept
  <2>6. i["Consumer"] = Len(consumed') - Gives("waitMutex")
    BY <1>1, <1>2, <1>3, <1>11 DEF Share
  <2>7. consumed' = consumed
    BY <1>1
  <2>8. QED
    BY <1>1, <1>3, <1>5, <1>9, <1>11, <2>4, <2>5, <2>6, <2>7, BodyStep
<1>12. QED
  BY <1>10, <1>11 DEF Sides

\* semWait and semPost on Mutex and the update of counter, as intended.
LEMMA InsideMeant ==
    ASSUME BInv, Meant, NEW t \in Sides,
           WaitMutex(t) \/ Load(t) \/ Store(t) \/ PostMutex(t)
    PROVE  Meant'
<1>1. /\ UNCHANGED <<buf, in, out, produced, consumed>> /\ i' = i
      /\ pc[t] \in {"waitMutex", "load", "store", "postMutex"}
  BY DEF WaitMutex, Load, Store, PostMutex, SemWait, SemPost, Call, At, bufVars, LoadCounter,
         StoreCounter
<1>2. /\ Shape /\ MutexState /\ Share /\ Created /\ InTurn /\ "Mutex" \in Semaphores
  BY PartsOf, Tokens DEF Meant
<1>3. pc[t] \in Working
  BY <1>1 DEF Working, Claiming, Giving
<1>4. \A s \in Semaphores : sems[s].exists
  BY <1>2, <1>3, AllThere
<1>5. /\ WaitOp(sems["Mutex"], t).exists /\ PostOp(sems["Mutex"], t).exists
  BY <1>2, <1>4, MutexLasting
<1>6. ASSUME NEW to, pc' = [pc EXCEPT ![t] = to],
             \/ pc[t] = "waitMutex" /\ to = "access"
             \/ pc[t] \in Giving /\ to \in {"store", "postMutex", "postToken"},
             \/ UNCHANGED sems
             \/ sems' = [sems EXCEPT !["Mutex"] = WaitOp(sems["Mutex"], t)]
             \/ sems' = [sems EXCEPT !["Mutex"] = PostOp(sems["Mutex"], t)]
      PROVE  Meant'
  <2>1. /\ to \in Working /\ Claims(to) = Claims(pc[t]) /\ Gives(to) = Gives(pc[t])
        /\ pc[t] \in Claiming \cup Giving
    BY <1>6, Shares DEF Working, Claiming, Giving
  <2>2. \A s \in Semaphores : sems'[s].exists
    BY <1>2, <1>4, <1>5, <1>6, StillThere
  <2>3. sems'["Full"] = sems["Full"]
    BY <1>2, <1>6, TokenFrame, Tokens, PartsOf
  <2>4. t = "Consumer" => i["Consumer"] = Len(consumed) - Gives(to) /\ i["Consumer"] < NLOOPS
    BY <1>2, <2>1 DEF Share
  <2>5. QED
    BY <1>1, <1>3, <1>6, <2>1, <2>2, <2>3, <2>4, PlainBody
<1>7. CASE Load(t) \/ Store(t)
  BY <1>1, <1>6, <1>7 DEF Load, Store, Goto, At, Giving
<1>8. CASE WaitMutex(t)
  BY <1>2, <1>4, <1>6, <1>8 DEF WaitMutex, SemWait, Call, Goto, At
<1>9. CASE PostMutex(t)
  BY <1>2, <1>4, <1>6, <1>9 DEF PostMutex, SemPost, Call, Goto, At, Giving
<1>10. QED
  BY <1>7, <1>8, <1>9

\* semPost on Empty or Full, as intended.
LEMMA PostTokenMeant ==
    ASSUME BInv, Meant, NEW t \in Sides, PostToken(t)
    PROVE  Meant'
<1>1. UNCHANGED <<buf, in, out, produced, consumed>> /\ pc[t] = "postToken"
  BY DEF PostToken, SemPost, Call, At, bufVars
<1>2. /\ Shape /\ Sound /\ Share /\ Created /\ InTurn /\ Other(t) \in Sides /\ Other(t) # t
      /\ Other(Other(t)) = t /\ Posts[t] = WaitsFor[Other(t)]
      /\ "Consumer" \in Sides /\ "Producer" \in Sides /\ pc \in [Sides -> Labels]
      /\ i \in [Sides -> Int]
  BY PartsOf, Others DEF Meant
<1>3. /\ "loop" \in Working /\ "postToken" \in Working
      /\ Gives("loop") = 0 /\ Gives("postToken") = 1
      /\ Claims("loop") = 0 /\ Claims("postToken") = 0
      /\ "loop" \notin Claiming \cup Giving
  BY Shares DEF Working, Claiming, Giving
<1>4. \A s \in Semaphores : sems[s].exists
  BY <1>1, <1>2, <1>3, AllThere
<1> DEFINE sem == sems[WaitsFor[Other(t)]]
           after == PostOp(sem, t)
<1>5. /\ pc' = [pc EXCEPT ![t] = "loop"] /\ i' = [i EXCEPT ![t] = @ + 1]
      /\ sems' = [sems EXCEPT ![WaitsFor[Other(t)]] = after]
  BY <1>2, <1>4, Tokens DEF PostToken, SemPost, Call, Goto
<1>6. SoundToken(Other(t), sem) /\ sem.exists /\ Balance(sem) \in Int
  BY <1>2, <1>4, Balances, Tokens DEF Sound
<1>7. after.exists /\ Balance(after) = Balance(sem) + 1
  BY <1>2, <1>6, SoundPost
<1> HIDE DEF after
<1>8. /\ sems'[WaitsFor[Other(t)]] = after
      /\ sems'[WaitsFor[t]] = sems[WaitsFor[t]]
  BY <1>2, <1>5, TokenFrame, ZenonT(40)
<1>9. \A s \in Semaphores : sems'[s].exists
  BY <1>2, <1>4, <1>5, <1>7, Tokens, StillThere
<1>10. CASE t = "Consumer"
  <2>1. sems'["Full"] = sems["Full"]
    BY <1>8, <1>10, Tokens
  <2>2. /\ i'["Consumer"] = i["Consumer"] + 1 /\ i'["Producer"] = i["Producer"]
    BY <1>2, <1>5, <1>10
  <2>3. i'["Consumer"] = Len(consumed) - Gives("loop")
    <3>1. i["Consumer"] = Len(consumed) - 1 /\ i["Consumer"] \in Int
      BY <1>1, <1>2, <1>3, <1>10 DEF Share
    <3>2. Len(consumed) \in Nat
      BY PartsOf DEF Ring, Slotted
    <3>3. QED
      BY <1>3, <2>2, <3>1, <3>2
  <2>4. QED
    BY <1>1, <1>3, <1>5, <1>9, <1>10, <2>1, <2>2, <2>3, PlainBody
<1>11. CASE t = "Producer"
  <2>1. Balance(sems'["Full"]) = Balance(sems["Full"]) + 1 /\ Balance(sems["Full"]) \in Int
    BY <1>6, <1>7, <1>8, <1>11, Tokens, Others
  <2>2. pc'["Producer"] = "loop" /\ pc'["Consumer"] = pc["Consumer"]
    BY <1>2, <1>5, <1>11
  <2>3. Claims(pc["Consumer"]) \in Int
    BY Shares
  <2>4. Total("Consumer")' = Total("Consumer")
    BY <1>1, <1>3, <1>11, <2>1, <2>2, <2>3, ConsumerTotal
  <2>5. Items' = Items
    BY <1>1, PartsOf, RingKept
  <2>6. i'["Consumer"] = i["Consumer"] /\ consumed' = consumed
    BY <1>1, <1>2, <1>5, <1>11
  <2>7. QED
    BY <1>1, <1>3, <1>5, <1>9, <1>11, <2>4, <2>5, <2>6, BodyStep
<1>12. QED
  BY <1>10, <1>11 DEF Sides

\* An access, as intended.
LEMMA AccessMeant ==
    ASSUME BInv, Meant, NEW t \in Sides, Access(t)
    PROVE  Meant'
<1>1. pc[t] = "access" /\ pc' = [pc EXCEPT ![t] = "load"] /\ UNCHANGED sems /\ i' = i
  BY DEF Access, At, Goto
<1>2. /\ Share /\ Created /\ InTurn /\ Sound /\ Ring /\ pc \in [Sides -> Labels]
      /\ "Consumer" \in Sides /\ "Producer" \in Sides
  BY PartsOf DEF Meant
<1>3. /\ "access" \in Working /\ "load" \in Working /\ "access" \in Claiming
      /\ Gives("access") = 0 /\ Gives("load") = 1
      /\ Claims("access") = 1 /\ Claims("load") = 0
  BY Shares DEF Working, Claiming, Giving
<1>4. \A s \in Semaphores : sems'[s].exists
  BY <1>1, <1>2, <1>3, AllThere
<1>5. /\ Balance(sems["Full"]) \in Int /\ Claims(pc["Consumer"]) \in Int
      /\ Gives(pc["Producer"]) \in Int /\ Len(consumed) \in Nat /\ produced \in Nat
      /\ consumed \in Seq(Nat)
  BY <1>2, Balances, Shares, Tokens DEF Ring, Slotted
<1>6. CASE t = "Producer"
  <2>1. produced' = produced + 1 /\ consumed' = consumed
    BY <1>6 DEF Access, AccessItem, PutItem
  <2>2. Items' = Items + 1 /\ Items \in Int
    BY <1>5, <2>1 DEF Items
  <2>3. pc'["Producer"] = "load" /\ pc'["Consumer"] = pc["Consumer"]
    BY <1>1, <1>2, <1>6
  <2>4. Total("Consumer")' = Total("Consumer") + 1
    BY <1>1, <1>3, <1>5, <1>6, <2>3, ConsumerTotal
  <2>5. Total("Consumer") = Items => Total("Consumer")' = Items'
    BY <2>2, <2>4
  <2>6. QED
    BY <1>1, <1>3, <1>4, <1>6, <2>1, <2>5, BodyStep
<1>7. CASE t = "Consumer"
  <2>1. produced' = produced /\ consumed' = Append(consumed, Len(consumed) + 1)
    BY <1>7, GetPool DEF Access, AccessItem, GetItem
  <2>2. Len(consumed') = Len(consumed) + 1
    BY <1>5, <2>1
  <2>3. Items' = Items - 1 /\ Items \in Int
    BY <1>5, <2>1, <2>2 DEF Items
  <2>4. pc'["Consumer"] = "load" /\ pc'["Producer"] = pc["Producer"]
    BY <1>1, <1>2, <1>7
  <2>5. Total("Consumer")' = Total("Consumer") - 1 /\ Total("Consumer") \in Int
    BY <1>1, <1>3, <1>5, <1>7, <2>4, ConsumerTotal
  <2>6. Total("Consumer") = Items => Total("Consumer")' = Items'
    BY <2>3, <2>5
  <2>7. i["Consumer"] = Len(consumed) /\ i["Consumer"] < NLOOPS
    BY <1>1, <1>2, <1>3, <1>5, <1>7 DEF Share
  <2>8. i'["Consumer"] = Len(consumed') - Gives("load")
    BY <1>1, <1>3, <1>5, <2>2, <2>7
  <2>9. QED
    BY <1>1, <1>3, <1>4, <1>7, <2>6, <2>7, <2>8, BodyStep
<1>8. QED
  BY <1>6, <1>7 DEF Sides

\* A step of the producer that calls no semaphore, outside the loop body.
LEMMA ControlStep ==
    ASSUME BInv, Meant, pc["Consumer"] \notin Setup, pc["Producer"] \notin Ending,
           NEW to, pc' = [pc EXCEPT !["Producer"] = to], to \notin {"failed", "aborted"},
           UNCHANGED <<buf, in, out, produced, consumed>>, UNCHANGED sems, i' = i,
           Gives(to) = Gives(pc["Producer"]),
           to \in Ending => pc["Consumer"] = "exited",
           to = "pause" => i["Producer"] = NLOOPS
    PROVE  Meant'
<1>1. /\ Created /\ InTurn /\ Exact /\ Share /\ pc \in [Sides -> Labels] /\ Ring
      /\ "Producer" \in Sides /\ "Consumer" \in Sides
  BY PartsOf DEF Meant
<1>2. pc'["Producer"] = to /\ pc'["Consumer"] = pc["Consumer"]
  BY <1>1
<1>3. Created'
  BY <1>1, <1>2 DEF Created
<1>4. InTurn'
  <2>1. \A t \in Sides : pc'[t] \notin {"failed", "aborted"}
    BY <1>1, <1>2 DEF InTurn, Sides
  <2>2. QED
    BY <1>2, <2>1 DEF InTurn
<1>5. Exact'
  <2>1. Total("Consumer")' = Total("Consumer")
    BY <1>2, ConsumerTotal
  <2>2. Items' = Items
    BY <1>1, RingKept
  <2>3. QED
    BY <1>1, <1>2, <2>1, <2>2 DEF Exact
<1>6. Share'
  BY <1>1, <1>2 DEF Share
<1>7. QED
  BY <1>3, <1>4, <1>5, <1>6 DEF Meant

\* A step of the consumer before its loop.
LEMMA SetupStep ==
    ASSUME BInv, Meant, pc["Consumer"] \in Setup,
           NEW to, pc' = [pc EXCEPT !["Consumer"] = to], to \in Setup \cup {"loop"},
           UNCHANGED <<buf, in, out, produced, consumed>>, i' = i, Created',
           to = "loop" => Balance(sems'["Full"]) = 0
    PROVE  Meant'
<1>1. /\ InTurn /\ Share /\ pc \in [Sides -> Labels] /\ Ring
      /\ "Producer" \in Sides /\ "Consumer" \in Sides
  BY PartsOf DEF Meant
<1>2. pc'["Consumer"] = to /\ pc'["Producer"] = pc["Producer"]
  BY <1>1
<1>3. pc["Producer"] = "start" /\ produced = 0
  BY <1>1 DEF InTurn
<1>4. /\ "start" \notin Ending /\ "start" # "pause" /\ "start" \notin Giving
      /\ "loop" \notin Claiming \cup Giving
      /\ \A l \in Setup \cup {"loop"} : /\ l \notin Claiming \cup Giving
                                        /\ l \notin {"failed", "aborted", "exited"}
  BY DEF Ending, Giving, Claiming, Setup
<1>5. InTurn'
  <2>1. \A t \in Sides : pc'[t] \notin {"failed", "aborted"}
    BY <1>1, <1>2, <1>4 DEF InTurn, Sides
  <2>2. QED
    BY <1>2, <1>3, <1>4, <2>1 DEF InTurn
<1>6. Exact'
  <2>1. SUFFICES ASSUME to = "loop" PROVE Total("Consumer")' = Items'
    BY <1>2 DEF Exact
  <2>2. Claims("loop") = 0 /\ Gives("start") = 0
    BY <1>4, Shares
  <2>3. Total("Consumer")' = 0
    BY <1>2, <1>3, <2>1, <2>2, ConsumerTotal
  <2>4. Items' = 0
    <3>1. Items' = Items /\ Items \in Nat /\ Len(consumed) \in Nat
      BY <1>1, RingKept, Sums, PartsOf DEF Ring, Slotted
    <3>2. Items = 0
      BY <1>3, <3>1 DEF Items
    <3>3. QED
      BY <3>1, <3>2
  <2>5. QED
    BY <2>3, <2>4
<1>7. Share'
  <2>1. Gives(to) = 0 /\ Gives(pc["Consumer"]) = 0
    BY <1>4, Shares
  <2>2. QED
    BY <1>1, <1>2, <1>4, <2>1 DEF Share
<1>8. QED
  BY <1>5, <1>6, <1>7 DEF Meant

\* The calls of semInit, as intended: the consumer creates, the producer finds.
LEMMA OpenMeant == ASSUME BInv, Meant, NEW t \in Sides, Open(t) PROVE Meant'
<1>1. UNCHANGED <<buf, in, out, produced, consumed>> /\ i' = i
  BY DEF Open, bufVars
<1>2. /\ Shape /\ Sound /\ MutexState /\ Created /\ InTurn /\ pc \in [Sides -> Labels]
      /\ "Producer" \in Sides /\ "Consumer" \in Sides
  BY PartsOf DEF Meant
<1>3. PICK s \in Semaphores, to \in {"openFull", "openMutex", Opened[t]} :
        /\ \/ pc[t] = "openEmpty" /\ s = "Empty" /\ to = "openFull"
           \/ pc[t] = "openFull" /\ s = "Full" /\ to = "openMutex"
           \/ pc[t] = "openMutex" /\ s = "Mutex" /\ to = Opened[t]
        /\ sems' = [sems EXCEPT ![s] = CreateOp(sems[s])]
        /\ pc' = [pc EXCEPT ![t] = to]
  BY DEF Open, SemInit, At, Goto, Semaphores
<1>4. \A r \in Semaphores : sems'[r] = IF r = s THEN CreateOp(sems[r]) ELSE sems[r]
  BY <1>2, <1>3 DEF Shape
<1>5. "Empty" \in Semaphores /\ "Full" \in Semaphores /\ "Mutex" \in Semaphores
  BY DEF Semaphores
<1>6. CASE t = "Consumer"
  <2>1. pc["Consumer"] \in Setup /\ to \in Setup
    BY <1>3, <1>6 DEF Setup, Opened
  <2>2. pc["Producer"] = "start" /\ pc["Producer"] \notin Ending
    BY <1>2, <2>1 DEF InTurn, Ending
  <2>3. /\ pc["Consumer"] # "openEmpty" => sems["Empty"].exists
        /\ pc["Consumer"] \notin {"openEmpty", "openFull"} => sems["Full"].exists
        /\ pc["Consumer"] \notin Opening => sems["Mutex"].exists
    BY <1>2, <2>2 DEF Created
  <2>4. pc'["Consumer"] = to
    BY <1>2, <1>3, <1>6
  <2>5. CASE s = "Empty"
    <3>1. to = "openFull" /\ sems'["Empty"].exists
      BY <1>3, <1>4, <1>5, <2>5, CreateLasting
    <3>2. QED
      <4>1. Created'
        BY <2>4, <3>1 DEF Created, Opening
      <4>2. QED
        BY <1>1, <1>3, <1>6, <2>1, <3>1, <4>1, SetupStep
  <2>6. CASE s = "Full"
    <3>1. to = "openMutex" /\ sems'["Full"].exists /\ sems'["Empty"] = sems["Empty"]
      BY <1>3, <1>4, <1>5, <2>6, CreateLasting
    <3>2. sems["Empty"].exists
      BY <1>3, <1>6, <2>3, <2>6
    <3>3. Created'
      BY <2>4, <3>1, <3>2 DEF Created, Opening
    <3>4. QED
      BY <1>1, <1>3, <1>6, <2>1, <3>1, <3>3, SetupStep
  <2>7. CASE s = "Mutex"
    <3>1. /\ to = "setEmpty" /\ sems'["Mutex"].exists
          /\ sems'["Empty"] = sems["Empty"] /\ sems'["Full"] = sems["Full"]
      BY <1>3, <1>4, <1>5, <1>6, <2>7, CreateLasting DEF Opened
    <3>2. sems["Empty"].exists /\ sems["Full"].exists
      BY <1>3, <1>6, <2>3, <2>7
    <3>3. Created'
      BY <2>4, <3>1, <3>2 DEF Created, Opening
    <3>4. QED
      BY <1>1, <1>3, <1>6, <2>1, <3>1, <3>3, SetupStep
  <2>8. QED
    BY <2>5, <2>6, <2>7 DEF Semaphores
<1>7. CASE t = "Producer"
  <2>1. /\ pc["Producer"] \in Opening /\ to \in {"openFull", "openMutex", "loop"}
    BY <1>3, <1>7 DEF Opening, Opened
  <2>2. /\ pc["Producer"] # "start" /\ pc["Producer"] \notin Ending
        /\ pc["Producer"] \notin Giving /\ to \notin Giving
        /\ to \notin {"failed", "aborted"} /\ to \notin Ending /\ to # "pause"
    BY <2>1 DEF Opening, Ending, Giving
  <2>3. pc["Consumer"] \notin Setup
    BY <1>2, <2>2 DEF InTurn
  <2>4. sems[s].exists
    <3>1. pc["Consumer"] # "openEmpty" /\ pc["Consumer"] \notin {"openEmpty", "openFull"}
          /\ pc["Consumer"] \notin Opening
      BY <2>3 DEF Setup, Opening
    <3>2. QED
      BY <1>2, <2>2, <3>1 DEF Created, Semaphores
  <2>5. sems' = sems
    BY <1>2, <1>3, <2>4, CreateCall DEF Shape
  <2>6. Gives(to) = Gives(pc["Producer"])
    BY <2>2, Shares
  <2>7. QED
    BY <1>1, <1>3, <1>7, <2>2, <2>3, <2>5, <2>6, ControlStep
<1>8. QED
  BY <1>6, <1>7 DEF Sides

\* The consumer's calls of semInitValue, as intended.
LEMMA StartMeant == ASSUME BInv, Meant, Start PROVE Meant'
<1>1. /\ UNCHANGED <<buf, in, out, produced, consumed>> /\ i' = i
      /\ ~Asleep("Consumer") /\ pc["Consumer"] \in {"setEmpty", "setMutex", "setFull"}
  BY DEF Start, SetValues, SemInitValue, Call, At, bufVars
<1>2. /\ Shape /\ Sound /\ MutexState /\ Created /\ InTurn /\ pc \in [Sides -> Labels]
      /\ "Producer" \in Sides /\ "Consumer" \in Sides
      /\ WaitsFor["Producer"] = "Empty" /\ WaitsFor["Consumer"] = "Full"
  BY PartsOf, Tokens DEF Meant
<1>3. pc["Consumer"] \in Setup /\ pc["Consumer"] \notin Opening
  BY <1>1 DEF Setup, Opening
<1>4. pc["Producer"] = "start" /\ pc["Producer"] \notin Ending
  BY <1>2, <1>3 DEF InTurn, Ending
<1>5. \A s \in Semaphores : sems[s].exists
  <2>1. pc["Consumer"] # "openEmpty" /\ pc["Consumer"] \notin {"openEmpty", "openFull"}
    BY <1>1
  <2>2. QED
    BY <1>2, <1>3, <1>4, <2>1 DEF Created, Semaphores
<1>6. PICK s \in Semaphores, w \in {MAX_BUF, 1, 0}, to \in {"setMutex", "setFull", "loop"} :
        /\ sems' = [sems EXCEPT ![s] = SetValOp(sems[s], w)]
        /\ pc' = [pc EXCEPT !["Consumer"] = to]
        /\ to = "loop" => s = "Full" /\ w = 0
  BY <1>5 DEF Start, SetValues, SemInitValue, Call, Goto, Semaphores
<1>7. w \in Nat /\ to \in Setup \cup {"loop"}
  BY <1>6, BufferAssumption DEF Setup
<1>8. SetValOp(sems[s], w).exists
  <2>1. CASE s = "Mutex"
    BY <1>2, <1>5, <2>1, MutexLasting
  <2>2. CASE s # "Mutex"
    <3>1. PICK t \in Sides : s = WaitsFor[t]
      BY <2>2, Tokens DEF Semaphores, Sides
    <3>2. SoundToken(t, sems[s]) /\ sems[s].exists
      BY <1>2, <1>5, <3>1 DEF Sound
    <3>3. QED
      BY <1>7, <3>2, SoundSet
  <2>3. QED
    BY <2>1, <2>2
<1>9. \A r \in Semaphores : sems'[r].exists
  BY <1>2, <1>5, <1>6, <1>8, StillThere
<1>10. Created'
  BY <1>9 DEF Created, Semaphores
<1>11. ASSUME to = "loop" PROVE Balance(sems'["Full"]) = 0
  <2>1. SoundToken("Consumer", sems["Full"]) /\ sems["Full"].queue = << >>
    BY <1>1, <1>2, AwakeBalance DEF Sound
  <2>2. sems'["Full"] = SetValOp(sems["Full"], 0)
    BY <1>2, <1>6, <1>11 DEF Shape
  <2>3. Balance(SetValOp(sems["Full"], 0)) = 0 - Len(sems["Full"].queue)
    BY <1>2, <2>1, SoundSet
  <2>4. Len(sems["Full"].queue) = 0
    BY <2>1, EmptySeq
  <2>5. QED
    BY <2>2, <2>3, <2>4
<1>12. QED
  BY <1>1, <1>3, <1>6, <1>7, <1>10, <1>11, SetupStep

\* The consumer's exit, as intended: it has done its loop, and nothing failed.
LEMMA ExitMeant == ASSUME BInv, Meant, NEW t \in Sides, Exit(t) PROVE Meant'
<1>1. UNCHANGED <<buf, in, out, produced, consumed>> /\ i' = i /\ Leave(t, "exited")
  BY DEF Exit, bufVars
<1>2. /\ Shape /\ Sound /\ MutexState /\ Created /\ InTurn /\ Share
      /\ pc \in [Sides -> Labels] /\ "Producer" \in Sides /\ "Consumer" \in Sides
  BY PartsOf DEF Meant
<1>3. t = "Consumer" /\ pc[t] = "loop" /\ i[t] = NLOOPS
  BY <1>2 DEF Exit, At, InTurn
<1>4. pc'["Consumer"] = "exited" /\ pc'["Producer"] = pc["Producer"]
  BY <1>1, <1>2, <1>3 DEF Leave, Goto
<1>5. /\ pc["Consumer"] \notin Setup /\ "exited" \notin Setup /\ "exited" \in Gone
      /\ "exited" \notin Claiming \cup Giving /\ "loop" \notin Giving
      /\ pc["Consumer"] # "openEmpty" /\ pc["Consumer"] \notin {"openEmpty", "openFull"}
      /\ pc["Consumer"] \notin Opening
  BY <1>3 DEF Setup, Gone, Claiming, Giving, Opening
<1>6. \A s \in Semaphores : sems'[s].exists = sems[s].exists
  <2>1. \A s \in Semaphores : sems'[s] = ExitOp(sems[s], t)
    BY <1>1 DEF Leave
  <2>2. ExitOp(sems["Mutex"], t).exists = sems["Mutex"].exists
    BY <1>2, MutexLasting
  <2>3. ASSUME NEW u \in Sides
        PROVE  ExitOp(sems[WaitsFor[u]], t).exists = sems[WaitsFor[u]].exists
    <3>1. SoundToken(u, sems[WaitsFor[u]])
      BY <1>2 DEF Sound
    <3>2. QED
      BY <3>1, SoundExit
  <2>4. QED
    BY <1>2, <2>1, <2>2, <2>3, Tokens DEF Semaphores
<1>7. Created'
  BY <1>2, <1>4, <1>5, <1>6 DEF Created, Semaphores
<1>8. InTurn'
  <2>1. \A u \in Sides : pc'[u] \notin {"failed", "aborted"}
    BY <1>2, <1>4 DEF InTurn, Sides
  <2>2. QED
    BY <1>1, <1>2, <1>4, <1>5, <2>1 DEF InTurn
<1>9. Exact'
  BY <1>4, <1>5 DEF Exact
<1>10. Share'
  <2>1. Gives("exited") = 0 /\ Gives(pc["Consumer"]) = 0 /\ Len(consumed) \in Nat
    BY <1>3, <1>5, Shares, PartsOf DEF Ring, Slotted
  <2>2. i["Consumer"] = Len(consumed) /\ i["Consumer"] = NLOOPS
    BY <1>2, <1>3, <2>1 DEF Share
  <2>3. QED
    BY <1>1, <1>4, <1>5, <2>1, <2>2 DEF Share
<1>11. QED
  BY <1>7, <1>8, <1>9, <1>10 DEF Meant

\* When the producer has made its items and pauses, the consumer is not asleep.
LEMMA PauseAwake ==
    ASSUME BInv, Meant, pc["Producer"] = "pause", pc["Consumer"] \notin Setup
    PROVE  ~Asleep("Consumer")
<1>1. /\ Shape /\ Sound /\ MutexState /\ TokenState /\ InTurn /\ Exact /\ Share /\ Progress
      /\ Ring /\ "Producer" \in Sides /\ "Consumer" \in Sides
  BY PartsOf DEF Meant
<1>2. "Consumer" \notin Sleepers(sems["Empty"])
  BY <1>1, TokenSleepers, Tokens
<1>3. "Consumer" \notin Sleepers(sems["Full"])
  <2> SUFFICES ASSUME "Consumer" \in Sleepers(sems["Full"]) PROVE FALSE
    OBVIOUS
  <2>1. pc["Consumer"] = "waitMutex"
    BY <1>1, TokenSleepers, Tokens
  <2>2. SoundToken("Consumer", sems["Full"])
    BY <1>1, Tokens DEF Sound
  <2>3. sems["Full"].queue # << >>
    BY <1>1, SleepersOf
  <2>4. Balance(sems["Full"]) = -1
    <3>1. sems["Full"].val = 0 /\ IsToken("Consumer", sems["Full"])
      BY <2>2, <2>3 DEF SoundToken
    <3>2. Balance(sems["Full"]) = sems["Full"].val - 1
      BY <1>1, <2>3, <3>1, TokenFields
    <3>3. QED
      BY <3>1, <3>2
  <2>5. /\ Claims("waitMutex") = 1 /\ Gives("waitMutex") = 0 /\ Gives("pause") = 0
        /\ "waitMutex" \in Claiming /\ "waitMutex" \notin Setup \cup Gone
        /\ "pause" \notin Giving \cup Gone \cup {"failed"}
    BY Shares DEF Claiming, Giving, Setup, Gone
  <2>6. Total("Consumer") = 0
    BY <2>1, <2>4, <2>5, ConsumerTotal
  <2>7. Items = 0
    BY <1>1, <2>1, <2>5, <2>6 DEF Exact
  <2>8. produced = NLOOPS /\ produced \in Nat
    BY <1>1, <2>5, BufferAssumption DEF InTurn, Progress, Reached
  <2>9. Len(consumed) \in Nat
    BY <1>1 DEF Ring, Slotted
  <2>10. Len(consumed) = NLOOPS
    BY <2>7, <2>8, <2>9 DEF Items
  <2>11. i["Consumer"] = Len(consumed) /\ i["Consumer"] < NLOOPS
    BY <1>1, <2>1, <2>5, <2>9 DEF Share
  <2>12. QED
    BY <2>8, <2>10, <2>11
<1>4. "Consumer" \notin Sleepers(sems["Mutex"])
  <2>1. pc["Producer"] \notin InMutex /\ "access" \notin Preset \cup {"aborted"}
    BY DEF InMutex, Preset, Opening
  <2>2. CASE Missing
    <3>1. ASSUME NEW v, NEW undo PROVE Removed(v, undo).queue = << >>
      BY DEF Sem, Removed
    <3>2. sems["Mutex"].queue = << >>
      BY <2>2, <3>1 DEF Missing
    <3>3. QED
      BY <1>1, <3>2, SleepersOf
  <2>3. CASE Unset
    <3>1. pc["Consumer"] # "access"
      BY <2>1, <2>3 DEF Unset
    <3>2. QED
      BY <1>1, <3>1, MutexSleepers
  <2>4. CASE Free
    BY <1>1, <2>4, MutexShape DEF Free
  <2>5. CASE Held("Consumer")
    <3>1. Other("Consumer") = "Producer" /\ "access" \in InMutex
      BY Others DEF InMutex
    <3>2. sems["Mutex"] = MutexIs(0, << >>, "Consumer")
      BY <2>1, <2>5, <3>1 DEF Held
    <3>3. QED
      BY <1>1, <3>2, MutexShape
  <2>6. QED
    BY <1>1, <2>1, <2>2, <2>3, <2>4, <2>5 DEF MutexState, Held
<1>5. QED
  BY <1>2, <1>3, <1>4 DEF Asleep, Semaphores

\* What the producer does alone, as intended: the two seconds are over when the
\* consumer has ended.
LEMMA ProducerMeant ==
    ASSUME BInv, Meant, setting = "intended", StartProducer \/ Pause \/ EndPause
    PROVE  Meant'
<1>1. UNCHANGED <<buf, in, out, produced, consumed>> /\ UNCHANGED sems /\ i' = i
  BY DEF StartProducer, Pause, EndPause, bufVars
<1>2. /\ InTurn /\ "Consumer" \in Sides
  BY PartsOf DEF Meant
<1>3. /\ \A l \in {"start", "loop", "pause"} :
            l \notin Ending /\ l \notin Giving /\ l \notin {"failed", "aborted"}
      /\ "openEmpty" \notin Ending \cup Giving /\ "destroyEmpty" \notin Giving
  BY DEF Ending, Giving
<1>4. CASE StartProducer
  <2>1. /\ pc["Producer"] = "start" /\ pc["Consumer"] \notin Setup
        /\ pc' = [pc EXCEPT !["Producer"] = "openEmpty"]
    BY <1>4 DEF StartProducer, At, Goto
  <2>2. Gives("openEmpty") = Gives(pc["Producer"])
    BY <1>3, <2>1, Shares
  <2>3. /\ pc["Producer"] \notin Ending /\ "openEmpty" \notin {"failed", "aborted"}
        /\ "openEmpty" \notin Ending /\ "openEmpty" # "pause"
    BY <1>3, <2>1
  <2>4. QED
    BY <1>1, <2>1, <2>2, <2>3, ControlStep
<1>5. CASE Pause
  <2>1. /\ pc["Producer"] = "loop" /\ i["Producer"] = NLOOPS
        /\ pc' = [pc EXCEPT !["Producer"] = "pause"]
    BY <1>5 DEF Pause, At, Goto
  <2>2. pc["Consumer"] \notin Setup
    BY <1>2, <2>1 DEF InTurn
  <2>3. Gives("pause") = Gives(pc["Producer"])
    BY <1>3, <2>1, Shares
  <2>4. QED
    BY <1>1, <1>3, <2>1, <2>2, <2>3, ControlStep
<1>6. CASE EndPause
  <2>1. /\ pc["Producer"] = "pause"
        /\ pc["Consumer"] \in Gone \/ Asleep("Consumer")
        /\ pc' = [pc EXCEPT !["Producer"] = "destroyEmpty"]
    BY <1>6 DEF EndPause, At, Goto
  <2>2. pc["Consumer"] \notin Setup
    BY <1>2, <2>1 DEF InTurn
  <2>3. pc["Consumer"] = "exited"
    BY <1>2, <2>1, <2>2, PauseAwake DEF InTurn, Gone
  <2>4. Gives("destroyEmpty") = Gives(pc["Producer"])
    BY <1>3, <2>1, Shares
  <2>5. /\ pc["Producer"] \notin Ending /\ "destroyEmpty" \notin {"failed", "aborted"}
        /\ "destroyEmpty" # "pause"
    BY <1>3, <2>1
  <2>6. QED
    BY <1>1, <2>1, <2>2, <2>3, <2>4, <2>5, ControlStep
<1>7. QED
  BY <1>4, <1>5, <1>6

\* The producer destroys the semaphores when the consumer has ended.
LEMMA DestroyMeant == ASSUME BInv, Meant, DestroyAll PROVE Meant'
<1>1. UNCHANGED <<buf, in, out, produced, consumed>> /\ i' = i
  BY DEF DestroyAll, bufVars
<1>2. /\ MutexState /\ TokenState /\ InTurn /\ Share
      /\ "Producer" \in Sides /\ "Consumer" \in Sides
  BY PartsOf DEF Meant
<1>3. PICK s \in Semaphores, to \in {"destroyMutex", "destroyFull", "exited"} :
        /\ pc["Producer"] \in {"destroyEmpty", "destroyMutex", "destroyFull"}
        /\ pc' = [q \in Sides |-> IF q = "Producer" THEN to
                                  ELSE IF q \in Sleepers(sems[s]) THEN "failed"
                                  ELSE pc[q]]
  BY DEF DestroyAll, SemDestroy, At, Semaphores
<1>4. pc["Producer"] \in Ending /\ to \in Ending /\ to \notin {"failed", "aborted", "pause"}
  BY <1>3 DEF Ending
<1>5. pc["Consumer"] = "exited"
  BY <1>2, <1>4 DEF InTurn
<1>6. "Consumer" \notin Sleepers(sems[s])
  BY <1>2, <1>5, MutexSleepers, TokenSleepers, Tokens DEF Semaphores
<1>7. pc'["Producer"] = to /\ pc'["Consumer"] = "exited"
  BY <1>2, <1>3, <1>5, <1>6
<1>8. "exited" \notin Setup /\ "exited" \in Gone
  BY DEF Setup, Gone
<1>9. Created' /\ Exact'
  BY <1>4, <1>7, <1>8 DEF Created, Exact
<1>10. InTurn'
  <2>1. \A u \in Sides : pc'[u] \notin {"failed", "aborted"}
    BY <1>4, <1>7 DEF Sides
  <2>2. QED
    BY <1>4, <1>7, <1>8, <2>1 DEF InTurn
<1>11. Share'
  BY <1>1, <1>2, <1>5, <1>7 DEF Share
<1>12. QED
  BY <1>9, <1>10, <1>11 DEF Meant

\* What holds as intended, at first.
LEMMA MeantInitial == Init => Meant
<1> SUFFICES ASSUME Init PROVE Meant
  OBVIOUS
<1>1. /\ pc["Producer"] = "start" /\ pc["Consumer"] = "openEmpty"
      /\ i["Consumer"] = 0 /\ produced = 0 /\ consumed = << >>
  BY DEF Init, BufInit, Sides
<1>2. /\ "openEmpty" \in Setup /\ "openEmpty" \in Opening
      /\ "openEmpty" \notin Claiming \cup Giving /\ "start" \notin Ending
  BY DEF Setup, Opening, Claiming, Giving, Ending
<1>3. Created /\ Exact
  BY <1>1, <1>2 DEF Created, Exact
<1>4. InTurn
  BY <1>1, <1>2 DEF InTurn, Sides
<1>5. Share
  <2>1. Gives("openEmpty") = 0 /\ Len(consumed) = 0
    BY <1>1, <1>2, Shares, EmptySeq
  <2>2. QED
    BY <1>1, <1>2, <2>1 DEF Share
<1>6. QED
  BY <1>3, <1>4, <1>5 DEF Meant

\* How the two are run stays.
LEMMA SettingStays == ASSUME [Next]_vars PROVE setting' = setting
<1>1. ASSUME NEW t \in Sides, Side(t) PROVE setting' = setting
  BY <1>1 DEF Side, Open, WaitToken, WaitMutex, Access, Load, Store, PostMutex, PostToken,
              Exit
<1>2. StartProducer \/ Pause \/ EndPause \/ DestroyAll \/ Start => setting' = setting
  BY DEF StartProducer, Pause, EndPause, DestroyAll, Start, SetValues
<1>3. ASSUME NEW t \in Sides, Kill(t) PROVE setting' = setting
  BY <1>3 DEF Kill
<1>4. UNCHANGED vars => setting' = setting
  BY DEF vars
<1>5. Producer \/ Consumer => setting' = setting
  BY <1>1, <1>2 DEF Producer, Consumer, Sides
<1>6. QED
  BY <1>3, <1>4, <1>5 DEF Next, Stopped

\* Every step preserves what holds as intended.
LEMMA MeantConsecution == AInv /\ [Next]_vars => AInv'
<1> SUFFICES ASSUME AInv, [Next]_vars PROVE AInv'
  OBVIOUS
<1>1. BInv /\ setting \in Settings /\ (setting = "intended" => Meant)
  BY DEF AInv
<1>2. BInv' /\ setting' = setting
  BY <1>1, PoolsConsecution, SettingStays
<1>3. ASSUME setting = "intended" PROVE Meant'
  <2>1. BInv /\ Meant
    BY <1>1, <1>3
  <2>2. CASE UNCHANGED vars
    <3>1. UNCHANGED <<sems, pc, i, produced, consumed>>
      BY <2>2 DEF vars, bufVars
    <3>2. Created' /\ Share'
      BY <2>1, <3>1 DEF Meant, Created, Share
    <3>3. InTurn'
      BY <2>1, <3>1 DEF Meant, InTurn
    <3>4. Exact'
      BY <2>1, <3>1 DEF Meant, Exact, Total, Items
    <3>5. QED
      BY <3>2, <3>3, <3>4 DEF Meant
  <2>3. ASSUME NEW t \in Sides, Side(t) PROVE Meant'
    <3>1. CASE Open(t) \/ WaitToken(t) \/ Access(t) \/ PostToken(t) \/ Exit(t)
      BY <2>1, <3>1, OpenMeant, WaitTokenMeant, AccessMeant, PostTokenMeant, ExitMeant
    <3>2. CASE WaitMutex(t) \/ Load(t) \/ Store(t) \/ PostMutex(t)
      BY <2>1, <3>2, InsideMeant
    <3>3. QED
      BY <2>3, <3>1, <3>2 DEF Side
  <2>4. StartProducer \/ Pause \/ EndPause \/ DestroyAll \/ Start => Meant'
    BY <1>3, <2>1, ProducerMeant, DestroyMeant, StartMeant
  <2>5. \A t \in Sides : ~Kill(t)
    BY <1>3 DEF Kill
  <2>6. QED
    BY <2>2, <2>3, <2>4, <2>5 DEF Next, Producer, Consumer, Stopped, Sides
<1>4. QED
  BY <1>1, <1>2, <1>3 DEF AInv

\* What holds when the producer is started when the semaphores have their values,
\* and sleep(2) is long enough for the consumer, next to the pools of permits.
THEOREM AsIntended == Spec => []AInv
<1>1. Init => AInv
  BY Initial, PoolsInitial, MeantInitial DEF AInv, BInv, Init
<1>2. AInv /\ [Next]_vars => AInv'
  BY MeantConsecution
<1>3. QED
  BY <1>1, <1>2, PTL DEF Spec

\* Started as consumer_s.c asks for, unless a signal kills one of them, the consumer
\* never fails because a semaphore is gone, and it ends with every item.
THEOREM AllGot == ASSUME "unordered" \notin Settings PROVE Spec => []AllConsumed
<1>1. AInv => AllConsumed
  <2> SUFFICES ASSUME AInv, setting # "harsh", pc["Consumer"] \in {"failed", "exited"}
               PROVE  consumed = [k \in 1..NLOOPS |-> k]
    BY DEF AllConsumed
  <2>1. setting = "intended"
    BY RunAssumption DEF AInv
  <2>2. InTurn /\ Share /\ Ring /\ "Consumer" \in Sides
    BY <2>1, PartsOf DEF AInv, Meant
  <2>3. Len(consumed) = NLOOPS
    BY <2>2 DEF InTurn, Share
  <2>4. consumed \in Seq(Nat) /\ \A k \in DOMAIN consumed : consumed[k] = k
    BY <2>2 DEF Ring, Slotted, InOrder
  <2>5. DOMAIN consumed = 1..NLOOPS /\ consumed = [k \in DOMAIN consumed |-> consumed[k]]
    BY <2>3, <2>4
  <2>6. QED
    BY <2>4, <2>5
<1>2. QED
  BY <1>1, AsIntended, PTL
==============================================================================
