------------------------------ MODULE ProdConsT ------------------------------
(***************************************************************************)
(* "6_Synchronization/prodcons_t.c", and producer.c with consumer.c: the   *)
(* two sides synchronise by busy waiting on counter and nothing else.  In  *)
(* prodcons_t.c they are threads, in producer.c and consumer.c processes   *)
(* on a shared memory segment; the accesses are the same.  The makefile    *)
(* builds without optimisation, so a spinning side reads counter afresh.   *)
(***************************************************************************)
EXTENDS SharedBuffer

VARIABLES pc,     \* where each side is
          i,      \* the loop counter of each side
          lost    \* history: an update of counter has overwritten another one

vars == <<bufVars, pc, i, lost>>

SideLabels == {"loop", "access", "load", "store", "exited"}

Goto(t, label) == pc' = [pc EXCEPT ![t] = label]

Init == /\ BufInit
        /\ pc = [t \in Sides |-> "loop"]
        /\ i = [t \in Sides |-> 0]
        /\ lost = FALSE

\* A faulty Proceed: does not wait.
ProceedAlways(t) == /\ pc[t] = "loop"
                    /\ i[t] < NLOOPS
                    /\ Goto(t, "access")
                    /\ UNCHANGED <<bufVars, i, lost>>

\* The read of counter that ends the wait, if there was one; reading the value
\* that means "wait" changes nothing.
Proceed(t) == /\ pc[t] = "loop"
              /\ i[t] < NLOOPS
              /\ counter # MustWait[t]
              /\ Goto(t, "access")
              /\ UNCHANGED <<bufVars, i, lost>>

Access(t) == /\ pc[t] = "access"
             /\ AccessItem(t)
             /\ Goto(t, "load")
             /\ UNCHANGED <<i, lost>>

Load(t) == /\ pc[t] = "load"
           /\ LoadCounter(t)
           /\ Goto(t, "store")
           /\ UNCHANGED <<i, lost>>

Store(t) == /\ pc[t] = "store"
            /\ StoreCounter(t)
            /\ lost' = (lost \/ counter # reg[t])
            /\ i' = [i EXCEPT ![t] = @ + 1]
            /\ Goto(t, "loop")

Exit(t) == /\ pc[t] = "loop"
           /\ i[t] = NLOOPS
           /\ Goto(t, "exited")
           /\ UNCHANGED <<bufVars, i, lost>>

Side(t) == Proceed(t) \/ Access(t) \/ Load(t) \/ Store(t) \/ Exit(t)

\* Both sides have ended, or one has and the other spins for ever.
Spin(t) == /\ pc[t] = "loop"
           /\ i[t] < NLOOPS
           /\ counter = MustWait[t]
           /\ UNCHANGED vars

Ended == (\A t \in Sides : pc[t] = "exited") /\ UNCHANGED vars

Next == (\E t \in Sides : Side(t) \/ Spin(t)) \/ Ended

Spec == Init /\ [][Next]_vars /\ \A t \in Sides : WF_vars(Side(t))
------------------------------------------------------------------------------
(* Properties *)

TypeOK == /\ BufTypeOK
          /\ pc \in [Sides -> SideLabels]
          /\ i \in [Sides -> 0..NLOOPS]
          /\ lost \in BOOLEAN

\* Both sides update counter without a lock and lose updates, yet neither can
\* drive it below 0 or above MAX_BUF: the "== MAX_BUF" and "== 0" of the two
\* waits (prodcons_t.c:57-60, 79-82) are never jumped over, and a value a side
\* holds in a register is one it may store.
CounterInRange ==
    /\ counter \in 0..MAX_BUF
    /\ pc["Producer"] \in {"access", "load"} => counter < MAX_BUF
    /\ pc["Consumer"] \in {"access", "load"} => counter > 0

\* Until an update of counter is lost the consumer has the first items in order
\* and the slots from out on hold the next ones (prodcons_t.c:63-66, 84-87).
FifoUntilLost ==
    ~lost => /\ InOrder
             /\ \A k \in 1 .. produced - Len(consumed) :
                   buf[(out + k - 1) % MAX_BUF] = Len(consumed) + k

\* Until an update of counter is lost nobody is left spinning: while a side
\* spins the other neither spins nor has ended (prodcons_t.c:57-60, 79-82).
NoneLeftSpinning ==
    ~lost => \A t, u \in Sides :
               pc[t] = "loop" /\ i[t] < NLOOPS /\ counter = MustWait[t] /\ u # t =>
                 /\ pc[u] # "exited"
                 /\ ~(pc[u] = "loop" /\ i[u] < NLOOPS /\ counter = MustWait[u])

\* As long as no update of counter is lost, the buffer works: it is a FIFO,
\* neither side spins for ever, and both get through their loops.
WorksUntilLost == /\ []FifoUntilLost
                  /\ []NoneLeftSpinning
                  /\ []~lost => <>(\A t \in Sides : pc[t] = "exited")
==============================================================================
