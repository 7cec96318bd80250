------------------------------ MODULE ProdConsS ------------------------------
(***************************************************************************)
(* "6_Synchronization/prodcons_s.c": a producer and a consumer thread that *)
(* share a buffer under three semaphores, and the main thread that joins   *)
(* them and destroys the semaphores.  A semaphore operation is one step:   *)
(* SemLib2 implements exactly that (SemLib2!ImplementsSemaphore).          *)
(***************************************************************************)
EXTENDS SharedBuffer

VARIABLES sem,     \* the values of EmptySem, FullSem and MutexSem
          pc,      \* where each thread is
          i        \* the loop counter of each side

vars == <<bufVars, sem, pc, i>>

Semaphores == {"Empty", "Full", "Mutex"}

WaitsFor == [Producer |-> "Empty", Consumer |-> "Full"]
Posts    == [Producer |-> "Full",  Consumer |-> "Empty"]

InMutex == {"access", "load", "store", "postMutex"}
SideLabels == {"loop", "waitMutex", "postToken", "exited"} \cup InMutex
MainLabels == {"join1", "join2", "destroy", "returned"}

Goto(t, label) == pc' = [pc EXCEPT ![t] = label]

\* sem_wait and sem_post
Wait(s) == sem[s] > 0 /\ sem' = [sem EXCEPT ![s] = @ - 1]
Post(s) == sem' = [sem EXCEPT ![s] = @ + 1]

\* A faulty Init: one token too many.
InitOneTooMany ==
    /\ BufInit
    /\ sem = [Empty |-> MAX_BUF + 1, Full |-> 0, Mutex |-> 1]
    /\ pc = [Producer |-> "loop", Consumer |-> "loop", main |-> "join1"]
    /\ i = [t \in Sides |-> 0]

Init == /\ BufInit
        /\ sem = [Empty |-> MAX_BUF, Full |-> 0, Mutex |-> 1]
        /\ pc = [Producer |-> "loop", Consumer |-> "loop", main |-> "join1"]
        /\ i = [t \in Sides |-> 0]

\* A faulty WaitToken: i <= NLOOPS.
WaitTokenOnceMore(t) == /\ pc[t] = "loop"
                        /\ i[t] <= NLOOPS
                        /\ Wait(WaitsFor[t])
                        /\ Goto(t, "waitMutex")
                        /\ UNCHANGED <<bufVars, i>>

WaitToken(t) == /\ pc[t] = "loop"
                /\ i[t] < NLOOPS
                /\ Wait(WaitsFor[t])
                /\ Goto(t, "waitMutex")
                /\ UNCHANGED <<bufVars, i>>

\* A faulty WaitMutex: does not wait.
WaitMutexSkipped(t) == /\ pc[t] = "waitMutex"
                       /\ Goto(t, "access")
                       /\ UNCHANGED <<bufVars, sem, i>>

WaitMutex(t) == /\ pc[t] = "waitMutex"
                /\ Wait("Mutex")
                /\ Goto(t, "access")
                /\ UNCHANGED <<bufVars, i>>

Access(t) == /\ pc[t] = "access"
             /\ AccessItem(t)
             /\ Goto(t, "load")
             /\ UNCHANGED <<sem, i>>

Load(t) == /\ pc[t] = "load"
           /\ LoadCounter(t)
           /\ Goto(t, "store")
           /\ UNCHANGED <<sem, i>>

Store(t) == /\ pc[t] = "store"
            /\ StoreCounter(t)
            /\ Goto(t, "postMutex")
            /\ UNCHANGED <<sem, i>>

\* A faulty PostMutex: posts the token here already.
PostMutexAndToken(t) == /\ pc[t] = "postMutex"
                        /\ sem' = [sem EXCEPT !["Mutex"] = @ + 1,
                                              ![Posts[t]] = @ + 1]
                        /\ Goto(t, "postToken")
                        /\ UNCHANGED <<bufVars, i>>

PostMutex(t) == /\ pc[t] = "postMutex"
                /\ Post("Mutex")
                /\ Goto(t, "postToken")
                /\ UNCHANGED <<bufVars, i>>

\* A faulty PostToken: posts the semaphore of its own side.
PostTokenOwn(t) == /\ pc[t] = "postToken"
                   /\ Post(WaitsFor[t])
                   /\ i' = [i EXCEPT ![t] = @ + 1]
                   /\ Goto(t, "loop")
                   /\ UNCHANGED bufVars

\* The last call of the loop body; ThreadUsleep after it only delays.
PostToken(t) == /\ pc[t] = "postToken"
                /\ Post(Posts[t])
                /\ i' = [i EXCEPT ![t] = @ + 1]
                /\ Goto(t, "loop")
                /\ UNCHANGED bufVars

Exit(t) == /\ pc[t] = "loop"
           /\ i[t] = NLOOPS
           /\ Goto(t, "exited")
           /\ UNCHANGED <<bufVars, sem, i>>

Side(t) == \/ WaitToken(t) \/ WaitMutex(t)
           \/ Access(t) \/ Load(t) \/ Store(t)
           \/ PostMutex(t) \/ PostToken(t) \/ Exit(t)

Join(t, from, to) == /\ pc["main"] = from
                     /\ pc[t] = "exited"
                     /\ Goto("main", to)
                     /\ UNCHANGED <<bufVars, sem, i>>

\* main prints Buf.counter, destroys the three semaphores and returns.
Destroy == /\ pc["main"] = "destroy"
           /\ Goto("main", "returned")
           /\ UNCHANGED <<bufVars, sem, i>>

\* A faulty Main: joins the producer only.
MainJoiningOne == Join("Producer", "join1", "destroy") \/ Destroy

Main == \/ Join("Producer", "join1", "join2")
        \/ Join("Consumer", "join2", "destroy")
        \/ Destroy

Ended == pc["main"] = "returned" /\ UNCHANGED vars

Next == (\E t \in Sides : Side(t)) \/ Main \/ Ended

Spec == /\ Init /\ [][Next]_vars
        /\ \A t \in Sides : WF_vars(Side(t))
        /\ WF_vars(Main)
------------------------------------------------------------------------------
(* Properties *)

TypeOK == /\ BufTypeOK
          /\ sem \in [Semaphores -> 0..MAX_BUF]
          /\ DOMAIN pc = Sides \cup {"main"}
          /\ \A t \in Sides : pc[t] \in SideLabels
          /\ pc["main"] \in MainLabels
          /\ i \in [Sides -> 0..NLOOPS]

Bit(b) == IF b THEN 1 ELSE 0

\* Between its sem_wait and its sem_post a side holds one token.
Holds(t) == Bit(pc[t] \in {"waitMutex", "postToken"} \cup InMutex)

\* Tokens are neither lost nor made: MAX_BUF of them are free, full or held by
\* a side on its way through the loop body (prodcons_s.c:60-82, 99-120).
TokensConserved ==
    sem["Empty"] + sem["Full"] + Holds("Producer") + Holds("Consumer")
        = MAX_BUF

\* Buf.counter, which both threads change, never misses an update: it differs
\* from the number of items in the buffer only for the thread that has moved
\* its item and not yet stored the counter (prodcons_s.c:71-73, 109-111).
CounterExact ==
    counter = produced - Len(consumed)
              - Bit(pc["Producer"] \in {"load", "store"})
              + Bit(pc["Consumer"] \in {"load", "store"})

\* When main destroys the semaphores and prints "0 items in buffer", no thread
\* can use them any more, and everything produced was consumed in order.
FinalReport == pc["main"] \in {"destroy", "returned"} =>
                  /\ \A t \in Sides : pc[t] = "exited"
                  /\ counter = 0
                  /\ consumed = [k \in 1..NLOOPS |-> k]

\* A side at a sem_wait that has to wait there.
Waits(t) == \/ pc[t] = "loop" /\ i[t] < NLOOPS /\ sem[WaitsFor[t]] = 0
            \/ pc[t] = "waitMutex" /\ sem["Mutex"] = 0

\* Nobody is left waiting: while a side waits for a token or for the mutex the
\* other, who is to post it, neither waits nor has ended (prodcons_s.c:60-82,
\* 99-120): the two never wait for each other, nor one for ever for the rest.
NobodyLeftWaiting ==
    \A t \in Sides : Waits(t) =>
        \E u \in Sides : pc[u] # "exited" /\ ~Waits(u)

\* The program is a bounded FIFO buffer: nothing is lost, repeated or
\* reordered, and every item gets through.
ImplementsFifo == Fifo!Spec
==============================================================================
