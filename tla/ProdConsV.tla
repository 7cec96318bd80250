------------------------------ MODULE ProdConsV ------------------------------
(***************************************************************************)
(* "6_Synchronization/producer_s.c" and consumer_s.c: two processes that   *)
(* share the buffer in a shared memory segment under three System V        *)
(* semaphores.  The consumer gives the semaphores their values, the        *)
(* producer destroys them two seconds after its last item.                 *)
(***************************************************************************)
EXTENDS SharedBuffer

CONSTANTS Settings,   \* how the two are run
          MaxKills    \* bound: processes killed by a signal, if they are

\* intended: the producer is started when the consumer has set the semaphores,
\*           and the two seconds are enough for the consumer
\* unordered: the two are started in any order
\* harsh: they also take any time, and a signal may kill them
ASSUME RunAssumption == /\ Settings \subseteq {"intended", "unordered", "harsh"}
                        /\ MaxKills \in Nat

VARIABLES setting, \* how this run is made
          sems,    \* the semaphores, by name
          pc,      \* where each process is; where it goes on, if it sleeps
          i,       \* the loop counter of each side
          kills    \* processes killed so far

vars == <<bufVars, setting, sems, pc, i, kills>>

Semaphores == {"Empty", "Full", "Mutex"}

INSTANCE SysVProcs WITH Procs <- Sides, Names <- Semaphores

WaitsFor == [Producer |-> "Empty", Consumer |-> "Full"]
Posts    == [Producer |-> "Full",  Consumer |-> "Empty"]

InMutex == {"access", "load", "store", "postMutex"}
Setup   == {"openEmpty", "openFull", "openMutex",
            "setEmpty", "setMutex", "setFull"}
Gone    == {"exited", "aborted"}   \* aborted: killed while setting values
\* A fresh segment holds zeros, fresh semaphores have the value 0.
Init == /\ BufInit
        /\ setting \in Settings
        /\ sems = [s \in Semaphores |-> Absent]
        /\ pc = [Producer |-> "start", Consumer |-> "openEmpty"]
        /\ i = [t \in Sides |-> 0]
        /\ kills = 0

StartProducer == /\ At("Producer", "start")
                 /\ setting = "intended" => pc["Consumer"] \notin Setup
                 /\ Goto("Producer", "openEmpty")
                 /\ UNCHANGED <<setting, bufVars, sems, i, kills>>

Opened == [Producer |-> "loop", Consumer |-> "setEmpty"]

Open(t) == /\ \/ SemInit(t, "openEmpty", "Empty", "openFull")
              \/ SemInit(t, "openFull", "Full", "openMutex")
              \/ SemInit(t, "openMutex", "Mutex", Opened[t])
           /\ UNCHANGED <<setting, bufVars, i, kills>>

SetValues(empty, full, mutex) ==
    /\ \/ SemInitValue("Consumer", "setEmpty", "Empty", empty, "setMutex")
       \/ SemInitValue("Consumer", "setMutex", "Mutex", mutex, "setFull")
       \/ SemInitValue("Consumer", "setFull", "Full", full, "loop")
    /\ UNCHANGED <<setting, bufVars, i, kills>>

\* A faulty Start: one token too many.
StartWithSpareToken == SetValues(MAX_BUF + 1, 0, 1)
Start == SetValues(MAX_BUF, 0, 1)

WaitToken(t) == /\ i[t] < NLOOPS
                /\ SemWait(t, "loop", WaitsFor[t], "waitMutex")
                /\ UNCHANGED <<setting, bufVars, i, kills>>

WaitMutex(t) == /\ SemWait(t, "waitMutex", "Mutex", "access")
                /\ UNCHANGED <<setting, bufVars, i, kills>>

Access(t) == /\ At(t, "access")
             /\ AccessItem(t)
             /\ Goto(t, "load")
             /\ UNCHANGED <<setting, sems, i, kills>>

Load(t) == /\ At(t, "load")
           /\ LoadCounter(t)
           /\ Goto(t, "store")
           /\ UNCHANGED <<setting, sems, i, kills>>

Store(t) == /\ At(t, "store")
            /\ StoreCounter(t)
            /\ Goto(t, "postMutex")
            /\ UNCHANGED <<setting, sems, i, kills>>

PostMutex(t) == /\ SemPost(t, "postMutex", "Mutex", "postToken")
                /\ UNCHANGED <<setting, bufVars, i, kills>>

\* The last call of the loop body; the usleep after it only delays.
PostToken(t) == /\ SemPost(t, "postToken", Posts[t], "loop")
                /\ i' = IF sems[Posts[t]].exists THEN [i EXCEPT ![t] = @ + 1]
                                                 ELSE i
                /\ UNCHANGED <<setting, bufVars, kills>>

\* A faulty Exit: the consumer leaves an item behind.
ExitOneEarly(t) == /\ \/ At(t, "failed")
                      \/ t = "Consumer" /\ At(t, "loop") /\ i[t] = NLOOPS - 1
                   /\ Leave(t, "exited")
                   /\ UNCHANGED <<setting, bufVars, i, kills>>

Exit(t) == /\ \/ At(t, "failed")
              \/ t = "Consumer" /\ At(t, "loop") /\ i[t] = NLOOPS
           /\ Leave(t, "exited")
           /\ UNCHANGED <<setting, bufVars, i, kills>>

\* A signal without a handler, at any point of the program.
Kill(t) == /\ setting = "harsh"
           /\ kills < MaxKills
           /\ pc[t] \notin Gone
           /\ kills' = kills + 1
           /\ Leave(t, IF pc[t] \in Setup THEN "aborted" ELSE "exited")
           /\ UNCHANGED <<setting, bufVars, i>>

\* sleep(2) after the producer's loop.
Pause == /\ At("Producer", "loop") /\ i["Producer"] = NLOOPS
         /\ Goto("Producer", "pause")
         /\ UNCHANGED <<setting, bufVars, sems, i, kills>>

EndPause == /\ At("Producer", "pause")
            /\ setting # "harsh" => pc["Consumer"] \in Gone \/ Asleep("Consumer")
            /\ Goto("Producer", "destroyEmpty")
            /\ UNCHANGED <<setting, bufVars, sems, i, kills>>

\* A faulty DestroyAll: leaves FullSem behind.
DestroyTwo == /\ \/ SemDestroy("Producer", "destroyEmpty", "Empty", "destroyMutex")
                 \/ SemDestroy("Producer", "destroyMutex", "Mutex", "exited")
              /\ UNCHANGED <<setting, bufVars, i, kills>>

\* The segment is removed after the semaphores; who is attached keeps it.
DestroyAll == /\ \/ SemDestroy("Producer", "destroyEmpty", "Empty", "destroyMutex")
                 \/ SemDestroy("Producer", "destroyMutex", "Mutex", "destroyFull")
                 \/ SemDestroy("Producer", "destroyFull", "Full", "exited")
              /\ UNCHANGED <<setting, bufVars, i, kills>>

Side(t) == \/ Open(t) \/ WaitToken(t) \/ WaitMutex(t)
           \/ Access(t) \/ Load(t) \/ Store(t)
           \/ PostMutex(t) \/ PostToken(t) \/ Exit(t)

Producer == Side("Producer") \/ StartProducer \/ Pause \/ EndPause \/ DestroyAll
Consumer == Side("Consumer") \/ Start

\* Every process has ended, or sleeps with nobody left to wake it.
Stopped == /\ \A t \in Sides : pc[t] \in Gone \/ Asleep(t)
           /\ UNCHANGED vars

Next == Producer \/ Consumer \/ Stopped \/ \E t \in Sides : Kill(t)

Spec == Init /\ [][Next]_vars /\ WF_vars(Producer) /\ WF_vars(Consumer)
------------------------------------------------------------------------------
(* Properties *)

Bit(b) == IF b THEN 1 ELSE 0

Holds(t) == Bit(pc[t] \in InMutex /\ ~Asleep(t))

\* The two are never both in the buffer, whoever is started first, destroys the
\* semaphores early or is killed; and, what SEM_UNDO is for (semlib.c:38,64),
\* once the mutex has its value it is free or held by a live process: a killed
\* holder gives it back.
MutexReturned ==
    /\ Holds("Producer") + Holds("Consumer") <= 1
    /\ /\ sems["Mutex"].exists
       /\ pc["Consumer"] \notin (Setup \ {"setFull"}) \cup {"aborted"}
       => sems["Mutex"].val + Holds("Producer") + Holds("Consumer") = 1

\* However they are run, the two processes are a bounded FIFO buffer as far as
\* they get: a restart of the values, an early end or a kill may lose the rest,
\* but no item is repeated, overtaken or overwritten.
FifoSafety == Fifo!Safety

\* The consumer ends only when it has all items: it never fails because a
\* semaphore vanished under it, and never misses an item.
AllConsumed == setting # "harsh" /\ pc["Consumer"] \in {"failed", "exited"}
                  => consumed = [k \in 1..NLOOPS |-> k]

\* Run as intended both processes end, and the semaphores are gone.
CleanEnd == setting = "intended" =>
                <>[](/\ \A t \in Sides : pc[t] = "exited"
                     /\ \A s \in Semaphores : ~sems[s].exists)
==============================================================================
