------------------------------ MODULE ProdConsM ------------------------------
(***************************************************************************)
(* "6_Synchronization/prodcons_m.c": the producer and the consumer thread  *)
(* share the buffer under one mutex, and each waits for the other on a     *)
(* condition variable of its own: the producer on NotFull, the consumer on *)
(* NotEmpty.  The pthread functions return 0 or a positive error number,   *)
(* so the "< 0" branches of the code are never taken.                      *)
(***************************************************************************)
EXTENDS SharedBuffer

CONSTANTS Free,         \* the value of Mutex when nobody holds it
          MaxSpurious   \* bound: wakeups without a signal

ASSUME MonitorAssumption == Free \notin Sides /\ MaxSpurious \in Nat

VARIABLES mutex,      \* the holder of Mutex
          pc,         \* where each thread is; "asleep" in pthread_cond_wait
          i,          \* the loop counter of each side
          spurious    \* spurious wakeups so far

vars == <<bufVars, mutex, pc, i, spurious>>

Other == [Producer |-> "Consumer", Consumer |-> "Producer"]

InMutex == {"test", "access", "load", "store", "signal", "unlock"}
SideLabels == {"loop", "asleep", "relock", "exited"} \cup InMutex
MainLabels == {"join1", "join2", "destroy", "returned"}

Goto(t, label) == pc' = [pc EXCEPT ![t] = label]

Init == /\ BufInit
        /\ mutex = Free
        /\ pc = [Producer |-> "loop", Consumer |-> "loop", main |-> "join1"]
        /\ i = [t \in Sides |-> 0]
        /\ spurious = 0

\* A faulty Lock: "if" where the code has "while".
LockTestingOnce(t) == /\ \/ /\ pc[t] = "loop" /\ i[t] < NLOOPS
                            /\ Goto(t, "test")
                         \/ pc[t] = "relock" /\ Goto(t, "access")
                      /\ mutex = Free
                      /\ mutex' = t
                      /\ UNCHANGED <<bufVars, i, spurious>>

\* pthread_mutex_lock, or the lock that pthread_cond_wait takes again.
Lock(t) == /\ \/ pc[t] = "loop" /\ i[t] < NLOOPS
              \/ pc[t] = "relock"
           /\ mutex = Free
           /\ mutex' = t
           /\ Goto(t, "test")
           /\ UNCHANGED <<bufVars, i, spurious>>

\* A faulty Sleep: keeps the mutex.
SleepKeepingMutex(t) == /\ pc[t] = "test"
                        /\ counter = MustWait[t]
                        /\ Goto(t, "asleep")
                        /\ UNCHANGED <<bufVars, mutex, i, spurious>>

\* while (Buf.counter == ...) pthread_cond_wait(...)
Sleep(t) == /\ pc[t] = "test"
            /\ counter = MustWait[t]
            /\ mutex' = Free
            /\ Goto(t, "asleep")
            /\ UNCHANGED <<bufVars, i, spurious>>

Proceed(t) == /\ pc[t] = "test"
              /\ counter # MustWait[t]
              /\ Goto(t, "access")
              /\ UNCHANGED <<bufVars, mutex, i, spurious>>

SpuriousWake(t) == /\ pc[t] = "asleep"
                   /\ spurious < MaxSpurious
                   /\ spurious' = spurious + 1
                   /\ Goto(t, "relock")
                   /\ UNCHANGED <<bufVars, mutex, i>>

Access(t) == /\ pc[t] = "access"
             /\ AccessItem(t)
             /\ Goto(t, "load")
             /\ UNCHANGED <<mutex, i, spurious>>

Load(t) == /\ pc[t] = "load"
           /\ LoadCounter(t)
           /\ Goto(t, "store")
           /\ UNCHANGED <<mutex, i, spurious>>

Store(t) == /\ pc[t] = "store"
            /\ StoreCounter(t)
            /\ Goto(t, "signal")
            /\ UNCHANGED <<mutex, i, spurious>>

\* A faulty Signal: signals the condition variable of its own side.
SignalOwn(t) == /\ pc[t] = "signal"
                /\ Goto(t, "unlock")
                /\ UNCHANGED <<bufVars, mutex, i, spurious>>

\* pthread_cond_signal on the condition variable of the other side: wakes it
\* if it sleeps there, and is forgotten if it does not.
Signal(t) == /\ pc[t] = "signal"
             /\ pc' = [pc EXCEPT ![t] = "unlock",
                                 ![Other[t]] = IF @ = "asleep" THEN "relock"
                                                               ELSE @]
             /\ UNCHANGED <<bufVars, mutex, i, spurious>>

\* pthread_mutex_unlock, the end of the loop body; ThreadUsleep only delays.
Unlock(t) == /\ pc[t] = "unlock"
             /\ mutex' = Free
             /\ i' = [i EXCEPT ![t] = @ + 1]
             /\ Goto(t, "loop")
             /\ UNCHANGED <<bufVars, spurious>>

Exit(t) == /\ pc[t] = "loop"
           /\ i[t] = NLOOPS
           /\ Goto(t, "exited")
           /\ UNCHANGED <<bufVars, mutex, i, spurious>>

Side(t) == \/ Lock(t) \/ Sleep(t) \/ Proceed(t)
           \/ Access(t) \/ Load(t) \/ Store(t)
           \/ Signal(t) \/ Unlock(t) \/ Exit(t)

Join(t, from, to) == /\ pc["main"] = from
                     /\ pc[t] = "exited"
                     /\ Goto("main", to)
                     /\ UNCHANGED <<bufVars, mutex, i, spurious>>

\* main prints Buf.counter and destroys the condition variables and the mutex.
Destroy == /\ pc["main"] = "destroy"
           /\ Goto("main", "returned")
           /\ UNCHANGED <<bufVars, mutex, i, spurious>>

Main == \/ Join("Producer", "join1", "join2")
        \/ Join("Consumer", "join2", "destroy")
        \/ Destroy

Ended == pc["main"] = "returned" /\ UNCHANGED vars

Next == (\E t \in Sides : Side(t) \/ SpuriousWake(t)) \/ Main \/ Ended

\* A spurious wakeup may never come; the threads keep running.
Spec == /\ Init /\ [][Next]_vars
        /\ \A t \in Sides : WF_vars(Side(t))
        /\ WF_vars(Main)
------------------------------------------------------------------------------
(* Properties *)

TypeOK == /\ BufTypeOK
          /\ mutex \in Sides \cup {Free}
          /\ DOMAIN pc = Sides \cup {"main"}
          /\ \A t \in Sides : pc[t] \in SideLabels
          /\ pc["main"] \in MainLabels
          /\ i \in [Sides -> 0..NLOOPS]
          /\ spurious \in 0..MaxSpurious

Bit(b) == IF b THEN 1 ELSE 0

\* Each side is in the buffer only with the mutex (prodcons_m.c:60-86,
\* 105-131), although it gives the mutex up while it waits; and so counter
\* never misses an update, and the test of each side says whether there is
\* really a free slot, or an item, for it.
MutexGuardsCounter ==
    /\ \A t \in Sides : (pc[t] \in InMutex) <=> (mutex = t)
    /\ counter = produced - Len(consumed)
                 - Bit(pc["Producer"] \in {"load", "store"})
                 + Bit(pc["Consumer"] \in {"load", "store"})

\* A signal that finds nobody asleep is forgotten, so a side may only be asleep
\* while its condition still makes it wait, or while the other side has yet to
\* send the signal (prodcons_m.c:64-78, 109-123).
SignalComing == \A t \in Sides :
                  pc[t] = "asleep" => \/ counter = MustWait[t]
                                      \/ pc[Other[t]] = "signal"

\* Nobody is left asleep: while a side sleeps on its condition variable the
\* other, whose signal it needs, neither sleeps nor has ended, with whatever
\* spurious wakeups (prodcons_m.c:64-65, 109-110).
NobodyLeftAsleep ==
    \A t \in Sides : pc[t] = "asleep" => pc[Other[t]] \notin {"asleep", "exited"}

\* No wakeup is lost: no side sleeps on a condition that is met without a
\* signal to come, and no side sleeps for ever (prodcons_m.c:64-78, 109-123).
NoLostWakeup == SignalComing /\ NobodyLeftAsleep

\* The program is a bounded FIFO buffer, and every item gets through.
ImplementsFifo == Fifo!Spec
==============================================================================
