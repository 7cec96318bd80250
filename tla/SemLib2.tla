------------------------------- MODULE SemLib2 -------------------------------
(***************************************************************************)
(* "6_Synchronization/semlib2.c": a semaphore for threads made of a        *)
(* counter, a pthread mutex and a condition variable.  The threads of the  *)
(* model call sem_wait, sem_trywait and sem_post in any order; every       *)
(* pthread call and every access to sval is a step of its own.             *)
(*                                                                         *)
(* The pthread functions return 0 or a positive error number, so the       *)
(* "< 0" branches of the code are never taken and have no action here.     *)
(***************************************************************************)
EXTENDS Naturals, FiniteSets

CONSTANTS Threads,      \* the threads that use the semaphore
          Free,         \* the value of mutex when nobody holds it
          Initial,      \* the value argument of sem_init
          MaxCalls,     \* bound: calls each thread makes
          MaxSpurious   \* bound: wakeups of pthread_cond_wait without a signal

ASSUME SemAssumption == /\ IsFiniteSet(Threads)
                        /\ Free \notin Threads
                        /\ Initial \in Nat
                        /\ MaxCalls \in Nat
                        /\ MaxSpurious \in Nat

VARIABLES sval,       \* sem->sval
          mutex,      \* the holder of sem->mutex, or Free
          pc,         \* where each thread is in semlib2.c
          calls,      \* calls each thread has made
          spurious    \* spurious wakeups so far

vars == <<sval, mutex, pc, calls, spurious>>

Blocked == {t \in Threads : pc[t] = "waitBlocked"}

\* Threads on their way to (re)test sval in sem_wait.
Awake == {t \in Threads : pc[t] \in {"waitRelock", "waitTest"}}

Entry == {"waitLock", "tryLock", "postLock"}

\* pthread_mutex_lock, and the lock that pthread_cond_wait takes again.
AfterLock == [waitLock   |-> "waitTest", waitRelock |-> "waitTest",
              tryLock    |-> "tryTest",  postLock   |-> "postSignal"]

Returning == {"waitUnlock", "tryUnlock", "tryFailUnlock", "postUnlock"}

Holding == {"waitTest", "tryTest", "postSignal", "postAdd"} \cup Returning

Labels == {"idle", "waitBlocked"} \cup DOMAIN AfterLock \cup Holding

Goto(t, label) == pc' = [pc EXCEPT ![t] = label]

\* sem_init
Init == /\ sval = Initial
        /\ mutex = Free
        /\ pc = [t \in Threads |-> "idle"]
        /\ calls = [t \in Threads |-> 0]
        /\ spurious = 0

Call(t) == /\ pc[t] = "idle"
           /\ calls[t] < MaxCalls
           /\ \E entry \in Entry : Goto(t, entry)
           /\ calls' = [calls EXCEPT ![t] = @ + 1]
           /\ UNCHANGED <<sval, mutex, spurious>>

Lock(t) == /\ pc[t] \in DOMAIN AfterLock
           /\ mutex = Free
           /\ mutex' = t
           /\ Goto(t, AfterLock[pc[t]])
           /\ UNCHANGED <<sval, calls, spurious>>

\* The last pthread_mutex_unlock of every function, and its return.
Unlock(t) == /\ pc[t] \in Returning
             /\ mutex' = Free
             /\ Goto(t, "idle")
             /\ UNCHANGED <<sval, calls, spurious>>

\* while (sem->sval == 0) pthread_cond_wait(...): release the mutex and sleep
\* in one step, as pthread_cond_wait does.
WaitBlock(t) == /\ pc[t] = "waitTest"
                /\ sval = 0
                /\ mutex' = Free
                /\ Goto(t, "waitBlocked")
                /\ UNCHANGED <<sval, calls, spurious>>

\* sem->sval--
WaitTake(t) == /\ pc[t] = "waitTest"
               /\ sval > 0
               /\ sval' = sval - 1
               /\ Goto(t, "waitUnlock")
               /\ UNCHANGED <<mutex, calls, spurious>>

\* pthread_cond_wait may return although nobody signalled.
SpuriousWake(t) == /\ t \in Blocked
                   /\ spurious < MaxSpurious
                   /\ spurious' = spurious + 1
                   /\ Goto(t, "waitRelock")
                   /\ UNCHANGED <<sval, mutex, calls>>

TryTake(t) == /\ pc[t] = "tryTest"
              /\ sval # 0
              /\ sval' = sval - 1
              /\ Goto(t, "tryUnlock")
              /\ UNCHANGED <<mutex, calls, spurious>>

TryRefuse(t) == /\ pc[t] = "tryTest"
                /\ sval = 0
                /\ Goto(t, "tryFailUnlock")
                /\ UNCHANGED <<sval, mutex, calls, spurious>>

\* A faulty PostSignal: signals only if there was no permit.
PostSignalIfZero(t) ==
    /\ pc[t] = "postSignal"
    /\ \/ /\ Blocked = {} \/ sval > 0
          /\ Goto(t, "postAdd")
       \/ \E w \in Blocked :
             /\ sval = 0
             /\ pc' = [pc EXCEPT ![t] = "postAdd", ![w] = "waitRelock"]
    /\ UNCHANGED <<sval, mutex, calls, spurious>>

\* pthread_cond_signal: one sleeping thread leaves the condition variable, if
\* there is one.  sem_post signals before it adds the permit.
PostSignal(t) ==
    /\ pc[t] = "postSignal"
    /\ \/ /\ Blocked = {}
          /\ Goto(t, "postAdd")
       \/ \E w \in Blocked :
             pc' = [pc EXCEPT ![t] = "postAdd", ![w] = "waitRelock"]
    /\ UNCHANGED <<sval, mutex, calls, spurious>>

\* A faulty PostAdd: a binary semaphore.
PostAddBinary(t) == /\ pc[t] = "postAdd"
                    /\ sval' = 1
                    /\ Goto(t, "postUnlock")
                    /\ UNCHANGED <<mutex, calls, spurious>>

\* sem->sval++
PostAdd(t) == /\ pc[t] = "postAdd"
              /\ sval' = sval + 1
              /\ Goto(t, "postUnlock")
              /\ UNCHANGED <<mutex, calls, spurious>>

Step(t) == \/ Lock(t) \/ Unlock(t)
           \/ WaitBlock(t) \/ WaitTake(t)
           \/ TryTake(t) \/ TryRefuse(t)
           \/ PostSignal(t) \/ PostAdd(t)

\* Every thread has used up its calls, or sleeps for a permit that the calls
\* made so far do not provide.
Quiet == /\ \A t \in Threads :
               \/ t \in Blocked
               \/ pc[t] = "idle" /\ calls[t] = MaxCalls
         /\ UNCHANGED vars

Next == \/ \E t \in Threads : Call(t) \/ SpuriousWake(t) \/ Step(t)
        \/ Quiet

\* A thread inside a call keeps running; it need not make another call.
Spec == Init /\ [][Next]_vars /\ \A t \in Threads : WF_vars(Step(t))
------------------------------------------------------------------------------
(* Properties *)

TypeOK == /\ sval \in Nat
          /\ mutex \in Threads \cup {Free}
          /\ pc \in [Threads -> Labels]
          /\ calls \in [Threads -> 0..MaxCalls]
          /\ spurious \in 0..MaxSpurious

\* sval is only touched by the thread that holds the mutex, and a thread holds
\* the mutex exactly where the code says: what keeps the test of sval and its
\* decrement (semlib2.c:29-36) together.
HolderInside == \A t \in Threads : (pc[t] \in Holding) <=> (mutex = t)

\* sem_post wakes one thread per permit and wakes it before the permit is
\* there (semlib2.c:67-73): still, no thread sleeps on a permit unless at
\* least as many other threads are on their way to take the permits.
NoStranded == Blocked # {} => sval <= Cardinality(Awake)

\* The three functions implement the semaphore: each takes effect at once, at
\* its access to sval, and a permit that stays is taken.
CallOf ==
    [idle |-> "none",
     waitLock |-> "wait", waitRelock |-> "wait", waitTest |-> "wait",
     waitBlocked |-> "wait", waitUnlock |-> "done",
     tryLock |-> "trywait", tryTest |-> "trywait",
     tryUnlock |-> "done", tryFailUnlock |-> "refused",
     postLock |-> "post", postSignal |-> "post", postAdd |-> "post",
     postUnlock |-> "done"]

Sem == INSTANCE Semaphore WITH value <- sval,
                               call <- [t \in Threads |-> CallOf[pc[t]]]

ImplementsSemaphore == Sem!Spec
==============================================================================
