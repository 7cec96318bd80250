------------------------------ MODULE Semaphore ------------------------------
(***************************************************************************)
(* What a counting semaphore promises to the threads that call it: the     *)
(* object behind sem_wait, sem_trywait and sem_post of                     *)
(* "6_Synchronization/semlib2.h".  A call takes effect in one indivisible  *)
(* step between its invocation and its return.                             *)
(***************************************************************************)
EXTENDS Naturals

CONSTANTS Threads,   \* the threads that share the semaphore
          Initial    \* the value argument of sem_init

VARIABLES value,     \* permits available
          call       \* what each thread is doing with the semaphore

semVars == <<value, call>>

Operations == {"wait", "trywait", "post"}

Init == /\ value = Initial
        /\ call = [t \in Threads |-> "none"]

Invoke(t) == /\ call[t] = "none"
             /\ \E op \in Operations : call' = [call EXCEPT ![t] = op]
             /\ UNCHANGED value

\* sem_wait, and sem_trywait when a permit is there.
Decrement(t) == /\ call[t] \in {"wait", "trywait"}
                /\ value > 0
                /\ value' = value - 1
                /\ call' = [call EXCEPT ![t] = "done"]

\* sem_trywait without a permit answers -1 and changes nothing.
Refuse(t) == /\ call[t] = "trywait"
             /\ value = 0
             /\ call' = [call EXCEPT ![t] = "refused"]
             /\ UNCHANGED value

Increment(t) == /\ call[t] = "post"
                /\ value' = value + 1
                /\ call' = [call EXCEPT ![t] = "done"]

Return(t) == /\ call[t] \in {"done", "refused"}
             /\ call' = [call EXCEPT ![t] = "none"]
             /\ UNCHANGED value

Next == \E t \in Threads : \/ Invoke(t)
                           \/ Decrement(t)
                           \/ Refuse(t)
                           \/ Increment(t)
                           \/ Return(t)

Safety == Init /\ [][Next]_semVars

\* A permit that stays available while somebody wants one is taken.
Spec == Safety /\ WF_semVars(\E t \in Threads : Decrement(t))
==============================================================================
