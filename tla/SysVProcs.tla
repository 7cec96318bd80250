------------------------------ MODULE SysVProcs ------------------------------
(***************************************************************************)
(* Processes that call the functions of "6_Synchronization/semlib.c", or   *)
(* the copies of them in "8_Programs/app.c" and rpc.c.                     *)
(* pc says where a process is, or, if it sleeps in semWait, where it will  *)
(* go on.  A call that fails ends the process: the callers exit(1).        *)
(***************************************************************************)
EXTENDS SysVSem

CONSTANT Names      \* the semaphores, by name

VARIABLES sems,     \* the semaphores
          pc        \* where each process is

Goto(p, label) == pc' = [pc EXCEPT ![p] = label]

Asleep(p) == \E s \in Names : p \in Sleepers(sems[s])
At(p, label) == pc[p] = label /\ ~Asleep(p)

\* A call of p on semaphore s that leaves it as sem and goes on at next.
Call(p, from, s, sem, next) ==
    /\ At(p, from)
    /\ \/ /\ sems[s].exists
          /\ sems' = [sems EXCEPT ![s] = sem]
          /\ Goto(p, next)
       \/ /\ ~sems[s].exists
          /\ Goto(p, "failed")
          /\ UNCHANGED sems

SemInit(p, from, s, next) ==
    /\ At(p, from)
    /\ sems' = [sems EXCEPT ![s] = CreateOp(@)]
    /\ Goto(p, next)

SemWait(p, from, s, next) == Call(p, from, s, WaitOp(sems[s], p), next)
SemPost(p, from, s, next) == Call(p, from, s, PostOp(sems[s], p), next)
SemInitValue(p, from, s, v, next) ==
    Call(p, from, s, SetValOp(sems[s], v), next)

\* semDestroy: a process that sleeps on the semaphore wakes with an error.
SemDestroy(p, from, s, next) ==
    /\ At(p, from)
    /\ sems' = [sems EXCEPT ![s] = DestroyOp(@)]
    /\ pc' = [q \in Procs |-> IF q = p THEN next
                              ELSE IF q \in Sleepers(sems[s]) THEN "failed"
                              ELSE pc[q]]

\* A faulty Leave: the calls were made without SEM_UNDO.
LeaveWithoutUndo(p, how) ==
    /\ sems' = [s \in Names |-> [sems[s] EXCEPT !.queue = Without(@, p)]]
    /\ Goto(p, how)

\* The end of a process, and what the kernel does with its adjustments.
Leave(p, how) == /\ sems' = [s \in Names |-> ExitOp(sems[s], p)]
                 /\ Goto(p, how)
==============================================================================
