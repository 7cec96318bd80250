------------------------------- MODULE SysVSem -------------------------------
(***************************************************************************)
(* A System V semaphore as semlib.c uses it: one semaphore per set, every  *)
(* semop by one, always with SEM_UNDO.                                     *)
(*                                                                         *)
(* The kernel keeps with the value the processes that sleep in semop, in   *)
(* the order they came, and for each process the adjustment that its exit  *)
(* will apply.  Whenever the value grows the kernel performs the pending   *)
(* operations itself: a sleeper that is woken already has its permit.      *)
(*                                                                         *)
(* The operators return the semaphore after the call.  A process that is   *)
(* in a queue is asleep in its semWait; it goes on when it has left it.    *)
(***************************************************************************)
EXTENDS Integers, Sequences, FiniteSets

CONSTANT Procs

Absent == [exists |-> FALSE, val |-> 0, queue |-> << >>,
           undo |-> [p \in Procs |-> 0]]

\* semInit: semget(key, 1, 0600|IPC_CREAT) creates a set with value 0, or finds
\* the one that is there.
CreateOp(sem) == IF sem.exists THEN sem ELSE [Absent EXCEPT !.exists = TRUE]

Sleepers(sem) == {sem.queue[k] : k \in DOMAIN sem.queue}

\* The kernel performs the pending decrements that the value allows.
Settle(sem) ==
    LET n == IF sem.val < Len(sem.queue) THEN sem.val ELSE Len(sem.queue)
        woken == {sem.queue[k] : k \in 1..n}
    IN  [sem EXCEPT !.val = @ - n,
                    !.queue = SubSeq(@, n + 1, Len(@)),
                    !.undo = [p \in Procs |-> IF p \in woken THEN @[p] + 1
                                                             ELSE @[p]]]

\* semWait: take a permit or go to sleep.
WaitOp(sem, p) ==
    IF sem.val > 0 THEN [sem EXCEPT !.val = @ - 1, !.undo[p] = @ + 1]
                   ELSE [sem EXCEPT !.queue = Append(@, p)]

\* semPost
PostOp(sem, p) == Settle([sem EXCEPT !.val = @ + 1, !.undo[p] = @ - 1])

\* semInitValue: SETVAL forgets the adjustments of all processes.
SetValOp(sem, v) ==
    Settle([sem EXCEPT !.val = v, !.undo = [p \in Procs |-> 0]])

\* semDestroy: IPC_RMID wakes every sleeper with EIDRM, later calls fail too.
DestroyOp(sem) == [sem EXCEPT !.exists = FALSE, !.queue = << >>]

\* A queue without p, which is in it at most once.
Without(queue, p) ==
    IF \E k \in DOMAIN queue : queue[k] = p
    THEN LET at == CHOOSE k \in DOMAIN queue : queue[k] = p
         IN  SubSeq(queue, 1, at - 1) \o SubSeq(queue, at + 1, Len(queue))
    ELSE queue

\* The exit of a process: it leaves the queue, its adjustment is added, and a
\* negative result becomes 0.
ExitOp(sem, p) ==
    IF ~sem.exists THEN sem
    ELSE LET total == sem.val + sem.undo[p]
         IN  Settle([sem EXCEPT
                       !.val = IF total < 0 THEN 0 ELSE total,
                       !.queue = Without(@, p),
                       !.undo[p] = 0])

==============================================================================
