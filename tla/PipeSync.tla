------------------------------- MODULE PipeSync -------------------------------
(***************************************************************************)
(* "5_Inter-Process Communication/mipc.c" with synclib.c: parent and child *)
(* take turns to increment a number in shared memory.  Each tells the      *)
(* other by a byte in a pipe.  A pipe only ever carries one kind of byte,  *)
(* so it is its number of bytes; both processes hold all its ends, so a    *)
(* read never sees its end and a write never fails.                        *)
(***************************************************************************)
EXTENDS Naturals, Sequences

VARIABLE mipc       \* the state of the two processes and all they share

Procs == {"Parent", "Child"}
Last  == 10         \* NLOOPS

\* TELL_WAIT and fork.  at: where each process is; area: the number; seen:
\* counter of each process; pipe: unread bytes of Pfd1 and Pfd2, by reader;
\* printed: what was printed by whom.
Init == mipc = [at      |-> [p \in Procs |-> "loop"],
                i       |-> [Parent |-> 0, Child |-> 1],
                area    |-> 0,
                seen    |-> [p \in Procs |-> 0],
                pipe    |-> [Child |-> 0, Parent |-> 0],
                printed |-> << >>]

Other == [Parent |-> "Child", Child |-> "Parent"]

At(p, label) == mipc.at[p] = label

\* The parent starts with the number, the child with waiting.
Loop(p) == /\ At(p, "loop")
           /\ mipc' = [mipc EXCEPT !.at[p] = IF mipc.i[p] >= Last THEN "exited"
                                             ELSE IF p = "Parent" THEN "load"
                                             ELSE "wait"]

\* update: a load and a store
Load(p) == /\ At(p, "load")
           /\ mipc' = [mipc EXCEPT !.at[p] = "store", !.seen[p] = mipc.area]
Store(p) == /\ At(p, "store")
            /\ mipc' = [mipc EXCEPT
                          !.at[p] = IF mipc.seen[p] = mipc.i[p] THEN "print"
                                    ELSE "mismatch",
                          !.area = mipc.seen[p] + 1]

PrintCounter(p) == /\ At(p, "print")
            /\ mipc' = [mipc EXCEPT !.at[p] = "tell",
                                    !.printed = Append(@, <<p, mipc.seen[p]>>)]

\* TELL_CHILD and TELL_PARENT; it ends the child's turn.
Tell(p) == /\ At(p, "tell")
           /\ mipc' = [mipc EXCEPT
                         !.at[p] = IF p = "Parent" THEN "wait" ELSE "loop",
                         !.i[p] = IF p = "Child" THEN @ + 2 ELSE @,
                         !.pipe[Other[p]] = @ + 1]

\* A faulty Wait: does not wait for the byte.
WaitNot(p) == /\ At(p, "wait")
              /\ mipc' = [mipc EXCEPT
                            !.at[p] = IF p = "Parent" THEN "loop" ELSE "load",
                            !.i[p] = IF p = "Parent" THEN @ + 2 ELSE @]

\* WAIT_CHILD and WAIT_PARENT; it ends the parent's turn.
Wait(p) == /\ At(p, "wait") /\ mipc.pipe[p] > 0
           /\ mipc' = [mipc EXCEPT
                         !.at[p] = IF p = "Parent" THEN "loop" ELSE "load",
                         !.i[p] = IF p = "Parent" THEN @ + 2 ELSE @,
                         !.pipe[p] = @ - 1]

Proc(p) == Loop(p) \/ Load(p) \/ Store(p) \/ PrintCounter(p) \/ Tell(p) \/ Wait(p)

Gone == {"exited", "mismatch", "killed"}

\* A signal, at any point.
Kill(p) == /\ mipc.at[p] \notin Gone
           /\ mipc' = [mipc EXCEPT !.at[p] = "killed"]

Next == \E p \in Procs : Proc(p) \/ Kill(p)

Spec == Init /\ [][Next]_mipc /\ \A p \in Procs : WF_mipc(Proc(p))
------------------------------------------------------------------------------
(* Properties *)

\* The two take turns: they print 0, 1, 2, ... alternately, however the kernel
\* schedules the load and the store of the number in between, and both get
\* through unless one is killed (then the other may wait for ever: it holds
\* the other end of the pipe it reads itself).
TakesTurns ==
    /\ [] \A k \in DOMAIN mipc.printed :
            mipc.printed[k] = <<IF k % 2 = 1 THEN "Parent" ELSE "Child", k - 1>>
    /\ <> \/ \E p \in Procs : At(p, "killed")
          \/ Len(mipc.printed) = Last /\ \A p \in Procs : At(p, "exited")
==============================================================================
