-------------------------------- MODULE Sizes --------------------------------
(***************************************************************************)
(* "8_Programs/size.c": main starts a thread for every entry of the        *)
(* directory and returns, which ends the process.  A thread is given a     *)
(* pointer into the buffer of readdir, which is filled anew when all the   *)
(* entries in it have been returned.                                       *)
(***************************************************************************)
EXTENDS Naturals, Sequences

CONSTANTS Room,        \* entries in the buffer of readdir
          MaxEntries   \* bound: entries of the directory

VARIABLE size   \* the process, its threads, the buffer and the directory

\* Entries are numbered in directory order, and entry n has size n.
\* there: those not removed since; last: the entry readdir returned last;
\* buffer: by slot; threads: where each is, its pointer (a slot), its
\* buf.st_size; printed: names with sizes; status: of the process.
Starts == [entries : 1..MaxEntries, there : {1..MaxEntries}, last : {0},
           buffer : {[s \in 0 .. Room - 1 |-> s + 1]},
           threads : {<< >>}, printed : {<< >>}, status : {"running"}]

Init == size \in Starts

Slot(n) == (n - 1) % Room

\* readdir and pthread_create
Create == /\ size.last < size.entries
          /\ LET n == size.last + 1
             IN  size' = [size EXCEPT
                   !.last = n,
                   !.buffer = IF Slot(n) = 0 THEN [s \in DOMAIN @ |-> n + s] ELSE @,
                   !.threads = Append(@, [at |-> "lstat", name |-> Slot(n), st_size |-> 0])]

\* The end of main ends all threads, wherever they are.
Return == /\ size.last = size.entries
          /\ size' = [size EXCEPT !.status = "exited"]

\* A faulty Lstat: the thread is given &dep.
LstatOfLast(t) ==
    /\ size.threads[t].at = "lstat"
    /\ LET n == size.last
       IN  size' = IF n \notin size.there THEN [size EXCEPT !.status = "failed"]
                   ELSE [size EXCEPT !.threads[t].at = "print", !.threads[t].st_size = n]

\* lstat(na, &buf); exit(1) in any thread ends them all.
Lstat(t) ==
    /\ size.threads[t].at = "lstat"
    /\ LET n == size.buffer[size.threads[t].name]
       IN  size' = IF n \notin size.there THEN [size EXCEPT !.status = "failed"]
                   ELSE [size EXCEPT !.threads[t].at = "print", !.threads[t].st_size = n]

\* printf reads the name once more.
PrintName(t) == LET thread == size.threads[t]
            IN  /\ thread.at = "print"
                /\ size' = [size EXCEPT !.threads[t].at = "exited",
                       !.printed = Append(@, <<size.buffer[thread.name], thread.st_size>>)]

Remove(n) == /\ n \in size.there
             /\ size' = [size EXCEPT !.there = @ \ {n}]

Next == /\ size.status = "running"
        /\ \/ Create \/ Return
           \/ \E t \in DOMAIN size.threads : Lstat(t) \/ PrintName(t)
           \/ \E n \in 1..MaxEntries : Remove(n)

Spec == Init /\ [][Next]_size
------------------------------------------------------------------------------
(* Properties *)

\* What is printed is a name with its own size, and no name is printed twice,
\* as long as the directory fits into the buffer of readdir (size.c:27): in a
\* larger one a thread that comes late finds another name there, or prints the
\* size of one file beside the name of another.
OwnSizes == size.entries <= Room =>
              \A k \in DOMAIN size.printed :
                /\ size.printed[k][1] = size.printed[k][2]
                /\ \A j \in DOMAIN size.printed : size.printed[j] = size.printed[k] => j = k
==============================================================================
