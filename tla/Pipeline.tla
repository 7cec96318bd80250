------------------------------- MODULE Pipeline -------------------------------
(***************************************************************************)
(* "5_Inter-Process Communication/mymore.c", ls -l | more: the child makes *)
(* the pipe its standard output and becomes ls, the parent makes it its    *)
(* standard input and becomes more.  What decides whether they end is who  *)
(* still has which end of the pipe open.                                   *)
(***************************************************************************)
EXTENDS Naturals, FiniteSetsExt

CONSTANTS Pages,      \* bound: what ls writes
          Capacity    \* of the pipe

VARIABLE line   \* the state of the two processes and of the pipe

Procs == {"ls", "more"}

\* After pipe and fork: at: where each process is; fd: the files it has open
\* under each descriptor; written, read: pages; quit: the user has left more.
Init == line = [at |-> [ls |-> "close", more |-> "close"],
                fd |-> [p \in Procs |->
                          [d \in 0..4 |-> CASE d = 3 -> "readEnd"
                                            [] d = 4 -> "writeEnd"
                                            [] OTHER -> "terminal"]],
                written |-> 0, read |-> 0, quit |-> FALSE]

At(p, label) == line.at[p] = label
Open(file) == \E p \in Procs, d \in 0..4 : line.fd[p][d] = file

\* p goes on at "to" with the descriptors fds.
Set(p, from, to, fds) ==
    At(p, from) /\ line' = [line EXCEPT !.at[p] = to, !.fd[p] = fds]
Closed(p, ds) == [d \in 0..4 |-> IF d \in ds THEN "closed" ELSE line.fd[p][d]]

\* A process that ends has nothing open.
End(p, how) == line' = [line EXCEPT !.at[p] = how, !.fd[p] = Closed(p, 0..4)]

\* close(1), close(fd[0]), dup(fd[1]): the lowest free descriptor
PrepareLs ==
    \/ Set("ls", "close", "dup", Closed("ls", {1, 3}))
    \/ LET fds == line.fd["ls"]
           free == Min({d \in 0..4 : fds[d] = "closed"})
       IN  Set("ls", "dup", "run", [fds EXCEPT ![free] = fds[4]])

\* A faulty PrepareMore: without close(fd[1]).
PrepareMoreLeaking ==
    \/ Set("more", "close", "dup", Closed("more", {0}))
    \/ Set("more", "dup", "run", [line.fd["more"] EXCEPT ![0] = line.fd["more"][3]])

\* close(0), close(fd[1]), dup2(fd[0], 0)
PrepareMore ==
    \/ Set("more", "close", "dup", Closed("more", {0, 4}))
    \/ Set("more", "dup", "run", [line.fd["more"] EXCEPT ![0] = line.fd["more"][3]])

\* ls writes to its standard output, or has no reader there and gets SIGPIPE.
Write == /\ At("ls", "run") /\ line.fd["ls"][1] = "writeEnd"
         /\ line.written < Pages
         /\ IF Open("readEnd")
            THEN /\ line.written - line.read < Capacity
                 /\ line' = [line EXCEPT !.written = @ + 1]
            ELSE End("ls", "killed")
Done == At("ls", "run") /\ line.written = Pages /\ End("ls", "exited")

\* more reads its standard input, page by page as the user asks for them, and
\* ends at its end or when the user quits.
Read == /\ At("more", "run") /\ line.fd["more"][0] = "readEnd"
        /\ IF line.read < line.written
           THEN line' = [line EXCEPT !.read = @ + 1]
           ELSE ~Open("writeEnd") /\ End("more", "exited")
Quit == /\ At("more", "run")
        /\ line' = [line EXCEPT !.at["more"] = "exited", !.quit = TRUE,
                                !.fd["more"] = Closed("more", 0..4)]

Ls   == PrepareLs \/ Write \/ Done
More == PrepareMore \/ Read
Next == Ls \/ More \/ Quit

Spec == Init /\ [][Next]_line /\ WF_line(Ls) /\ WF_line(More)
------------------------------------------------------------------------------
(* Properties *)

\* Both processes end, however full the pipe gets and whenever the user quits;
\* and unless he does, more has read all that ls wrote (mymore.c:17-40: an end
\* left open in the wrong process would keep more waiting for the end of file,
\* or ls for a reader).
PipelineEnds == <> /\ line.at["more"] = "exited"
                   /\ line.at["ls"] \in {"exited", "killed"}
                   /\ line.quit \/ line.read = Pages
==============================================================================
