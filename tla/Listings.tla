------------------------------- MODULE Listings -------------------------------
(***************************************************************************)
(* "2_Files and Directories/mylsl.c" (as ls -l) and mylsr.c (as ls -R):    *)
(* both read a directory twice, while other processes may make and remove  *)
(* files in it.  mylsl adds up the blocks in the first pass and prints in  *)
(* the second; mylsr prints in the first and descends in the second.       *)
(* Reading a directory gives what is in it when the reading starts.        *)
(***************************************************************************)
EXTENDS Naturals, Sequences

CONSTANTS MaxChanges   \* bound: files made or removed meanwhile

VARIABLE list   \* the program and the directory tree

\* A tree: "." holds a, b and the directory d, d holds c.
Names == {"a", "b", "c", "d"}
In == [a |-> ".", b |-> ".", c |-> "d", d |-> "."]
IsDir(x) == x \in {".", "d"}

\* there: what exists; stable: history, what existed all the time; changes:
\* so far; stack: the directories being read, the innermost last, with the
\* pass and the entries left; total: whose blocks were counted (mylsl);
\* out: what was printed; status: how the program ended.
Entries(dir, there) == {x \in there : In[x] = dir}
Frame(dir, there) == [dir |-> dir, pass |-> 1, todo |-> Entries(dir, there)]

Start(program, there) ==
    [program |-> program, there |-> there, stable |-> there, changes |-> 0,
     stack |-> <<Frame(".", there)>>, total |-> {}, out |-> << >>,
     enter |-> ".", status |-> "running"]
Starts == {Start(program, there) : program \in {"mylsl", "mylsr"},
                                   there \in {{"a"}, {"a", "d"}, {"a", "c", "d"}}}

Init == list \in Starts

top == list.stack[Len(list.stack)]
Top(f) == [list.stack EXCEPT ![Len(list.stack)] = f]
Fail == list' = [list EXCEPT !.status = "failed"]
Is(program) == list.program = program

\* A step of the first pass: lstat and st_blocks, or printing.
First(x) ==
    LET rest == Top([top EXCEPT !.todo = @ \ {x}])
    IN  /\ top.pass = 1
        /\ IF Is("mylsr") THEN list' = [list EXCEPT !.stack = rest, !.out = Append(@, x)]
           ELSE IF x \notin list.there THEN Fail
           ELSE list' = [list EXCEPT !.stack = rest, !.total = @ \cup {x}]

\* A step of the second: lstat, then printing, or opendir of a directory.
Second(x) ==
    LET rest == Top([top EXCEPT !.todo = @ \ {x}])
    IN  /\ top.pass = 2
        /\ IF x \notin list.there THEN Fail
           ELSE IF Is("mylsl") THEN list' = [list EXCEPT !.stack = rest, !.out = Append(@, x)]
           ELSE list' = [list EXCEPT !.stack = rest, !.enter = IF IsDir(x) THEN x ELSE @]

Descend == LET d == list.enter
           IN  IF d \notin list.there THEN Fail
               ELSE list' = [list EXCEPT !.enter = ".",
                                         !.stack = Append(@, Frame(d, list.there))]

\* A faulty Rewind: without rewinddir.
RewindNot == /\ top.pass = 1
             /\ list' = [list EXCEPT !.stack = Top([top EXCEPT !.pass = 2])]

\* rewinddir
Rewind == /\ top.pass = 1
          /\ list' = [list EXCEPT !.stack =
                Top([top EXCEPT !.pass = 2, !.todo = Entries(top.dir, list.there)])]

\* The end of the second pass: back to the directory above, if there is one.
Return == LET above == SubSeq(list.stack, 1, Len(list.stack) - 1)
          IN  /\ top.pass = 2
              /\ list' = [list EXCEPT !.stack = IF above = << >> THEN @ ELSE above,
                                      !.status = IF above = << >> THEN "done" ELSE @]

Run == /\ list.status = "running"
       /\ IF list.enter # "." THEN Descend
          ELSE IF top.todo # {} THEN \E x \in top.todo : First(x) \/ Second(x)
          ELSE Rewind \/ Return

\* Another process makes or removes a file, or removes an empty directory.
Change(x) == /\ list.changes < MaxChanges /\ list.status = "running"
             /\ IF x \in list.there THEN Entries(x, list.there) = {}
                ELSE ~IsDir(x) /\ In[x] \in list.there \cup {"."}
             /\ list' = [list EXCEPT !.changes = @ + 1, !.stable = @ \ {x},
                                     !.there = IF x \in @ THEN @ \ {x} ELSE @ \cup {x}]

Next == Run \/ \E x \in Names : Change(x)
Spec == Init /\ [][Next]_list /\ WF_list(Run)
------------------------------------------------------------------------------
(* Properties *)

Printed(x) == \E k \in DOMAIN list.out : list.out[k] = x

\* What is there all the time is listed, mylsl in ".", mylsr everywhere, and
\* nothing twice that was not made anew; mylsl also counted it in the total.
\* Both fail rather than leave something out when a file vanishes between
\* readdir and lstat (mylsl.c:76, mylsr.c:38), and only then.
Lists ==
    <> /\ \/ list.status = "done"
          \/ list.status = "failed" /\ list.changes > 0
       /\ \A j, k \in DOMAIN list.out : list.out[j] = list.out[k] /\ j # k
                                        => list.out[j] \notin list.stable
       /\ list.status = "done" =>
            \A x \in list.stable : Is("mylsr") \/ In[x] = "." =>
                Printed(x) /\ (Is("mylsl") => x \in list.total)
==============================================================================
