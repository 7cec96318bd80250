------------------------------ MODULE MCThreads ------------------------------
(***************************************************************************)
(* Programs of threads: semlib2.c under three threads that call it in any  *)
(* order, the two busy-waiting loops of prodcons_t.c and producer.c, and   *)
(* size.c.  A behaviour is that of one of them; the others rest.           *)
(***************************************************************************)
EXTENDS SemLib2, SharedBuffer

CONSTANTS Room, MaxEntries   \* see Sizes

VARIABLES program,           \* the one that runs
          where, i, lost,    \* see ProdConsT; where is its pc
          size               \* see Sizes

busyVars == <<bufVars, where, i, lost>>
anyVars == <<program, vars, busyVars, size>>

Busy == INSTANCE ProdConsT WITH pc <- where
Z == INSTANCE Sizes

AnyInit == /\ program \in {"semlib2", "prodcons_t", "size"}
           /\ Init /\ Busy!Init /\ Z!Init
           /\ program = "size" \/ size.entries = 1

Calling == program = "semlib2" /\ Next /\ UNCHANGED <<program, busyVars, size>>
Spinning == program = "prodcons_t" /\ Busy!Next /\ UNCHANGED <<program, vars, size>>
Printing == /\ program = "size"
            /\ Z!Next \/ (size.status # "running" /\ UNCHANGED size)
            /\ UNCHANGED <<program, vars, busyVars>>

\* The fairness of each specification, for the program that runs.
AnySpec ==
    /\ AnyInit /\ [][Calling \/ Spinning \/ Printing]_anyVars
    /\ \A t \in Threads : WF_vars(program = "semlib2" /\ Step(t))
    /\ \A t \in Sides : WF_busyVars(program = "prodcons_t" /\ Busy!Side(t))
------------------------------------------------------------------------------
(* The properties besides those of SemLib2, each explained in its module *)

\* The counter of prodcons_t.c and producer.c stays where its waits test it.
CounterInRange == Busy!CounterInRange

\* Busy waiting is a FIFO that ends as long as no update is lost (ProdConsT).
WorksUntilLost == program = "prodcons_t" => Busy!WorksUntilLost

\* size.c prints a name with its own size while readdir's buffer lasts.
OwnSizes == Z!OwnSizes
==============================================================================
