------------------------------ MODULE MCPrograms ------------------------------
(***************************************************************************)
(* Programs of chapters 1, 2, 4, 5, 6 and 8 that are too small for a run   *)
(* of their own: each behaviour is that of one of them, chosen at the      *)
(* start.                                                                  *)
(***************************************************************************)
EXTENDS SipcV

VARIABLES program,                           \* the one that runs
          sync,                              \* see SipcOthers
          mipc, fifo, clock, line, list, tool

all == <<program, vars, sync, mipc, fifo, clock, line, list, tool>>

O == INSTANCE SipcOthers
P == INSTANCE PipeSync
N == INSTANCE NamedPipes WITH FifoClients <- {1, 2}, MaxEnds <- 2
A == INSTANCE Alarms
L == INSTANCE Pipeline WITH Pages <- 3, Capacity <- 2
D == INSTANCE Listings WITH MaxChanges <- 2
X == INSTANCE Tools WITH MAX_BUF <- 2

\* A program that does not run stays as it is.
StartOf(name, starts) ==
    IF program = name THEN starts ELSE {CHOOSE s \in starts : TRUE}

AllInit == /\ program \in {"sipc", "sipcOthers", "mipc", "fifo",
                           "alarm", "mymore", "ls", "tools"}
           /\ Init /\ P!Init /\ L!Init
           /\ program = "sipc" \/ setting = "prompt"
           /\ sync \in StartOf("sipcOthers", O!Starts)
           /\ fifo \in StartOf("fifo", N!Starts)
           /\ clock \in StartOf("alarm", A!Starts)
           /\ list \in StartOf("ls", D!Starts)
           /\ tool \in StartOf("tools", X!Starts)

AllNext ==
    /\ UNCHANGED <<program, tool>>
    /\ IF program = "sipc" THEN Next ELSE UNCHANGED <<setting, sems, pc, kills>>
    /\ IF program = "sipcOthers" THEN O!Next ELSE UNCHANGED sync
    /\ IF program \in {"sipc", "sipcOthers"} THEN TRUE ELSE UNCHANGED boxVars
    /\ IF program = "mipc" THEN P!Next ELSE UNCHANGED mipc
    /\ IF program = "fifo" THEN N!Next ELSE UNCHANGED fifo
    /\ IF program = "alarm" THEN A!Next ELSE UNCHANGED clock
    /\ IF program = "mymore" THEN L!Next ELSE UNCHANGED line
    /\ IF program = "ls" THEN D!Next ELSE UNCHANGED list

\* The fairness of each specification, for the program that runs.
AllSpec ==
    /\ AllInit /\ [][AllNext]_all
    /\ WF_vars(program = "sipc" /\ Sipc1) /\ WF_vars(program = "sipc" /\ Sipc2)
    /\ WF_sync(program = "sipcOthers" /\ O!Sipc1)
    /\ WF_sync(program = "sipcOthers" /\ O!Sipc2)
    /\ \A p \in {"Parent", "Child"} : WF_mipc(program = "mipc" /\ P!Proc(p))
    /\ WF_fifo(program = "fifo" /\ N!Server)
    /\ \A c \in {1, 2} : WF_fifo(program = "fifo" /\ N!Client(c))
    /\ WF_clock(program = "alarm" /\ A!Run)
    /\ WF_clock(program = "alarm" /\ A!Expire)
    /\ WF_clock(program = "alarm" /\ A!Handle)
    /\ WF_line(program = "mymore" /\ L!Ls) /\ WF_line(program = "mymore" /\ L!More)
    /\ WF_list(program = "ls" /\ D!Run)
------------------------------------------------------------------------------
(* The properties, each stated and explained in the module of its program *)

\* A reply only to the request, and only a reply taken for one, in every sipc
\* (SipcOthers; of SipcV, too: nothing is spurious there).
SipcNoFalseText == O!NoFalseText

\* Every sipc gets its answer, unless an end came before its time.
SipcAnswered == /\ program = "sipc" => Answered
                /\ program = "sipcOthers" => O!Answered

\* mipc.c: parent and child alternate, and both get through.
TakesTurns == program = "mipc" => P!TakesTurns

\* fifos.c answers every request, across restarts.
FifoServed == program = "fifo" => N!FifoServed

\* alarm.c goes on for ever, mysleep.c wakes up if its alarm is not too early.
Rings == program = "alarm" => A!Rings

\* mymore.c: both ends of the pipeline end.
PipelineEnds == program = "mymore" => L!PipelineEnds

\* mylsl.c and mylsr.c list what is there all the time, once.
Lists == program = "ls" => D!Lists

\* mycp, mycp2, mycp3, split, merge, del and pattern compute what they should.
ToolsRight == program = "tools" => X!ToolsRight
==============================================================================
