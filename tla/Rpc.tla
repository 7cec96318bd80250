--------------------------------- MODULE Rpc ---------------------------------
(***************************************************************************)
(* "8_Programs/rpc.c" and app.c: a calculation server and its callers.  A  *)
(* caller puts its number into the shared memory, posts Empty and waits    *)
(* for Full; the server waits for Empty, puts the sum there and posts      *)
(* Full.  Both files carry their own copies of the functions of semlib.c.  *)
(*                                                                         *)
(* SIGINT makes the server destroy the semaphores and the segment, and the *)
(* next program to use a key makes a new one: a set or a segment is named  *)
(* by its key and its age.                                                 *)
(***************************************************************************)
EXTENDS Integers, Sequences

CONSTANTS Callers,    \* app n is called with the number n
          Settings,   \* how the programs are run
          MaxStarts,  \* bound: times the server is started, if harsh
          MaxSignals  \* bound: SIGINTs and kills, if harsh

\* sequence: an app is run when the one before has ended and rpc waits
\* crowd: the apps are run in any order once rpc serves
\* harsh: all are run at any time, rpc again when it has ended, and signals
\*        come at any point
ASSUME RpcAssumption == /\ Callers \subseteq Nat \ {0, 1}
                        /\ Settings \subseteq {"sequence", "crowd", "harsh"}
                        /\ MaxStarts \in Nat \ {0}
                        /\ MaxSignals \in Nat

Server == 0
Programs == {Server} \cup Callers
Keys == {"Empty", "Full"}
Ages == 1 .. MaxSignals + 1

VARIABLES cell,     \* the number in each segment
          segment,  \* the age of the segment that SHM_KEY names
          semid,    \* the age of the set that each semaphore key names
          shm, sem, \* the shmid, and the sema1 and sema2, of each program
          num,      \* the number the server has read
          result,   \* what each app has got, 0 before
          resume,   \* where the server goes on after its handler
          alone,    \* history: the caller whose call nothing has disturbed, or rpc
                    \* while nobody has called or been signalled since its start
          setting,  \* how this run is made
          starts, signals,
          sems, pc  \* see SysVProcs

memVars == <<cell, num, result>>
idVars  == <<segment, semid, shm, sem>>
runVars == <<resume, alone, setting, starts, signals>>
vars == <<memVars, idVars, runVars, sems, pc>>

INSTANCE SysVProcs WITH Procs <- Programs, Names <- Keys \X Ages

Serving == {"setEmpty", "setFull", "waitEmpty", "load", "store", "postFull"}
Handler == {"destroyEmpty", "destroyFull", "remove"}
Named(k) == <<k, semid[k]>>       \* the set that key k names
Mine(p, k) == <<k, sem[p][k]>>    \* the set that p has opened with key k

Running(p) == pc[p] \notin {"off", "exited"}
Idle == pc[Server] = "load" /\ Asleep(Server)
NobodyCalls == \A c \in Callers : ~Running(c)

\* *pInt after: for(int i = 0; i <= num; i++) sum += i
Sum[n \in Nat] == IF n = 0 THEN 0 ELSE n + Sum[n - 1]

Init == /\ cell = [g \in Ages |-> 0]
        /\ num = 0
        /\ result = [c \in Callers |-> 0]
        /\ segment = 1
        /\ semid = [k \in Keys |-> 1]
        /\ shm = [p \in Programs |-> 1]
        /\ sem = [p \in Programs |-> [k \in Keys |-> 1]]
        /\ resume = "off"
        /\ alone = {}
        /\ setting \in Settings
        /\ starts = 0 /\ signals = 0
        /\ sems = [s \in Keys \X Ages |-> Absent]
        /\ pc = [p \in Programs |-> "off"]

\* The first call of a program: a segment that is removed is made anew.
Shmget(p) == /\ shm' = [shm EXCEPT ![p] = segment]
             /\ Goto(p, "shmat")
             /\ UNCHANGED segment

StartServer ==
    /\ ~Running(Server)
    /\ starts < IF setting = "harsh" THEN MaxStarts ELSE 1
    /\ starts' = starts + 1
    /\ alone' = IF NobodyCalls THEN {Server} ELSE {}
    /\ Shmget(Server)
    /\ UNCHANGED <<memVars, semid, sem, resume, setting, signals, sems>>

\* A call has rpc to itself: rpc waits, and this is the first call since it was
\* started, or no post of Full is left over.
StartCaller(c) ==
    /\ pc[c] = "off"
    /\ setting = "sequence" => NobodyCalls /\ Idle
    /\ setting = "crowd" => pc[Server] \in Serving \ {"setEmpty", "setFull"}
    /\ alone' = IF /\ NobodyCalls /\ Idle
                   /\ Server \in alone \/ sems[Named("Full")].val = 0
                THEN {c} ELSE {}
    /\ Shmget(c)
    /\ UNCHANGED <<memVars, semid, sem, resume, setting, starts, signals, sems>>

\* shmat of a segment that is removed succeeds only if it is in use.
Attach(p) ==
    /\ At(p, "shmat")
    /\ \/ Goto(p, IF p = Server THEN "openEmpty" ELSE "write")
       \/ shm[p] # segment /\ Goto(p, "failed")
    /\ UNCHANGED <<memVars, idVars, runVars, sems>>

Open(p) ==
    /\ \/ /\ SemInit(p, "openEmpty", Named("Empty"),
                     IF p = Server THEN "openFull" ELSE "postEmpty")
          /\ sem' = [sem EXCEPT ![p]["Empty"] = semid["Empty"]]
       \/ /\ SemInit(p, "openFull", Named("Full"),
                     IF p = Server THEN "setEmpty" ELSE "waitFull")
          /\ sem' = [sem EXCEPT ![p]["Full"] = semid["Full"]]
    /\ UNCHANGED <<memVars, segment, semid, shm, runVars>>

\* *pInt = x, at from.
WriteCell(p, from, x, next) == /\ At(p, from)
                               /\ cell' = [cell EXCEPT ![shm[p]] = x]
                               /\ Goto(p, next)
                               /\ UNCHANGED <<num, result, idVars, runVars, sems>>

\* A faulty Ask: posts first.
AskPostingFirst(c) ==
    \/ /\ SemPost(c, "write", Mine(c, "Empty"), "openEmpty")
       /\ UNCHANGED <<memVars, idVars, runVars>>
    \/ WriteCell(c, "postEmpty", c, "openFull")

Ask(c) == \/ WriteCell(c, "write", c, "openEmpty")
          \/ /\ SemPost(c, "postEmpty", Mine(c, "Empty"), "openFull")
             /\ UNCHANGED <<memVars, idVars, runVars>>

Await(c) == /\ SemWait(c, "waitFull", Mine(c, "Full"), "read")
            /\ UNCHANGED <<memVars, idVars, runVars>>

Read(c) == /\ At(c, "read")
           /\ result' = [result EXCEPT ![c] = cell[shm[c]]]
           /\ Goto(c, "done")
           /\ UNCHANGED <<cell, num, idVars, runVars, sems>>

\* A faulty SetValues: sets Empty twice.
SetEmptyTwice ==
    /\ \/ SemInitValue(Server, "setEmpty", Mine(Server, "Empty"), 0, "setFull")
       \/ SemInitValue(Server, "setFull", Mine(Server, "Empty"), 0, "waitEmpty")
    /\ UNCHANGED <<memVars, idVars, runVars>>

SetValues ==
    /\ \/ SemInitValue(Server, "setEmpty", Mine(Server, "Empty"), 0, "setFull")
       \/ SemInitValue(Server, "setFull", Mine(Server, "Full"), 0, "waitEmpty")
    /\ UNCHANGED <<memVars, idVars, runVars>>

\* A faulty Semop: waits for Full where it should wait for Empty.
SemopWaitingFull ==
    /\ \/ SemWait(Server, "waitEmpty", Mine(Server, "Full"), "load")
       \/ SemPost(Server, "postFull", Mine(Server, "Full"), "waitEmpty")
    /\ UNCHANGED <<memVars, idVars, runVars>>

Semop ==
    /\ \/ SemWait(Server, "waitEmpty", Mine(Server, "Empty"), "load")
       \/ SemPost(Server, "postFull", Mine(Server, "Full"), "waitEmpty")
    /\ UNCHANGED <<memVars, idVars, runVars>>

Load == /\ At(Server, "load")
        /\ num' = cell[shm[Server]]
        /\ Goto(Server, "store")
        /\ UNCHANGED <<cell, result, idVars, runVars, sems>>

Store == WriteCell(Server, "store", Sum[num], "postFull")

\* exit(1), or the end of main.
Exit(p) == /\ At(p, "failed") \/ At(p, "done")
           /\ Leave(p, "exited")
           /\ UNCHANGED <<memVars, idVars, runVars>>

\* The delivery of SIGINT to rpc: a semWait that sleeps will fail.
SigInt == /\ setting = "harsh"
          /\ signals < MaxSignals
          /\ pc[Server] \in Serving
          /\ signals' = signals + 1
          /\ resume' = IF Asleep(Server) THEN "failed" ELSE pc[Server]
          /\ sems' = [s \in Keys \X Ages |->
                        [sems[s] EXCEPT !.queue = Without(@, Server)]]
          /\ alone' = {}
          /\ Goto(Server, "destroyEmpty")
          /\ UNCHANGED <<memVars, idVars, setting, starts>>

Destroy(k, from, next) ==
    LET s == Mine(Server, k)
    IN  /\ SemDestroy(Server, from, s, next)
        /\ semid' = [semid EXCEPT ![k] = IF sems[s].exists THEN @ + 1 ELSE @]
        /\ UNCHANGED <<memVars, segment, shm, sem, runVars>>

\* A faulty DestroyAll: destroys Full twice.
DestroyFullTwice == \/ Destroy("Full", "destroyEmpty", "destroyFull")
                    \/ Destroy("Full", "destroyFull", "remove")

DestroyAll == \/ Destroy("Empty", "destroyEmpty", "destroyFull")
              \/ Destroy("Full", "destroyFull", "remove")

Remove == /\ At(Server, "remove")
          /\ \/ /\ shm[Server] = segment
                /\ segment' = segment + 1
                /\ Goto(Server, resume)
             \/ /\ shm[Server] # segment
                /\ Goto(Server, "failed")
                /\ UNCHANGED segment
          /\ UNCHANGED <<memVars, semid, shm, sem, runVars, sems>>

\* A signal without a handler.
Kill(p) == /\ setting = "harsh"
           /\ signals < MaxSignals
           /\ Running(p)
           /\ signals' = signals + 1
           /\ alone' = {}
           /\ Leave(p, "exited")
           /\ UNCHANGED <<memVars, idVars, resume, setting, starts>>

App(c) == Attach(c) \/ Open(c) \/ Ask(c) \/ Await(c) \/ Read(c) \/ Exit(c)

Main == \/ Attach(Server) \/ Open(Server) \/ SetValues \/ Semop \/ Load \/ Store
        \/ DestroyAll \/ Remove \/ Exit(Server)

\* Every program has ended or sleeps.
Stopped == /\ \A p \in Programs : ~Running(p) \/ Asleep(p)
           /\ UNCHANGED vars

Next == \/ StartServer \/ Main \/ SigInt \/ Stopped
        \/ \E c \in Callers : StartCaller(c) \/ App(c)
        \/ \E p \in Programs : Kill(p)

\* One of the programs that are running goes on.
Spec == Init /\ [][Next]_vars /\ WF_vars(Main \/ \E c \in Callers : App(c))
------------------------------------------------------------------------------
(* Properties *)

\* A call that nothing disturbs, made while rpc waits, gives the sum of its own
\* number (app.c:144-152, rpc.c:163-168) if it is the first since rpc was
\* started, or no post of Full is left over: whatever state kills, interrupts
\* and earlier calls left the semaphores in, a restarted rpc is right again.
RightWhenAlone ==
    \A c \in alone \ {Server} : result[c] # 0 => result[c] = Sum[c]

\* Callers that come one after the other never see a number of one another,
\* although SEM_UNDO leaves a post of Full to the next (app.c:140): such a call
\* gives its own number or the sum of it.
OwnCall == setting = "sequence" =>
    \A c \in Callers : result[c] \in {0, c, Sum[c]}

\* While rpc runs and nobody is killed, no call waits for ever, whatever the
\* exits of other callers take back from Empty.
AllAnswered == \A c \in Callers :
    (setting # "harsh" /\ Running(c)) ~> (result[c] # 0)

\* rpc ends after SIGINT, wherever it came (rpc.c:114-125): no semaphore call
\* of it succeeds or sleeps any more.
InterruptEnds == (pc[Server] \in Handler) ~> (pc[Server] = "exited")

\* README.md:100: an app receives the calculated number from rpc.
Calculated == setting = "sequence" =>
    \A c \in Callers : result[c] \in {0, Sum[c]}
==============================================================================
