-------------------------------- MODULE SipcV --------------------------------
(***************************************************************************)
(* "6_Synchronization/sipc1.c" and sipc2.c: a request and its reply in a   *)
(* shared memory segment under three System V semaphores.  sipc1 gives the *)
(* semaphores their values and replies, sipc2 asks and destroys them.      *)
(***************************************************************************)
EXTENDS Integers, Sequences

CONSTANTS Settings,   \* how the two are run
          MaxKills    \* bound: processes killed by a signal, if they are

\* prompt: sipc2 is back in semWait before sipc1 has exited
\* slow: they take any time
\* harsh: a signal may kill them, too
ASSUME SipcAssumption == /\ Settings \subseteq {"prompt", "slow", "harsh"}
                         /\ MaxKills \in Nat

VARIABLES box, heard, got,   \* see RequestReply
          setting,           \* how this run is made
          sems,              \* the semaphores, by name
          pc,                \* where each process is or goes on after its sleep
          kills              \* processes killed so far

boxVars == <<box, heard, got>>
vars == <<boxVars, setting, sems, pc, kills>>

Peers == {"sipc1", "sipc2"}
Semaphores == {"Empty", "Full", "Mutex"}

INSTANCE SysVProcs WITH Procs <- Peers, Names <- Semaphores

Setup  == {"shmget", "shmat", "openEmpty", "openFull", "openMutex",
           "setEmpty", "setFull", "setMutex"}
Gone   == {"exited", "aborted"}     \* aborted: killed while setting values

Init == /\ box = "nothing" /\ heard = "nothing" /\ got = "nothing"
        /\ setting \in Settings
        /\ sems = [s \in Semaphores |-> Absent]
        /\ pc = [p \in Peers |-> "shmget"]
        /\ kills = 0

\* Whoever comes first creates the segment.
Attach(p) == /\ \/ At(p, "shmget") /\ Goto(p, "shmat")
                \/ At(p, "shmat") /\ Goto(p, "openEmpty")
             /\ UNCHANGED <<setting, boxVars, sems, kills>>

Opened == [sipc1 |-> "setEmpty", sipc2 |-> "waitEmpty"]

Open(p) == /\ \/ SemInit(p, "openEmpty", "Empty", "openFull")
              \/ SemInit(p, "openFull", "Full", "openMutex")
              \/ SemInit(p, "openMutex", "Mutex", Opened[p])
           /\ UNCHANGED <<setting, boxVars, kills>>

Start == /\ \/ SemInitValue("sipc1", "setEmpty", "Empty", 1, "setFull")
            \/ SemInitValue("sipc1", "setFull", "Full", 0, "setMutex")
            \/ SemInitValue("sipc1", "setMutex", "Mutex", 1, "waitFull")
         /\ UNCHANGED <<setting, boxVars, kills>>

\* A faulty Semop1: posts the mutex where it should post Empty.
Semop1PostingMutexTwice ==
    /\ \/ SemWait("sipc1", "waitFull", "Full", "waitMutex")
       \/ SemWait("sipc1", "waitMutex", "Mutex", "hear")
       \/ SemPost("sipc1", "postMutex", "Mutex", "postEmpty")
       \/ SemPost("sipc1", "postEmpty", "Mutex", "done")
    /\ UNCHANGED <<setting, boxVars, kills>>

Semop1 == /\ \/ SemWait("sipc1", "waitFull", "Full", "waitMutex")
             \/ SemWait("sipc1", "waitMutex", "Mutex", "hear")
             \/ SemPost("sipc1", "postMutex", "Mutex", "postEmpty")
             \/ SemPost("sipc1", "postEmpty", "Empty", "done")
          /\ UNCHANGED <<setting, boxVars, kills>>

\* printf("Received request: ...", pData)
Hear == /\ At("sipc1", "hear")
        /\ heard' = box
        /\ Goto("sipc1", "reply")
        /\ UNCHANGED <<setting, box, got, sems, kills>>

\* sprintf(pData, "This is a reply ...")
Reply == /\ At("sipc1", "reply")
         /\ box' = "reply"
         /\ Goto("sipc1", "postMutex")
         /\ UNCHANGED <<setting, heard, got, sems, kills>>

Exit1 == /\ \/ At("sipc1", "failed")
            \/ /\ At("sipc1", "done")
               /\ setting = "prompt" => Asleep("sipc2") \/ pc["sipc2"] \notin {"waitReply"}
         /\ Leave("sipc1", "exited")
         /\ UNCHANGED <<setting, boxVars, kills>>

Semop2 == /\ \/ SemWait("sipc2", "waitEmpty", "Empty", "waitMutex")
             \/ SemWait("sipc2", "waitMutex", "Mutex", "ask")
             \/ SemPost("sipc2", "postMutex", "Mutex", "postFull")
             \/ SemPost("sipc2", "postFull", "Full", "waitReply")
             \/ SemWait("sipc2", "waitReply", "Empty", "receive")
          /\ UNCHANGED <<setting, boxVars, kills>>

\* sprintf(pData, "This is a request ...")
Ask == /\ At("sipc2", "ask")
       /\ box' = "request"
       /\ Goto("sipc2", "postMutex")
       /\ UNCHANGED <<setting, heard, got, sems, kills>>

\* printf("Received reply: ...", pData)
Receive == /\ At("sipc2", "receive")
           /\ got' = box
           /\ Goto("sipc2", "destroyEmpty")
           /\ UNCHANGED <<setting, box, heard, sems, kills>>

DestroyAll == /\ \/ SemDestroy("sipc2", "destroyEmpty", "Empty", "destroyFull")
                 \/ SemDestroy("sipc2", "destroyFull", "Full", "destroyMutex")
                 \/ SemDestroy("sipc2", "destroyMutex", "Mutex", "remove")
              /\ UNCHANGED <<setting, boxVars, kills>>

\* The end of sipc2, after it has removed the segment: who is attached keeps it.
Exit2 == /\ At("sipc2", "failed") \/ At("sipc2", "remove")
         /\ Leave("sipc2", "exited")
         /\ UNCHANGED <<setting, boxVars, kills>>

\* A signal without a handler, at any point of the program.
Kill(p) == /\ setting = "harsh"
           /\ kills < MaxKills
           /\ pc[p] \notin Gone
           /\ kills' = kills + 1
           /\ Leave(p, IF pc[p] \in Setup THEN "aborted" ELSE "exited")
           /\ UNCHANGED <<setting, boxVars>>

Sipc1 == Attach("sipc1") \/ Open("sipc1") \/ Start \/ Semop1 \/ Hear \/ Reply \/ Exit1
Sipc2 == Attach("sipc2") \/ Open("sipc2") \/ Semop2 \/ Ask \/ Receive \/ DestroyAll \/ Exit2

\* Every process has ended, or sleeps with nobody left to wake it.
Stopped == /\ \A p \in Peers : pc[p] \in Gone \/ Asleep(p)
           /\ UNCHANGED vars

Next == Sipc1 \/ Sipc2 \/ Stopped \/ \E p \in Peers : Kill(p)

Spec == Init /\ [][Next]_vars /\ WF_vars(Sipc1) /\ WF_vars(Sipc2)
------------------------------------------------------------------------------
(* Properties *)

RR == INSTANCE RequestReply

\* sipc1 only ever replies to a request, and sipc2 never takes its own request
\* or an empty text for the reply, even if the other side is killed and its
\* semaphore operations are undone.
NoFalseText == RR!Safety

\* The request is answered and the reply received.
Answered == setting # "harsh" => <>(got = "reply")
==============================================================================
