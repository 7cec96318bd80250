------------------------------ MODULE SipcOthers ------------------------------
(***************************************************************************)
(* The other programs that put a request to Sipc1 and take its reply:      *)
(*   shm   "5_Inter-Process Communication/sipc1.c", sipc2.c: busy waiting  *)
(*         on a flag in a shared memory segment                            *)
(*   msgq  msgq1.c, msgq2.c: a message queue                               *)
(*   sipc3 "6_Synchronization/sipc3.c": threads, a mutex and a condition   *)
(*   sipc4 sipc4.c: threads, semaphores                                    *)
(***************************************************************************)
EXTENDS Naturals, Sequences

VARIABLES box, heard, got,  \* see RequestReply
          sync              \* the rest: the program and what keeps the two apart

boxVars == <<box, heard, got>>
vars == <<boxVars, sync>>

\* slow, of msgq: msgq2 may take more than a second to get to msgrcv.
\* made: the segment or queue exists; flag: *pInt or Nbuf;
\* spurious: history, pthread_cond_wait has returned without a signal.
Starts == [version : {"shm", "msgq", "sipc3", "sipc4"}, slow : BOOLEAN,
           at : {[Sipc1 |-> "start", Sipc2 |-> "start"]},
           made : {FALSE}, flag : {0}, msgs : {<<>>}, mutex : {"free"},
           Mutex : {1}, Empty : {1}, Full : {0}, spurious : {FALSE}]

Init == /\ box = "nothing" /\ heard = "nothing" /\ got = "nothing"
        /\ sync \in Starts

At(p, label) == sync.at[p] = label

\* What the programs do with the text, whatever keeps them apart.
Quiet == UNCHANGED boxVars
Hear  == heard' = box /\ UNCHANGED <<box, got>>
Reply == box' = "reply" /\ UNCHANGED <<heard, got>>
Ask   == box' = "request" /\ UNCHANGED <<heard, got>>
Take  == got' = box /\ UNCHANGED <<box, heard>>

\* p does text at "from" and goes on at "to".
Do(p, from, to, text) ==
    At(p, from) /\ sync' = [sync EXCEPT !.at[p] = to] /\ text
------------------------------------------------------------------------------
(* shm: a write of the flag lets the other one go on. *)

Flag(p, from, to, value) ==
    At(p, from) /\ sync' = [sync EXCEPT !.at[p] = to, !.flag = value] /\ Quiet
Made(p, from, to, exists) ==
    At(p, from) /\ sync' = [sync EXCEPT !.at[p] = to, !.made = exists] /\ Quiet

\* A faulty ShmSipc1: gives the flag back before it has replied.
ShmSipc1FlagFirst == \/ Made("Sipc1", "start", "spin", TRUE)
                     \/ sync.flag # 0 /\ Do("Sipc1", "spin", "hear", Quiet)
                     \/ Do("Sipc1", "hear", "flag", Hear)
                     \/ Flag("Sipc1", "flag", "reply", 0)
                     \/ Do("Sipc1", "reply", "remove", Reply)
                     \/ Made("Sipc1", "remove", "exited", FALSE)

ShmSipc1 == \/ Made("Sipc1", "start", "spin", TRUE)
            \/ sync.flag # 0 /\ Do("Sipc1", "spin", "hear", Quiet)
            \/ Do("Sipc1", "hear", "reply", Hear)
            \/ Do("Sipc1", "reply", "flag", Reply)
            \/ Flag("Sipc1", "flag", "remove", 0)
            \/ Made("Sipc1", "remove", "exited", FALSE)

ShmSipc2 == \/ Made("Sipc2", "start", "ask", TRUE)
            \/ Do("Sipc2", "ask", "flag", Ask)
            \/ Flag("Sipc2", "flag", "spin", 1)
            \/ sync.flag # 1 /\ Do("Sipc2", "spin", "take", Quiet)
            \/ Do("Sipc2", "take", "exited", Take)
------------------------------------------------------------------------------
(* msgq: msgrcv takes the first message of its type *)

Post(p, from, to, type, text) ==
    At(p, from) /\ sync' = [sync EXCEPT !.at[p] = to, !.msgs = Append(@, type)] /\ text
Fetch(p, from, to, type, text) ==
    /\ At(p, from)
    /\ \E k \in DOMAIN sync.msgs : sync.msgs[k] = type
    /\ sync' = [sync EXCEPT !.at[p] = to,
                            !.msgs = SelectSeq(@, LAMBDA m : m # type)]
    /\ text

\* msgctl(IPC_RMID) comes a second after the reply.
Msgq1 == \/ Made("Sipc1", "start", "receive", TRUE)
         \/ Fetch("Sipc1", "receive", "send", "request", Hear)
         \/ Post("Sipc1", "send", "remove", "reply", Reply)
         \/ /\ sync.slow \/ At("Sipc2", "exited")
            /\ Made("Sipc1", "remove", "exited", FALSE)

\* msgget does not create the queue, msgrcv fails when it has been removed.
Msgq2 == \/ Do("Sipc2", "start", IF sync.made THEN "send" ELSE "noQueue", Quiet)
         \/ Post("Sipc2", "send", "receive", "request", Ask)
         \/ sync.made /\ Fetch("Sipc2", "receive", "exited", "reply", Take)
         \/ ~sync.made /\ Do("Sipc2", "receive", "failed", Quiet)
------------------------------------------------------------------------------
(* sipc3: each waits once, by "if", for the same condition *)

Lock(p, from, to) == /\ sync.mutex = "free" /\ At(p, from)
                     /\ sync' = [sync EXCEPT !.at[p] = to, !.mutex = p]
                     /\ Quiet
Unlock(p, from, to) == /\ At(p, from)
                       /\ sync' = [sync EXCEPT !.at[p] = to, !.mutex = "free"]
                       /\ Quiet

\* pthread_cond_signal
Signal(p, other, from, to) ==
    /\ At(p, from)
    /\ sync' = [sync EXCEPT !.at[p] = to,
                            !.at[other] = IF @ = "asleep" THEN "relock" ELSE @]
    /\ Quiet

Sipc3First == \/ Lock("Sipc1", "start", "test")
              \/ sync.flag # 0 /\ Do("Sipc1", "test", "hear", Quiet)
              \/ sync.flag = 0 /\ Unlock("Sipc1", "test", "asleep")
              \/ Lock("Sipc1", "relock", "hear")
              \/ Do("Sipc1", "hear", "empty", Hear)
              \/ Flag("Sipc1", "empty", "reply", 0)
              \/ Do("Sipc1", "reply", "signal", Reply)
              \/ Signal("Sipc1", "Sipc2", "signal", "unlock")
              \/ Unlock("Sipc1", "unlock", "exited")

Sipc3Second == \/ Lock("Sipc2", "start", "ask")
               \/ Do("Sipc2", "ask", "fill", Ask)
               \/ Flag("Sipc2", "fill", "signal", 1)
               \/ Signal("Sipc2", "Sipc1", "signal", "test")
               \/ sync.flag = 1 /\ Unlock("Sipc2", "test", "asleep")
               \/ Lock("Sipc2", "relock", "take")
               \/ Do("Sipc2", "take", "unlock", Take)
               \/ Unlock("Sipc2", "unlock", "exited")

\* pthread_cond_wait may return without a signal.
SpuriousWake(p) ==
    /\ sync.version = "sipc3" /\ At(p, "asleep")
    /\ sync' = [sync EXCEPT !.at[p] = "relock", !.spurious = TRUE]
    /\ Quiet
------------------------------------------------------------------------------
(* sipc4: a call of sem_wait or sem_post is one step *)

SemWait(p, from, s, to) == /\ At(p, from) /\ sync[s] > 0
                           /\ sync' = [sync EXCEPT !.at[p] = to, ![s] = @ - 1]
                           /\ Quiet
SemPost(p, from, s, to) == /\ At(p, from)
                           /\ sync' = [sync EXCEPT !.at[p] = to, ![s] = @ + 1]
                           /\ Quiet

Sipc4First == \/ SemWait("Sipc1", "start", "Full", "lock")
              \/ SemWait("Sipc1", "lock", "Mutex", "hear")
              \/ Do("Sipc1", "hear", "reply", Hear)
              \/ Do("Sipc1", "reply", "unlock", Reply)
              \/ SemPost("Sipc1", "unlock", "Mutex", "post")
              \/ SemPost("Sipc1", "post", "Empty", "exited")

Sipc4Second == \/ SemWait("Sipc2", "start", "Empty", "lock")
               \/ SemWait("Sipc2", "lock", "Mutex", "ask")
               \/ Do("Sipc2", "ask", "unlock", Ask)
               \/ SemPost("Sipc2", "unlock", "Mutex", "post")
               \/ SemPost("Sipc2", "post", "Full", "wait")
               \/ SemWait("Sipc2", "wait", "Empty", "take")
               \/ Do("Sipc2", "take", "exited", Take)
------------------------------------------------------------------------------
Sipc1 == \/ sync.version = "shm" /\ ShmSipc1
         \/ sync.version = "msgq" /\ Msgq1
         \/ sync.version = "sipc3" /\ Sipc3First
         \/ sync.version = "sipc4" /\ Sipc4First
Sipc2 == \/ sync.version = "shm" /\ ShmSipc2
         \/ sync.version = "msgq" /\ Msgq2
         \/ sync.version = "sipc3" /\ Sipc3Second
         \/ sync.version = "sipc4" /\ Sipc4Second

\* The main of sipc3 and sipc4 only creates and joins the two threads.
Next == Sipc1 \/ Sipc2 \/ \E p \in {"Sipc1", "Sipc2"} : SpuriousWake(p)

Spec == Init /\ [][Next]_vars /\ WF_vars(Sipc1) /\ WF_vars(Sipc2)
------------------------------------------------------------------------------
(* Properties *)

RR == INSTANCE RequestReply

\* In all four programs Sipc1 replies only to the request and Sipc2 takes only
\* that reply for its answer: in sipc3, where both wait on one condition behind
\* an "if", as long as no wakeup is spurious.
NoFalseText == RR!Init /\ [][RR!Next \/ sync'.spurious]_boxVars

\* The reply is received; except that msgq2 fails when it is started before
\* msgq1 has made the queue, or comes to msgrcv after it was removed.
Answered == <>(\/ got = "reply" \/ sync.spurious \/ At("Sipc2", "noQueue")
               \/ sync.version = "msgq" /\ sync.slow)
==============================================================================
