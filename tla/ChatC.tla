-------------------------------- MODULE ChatC --------------------------------
(***************************************************************************)
(* The end of the chat client "9_Chatting server & client/chatc.c": main,  *)
(* the threads R (ReceiveMsg) and S (SendMsg), which may be cancelled at   *)
(* any point, and the SIGINT handler, which the kernel runs in main.  The  *)
(* contents of the texts are in ChatS.                                     *)
(***************************************************************************)
EXTENDS Naturals

CONSTANT MaxUnread   \* bound: texts the server sends ahead of ReceiveMsg

VARIABLES main,         \* where main is, in the handler or not
          thread,       \* where each thread is
          ids,          \* tidR and tidS that have been set
          cancelled,    \* threads that have been cancelled
          peer,         \* how the server has left the connection
          unread,       \* texts from the server
          interrupted,  \* SIGINT has come
          end           \* how the process has ended

ownVars == <<main, thread, ids, cancelled, end>>
netVars == <<peer, unread>>
vars == <<ownVars, netVars, interrupted>>

Threads == {"R", "S"}
Handler == {"cancelR", "cancelS", "joinRAgain", "joinSAgain", "close"}

Init == /\ main = "sendID"
        /\ thread = [t \in Threads |-> "none"]
        /\ ids = {} /\ cancelled = {}
        /\ peer = "open" /\ unread = 0
        /\ interrupted = FALSE
        /\ end = "no"

\* The server sends, or closes; with something unread of ours it aborts.
Server == \/ /\ peer = "open" /\ unread < MaxUnread
             /\ unread' = unread + 1
             /\ UNCHANGED <<ownVars, peer, interrupted>>
          \/ /\ peer = "open"
             /\ peer' \in {"closed", "aborted"}
             /\ UNCHANGED <<ownVars, unread, interrupted>>

\* The process ends with all its threads.
End(how) == end' = how /\ UNCHANGED <<main, thread, ids, cancelled, netVars, interrupted>>

\* send: the first one after the server has closed is answered with a reset,
\* the next one ends the process with SIGPIPE.
SendThen(done) ==
    \/ /\ peer \in {"open", "closed"}
       /\ peer' = IF peer = "closed" THEN "reset" ELSE peer
       /\ done
       /\ UNCHANGED <<ids, cancelled, end, unread, interrupted>>
    \/ /\ peer \in {"reset", "aborted"}
       /\ End("failed")

SendID == /\ main = "sendID"
          /\ SendThen(main' = "createR" /\ UNCHANGED thread)

\* A faulty Create: both ids go to the variable of the first.
CreateIntoTidR(t, next) ==
    /\ ids' = ids \cup {"R"}
    /\ thread' = [thread EXCEPT ![t] = IF t = "R" THEN "recv" ELSE "fgets"]
    /\ main' = next
    /\ UNCHANGED <<cancelled, end, netVars, interrupted>>

\* pthread_create sets the id before the thread runs.
Create(t, next) ==
    /\ ids' = ids \cup {t}
    /\ thread' = [thread EXCEPT ![t] = IF t = "R" THEN "recv" ELSE "fgets"]
    /\ main' = next
    /\ UNCHANGED <<cancelled, end, netVars, interrupted>>

\* pthread_join(tidR), pthread_join(tidS), return 0.  The second one returns
\* at once with an error, which main takes for success, if R has joined S.
Join == \/ /\ main = "joinR" /\ thread["R"] = "dead"
           /\ main' = "joinS"
           /\ UNCHANGED <<thread, ids, cancelled, end, netVars, interrupted>>
        \/ /\ main = "joinS" /\ thread["S"] = "dead"
           /\ End("exit")

Main == \/ main = "createR" /\ Create("R", "createS")
        \/ main = "createS" /\ Create("S", "joinR")
        \/ Join

\* pthread_cancel of an id that is still 0 is a crash; of a thread that has
\* ended it may be an error, which ends the process.
Cancel(t, done) ==
    IF t \notin ids THEN End("crashed")
    ELSE \/ /\ cancelled' = cancelled \cup {t}
            /\ done
            /\ UNCHANGED <<ids, end, netVars, interrupted>>
         \/ /\ thread[t] = "dead"
            /\ End("failed")

Goto(label) == main' = label /\ UNCHANGED thread

\* A faulty CloseClient: cancels ReceiveMsg only.
CloseClientKeepingS ==
    \/ main = "cancelR" /\ Cancel("R", Goto("joinRAgain"))
    \/ /\ main = "joinRAgain" /\ thread["R"] = "dead"
       /\ Goto("joinSAgain")
       /\ UNCHANGED <<ids, cancelled, end, netVars, interrupted>>
    \/ /\ main = "joinSAgain" /\ thread["S"] = "dead"
       /\ End("exit")

\* The handler
CloseClient ==
    \/ main = "cancelR" /\ Cancel("R", Goto("cancelS"))
    \/ main = "cancelS" /\ Cancel("S", Goto("joinRAgain"))
    \/ /\ main = "joinRAgain" /\ thread["R"] = "dead"
       /\ Goto("joinSAgain")
       /\ UNCHANGED <<ids, cancelled, end, netVars, interrupted>>
    \/ /\ main = "joinSAgain" /\ thread["S"] = "dead"
       /\ End("exit")

\* A join of a thread that is being joined already, by ReceiveMsg or by the main
\* that was interrupted, may return an error at once, which passes for success.
JoinAtOnce ==
    \/ /\ main = "joinRAgain" /\ thread["S"] # "none"
       /\ Goto("joinSAgain")
       /\ UNCHANGED <<ids, cancelled, end, netVars, interrupted>>
    \/ /\ main = "joinSAgain" /\ thread["R"] \in {"joinS", "dead"}
       /\ End("exit")

\* SIGINT, in main; it is blocked while the handler runs.
Interrupt == /\ main \notin Handler
             /\ interrupted' = TRUE
             /\ main' = "cancelR"
             /\ UNCHANGED <<thread, ids, cancelled, end, netVars>>

R(label) == /\ thread' = [thread EXCEPT !["R"] = label]
            /\ UNCHANGED main

\* recv; when the server has closed, the end of both threads
ReceiveMsg ==
    \/ /\ thread["R"] = "recv" /\ unread > 0 /\ peer # "aborted"
       /\ unread' = unread - 1
       /\ UNCHANGED <<ownVars, peer, interrupted>>
    \/ thread["R"] = "recv" /\ peer = "aborted" /\ End("failed")
    \/ /\ thread["R"] = "recv" /\ unread = 0 /\ peer \in {"closed", "reset"}
       /\ R("cancelS")
       /\ UNCHANGED <<ids, cancelled, end, netVars, interrupted>>
    \/ thread["R"] = "cancelS" /\ Cancel("S", R("joinS"))
    \/ /\ thread["R"] = "joinS" /\ thread["S"] = "dead"
       /\ R("dead")
       /\ UNCHANGED <<ids, cancelled, end, netVars, interrupted>>

\* fgets waits for the user, then send
Fgets == /\ thread["S"] = "fgets"
         /\ thread' = [thread EXCEPT !["S"] = "send"]
         /\ UNCHANGED <<main, ids, cancelled, end, netVars, interrupted>>
SendMsg == /\ thread["S"] = "send"
           /\ SendThen(thread' = [thread EXCEPT !["S"] = "fgets"] /\ UNCHANGED main)

\* Asynchronous cancellation takes effect wherever the thread is.
Cancelled(t) == /\ t \in cancelled /\ thread[t] # "dead"
                /\ thread' = [thread EXCEPT ![t] = "dead"]
                /\ UNCHANGED <<main, ids, cancelled, end, netVars, interrupted>>

User == SendID \/ Fgets \/ Interrupt
OwnStep == Main \/ CloseClient
Next == /\ end = "no"
        /\ \/ User \/ Server \/ OwnStep \/ JoinAtOnce \/ ReceiveMsg \/ SendMsg
           \/ \E t \in Threads : Cancelled(t)

\* The threads run; the user and the server need not do anything, and no join
\* has to return too early.
Fairness == /\ WF_vars(end = "no" /\ OwnStep)
            /\ WF_vars(end = "no" /\ ReceiveMsg)
            /\ WF_vars(end = "no" /\ SendMsg)
            /\ \A t \in Threads : WF_vars(end = "no" /\ Cancelled(t))

Spec == Init /\ [][Next]_vars /\ Fairness
------------------------------------------------------------------------------
(* Properties *)

\* Both the handler and ReceiveMsg cancel SendMsg by its id.  A SIGINT at the
\* ID prompt, or a server that closes at once, finds an id that is not set and
\* crashes the client; once both threads run nothing does.
CrashesOnlyEarly == end = "crashed" => thread["S"] = "none"

\* The client ends, whichever way, after SIGINT and after the server has closed
\* while ReceiveMsg runs: nobody joins a thread that is never cancelled, and no
\* two wait for each other, although three places join SendMsg.
Ends == interrupted \/ (peer # "open" /\ thread["R"] # "none") ~> end # "no"
==============================================================================
