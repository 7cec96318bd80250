------------------------------- MODULE MCChat -------------------------------
(* Both ends of the chat: the server with two clients, and the threads of    *)
(* one client.  A run is about one of the two; the other rests.              *)
EXTENDS ChatS

CONSTANT MaxUnread

VARIABLES side, main, thread, ids, cancelled, peer, unread, interrupted, end

C == INSTANCE ChatC

clientVars == <<main, thread, ids, cancelled, peer, unread, interrupted, end>>
anyVars == <<side, vars, clientVars>>
AnyInit == side \in {"server", "client"} /\ Init /\ C!Init

ServerSide(A) == side = "server" /\ A /\ UNCHANGED <<side, clientVars>>
ClientSide(A) == side = "client" /\ end = "no" /\ A /\ UNCHANGED <<side, vars>>

AnySpec == /\ AnyInit
           /\ [][ServerSide(Next) \/ ClientSide(C!Next)]_anyVars
           /\ WF_anyVars(ServerSide(Server))
           /\ WF_anyVars(ClientSide(C!OwnStep))
           /\ WF_anyVars(ClientSide(C!ReceiveMsg))
           /\ WF_anyVars(ClientSide(C!SendMsg))
           /\ \A t \in C!Threads : WF_anyVars(ClientSide(C!Cancelled(t)))

\* In either run; the client's own (chatc.c): once both threads are created,
\* neither SIGINT nor the end of the server crashes it.
CrashesOnlyEarly == C!CrashesOnlyEarly

\* The client ends after SIGINT and after the end of the server (chatc.c).
Ends == C!Ends
=============================================================================
