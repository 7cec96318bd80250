------------------------------- MODULE Servers -------------------------------
(***************************************************************************)
(* The servers of "7_Sockets" and their clients: tcps.c takes one          *)
(* connection after the other, hw2.c a process for each, udps.c datagrams, *)
(* select.c connections and datagrams by turns, hw3.c a thread for each.   *)
(* All of them read one request, write one reply and close.                *)
(***************************************************************************)
EXTENDS Integers, Sequences, FiniteSets

CONSTANTS TcpClients,  \* runs of tcpc.c or tcpc_dns.c
          UdpClients,  \* runs of udpc.c
          Kinds,       \* the servers to look at
          MaxKills,    \* bound: clients killed by a signal
          MaxSpare     \* bound: threads of hw3 that wait for the same thing

ASSUME ServersAssumption ==
    /\ TcpClients \cap UdpClients = {}
    /\ "main" \notin TcpClients
    /\ Kinds \subseteq {"tcps", "hw2", "udps", "select", "hw3"}
    /\ MaxKills \in Nat
    /\ MaxSpare \in Nat \ {0, 1}

Clients == TcpClients \cup UdpClients

VARIABLES kind,         \* the server that runs
          mute,         \* clients that are stopped once connected
          main,         \* where the server's first thread is, or "gone"
          todo,         \* select, hw3: what is left of count
          spare,        \* hw3: threads in accept and in recvfrom
          listeners,    \* processes that have the listening socket open
          backlog,      \* connections not accepted yet
          dgrams,       \* datagrams not received yet
          serving,      \* how far the server is with each client
          conn,         \* the server's side of each connection
          request,      \* each client's request: none, unread, read
          answer,       \* TRUE: a reply waits to be read by the client
          client,       \* how far each client is
          got,          \* what it printed as the reply
          interrupted   \* the server has had its SIGINT

serverVars == <<main, todo, spare, listeners, interrupted>>
netVars    == <<backlog, dgrams, conn, request, answer>>
clientVars == <<client, got>>
vars == <<kind, mute, serverVars, netVars, serving, clientVars>>

Init == /\ kind \in Kinds
        /\ mute \in {S \in SUBSET TcpClients : Cardinality(S) <= 1}
        /\ main = IF kind = "udps" THEN "makeUdp" ELSE "makeTcp"
        /\ todo = <<>>
        /\ spare = [accept |-> 0, recvfrom |-> 0]
        /\ listeners = {} /\ backlog = <<>> /\ dgrams = <<>>
        /\ serving = [c \in Clients |-> "no"]
        /\ conn = [c \in Clients |-> "none"]
        /\ request = [c \in Clients |-> "none"]
        /\ answer = [c \in Clients |-> FALSE]
        /\ client = [c \in Clients |-> "idle"]
        /\ got = [c \in Clients |-> "nothing"]
        /\ interrupted = FALSE

Has(k) == kind \in k
UdpOpen == Has({"udps", "select", "hw3"}) /\ main \notin {"makeTcp", "makeUdp", "gone"}
------------------------------------------------------------------------------
(* The clients *)

\* connect
Connect(c) ==
    /\ client[c] = "idle"
    /\ IF listeners = {}
       THEN /\ client' = [client EXCEPT ![c] = "failed"]
            /\ UNCHANGED <<conn, backlog>>
       ELSE /\ client' = [client EXCEPT ![c] = "connected"]
            /\ conn' = [conn EXCEPT ![c] = "open"]
            /\ backlog' = Append(backlog, c)
    /\ UNCHANGED <<kind, mute, serverVars, dgrams, request, answer, serving, got>>

\* write: it is not told that the server has closed, but that it was reset
Send(c) ==
    /\ client[c] = "connected" /\ c \notin mute
    /\ client' = [client EXCEPT ![c] = IF conn[c] = "reset" THEN "failed" ELSE "sent"]
    /\ request' = [request EXCEPT ![c] = IF conn[c] = "open" THEN "unread" ELSE @]
    /\ UNCHANGED <<kind, mute, serverVars, backlog, dgrams, conn, answer, serving, got>>

\* read: 0 at the end of the connection is no error, msg is still the request
Read(c) ==
    /\ client[c] = "sent"
    /\ answer[c] \/ conn[c] \in {"closed", "reset"}
    /\ IF answer[c] \/ conn[c] = "closed"
       THEN /\ got' = [got EXCEPT ![c] = IF answer[c] THEN "reply" ELSE "request"]
            /\ client' = [client EXCEPT ![c] = "done"]
       ELSE /\ client' = [client EXCEPT ![c] = "failed"]
            /\ UNCHANGED got
    /\ UNCHANGED <<kind, mute, serverVars, netVars, serving>>

Tcpc(c) == Connect(c) \/ Send(c) \/ Read(c)

\* sendto and recvfrom: a datagram that nobody has a socket for is gone.
Udpc(c) ==
    \/ /\ client[c] = "idle"
       /\ client' = [client EXCEPT ![c] = "sent"]
       /\ dgrams' = IF UdpOpen THEN Append(dgrams, c) ELSE dgrams
       /\ UNCHANGED <<kind, mute, serverVars, backlog, conn, request, answer, serving, got>>
    \/ /\ client[c] = "sent" /\ answer[c]
       /\ client' = [client EXCEPT ![c] = "done"]
       /\ got' = [got EXCEPT ![c] = "reply"]
       /\ UNCHANGED <<kind, mute, serverVars, netVars, serving>>

\* A signal ends a client.
Ended == {"done", "failed", "killed"}
Kill(c) ==
    /\ client[c] \notin {"idle"} \cup Ended
    /\ Cardinality({d \in Clients : client[d] = "killed"}) < MaxKills
    /\ client' = [client EXCEPT ![c] = "killed"]
    /\ UNCHANGED <<kind, mute, serverVars, netVars, serving, got>>
------------------------------------------------------------------------------
(* What the servers do with a connection or a datagram *)

\* Who closes with a request unread resets the connection.
Closed(c) == IF request[c] = "unread" THEN "reset" ELSE "closed"

\* When nobody has the listening socket any longer, what was not accepted is reset.
Drop(gone, closing) ==
    LET lost == IF listeners \subseteq gone THEN {backlog[i] : i \in DOMAIN backlog} ELSE {}
    IN /\ listeners' = listeners \ gone
       /\ backlog' = IF listeners \subseteq gone THEN <<>> ELSE backlog
       /\ conn' = [c \in Clients |-> IF c \in lost THEN "reset"
                                     ELSE IF c \in closing THEN Closed(c) ELSE conn[c]]

\* The end of the server's process with all its threads.
Die == /\ main' = "gone"
       /\ todo' = <<>>
       /\ spare' = [accept |-> 0, recvfrom |-> 0]
       /\ listeners' = {} /\ backlog' = <<>> /\ dgrams' = <<>>
       /\ serving' = [c \in Clients |-> "no"]
       /\ conn' = [c \in Clients |->
                     IF conn[c] # "open" THEN conn[c]
                     ELSE IF serving[c] = "no" THEN "reset" ELSE Closed(c)]
       /\ UNCHANGED <<kind, mute, request, answer, clientVars>>

\* accept; next: what to do with the connection
Accept(next) ==
    /\ backlog # <<>>
    /\ backlog' = Tail(backlog)
    /\ serving' = [serving EXCEPT ![Head(backlog)] = next]
    /\ UNCHANGED <<kind, mute, listeners, interrupted, dgrams, conn, request, answer, clientVars>>

\* read: the request, or 0 from a client that has died
ReadRequest(c) ==
    /\ serving[c] = "read"
    /\ request[c] = "unread" \/ client[c] = "killed"
    /\ request' = [request EXCEPT ![c] = IF @ = "unread" THEN "read" ELSE @]
    /\ serving' = [serving EXCEPT ![c] = "write"]
    /\ UNCHANGED <<kind, mute, serverVars, backlog, dgrams, conn, answer, clientVars>>

\* A faulty WriteReply: the text and then its end in a write of its own.
WriteReplyTwice(c) ==
    /\ serving[c] = "write"
    /\ IF conn[c] = "reset" /\ kind # "hw2"
       THEN Die /\ UNCHANGED interrupted
       ELSE /\ conn' = [conn EXCEPT ![c] = IF client[c] \in Ended THEN "reset" ELSE @]
            /\ answer' = [answer EXCEPT ![c] = client[c] \notin Ended]
            /\ serving' = [serving EXCEPT ![c] = IF answer[c] THEN "close" ELSE "write"]
            /\ UNCHANGED <<kind, mute, serverVars, backlog, dgrams, request, clientVars>>

\* write: to a client that has died it still succeeds, and is answered with a
\* reset; after that a write would end the process with SIGPIPE.
WriteReply(c) ==
    /\ serving[c] = "write"
    /\ IF conn[c] = "reset" /\ kind # "hw2"
       THEN Die /\ UNCHANGED interrupted
       ELSE /\ conn' = [conn EXCEPT ![c] = IF client[c] \in Ended THEN "reset" ELSE @]
            /\ answer' = [answer EXCEPT ![c] = client[c] \notin Ended]
            /\ serving' = [serving EXCEPT ![c] = "close"]
            /\ UNCHANGED <<kind, mute, serverVars, backlog, dgrams, request, clientVars>>

\* close; next: where the first thread goes on
Close(c, next) ==
    /\ serving[c] = "close"
    /\ serving' = [serving EXCEPT ![c] = "no"]
    /\ conn' = [conn EXCEPT ![c] = IF @ = "open" THEN Closed(c) ELSE @]
    /\ main' = next
    /\ UNCHANGED <<kind, mute, todo, spare, listeners, interrupted, backlog, dgrams,
                   request, answer, clientVars>>

\* recvfrom
ReceiveFrom == /\ dgrams # <<>>
               /\ dgrams' = Tail(dgrams)
               /\ serving' = [serving EXCEPT ![Head(dgrams)] = "send"]
               /\ UNCHANGED <<kind, mute, listeners, interrupted, backlog, conn, request,
                              answer, clientVars>>

\* sendto; next: where the first thread goes on
SendTo(c, next) ==
    /\ serving[c] = "send"
    /\ serving' = [serving EXCEPT ![c] = "no"]
    /\ answer' = [answer EXCEPT ![c] = client[c] \notin Ended]
    /\ main' = next
    /\ UNCHANGED <<kind, mute, todo, spare, listeners, interrupted, backlog, dgrams, conn,
                   request, clientVars>>
------------------------------------------------------------------------------
(* The servers *)

\* socket, bind, listen
MakeTcpSocket ==
    /\ main = "makeTcp"
    /\ listeners' = {"main"}
    /\ main' = IF Has({"select", "hw3"}) THEN "makeUdp" ELSE "accept"
    /\ UNCHANGED <<kind, mute, todo, spare, interrupted, netVars, serving, clientVars>>

MakeUdpSocket ==
    /\ main = "makeUdp"
    /\ main' = IF kind = "udps" THEN "recvfrom" ELSE "select"
    /\ UNCHANGED <<kind, mute, todo, spare, listeners, interrupted, netVars, serving, clientVars>>

Start == MakeTcpSocket \/ MakeUdpSocket

\* accept fails on the socket that the handler has closed: exit(1)
AcceptFails == /\ main = "accept" /\ "main" \notin listeners
               /\ main' = "gone"
               /\ UNCHANGED <<kind, mute, todo, spare, listeners, interrupted, netVars,
                              serving, clientVars>>

Tcps == /\ kind = "tcps"
        /\ \/ /\ main = "accept" /\ "main" \in listeners
              /\ Accept("read")
              /\ main' = "serve"
              /\ UNCHANGED <<todo, spare>>
           \/ AcceptFails
           \/ \E c \in TcpClients : \/ ReadRequest(c) \/ WriteReply(c)
                                    \/ Close(c, "accept")

\* A faulty Hw2Parent: serves the client before it forks.
Hw2ParentReading ==
    /\ kind = "hw2"
    /\ \/ /\ main = "accept" /\ "main" \in listeners
          /\ Accept("fork")
          /\ main' = "fork"
          /\ UNCHANGED <<todo, spare>>
       \/ AcceptFails
       \/ \E c \in TcpClients :
            /\ serving[c] = "fork" /\ request[c] = "unread"
            /\ serving' = [serving EXCEPT ![c] = "read"]
            /\ listeners' = IF "main" \in listeners THEN listeners \cup {c} ELSE listeners
            /\ main' = "accept"
            /\ UNCHANGED <<kind, mute, todo, spare, interrupted, netVars, clientVars>>

\* fork gives the child both sockets; the parent closes the new one.
Hw2Parent ==
    /\ kind = "hw2"
    /\ \/ /\ main = "accept" /\ "main" \in listeners
          /\ Accept("fork")
          /\ main' = "fork"
          /\ UNCHANGED <<todo, spare>>
       \/ AcceptFails
       \/ \E c \in TcpClients :
            /\ serving[c] = "fork"
            /\ serving' = [serving EXCEPT ![c] = "read"]
            /\ listeners' = IF "main" \in listeners THEN listeners \cup {c} ELSE listeners
            /\ main' = "accept"
            /\ UNCHANGED <<kind, mute, todo, spare, interrupted, netVars, clientVars>>

\* The child ends after its close; it had the listening socket, too.
Hw2Child(c) ==
    /\ kind = "hw2"
    /\ \/ ReadRequest(c) \/ WriteReply(c)
       \/ /\ serving[c] = "close"
          /\ serving' = [serving EXCEPT ![c] = "no"]
          /\ Drop({c}, {c})
          /\ UNCHANGED <<kind, mute, main, todo, spare, interrupted, dgrams, request,
                         answer, clientVars>>

Udps == /\ kind = "udps"
        /\ \/ /\ main = "recvfrom"
              /\ ReceiveFrom
              /\ main' = "serve"
              /\ UNCHANGED <<todo, spare>>
           \/ \E c \in UdpClients : SendTo(c, "recvfrom")

\* select says how many descriptors are ready; the loop over count asks for the
\* TCP socket first, every time.
Count == /\ main = "select"
         /\ backlog # <<>> \/ dgrams # <<>>
         /\ backlog # <<>> => spare.accept + 2 <= MaxSpare
         /\ dgrams # <<>> => spare.recvfrom + 1 <= MaxSpare
         /\ main' = "loop"
         /\ todo' = IF dgrams = <<>> THEN <<"tcp">>
                    ELSE IF backlog = <<>> THEN <<"udp">> ELSE <<"tcp", "tcp">>
         /\ UNCHANGED <<kind, mute, spare, listeners, interrupted, netVars, serving, clientVars>>

EndOfCount == /\ main = "loop" /\ todo = <<>>
              /\ main' = "select"
              /\ UNCHANGED <<kind, mute, todo, spare, listeners, interrupted, netVars,
                             serving, clientVars>>

Turn(label, what) == /\ main = "loop" /\ todo # <<>> /\ Head(todo) = what
                      /\ todo' = Tail(todo)
                      /\ main' = label
                      /\ UNCHANGED <<kind, mute, listeners, interrupted, netVars, serving,
                                     clientVars>>

ProcessTcpRequest == \/ Turn("accept", "tcp") /\ UNCHANGED spare
                     \/ /\ main = "accept"
                        /\ Accept("read")
                        /\ main' = "serve"
                        /\ UNCHANGED <<todo, spare>>
                     \/ \E c \in TcpClients : \/ ReadRequest(c) \/ WriteReply(c)
                                              \/ Close(c, "loop")

ProcessUdpRequest == \/ Turn("recvfrom", "udp") /\ UNCHANGED spare
                     \/ /\ main = "recvfrom"
                        /\ ReceiveFrom
                        /\ main' = "serve"
                        /\ UNCHANGED <<todo, spare>>
                     \/ \E c \in UdpClients : SendTo(c, "loop")

Select == /\ kind = "select"
          /\ Count \/ EndOfCount \/ ProcessTcpRequest \/ ProcessUdpRequest

\* pthread_create
Spawn(what, call) == /\ Turn("loop", what)
                     /\ spare' = [spare EXCEPT ![call] = @ + 1]

Hw3Main == /\ kind = "hw3"
           /\ Count \/ EndOfCount \/ Spawn("tcp", "accept") \/ Spawn("udp", "recvfrom")

Hw3Accept == /\ kind = "hw3" /\ spare.accept > 0
             /\ Accept("read")
             /\ spare' = [spare EXCEPT !.accept = @ - 1]
             /\ UNCHANGED <<main, todo>>

Hw3ReceiveFrom == /\ kind = "hw3" /\ spare.recvfrom > 0
                  /\ ReceiveFrom
                  /\ spare' = [spare EXCEPT !.recvfrom = @ - 1]
                  /\ UNCHANGED <<main, todo>>

Hw3Tcp(c) == kind = "hw3" /\ (ReadRequest(c) \/ WriteReply(c) \/ Close(c, main))
Hw3Udp(c) == kind = "hw3" /\ SendTo(c, main)

\* A faulty Interrupt: every handler exits at once.
InterruptExiting == /\ main \notin {"makeTcp", "makeUdp", "gone"} /\ ~interrupted
                    /\ interrupted' = TRUE
                    /\ Die

\* SIGINT: the handlers of tcps and hw2 close the socket and go on, in hw2 in
\* the parent or in the children, too; the others exit at once.
Interrupt == /\ main \notin {"makeTcp", "makeUdp", "gone"} /\ ~interrupted
             /\ interrupted' = TRUE
             /\ IF Has({"tcps", "hw2"})
                THEN /\ \E gone \in {{"main"}, listeners} : Drop(gone, {})
                     /\ UNCHANGED <<kind, mute, main, todo, spare, dgrams, request, answer,
                                    serving, clientVars>>
                ELSE Die

First == Start \/ Tcps \/ Hw2Parent \/ Udps \/ Select \/ Hw3Main
Others == Hw3Accept \/ Hw3ReceiveFrom
Next == \/ First \/ Others \/ Interrupt
        \/ \E c \in TcpClients : Tcpc(c) \/ Hw2Child(c) \/ Hw3Tcp(c)
        \/ \E c \in UdpClients : Udpc(c) \/ Hw3Udp(c)
        \/ \E c \in Clients : Kill(c)

\* Every process and every thread that can go on does; a mute client cannot.
Fairness == /\ WF_vars(First) /\ WF_vars(Hw3Accept) /\ WF_vars(Hw3ReceiveFrom)
            /\ \A c \in TcpClients : /\ WF_vars(Tcpc(c)) /\ WF_vars(Hw2Child(c))
                                     /\ WF_vars(Hw3Tcp(c))
            /\ \A c \in UdpClients : WF_vars(Udpc(c)) /\ WF_vars(Hw3Udp(c))

Spec == Init /\ [][Next]_vars /\ Fairness
------------------------------------------------------------------------------
(* Properties *)

\* tcpc takes a read of 0 for the reply and prints its own request; that can
\* happen only when a server whose handler exits at once (select, hw3) is
\* interrupted.  And a reply is written only after the request has been read.
TrueReply == \A c \in TcpClients :
                /\ got[c] = "request" => interrupted /\ Has({"select", "hw3"})
                /\ got[c] = "reply" => request[c] = "read"

\* No client ends a server, wherever it is killed; only SIGINT does.
Survives == main = "gone" => interrupted

\* The request is with the server's kernel and nobody has read it.
Pending(c) == \/ conn[c] = "open" /\ request[c] = "unread"
              \/ \E i \in DOMAIN dgrams : dgrams[i] = c

\* The one thread of tcps or select is held up in read by a mute client, that
\* of select in an accept that nobody connects to.
HeldUp == \/ Has({"tcps", "select"}) /\ \E m \in mute : serving[m] = "read"
          \/ kind = "select" /\ main = "accept" /\ backlog = <<>>

\* Every request that has arrived is answered, in hw2 and hw3 whatever the other
\* clients do, in tcps and hw2 in spite of SIGINT if it was accepted before;
\* unless the one thread is held up, or the server ends before it accepts.
Served == \A c \in Clients :
            Pending(c) ~> \/ answer[c] \/ client[c] \in Ended
                          \/ HeldUp
                          \/ main = "gone" /\ serving[c] = "no"

\* README.md:92: select.c "can received both tcp client and udp client".
Both == \A c \in Clients : Pending(c) /\ kind = "select" /\ mute = {}
                           ~> client[c] \in Ended \/ main = "gone"
==============================================================================
