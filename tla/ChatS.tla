-------------------------------- MODULE ChatS --------------------------------
(***************************************************************************)
(* The chat server "9_Chatting server & client/chats.c": one thread, a     *)
(* loop of select and a scan of the descriptors it found ready.  Its peers *)
(* are runs of chatc.c: each connects, sends its ID, then texts, and       *)
(* leaves when it likes.                                                   *)
(*                                                                         *)
(* TCP keeps the order of what a peer sends but not the borders: one recv  *)
(* returns any number of the items that wait.  Items are whole and short;  *)
(* each ends with a NUL, so the string functions of the server see only    *)
(* the first item of a recv.                                               *)
(***************************************************************************)
EXTENDS Integers, Sequences, FiniteSets

CONSTANTS Peers,        \* runs of chatc
          Nobody,       \* a descriptor that is not open
          MAX_CLIENT,   \* entries of Client
          Crowd,        \* bound: peers connected at a time
          MaxTexts      \* bound: texts a peer sends after its ID

\* MAX_CLIENT > 1: the entry that GetID returns from a full table exists.
ASSUME ChatAssumption == /\ IsFiniteSet(Peers) /\ Peers # {}
                         /\ Nobody \notin Peers
                         /\ MAX_CLIENT \in Nat \ {0, 1}
                         /\ Crowd \in Nat
                         /\ MaxTexts \in Nat

VARIABLES pc,          \* where the server is
          reads,       \* descriptors to watch
          cpy_reads,   \* descriptors found ready and not yet handled
          sock,        \* the peer behind each descriptor
          sockIdx,     \* the entry of Client for a descriptor
          Client,      \* the clients
          backlog,     \* connections the server has yet to accept
          conn,        \* the state of each connection, as the peer left it
          inbox,       \* what each peer sent and the server has not read
          sent,        \* how many items each peer has sent
          heard        \* history: what the server delivered to each peer

netVars == <<sock, backlog, conn, inbox, sent, heard>>
vars == <<pc, reads, cpy_reads, sockIdx, Client, netVars>>

Sockfd == 0                           \* the listening socket
Fds == 1 .. Cardinality(Peers)        \* descriptors of connections
IDs == 0 .. MAX_CLIENT - 1

\* The k-th thing a peer sends; the 0th is its ID.
Items == [from : Peers, nr : 0..MaxTexts]
Blank == [from |-> Nobody, nr |-> 0]  \* the uid of an entry never used
LogOut == [from |-> Nobody, nr |-> 1] \* "log-out....."

Running == {"select", "scan"}
Left == {"closed",    \* FIN sent
         "hit",       \* the server has sent to it since: a reset is on its way
         "reset",     \* the reset has arrived: sending fails
         "aborted"}   \* closed with unread data: reset at once
Broken == {"reset", "aborted"}

Init == /\ pc = "select"
        /\ reads = {Sockfd} /\ cpy_reads = {}
        /\ sock = [f \in Fds |-> Nobody]
        /\ sockIdx = [f \in Fds |-> 0]
        /\ Client = [id \in IDs |-> [sockfd |-> 0, inUse |-> FALSE,
                                     uid |-> Blank, First |-> FALSE]]
        /\ backlog = << >>
        /\ conn = [p \in Peers |-> "out"]
        /\ inbox = [p \in Peers |-> << >>]
        /\ sent = [p \in Peers |-> 0]
        /\ heard = [p \in Peers |-> << >>]
------------------------------------------------------------------------------
(* The peers and the network *)

Holds(p) == {f \in Fds : sock[f] = p}
Waits(p) == \E k \in DOMAIN backlog : backlog[k] = p
Present == {p \in Peers : Waits(p) \/ Holds(p) # {}}

Connect(p) == /\ conn[p] = "out"
              /\ pc \in Running
              /\ Cardinality(Present) < Crowd
              /\ conn' = [conn EXCEPT ![p] = "open"]
              /\ backlog' = Append(backlog, p)
              /\ UNCHANGED <<pc, reads, cpy_reads, sockIdx, Client, sock,
                             inbox, sent, heard>>

\* SendID, then SendMsg
Send(p) == /\ conn[p] = "open"
           /\ sent[p] <= MaxTexts
           /\ inbox' = [inbox EXCEPT ![p] =
                            Append(@, [from |-> p, nr |-> sent[p]])]
           /\ sent' = [sent EXCEPT ![p] = @ + 1]
           /\ UNCHANGED <<pc, reads, cpy_reads, sockIdx, Client, sock,
                          backlog, conn, heard>>

\* The peer ends; with something unread in its socket the connection is reset.
Leave(p) == /\ conn[p] = "open"
            /\ \/ conn' = [conn EXCEPT ![p] = "closed"]
               \/ heard[p] # << >> /\ conn' = [conn EXCEPT ![p] = "aborted"]
            /\ UNCHANGED <<pc, reads, cpy_reads, sockIdx, Client, sock,
                           backlog, inbox, sent, heard>>

\* The answer to data for a closed socket arrives at the server.
Reset(p) == /\ conn[p] = "hit"
            /\ conn' = [conn EXCEPT ![p] = "reset"]
            /\ UNCHANGED <<pc, reads, cpy_reads, sockIdx, Client, sock,
                           backlog, inbox, sent, heard>>
------------------------------------------------------------------------------
(* The server *)

Readable(f) == /\ sock[f] # Nobody
               /\ inbox[sock[f]] # << >> \/ conn[sock[f]] \in Left

Ready == {f \in reads \ {Sockfd} : Readable(f)}
         \cup (IF backlog # << >> THEN {Sockfd} ELSE {})

\* cpy_reads = reads;  select(...)
Select == /\ pc = "select"
          /\ Ready # {}
          /\ cpy_reads' = Ready
          /\ pc' = "scan"
          /\ UNCHANGED <<reads, sockIdx, Client, netVars>>

\* The scan has come to descriptor i.
At(i) == /\ pc = "scan"
         /\ i \in cpy_reads
         /\ \A j \in cpy_reads : i <= j

\* The scan goes on behind i, or back to select.
Scanned(i) == /\ cpy_reads' = cpy_reads \ {i}
              /\ pc' = IF cpy_reads = {i} THEN "select" ELSE "scan"

Dies == pc' = "died" /\ UNCHANGED <<reads, cpy_reads, sockIdx, Client>>

\* The first unused entry.  With none the function ends without a return; as
\* built, its caller gets the last condition it evaluated, a 1.
GetID == LET unused == {id \in IDs : ~Client[id].inUse}
         IN  IF unused = {} THEN 1
             ELSE CHOOSE id \in unused : \A other \in unused : id <= other

\* accept: the kernel gives the lowest free descriptor.
NewSocket(f) ==
    /\ sock[f] = Nobody
    /\ \A g \in Fds : g < f => sock[g] # Nobody
    /\ sock' = [sock EXCEPT ![f] = Head(backlog)]
    /\ backlog' = Tail(backlog)
    /\ reads' = reads \cup {f}
    /\ UNCHANGED <<conn, inbox, sent, heard>>

\* A faulty Enter: First keeps its value.
EnterKeepingFirst(f, id) ==
    /\ sockIdx' = [sockIdx EXCEPT ![f] = id]
    /\ Client' = [Client EXCEPT ![id] = [@ EXCEPT !.sockfd = f, !.inUse = TRUE]]

\* sockIdx and Client for a new descriptor
Enter(f, id) ==
    /\ sockIdx' = [sockIdx EXCEPT ![f] = id]
    /\ Client' = [Client EXCEPT ![id] = [@ EXCEPT !.sockfd = f, !.inUse = TRUE,
                                                !.First = FALSE]]

\* A faulty Accept: the new descriptor joins the scan that is under way.
AcceptIntoScan ==
    /\ At(Sockfd)
    /\ \E f \in Fds : /\ NewSocket(f) /\ Enter(f, GetID)
                     /\ cpy_reads' = (cpy_reads \ {Sockfd}) \cup {f}
    /\ UNCHANGED pc

Accept == /\ At(Sockfd)
          /\ \E f \in Fds : NewSocket(f) /\ Enter(f, GetID)
          /\ Scanned(Sockfd)

\* recv takes some of the items that wait on the socket of peer p.
Take(p) == \E n \in 1 .. Len(inbox[p]) :
              inbox' = [inbox EXCEPT ![p] = SubSeq(@, n + 1, Len(@))]

\* recv fails: on a closed descriptor, or behind the data of a reset peer.
RecvFails(i) ==
    LET f == Client[sockIdx[i]].sockfd
    IN  /\ At(i) /\ i # Sockfd
        /\ \/ sock[f] = Nobody
           \/ conn[sock[f]] = "aborted" /\ inbox[sock[f]] = << >>
        /\ Dies
        /\ UNCHANGED netVars

\* ProcessClient, First == 0: what comes is taken for the ID.  If the peer has
\* left without a word recv returns 0 and uid keeps what it had.
LogIn(i) ==
    LET id == sockIdx[i]
        p  == sock[Client[id].sockfd]
    IN  /\ At(i) /\ i # Sockfd
        /\ ~Client[id].First
        /\ p # Nobody
        /\ \/ /\ Take(p)
              /\ Client' = [Client EXCEPT ![id].First = TRUE,
                                          ![id].uid = Head(inbox[p])]
           \/ /\ inbox[p] = << >> /\ conn[p] \in Left \ {"aborted"}
              /\ Client' = [Client EXCEPT ![id].First = TRUE]
              /\ UNCHANGED inbox
        /\ Scanned(i)
        /\ UNCHANGED <<reads, sockIdx, sock, backlog, conn, sent, heard>>

\* Who is sent to when client id speaks, in the order of the entries, and the
\* first of them whose send fails, which ends the server: before it the others
\* have been served.  A socket that its peer has closed takes data once, and
\* answers with a reset.
Others(id) == {k \in IDs : Client[k].inUse /\ k # id}

SendFails(k) == \/ sock[Client[k].sockfd] = Nobody
                \/ conn[sock[Client[k].sockfd]] \in Broken

SendToOtherClients(id, msg) ==
    LET served == {k \in Others(id) :
                     \A j \in Others(id) : SendFails(j) => k < j}
        served_peers == {sock[Client[k].sockfd] : k \in served}
    IN  /\ heard' = [p \in Peers |->
                       IF p \in served_peers /\ conn[p] = "open"
                       THEN Append(heard[p], [uid |-> Client[id].uid, msg |-> msg])
                       ELSE heard[p]]
        /\ conn' = [p \in Peers |->
                       IF p \in served_peers /\ conn[p] = "closed"
                       THEN "hit" ELSE conn[p]]

\* The scan goes on behind i if every send has succeeded.
Sent(id, i) == IF \E k \in Others(id) : SendFails(k)
               THEN pc' = "died" /\ cpy_reads' = cpy_reads
               ELSE Scanned(i)

\* ProcessClient, First == 1, a text.
Say(i) ==
    LET id == sockIdx[i]
        p  == sock[Client[id].sockfd]
    IN  /\ At(i) /\ i # Sockfd
        /\ Client[id].First
        /\ p # Nobody
        /\ Take(p)
        /\ SendToOtherClients(id, Head(inbox[p]))
        /\ Sent(id, i)
        /\ UNCHANGED <<reads, sockIdx, Client, sock, backlog, sent>>

\* Faulty CloseClient: the entry stays in use; the socket stays open.
CloseKeepingEntry(id, f) == /\ reads' = reads \ {f}
                            /\ sock' = [sock EXCEPT ![f] = Nobody]
                            /\ UNCHANGED Client

ForgetClient(id, f) == /\ reads' = reads \ {f}
                       /\ Client' = [Client EXCEPT ![id].inUse = FALSE]
                       /\ UNCHANGED sock

\* FD_CLR, close, inUse = 0
CloseClient(id, f) == /\ reads' = reads \ {f}
                      /\ sock' = [sock EXCEPT ![f] = Nobody]
                      /\ Client' = [Client EXCEPT ![id].inUse = FALSE]

\* ProcessClient, First == 1, recv returned 0: log-out.
Farewell(i) ==
    LET id == sockIdx[i]
        p  == sock[Client[id].sockfd]
    IN  /\ At(i) /\ i # Sockfd
        /\ Client[id].First
        /\ p # Nobody
        /\ inbox[p] = << >> /\ conn[p] \in Left \ {"aborted"}
        /\ CloseClient(id, Client[id].sockfd)
        /\ SendToOtherClients(id, LogOut)
        /\ Sent(id, i)
        /\ UNCHANGED <<sockIdx, backlog, inbox, sent>>

\* SIGINT
CloseServer == /\ pc \in Running
               /\ pc' = "terminated"
               /\ UNCHANGED <<reads, cpy_reads, sockIdx, Client, netVars>>

Server == \/ Select \/ Accept
          \/ \E i \in Fds : LogIn(i) \/ Say(i) \/ Farewell(i) \/ RecvFails(i)

Network == /\ pc \in Running
           /\ \E p \in Peers : Connect(p) \/ Send(p) \/ Leave(p) \/ Reset(p)

\* The server waits in select for peers that have nothing to say, or has ended.
Idle == /\ pc \in Running => pc = "select" /\ Ready = {}
        /\ UNCHANGED vars

Next == Server \/ Network \/ CloseServer \/ Idle

Spec == Init /\ [][Next]_vars /\ WF_vars(Server)
------------------------------------------------------------------------------
(* Properties *)

Watched == reads \ {Sockfd}

\* GetID returns an "available Client ID" (chats.c:34): the descriptors that
\* the server watches and the entries in use belong to each other one to one,
\* through every order of connections, log-outs and reused descriptors, so a
\* descriptor never acts for another client.
OwnEntry ==
    pc \in Running =>
        /\ Watched = {f \in Fds : sock[f] # Nobody}
        /\ \A f \in Watched : /\ Client[sockIdx[f]].inUse
                              /\ Client[sockIdx[f]].sockfd = f
        /\ \A id \in IDs : Client[id].inUse =>
                \E f \in Watched : sockIdx[f] = id

\* The server has one thread: a recv that has to wait would stop the chat for
\* everybody.  Whatever select found ready is still ready when the scan gets
\* to it, although earlier steps of the scan accept, close and send.
NeverBlocks ==
    pc = "scan" => \A i \in cpy_reads :
        IF i = Sockfd THEN backlog # << >>
                      ELSE Readable(i) /\ Client[sockIdx[i]].sockfd = i

\* What a peer hears under a name was said by the owner of that name, not by
\* the hearer itself; from each speaker the texts come in the order in which
\* they were sent, none twice, and none after the speaker's log-out.
Faithful ==
    \A p \in Peers : \A k \in DOMAIN heard[p] :
        heard[p][k].msg # LogOut =>
           LET speaker == heard[p][k].msg.from
           IN  /\ heard[p][k].uid = [from |-> speaker, nr |-> 0]
               /\ speaker # p
               /\ \A j \in 1 .. k - 1 :
                    heard[p][j].uid.from = speaker =>
                      /\ heard[p][j].msg # LogOut
                      /\ heard[p][j].msg.nr < heard[p][k].msg.nr

\* The server dies of nothing but a peer that has left: of a send to a socket
\* closed before, or of a recv from one closed with unread data.
DiesOnlyOfReset == pc = "died" => \E p \in Peers : conn[p] \in Broken

\* Everything that reaches the server is taken from its socket, and every
\* connection that was closed is given up by the server, while it runs.
Pending(p) == \/ Waits(p)
              \/ inbox[p] # << >>
              \/ conn[p] \in Left /\ Holds(p) # {}

Served == \A p \in Peers : Pending(p) ~> ~Pending(p) \/ pc \notin Running
==============================================================================
