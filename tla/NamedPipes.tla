------------------------------ MODULE NamedPipes ------------------------------
(***************************************************************************)
(* "5_Inter-Process Communication/fifos.c" and fifoc.c: a server that      *)
(* reads requests from a named pipe, SERV_FIFO, and writes each reply to   *)
(* the named pipe of its client.  The server is started again when it has  *)
(* ended.  A named pipe keeps what was written to it as long as a process  *)
(* has it open; to open one for writing waits for a reader, and a write    *)
(* without a reader raises SIGPIPE.                                        *)
(***************************************************************************)
EXTENDS Naturals, Sequences, FiniteSets

CONSTANTS FifoClients, \* the clients
          MaxEnds      \* bound: ends of the server and of clients by a signal

VARIABLE fifo   \* the state of the server, its clients and the pipes

\* A name removed and made again is another pipe: pipes are numbered, file is
\* the one that SERV_FIFO names now, 0 if none.  An earlier server that was
\* killed may have left it.
\* server, client: where they are; sfd, cfd: the SERV_FIFO they have open;
\* queue: the requests in each; serving: the client of the last request;
\* replied: clients with a reply in it;
\* ends: signals so far; broken: history, clients a signal may cost the answer.
Starts == [server : {"off"}, client : [FifoClients -> {"start"}],
           file : {0, 1}, next : {2}, sfd : {0}, cfd : [FifoClients -> {0}],
           queue : [1 .. MaxEnds + 2 -> {<< >>}],
           serving : {CHOOSE c \in FifoClients : TRUE},
           replied : {{}}, ends : {0}, broken : {{}}]

Init == fifo \in Starts

At(c, label) == fifo.client[c] = label
Gone == {"exited", "noServer", "killed"}
Waiting(c) == At(c, "wait")

\* What is in a pipe is lost when nobody has it open any more.
Kept(s) == [s EXCEPT !.queue = [k \in DOMAIN s.queue |->
                IF s.sfd = k \/ \E c \in FifoClients : s.cfd[c] = k
                THEN s.queue[k] ELSE << >>]]
------------------------------------------------------------------------------
(* The server, fifos.c *)

\* A faulty MakeFifo: removes what an earlier server has left.
MakeFifoAnew == /\ fifo.server = "off"
                /\ fifo' = [fifo EXCEPT !.server = "open", !.file = fifo.next,
                                        !.next = @ + 1]

\* mkfifo, which may find the file there
MakeFifo == /\ fifo.server = "off"
            /\ fifo' = [fifo EXCEPT !.server = "open",
                                    !.file = IF @ = 0 THEN fifo.next ELSE @,
                                    !.next = IF fifo.file = 0 THEN @ + 1 ELSE @]

\* open(SERV_FIFO, O_RDWR)
OpenFifo == /\ fifo.server = "open"
            /\ fifo' = [fifo EXCEPT !.server = "read", !.sfd = fifo.file]

ReadRequest == /\ fifo.server = "read"
               /\ fifo.queue[fifo.sfd] # << >>
               /\ fifo' = [fifo EXCEPT !.server = "openReturn",
                                       !.serving = Head(fifo.queue[fifo.sfd]),
                                       !.queue[fifo.sfd] = Tail(@)]

\* open(msg.returnFifo, O_WRONLY) waits for the client to have its pipe open.
OpenReturn == /\ fifo.server = "openReturn"
              /\ fifo.client[fifo.serving] \notin Gone
              /\ fifo' = [fifo EXCEPT !.server = "write"]

\* write and close; SIGPIPE when the client has gone since.
WriteReply ==
    /\ fifo.server = "write"
    /\ fifo' = IF fifo.client[fifo.serving] \in Gone
               THEN Kept([fifo EXCEPT !.server = "off", !.sfd = 0])
               ELSE [fifo EXCEPT !.server = "read",
                                 !.replied = @ \cup {fifo.serving}]

Server == MakeFifo \/ OpenFifo \/ ReadRequest \/ OpenReturn \/ WriteReply

\* SIGINT: the handler removes SERV_FIFO and exits.
Interrupt == /\ fifo.server # "off" /\ fifo.ends < MaxEnds
             /\ fifo' = Kept([fifo EXCEPT !.server = "off", !.sfd = 0, !.file = 0,
                                          !.ends = @ + 1,
                                          !.broken = @ \cup {c \in FifoClients : fifo.cfd[c] # 0}])

\* SIGKILL: SERV_FIFO stays, and so do its requests if a client has it open.
KillServer == /\ fifo.server # "off" /\ fifo.ends < MaxEnds
              /\ fifo' = Kept([fifo EXCEPT
                                 !.server = "off", !.sfd = 0, !.ends = @ + 1,
                                 !.broken = IF fifo.server \in {"openReturn", "write"}
                                            THEN @ \cup {fifo.serving} ELSE @])
------------------------------------------------------------------------------
(* A client, fifoc.c *)

\* mkfifo and open of its own pipe
MakeOwn(c) == /\ At(c, "start")
              /\ fifo' = [fifo EXCEPT !.client[c] = "open"]

\* open(SERV_FIFO, O_RDWR), which does not make the file
OpenServer(c) == /\ At(c, "open")
                 /\ fifo' = [fifo EXCEPT
                               !.client[c] = IF fifo.file = 0 THEN "noServer"
                                             ELSE "ask",
                               !.cfd[c] = fifo.file]

Ask(c) == /\ At(c, "ask")
          /\ fifo' = [fifo EXCEPT !.client[c] = "wait",
                                  !.queue[fifo.cfd[c]] = Append(@, c)]

ReadReply(c) == /\ At(c, "wait") /\ c \in fifo.replied
                /\ fifo' = [fifo EXCEPT !.client[c] = "answered",
                                        !.replied = @ \ {c}]

\* close, close, remove
Leave(c) == /\ At(c, "answered")
            /\ fifo' = Kept([fifo EXCEPT !.client[c] = "exited", !.cfd[c] = 0])

Client(c) == MakeOwn(c) \/ OpenServer(c) \/ Ask(c) \/ ReadReply(c) \/ Leave(c)

KillClient(c) == /\ fifo.client[c] \notin Gone \cup {"start"}
                 /\ fifo.ends < MaxEnds
                 /\ fifo' = Kept([fifo EXCEPT
                                    !.client[c] = "killed", !.cfd[c] = 0,
                                    !.replied = @ \ {c}, !.ends = @ + 1,
                                    !.broken = IF Waiting(c) /\ c \notin fifo.replied
                                               THEN FifoClients ELSE @])

Next == \/ Server \/ Interrupt \/ KillServer
        \/ \E c \in FifoClients : Client(c) \/ KillClient(c)

Spec == /\ Init /\ [][Next]_fifo /\ WF_fifo(Server)
        /\ \A c \in FifoClients : WF_fifo(Client(c))
------------------------------------------------------------------------------
(* Properties *)

\* Every request is answered, also when the server is killed between two
\* requests and started again, or a client is killed that does not wait.  Two
\* things are not survived: a SIGINT takes the pipe's name away from whoever
\* has opened it, and a client killed while it waits leaves the server in an
\* open that nobody answers (fifos.c:59), or ends it by SIGPIPE.
FifoServed == \A c \in FifoClients :
                Waiting(c) ~> At(c, "exited") \/ At(c, "killed") \/ c \in fifo.broken
==============================================================================
