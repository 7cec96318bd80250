---------------------------- MODULE ServersProofs ----------------------------
(***************************************************************************)
(* Proofs about Servers, for any clients, any kinds and any bounds.        *)
(***************************************************************************)
EXTENDS Servers, SequenceTheorems, TLAPS

------------------------------------------------------------------------------
(* The inductive invariant *)

Phases == {"no", "fork", "read", "write", "close", "send"}
Labels == {"makeTcp", "makeUdp", "accept", "recvfrom", "select", "loop", "serve", "fork",
           "gone"}

\* The types.
Shape == /\ kind \in Kinds
         /\ listeners \subseteq {"main"} \cup TcpClients
         /\ backlog \in Seq(TcpClients)
         /\ dgrams \in Seq(UdpClients)
         /\ serving \in [Clients -> Phases]
         /\ conn \in [Clients -> {"none", "open", "closed", "reset"}]
         /\ request \in [Clients -> {"none", "unread", "read"}]
         /\ answer \in [Clients -> BOOLEAN]
         /\ client \in [Clients -> {"idle", "connected", "sent"} \cup Ended]
         /\ got \in [Clients -> {"nothing", "request", "reply"}]
         /\ interrupted \in BOOLEAN

\* A connection waits once, open, and nobody serves it yet.
Waiting == /\ \A k \in DOMAIN backlog : /\ conn[backlog[k]] = "open"
                                        /\ serving[backlog[k]] = "no"
           /\ \A k, l \in DOMAIN backlog : backlog[k] = backlog[l] => k = l

\* The server has been told to end at once.
Excused == interrupted /\ Has({"select", "hw3"})

\* A TCP client and its connection.  The server writes after it has read, or
\* the client is dead; the connection is open until the write, and whoever has
\* closed it has written.
Dealing(c) ==
    /\ client[c] = "idle" => conn[c] = "none"
    /\ client[c] \in {"idle", "connected"} => request[c] = "none"
    /\ serving[c] \in {"fork", "read", "write"} => conn[c] = "open"
    /\ serving[c] \in {"write", "close"} => request[c] = "read" \/ client[c] = "killed"
    /\ serving[c] = "close" => answer[c] \/ client[c] \in Ended
    /\ conn[c] = "closed" => answer[c] \/ client[c] \in Ended \/ Excused
    /\ answer[c] => request[c] = "read"
    /\ serving[c] # "send"
    /\ got[c] = "request" => Excused
    /\ got[c] = "reply" => request[c] = "read"

Net == Shape /\ Waiting /\ \A c \in TcpClients : Dealing(c)

\* The listening socket of tcps and hw2 is there until SIGINT, and nobody is
\* served before it is there; udps has none.
Sockets == /\ main \in Labels
           /\ main = "gone" => interrupted
           /\ Has({"tcps", "hw2"}) =>
                /\ main # "makeUdp"
                /\ main = "makeTcp" \/ "main" \in listeners \/ interrupted
                /\ main # "makeTcp" \/ (\A c \in TcpClients : serving[c] = "no")
           /\ kind = "udps" => /\ listeners = {} /\ main # "makeTcp"
                               /\ \A c \in TcpClients : conn[c] = "none"

IInv == Net /\ Sockets

------------------------------------------------------------------------------
(* Queues *)

\* What is left of a queue keeps its order.
LEMMA Dequeue ==
    ASSUME NEW S, NEW q \in Seq(S), q # << >>
    PROVE  /\ 1 \in DOMAIN q /\ Head(q) = q[1] /\ q[1] \in S
           /\ Tail(q) \in Seq(S)
           /\ \A k \in DOMAIN Tail(q) : /\ k + 1 \in DOMAIN q /\ k \in Nat
                                        /\ Tail(q)[k] = q[k + 1]
<1>1. /\ Head(q) \in S /\ Tail(q) \in Seq(S) /\ Len(Tail(q)) = Len(q) - 1
      /\ \A k \in 1 .. Len(Tail(q)) : Tail(q)[k] = q[k + 1]
  BY HeadTailProperties
<1>2. Len(q) \in Nat /\ DOMAIN q = 1 .. Len(q) /\ DOMAIN Tail(q) = 1 .. Len(Tail(q))
  BY <1>1, LenProperties
<1>3. Len(q) # 0
  BY EmptySeq
<1>4. Head(q) = q[1]
  OBVIOUS
<1>5. QED
  BY <1>1, <1>2, <1>3, <1>4

\* Who comes is the last of the queue.
LEMMA Enqueue ==
    ASSUME NEW S, NEW q \in Seq(S), NEW e \in S
    PROVE  /\ Append(q, e) \in Seq(S)
           /\ \A k \in DOMAIN Append(q, e) :
                \/ k \in DOMAIN q /\ Append(q, e)[k] = q[k]
                \/ k = Len(q) + 1 /\ Append(q, e)[k] = e
<1>1. /\ Append(q, e) \in Seq(S) /\ Len(Append(q, e)) = Len(q) + 1
      /\ \A k \in 1 .. Len(q) : Append(q, e)[k] = q[k]
      /\ Append(q, e)[Len(q) + 1] = e
  BY AppendProperties
<1>2. Len(q) \in Nat /\ DOMAIN q = 1 .. Len(q) /\ DOMAIN Append(q, e) = 1 .. Len(q) + 1
  BY <1>1, LenProperties
<1>3. QED
  BY <1>1, <1>2

\* Who waits is a TCP client.
LEMMA Members == ASSUME Shape PROVE \A k \in DOMAIN backlog : backlog[k] \in TcpClients
  BY ElementOfSeq, LenProperties DEF Shape

\* TCP and UDP clients are apart.
LEMMA Kinship == /\ TcpClients \subseteq Clients /\ UdpClients \subseteq Clients
                 /\ \A c \in TcpClients : c \notin UdpClients /\ c # "main"
                 /\ \A c \in Clients : c \in TcpClients \/ c \in UdpClients
  BY ServersAssumption DEF Clients

\* A client that no step concerns stays as it is dealt with.
LEMMA Unconcerned ==
    ASSUME NEW c, Dealing(c), Excused => Excused', client'[c] = client[c],
           conn'[c] = conn[c], request'[c] = request[c], serving'[c] = serving[c],
           answer'[c] = answer[c], got'[c] = got[c]
    PROVE  Dealing(c)'
  BY DEF Dealing

\* An excuse lasts.
LEMMA StillExcused == ASSUME kind' = kind, interrupted' = interrupted PROVE Excused => Excused'
  BY DEF Excused, Has

\* Steps of the server that leave clients and connections alone.
LEMMA Quiet ==
    ASSUME Net, UNCHANGED <<kind, interrupted, netVars, serving, clientVars>>,
           listeners' \subseteq {"main"} \cup TcpClients
    PROVE  Net'
<1>1. Shape'
  BY DEF Net, Shape, netVars, clientVars
<1>2. Waiting'
  BY DEF Net, Waiting, netVars
<1>3. ASSUME NEW c \in TcpClients PROVE Dealing(c)'
  BY StillExcused, Unconcerned DEF Net, netVars, clientVars
<1>4. QED
  BY <1>1, <1>2, <1>3 DEF Net

------------------------------------------------------------------------------
(* The clients *)

\* connect
LEMMA ConnectKeeps == ASSUME Net, NEW x \in TcpClients, Connect(x) PROVE Net'
<1>0. /\ Shape /\ Waiting /\ x \in Clients /\ client[x] = "idle" /\ conn[x] = "none"
      /\ request[x] = "none" /\ Dealing(x)
  BY Kinship DEF Net, Dealing, Connect
<1>1. CASE listeners = {}
  <2>1. /\ client' = [client EXCEPT ![x] = "failed"]
        /\ UNCHANGED <<kind, mute, serverVars, netVars, serving, got>>
    BY <1>1 DEF Connect, netVars
  <2>2. Shape' /\ Waiting'
    BY <1>0, <2>1 DEF Shape, Waiting, serverVars, netVars, Ended
  <2>3. ASSUME NEW c \in TcpClients PROVE Dealing(c)'
    <3>1. CASE c = x
      BY <1>0, <2>1, <3>1 DEF Shape, Dealing, serverVars, netVars, Ended, Excused, Has
    <3>2. CASE c # x
      <4>1. Dealing(c) /\ client'[c] = client[c] /\ (Excused => Excused')
        BY <1>0, <2>1, <3>2 DEF Net, Shape, serverVars, Excused, Has
      <4>2. QED
        BY <2>1, <4>1, Unconcerned DEF netVars
    <3>3. QED
      BY <3>1, <3>2
  <2>4. QED
    BY <2>2, <2>3 DEF Net
<1>2. CASE listeners # {}
  <2>1. /\ client' = [client EXCEPT ![x] = "connected"]
        /\ conn' = [conn EXCEPT ![x] = "open"]
        /\ backlog' = Append(backlog, x)
        /\ UNCHANGED <<kind, mute, serverVars, dgrams, request, answer, serving, got>>
    BY <1>2 DEF Connect
  <2>2. /\ backlog' \in Seq(TcpClients)
        /\ \A k \in DOMAIN backlog' : \/ k \in DOMAIN backlog /\ backlog'[k] = backlog[k]
                                      \/ k = Len(backlog) + 1 /\ backlog'[k] = x
    BY <1>0, <2>1, Enqueue DEF Shape
  <2>3. Shape'
    BY <1>0, <2>1, <2>2 DEF Shape, serverVars
  <2>4. serving[x] = "no"
    BY <1>0 DEF Dealing, Shape, Phases
  <2>5. \A k \in DOMAIN backlog : backlog[k] # x /\ backlog[k] \in Clients
    BY <1>0, Members, Kinship DEF Waiting
  <2>6. Waiting'
    <3>1. ASSUME NEW k \in DOMAIN backlog'
          PROVE  conn'[backlog'[k]] = "open" /\ serving'[backlog'[k]] = "no"
      BY <1>0, <2>1, <2>2, <2>4, <2>5 DEF Waiting, Shape
    <3>2. ASSUME NEW k \in DOMAIN backlog', NEW l \in DOMAIN backlog',
                 backlog'[k] = backlog'[l]
          PROVE  k = l
      BY <1>0, <2>2, <2>5, <3>2 DEF Waiting
    <3>3. QED
      BY <3>1, <3>2 DEF Waiting
  <2>7. ASSUME NEW c \in TcpClients PROVE Dealing(c)'
    <3>1. CASE c = x
      BY <1>0, <2>1, <2>4, <3>1 DEF Shape, Dealing, serverVars, Excused, Has
    <3>2. CASE c # x
      <4>1. /\ Dealing(c) /\ client'[c] = client[c] /\ conn'[c] = conn[c]
            /\ (Excused => Excused')
        BY <1>0, <2>1, <3>2 DEF Net, Shape, serverVars, Excused, Has
      <4>2. QED
        BY <2>1, <4>1, Unconcerned
    <3>3. QED
      BY <3>1, <3>2
  <2>8. QED
    BY <2>3, <2>6, <2>7 DEF Net
<1>3. QED
  BY <1>1, <1>2

\* write of the client
LEMMA SendKeeps == ASSUME Net, NEW x \in TcpClients, Send(x) PROVE Net'
<1>0. Shape /\ Waiting /\ x \in Clients /\ Dealing(x)
  BY Kinship DEF Net
<1>1. /\ client[x] = "connected"
      /\ client' = [client EXCEPT ![x] = IF conn[x] = "reset" THEN "failed" ELSE "sent"]
      /\ request' = [request EXCEPT ![x] = IF conn[x] = "open" THEN "unread" ELSE @]
      /\ UNCHANGED <<kind, mute, serverVars, backlog, dgrams, conn, answer, serving, got>>
  BY DEF Send
<1>2. Shape' /\ Waiting'
  BY <1>0, <1>1 DEF Shape, Waiting, serverVars, Ended
<1>3. ASSUME NEW c \in TcpClients PROVE Dealing(c)'
  <2>1. CASE c = x
    BY <1>0, <1>1, <2>1 DEF Shape, Dealing, serverVars, Ended, Excused, Has
  <2>2. CASE c # x
    <3>1. /\ Dealing(c) /\ client'[c] = client[c] /\ request'[c] = request[c]
          /\ (Excused => Excused')
      BY <1>0, <1>1, <2>2 DEF Net, Shape, serverVars, Excused, Has
    <3>2. QED
      BY <1>1, <3>1, Unconcerned
  <2>3. QED
    BY <2>1, <2>2
<1>4. QED
  BY <1>2, <1>3 DEF Net

\* read of the client: an end without a reply is one of an excused server.
LEMMA ReadKeeps == ASSUME Net, NEW x \in TcpClients, Read(x) PROVE Net'
<1>0. Shape /\ Waiting /\ x \in Clients /\ Dealing(x)
  BY Kinship DEF Net
<1>1. /\ client[x] = "sent"
      /\ \/ /\ answer[x] \/ conn[x] = "closed"
            /\ got' = [got EXCEPT ![x] = IF answer[x] THEN "reply" ELSE "request"]
            /\ client' = [client EXCEPT ![x] = "done"]
         \/ client' = [client EXCEPT ![x] = "failed"] /\ UNCHANGED got
      /\ UNCHANGED <<kind, mute, serverVars, netVars, serving>>
  BY DEF Read
<1>2. Shape' /\ Waiting'
  BY <1>0, <1>1 DEF Shape, Waiting, serverVars, netVars, Ended
<1>3. ASSUME NEW c \in TcpClients PROVE Dealing(c)'
  <2>1. CASE c = x
    BY <1>0, <1>1, <2>1 DEF Shape, Dealing, serverVars, netVars, Ended, Excused, Has
  <2>2. CASE c # x
    <3>1. Dealing(c) /\ client'[c] = client[c]
      <4>1. PICK s \in {"done", "failed"} : client' = [client EXCEPT ![x] = s]
        BY <1>1
      <4>2. QED
        BY <1>0, <2>2, <4>1 DEF Net, Shape
    <3>2. got'[c] = got[c]
      <4>1. CASE got' = got
        BY <4>1
      <4>2. CASE got' = [got EXCEPT ![x] = IF answer[x] THEN "reply" ELSE "request"]
        BY <1>0, <2>2, <4>2 DEF Shape
      <4>3. QED
        BY <1>1, <4>1, <4>2
    <3>3. Excused => Excused'
      BY <1>1, StillExcused DEF serverVars
    <3>4. QED
      BY <1>1, <3>1, <3>2, <3>3, Unconcerned DEF netVars
  <2>3. QED
    BY <2>1, <2>2
<1>4. QED
  BY <1>2, <1>3 DEF Net

\* A signal that ends a client
LEMMA KillKeeps == ASSUME Net, NEW x \in Clients, Kill(x) PROVE Net'
<1>0. Shape /\ Waiting
  BY DEF Net
<1>1. /\ client[x] \notin {"idle"} \cup Ended
      /\ client' = [client EXCEPT ![x] = "killed"]
      /\ UNCHANGED <<kind, mute, serverVars, netVars, serving, got>>
  BY DEF Kill
<1>2. Shape' /\ Waiting'
  BY <1>0, <1>1 DEF Shape, Waiting, serverVars, netVars, Ended
<1>3. ASSUME NEW c \in TcpClients PROVE Dealing(c)'
  <2>0. Dealing(c) /\ c \in Clients
    BY Kinship DEF Net
  <2>1. CASE c = x
    BY <1>0, <1>1, <2>0, <2>1 DEF Shape, Dealing, serverVars, netVars, Ended, Excused, Has
  <2>2. CASE c # x
    <3>1. client'[c] = client[c] /\ (Excused => Excused')
      BY <1>0, <1>1, <2>2 DEF Shape, serverVars, Excused, Has
    <3>2. QED
      BY <1>1, <2>0, <3>1, Unconcerned DEF netVars
  <2>3. QED
    BY <2>1, <2>2
<1>4. QED
  BY <1>2, <1>3 DEF Net

\* sendto and recvfrom of the client
LEMMA UdpcKeeps == ASSUME Net, NEW x \in UdpClients, Udpc(x) PROVE Net'
<1>0. Shape /\ Waiting /\ x \in Clients /\ Append(dgrams, x) \in Seq(UdpClients)
  BY Kinship, Enqueue DEF Net, Shape
<1>1. /\ \E s \in {"sent", "done"} : client' = [client EXCEPT ![x] = s]
      /\ dgrams' = dgrams \/ dgrams' = Append(dgrams, x)
      /\ got' = got \/ got' = [got EXCEPT ![x] = "reply"]
      /\ UNCHANGED <<kind, mute, serverVars, backlog, conn, request, answer, serving>>
  BY DEF Udpc, netVars
<1>2. Shape'
  <2>1. client' \in [Clients -> {"idle", "connected", "sent"} \cup Ended]
    BY <1>0, <1>1 DEF Shape, Ended
  <2>2. got' \in [Clients -> {"nothing", "request", "reply"}]
    BY <1>0, <1>1 DEF Shape
  <2>3. dgrams' \in Seq(UdpClients)
    BY <1>0, <1>1 DEF Shape
  <2>4. QED
    BY <1>0, <1>1, <2>1, <2>2, <2>3 DEF Shape, serverVars
<1>3. Waiting'
  BY <1>0, <1>1 DEF Waiting
<1>4. ASSUME NEW c \in TcpClients PROVE Dealing(c)'
  <2>1. Dealing(c) /\ c \in Clients /\ c # x
    BY Kinship DEF Net
  <2>2. client'[c] = client[c] /\ got'[c] = got[c]
    BY <1>0, <1>1, <2>1 DEF Shape
  <2>3. Excused => Excused'
    BY <1>1, StillExcused DEF serverVars
  <2>4. QED
    BY <1>1, <2>1, <2>2, <2>3, Unconcerned
<1>5. QED
  BY <1>2, <1>3, <1>4 DEF Net

------------------------------------------------------------------------------
(* The server *)

\* accept: who is taken from the queue is not in it any longer.
LEMMA AcceptKeeps ==
    ASSUME Net, NEW next \in {"read", "fork"}, Accept(next)
    PROVE  Net'
<1> DEFINE x == backlog[1]
<1>0. Shape /\ Waiting /\ backlog \in Seq(TcpClients) /\ backlog # << >>
  BY DEF Net, Shape, Accept
<1>1. /\ 1 \in DOMAIN backlog /\ Head(backlog) = x /\ x \in TcpClients /\ x \in Clients
      /\ Tail(backlog) \in Seq(TcpClients)
      /\ \A k \in DOMAIN Tail(backlog) : /\ k + 1 \in DOMAIN backlog /\ k \in Nat
                                         /\ Tail(backlog)[k] = backlog[k + 1]
  BY <1>0, Dequeue, Kinship
<1>2. conn[x] = "open" /\ serving[x] = "no" /\ Dealing(x)
  BY <1>0, <1>1 DEF Waiting, Net
<1> HIDE DEF x
<1>3. /\ backlog' = Tail(backlog)
      /\ serving' = [serving EXCEPT ![x] = next]
      /\ UNCHANGED <<kind, mute, listeners, interrupted, dgrams, conn, request, answer,
                     clientVars>>
  BY <1>1 DEF Accept
<1>4. Shape'
  BY <1>0, <1>1, <1>3 DEF Shape, Phases, clientVars
<1>5. \A k \in DOMAIN backlog' : /\ k + 1 \in DOMAIN backlog /\ k + 1 # 1 /\ k \in Nat
                                 /\ backlog'[k] = backlog[k + 1]
  BY <1>1, <1>3
<1>6. \A k \in DOMAIN backlog' : backlog'[k] # x /\ backlog'[k] \in Clients
  BY <1>0, <1>1, <1>5, Members, Kinship DEF Waiting, x
<1>7. Waiting'
  <2>1. ASSUME NEW k \in DOMAIN backlog'
        PROVE  conn'[backlog'[k]] = "open" /\ serving'[backlog'[k]] = "no"
    BY <1>0, <1>3, <1>5, <1>6 DEF Waiting, Shape
  <2>2. ASSUME NEW k \in DOMAIN backlog', NEW l \in DOMAIN backlog',
               backlog'[k] = backlog'[l]
        PROVE  k = l
    <3>1. k + 1 = l + 1
      BY <1>0, <1>5, <2>2 DEF Waiting
    <3>2. QED
      BY <1>5, <3>1
  <2>3. QED
    BY <2>1, <2>2 DEF Waiting
<1>8. ASSUME NEW c \in TcpClients PROVE Dealing(c)'
  <2>1. Excused => Excused'
    BY <1>3, StillExcused
  <2>2. CASE c = x
    BY <1>0, <1>1, <1>2, <1>3, <2>1, <2>2 DEF Shape, Dealing, clientVars
  <2>3. CASE c # x
    <3>1. Dealing(c) /\ serving'[c] = serving[c]
      BY <1>0, <1>3, <2>3 DEF Net, Shape
    <3>2. QED
      BY <1>3, <2>1, <3>1, Unconcerned DEF clientVars
  <2>4. QED
    BY <2>2, <2>3
<1>9. QED
  BY <1>4, <1>7, <1>8 DEF Net

\* Who is served does not wait.
LEMMA NotWaiting ==
    ASSUME Shape, Waiting, NEW x, serving[x] # "no"
    PROVE  \A k \in DOMAIN backlog : backlog[k] # x
  BY DEF Waiting

\* read of the server
LEMMA ReadRequestKeeps == ASSUME Net, NEW x \in TcpClients, ReadRequest(x) PROVE Net'
<1>0. Shape /\ Waiting /\ x \in Clients /\ Dealing(x)
  BY Kinship DEF Net
<1>1. /\ serving[x] = "read"
      /\ request[x] = "unread" \/ client[x] = "killed"
      /\ request' = [request EXCEPT ![x] = IF @ = "unread" THEN "read" ELSE @]
      /\ serving' = [serving EXCEPT ![x] = "write"]
      /\ UNCHANGED <<kind, mute, serverVars, backlog, dgrams, conn, answer, clientVars>>
  BY DEF ReadRequest
<1>2. Shape'
  BY <1>0, <1>1 DEF Shape, Phases, serverVars, clientVars
<1>3. Waiting'
  <2>1. \A k \in DOMAIN backlog : backlog[k] # x /\ backlog[k] \in Clients
    BY <1>0, <1>1, NotWaiting, Members, Kinship
  <2>2. QED
    BY <1>0, <1>1, <2>1 DEF Waiting, Shape
<1>4. ASSUME NEW c \in TcpClients PROVE Dealing(c)'
  <2>1. Excused => Excused'
    BY <1>1, StillExcused DEF serverVars
  <2>2. CASE c = x
    BY <1>0, <1>1, <2>1, <2>2 DEF Shape, Dealing, clientVars
  <2>3. CASE c # x
    <3>1. Dealing(c) /\ serving'[c] = serving[c] /\ request'[c] = request[c]
      BY <1>0, <1>1, <2>3 DEF Net, Shape
    <3>2. QED
      BY <1>1, <2>1, <3>1, Unconcerned DEF clientVars
  <2>4. QED
    BY <2>2, <2>3
<1>5. QED
  BY <1>2, <1>3, <1>4 DEF Net

\* No server writes to a connection that was reset, so no SIGPIPE ends it.
LEMMA WriteEffect ==
    ASSUME Net, NEW x \in TcpClients, WriteReply(x)
    PROVE  /\ serving[x] = "write"
           /\ conn' = [conn EXCEPT ![x] = IF client[x] \in Ended THEN "reset" ELSE @]
           /\ answer' = [answer EXCEPT ![x] = client[x] \notin Ended]
           /\ serving' = [serving EXCEPT ![x] = "close"]
           /\ UNCHANGED <<kind, mute, serverVars, backlog, dgrams, request, clientVars>>
<1>1. serving[x] = "write" /\ conn[x] # "reset"
  BY DEF WriteReply, Net, Dealing
<1>2. QED
  BY <1>1 DEF WriteReply

\* write of the server
LEMMA WriteReplyKeeps == ASSUME Net, NEW x \in TcpClients, WriteReply(x) PROVE Net'
<1>0. Shape /\ Waiting /\ x \in Clients /\ Dealing(x)
  BY Kinship DEF Net
<1>1. /\ serving[x] = "write"
      /\ conn' = [conn EXCEPT ![x] = IF client[x] \in Ended THEN "reset" ELSE @]
      /\ answer' = [answer EXCEPT ![x] = client[x] \notin Ended]
      /\ serving' = [serving EXCEPT ![x] = "close"]
      /\ UNCHANGED <<kind, mute, serverVars, backlog, dgrams, request, clientVars>>
  BY WriteEffect
<1>2. Shape'
  <2>1. answer' \in [Clients -> BOOLEAN]
    BY <1>0, <1>1 DEF Shape
  <2>2. /\ conn' \in [Clients -> {"none", "open", "closed", "reset"}]
        /\ serving' \in [Clients -> Phases]
    BY <1>0, <1>1 DEF Shape, Phases
  <2>3. QED
    BY <1>0, <1>1, <2>1, <2>2 DEF Shape, serverVars, clientVars
<1>3. Waiting'
  <2>1. \A k \in DOMAIN backlog : backlog[k] # x /\ backlog[k] \in Clients
    BY <1>0, <1>1, NotWaiting, Members, Kinship
  <2>2. QED
    BY <1>0, <1>1, <2>1 DEF Waiting, Shape
<1>4. ASSUME NEW c \in TcpClients PROVE Dealing(c)'
  <2>1. Excused => Excused'
    BY <1>1, StillExcused DEF serverVars
  <2>2. CASE c = x
    <3>1. /\ answer'[x] = (client[x] \notin Ended) /\ serving'[x] = "close"
          /\ conn'[x] = IF client[x] \in Ended THEN "reset" ELSE "open"
      BY <1>0, <1>1 DEF Shape, Dealing
    <3>2. client[x] \notin Ended => request[x] = "read"
      BY <1>0, <1>1 DEF Dealing, Ended
    <3>3. QED
      BY <1>0, <1>1, <2>1, <2>2, <3>1, <3>2 DEF Dealing, clientVars
  <2>3. CASE c # x
    <3>1. /\ Dealing(c) /\ serving'[c] = serving[c] /\ conn'[c] = conn[c]
          /\ answer'[c] = answer[c]
      BY <1>0, <1>1, <2>3 DEF Net, Shape
    <3>2. QED
      BY <1>1, <2>1, <3>1, Unconcerned DEF clientVars
  <2>4. QED
    BY <2>2, <2>3
<1>5. QED
  BY <1>2, <1>3, <1>4 DEF Net

\* close of the server
LEMMA CloseKeeps == ASSUME Net, NEW x \in TcpClients, NEW next, Close(x, next) PROVE Net'
<1>0. Shape /\ Waiting /\ x \in Clients /\ Dealing(x)
  BY Kinship DEF Net
<1>1. /\ serving[x] = "close"
      /\ serving' = [serving EXCEPT ![x] = "no"]
      /\ conn' = [conn EXCEPT ![x] = IF @ = "open" THEN Closed(x) ELSE @]
      /\ UNCHANGED <<kind, mute, listeners, interrupted, backlog, dgrams, request, answer,
                     clientVars>>
  BY DEF Close
<1>2. Shape'
  BY <1>0, <1>1 DEF Shape, Phases, Closed, clientVars
<1>3. Waiting'
  <2>1. \A k \in DOMAIN backlog : backlog[k] # x /\ backlog[k] \in Clients
    BY <1>0, <1>1, NotWaiting, Members, Kinship
  <2>2. QED
    BY <1>0, <1>1, <2>1 DEF Waiting, Shape
<1>4. ASSUME NEW c \in TcpClients PROVE Dealing(c)'
  <2>1. Excused => Excused'
    BY <1>1, StillExcused
  <2>2. CASE c = x
    <3>1. serving'[x] = "no" /\ conn'[x] \in {conn[x], "closed", "reset"} /\ conn'[x] # "open"
      BY <1>0, <1>1 DEF Shape, Closed
    <3>2. answer[x] \/ client[x] \in Ended
      BY <1>0, <1>1 DEF Dealing
    <3>3. client[x] # "idle"
      BY <1>0, <1>1 DEF Dealing
    <3>4. QED
      BY <1>0, <1>1, <2>1, <2>2, <3>1, <3>2, <3>3 DEF Dealing, clientVars
  <2>3. CASE c # x
    <3>1. Dealing(c) /\ serving'[c] = serving[c] /\ conn'[c] = conn[c]
      BY <1>0, <1>1, <2>3 DEF Net, Shape
    <3>2. QED
      BY <1>1, <2>1, <3>1, Unconcerned DEF clientVars
  <2>4. QED
    BY <2>2, <2>3
<1>5. QED
  BY <1>2, <1>3, <1>4 DEF Net

\* fork in hw2
LEMMA ForkKeeps ==
    ASSUME Net, NEW x \in TcpClients, serving[x] = "fork",
           serving' = [serving EXCEPT ![x] = "read"],
           listeners' = IF "main" \in listeners THEN listeners \cup {x} ELSE listeners,
           UNCHANGED <<kind, interrupted, netVars, clientVars>>
    PROVE  Net'
<1>0. Shape /\ Waiting /\ x \in Clients /\ Dealing(x)
  BY Kinship DEF Net
<1>2. Shape'
  BY <1>0 DEF Shape, Phases, netVars, clientVars
<1>3. Waiting'
  <2>1. \A k \in DOMAIN backlog : backlog[k] # x /\ backlog[k] \in Clients
    BY <1>0, NotWaiting, Members, Kinship
  <2>2. QED
    BY <1>0, <2>1 DEF Waiting, Shape, netVars
<1>4. ASSUME NEW c \in TcpClients PROVE Dealing(c)'
  <2>1. Excused => Excused'
    BY StillExcused
  <2>2. CASE c = x
    BY <1>0, <2>1, <2>2 DEF Shape, Dealing, netVars, clientVars
  <2>3. CASE c # x
    <3>1. Dealing(c) /\ serving'[c] = serving[c]
      BY <1>0, <2>3 DEF Net, Shape
    <3>2. QED
      BY <2>1, <3>1, Unconcerned DEF netVars, clientVars
  <2>4. QED
    BY <2>2, <2>3
<1>5. QED
  BY <1>2, <1>3, <1>4 DEF Net

\* Datagrams: they concern UDP clients only.
LEMMA ReceiveFromKeeps == ASSUME Net, ReceiveFrom PROVE Net'
<1> DEFINE x == dgrams[1]
<1>0. Shape /\ Waiting /\ dgrams \in Seq(UdpClients) /\ dgrams # << >>
  BY DEF Net, Shape, ReceiveFrom
<1>1. /\ Head(dgrams) = x /\ x \in UdpClients /\ x \in Clients
      /\ Tail(dgrams) \in Seq(UdpClients)
  BY <1>0, Dequeue, Kinship
<1> HIDE DEF x
<1>2. /\ dgrams' = Tail(dgrams)
      /\ serving' = [serving EXCEPT ![x] = "send"]
      /\ UNCHANGED <<kind, mute, listeners, interrupted, backlog, conn, request, answer,
                     clientVars>>
  BY <1>1 DEF ReceiveFrom
<1>3. Shape'
  BY <1>0, <1>1, <1>2 DEF Shape, Phases, clientVars
<1>4. ASSUME NEW c \in TcpClients PROVE Dealing(c)' /\ serving'[c] = serving[c]
  <2>1. Dealing(c) /\ c # x /\ c \in Clients
    BY <1>1, Kinship DEF Net
  <2>2. serving'[c] = serving[c] /\ (Excused => Excused')
    BY <1>0, <1>2, <2>1, StillExcused DEF Shape
  <2>3. QED
    BY <1>2, <2>1, <2>2, Unconcerned DEF clientVars
<1>5. Waiting'
  BY <1>0, <1>2, <1>4, Members DEF Waiting
<1>6. QED
  BY <1>3, <1>4, <1>5 DEF Net

LEMMA SendToKeeps == ASSUME Net, NEW x \in UdpClients, NEW next, SendTo(x, next) PROVE Net'
<1>0. Shape /\ Waiting /\ x \in Clients
  BY Kinship DEF Net
<1>1. /\ serving' = [serving EXCEPT ![x] = "no"]
      /\ answer' = [answer EXCEPT ![x] = client[x] \notin Ended]
      /\ UNCHANGED <<kind, mute, listeners, interrupted, backlog, dgrams, conn, request,
                     clientVars>>
  BY DEF SendTo
<1>2. Shape'
  <2>1. answer' \in [Clients -> BOOLEAN]
    BY <1>0, <1>1 DEF Shape
  <2>2. serving' \in [Clients -> Phases]
    BY <1>0, <1>1 DEF Shape, Phases
  <2>3. QED
    BY <1>0, <1>1, <2>1, <2>2 DEF Shape, clientVars
<1>3. ASSUME NEW c \in TcpClients PROVE Dealing(c)' /\ serving'[c] = serving[c]
  <2>1. Dealing(c) /\ c # x /\ c \in Clients
    BY Kinship DEF Net
  <2>2. serving'[c] = serving[c] /\ answer'[c] = answer[c] /\ (Excused => Excused')
    BY <1>0, <1>1, <2>1, StillExcused DEF Shape
  <2>3. QED
    BY <1>1, <2>1, <2>2, Unconcerned DEF clientVars
<1>4. Waiting'
  BY <1>0, <1>1, <1>3, Members DEF Waiting
<1>5. QED
  BY <1>2, <1>3, <1>4 DEF Net

\* The listening socket loses holders, and perhaps with it the connections that
\* wait; closing: a child of hw2 that ends, or nobody.
LEMMA DropKeeps ==
    ASSUME Net, NEW gone, NEW closing \in SUBSET TcpClients, Drop(gone, closing),
           \A c \in closing : serving[c] = "close",
           \A c \in Clients : serving'[c] = IF c \in closing THEN "no" ELSE serving[c],
           serving' \in [Clients -> Phases], Excused => Excused', interrupted' \in BOOLEAN,
           UNCHANGED <<kind, dgrams, request, answer, clientVars>>
    PROVE  Net'
<1> DEFINE lost == IF listeners \subseteq gone THEN {backlog[i] : i \in DOMAIN backlog} ELSE {}
<1>0. Shape /\ Waiting
  BY DEF Net
<1>1. /\ listeners' = listeners \ gone
      /\ backlog' = IF listeners \subseteq gone THEN << >> ELSE backlog
      /\ conn' = [c \in Clients |-> IF c \in lost THEN "reset"
                                    ELSE IF c \in closing THEN Closed(c) ELSE conn[c]]
  BY DEF Drop
<1>2. \A c \in lost : conn[c] = "open" /\ serving[c] = "no"
  BY <1>0 DEF Waiting
<1>3. /\ backlog' = << >> \/ (backlog' = backlog /\ lost = {})
      /\ << >> \in Seq(TcpClients) /\ DOMAIN << >> = {}
  BY <1>1, EmptySeq
<1> HIDE DEF lost
<1>4. Shape'
  <2>1. conn' \in [Clients -> {"none", "open", "closed", "reset"}]
    BY <1>0, <1>1 DEF Shape, Closed
  <2>2. backlog' \in Seq(TcpClients) /\ listeners' \subseteq {"main"} \cup TcpClients
    BY <1>0, <1>1, <1>3 DEF Shape
  <2>3. QED
    BY <1>0, <2>1, <2>2 DEF Shape, clientVars
<1>5. Waiting'
  <2>1. CASE backlog' = << >>
    BY <1>3, <2>1 DEF Waiting
  <2>2. CASE backlog' = backlog /\ lost = {}
    <3>1. \A k \in DOMAIN backlog : backlog[k] \in Clients /\ backlog[k] \notin closing
      BY <1>0, Members, Kinship DEF Waiting
    <3>2. QED
      BY <1>0, <1>1, <2>2, <3>1 DEF Waiting
  <2>3. QED
    BY <1>3, <2>1, <2>2
<1>6. ASSUME NEW c \in TcpClients PROVE Dealing(c)'
  <2>1. Dealing(c) /\ c \in Clients
    BY Kinship DEF Net
  <2>2. CASE c \in lost
    <3>1. conn'[c] = "reset" /\ serving'[c] = "no" /\ client[c] # "idle"
      BY <1>1, <1>2, <2>1, <2>2 DEF Dealing
    <3>2. QED
      BY <2>1, <3>1 DEF Dealing, clientVars
  <2>3. CASE c \in closing /\ c \notin lost
    <3>1. conn'[c] \in {"closed", "reset"} /\ serving'[c] = "no" /\ serving[c] = "close"
      BY <1>1, <2>1, <2>3 DEF Closed
    <3>2. /\ answer[c] \/ client[c] \in Ended
          /\ client[c] # "idle"
      BY <2>1, <3>1 DEF Dealing
    <3>3. QED
      BY <2>1, <3>1, <3>2 DEF Dealing, clientVars
  <2>4. CASE c \notin closing /\ c \notin lost
    <3>1. conn'[c] = conn[c] /\ serving'[c] = serving[c]
      BY <1>1, <2>1, <2>4
    <3>2. QED
      BY <2>1, <3>1, Unconcerned DEF clientVars
  <2>5. QED
    BY <2>2, <2>3, <2>4
<1>7. QED
  BY <1>4, <1>5, <1>6 DEF Net

\* A handler that exits at once: it is the excuse of select and hw3; udps has no
\* connections.
LEMMA DieKeeps ==
    ASSUME Net, Sockets, Die, interrupted' = TRUE, ~Has({"tcps", "hw2"})
    PROVE  Net'
<1>0. Shape
  BY DEF Net
<1>1. /\ listeners' = {} /\ backlog' = << >> /\ dgrams' = << >>
      /\ serving' = [c \in Clients |-> "no"]
      /\ conn' = [c \in Clients |->
                    IF conn[c] # "open" THEN conn[c]
                    ELSE IF serving[c] = "no" THEN "reset" ELSE Closed(c)]
      /\ UNCHANGED <<kind, mute, request, answer, clientVars>>
  BY DEF Die
<1>2. << >> \in Seq(TcpClients) /\ << >> \in Seq(UdpClients) /\ DOMAIN << >> = {}
  BY EmptySeq
<1>3. Shape'
  <2>1. conn' \in [Clients -> {"none", "open", "closed", "reset"}]
    BY <1>0, <1>1 DEF Shape, Closed
  <2>2. serving' \in [Clients -> Phases] /\ interrupted' \in BOOLEAN
    BY <1>1 DEF Phases
  <2>3. QED
    BY <1>0, <1>1, <1>2, <2>1, <2>2 DEF Shape, clientVars
<1>4. Waiting'
  BY <1>1, <1>2 DEF Waiting
<1>5. kind = "udps" \/ Excused'
  BY <1>0, <1>1, ServersAssumption DEF Shape, Excused, Has
<1>6. ASSUME NEW c \in TcpClients PROVE Dealing(c)'
  <2>1. Dealing(c) /\ c \in Clients /\ serving'[c] = "no"
    BY <1>1, Kinship DEF Net
  <2>2. Excused => Excused'
    BY <1>1 DEF Excused, Has
  <2>3. conn[c] = "none" => conn'[c] = "none"
    BY <1>1, <2>1
  <2>4. CASE Excused'
    BY <1>1, <2>1, <2>3, <2>4 DEF Dealing, clientVars
  <2>5. CASE kind = "udps"
    <3>1. conn'[c] = "none"
      BY <2>3, <2>5 DEF Sockets
    <3>2. QED
      BY <1>1, <2>1, <2>2, <3>1 DEF Dealing, clientVars
  <2>6. QED
    BY <1>5, <2>4, <2>5
<1>7. QED
  BY <1>3, <1>4, <1>6 DEF Net

\* SIGINT
LEMMA InterruptKeeps == ASSUME Net, Sockets, Interrupt PROVE Net'
<1>1. interrupted' = TRUE
  BY DEF Interrupt
<1>2. CASE Has({"tcps", "hw2"})
  <2>1. PICK gone \in {{"main"}, listeners} : Drop(gone, {})
    BY <1>2 DEF Interrupt
  <2>2. UNCHANGED <<kind, dgrams, request, answer, serving, clientVars>>
    BY <1>2 DEF Interrupt
  <2>3. Excused => Excused'
    BY <1>1, <2>2 DEF Excused, Has
  <2>4. serving \in [Clients -> Phases]
    BY DEF Net, Shape
  <2>5. QED
    BY <1>1, <2>1, <2>2, <2>3, <2>4, DropKeeps
<1>3. CASE ~Has({"tcps", "hw2"})
  BY <1>1, <1>3, DieKeeps DEF Interrupt
<1>4. QED
  BY <1>2, <1>3

\* The end of a child of hw2
LEMMA ChildKeeps == ASSUME Net, NEW x \in TcpClients, Hw2Child(x) PROVE Net'
<1>1. CASE ReadRequest(x) \/ WriteReply(x)
  BY <1>1, ReadRequestKeeps, WriteReplyKeeps
<1>2. CASE serving[x] = "close" /\ serving' = [serving EXCEPT ![x] = "no"] /\ Drop({x}, {x})
           /\ UNCHANGED <<kind, mute, main, todo, spare, interrupted, dgrams, request,
                          answer, clientVars>>
  <2>1. serving \in [Clients -> Phases] /\ interrupted \in BOOLEAN /\ {x} \in SUBSET TcpClients
    BY DEF Net, Shape
  <2>2. /\ serving' \in [Clients -> Phases]
        /\ \A c \in Clients : serving'[c] = IF c \in {x} THEN "no" ELSE serving[c]
    BY <1>2, <2>1 DEF Phases
  <2>3. Excused => Excused'
    BY <1>2, StillExcused
  <2>4. \A c \in {x} : serving[c] = "close"
    BY <1>2
  <2>5. interrupted' \in BOOLEAN
    BY <1>2, <2>1
  <2>6. QED
    BY <1>2, <2>1, <2>2, <2>3, <2>4, <2>5, DropKeeps
<1>3. QED
  BY <1>1, <1>2 DEF Hw2Child

------------------------------------------------------------------------------
(* Every step *)

\* The steps of select and of the first thread of hw3 between two calls, and
\* the making of sockets
Between == Start \/ AcceptFails \/ Count \/ EndOfCount
           \/ \E label, what : Turn(label, what)

LEMMA BetweenKeeps == ASSUME Net, Between PROVE Net'
<1>1. UNCHANGED <<kind, interrupted, netVars, serving, clientVars>>
  BY DEF Between, Start, MakeTcpSocket, MakeUdpSocket, AcceptFails, Count, EndOfCount, Turn,
         netVars, clientVars
<1>2. listeners' = listeners \/ listeners' = {"main"}
  BY DEF Between, Start, MakeTcpSocket, MakeUdpSocket, AcceptFails, Count, EndOfCount, Turn
<1>3. listeners' \subseteq {"main"} \cup TcpClients
  BY <1>2 DEF Net, Shape
<1>4. QED
  BY <1>1, <1>3, Quiet

LEMMA NetStep == ASSUME IInv, [Next]_vars PROVE Net'
<1>0. Net /\ Sockets
  BY DEF IInv
<1>1. CASE First
  <2>1. CASE Start
    BY <1>0, <2>1, BetweenKeeps DEF Between
  <2>2. CASE Tcps
    BY <1>0, <2>2, AcceptKeeps, BetweenKeeps, ReadRequestKeeps, WriteReplyKeeps, CloseKeeps
       DEF Tcps, Between
  <2>3. CASE Hw2Parent
    <3>1. ASSUME NEW c \in TcpClients, serving[c] = "fork",
                 serving' = [serving EXCEPT ![c] = "read"],
                 listeners' = IF "main" \in listeners THEN listeners \cup {c} ELSE listeners,
                 UNCHANGED <<kind, mute, todo, spare, interrupted, netVars, clientVars>>
          PROVE  Net'
      BY <1>0, <3>1, ForkKeeps
    <3>2. QED
      BY <1>0, <2>3, <3>1, AcceptKeeps, BetweenKeeps DEF Hw2Parent, Between
  <2>4. CASE Udps
    BY <1>0, <2>4, ReceiveFromKeeps, SendToKeeps DEF Udps
  <2>5. CASE Select
    <3>1. CASE Count \/ EndOfCount
      BY <1>0, <3>1, BetweenKeeps DEF Between
    <3>2. CASE ProcessTcpRequest
      <4>1. CASE Turn("accept", "tcp")
        BY <1>0, <4>1, BetweenKeeps DEF Between
      <4>2. QED
        BY <1>0, <3>2, <4>1, AcceptKeeps, ReadRequestKeeps, WriteReplyKeeps, CloseKeeps
           DEF ProcessTcpRequest
    <3>3. CASE ProcessUdpRequest
      <4>1. CASE Turn("recvfrom", "udp")
        BY <1>0, <4>1, BetweenKeeps DEF Between
      <4>2. QED
        BY <1>0, <3>3, <4>1, ReceiveFromKeeps, SendToKeeps DEF ProcessUdpRequest
    <3>4. QED
      BY <2>5, <3>1, <3>2, <3>3 DEF Select
  <2>6. CASE Hw3Main
    <3>1. CASE Count \/ EndOfCount
      BY <1>0, <3>1, BetweenKeeps DEF Between
    <3>2. ASSUME NEW what, NEW call, Spawn(what, call) PROVE Net'
      <4>1. Turn("loop", what)
        BY <3>2 DEF Spawn
      <4>2. QED
        BY <1>0, <4>1, BetweenKeeps DEF Between
    <3>3. QED
      BY <2>6, <3>1, <3>2 DEF Hw3Main
  <2>7. QED
    BY <1>1, <2>1, <2>2, <2>3, <2>4, <2>5, <2>6 DEF First
<1>2. CASE Others
  BY <1>0, <1>2, AcceptKeeps, ReceiveFromKeeps DEF Others, Hw3Accept, Hw3ReceiveFrom
<1>3. CASE Interrupt
  BY <1>0, <1>3, InterruptKeeps
<1>4. ASSUME NEW c \in TcpClients, Tcpc(c) \/ Hw2Child(c) \/ Hw3Tcp(c) PROVE Net'
  BY <1>0, <1>4, ConnectKeeps, SendKeeps, ReadKeeps, ChildKeeps, ReadRequestKeeps,
     WriteReplyKeeps, CloseKeeps DEF Tcpc, Hw3Tcp
<1>5. ASSUME NEW c \in UdpClients, Udpc(c) \/ Hw3Udp(c) PROVE Net'
  BY <1>0, <1>5, UdpcKeeps, SendToKeeps DEF Hw3Udp
<1>6. ASSUME NEW c \in Clients, Kill(c) PROVE Net'
  BY <1>0, <1>6, KillKeeps
<1>7. CASE UNCHANGED vars
  <2>1. listeners' \subseteq {"main"} \cup TcpClients
    BY <1>0, <1>7 DEF Net, Shape, vars, serverVars
  <2>2. QED
    BY <1>0, <1>7, <2>1, Quiet DEF vars, serverVars
<1>8. QED
  BY <1>1, <1>2, <1>3, <1>4, <1>5, <1>6, <1>7 DEF Next

\* What a step has to leave of the sockets.
LEMMA SocketsKept ==
    ASSUME Sockets, UNCHANGED <<kind, interrupted>>,
           "main" \in listeners => "main" \in listeners',
           main' = main \/ main' \in Labels \ {"makeTcp", "makeUdp", "gone"},
           Has({"tcps", "hw2"}) => main # "makeTcp",
           kind # "udps"
    PROVE  Sockets'
<1>1. main' \in Labels /\ (main' = "gone" => interrupted')
  BY DEF Sockets
<1>2. ASSUME Has({"tcps", "hw2"})'
      PROVE  /\ main' # "makeUdp" /\ main' # "makeTcp"
             /\ "main" \in listeners' \/ interrupted'
  <2>1. /\ main # "makeUdp" /\ main # "makeTcp"
        /\ "main" \in listeners \/ interrupted
    BY <1>2 DEF Sockets, Has
  <2>2. QED
    BY <2>1
<1>3. kind' # "udps"
  OBVIOUS
<1>4. QED
  BY <1>1, <1>2, <1>3 DEF Sockets

\* Steps of the clients
LEMMA ClientSockets ==
    ASSUME Sockets, UNCHANGED <<kind, interrupted, listeners, main>>,
           \A c \in TcpClients : serving'[c] = serving[c],
           conn' = conn \/ listeners # {}
    PROVE  Sockets'
  BY DEF Sockets, Has

\* Who is served is served by a server with a socket.
LEMMA ServedAfterStart ==
    ASSUME Sockets, Has({"tcps", "hw2"}), NEW c \in TcpClients, serving[c] # "no"
    PROVE  main # "makeTcp"
  BY DEF Sockets

\* Every step keeps the listening socket, up to SIGINT.
LEMMA SocketsStep == ASSUME IInv, [Next]_vars PROVE Sockets'
<1>0. Net /\ Sockets /\ Shape /\ kind \in {"tcps", "hw2", "udps", "select", "hw3"}
  BY ServersAssumption DEF IInv, Net, Shape
<1>1. ASSUME NEW c \in TcpClients, WriteReply(c)
      PROVE  UNCHANGED <<kind, interrupted, listeners, main>>
  BY <1>0, <1>1, WriteEffect DEF serverVars
<1>2. ASSUME NEW c \in TcpClients, NEW next, Close(c, next)
      PROVE  UNCHANGED <<kind, interrupted, listeners>> /\ main' = next
  BY <1>2 DEF Close
<1>3. ASSUME NEW c \in TcpClients, ReadRequest(c)
      PROVE  UNCHANGED <<kind, interrupted, listeners, main>>
  BY <1>3 DEF ReadRequest, serverVars
<1>4. ASSUME NEW c \in UdpClients, NEW next, SendTo(c, next)
      PROVE  UNCHANGED <<kind, interrupted, listeners, conn>> /\ main' = next
  BY <1>4 DEF SendTo
<1>5. ASSUME NEW next, Accept(next)
      PROVE  UNCHANGED <<kind, interrupted, listeners>>
  BY <1>5 DEF Accept
<1>6. ASSUME ReceiveFrom PROVE UNCHANGED <<kind, interrupted, listeners, conn>>
  BY <1>6 DEF ReceiveFrom
<1>7. CASE First
  <2>1. CASE Start
    <3>1. CASE MakeTcpSocket
      BY <1>0, <3>1 DEF MakeTcpSocket, Sockets, Has, Labels
    <3>2. CASE MakeUdpSocket
      BY <1>0, <3>2 DEF MakeUdpSocket, Sockets, Has, Labels, netVars
    <3>3. QED
      BY <2>1, <3>1, <3>2 DEF Start
  <2>2. CASE AcceptFails /\ Has({"tcps", "hw2"})
    BY <1>0, <2>2 DEF AcceptFails, Sockets, Has, Labels
  <2>3. CASE Tcps
    <3>1. kind = "tcps" /\ Has({"tcps", "hw2"})
      BY <2>3 DEF Tcps, Has
    <3>2. CASE AcceptFails
      BY <2>2, <3>1, <3>2
    <3>3. CASE ~AcceptFails
      <4>1. UNCHANGED <<kind, interrupted, listeners>> /\ main' \in {main, "serve", "accept"}
        BY <1>1, <1>2, <1>3, <1>5, <2>3, <3>3 DEF Tcps
      <4>2. main # "makeTcp"
        BY <1>0, <2>3, <3>1, <3>3, ServedAfterStart DEF Tcps, ReadRequest, WriteReply, Close
      <4>3. QED
        BY <1>0, <3>1, <4>1, <4>2, SocketsKept DEF Labels
    <3>4. QED
      BY <3>2, <3>3
  <2>4. CASE Hw2Parent
    <3>1. kind = "hw2" /\ Has({"tcps", "hw2"})
      BY <2>4 DEF Hw2Parent, Has
    <3>2. CASE AcceptFails
      BY <2>2, <3>1, <3>2
    <3>3. CASE ~AcceptFails
      <4>1. /\ UNCHANGED <<kind, interrupted>> /\ main' \in {main, "fork", "accept"}
            /\ "main" \in listeners => "main" \in listeners'
        BY <1>5, <2>4, <3>3 DEF Hw2Parent
      <4>2. main # "makeTcp"
        BY <1>0, <2>4, <3>1, <3>3, ServedAfterStart DEF Hw2Parent
      <4>3. QED
        BY <1>0, <3>1, <4>1, <4>2, SocketsKept DEF Labels
    <3>4. QED
      BY <3>2, <3>3
  <2>5. CASE Udps
    <3>1. UNCHANGED <<kind, interrupted, listeners, conn>> /\ main' \in {"serve", "recvfrom"}
      BY <1>4, <1>6, <2>5 DEF Udps
    <3>2. QED
      BY <1>0, <2>5, <3>1 DEF Sockets, Has, Udps, Labels
  <2>6. CASE Select
    <3>1. /\ UNCHANGED <<kind, interrupted, listeners>>
          /\ main' \in {main, "loop", "select", "accept", "serve", "recvfrom"}
      <4>1. CASE Count \/ EndOfCount
        BY <4>1 DEF Count, EndOfCount
      <4>2. CASE ProcessTcpRequest
        BY <1>1, <1>2, <1>3, <1>5, <4>2 DEF ProcessTcpRequest, Turn
      <4>3. CASE ProcessUdpRequest
        BY <1>4, <1>6, <4>3 DEF ProcessUdpRequest, Turn
      <4>4. QED
        BY <2>6, <4>1, <4>2, <4>3 DEF Select
    <3>2. QED
      BY <1>0, <2>6, <3>1, SocketsKept DEF Labels, Select, Has
  <2>7. CASE Hw3Main
    <3>1. UNCHANGED <<kind, interrupted, listeners>> /\ main' \in {main, "loop", "select"}
      BY <2>7 DEF Hw3Main, Count, EndOfCount, Spawn, Turn
    <3>2. QED
      BY <1>0, <2>7, <3>1, SocketsKept DEF Labels, Hw3Main, Has
  <2>8. QED
    BY <1>7, <2>1, <2>3, <2>4, <2>5, <2>6, <2>7 DEF First
<1>8. CASE Others
  <2>1. kind = "hw3" /\ UNCHANGED <<kind, interrupted, listeners, main>>
    BY <1>5, <1>6, <1>8 DEF Others, Hw3Accept, Hw3ReceiveFrom
  <2>2. QED
    BY <1>0, <2>1, SocketsKept DEF Has
<1>9. CASE Interrupt
  <2>1. interrupted' = TRUE /\ kind' = kind /\ main # "makeTcp" /\ main # "makeUdp"
    BY <1>9 DEF Interrupt, Die
  <2>2. CASE Has({"tcps", "hw2"})
    BY <1>0, <1>9, <2>1, <2>2 DEF Interrupt, Sockets, Has
  <2>3. CASE ~Has({"tcps", "hw2"})
    <3>1. /\ main' = "gone" /\ listeners' = {}
          /\ \A c \in TcpClients : conn[c] = "none" => conn'[c] = "none"
      BY <1>9, <2>3, Kinship DEF Interrupt, Die
    <3>2. QED
      BY <1>0, <2>1, <2>3, <3>1 DEF Sockets, Has, Labels
  <2>4. QED
    BY <2>2, <2>3
<1>10. ASSUME NEW c \in TcpClients, Tcpc(c) PROVE Sockets'
  BY <1>0, <1>10, ClientSockets DEF Tcpc, Connect, Send, Read, serverVars, netVars
<1>11. ASSUME NEW c \in TcpClients, Hw2Child(c) PROVE Sockets'
  <2>1. kind = "hw2" /\ c # "main"
    BY <1>11, Kinship DEF Hw2Child
  <2>2. /\ UNCHANGED <<kind, interrupted, main>>
        /\ "main" \in listeners => "main" \in listeners'
    BY <1>1, <1>3, <1>11, <2>1 DEF Hw2Child, Drop
  <2>3. main # "makeTcp"
    BY <1>0, <1>11, <2>1, ServedAfterStart DEF Hw2Child, ReadRequest, WriteReply, Has
  <2>4. QED
    BY <1>0, <2>1, <2>2, <2>3, SocketsKept
<1>12. ASSUME NEW c \in TcpClients, Hw3Tcp(c) PROVE Sockets'
  <2>1. kind = "hw3" /\ UNCHANGED <<kind, interrupted, listeners, main>>
    BY <1>1, <1>2, <1>3, <1>12 DEF Hw3Tcp
  <2>2. QED
    BY <1>0, <2>1, SocketsKept DEF Has
<1>13. ASSUME NEW c \in UdpClients, Udpc(c) \/ Hw3Udp(c) PROVE Sockets'
  <2>1. UNCHANGED <<kind, interrupted, listeners, main, conn>>
    BY <1>4, <1>13 DEF Udpc, Hw3Udp, serverVars, netVars
  <2>2. \A d \in TcpClients : serving'[d] = serving[d]
    BY <1>0, <1>13, Kinship DEF Udpc, Hw3Udp, SendTo, Shape
  <2>3. QED
    BY <1>0, <2>1, <2>2, ClientSockets
<1>14. ASSUME NEW c \in Clients, Kill(c) PROVE Sockets'
  BY <1>0, <1>14, ClientSockets DEF Kill, serverVars, netVars
<1>15. CASE UNCHANGED vars
  BY <1>0, <1>15, ClientSockets DEF vars, serverVars, netVars
<1>16. QED
  BY <1>7, <1>8, <1>9, <1>10, <1>11, <1>12, <1>13, <1>14, <1>15 DEF Next

\* At first nobody is connected.
LEMMA InitInv == ASSUME Init PROVE IInv
<1>1. << >> \in Seq(TcpClients) /\ << >> \in Seq(UdpClients) /\ DOMAIN << >> = {}
  BY EmptySeq
<1>2. /\ kind \in Kinds /\ listeners = {} /\ backlog = << >> /\ dgrams = << >>
      /\ serving = [c \in Clients |-> "no"] /\ conn = [c \in Clients |-> "none"]
      /\ request = [c \in Clients |-> "none"] /\ answer = [c \in Clients |-> FALSE]
      /\ client = [c \in Clients |-> "idle"] /\ got = [c \in Clients |-> "nothing"]
      /\ interrupted = FALSE /\ main = IF kind = "udps" THEN "makeUdp" ELSE "makeTcp"
  BY DEF Init
<1>3. Shape
  <2>1. answer \in [Clients -> BOOLEAN] /\ interrupted \in BOOLEAN
    BY <1>2
  <2>2. QED
    BY <1>1, <1>2, <2>1 DEF Shape, Phases
<1>4. Waiting
  BY <1>1, <1>2 DEF Waiting
<1>5. \A c \in TcpClients : Dealing(c)
  BY <1>2, Kinship DEF Dealing
<1>6. Sockets
  BY <1>2, Kinship DEF Sockets, Has, Labels
<1>7. QED
  BY <1>3, <1>4, <1>5, <1>6 DEF IInv, Net

LEMMA Always == Spec => []IInv
<1>1. IInv /\ [Next]_vars => IInv'
  BY NetStep, SocketsStep DEF IInv
<1>2. QED
  BY <1>1, InitInv, PTL DEF Spec

------------------------------------------------------------------------------
(* The properties *)

\* For any clients and servers: a client prints its own request as the reply
\* only when a SIGINT has ended a server of the kind that exits at once, and
\* whoever prints a reply has had its request read.
THEOREM ReplySafe == Spec => []TrueReply
<1>1. IInv => TrueReply
  BY DEF IInv, Net, Dealing, TrueReply, Excused
<1>2. QED
  BY <1>1, Always, PTL

\* For any clients and servers: wherever clients are killed, and however many,
\* no server writes to a connection that was reset, and none fails in accept
\* before its SIGINT.
THEOREM SurvivalSafe == Spec => []Survives
<1>1. IInv => Survives
  BY DEF IInv, Sockets, Survives
<1>2. QED
  BY <1>1, Always, PTL

==============================================================================
