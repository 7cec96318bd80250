------------------------------ MODULE ChatProofs ------------------------------
(***************************************************************************)
(* Proofs about ChatS, for any number of peers, texts and entries, as long *)
(* as there are not more clients at a time than entries, and about ChatC.  *)
(***************************************************************************)
EXTENDS MCChat, FiniteSetTheorems, SequenceTheorems, TLAPS

------------------------------------------------------------------------------
(* The inductive invariant *)

Conns == {"out", "open"} \cup Left

Entries == [sockfd : {0} \cup Fds, inUse : BOOLEAN, uid : Items \cup {Blank},
            First : BOOLEAN]

Shape == /\ sock \in [Fds -> Peers \cup {Nobody}]
         /\ sockIdx \in [Fds -> IDs]
         /\ Client \in [IDs -> Entries]
         /\ backlog \in Seq(Peers)
         /\ conn \in [Peers -> Conns]
         /\ inbox \in [Peers -> Seq(Items)]
         /\ sent \in [Peers -> 0 .. MaxTexts + 1]
         /\ cpy_reads \subseteq {Sockfd} \cup Fds

\* A behind is in one place: it has not come, it waits to be accepted, or it is
\* behind one descriptor.
OnePlace == /\ \A f, g \in Fds : sock[f] # Nobody /\ sock[f] = sock[g] => f = g
            /\ \A j, k \in DOMAIN backlog : backlog[j] = backlog[k] => j = k
            /\ \A k \in DOMAIN backlog : \A f \in Fds : sock[f] # backlog[k]
            /\ \A p \in Peers : conn[p] = "out" => p \notin Present

NoCrowd == Cardinality(Present) <= Crowd

\* OwnEntry and NeverBlocks while the server runs.
Own == /\ Watched = {f \in Fds : sock[f] # Nobody}
       /\ \A f \in Watched : /\ Client[sockIdx[f]].inUse
                             /\ Client[sockIdx[f]].sockfd = f
       /\ \A id \in IDs : Client[id].inUse =>
               \E f \in Watched : sockIdx[f] = id

LiveInv == Shape /\ OnePlace /\ NoCrowd /\ Own /\ NeverBlocks

IInv == /\ pc \in Running => LiveInv
        /\ DiesOnlyOfReset

------------------------------------------------------------------------------
(* Numbers *)

\* Descriptors and entry numbers are natural numbers.
LEMMA Numbers == /\ Cardinality(Peers) \in Nat
                 /\ Fds \subseteq Nat /\ Sockfd \notin Fds
                 /\ IDs \subseteq Nat /\ 0 \in IDs
                 /\ IsFiniteSet(IDs) /\ Cardinality(IDs) = MAX_CLIENT
<1>1. Cardinality(Peers) \in Nat
  BY ChatAssumption, FS_CardinalityType
<1>2. MAX_CLIENT \in Nat /\ MAX_CLIENT > 1
  BY ChatAssumption
<1>3. IsFiniteSet(IDs) /\ Cardinality(IDs) = MAX_CLIENT
  BY <1>2, FS_Interval DEF IDs
<1>4. QED
  BY <1>1, <1>2, <1>3 DEF Fds, Sockfd, IDs

\* A set of natural numbers has a least element, the one the server takes.
LEMMA Least == ASSUME NEW T \in SUBSET Nat, T # {}
               PROVE  \E x \in T : \A y \in T : x <= y
<1> DEFINE R == OpToRel(<, Nat)
<1>1. IsWellFoundedOn(R, Nat)
  BY NatLessThanWellFounded
<1>2. \A x, y \in Nat : y < x => <<y, x>> \in R
  BY DEF OpToRel
<1>3. \E x \in T : \A y \in T : ~(<<y, x>> \in R)
  <2> HIDE DEF R
  <2>1. QED
    BY <1>1, WFMin
<1>4. PICK x \in T : \A y \in T : ~(<<y, x>> \in R)
  BY <1>3
<1> HIDE DEF R
<1>5. \A y \in T : ~(y < x)
  BY <1>2, <1>4
<1>6. QED
  BY <1>5

\* The clients that are there can be counted.
LEMMA PresentFinite == IsFiniteSet(Present) /\ Cardinality(Present) \in Nat
<1>1. Present \in SUBSET Peers
  BY DEF Present
<1>2. IsFiniteSet(Present)
  BY <1>1, ChatAssumption, FS_Subset
<1>3. QED
  BY <1>2, FS_CardinalityType

\* With a client that waits, not every entry is in use: the entries in use
\* belong to different clients, and none of them to the one that waits.
LEMMA FreeEntry == ASSUME Shape, OnePlace, NoCrowd, Own, Crowd <= MAX_CLIENT,
                          backlog # << >>
                   PROVE  GetID \in IDs /\ ~Client[GetID].inUse
<1> DEFINE unused == {id \in IDs : ~Client[id].inUse}
           others == Present \ {Head(backlog)}
           owner == [id \in IDs |-> CHOOSE f \in Watched : sockIdx[f] = id]
           behind == [id \in IDs |-> sock[owner[id]]]
<1>1. ASSUME unused = {} PROVE FALSE
  <2>1. ASSUME NEW id \in IDs
        PROVE  owner[id] \in Watched /\ sockIdx[owner[id]] = id
    BY <1>1 DEF Own
  <2>2. ASSUME NEW id \in IDs
        PROVE  /\ owner[id] \in Fds /\ sock[owner[id]] \in Peers
               /\ sock[owner[id]] # Nobody
    BY <2>1 DEF Own, Shape
  <2>3. Head(backlog) \in Present /\ Head(backlog) = backlog[1] /\ 1 \in DOMAIN backlog
    BY HeadTailProperties, LenProperties DEF Shape, Present, Waits
  <2>4. behind \in [IDs -> others]
    BY <2>2, <2>3, ZenonT(40) DEF Present, Holds, OnePlace
  <2>5. \A a, b \in IDs : behind[a] = behind[b] => a = b
    <3> SUFFICES ASSUME NEW a \in IDs, NEW b \in IDs, behind[a] = behind[b]
                 PROVE  a = b
      OBVIOUS
    <3>1. owner[a] = owner[b]
      BY <2>2 DEF OnePlace
    <3> HIDE DEF owner
    <3>2. QED
      BY <2>1, <3>1
  <2>6. /\ IsFiniteSet(others)
        /\ Cardinality(others) = Cardinality(Present) - 1
    BY <2>3, PresentFinite, FS_RemoveElement
  <2>7. Cardinality(others) < Cardinality(IDs)
    BY <2>6, PresentFinite, Numbers, ChatAssumption DEF NoCrowd
  <2> HIDE DEF behind, others
  <2>8. QED
    BY <2>4, <2>5, <2>6, <2>7, Numbers, FS_PigeonHole
<1>2. unused \in SUBSET Nat
  BY Numbers
<1>3. \E id \in unused : \A other \in unused : id <= other
  BY <1>1, <1>2, Least
<1>4. GetID = CHOOSE id \in unused : \A other \in unused : id <= other
  BY <1>1 DEF GetID
<1>5. GetID \in unused
  BY <1>3, <1>4
<1>6. QED
  BY <1>5

------------------------------------------------------------------------------
(* What the actions do to what the invariant is about *)

\* Other peers' connections only ever change from closed to hit.
ConnsHit == \A q \in Peers : \/ conn'[q] = conn[q]
                             \/ conn[q] = "closed" /\ conn'[q] = "hit"

\* No entry changes hands.
EntriesKept == \A k \in IDs : /\ Client'[k].inUse = Client[k].inUse
                              /\ Client'[k].sockfd = Client[k].sockfd

\* SendToOtherClients changes connections only, by finding some reset.
LEMMA SendEffect == ASSUME Shape, NEW id, NEW msg, SendToOtherClients(id, msg)
                    PROVE  conn' \in [Peers -> Conns] /\ ConnsHit
<1>1. conn \in [Peers -> Conns]
  BY DEF Shape
<1>2. ASSUME NEW q \in Peers
      PROVE  conn'[q] \in Conns /\ (\/ conn'[q] = conn[q]
                                    \/ conn[q] = "closed" /\ conn'[q] = "hit")
  BY <1>1 DEF SendToOtherClients, Conns, Left
<1>3. \E f : conn' = [q \in Peers |-> f[q]]
  <2> DEFINE served == {k \in Others(id) :
                          \A j \in Others(id) : SendFails(j) => k < j}
             served_peers == {sock[Client[k].sockfd] : k \in served}
             f == [q \in Peers |-> IF q \in served_peers /\ conn[q] = "closed"
                                   THEN "hit" ELSE conn[q]]
  <2>1. conn' = f
    BY DEF SendToOtherClients
  <2>2. f = [q \in Peers |-> f[q]]
    OBVIOUS
  <2>3. QED
    BY <2>1, <2>2
<1>4. QED
  BY <1>2, <1>3 DEF ConnsHit

\* A recv changes the inbox of its own behind only.
LEMMA TakeEffect == ASSUME Shape, NEW p \in Peers, Take(p)
                    PROVE  /\ inbox' \in [Peers -> Seq(Items)]
                           /\ \A q \in Peers : q # p => inbox'[q] = inbox[q]
                           /\ inbox[p] # << >> /\ Head(inbox[p]) \in Items
<1>1. inbox \in [Peers -> Seq(Items)] /\ inbox[p] \in Seq(Items)
  BY DEF Shape
<1>2. PICK n \in 1 .. Len(inbox[p]) :
        inbox' = [inbox EXCEPT ![p] = SubSeq(inbox[p], n + 1, Len(inbox[p]))]
  BY DEF Take
<1>3. Len(inbox[p]) \in Nat /\ n \in Nat /\ n >= 1 /\ n <= Len(inbox[p])
  BY <1>1, LenProperties
<1>4. SubSeq(inbox[p], n + 1, Len(inbox[p])) \in Seq(Items)
  BY <1>1, <1>3, SubSeqProperties
<1>5. inbox[p] # << >>
  BY <1>3, EmptySeq
<1>6. Head(inbox[p]) \in Items
  BY <1>1, <1>5, HeadTailProperties
<1>7. QED
  BY <1>1, <1>2, <1>4, <1>5, <1>6

\* The scan is at a descriptor of a client: its entry is its own.
LEMMA AtClient == ASSUME LiveInv, NEW i \in Fds, At(i)
                  PROVE  /\ i \in Watched /\ sock[i] \in Peers
                         /\ sockIdx[i] \in IDs
                         /\ Client[sockIdx[i]].sockfd = i
                         /\ Client[sockIdx[i]].inUse
                         /\ Readable(i)
<1>1. i # Sockfd
  BY Numbers
<1>2. Readable(i) /\ Client[sockIdx[i]].sockfd = i
  BY <1>1 DEF LiveInv, NeverBlocks, At
<1>3. QED
  BY <1>2 DEF LiveInv, Own, Shape, Readable

\* An ID or a text: the descriptors and the entries stay as they are.
Talks(i) == /\ UNCHANGED <<reads, sockIdx, sock, backlog, sent>>
            /\ EntriesKept /\ Client' \in [IDs -> Entries]
            /\ inbox' \in [Peers -> Seq(Items)]
            /\ \A q \in Peers : q # sock[i] => inbox'[q] = inbox[q]
            /\ ConnsHit /\ conn' \in [Peers -> Conns]

\* A login is a step on an entry in use.
LEMMA LogInEffect == ASSUME LiveInv, NEW i \in Fds, LogIn(i) PROVE Talks(i)
<1> DEFINE id == sockIdx[i]
           p  == sock[i]
<1>1. Client[id].sockfd = i /\ p \in Peers /\ id \in IDs
  BY AtClient DEF LogIn
<1>2. Client \in [IDs -> Entries] /\ Client[id] \in Entries
  BY <1>1 DEF LiveInv, Shape
<1>3. UNCHANGED <<reads, sockIdx, sock, backlog, conn, sent>>
  BY DEF LogIn
<1>4. ConnsHit /\ conn' \in [Peers -> Conns]
  BY <1>3 DEF ConnsHit, LiveInv, Shape
<1>5. /\ EntriesKept /\ Client' \in [IDs -> Entries]
      /\ inbox' \in [Peers -> Seq(Items)]
      /\ \A q \in Peers : q # p => inbox'[q] = inbox[q]
  <2>1. CASE /\ Take(p)
             /\ Client' = [Client EXCEPT ![id].First = TRUE,
                                         ![id].uid = Head(inbox[p])]
    <3>1. Head(inbox[p]) \in Items
      BY <1>1, <2>1, TakeEffect DEF LiveInv
    <3>2. Client' = [Client EXCEPT ![id] = [Client[id] EXCEPT !.First = TRUE,
                                            !.uid = Head(inbox[p])]]
      BY <1>1, <1>2, <2>1 DEF Entries
    <3>3. EntriesKept /\ Client' \in [IDs -> Entries]
      BY <1>1, <1>2, <3>1, <3>2 DEF EntriesKept, Entries
    <3>4. QED
      BY <1>1, <2>1, <3>3, TakeEffect DEF LiveInv
  <2>2. CASE /\ Client' = [Client EXCEPT ![id].First = TRUE]
             /\ UNCHANGED inbox
    <3>1. EntriesKept /\ Client' \in [IDs -> Entries]
      BY <1>1, <1>2, <2>2 DEF EntriesKept, Entries
    <3>2. QED
      BY <2>2, <3>1 DEF LiveInv, Shape
  <2>3. QED
    BY <1>1, <2>1, <2>2 DEF LogIn
<1>6. QED
  BY <1>3, <1>4, <1>5 DEF Talks

\* A chat line is a step on an entry in use.
LEMMA SayEffect == ASSUME LiveInv, NEW i \in Fds, Say(i) PROVE Talks(i)
<1>1. Client[sockIdx[i]].sockfd = i /\ sock[i] \in Peers
  BY AtClient DEF Say
<1>2. /\ UNCHANGED <<reads, sockIdx, sock, backlog, Client, sent>>
      /\ Take(sock[i])
      /\ SendToOtherClients(sockIdx[i], Head(inbox[sock[i]]))
  BY <1>1 DEF Say
<1>3. EntriesKept /\ Client' \in [IDs -> Entries]
  BY <1>2 DEF EntriesKept, LiveInv, Shape
<1>4. ConnsHit /\ conn' \in [Peers -> Conns]
  BY <1>2, SendEffect DEF LiveInv
<1>5. QED
  BY <1>1, <1>2, <1>3, <1>4, TakeEffect DEF Talks, LiveInv

\* A log-out gives up the descriptor together with its entry.
Closes(i) == /\ reads' = reads \ {i}
             /\ sock' = [sock EXCEPT ![i] = Nobody]
             /\ Client' = [Client EXCEPT ![sockIdx[i]] =
                             [Client[sockIdx[i]] EXCEPT !.inUse = FALSE]]
             /\ UNCHANGED <<sockIdx, backlog, inbox, sent>>
             /\ ConnsHit /\ conn' \in [Peers -> Conns]

\* A farewell closes one descriptor and frees its entry.
LEMMA FarewellEffect == ASSUME LiveInv, NEW i \in Fds, Farewell(i)
                        PROVE  Closes(i)
<1>1. Client[sockIdx[i]].sockfd = i /\ sockIdx[i] \in IDs
  BY AtClient DEF Farewell
<1>2. /\ CloseClient(sockIdx[i], i)
      /\ SendToOtherClients(sockIdx[i], LogOut)
      /\ UNCHANGED <<sockIdx, backlog, inbox, sent>>
  BY <1>1 DEF Farewell
<1>3. ConnsHit /\ conn' \in [Peers -> Conns]
  BY <1>2, SendEffect DEF LiveInv
<1>4. QED
  BY <1>1, <1>2, <1>3 DEF Closes, CloseClient, LiveInv, Shape

\* A new client gets a descriptor and an entry nobody has.
Enters(f, id) == /\ sock[f] = Nobody /\ ~Client[id].inUse /\ backlog # << >>
                 /\ sock' = [sock EXCEPT ![f] = Head(backlog)]
                 /\ backlog' = Tail(backlog)
                 /\ reads' = reads \cup {f}
                 /\ sockIdx' = [sockIdx EXCEPT ![f] = id]
                 /\ Client' = [Client EXCEPT ![id] =
                                 [Client[id] EXCEPT !.sockfd = f, !.inUse = TRUE,
                                                    !.First = FALSE]]
                 /\ UNCHANGED <<conn, inbox, sent>>
                 /\ Scanned(Sockfd)

\* accept takes a free descriptor and, with room, a free entry.
LEMMA AcceptEffect == ASSUME LiveInv, Accept, Crowd <= MAX_CLIENT
                      PROVE  \E f \in Fds, id \in IDs : Enters(f, id)
<1>1. backlog # << >>
  BY DEF LiveInv, NeverBlocks, Accept, At
<1>2. GetID \in IDs /\ ~Client[GetID].inUse
  BY <1>1, FreeEntry DEF LiveInv
<1>3. PICK f \in Fds : NewSocket(f) /\ Enter(f, GetID)
  BY DEF Accept
<1>4. Scanned(Sockfd)
  BY DEF Accept
<1>5. Enters(f, GetID)
  BY <1>1, <1>2, <1>3, <1>4 DEF Enters, NewSocket, Enter
<1>6. QED
  BY <1>2, <1>5

\* A step of the behind p or its connection.
Acts(p) == Connect(p) \/ Send(p) \/ Leave(p) \/ Reset(p)

\* The kinds of step of a server that goes on running.
LEMMA Cases == ASSUME LiveInv, [Next]_vars, pc \in Running, pc' \in Running,
                      Crowd <= MAX_CLIENT
               PROVE  \/ Select
                      \/ \E f \in Fds, id \in IDs : Enters(f, id) /\ At(Sockfd)
                      \/ \E i \in Fds : /\ At(i) /\ Scanned(i)
                                        /\ Talks(i) \/ Closes(i)
                      \/ \E p \in Peers : Acts(p) /\ UNCHANGED pc
                      \/ UNCHANGED vars
<1>1. CASE Accept
  BY <1>1, AcceptEffect DEF Accept
<1>2. ASSUME NEW i \in Fds, LogIn(i)
      PROVE  At(i) /\ Scanned(i) /\ Talks(i)
  BY <1>2, LogInEffect DEF LogIn
<1>3. ASSUME NEW i \in Fds, Say(i)
      PROVE  At(i) /\ Scanned(i) /\ Talks(i)
  BY <1>3, SayEffect DEF Say, Sent, Running
<1>4. ASSUME NEW i \in Fds, Farewell(i)
      PROVE  At(i) /\ Scanned(i) /\ Closes(i)
  BY <1>4, FarewellEffect DEF Farewell, Sent, Running
<1>5. ASSUME NEW i \in Fds, RecvFails(i) PROVE FALSE
  BY <1>5 DEF RecvFails, Dies, Running
<1>6. CASE Network
  BY <1>6 DEF Network, Acts, Connect, Send, Leave, Reset
<1>7. CASE CloseServer
  BY <1>7 DEF CloseServer, Running
<1>8. QED
  BY <1>1, <1>2, <1>3, <1>4, <1>5, <1>6, <1>7 DEF Next, Server, Idle

------------------------------------------------------------------------------
(* Every step keeps the invariant *)

\* The scan only removes descriptors from what select returned.
LEMMA ScannedSubset == ASSUME Shape, NEW i, Scanned(i)
                       PROVE  cpy_reads' \subseteq {Sockfd} \cup Fds
  BY DEF Shape, Scanned

\* Every step preserves the types.
LEMMA ShapeStep == ASSUME LiveInv, [Next]_vars, pc \in Running, pc' \in Running,
                          Crowd <= MAX_CLIENT
                   PROVE  Shape'
<1>0. Shape
  BY DEF LiveInv
<1>1. CASE Select
  <2>1. cpy_reads' \subseteq {Sockfd} \cup Fds
    BY <1>1 DEF Select, Ready, LiveInv, Own, Watched
  <2>2. QED
    BY <1>0, <1>1, <2>1 DEF Select, netVars, Shape
<1>2. ASSUME NEW f \in Fds, NEW id \in IDs, Enters(f, id) PROVE Shape'
  <2>1. Head(backlog) \in Peers /\ Tail(backlog) \in Seq(Peers)
    BY <1>0, <1>2, HeadTailProperties DEF Shape, Enters
  <2>2. Client' \in [IDs -> Entries]
    BY <1>0, <1>2, ZenonT(40) DEF Shape, Enters, Entries
  <2>3. cpy_reads' \subseteq {Sockfd} \cup Fds
    BY <1>0, <1>2, ScannedSubset DEF Enters
  <2>4. QED
    BY <1>0, <1>2, <2>1, <2>2, <2>3 DEF Shape, Enters
<1>3. ASSUME NEW i \in Fds, Scanned(i), Talks(i) PROVE Shape'
  BY <1>0, <1>3, ScannedSubset DEF Shape, Talks
<1>4. ASSUME NEW i \in Fds, At(i), Scanned(i), Closes(i) PROVE Shape'
  <2>1. sockIdx[i] \in IDs
    BY <1>0 DEF Shape
  <2>2. Client' \in [IDs -> Entries]
    BY <1>0, <1>4, <2>1, ZenonT(40) DEF Shape, Closes, Entries
  <2>3. QED
    BY <1>0, <1>4, <2>2, ScannedSubset DEF Shape, Closes
<1>5. ASSUME NEW p \in Peers, Connect(p) PROVE Shape'
  <2>1. Append(backlog, p) \in Seq(Peers)
    BY <1>0, AppendProperties DEF Shape
  <2>2. QED
    BY <1>0, <1>5, <2>1 DEF Connect, Shape, Conns
<1>6. ASSUME NEW p \in Peers, Send(p) PROVE Shape'
  <2>0. sent' \in [Peers -> 0 .. MaxTexts + 1]
    BY <1>0, <1>6, ChatAssumption, SMTT(40) DEF Shape, Send
  <2>1. inbox' \in [Peers -> Seq(Items)]
    <3>1. inbox \in [Peers -> Seq(Items)] /\ inbox[p] \in Seq(Items)
      BY <1>0 DEF Shape
    <3>2. [from |-> p, nr |-> sent[p]] \in Items
      BY <1>0, <1>6, ChatAssumption DEF Shape, Items, Send
    <3>3. Append(inbox[p], [from |-> p, nr |-> sent[p]]) \in Seq(Items)
      BY <3>1, <3>2, AppendProperties
    <3>4. QED
      BY <1>6, <3>1, <3>3 DEF Send
  <2>2. QED
    BY <1>0, <1>6, <2>0, <2>1 DEF Send, Shape
<1>7. ASSUME NEW p \in Peers, Leave(p) \/ Reset(p) PROVE Shape'
  <2>1. conn' \in [Peers -> Conns]
    BY <1>0, <1>7 DEF Leave, Reset, Shape, Conns, Left
  <2>2. QED
    BY <1>0, <1>7, <2>1 DEF Leave, Reset, Shape
<1>8. CASE UNCHANGED vars
  BY <1>0, <1>8 DEF vars, netVars, Shape
<1>9. QED
  BY <1>1, <1>2, <1>3, <1>4, <1>5, <1>6, <1>7, <1>8, Cases DEF Acts

\* Every step preserves the one-to-one relation of entries and descriptors.
LEMMA PlaceStep == ASSUME LiveInv, [Next]_vars, pc \in Running, pc' \in Running,
                          Crowd <= MAX_CLIENT
                   PROVE  /\ OnePlace'
                          /\ \/ Present' \subseteq Present
                             \/ \E p \in Peers : /\ Connect(p)
                                               /\ Present' \subseteq Present \cup {p}
<1>0. Shape /\ OnePlace /\ Nobody \notin Peers
  BY ChatAssumption DEF LiveInv
<1>b. /\ Len(backlog) \in Nat /\ DOMAIN backlog = 1..Len(backlog)
      /\ \A k \in DOMAIN backlog : backlog[k] \in Peers
  BY <1>0, LenProperties, ElementOfSeq DEF Shape
\* Nobody comes or goes.
<1>1. ASSUME UNCHANGED <<sock, backlog>>,
             \A p \in Peers : conn'[p] = "out" => conn[p] = "out"
      PROVE  OnePlace' /\ Present' \subseteq Present
  BY <1>0, <1>1 DEF OnePlace, Present, Holds, Waits
<1>2. CASE Select \/ UNCHANGED vars
  BY <1>1, <1>2 DEF Select, vars, netVars
<1>3. ASSUME NEW f \in Fds, NEW id \in IDs, Enters(f, id)
      PROVE  OnePlace' /\ Present' \subseteq Present
  <2>1. /\ sock \in [Fds -> Peers \cup {Nobody}] /\ backlog \in Seq(Peers)
        /\ sock' = [sock EXCEPT ![f] = backlog[1]] /\ UNCHANGED conn
        /\ Head(backlog) = backlog[1] /\ backlog[1] \in Peers
        /\ Len(backlog) >= 1
    BY <1>0, <1>3, <1>b, HeadTailProperties, EmptySeq DEF Shape, Enters
  <2>2. /\ DOMAIN backlog' = 1 .. Len(backlog) - 1
        /\ \A k \in DOMAIN backlog' : /\ backlog'[k] = backlog[k + 1]
                                      /\ k + 1 \in DOMAIN backlog
    <3>1. backlog' = Tail(backlog) /\ backlog # << >>
      BY <1>3 DEF Enters
    <3>2. /\ Tail(backlog) \in Seq(Peers) /\ Len(Tail(backlog)) = Len(backlog) - 1
          /\ \A k \in 1 .. Len(Tail(backlog)) : Tail(backlog)[k] = backlog[k + 1]
      BY <2>1, <3>1, HeadTailProperties
    <3>3. QED
      BY <1>b, <2>1, <3>1, <3>2, LenProperties
  <2>3. \A g \in Fds : sock'[g] = IF g = f THEN backlog[1] ELSE sock[g]
    BY <2>1
  <2>4. 1 \in DOMAIN backlog /\ \A k \in DOMAIN backlog' : k + 1 # 1
    BY <1>b, <2>1, <2>2
  <2>5. \A g, h \in Fds : sock'[g] # Nobody /\ sock'[g] = sock'[h] => g = h
    BY <1>0, <2>3, <2>4 DEF OnePlace
  <2>6. \A j, k \in DOMAIN backlog' : backlog'[j] = backlog'[k] => j = k
    <3> SUFFICES ASSUME NEW j \in DOMAIN backlog', NEW k \in DOMAIN backlog',
                        backlog'[j] = backlog'[k]
                 PROVE  j = k
      OBVIOUS
    <3>1. j + 1 = k + 1
      BY <1>0, <2>2 DEF OnePlace
    <3>2. QED
      BY <1>b, <2>2, <3>1
  <2>7. \A k \in DOMAIN backlog' : \A g \in Fds : sock'[g] # backlog'[k]
    BY <1>0, <2>2, <2>3, <2>4 DEF OnePlace
  <2>8. Present' \subseteq Present
    <3> SUFFICES ASSUME NEW p \in Peers, p \in Present' PROVE p \in Present
      BY DEF Present
    <3>1. CASE \E k \in DOMAIN backlog' : backlog'[k] = p
      BY <2>2, <3>1 DEF Present, Waits
    <3>2. CASE \E g \in Fds : sock'[g] = p
      BY <2>3, <2>4, <3>2 DEF Present, Waits, Holds
    <3>3. QED
      BY <3>1, <3>2 DEF Present, Waits, Holds
  <2>9. QED
    BY <1>0, <2>1, <2>5, <2>6, <2>7, <2>8 DEF OnePlace
<1>4. ASSUME NEW i \in Fds, Talks(i)
      PROVE  OnePlace' /\ Present' \subseteq Present
  BY <1>1, <1>4 DEF Talks, ConnsHit
<1>5. ASSUME NEW i \in Fds, Closes(i)
      PROVE  OnePlace' /\ Present' \subseteq Present
  <2>1. /\ \A g \in Fds : sock'[g] = IF g = i THEN Nobody ELSE sock[g]
        /\ backlog' = backlog
        /\ \A p \in Peers : conn'[p] = "out" => conn[p] = "out"
    BY <1>0, <1>5 DEF Shape, Closes, ConnsHit
  <2>2. Present' \subseteq Present
    BY <1>0, <2>1 DEF Present, Waits, Holds
  <2>3. \A g, h \in Fds : sock'[g] # Nobody /\ sock'[g] = sock'[h] => g = h
    BY <1>0, <2>1 DEF OnePlace
  <2>4. \A k \in DOMAIN backlog' : \A g \in Fds : sock'[g] # backlog'[k]
    BY <1>0, <1>b, <2>1 DEF OnePlace
  <2>5. QED
    BY <1>0, <2>1, <2>2, <2>3, <2>4 DEF OnePlace
<1>6. ASSUME NEW p \in Peers, Connect(p)
      PROVE  OnePlace' /\ Present' \subseteq Present \cup {p}
  <2>1. /\ conn[p] = "out" /\ conn' = [conn EXCEPT ![p] = "open"]
        /\ backlog' = Append(backlog, p) /\ sock' = sock
        /\ p \notin Present
    BY <1>0, <1>6 DEF Connect, OnePlace
  <2>2. /\ DOMAIN backlog' = 1 .. Len(backlog) + 1
        /\ backlog'[Len(backlog) + 1] = p
        /\ \A k \in DOMAIN backlog : backlog'[k] = backlog[k]
    BY <1>0, <1>b, <2>1, AppendProperties, LenProperties DEF Shape
  <2>3. /\ \A k \in DOMAIN backlog : backlog[k] # p
        /\ \A g \in Fds : sock[g] # p
    BY <2>1 DEF Present, Waits, Holds
  <2>4. \A k \in DOMAIN backlog' : k \in DOMAIN backlog \/ k = Len(backlog) + 1
    BY <1>b, <2>2
  <2>5. \A j, k \in DOMAIN backlog' : backlog'[j] = backlog'[k] => j = k
    BY <1>0, <2>2, <2>3, <2>4 DEF OnePlace
  <2>6. \A k \in DOMAIN backlog' : \A g \in Fds : sock'[g] # backlog'[k]
    BY <1>0, <2>1, <2>2, <2>3, <2>4 DEF OnePlace
  <2>7. Present' \subseteq Present \cup {p}
    BY <2>1, <2>2, <2>4 DEF Present, Waits, Holds
  <2>8. \A q \in Peers : conn'[q] = "out" => conn[q] = "out" /\ q # p
    BY <1>0, <2>1 DEF Shape
  <2>9. QED
    BY <1>0, <2>1, <2>5, <2>6, <2>7, <2>8 DEF OnePlace
<1>7. ASSUME NEW p \in Peers, Send(p) \/ Leave(p) \/ Reset(p)
      PROVE  OnePlace' /\ Present' \subseteq Present
  <2>1. \A q \in Peers : conn'[q] = "out" => conn[q] = "out"
    BY <1>0, <1>7 DEF Shape, Send, Leave, Reset
  <2>2. QED
    BY <1>1, <1>7, <2>1 DEF Send, Leave, Reset
<1>8. QED
  BY <1>2, <1>3, <1>4, <1>5, <1>6, <1>7, Cases DEF Acts

\* Nobody connects when there is a crowd already.
LEMMA CrowdStep == ASSUME LiveInv, [Next]_vars, pc \in Running, pc' \in Running,
                          Crowd <= MAX_CLIENT
                   PROVE  NoCrowd'
<1>0. /\ Cardinality(Present) <= Crowd /\ Cardinality(Present) \in Nat
      /\ IsFiniteSet(Present) /\ Crowd \in Nat
  BY PresentFinite, ChatAssumption DEF LiveInv, NoCrowd
<1>1. IsFiniteSet(Present') /\ Cardinality(Present') \in Nat
  <2>1. Present' \in SUBSET Peers
    BY DEF Present
  <2>2. QED
    BY <2>1, ChatAssumption, FS_Subset, FS_CardinalityType
<1>2. CASE Present' \subseteq Present
  <2>1. Cardinality(Present') <= Cardinality(Present)
    BY <1>0, <1>2, FS_Subset
  <2>2. QED
    BY <1>0, <1>1, <2>1 DEF NoCrowd
<1>3. ASSUME NEW p \in Peers, Connect(p), Present' \subseteq Present \cup {p}
      PROVE  NoCrowd'
  <2>1. Cardinality(Present) < Crowd
    BY <1>3 DEF Connect
  <2>2. /\ IsFiniteSet(Present \cup {p})
        /\ Cardinality(Present \cup {p}) <= Cardinality(Present) + 1
        /\ Cardinality(Present \cup {p}) \in Nat
    <3>1. IsFiniteSet(Present \cup {p})
      BY <1>0, FS_AddElement
    <3>2. Cardinality(Present \cup {p}) = IF p \in Present THEN Cardinality(Present)
                                          ELSE Cardinality(Present) + 1
      BY <1>0, FS_AddElement
    <3>3. Cardinality(Present \cup {p}) \in Nat
      BY <3>1, FS_CardinalityType
    <3> HIDE DEF Present
    <3>4. QED
      BY <1>0, <3>1, <3>2, <3>3
  <2>3. Cardinality(Present') <= Cardinality(Present \cup {p})
    BY <1>3, <2>2, FS_Subset
  <2>4. QED
    BY <1>0, <1>1, <2>1, <2>2, <2>3 DEF NoCrowd
<1>4. QED
  BY <1>2, <1>3, PlaceStep

\* Descriptors and entries stay each other's.
LEMMA OwnStep == ASSUME LiveInv, [Next]_vars, pc \in Running, pc' \in Running,
                        Crowd <= MAX_CLIENT
                 PROVE  Own'
<1>0. Shape /\ Own /\ Nobody \notin Peers
  BY ChatAssumption DEF LiveInv
<1>1. CASE UNCHANGED <<reads, sock, sockIdx, Client>>
  BY <1>0, <1>1 DEF Own, Watched
<1>2. ASSUME NEW f \in Fds, NEW id \in IDs, Enters(f, id) PROVE Own'
  <2>1. /\ Watched' = Watched \cup {f} /\ f \notin Watched
        /\ Head(backlog) \in Peers
    BY <1>0, <1>2, Numbers, HeadTailProperties DEF Enters, Watched, Own, Shape
  <2>2. /\ \A g \in Fds : /\ sock'[g] = IF g = f THEN Head(backlog) ELSE sock[g]
                          /\ sockIdx'[g] = IF g = f THEN id ELSE sockIdx[g]
        /\ \A k \in IDs : k # id => Client'[k] = Client[k]
        /\ Client'[id].inUse /\ Client'[id].sockfd = f
    BY <1>0, <1>2 DEF Shape, Enters, Entries
  <2>3. Watched' = {g \in Fds : sock'[g] # Nobody}
    BY <1>0, <2>1, <2>2 DEF Own
  <2>4. \A g \in Watched : sockIdx[g] # id /\ g \in Fds /\ sockIdx[g] \in IDs
    BY <1>0, <1>2 DEF Own, Enters, Shape
  <2>5. \A g \in Watched' : /\ Client'[sockIdx'[g]].inUse
                            /\ Client'[sockIdx'[g]].sockfd = g
    BY <1>0, <2>1, <2>2, <2>4 DEF Own
  <2>6. \A k \in IDs : Client'[k].inUse => \E g \in Watched' : sockIdx'[g] = k
    <3> SUFFICES ASSUME NEW k \in IDs, Client'[k].inUse
                 PROVE  \E g \in Watched' : sockIdx'[g] = k
      OBVIOUS
    <3>1. CASE k = id
      BY <2>1, <2>2, <3>1
    <3>2. CASE k # id
      <4>1. PICK g \in Watched : sockIdx[g] = k
        BY <1>0, <2>2, <3>2 DEF Own
      <4>2. QED
        BY <2>1, <2>2, <2>4, <4>1
    <3>3. QED
      BY <3>1, <3>2
  <2>7. QED
    BY <2>3, <2>5, <2>6 DEF Own
<1>3. ASSUME NEW i \in Fds, Talks(i) PROVE Own'
  <2>1. /\ Watched' = Watched
        /\ \A g \in Watched : sockIdx[g] \in IDs
    BY <1>0, <1>3 DEF Talks, Watched, Own, Shape
  <2>2. QED
    BY <1>0, <1>3, <2>1 DEF Own, Talks, EntriesKept
<1>4. ASSUME NEW i \in Fds, At(i), Closes(i) PROVE Own'
  <2>1. /\ Client[sockIdx[i]].sockfd = i /\ sockIdx[i] \in IDs
    BY <1>4, AtClient
  <2>2. /\ Watched' = Watched \ {i}
        /\ \A g \in Fds : sock'[g] = IF g = i THEN Nobody ELSE sock[g]
        /\ sockIdx' = sockIdx
        /\ \A k \in IDs : k # sockIdx[i] => Client'[k] = Client[k]
        /\ ~Client'[sockIdx[i]].inUse
    BY <1>0, <1>4, <2>1 DEF Closes, Watched, Shape, Entries
  <2>3. Watched' = {g \in Fds : sock'[g] # Nobody}
    BY <1>0, <2>2 DEF Own
  <2>4. \A g \in Watched' : /\ Client'[sockIdx'[g]].inUse
                            /\ Client'[sockIdx'[g]].sockfd = g
    <3> SUFFICES ASSUME NEW g \in Watched'
                 PROVE  Client'[sockIdx'[g]].inUse /\ Client'[sockIdx'[g]].sockfd = g
      OBVIOUS
    <3>1. g \in Watched /\ g # i /\ sockIdx[g] \in IDs
      BY <1>0, <2>2 DEF Own, Shape
    <3>2. Client[sockIdx[g]].inUse /\ Client[sockIdx[g]].sockfd = g
      BY <1>0, <3>1 DEF Own
    <3>3. sockIdx[g] # sockIdx[i]
      BY <2>1, <3>1, <3>2
    <3>4. QED
      BY <2>2, <3>1, <3>2, <3>3
  <2>5. \A k \in IDs : Client'[k].inUse => \E g \in Watched' : sockIdx'[g] = k
    <3> SUFFICES ASSUME NEW k \in IDs, Client'[k].inUse
                 PROVE  \E g \in Watched' : sockIdx'[g] = k
      OBVIOUS
    <3>1. k # sockIdx[i] /\ Client[k].inUse
      BY <2>2
    <3>2. PICK g \in Watched : sockIdx[g] = k
      BY <1>0, <3>1 DEF Own
    <3>3. QED
      BY <2>2, <3>1, <3>2
  <2>6. QED
    BY <2>3, <2>4, <2>5 DEF Own
<1>5. (Select \/ UNCHANGED vars \/ \E p \in Peers : Acts(p))
      => UNCHANGED <<reads, sock, sockIdx, Client>>
  BY DEF Select, vars, netVars, Acts, Connect, Send, Leave, Reset
<1>6. QED
  BY <1>1, <1>2, <1>3, <1>4, <1>5, Cases

\* Nothing that happens during a scan takes away what the scan found ready.
LEMMA ReadyStep == ASSUME LiveInv, [Next]_vars, pc \in Running, pc' \in Running,
                          Crowd <= MAX_CLIENT
                   PROVE  NeverBlocks'
<1>0. /\ Shape /\ Own /\ OnePlace /\ NeverBlocks /\ Nobody \notin Peers
      /\ Sockfd \notin Fds /\ cpy_reads \subseteq {Sockfd} \cup Fds
  BY ChatAssumption, Numbers DEF LiveInv, Shape
<1>c. ASSUME pc = "scan", NEW j \in cpy_reads, j # Sockfd
      PROVE  /\ j \in Fds /\ Readable(j) /\ Client[sockIdx[j]].sockfd = j
             /\ sock[j] \in Peers /\ j \in Watched /\ sockIdx[j] \in IDs
             /\ Client[sockIdx[j]].inUse
  BY <1>0, <1>c DEF NeverBlocks, Shape, Own, Readable
<1>1. CASE Select
  <2>1. /\ pc' = "scan" /\ cpy_reads' = Ready
        /\ UNCHANGED <<sock, sockIdx, Client, inbox, conn, backlog>>
    BY <1>1 DEF Select, netVars
  <2>2. \A j \in Ready : IF j = Sockfd THEN backlog # << >>
                         ELSE Readable(j) /\ Client[sockIdx[j]].sockfd = j
    BY <1>0 DEF Ready, Own, Watched
  <2>3. QED
    BY <2>1, <2>2 DEF NeverBlocks, Readable
<1>2. ASSUME NEW f \in Fds, NEW id \in IDs, Enters(f, id), At(Sockfd)
      PROVE  NeverBlocks'
  <2> SUFFICES ASSUME NEW j \in cpy_reads'
               PROVE  j # Sockfd /\ Readable(j)' /\ Client'[sockIdx'[j]].sockfd = j
    BY DEF NeverBlocks
  <2>1. j \in cpy_reads /\ j # Sockfd /\ pc = "scan"
    BY <1>2 DEF Enters, Scanned, At
  <2>2. j # f /\ sockIdx[j] # id
    BY <1>2, <1>c, <2>1 DEF Enters, Readable
  <2>3. /\ sock'[j] = sock[j] /\ sockIdx'[j] = sockIdx[j]
        /\ Client'[sockIdx[j]] = Client[sockIdx[j]]
        /\ UNCHANGED <<conn, inbox>>
    BY <1>0, <1>2, <1>c, <2>1, <2>2 DEF Enters, Shape
  <2>4. QED
    BY <1>c, <2>1, <2>3 DEF Readable
<1>3. ASSUME NEW i \in Fds, At(i), Scanned(i), Talks(i) \/ Closes(i)
      PROVE  NeverBlocks'
  <2>0. pc = "scan" /\ i \in Watched /\ sockIdx[i] \in IDs /\ sock[i] \in Peers
        /\ Client[sockIdx[i]].sockfd = i /\ backlog' = backlog
    BY <1>3, AtClient DEF At, Talks, Closes
  <2> SUFFICES ASSUME NEW j \in cpy_reads', pc' = "scan"
               PROVE  IF j = Sockfd THEN backlog' # << >>
                      ELSE Readable(j)' /\ Client'[sockIdx'[j]].sockfd = j
    BY DEF NeverBlocks
  <2>1. j \in cpy_reads /\ j # i
    BY <1>3 DEF Scanned
  <2>2. CASE j = Sockfd
    BY <1>0, <2>0, <2>1, <2>2 DEF NeverBlocks
  <2>3. CASE j # Sockfd
    <3>1. /\ j \in Fds /\ Readable(j) /\ Client[sockIdx[j]].sockfd = j
          /\ sock[j] \in Peers /\ sockIdx[j] \in IDs
      BY <1>c, <2>0, <2>1, <2>3
    <3>2. sock[j] # sock[i] /\ sockIdx[j] # sockIdx[i]
      BY <1>0, <2>0, <2>1, <3>1 DEF OnePlace
    <3>3. sock'[j] = sock[j] /\ sockIdx'[j] = sockIdx[j] /\ inbox'[sock[j]] = inbox[sock[j]]
      BY <1>0, <1>3, <3>1, <3>2, <2>1 DEF Talks, Closes, Shape
    <3>4. Client'[sockIdx[j]].sockfd = Client[sockIdx[j]].sockfd
      BY <1>0, <1>3, <3>1, <3>2 DEF Talks, Closes, Shape, EntriesKept
    <3>5. conn[sock[j]] \in Left => conn'[sock[j]] \in Left
      BY <1>3, <3>1 DEF Talks, Closes, ConnsHit, Left
    <3>6. QED
      BY <2>3, <3>1, <3>3, <3>4, <3>5 DEF Readable
  <2>4. QED
    BY <2>2, <2>3
<1>4. ASSUME NEW p \in Peers, Acts(p), UNCHANGED pc PROVE NeverBlocks'
  <2>1. UNCHANGED <<cpy_reads, sock, sockIdx, Client>>
    BY <1>4 DEF Acts, Connect, Send, Leave, Reset
  <2>2. backlog # << >> => backlog' # << >>
    <3>1. Append(backlog, p) # << >>
      <4>1. backlog \in Seq(Peers)
        BY <1>0 DEF Shape
      <4>2. QED
        BY <4>1, AppendProperties, EmptySeq
    <3>2. QED
      BY <1>4, <3>1 DEF Acts, Connect, Send, Leave, Reset
  <2>3. \A q \in Peers : inbox[q] # << >> => inbox'[q] # << >>
    <3>1. inbox \in [Peers -> Seq(Items)]
      BY <1>0 DEF Shape
    <3>2. \A x : Append(inbox[p], x) # << >>
      <4> SUFFICES ASSUME NEW x PROVE Append(inbox[p], x) # << >>
        OBVIOUS
      <4>1. inbox[p] \in Seq(Items \cup {x})
        BY <3>1, SeqMonotonic
      <4>2. QED
        BY <4>1, AppendProperties, EmptySeq
    <3>3. QED
      BY <1>4, <3>1, <3>2 DEF Acts, Connect, Send, Leave, Reset
  <2>4. \A q \in Peers : conn[q] \in Left => conn'[q] \in Left
    BY <1>0, <1>4 DEF Shape, Acts, Connect, Send, Leave, Reset, Left
  <2>5. ASSUME pc = "scan", NEW j \in cpy_reads, j # Sockfd PROVE Readable(j)'
    BY <1>c, <2>1, <2>3, <2>4, <2>5 DEF Readable
  <2>6. QED
    BY <1>0, <1>4, <2>1, <2>2, <2>5 DEF NeverBlocks
<1>5. CASE UNCHANGED vars
  BY <1>0, <1>5 DEF vars, netVars, NeverBlocks, Readable
<1>6. QED
  BY <1>1, <1>2, <1>3, <1>4, <1>5, Cases

------------------------------------------------------------------------------
(* How the server ends *)

\* A send that fails is one to a behind whose connection is broken.
LEMMA BrokenPeer == ASSUME LiveInv, NEW id, NEW k \in Others(id), SendFails(k)
                    PROVE  \E p \in Peers : conn[p] \in Broken
<1>1. k \in IDs /\ Client[k].inUse
  BY DEF Others
<1>2. PICK f \in Watched : sockIdx[f] = k
  BY <1>1 DEF LiveInv, Own
<1>3. Client[k].sockfd = f /\ sock[f] \in Peers /\ sock[f] # Nobody
  BY <1>2 DEF LiveInv, Own, Shape
<1>4. QED
  BY <1>3 DEF SendFails

\* Once the server has ended nothing happens any more.
LEMMA Ended == ASSUME [Next]_vars, pc \notin Running PROVE UNCHANGED vars
  BY DEF Next, Server, Network, CloseServer, Idle, Select, Accept, LogIn, Say,
         Farewell, RecvFails, At, Running

\* The server dies only in a step that touches a reset connection.
LEMMA DiesStep == ASSUME IInv, [Next]_vars, pc' = "died"
                  PROVE  \E p \in Peers : conn'[p] \in Broken
<1>1. CASE UNCHANGED vars
  BY <1>1 DEF IInv, DiesOnlyOfReset, vars, netVars
<1>2. ASSUME pc \in Running, ~UNCHANGED vars
      PROVE  \E p \in Peers : conn'[p] \in Broken
  <2>0. LiveInv
    BY <1>2 DEF IInv
  <2>1. PICK i \in Fds : \/ RecvFails(i)
                         \/ /\ Say(i) \/ Farewell(i)
                            /\ \E k \in Others(sockIdx[i]) : SendFails(k)
    BY <1>2 DEF Next, Server, Network, Connect, Send, Leave, Reset, CloseServer,
         Idle, Select, Accept, LogIn, Say, Farewell, Sent, Scanned, Running
  <2>2. CASE RecvFails(i)
    <3>1. Client[sockIdx[i]].sockfd = i /\ sock[i] \in Peers
      BY <2>0, <2>2, AtClient DEF RecvFails
    <3>2. conn[sock[i]] = "aborted" /\ conn' = conn
      BY <2>2, <3>1, ChatAssumption DEF RecvFails, netVars
    <3>3. QED
      BY <3>1, <3>2 DEF Broken
  <2>3. CASE /\ Say(i) \/ Farewell(i)
             /\ \E k \in Others(sockIdx[i]) : SendFails(k)
    <3>1. PICK p \in Peers : conn[p] \in Broken
      BY <2>0, <2>3, BrokenPeer
    <3>2. ConnsHit
      BY <2>0, <2>3, SayEffect, FarewellEffect DEF Talks, Closes
    <3>3. conn'[p] = conn[p]
      BY <3>1, <3>2 DEF ConnsHit, Broken
    <3>4. QED
      BY <3>1, <3>3
  <2>4. QED
    BY <2>1, <2>2, <2>3
<1>3. QED
  BY <1>1, <1>2, Ended

------------------------------------------------------------------------------
(* The invariant holds *)

\* The invariant holds at first.
LEMMA Start == ASSUME Init PROVE IInv
<1>1. Shape
  <2>1. Blank \in Items \cup {Blank} /\ << >> \in Seq(Peers) /\ << >> \in Seq(Items)
    BY EmptySeq
  <2>2. Client \in [IDs -> Entries]
    BY <2>1 DEF Init, Entries
  <2>3. MaxTexts + 1 \in Nat /\ 0 <= MaxTexts + 1
    BY ChatAssumption
  <2>4. sock \in [Fds -> Peers \cup {Nobody}] /\ sockIdx \in [Fds -> IDs]
    BY Numbers DEF Init
  <2>5. inbox \in [Peers -> Seq(Items)] /\ backlog \in Seq(Peers)
    BY <2>1 DEF Init
  <2>6. conn \in [Peers -> Conns]
    BY DEF Init, Conns
  <2>7. sent \in [Peers -> 0 .. MaxTexts + 1] /\ cpy_reads = {}
    BY <2>3 DEF Init
  <2>8. QED
    BY <2>2, <2>4, <2>5, <2>6, <2>7 DEF Shape
<1>2. Present = {}
  BY ChatAssumption DEF Init, Present, Waits, Holds
<1>3. OnePlace
  BY <1>2 DEF Init, OnePlace
<1>4. NoCrowd
  BY <1>2, FS_EmptySet, ChatAssumption DEF NoCrowd
<1>5. Own
  BY DEF Init, Own, Watched
<1>6. NeverBlocks /\ DiesOnlyOfReset
  BY DEF Init, NeverBlocks, DiesOnlyOfReset
<1>7. QED
  BY <1>1, <1>3, <1>4, <1>5, <1>6 DEF IInv, LiveInv

\* Every step preserves the invariant, when there is an entry for everybody.
LEMMA Inductive == ASSUME IInv, [Next]_vars, Crowd <= MAX_CLIENT PROVE IInv'
<1>1. DiesOnlyOfReset'
  BY DiesStep DEF DiesOnlyOfReset
<1>2. ASSUME pc' \in Running PROVE LiveInv'
  <2>1. pc \in Running
    BY <1>2, Ended DEF vars
  <2>2. LiveInv
    BY <2>1 DEF IInv
  <2>3. QED
    BY <1>2, <2>1, <2>2, ShapeStep, PlaceStep, CrowdStep, OwnStep, ReadyStep
       DEF LiveInv
<1>3. QED
  BY <1>1, <1>2 DEF IInv

\* The invariant holds in every state the server reaches, for a crowd that
\* fits into the table Client.
THEOREM Invariance == ASSUME Crowd <= MAX_CLIENT PROVE Spec => []IInv
<1>1. Init => IInv
  BY Start
<1>2. IInv /\ [Next]_vars => IInv'
  BY Inductive
<1>3. QED
  BY <1>1, <1>2, PTL DEF Spec

\* With no more clients at a time than entries, the descriptors the server
\* watches and the entries of Client in use (GetID, ProcessClient,
\* CloseClient) belong to each other one to one, however clients come and go.
THEOREM EntrySafe == ASSUME Crowd <= MAX_CLIENT PROVE Spec => []OwnEntry
<1>1. IInv => OwnEntry
  BY DEF IInv, LiveInv, Own, OwnEntry
<1>2. QED
  BY <1>1, Invariance, PTL

\* What select found ready is ready when the scan reaches it: accept and recv
\* never stop the only thread of the server.
THEOREM ReadySafe == ASSUME Crowd <= MAX_CLIENT PROVE Spec => []NeverBlocks
<1>1. IInv => NeverBlocks
  BY DEF IInv, LiveInv, NeverBlocks, Running
<1>2. QED
  BY <1>1, Invariance, PTL

\* The server dies (Err of send or recv) only when some behind has left its
\* connection: not of a descriptor or an entry that is no longer in use.
THEOREM DeathSafe == ASSUME Crowd <= MAX_CLIENT PROVE Spec => []DiesOnlyOfReset
<1>1. IInv => DiesOnlyOfReset
  BY DEF IInv
<1>2. QED
  BY <1>1, Invariance, PTL

------------------------------------------------------------------------------
(* What is heard: the invariant *)

\* Everything a behind sends is its own, and what waits is in the order of sending.
InTurn == \A p \in Peers :
            /\ \A k \in DOMAIN inbox[p] : /\ inbox[p][k].from = p
                                          /\ inbox[p][k].nr < sent[p]
            /\ \A j, k \in DOMAIN inbox[p] : j < k => inbox[p][j].nr < inbox[p][k].nr

\* A behind that has not logged in: nothing of it has been read, its ID is first.
NoName(p) == \/ conn[p] = "out" \/ Waits(p)
             \/ \E f \in Fds : sock[f] = p /\ ~Client[sockIdx[f]].First
IdFirst == \A p \in Peers : NoName(p) =>
             /\ inbox[p] = << >> => sent[p] = 0
             /\ inbox[p] # << >> => inbox[p][1].nr = 0

\* A behind that has come and gone, and never comes again.
Departed(p) == conn[p] # "out" /\ p \notin Present

\* A behind that has left without a word is logged in with the name that the entry
\* had before, and says nothing.
Silent(p) == inbox[p] = << >> /\ conn[p] \in Left
OwnName == \A f \in Fds :
             sock[f] # Nobody /\ Client[sockIdx[f]].First
               => \/ Client[sockIdx[f]].uid = [from |-> sock[f], nr |-> 0]
                  \/ Silent(sock[f])

\* The name in an entry is that of its behind, or of one who has gone.
Names == \A id \in IDs :
           Client[id].uid # Blank =>
             LET p == Client[id].uid.from
             IN  \/ Departed(p)
                 \/ \E f \in Fds : /\ sock[f] = p /\ sockIdx[f] = id
                                   /\ Client[id].First

\* What was heard has the name of who said it, and comes before all that is still
\* unread; who was heard to log out has gone.
Deliveries == [uid : Items \cup {Blank}, msg : Items \cup {LogOut}]
Genuine(p, d) ==
    IF d.msg = LogOut
    THEN d.uid # Blank => Departed(d.uid.from)
    ELSE LET speaker == d.msg.from
         IN  /\ d.uid = [from |-> speaker, nr |-> 0]
             /\ speaker # p
             /\ \A k \in DOMAIN inbox[speaker] : d.msg.nr < inbox[speaker][k].nr
             /\ d.msg.nr < sent[speaker]
HeardWell == \A p \in Peers : \A k \in DOMAIN heard[p] : Genuine(p, heard[p][k])

HeardType == heard \in [Peers -> Seq(Deliveries)]

Voices == InTurn /\ IdFirst /\ OwnName /\ Names /\ HeardType /\ HeardWell

VInv == /\ IInv
        /\ pc \in Running => Voices
        /\ Faithful
------------------------------------------------------------------------------
(* What waits to be read *)

\* The types of what waits.
LEMMA Inboxes ==
    ASSUME Shape, NEW p \in Peers
    PROVE  /\ inbox[p] \in Seq(Items) /\ Len(inbox[p]) \in Nat
           /\ DOMAIN inbox[p] = 1 .. Len(inbox[p])
           /\ \A k \in DOMAIN inbox[p] : inbox[p][k] \in Items /\ inbox[p][k].nr \in Nat
           /\ inbox[p] # << >> => 1 \in DOMAIN inbox[p] /\ Head(inbox[p]) = inbox[p][1]
           /\ sent[p] \in Nat
<1>1. inbox[p] \in Seq(Items) /\ sent[p] \in 0 .. MaxTexts + 1
  BY DEF Shape
<1>2. Len(inbox[p]) \in Nat /\ DOMAIN inbox[p] = 1 .. Len(inbox[p])
  BY <1>1, LenProperties
<1>3. \A k \in DOMAIN inbox[p] : inbox[p][k] \in Items
  BY <1>1, <1>2, ElementOfSeq
<1>4. \A x \in Items : x.nr \in Nat
  BY ChatAssumption DEF Items
<1>5. ASSUME inbox[p] # << >>
      PROVE  1 \in DOMAIN inbox[p] /\ Head(inbox[p]) = inbox[p][1]
  <2>1. Len(inbox[p]) \in Nat \ {0}
    BY <1>1, <1>5, EmptySeq
  <2>2. QED
    BY <1>1, <1>2, <2>1
<1>6. sent[p] \in Nat
  BY <1>1, ChatAssumption
<1>7. QED
  BY <1>1, <1>2, <1>3, <1>4, <1>5, <1>6

\* What waits after a step did so before, or is the next item.
Ahead == \A p \in Peers :
           /\ sent[p] <= sent'[p] /\ sent'[p] \in Nat
           /\ \A k \in DOMAIN inbox'[p] :
                \/ \E m \in DOMAIN inbox[p] : inbox'[p][k] = inbox[p][m]
                \/ inbox'[p][k].nr = sent[p]

\* A step that neither sends nor reads.
LEMMA Unread == ASSUME Shape, UNCHANGED <<inbox, sent>>
                PROVE  Ahead /\ (InTurn => InTurn')
<1>1. \A p \in Peers : sent[p] \in Nat
  BY Inboxes
<1>2. QED
  BY <1>1 DEF Ahead, InTurn

\* A recv takes the first items, and leaves later ones.
LEMMA Taken ==
    ASSUME Shape, InTurn, NEW p \in Peers, Take(p), UNCHANGED sent
    PROVE  /\ InTurn' /\ Ahead /\ inbox[p] # << >>
           /\ \A k \in DOMAIN inbox'[p] : inbox[p][1].nr < inbox'[p][k].nr
<1>1. PICK n \in 1 .. Len(inbox[p]) :
        inbox' = [inbox EXCEPT ![p] = SubSeq(inbox[p], n + 1, Len(inbox[p]))]
  BY DEF Take
<1> DEFINE len == Len(inbox[p])
<1>2. /\ len \in Nat /\ n \in Nat /\ n >= 1 /\ n <= len
      /\ DOMAIN inbox[p] = 1..len /\ inbox[p] \in Seq(Items)
      /\ \A k \in 1..len : inbox[p][k] \in Items /\ inbox[p][k].nr \in Nat
  BY Inboxes
<1>3. /\ SubSeq(inbox[p], n + 1, len) \in Seq(Items)
      /\ Len(SubSeq(inbox[p], n + 1, len)) = len - n
      /\ \A k \in 1 .. len - n : SubSeq(inbox[p], n + 1, len)[k] = inbox[p][k + n]
  <2>1. n + 1 \in Int /\ len \in Int /\ \A k \in n + 1 .. len : inbox[p][k] \in Items
    BY <1>2
  <2>2. /\ SubSeq(inbox[p], n + 1, len) \in Seq(Items)
        /\ Len(SubSeq(inbox[p], n + 1, len)) =
             IF n + 1 <= len THEN len - (n + 1) + 1 ELSE 0
        /\ \A k \in 1 .. len - (n + 1) + 1 :
             SubSeq(inbox[p], n + 1, len)[k] = inbox[p][n + 1 + k - 1]
    BY <2>1, SubSeqProperties
  <2>3. \A k \in 1 .. len - n : n + 1 + k - 1 = k + n
    BY <1>2
  <2>4. QED
    BY <1>2, <2>2, <2>3
<1>4. /\ inbox'[p] = SubSeq(inbox[p], n + 1, len)
      /\ \A q \in Peers : q # p => inbox'[q] = inbox[q]
  BY <1>1 DEF Shape
<1>5. DOMAIN inbox'[p] = 1 .. len - n
  BY <1>2, <1>3, <1>4, LenProperties
<1>6. ASSUME NEW k \in DOMAIN inbox'[p]
      PROVE  /\ k + n \in DOMAIN inbox[p] /\ inbox'[p][k] = inbox[p][k + n]
             /\ k \in Nat /\ 1 < k + n
  BY <1>2, <1>3, <1>4, <1>5
<1> HIDE DEF len
<1>7. /\ \A k \in DOMAIN inbox[p] : /\ inbox[p][k].from = p
                                    /\ inbox[p][k].nr < sent[p]
      /\ \A j, k \in DOMAIN inbox[p] : j < k => inbox[p][j].nr < inbox[p][k].nr
  BY DEF InTurn
<1>8. 1 \in DOMAIN inbox[p] /\ inbox[p] # << >>
  BY <1>2
<1>9. \A k \in DOMAIN inbox'[p] : inbox[p][1].nr < inbox'[p][k].nr
  BY <1>6, <1>7, <1>8
<1>10. /\ \A k \in DOMAIN inbox'[p] : /\ inbox'[p][k].from = p
                                      /\ inbox'[p][k].nr < sent[p]
       /\ \A j, k \in DOMAIN inbox'[p] : j < k => inbox'[p][j].nr < inbox'[p][k].nr
  <2>1. \A j, k \in DOMAIN inbox'[p] : j < k => j + n < k + n
    BY <1>2, <1>6
  <2>2. QED
    BY <1>6, <1>7, <2>1
<1>11. InTurn'
  BY <1>4, <1>10, ZenonT(40) DEF InTurn
<1>12. \A q \in Peers : sent[q] \in Nat
  BY Inboxes
<1>13. Ahead
  <2>1. \A q \in Peers : \A k \in DOMAIN inbox'[q] :
          \E m \in DOMAIN inbox[q] : inbox'[q][k] = inbox[q][m]
    BY <1>4, <1>6
  <2>2. \A q \in Peers : sent[q] <= sent'[q] /\ sent'[q] \in Nat
    BY <1>12
  <2>3. QED
    BY <2>1, <2>2 DEF Ahead
<1>14. QED
  BY <1>8, <1>9, <1>11, <1>13

\* A behind sends the next item behind what waits.
LEMMA Sending ==
    ASSUME Shape, InTurn, NEW p \in Peers, Send(p)
    PROVE  /\ InTurn' /\ Ahead
           /\ inbox'[p] # << >>
           /\ inbox'[p][1].nr = IF inbox[p] = << >> THEN sent[p] ELSE inbox[p][1].nr
<1> DEFINE item == [from |-> p, nr |-> sent[p]]
           len == Len(inbox[p])
<1>1. /\ inbox[p] \in Seq(Items) /\ len \in Nat /\ DOMAIN inbox[p] = 1..len
      /\ \A q \in Peers : sent[q] \in Nat
      /\ \A k \in 1..len : inbox[p][k].nr \in Nat
  BY Inboxes
<1>2. item \in Items /\ item.from = p /\ item.nr = sent[p]
  BY <1>1, ChatAssumption DEF Send, Items, Shape
<1>3. /\ inbox'[p] = Append(inbox[p], item) /\ sent'[p] = sent[p] + 1
      /\ \A q \in Peers : q # p => inbox'[q] = inbox[q] /\ sent'[q] = sent[q]
  BY DEF Send, Shape
<1> HIDE DEF item
<1>4. /\ Append(inbox[p], item) \in Seq(Items) /\ Append(inbox[p], item) # << >>
      /\ Len(Append(inbox[p], item)) = len + 1
      /\ \A k \in 1..len : Append(inbox[p], item)[k] = inbox[p][k]
      /\ Append(inbox[p], item)[len + 1] = item
  BY <1>1, <1>2, AppendProperties
<1>5. /\ DOMAIN inbox'[p] = 1 .. len + 1
      /\ \A k \in 1..len : inbox'[p][k] = inbox[p][k]
      /\ inbox'[p][len + 1] = item /\ inbox'[p] # << >>
  BY <1>3, <1>4, LenProperties
<1> HIDE DEF len
<1>6. /\ \A k \in 1..len : inbox[p][k].from = p /\ inbox[p][k].nr < sent[p]
      /\ \A j, k \in 1..len : j < k => inbox[p][j].nr < inbox[p][k].nr
  BY <1>1 DEF InTurn
<1>7. /\ \A k \in DOMAIN inbox'[p] : /\ inbox'[p][k].from = p
                                     /\ inbox'[p][k].nr < sent'[p]
      /\ \A j, k \in DOMAIN inbox'[p] : j < k => inbox'[p][j].nr < inbox'[p][k].nr
  <2>1. \A k \in DOMAIN inbox'[p] : k \in 1..len \/ k = len + 1
    BY <1>1, <1>5
  <2>2. \A k \in DOMAIN inbox'[p] : /\ inbox'[p][k].from = p
                                    /\ inbox'[p][k].nr < sent'[p]
    BY <1>1, <1>2, <1>3, <1>5, <1>6, <2>1
  <2>3. ASSUME NEW j \in DOMAIN inbox'[p], NEW k \in DOMAIN inbox'[p], j < k
        PROVE  inbox'[p][j].nr < inbox'[p][k].nr
    <3>1. j \in 1..len
      BY <1>1, <1>5, <2>3
    <3>2. QED
      BY <1>2, <1>5, <1>6, <2>1, <2>3, <3>1
  <2>4. QED
    BY <2>2, <2>3
<1>8. InTurn'
  BY <1>3, <1>7, ZenonT(40) DEF InTurn
<1>9. Ahead
  <2>1. \A k \in DOMAIN inbox'[p] : \/ \E m \in DOMAIN inbox[p] : inbox'[p][k] = inbox[p][m]
                                    \/ inbox'[p][k].nr = sent[p]
    <3>1. \A k \in DOMAIN inbox'[p] : k \in 1..len \/ k = len + 1
      BY <1>1, <1>5
    <3>2. QED
      BY <1>1, <1>2, <1>5, <3>1
  <2>2. \A q \in Peers : sent[q] <= sent'[q] /\ sent'[q] \in Nat
    BY <1>1, <1>3
  <2>3. QED
    BY <1>3, <2>1, <2>2, ZenonT(40) DEF Ahead
<1>10. inbox'[p][1].nr = IF inbox[p] = << >> THEN sent[p] ELSE inbox[p][1].nr
  <2>1. inbox[p] = << >> => len = 0
    BY EmptySeq DEF len
  <2>2. inbox[p] # << >> => 1 \in 1..len
    BY <1>1, Inboxes
  <2>3. QED
    BY <1>2, <1>5, <2>1, <2>2
<1>11. QED
  BY <1>5, <1>8, <1>9, <1>10

------------------------------------------------------------------------------
(* Who has gone, and what was heard *)

\* Who has gone does not come back.
GoneStay == \A p \in Peers : Departed(p) => Departed(p)'

\* Who has gone stays gone, in every step of a server that goes on running.
LEMMA GoneStep == ASSUME LiveInv, [Next]_vars, pc \in Running, pc' \in Running,
                         Crowd <= MAX_CLIENT
                  PROVE  GoneStay /\ \A p \in Peers : conn'[p] = "out" => conn[p] = "out"
<1>1. conn \in [Peers -> Conns]
  BY DEF LiveInv, Shape
<1>2. \A p \in Peers : conn'[p] = "out" => conn[p] = "out"
  <2>1. ASSUME NEW q \in Peers, Acts(q)
        PROVE  \A p \in Peers : conn'[p] = "out" => conn[p] = "out"
    BY <1>1, <2>1 DEF Acts, Connect, Send, Leave, Reset
  <2>2. ASSUME NEW i \in Fds, Talks(i) \/ Closes(i)
        PROVE  \A p \in Peers : conn'[p] = "out" => conn[p] = "out"
    BY <2>2 DEF Talks, Closes, ConnsHit
  <2>3. QED
    BY <2>1, <2>2, Cases DEF Select, Enters, vars, netVars
<1>3. CASE Present' \subseteq Present
  BY <1>2, <1>3 DEF GoneStay, Departed
<1>4. ASSUME NEW p \in Peers, Connect(p), Present' \subseteq Present \cup {p}
      PROVE  GoneStay
  <2>1. conn[p] = "out"
    BY <1>4 DEF Connect
  <2>2. QED
    BY <1>2, <1>4, <2>1 DEF GoneStay, Departed
<1>5. QED
  BY <1>2, <1>3, <1>4, PlaceStep

\* What was heard well stays so.
LEMMA GenuineKept ==
    ASSUME Shape, Ahead, GoneStay, NEW p \in Peers, NEW d \in Deliveries
    PROVE  Genuine(p, d) => Genuine(p, d)'
<1>0. LogOut \notin Items
  BY ChatAssumption DEF LogOut, Items
<1>1. ASSUME d.msg = LogOut, d.uid # Blank => Departed(d.uid.from)
      PROVE  d.uid # Blank => Departed(d.uid.from)'
  <2>1. d.uid # Blank => d.uid.from \in Peers
    BY DEF Deliveries, Items
  <2>2. QED
    BY <1>1, <2>1 DEF GoneStay
<1>2. ASSUME d.msg # LogOut, Genuine(p, d)
      PROVE  /\ \A k \in DOMAIN inbox'[d.msg.from] :
                  d.msg.nr < inbox'[d.msg.from][k].nr
             /\ d.msg.nr < sent'[d.msg.from]
  <2>1. d.msg \in Items /\ d.msg.from \in Peers /\ d.msg.nr \in Nat
    BY <1>2, ChatAssumption DEF Deliveries, Items
  <2>2. /\ \A k \in DOMAIN inbox[d.msg.from] : d.msg.nr < inbox[d.msg.from][k].nr
        /\ d.msg.nr < sent[d.msg.from]
    BY <1>2 DEF Genuine
  <2>3. sent[d.msg.from] \in Nat
    BY <2>1, Inboxes
  <2>4. QED
    BY <2>1, <2>2, <2>3 DEF Ahead
<1>3. CASE d.msg = LogOut
  BY <1>1, <1>3 DEF Genuine
<1>4. CASE d.msg # LogOut
  BY <1>2, <1>4 DEF Genuine
<1>5. QED
  BY <1>3, <1>4

\* Who hears something hears d, which s says.
Hears(s, d) == /\ heard' \in [Peers -> Seq(Deliveries)]
               /\ \A p \in Peers : \/ heard'[p] = heard[p]
                                   \/ p # s /\ heard'[p] = Append(heard[p], d)

\* What SendToOtherClients delivers, and to others than the client it is from.
LEMMA HearEffect ==
    ASSUME LiveInv, HeardType, NEW i \in Fds, At(i),
           NEW msg \in Items \cup {LogOut}, SendToOtherClients(sockIdx[i], msg)
    PROVE  Hears(sock[i], [uid |-> Client[sockIdx[i]].uid, msg |-> msg])
<1> DEFINE id == sockIdx[i]
           d == [uid |-> Client[id].uid, msg |-> msg]
           served == {k \in Others(id) :
                        \A j \in Others(id) : SendFails(j) => k < j}
           served_peers == {sock[Client[k].sockfd] : k \in served}
           hear == [p \in Peers |-> IF p \in served_peers /\ conn[p] = "open"
                                    THEN Append(heard[p], d) ELSE heard[p]]
<1>1. heard' = hear
  BY DEF SendToOtherClients
<1>2. d \in Deliveries
  BY AtClient DEF LiveInv, Shape, Entries, Deliveries
<1>3. sock[i] \notin served_peers
  <2> SUFFICES ASSUME NEW k \in Others(id), sock[Client[k].sockfd] = sock[i]
               PROVE  FALSE
    OBVIOUS
  <2>1. k \in IDs /\ Client[k].inUse /\ k # id
    BY DEF Others
  <2>2. PICK g \in Watched : sockIdx[g] = k
    BY <2>1 DEF LiveInv, Own
  <2>3. Client[k].sockfd = g /\ g \in Fds /\ sock[g] # Nobody
    BY <2>2 DEF LiveInv, Own
  <2>4. g = i
    BY <2>3 DEF LiveInv, OnePlace
  <2>5. QED
    BY <2>1, <2>2, <2>4
<1>4. \A p \in Peers : heard[p] \in Seq(Deliveries)
  BY DEF HeardType
<1>5. \A p \in Peers : Append(heard[p], d) \in Seq(Deliveries)
  <2> HIDE DEF d
  <2>1. QED
    BY <1>2, <1>4, AppendProperties
<1> HIDE DEF served_peers, d
<1>6. hear \in [Peers -> Seq(Deliveries)]
  BY <1>4, <1>5
<1>7. \A p \in Peers : \/ heard'[p] = heard[p]
                       \/ p # sock[i] /\ heard'[p] = Append(heard[p], d)
  BY <1>1, <1>3
<1>8. QED
  BY <1>1, <1>6, <1>7 DEF Hears, d

\* The elements of what was heard.
LEMMA HeardOnes ==
    ASSUME HeardType, NEW s, NEW d \in Deliveries, Hears(s, d), NEW p \in Peers,
           NEW k \in DOMAIN heard'[p]
    PROVE  /\ heard'[p][k] \in Deliveries
           /\ \/ k \in DOMAIN heard[p] /\ heard'[p][k] = heard[p][k]
              \/ /\ p # s /\ heard'[p][k] = d /\ k \in Nat
                 /\ \A j \in 1 .. k - 1 : j \in DOMAIN heard[p] /\ heard'[p][j] = heard[p][j]
<1>1. heard[p] \in Seq(Deliveries) /\ heard'[p] \in Seq(Deliveries)
  BY DEF HeardType, Hears
<1>2. /\ Len(heard[p]) \in Nat /\ DOMAIN heard[p] = 1 .. Len(heard[p])
      /\ Len(heard'[p]) \in Nat /\ DOMAIN heard'[p] = 1 .. Len(heard'[p])
  BY <1>1, LenProperties
<1>3. heard'[p][k] \in Deliveries
  BY <1>1, <1>2, ElementOfSeq
<1>4. CASE heard'[p] = heard[p]
  BY <1>3, <1>4
<1>5. CASE p # s /\ heard'[p] = Append(heard[p], d)
  <2>1. /\ Len(Append(heard[p], d)) = Len(heard[p]) + 1
        /\ \A j \in 1 .. Len(heard[p]) : Append(heard[p], d)[j] = heard[p][j]
        /\ Append(heard[p], d)[Len(heard[p]) + 1] = d
    BY <1>1, AppendProperties
  <2>2. k \in 1 .. Len(heard[p]) \/ k = Len(heard[p]) + 1
    BY <1>2, <1>5, <2>1
  <2>3. QED
    BY <1>2, <1>3, <1>5, <2>1, <2>2
<1>6. QED
  BY <1>4, <1>5 DEF Hears

\* Everything stays well heard if what is new is.
LEMMA HeardStep ==
    ASSUME Shape, HeardType, HeardWell, Ahead, GoneStay,
           NEW s, NEW d \in Deliveries, Hears(s, d),
           \A p \in Peers : p # s => Genuine(p, d)'
    PROVE  HeardType' /\ HeardWell'
<1>1. HeardType'
  BY DEF HeardType, Hears
<1>2. ASSUME NEW p \in Peers, NEW k \in DOMAIN heard'[p]
      PROVE  Genuine(p, heard[p][k])'
  <2>1. CASE p # s /\ heard'[p][k] = d
    BY <2>1 DEF Genuine
  <2>2. CASE k \in DOMAIN heard[p] /\ heard'[p][k] = heard[p][k]
    <3>1. Genuine(p, heard[p][k]) /\ heard[p][k] \in Deliveries
      BY <2>2, HeardOnes DEF HeardWell
    <3>2. PICK e \in Deliveries : e = heard[p][k]
      BY <3>1
    <3>3. Genuine(p, e)
      BY <3>1, <3>2
    <3>4. Genuine(p, e)'
      BY <3>3, GenuineKept
    <3>5. QED
      BY <2>2, <3>2, <3>4 DEF Genuine
  <2>3. QED
    BY <2>1, <2>2, HeardOnes
<1>3. QED
  BY <1>1, <1>2 DEF HeardWell

\* What s says comes after all that was heard of s, and s is still there.
LEMMA FaithStep ==
    ASSUME Shape, HeardType, HeardWell, Faithful,
           NEW s \in Peers, NEW d \in Deliveries, Hears(s, d),
           d.msg # LogOut => /\ d.uid = [from |-> s, nr |-> 0] /\ d.msg.from = s
                             /\ s \in Present /\ inbox[s] # << >>
                             /\ d.msg = inbox[s][1]
    PROVE  Faithful'
<1> SUFFICES ASSUME NEW p \in Peers, NEW k \in DOMAIN heard'[p],
                    heard'[p][k].msg # LogOut
             PROVE  LET speaker == heard'[p][k].msg.from
                    IN  /\ heard'[p][k].uid = [from |-> speaker, nr |-> 0]
                        /\ speaker # p
                        /\ \A j \in 1 .. k - 1 :
                             heard'[p][j].uid.from = speaker =>
                               /\ heard'[p][j].msg # LogOut
                               /\ heard'[p][j].msg.nr < heard'[p][k].msg.nr
  BY DEF Faithful
<1>0. /\ heard[p] \in Seq(Deliveries) /\ heard'[p] \in Seq(Deliveries)
      /\ Len(heard[p]) \in Nat /\ DOMAIN heard[p] = 1 .. Len(heard[p])
      /\ Len(heard'[p]) \in Nat /\ DOMAIN heard'[p] = 1 .. Len(heard'[p])
  BY LenProperties DEF HeardType, Hears
<1>1. CASE k \in DOMAIN heard[p] /\ heard'[p][k] = heard[p][k]
  <2>1. \A j \in 1 .. k - 1 : heard'[p][j] = heard[p][j]
    <3> SUFFICES ASSUME NEW j \in 1 .. k - 1 PROVE heard'[p][j] = heard[p][j]
      OBVIOUS
    <3>1. CASE heard'[p] = heard[p]
      BY <3>1
    <3>2. CASE heard'[p] = Append(heard[p], d)
      <4>1. j \in 1 .. Len(heard[p])
        BY <1>0, <1>1
      <4>2. QED
        BY <1>0, <3>2, <4>1, AppendProperties
    <3>3. QED
      BY <3>1, <3>2 DEF Hears
  <2>2. QED
    BY <1>1, <2>1 DEF Faithful
<1>2. CASE /\ p # s /\ heard'[p][k] = d
           /\ \A j \in 1 .. k - 1 : j \in DOMAIN heard[p] /\ heard'[p][j] = heard[p][j]
  <2>1. /\ d.uid = [from |-> s, nr |-> 0] /\ d.msg.from = s
        /\ s \in Present /\ d.msg = inbox[s][1] /\ 1 \in DOMAIN inbox[s]
    BY <1>2, Inboxes
  <2>2. ASSUME NEW j \in DOMAIN heard[p], heard[p][j].uid.from = s
        PROVE  heard[p][j].msg # LogOut /\ heard[p][j].msg.nr < d.msg.nr
    <3>1. Genuine(p, heard[p][j])
      BY DEF HeardWell
    <3>2. heard[p][j].uid # Blank
      BY <2>2, ChatAssumption DEF Blank
    <3>3. heard[p][j].msg # LogOut
      BY <2>1, <2>2, <3>1, <3>2 DEF Genuine, Departed
    <3>4. heard[p][j].msg.from = s
      BY <2>2, <3>1, <3>3 DEF Genuine
    <3>5. QED
      BY <2>1, <3>1, <3>3, <3>4 DEF Genuine
  <2>3. QED
    BY <1>2, <2>1, <2>2
<1>3. QED
  BY <1>1, <1>2, HeardOnes

------------------------------------------------------------------------------
(* Every step keeps what was said and heard in order *)

\* The kinds of step of a server that goes on running, with what is heard.
LEMMA TalkCases ==
    ASSUME LiveInv, [Next]_vars, pc \in Running, pc' \in Running,
           Crowd <= MAX_CLIENT
    PROVE  \/ UNCHANGED <<netVars, sockIdx, Client>>
           \/ \E f \in Fds, id \in IDs : Enters(f, id) /\ UNCHANGED heard
           \/ \E p \in Peers : Acts(p)
           \/ \E i \in Fds : At(i) /\ Talks(i) /\ (LogIn(i) \/ Say(i))
           \/ \E i \in Fds : At(i) /\ Closes(i) /\ Farewell(i)
<1>1. CASE Accept
  <2>1. UNCHANGED heard
    BY <1>1 DEF Accept, NewSocket
  <2>2. QED
    BY <1>1, <2>1, AcceptEffect
<1>2. ASSUME NEW i \in Fds, LogIn(i) \/ Say(i)
      PROVE  At(i) /\ Talks(i)
  BY <1>2, LogInEffect, SayEffect DEF LogIn, Say
<1>3. ASSUME NEW i \in Fds, Farewell(i)
      PROVE  At(i) /\ Closes(i)
  BY <1>3, FarewellEffect DEF Farewell
<1>4. ASSUME NEW i \in Fds, RecvFails(i) PROVE FALSE
  BY <1>4 DEF RecvFails, Dies, Running
<1>5. CASE Network
  BY <1>5 DEF Network, Acts
<1>6. CASE CloseServer \/ Select \/ UNCHANGED vars
  BY <1>6 DEF CloseServer, Select, vars, netVars
<1>7. QED
  BY <1>1, <1>2, <1>3, <1>4, <1>5, <1>6 DEF Next, Server, Idle

\* Where the behind behind descriptor i is: nowhere else, and it has connected.
LEMMA OnlyHere ==
    ASSUME LiveInv, NEW i \in Fds, sock[i] # Nobody
    PROVE  /\ sock[i] \in Peers /\ conn[sock[i]] # "out" /\ ~Waits(sock[i])
           /\ sock[i] \in Present /\ sockIdx[i] \in IDs
           /\ Client[sockIdx[i]].inUse
           /\ \A g \in Fds : sock[g] = sock[i] => g = i
           /\ \A g \in Fds : g # i /\ sock[g] # Nobody => sockIdx[g] # sockIdx[i]
<1>1. sock[i] \in Peers /\ sockIdx[i] \in IDs
  BY DEF LiveInv, Shape
<1>2. sock[i] \in Present /\ ~Waits(sock[i])
  BY <1>1 DEF Present, Holds, LiveInv, OnePlace, Waits
<1>3. conn[sock[i]] # "out"
  BY <1>1, <1>2 DEF LiveInv, OnePlace
<1>4. \A g \in Fds : sock[g] # Nobody =>
        Client[sockIdx[g]].inUse /\ Client[sockIdx[g]].sockfd = g
  BY DEF LiveInv, Own
<1>5. QED
  BY <1>1, <1>2, <1>3, <1>4 DEF LiveInv, OnePlace

\* What a new connection changes.
LEMMA Entered ==
    ASSUME LiveInv, NEW f \in Fds, NEW id \in IDs, Enters(f, id)
    PROVE  /\ \A g \in Fds : g # f => sock'[g] = sock[g] /\ sockIdx'[g] = sockIdx[g]
           /\ \A g \in Fds : sock[g] # Nobody => g # f /\ sockIdx[g] # id
           /\ sock'[f] = backlog[1] /\ sockIdx'[f] = id
           /\ backlog[1] \in Peers /\ Waits(backlog[1])
           /\ ~Client'[id].First /\ Client'[id].uid = Client[id].uid
           /\ \A k \in IDs : k # id => Client'[k] = Client[k]
           /\ \A q \in Peers : Waits(q)' => Waits(q)
           /\ UNCHANGED <<conn, inbox, sent>>
<1>0. backlog \in Seq(Peers) /\ backlog # << >>
  BY DEF LiveInv, Shape, Enters
<1>1. /\ 1 \in DOMAIN backlog /\ Head(backlog) = backlog[1] /\ backlog[1] \in Peers
      /\ \A k \in DOMAIN Tail(backlog) : /\ Tail(backlog)[k] = backlog[k + 1]
                                         /\ k + 1 \in DOMAIN backlog
  <2>1. /\ Len(backlog) \in Nat \ {0} /\ DOMAIN backlog = 1 .. Len(backlog)
    BY <1>0, EmptySeq, LenProperties
  <2>2. /\ Tail(backlog) \in Seq(Peers) /\ Len(Tail(backlog)) = Len(backlog) - 1
        /\ \A k \in 1 .. Len(Tail(backlog)) : Tail(backlog)[k] = backlog[k + 1]
    BY <1>0, HeadTailProperties
  <2>3. DOMAIN Tail(backlog) = 1 .. Len(backlog) - 1
    BY <2>2, LenProperties
  <2>4. QED
    BY <1>0, <2>1, <2>2, <2>3, HeadTailProperties
<1>2. \A g \in Fds : sock[g] # Nobody => g # f /\ sockIdx[g] # id
  BY OnlyHere DEF Enters
<1>3. \A q \in Peers : Waits(q)' => Waits(q)
  BY <1>1 DEF Waits, Enters
<1>4. /\ \A g \in Fds : g # f => sock'[g] = sock[g] /\ sockIdx'[g] = sockIdx[g]
      /\ sock'[f] = Head(backlog) /\ sockIdx'[f] = id
      /\ ~Client'[id].First /\ Client'[id].uid = Client[id].uid
      /\ \A k \in IDs : k # id => Client'[k] = Client[k]
      /\ UNCHANGED <<conn, inbox, sent>>
  BY DEF Enters, LiveInv, Shape, Entries
<1>5. QED
  BY <1>1, <1>2, <1>3, <1>4 DEF Waits

\* What a login and a text change of the entries.
LEMMA Talked ==
    ASSUME LiveInv, NEW i \in Fds, At(i), LogIn(i) \/ Say(i)
    PROVE  /\ \A k \in IDs : k # sockIdx[i] => Client'[k] = Client[k]
           /\ Client'[sockIdx[i]].First
           /\ \/ Say(i) /\ Take(sock[i]) /\ Client' = Client /\ Client[sockIdx[i]].First
              \/ /\ LogIn(i) /\ Take(sock[i]) /\ ~Client[sockIdx[i]].First
                 /\ Client'[sockIdx[i]].uid = Head(inbox[sock[i]])
                 /\ UNCHANGED <<conn, heard>>
              \/ /\ LogIn(i) /\ Silent(sock[i]) /\ ~Client[sockIdx[i]].First
                 /\ Client'[sockIdx[i]].uid = Client[sockIdx[i]].uid
                 /\ UNCHANGED <<conn, heard, inbox>>
<1>1. Client[sockIdx[i]].sockfd = i /\ sockIdx[i] \in IDs
  BY AtClient
<1>2. Client \in [IDs -> Entries] /\ Client[sockIdx[i]] \in Entries
  BY <1>1 DEF LiveInv, Shape
<1>3. CASE Say(i)
  BY <1>1, <1>3 DEF Say
<1>4. CASE LogIn(i)
  <2>1. CASE /\ Take(sock[i])
             /\ Client' = [Client EXCEPT ![sockIdx[i]].First = TRUE,
                                         ![sockIdx[i]].uid = Head(inbox[sock[i]])]
    BY <1>1, <1>2, <1>4, <2>1 DEF LogIn, Entries
  <2>2. CASE /\ inbox[sock[i]] = << >> /\ conn[sock[i]] \in Left \ {"aborted"}
             /\ Client' = [Client EXCEPT ![sockIdx[i]].First = TRUE]
             /\ UNCHANGED inbox
    BY <1>1, <1>2, <1>4, <2>2 DEF LogIn, Entries, Silent
  <2>3. QED
    BY <1>1, <1>4, <2>1, <2>2 DEF LogIn
<1>5. QED
  BY <1>3, <1>4

\* What a log-out changes.
LEMMA Closed ==
    ASSUME LiveInv, NEW i \in Fds, At(i), Closes(i)
    PROVE  /\ \A g \in Fds : sock'[g] = IF g = i THEN Nobody ELSE sock[g]
           /\ sockIdx' = sockIdx
           /\ \A k \in IDs : /\ Client'[k].uid = Client[k].uid
                             /\ Client'[k].First = Client[k].First
           /\ \A g \in Fds : sockIdx[g] \in IDs
<1>1. sockIdx[i] \in IDs /\ \A g \in Fds : sockIdx[g] \in IDs
  BY DEF LiveInv, Shape
<1>2. QED
  BY <1>1 DEF Closes, LiveInv, Shape, Entries

\* What waits stays in turn.
LEMMA TurnStep ==
    ASSUME LiveInv, InTurn, [Next]_vars, pc \in Running, pc' \in Running,
           Crowd <= MAX_CLIENT
    PROVE  InTurn' /\ Ahead
<1>0. Shape
  BY DEF LiveInv
<1>1. CASE UNCHANGED <<inbox, sent>>
  BY <1>0, <1>1, Unread
<1>2. ASSUME NEW p \in Peers, Acts(p) PROVE InTurn' /\ Ahead
  BY <1>0, <1>1, <1>2, Sending DEF Acts, Connect, Leave, Reset
<1>3. ASSUME NEW i \in Fds, At(i), Talks(i), LogIn(i) \/ Say(i)
      PROVE  InTurn' /\ Ahead
  <2>1. sock[i] \in Peers /\ UNCHANGED sent
    BY <1>3, AtClient DEF Talks
  <2>2. QED
    BY <1>0, <1>1, <1>3, <2>1, Talked, Taken
<1>4. QED
  BY <1>1, <1>2, <1>3, TalkCases DEF Enters, Closes, netVars

\* Who has not logged in has not been read from.
LEMMA NoNameStep ==
    ASSUME LiveInv, [Next]_vars, pc \in Running, pc' \in Running,
           Crowd <= MAX_CLIENT, NEW q \in Peers, NoName(q)'
    PROVE  /\ NoName(q)
           /\ Send(q) \/ UNCHANGED <<inbox[q], sent[q]>>
<1>0. /\ conn'[q] = "out" => conn[q] = "out"
      /\ Nobody \notin Peers
  BY GoneStep, ChatAssumption
<1>1. CASE UNCHANGED <<netVars, sockIdx, Client>>
  BY <1>1 DEF netVars, NoName, Waits
<1>2. ASSUME NEW f \in Fds, NEW id \in IDs, Enters(f, id)
      PROVE  NoName(q) /\ UNCHANGED <<inbox[q], sent[q]>>
  <2>1. ASSUME NEW g \in Fds, sock'[g] = q, ~Client'[sockIdx'[g]].First
        PROVE  NoName(q)
    <3>1. CASE g = f
      BY <1>2, <2>1, <3>1, Entered DEF NoName
    <3>2. CASE g # f
      <4>1. sock[g] = q /\ sockIdx'[g] = sockIdx[g] /\ sockIdx[g] # id /\ sockIdx[g] \in IDs
        BY <1>0, <1>2, <2>1, <3>2, Entered, OnlyHere
      <4>2. QED
        BY <1>2, <2>1, <4>1, Entered DEF NoName
    <3>3. QED
      BY <3>1, <3>2
  <2>2. QED
    BY <1>0, <1>2, <2>1, Entered DEF NoName
<1>3. ASSUME NEW p \in Peers, Acts(p)
      PROVE  NoName(q) /\ (Send(q) \/ UNCHANGED <<inbox[q], sent[q]>>)
  <2>1. UNCHANGED <<sock, sockIdx, Client>>
    BY <1>3 DEF Acts, Connect, Send, Leave, Reset
  <2>2. Waits(q)' => Waits(q) \/ conn[q] = "out"
    <3>1. CASE UNCHANGED backlog
      BY <3>1 DEF Waits
    <3>2. CASE Connect(p)
      <4>1. backlog \in Seq(Peers) /\ backlog' = Append(backlog, p) /\ conn[p] = "out"
        BY <3>2 DEF LiveInv, Shape, Connect
      <4>2. /\ Len(backlog) \in Nat /\ DOMAIN backlog' = 1 .. Len(backlog) + 1
            /\ DOMAIN backlog = 1 .. Len(backlog)
            /\ backlog'[Len(backlog) + 1] = p
            /\ \A k \in DOMAIN backlog : backlog'[k] = backlog[k]
        BY <4>1, AppendProperties, LenProperties
      <4>3. \A k \in DOMAIN backlog' : k \in DOMAIN backlog \/ k = Len(backlog) + 1
        BY <4>2
      <4>4. QED
        BY <4>1, <4>2, <4>3 DEF Waits
    <3>3. QED
      BY <1>3, <3>1, <3>2 DEF Acts, Send, Leave, Reset
  <2>3. NoName(q)
    BY <1>0, <2>1, <2>2 DEF NoName
  <2>4. Send(q) \/ UNCHANGED <<inbox[q], sent[q]>>
    BY <1>3 DEF Acts, Connect, Send, Leave, Reset, LiveInv, Shape
  <2>5. QED
    BY <2>3, <2>4
<1>4. ASSUME NEW i \in Fds, At(i), Talks(i), LogIn(i) \/ Say(i)
      PROVE  NoName(q) /\ UNCHANGED <<inbox[q], sent[q]>>
  <2>0. sock[i] # Nobody /\ sock[i] \in Peers
    BY <1>0, <1>4, AtClient
  <2>1. q # sock[i]
    BY <1>0, <1>4, <2>0, OnlyHere, Talked DEF NoName, Talks, Waits
  <2>2. ASSUME NEW g \in Fds, sock[g] = q
        PROVE  Client'[sockIdx'[g]] = Client[sockIdx[g]]
    BY <1>0, <1>4, <2>0, <2>1, <2>2, OnlyHere, Talked DEF Talks
  <2>3. NoName(q)
    BY <1>0, <1>4, <2>2 DEF NoName, Talks, Waits
  <2>4. QED
    BY <1>4, <2>1, <2>3 DEF Talks
<1>5. ASSUME NEW i \in Fds, At(i), Closes(i)
      PROVE  NoName(q) /\ UNCHANGED <<inbox[q], sent[q]>>
  <2>1. NoName(q)
    BY <1>0, <1>5, Closed DEF NoName, Closes, Waits
  <2>2. QED
    BY <1>5, <2>1 DEF Closes
<1>6. QED
  BY <1>1, <1>2, <1>3, <1>4, <1>5, TalkCases DEF netVars

\* The first thing that is read of a behind is its ID.
LEMMA IdStep ==
    ASSUME LiveInv, InTurn, IdFirst, [Next]_vars, pc \in Running, pc' \in Running,
           Crowd <= MAX_CLIENT
    PROVE  IdFirst'
<1> SUFFICES ASSUME NEW q \in Peers, NoName(q)'
             PROVE  /\ inbox'[q] = << >> => sent'[q] = 0
                    /\ inbox'[q] # << >> => inbox'[q][1].nr = 0
  BY DEF IdFirst
<1>1. NoName(q)
  BY NoNameStep
<1>2. CASE UNCHANGED <<inbox[q], sent[q]>>
  BY <1>1, <1>2 DEF IdFirst
<1>3. CASE Send(q)
  BY <1>1, <1>3, Sending DEF IdFirst, LiveInv
<1>4. QED
  BY <1>2, <1>3, NoNameStep

\* A behind that has left without a word stays silent.
LEMMA SilentKept ==
    ASSUME LiveInv, [Next]_vars, pc \in Running, pc' \in Running,
           Crowd <= MAX_CLIENT, NEW p \in Peers, Silent(p)
    PROVE  Silent(p)'
<1>0. inbox[p] = << >> /\ conn[p] \in Left /\ conn[p] # "open" /\ conn[p] # "out"
  BY DEF Silent, Left
<1>1. CASE UNCHANGED <<inbox, conn>>
  BY <1>1 DEF Silent
<1>2. ASSUME NEW q \in Peers, Acts(q) PROVE Silent(p)'
  BY <1>0, <1>2 DEF Acts, Connect, Send, Leave, Reset, Silent, LiveInv, Shape, Left
<1>3. ConnsHit => conn'[p] \in Left
  BY <1>0 DEF ConnsHit, Left
<1>4. ASSUME NEW i \in Fds, At(i), Talks(i), LogIn(i) \/ Say(i) PROVE Silent(p)'
  <2>1. sock[i] \in Peers
    BY <1>4, AtClient
  <2>2. Take(sock[i]) => p # sock[i]
    BY <1>0, TakeEffect DEF LiveInv
  <2>3. inbox'[p] = inbox[p]
    BY <1>4, <2>1, <2>2, Talked DEF Talks
  <2>4. QED
    BY <1>0, <1>3, <1>4, <2>3 DEF Silent, Talks
<1>5. ASSUME NEW i \in Fds, Closes(i) PROVE Silent(p)'
  BY <1>0, <1>3, <1>5 DEF Silent, Closes
<1>6. QED
  BY <1>1, <1>2, <1>4, <1>5, TalkCases DEF Enters, netVars

\* Who logs in with a word logs in with its own ID.
LEMMA LogInName ==
    ASSUME LiveInv, InTurn, IdFirst, NEW i \in Fds, sock[i] # Nobody,
           ~Client[sockIdx[i]].First, inbox[sock[i]] # << >>
    PROVE  Head(inbox[sock[i]]) = [from |-> sock[i], nr |-> 0]
<1> DEFINE p == sock[i]
<1>1. p \in Peers
  BY OnlyHere
<1>2. NoName(p)
  BY DEF NoName
<1>3. 1 \in DOMAIN inbox[p] /\ Head(inbox[p]) = inbox[p][1] /\ inbox[p][1] \in Items
  BY <1>1, Inboxes DEF LiveInv
<1>4. inbox[p][1].nr = 0 /\ inbox[p][1].from = p
  BY <1>1, <1>2, <1>3 DEF IdFirst, InTurn
<1>5. QED
  BY <1>3, <1>4 DEF Items

\* Every step keeps the names right.
LEMMA OwnNameStep ==
    ASSUME LiveInv, InTurn, IdFirst, OwnName, [Next]_vars,
           pc \in Running, pc' \in Running, Crowd <= MAX_CLIENT
    PROVE  OwnName'
<1>0. Shape /\ Nobody \notin Peers
  BY ChatAssumption DEF LiveInv
\* An entry that keeps its behind and its name.
<1>1. ASSUME NEW g \in Fds, sock'[g] # Nobody, sock'[g] = sock[g],
             Client[sockIdx[g]].First,
             Client'[sockIdx'[g]].uid = Client[sockIdx[g]].uid
      PROVE  \/ Client'[sockIdx'[g]].uid = [from |-> sock'[g], nr |-> 0]
             \/ Silent(sock[g])'
  <2>1. CASE Client[sockIdx[g]].uid = [from |-> sock[g], nr |-> 0]
    BY <1>1, <2>1
  <2>2. CASE Silent(sock[g])
    <3>1. PICK p \in Peers : p = sock[g]
      BY <1>0, <1>1 DEF Shape
    <3>2. Silent(p)'
      BY <2>2, <3>1, SilentKept
    <3>3. QED
      BY <1>1, <3>1, <3>2 DEF Silent
  <2>3. QED
    BY <1>1, <2>1, <2>2 DEF OwnName
<1>2. CASE UNCHANGED <<sock, sockIdx, Client>>
  BY <1>1, <1>2 DEF OwnName
<1>3. ASSUME NEW f \in Fds, NEW id \in IDs, Enters(f, id) PROVE OwnName'
  <2> SUFFICES ASSUME NEW g \in Fds, sock'[g] # Nobody, Client'[sockIdx'[g]].First
               PROVE  \/ Client'[sockIdx'[g]].uid = [from |-> sock'[g], nr |-> 0]
                      \/ Silent(sock[g])'
    BY DEF OwnName
  <2>1. g # f /\ sock'[g] = sock[g] /\ sockIdx'[g] = sockIdx[g]
    BY <1>3, Entered
  <2>2. Client'[sockIdx[g]] = Client[sockIdx[g]]
    BY <1>0, <1>3, <2>1, Entered DEF Shape
  <2>3. QED
    BY <1>1, <2>1, <2>2
<1>4. ASSUME NEW i \in Fds, At(i), Talks(i), LogIn(i) \/ Say(i) PROVE OwnName'
  <2>0. sock[i] \in Peers /\ sock' = sock /\ sockIdx' = sockIdx /\ sock[i] # Nobody
    BY <1>0, <1>4, AtClient DEF Talks
  <2> SUFFICES ASSUME NEW g \in Fds, sock'[g] # Nobody, Client'[sockIdx'[g]].First
               PROVE  \/ Client'[sockIdx'[g]].uid = [from |-> sock'[g], nr |-> 0]
                      \/ Silent(sock[g])'
    BY DEF OwnName
  <2>1. CASE Client'[sockIdx[g]] = Client[sockIdx[g]]
    BY <1>1, <2>0, <2>1
  <2>2. CASE g = i
    <3>1. CASE Take(sock[i]) /\ LogIn(i)
      <4>1. inbox[sock[i]] # << >> /\ ~Client[sockIdx[i]].First
        BY <1>0, <1>4, <2>0, <3>1, TakeEffect, Talked DEF LogIn, Say
      <4>2. Head(inbox[sock[i]]) = [from |-> sock[i], nr |-> 0]
        BY <2>0, <4>1, LogInName
      <4>3. Client'[sockIdx[i]].uid = Head(inbox[sock[i]])
        BY <1>4, <4>1, Talked DEF Silent
      <4>4. QED
        BY <2>0, <2>2, <4>2, <4>3
    <3>2. CASE Silent(sock[i])
      <4>1. PICK p \in Peers : p = sock[i]
        BY <2>0
      <4>2. Silent(p)'
        BY <3>2, <4>1, SilentKept
      <4>3. QED
        BY <2>0, <2>2, <4>1, <4>2 DEF Silent
    <3>3. QED
      BY <1>4, <2>1, <2>2, <3>1, <3>2, Talked
  <2>3. CASE g # i
    BY <1>0, <1>4, <2>0, <2>1, <2>3, OnlyHere, Talked
  <2>4. QED
    BY <2>2, <2>3
<1>5. ASSUME NEW i \in Fds, At(i), Closes(i) PROVE OwnName'
  <2> SUFFICES ASSUME NEW g \in Fds, sock'[g] # Nobody, Client'[sockIdx'[g]].First
               PROVE  \/ Client'[sockIdx'[g]].uid = [from |-> sock'[g], nr |-> 0]
                      \/ Silent(sock[g])'
    BY DEF OwnName
  <2>1. QED
    BY <1>1, <1>5, Closed
<1>6. QED
  BY <1>2, <1>3, <1>4, <1>5, TalkCases DEF Acts, Connect, Send, Leave, Reset, netVars

\* Every name in an entry stays that of its behind, or of one who has gone.
LEMMA NamesStep ==
    ASSUME LiveInv, InTurn, IdFirst, OwnName, Names, [Next]_vars,
           pc \in Running, pc' \in Running, Crowd <= MAX_CLIENT
    PROVE  Names'
<1>0. Shape /\ Nobody \notin Peers /\ GoneStay
  BY ChatAssumption, GoneStep DEF LiveInv
<1> DEFINE Owns(f, k) == sock[f] = Client[k].uid.from /\ sockIdx[f] = k /\ Client[k].First
<1>u. \A k \in IDs : Client[k].uid # Blank => Client[k].uid \in Items /\ Client[k].uid.from \in Peers
  BY <1>0 DEF Shape, Entries, Items
<1> SUFFICES ASSUME NEW k \in IDs, Client'[k].uid # Blank
             PROVE  \/ Departed(Client[k].uid.from)'
                    \/ \E f \in Fds : Owns(f, k)'
  BY DEF Names
\* The entry keeps its name; its owner keeps the entry or goes.
<1>1. ASSUME Client'[k].uid = Client[k].uid,
             \A f \in Fds : Owns(f, k) =>
                Owns(f, k)' \/ \E p \in Peers : p = sock[f] /\ Departed(p)'
      PROVE  \/ Departed(Client[k].uid.from)'
             \/ \E f \in Fds : Owns(f, k)'
  <2>1. PICK p \in Peers : p = Client[k].uid.from
    BY <1>1, <1>u
  <2>2. CASE Departed(p)'
    BY <1>1, <2>1, <2>2 DEF Departed
  <2>3. CASE Departed(p)
    BY <1>0, <2>2, <2>3 DEF GoneStay
  <2>4. CASE \E f \in Fds : Owns(f, k)
    <3>1. PICK f \in Fds : Owns(f, k)
      BY <2>4
    <3>2. ASSUME NEW q \in Peers, q = sock[f], Departed(q)'
          PROVE  Departed(p)'
      BY <2>1, <3>1, <3>2
    <3>3. QED
      BY <1>1, <2>2, <3>1, <3>2
  <2>5. QED
    BY <1>1, <2>1, <2>3, <2>4 DEF Names
<1>2. CASE UNCHANGED <<sock, sockIdx, Client>>
  BY <1>1, <1>2
<1>3. ASSUME NEW f \in Fds, NEW id \in IDs, Enters(f, id)
      PROVE  \/ Departed(Client[k].uid.from)'
             \/ \E g \in Fds : Owns(g, k)'
  <2>1. Client'[k].uid = Client[k].uid
    BY <1>3, Entered
  <2>2. ASSUME NEW g \in Fds, Owns(g, k) PROVE Owns(g, k)'
    <3>1. sock[g] # Nobody
      BY <1>0, <1>u, <2>1, <2>2
    <3>2. g # f /\ k # id
      BY <1>3, <2>2, <3>1, Entered
    <3>3. QED
      BY <1>3, <2>2, <3>2, Entered
  <2>3. QED
    BY <1>1, <2>1, <2>2
<1>4. ASSUME NEW i \in Fds, At(i), Talks(i), LogIn(i) \/ Say(i)
      PROVE  \/ Departed(Client[k].uid.from)'
             \/ \E g \in Fds : Owns(g, k)'
  <2>0. sock[i] \in Peers /\ sock' = sock /\ sockIdx' = sockIdx /\ sock[i] # Nobody
    BY <1>0, <1>4, AtClient DEF Talks
  <2>1. CASE Client'[k] = Client[k]
    BY <1>1, <2>0, <2>1
  <2>2. CASE k = sockIdx[i] /\ LogIn(i) /\ ~Client[k].First
    <3>1. CASE Silent(sock[i]) /\ Client'[k].uid = Client[k].uid
      BY <1>1, <2>2, <3>1
    <3>2. CASE Take(sock[i]) /\ Client'[k].uid = Head(inbox[sock[i]])
      <4>1. inbox[sock[i]] # << >>
        BY <1>0, <2>0, <3>2, TakeEffect
      <4>2. Client'[k].uid.from = sock[i]
        <5>1. Head(inbox[sock[i]]) = [from |-> sock[i], nr |-> 0]
          BY <2>0, <2>2, <4>1, LogInName
        <5>2. QED
          BY <3>2, <5>1
      <4>3. Client'[k].First
        BY <1>4, <2>2, Talked
      <4>4. QED
        BY <2>0, <2>2, <4>2, <4>3
    <3>3. QED
      BY <1>4, <2>2, <3>1, <3>2, Talked
  <2>3. QED
    BY <1>4, <2>1, <2>2, Talked
<1>5. ASSUME NEW i \in Fds, At(i), Closes(i)
      PROVE  \/ Departed(Client[k].uid.from)'
             \/ \E g \in Fds : Owns(g, k)'
  <2>1. Client'[k].uid = Client[k].uid
    BY <1>5, Closed
  <2>2. ASSUME NEW g \in Fds, Owns(g, k)
        PROVE  Owns(g, k)' \/ \E p \in Peers : p = sock[g] /\ Departed(p)'
    <3>1. CASE g # i
      BY <1>5, <2>2, <3>1, Closed
    <3>2. CASE g = i
      <4>1. PICK p \in Peers : p = sock[i]
        BY <1>5, AtClient
      <4>2. /\ conn[p] # "out" /\ ~Waits(p) /\ \A h \in Fds : sock[h] = p => h = i
        BY <1>0, <4>1, OnlyHere
      <4>3. ~Waits(p)' /\ conn'[p] # "out"
        BY <1>5, <4>2 DEF Closes, Waits, ConnsHit
      <4>4. \A h \in Fds : sock'[h] # p
        BY <1>0, <1>5, <4>2, Closed
      <4>5. Departed(p)'
        BY <4>3, <4>4 DEF Departed, Present, Holds
      <4>6. QED
        BY <3>2, <4>1, <4>5
    <3>3. QED
      BY <3>1, <3>2
  <2>3. QED
    BY <1>1, <2>1, <2>2
<1>6. QED
  BY <1>2, <1>3, <1>4, <1>5, TalkCases DEF Acts, Connect, Send, Leave, Reset, netVars

\* Who says a text has logged in with its own ID.
LEMMA Speaker ==
    ASSUME LiveInv, InTurn, OwnName, NEW i \in Fds, At(i), Say(i),
           NEW s, s = sock[i], NEW d,
           d = [uid |-> Client[sockIdx[i]].uid, msg |-> Head(inbox[s])]
    PROVE  /\ s \in Peers /\ s \in Present /\ inbox[s] # << >> /\ Take(s)
           /\ d \in Deliveries /\ d.msg = inbox[s][1] /\ d.msg.from = s
           /\ d.msg # LogOut /\ 1 \in DOMAIN inbox[s]
           /\ d.uid = [from |-> s, nr |-> 0]
           /\ SendToOtherClients(sockIdx[i], d.msg)
<1>1. /\ s \in Peers /\ s # Nobody /\ sockIdx[i] \in IDs
      /\ Client[sockIdx[i]].sockfd = i
  BY AtClient, ChatAssumption
<1>2. s \in Present
  BY <1>1, OnlyHere
<1>3. /\ Take(s) /\ Client[sockIdx[i]].First
      /\ SendToOtherClients(sockIdx[i], Head(inbox[s]))
  BY <1>1 DEF Say
<1>4. inbox[s] # << >> /\ Head(inbox[s]) \in Items
  BY <1>1, <1>3, TakeEffect DEF LiveInv
<1>5. 1 \in DOMAIN inbox[s] /\ Head(inbox[s]) = inbox[s][1]
  BY <1>1, <1>4, Inboxes DEF LiveInv
<1>6. inbox[s][1].from = s
  BY <1>1, <1>5 DEF InTurn
<1>7. Client[sockIdx[i]].uid = [from |-> s, nr |-> 0]
  BY <1>1, <1>3, <1>4 DEF OwnName, Silent
<1>8. Client[sockIdx[i]].uid \in Items \cup {Blank}
  BY <1>1 DEF LiveInv, Shape, Entries
<1>9. LogOut \notin Items
  BY ChatAssumption DEF LogOut, Items
<1>10. d.uid = Client[sockIdx[i]].uid /\ d.msg = Head(inbox[s])
  OBVIOUS
<1>11. d \in Deliveries
  BY <1>4, <1>8 DEF Deliveries
<1>12. QED
  BY <1>1, <1>2, <1>3, <1>4, <1>5, <1>6, <1>7, <1>9, <1>10, <1>11

\* What is heard: nothing, a text of the behind behind i, or its log-out.
LEMMA HearCases ==
    ASSUME IInv, [Next]_vars
    PROVE  \/ UNCHANGED heard
           \/ /\ pc \in Running
              /\ \E i \in Fds : At(i) /\ (Say(i) \/ Farewell(i))
<1>1. CASE pc \notin Running
  BY <1>1, Ended DEF vars, netVars
<1>2. CASE pc \in Running
  BY <1>2 DEF Next, Server, Network, Connect, Send, Leave, Reset, CloseServer,
     Idle, Select, Accept, NewSocket, LogIn, Say, Farewell, RecvFails, vars, netVars
<1>3. QED
  BY <1>1, <1>2

\* A log-out is heard of the client that closed its connection.
LEMMA Farewells ==
    ASSUME LiveInv, HeardType, NEW i \in Fds, At(i), Farewell(i),
           NEW s, s = sock[i], NEW d,
           d = [uid |-> Client[sockIdx[i]].uid, msg |-> LogOut]
    PROVE  s \in Peers /\ d \in Deliveries /\ Hears(s, d) /\ d.msg = LogOut
<1>1. s \in Peers /\ sockIdx[i] \in IDs
  BY AtClient
<1>2. SendToOtherClients(sockIdx[i], LogOut)
  BY AtClient DEF Farewell
<1>3. Client[sockIdx[i]].uid \in Items \cup {Blank}
  BY <1>1 DEF LiveInv, Shape, Entries
<1>4. d \in Deliveries
  BY <1>3 DEF Deliveries
<1>5. Hears(s, d)
  BY <1>2, HearEffect
<1>6. QED
  BY <1>1, <1>4, <1>5

\* Every step keeps what was heard genuine.
LEMMA WellStep ==
    ASSUME LiveInv, Voices, [Next]_vars, pc \in Running, pc' \in Running,
           Crowd <= MAX_CLIENT
    PROVE  HeardType' /\ HeardWell'
<1>0. /\ Shape /\ InTurn /\ OwnName /\ HeardType /\ HeardWell
      /\ InTurn' /\ Ahead /\ GoneStay /\ Names'
  BY TurnStep, GoneStep, NamesStep DEF LiveInv, Voices
<1>1. CASE UNCHANGED heard
  <2>1. HeardType'
    BY <1>0, <1>1 DEF HeardType
  <2>2. ASSUME NEW p \in Peers, NEW k \in DOMAIN heard[p]
        PROVE  Genuine(p, heard[p][k])'
    <3>1. PICK e \in Deliveries : e = heard[p][k]
      <4>1. heard[p] \in Seq(Deliveries)
        BY <1>0 DEF HeardType
      <4>2. heard[p][k] \in Deliveries
        BY <4>1, LenProperties, ElementOfSeq
      <4>3. QED
        BY <4>2
    <3>2. Genuine(p, e)
      BY <1>0, <3>1 DEF HeardWell
    <3>3. Genuine(p, e)'
      BY <1>0, <3>2, GenuineKept
    <3>4. QED
      BY <1>1, <3>1, <3>3 DEF Genuine
  <2>3. QED
    BY <1>1, <2>1, <2>2 DEF HeardWell
<1>2. ASSUME NEW i \in Fds, At(i), Say(i) PROVE HeardType' /\ HeardWell'
  <2>1. PICK s, d : /\ s = sock[i]
                    /\ d = [uid |-> Client[sockIdx[i]].uid, msg |-> Head(inbox[s])]
    OBVIOUS
  <2>2. /\ s \in Peers /\ Take(s) /\ d \in Deliveries /\ d.msg = inbox[s][1]
        /\ d.msg.from = s /\ d.msg # LogOut /\ d.uid = [from |-> s, nr |-> 0]
        /\ SendToOtherClients(sockIdx[i], d.msg) /\ 1 \in DOMAIN inbox[s]
    BY <1>0, <1>2, <2>1, Speaker
  <2>3. UNCHANGED sent
    BY <1>2 DEF Say
  <2>4. Hears(s, d)
    <3>1. d.msg \in Items \cup {LogOut}
      BY <2>2 DEF Deliveries
    <3>2. d = [uid |-> Client[sockIdx[i]].uid, msg |-> d.msg]
      BY <2>1
    <3>3. QED
      BY <1>0, <1>2, <2>1, <2>2, <3>1, <3>2, HearEffect
  <2>5. d.msg.nr < sent'[s]
    BY <1>0, <2>2, <2>3 DEF InTurn
  <2>6. \A k \in DOMAIN inbox'[s] : d.msg.nr < inbox'[s][k].nr
    BY <1>0, <2>2, <2>3, Taken
  <2>7. \A p \in Peers : p # s => Genuine(p, d)'
    BY <2>2, <2>5, <2>6 DEF Genuine
  <2>8. QED
    BY <1>0, <2>2, <2>4, <2>7, HeardStep
<1>3. ASSUME NEW i \in Fds, At(i), Farewell(i) PROVE HeardType' /\ HeardWell'
  <2>1. PICK s, d : /\ s = sock[i]
                    /\ d = [uid |-> Client[sockIdx[i]].uid, msg |-> LogOut]
    OBVIOUS
  <2>2. s \in Peers /\ d \in Deliveries /\ Hears(s, d) /\ d.msg = LogOut
    BY <1>0, <1>3, <2>1, Farewells
  <2>3. d.uid = Client[sockIdx[i]].uid /\ sockIdx[i] \in IDs /\ sock[i] # Nobody
    BY <1>3, <2>1, AtClient, ChatAssumption
  <2>4. Closes(i)
    BY <1>3, FarewellEffect
  <2>5. ASSUME d.uid # Blank PROVE Departed(d.uid.from)'
    <3>1. Client'[sockIdx[i]].uid = d.uid /\ sockIdx' = sockIdx
      BY <1>3, <2>3, <2>4, Closed
    <3>2. ASSUME NEW f \in Fds, sock'[f] = d.uid.from, sockIdx[f] = sockIdx[i]
          PROVE  FALSE
      <4>1. d.uid.from \in Peers
        BY <2>2, <2>5 DEF Deliveries, Items
      <4>2. f # i /\ sock[f] = d.uid.from
        BY <1>3, <2>4, <3>2, <4>1, Closed, ChatAssumption
      <4>3. QED
        BY <2>3, <3>2, <4>1, <4>2, OnlyHere, ChatAssumption
    <3>3. \/ Departed(Client[sockIdx[i]].uid.from)'
          \/ \E f \in Fds : /\ sock'[f] = Client'[sockIdx[i]].uid.from
                            /\ sockIdx'[f] = sockIdx[i]
      <4>1. PICK id \in IDs : id = sockIdx[i]
        BY <2>3
      <4>2. \/ Departed(Client[id].uid.from)'
            \/ \E f \in Fds : /\ sock'[f] = Client'[id].uid.from
                              /\ sockIdx'[f] = id
        BY <1>0, <2>5, <3>1, <4>1 DEF Names
      <4>3. QED
        BY <3>1, <4>1, <4>2
    <3>4. QED
      BY <3>1, <3>2, <3>3 DEF Departed
  <2>6. \A p \in Peers : p # s => Genuine(p, d)'
    BY <2>2, <2>5 DEF Genuine
  <2>7. QED
    BY <1>0, <2>2, <2>6, HeardStep
<1>4. IInv
  BY DEF IInv, DiesOnlyOfReset, Running
<1>5. QED
  BY <1>1, <1>2, <1>3, <1>4, HearCases

\* Every step keeps the order of what is heard, also the one in which the
\* server dies.
LEMMA FaithfulStep == ASSUME VInv, [Next]_vars PROVE Faithful'
<1>1. CASE UNCHANGED heard
  <2>1. Faithful
    BY DEF VInv
  <2>2. QED
    BY <1>1, <2>1, SMTT(30) DEF Faithful
<1>2. ASSUME pc \in Running, NEW i \in Fds, At(i), Say(i) \/ Farewell(i)
      PROVE  Faithful'
  <2>0. /\ Shape /\ LiveInv /\ InTurn /\ OwnName /\ HeardType /\ HeardWell
        /\ Faithful
    BY <1>2 DEF VInv, IInv, LiveInv, Voices
  <2>1. CASE Say(i)
    <3>1. PICK s, d : /\ s = sock[i]
                      /\ d = [uid |-> Client[sockIdx[i]].uid, msg |-> Head(inbox[s])]
      OBVIOUS
    <3>2. /\ s \in Peers /\ s \in Present /\ inbox[s] # << >>
          /\ d \in Deliveries /\ d.msg = inbox[s][1] /\ d.msg.from = s
          /\ d.uid = [from |-> s, nr |-> 0]
          /\ SendToOtherClients(sockIdx[i], d.msg)
      BY <1>2, <2>0, <2>1, <3>1, Speaker
    <3>3. Hears(s, d)
      <4>1. d.msg \in Items \cup {LogOut}
        BY <3>2 DEF Deliveries
      <4>2. d = [uid |-> Client[sockIdx[i]].uid, msg |-> d.msg]
        BY <3>1
      <4>3. QED
        BY <1>2, <2>0, <3>1, <3>2, <4>1, <4>2, HearEffect
    <3>4. QED
      BY <2>0, <3>2, <3>3, FaithStep
  <2>2. CASE Farewell(i)
    <3>1. PICK s, d : /\ s = sock[i]
                      /\ d = [uid |-> Client[sockIdx[i]].uid, msg |-> LogOut]
      OBVIOUS
    <3>2. s \in Peers /\ d \in Deliveries /\ Hears(s, d) /\ d.msg = LogOut
      BY <1>2, <2>0, <2>2, <3>1, Farewells
    <3>3. QED
      BY <2>0, <3>2, FaithStep
  <2>3. QED
    BY <1>2, <2>1, <2>2
<1>3. QED
  BY <1>1, <1>2, HearCases DEF VInv

\* At first nobody has said or heard anything.
LEMMA SilentStart == ASSUME Init PROVE VInv
<1>0. IInv
  BY Start
<1>1. \A p \in Peers : inbox[p] = << >> /\ sent[p] = 0 /\ heard[p] = << >>
  BY DEF Init
<1>2. InTurn /\ IdFirst
  BY <1>1 DEF InTurn, IdFirst
<1>3. OwnName /\ Names
  BY DEF Init, OwnName, Names
<1>4. HeardType
  <2>1. << >> \in Seq(Deliveries)
    BY EmptySeq
  <2>2. QED
    BY <2>1 DEF Init, HeardType
<1>5. HeardWell /\ Faithful
  BY <1>1 DEF HeardWell, Faithful
<1>6. QED
  BY <1>0, <1>2, <1>3, <1>4, <1>5 DEF VInv, Voices

\* Every step preserves the invariant.
LEMMA VoicesInductive == ASSUME VInv, [Next]_vars, Crowd <= MAX_CLIENT PROVE VInv'
<1>1. IInv' /\ Faithful'
  BY Inductive, FaithfulStep DEF VInv
<1>2. ASSUME pc' \in Running PROVE Voices'
  <2>1. pc \in Running
    BY <1>2, Ended DEF vars
  <2>2. LiveInv /\ Voices
    BY <2>1 DEF VInv, IInv
  <2>3. QED
    BY <1>2, <2>1, <2>2, TurnStep, IdStep, OwnNameStep, NamesStep, WellStep DEF Voices
<1>3. QED
  BY <1>1, <1>2 DEF VInv

\* What a client hears under a name was said by the owner of that name and by
\* no other (ProcessClient, SendToOtherClients), in the order of sending, none
\* twice, none after the log-out: for any number of clients, reused
\* descriptors and entries, joined recvs, and clients that leave without a word.
THEOREM FaithSafe == ASSUME Crowd <= MAX_CLIENT PROVE Spec => []Faithful
<1>1. Init => VInv
  BY SilentStart
<1>2. VInv /\ [Next]_vars => VInv'
  BY VoicesInductive
<1>3. VInv => Faithful
  BY DEF VInv
<1>4. QED
  BY <1>1, <1>2, <1>3, PTL DEF Spec

------------------------------------------------------------------------------
(* The client *)

\* Where the threads of the client may be.
Places == {"none", "recv", "cancelS", "joinS", "fgets", "send", "dead"}

\* An id is set exactly when its thread has been created, whoever has been
\* cancelled had an id, and SendMsg is created after ReceiveMsg.
ClientInv == /\ thread \in [C!Threads -> Places]
             /\ ids = {t \in C!Threads : thread[t] # "none"}
             /\ cancelled \subseteq ids
             /\ main = "createS" => thread["R"] # "none"
             /\ thread["S"] # "none" => thread["R"] # "none"
             /\ C!CrashesOnlyEarly

\* Nobody has an id at first.
LEMMA ClientInit == ASSUME C!Init PROVE ClientInv
  BY DEF C!Init, ClientInv, Places, C!Threads, C!CrashesOnlyEarly

\* A thread that has been created goes on.
LEMMA MoveKeeps == ASSUME ClientInv, NEW t \in C!Threads,
                          NEW label \in Places \ {"none"}, thread[t] # "none",
                          thread' = [thread EXCEPT ![t] = label],
                          UNCHANGED <<main, ids, cancelled>>, end' = end
                   PROVE  ClientInv'
  BY DEF ClientInv, C!Threads, C!CrashesOnlyEarly

\* main goes on, or a thread that has an id is cancelled.
LEMMA MainKeeps == ASSUME ClientInv, thread' = thread, ids' = ids,
                          cancelled' \subseteq ids,
                          main' = main \/ main' # "createS" \/ thread["R"] # "none",
                          end' = end \/ end' # "crashed"
                   PROVE  ClientInv'
  BY DEF ClientInv, C!Threads, C!CrashesOnlyEarly

\* The process ends.
LEMMA EndKeeps == ASSUME ClientInv, NEW how, C!End(how),
                         how = "crashed" => thread["S"] = "none"
                  PROVE  ClientInv'
  BY DEF ClientInv, C!Threads, C!CrashesOnlyEarly, C!End

\* Who cancels a thread that has no id crashes, and then SendMsg does not run.
LEMMA NoIdEarly == ASSUME ClientInv, NEW t \in C!Threads, t \notin ids
                   PROVE  thread["S"] = "none"
  BY DEF ClientInv, C!Threads

\* The second thread is created after the first.
LEMMA CreateKeeps == ASSUME ClientInv, NEW t \in C!Threads, NEW next, end = "no",
                            C!Create(t, next),
                            \/ t = "R" /\ next = "createS"
                            \/ t = "S" /\ main = "createS" /\ next = "joinR"
                     PROVE  ClientInv'
  BY DEF ClientInv, C!Threads, C!Create, Places, C!CrashesOnlyEarly

\* Every step of the client preserves the invariant.
LEMMA ClientStep == ASSUME ClientInv, C!Next PROVE ClientInv'
<1>0. end = "no" /\ thread \in [C!Threads -> Places]
  BY DEF C!Next, ClientInv
<1>1. CASE C!User
  <2>1. CASE C!SendID
    BY <2>1, MainKeeps, EndKeeps DEF C!SendID, C!SendThen, ClientInv
  <2>2. CASE C!Fgets
    BY <2>2, MoveKeeps DEF C!Fgets, C!Threads, Places
  <2>3. CASE C!Interrupt
    BY <2>3, MainKeeps DEF C!Interrupt, ClientInv
  <2>4. QED
    BY <1>1, <2>1, <2>2, <2>3 DEF C!User
<1>2. CASE C!Server
  BY <1>2, MainKeeps DEF C!Server, C!ownVars, ClientInv
<1>3. CASE C!Main
  <2>1. CASE main = "createR" /\ C!Create("R", "createS")
    BY <1>0, <2>1, CreateKeeps DEF C!Threads
  <2>2. CASE main = "createS" /\ C!Create("S", "joinR")
    BY <1>0, <2>2, CreateKeeps DEF C!Threads
  <2>3. CASE C!Join
    BY <2>3, MainKeeps, EndKeeps DEF C!Join, ClientInv
  <2>4. QED
    BY <1>3, <2>1, <2>2, <2>3 DEF C!Main
<1>4. ASSUME NEW t \in C!Threads, NEW label, C!Cancel(t, C!Goto(label)), label # "createS"
      PROVE  ClientInv'
  <2>1. CASE t \notin ids
    BY <1>4, <2>1, NoIdEarly, EndKeeps DEF C!Cancel
  <2>2. CASE t \in ids
    BY <1>4, <2>2, MainKeeps, EndKeeps DEF C!Cancel, C!Goto, ClientInv
  <2>3. QED
    BY <2>1, <2>2
<1>5. CASE C!CloseClient
  BY <1>4, <1>5, MainKeeps, EndKeeps DEF C!CloseClient, C!Goto, ClientInv, C!Threads
<1>6. CASE C!JoinAtOnce
  BY <1>6, MainKeeps, EndKeeps DEF C!JoinAtOnce, C!Goto, ClientInv
<1>7. CASE C!ReceiveMsg
  <2>1. CASE C!Cancel("S", C!R("joinS")) /\ thread["R"] = "cancelS"
    <3>1. CASE "S" \notin ids
      BY <2>1, <3>1, NoIdEarly, EndKeeps DEF C!Cancel, C!Threads
    <3>2. CASE "S" \in ids /\ C!End("failed")
      BY <3>2, EndKeeps
    <3>3. CASE /\ "S" \in ids /\ cancelled' = cancelled \cup {"S"} /\ C!R("joinS")
               /\ UNCHANGED <<ids, end>>
      BY <2>1, <3>3 DEF C!R, ClientInv, C!Threads, Places, C!CrashesOnlyEarly
    <3>4. QED
      BY <2>1, <3>1, <3>2, <3>3 DEF C!Cancel
  <2>2. QED
    BY <1>7, <2>1, MoveKeeps, MainKeeps, EndKeeps
       DEF C!ReceiveMsg, C!R, C!ownVars, ClientInv, C!Threads, Places
<1>8. CASE C!SendMsg
  BY <1>8, MoveKeeps, EndKeeps DEF C!SendMsg, C!SendThen, C!Threads, Places
<1>9. ASSUME NEW t \in C!Threads, C!Cancelled(t) PROVE ClientInv'
  <2>1. thread[t] # "none"
    BY <1>9 DEF C!Cancelled, ClientInv
  <2>2. QED
    BY <1>9, <2>1, MoveKeeps DEF C!Cancelled, Places
<1>10. QED
  BY <1>1, <1>2, <1>3, <1>5, <1>6, <1>7, <1>8, <1>9 DEF C!Next, C!OwnStep

\* Whenever SIGINT comes and the server closes: the client crashes only before
\* SendMsg has been created, for any number of texts on their way.
THEOREM ClientSafe == AnySpec => []CrashesOnlyEarly
<1>1. AnyInit => ClientInv
  BY ClientInit DEF AnyInit
<1>2. ClientInv /\ [ServerSide(Next) \/ ClientSide(C!Next)]_anyVars => ClientInv'
  <2>1. CASE UNCHANGED clientVars
    BY <2>1 DEF clientVars, ClientInv, C!CrashesOnlyEarly
  <2>2. QED
    BY <2>1, ClientStep DEF ServerSide, ClientSide, anyVars
<1>3. ClientInv => CrashesOnlyEarly
  BY DEF ClientInv, CrashesOnlyEarly
<1>4. QED
  BY <1>1, <1>2, <1>3, PTL DEF AnySpec

==============================================================================
