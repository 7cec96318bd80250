----------------------------- MODULE RpcProofs -----------------------------
(***************************************************************************)
(* What Rpc does for any number of callers, starts, interrupts and kills:  *)
(* a call that rpc works for alone gets its own sum, and callers one after *)
(* the other never get a number of one another.                            *)
(*                                                                         *)
(* RInv is the inductive invariant.  Its first half, Base, is about the    *)
(* sets: who may wait for which, and what rpc holds.  While rpc serves,    *)
(* either all it has opened is what the keys name now, or, from its own    *)
(* interrupt on, nothing of it is: a key never names a set that rpc has    *)
(* half given up.  The second half, Calls, follows a call through rpc:     *)
(* before its post rpc sleeps (Asking), then rpc has its one permit        *)
(* (Counting), then the cell has the sum and rpc has no permit left        *)
(* (Counted).                                                              *)
(***************************************************************************)
EXTENDS Rpc, SequenceTheorems, TLAPS
------------------------------------------------------------------------------
(* The inductive invariant *)

Sem(e, v, q, undo) == [exists |-> e, val |-> v, queue |-> q, undo |-> undo]

\* A semaphore set of one of the programs.
IsSem(x) == /\ x = Sem(x.exists, x.val, x.queue, x.undo)
            /\ x.val \in Nat /\ x.undo \in [Programs -> Int]

\* Only rpc waits for Empty, only apps wait for Full, and only if there is no permit.
Line(k) == IF k = "Empty" THEN {<< >>, <<Server>>} ELSE Seq(Callers)
Good(k, x) == /\ IsSem(x)
              /\ x.queue \in Line(k)
              /\ x.queue # << >> => x.val = 0

Opening == {"shmat", "openEmpty", "openFull"}
ServerLabels == {"off", "failed", "exited"} \cup Opening \cup Serving \cup Handler
Before  == {"shmat", "write", "openEmpty", "postEmpty"}
Posted  == {"openFull", "waitFull", "read"}
CallerLabels == {"off", "failed", "exited", "done"} \cup Before \cup Posted

Places == /\ pc \in [Programs -> ServerLabels \cup CallerLabels]
          /\ pc[Server] \in ServerLabels
          /\ \A c \in Callers : pc[c] \in CallerLabels

Shape == /\ Places
         /\ sems = [s \in Keys \X Ages |-> sems[s]]
         /\ semid \in [Keys -> Ages] /\ segment \in Ages
         /\ shm \in [Programs -> Ages] /\ sem \in [Programs -> [Keys -> Ages]]
         /\ cell = [g \in Ages |-> cell[g]]
         /\ result = [c \in Callers |-> result[c]]

\* Each signal makes at most one new age, and those that rpc still handles have not
\* made it yet.
Aged == /\ signals \in 0..MaxSignals
        /\ setting \in Settings /\ (setting # "harsh" => signals = 0)
        /\ resume \in {"off", "failed"} \cup Serving
        /\ pc[Server] \in Handler => resume # "off"
        /\ semid["Empty"] <= signals + (IF pc[Server] = "destroyEmpty" THEN 0 ELSE 1)
        /\ semid["Full"] <= signals + (IF pc[Server] \in {"destroyEmpty", "destroyFull"}
                                       THEN 0 ELSE 1)
        /\ segment <= signals + (IF pc[Server] \in Handler THEN 0 ELSE 1)

\* A set that is there is the one its key names.
Sets == \A k \in Keys, a \in Ages :
          /\ Good(k, sems[<<k, a>>])
          /\ sems[<<k, a>>].exists => a = semid[k]

\* Where rpc is when it waits for Empty.
Waiter == \A a \in Ages : sems[<<"Empty", a>>].queue # << >> =>
            /\ sems[<<"Empty", a>>].exists
            /\ pc[Server] = "load" /\ a = sem[Server]["Empty"]

\* What rpc has opened with key k is what the key names, or is gone.
Has(k)  == sem[Server][k] = semid[k] /\ sems[Named(k)].exists
Lost(k) == sem[Server][k] < semid[k]

Up   == Has("Empty") /\ Has("Full") /\ shm[Server] = segment
Down == Lost("Empty") /\ Lost("Full") /\ shm[Server] < segment

\* From its own interrupt on rpc has nothing that a later program uses.
Holding == /\ pc[Server] \in Opening => shm[Server] = segment
           /\ pc[Server] = "openFull" => Has("Empty")
           /\ pc[Server] \in Serving \cup {"destroyEmpty"} => Up \/ Down
           /\ pc[Server] = "destroyFull" =>
                \/ Lost("Empty") /\ Has("Full") /\ shm[Server] = segment
                \/ Down
           /\ pc[Server] = "remove" =>
                Lost("Empty") /\ Lost("Full") /\ shm[Server] <= segment

Base == Shape /\ Aged /\ Sets /\ Waiter /\ Holding

\* rpc sleeps and has nothing to do.
Resting == /\ pc[Server] = "load"
           /\ sems[Named("Empty")].queue = <<Server>>

\* c has not posted Empty yet.
Asking(c) == /\ pc[c] \in Before
             /\ Resting
             /\ pc[c] \in {"openEmpty", "postEmpty"} => cell[segment] = c
             /\ pc[c] = "postEmpty" => sem[c]["Empty"] = semid["Empty"]

\* rpc has the permit that c has posted.
Counting(c) == /\ pc[c] \in Posted
               /\ cell[segment] = c
               /\ sems[Named("Empty")].queue = << >> /\ sems[Named("Empty")].val = 0
               /\ pc[Server] = "load" \/ (pc[Server] = "store" /\ num = c)

\* rpc has stored the sum, and has no permit for another one.
Counted(c) == /\ pc[c] \in Posted
              /\ cell[segment] = Sum[c]
              /\ sems[Named("Empty")].val = 0
              /\ pc[Server] \in {"postFull", "waitEmpty"} \/ Resting

\* A call for which rpc works and for nobody else.
Tended(c) == /\ Up
             /\ shm[c] = segment
             /\ pc[c] \in {"waitFull", "read"} => sem[c]["Full"] = semid["Full"]
             /\ Asking(c) \/ Counting(c) \/ Counted(c)

\* No reply of an earlier call is left over.
Fresh(c) == Counted(c) \/ /\ sems[Named("Full")].val = 0
                          /\ pc[c] = "read" => c \in Sleepers(sems[Named("Full")])

Only(c) == \A d \in Callers : Running(d) => d = c

OneByOne == setting = "sequence" =>
              \A c \in Callers : Running(c) =>
                 Only(c) /\ (pc[c] \notin {"done", "failed"} => Tended(c))

\* Nobody calls, and what rpc has set since its start has stayed as it was.
Quiet == /\ NobodyCalls
         /\ pc[Server] \in Opening \cup {"setEmpty", "setFull", "waitEmpty", "load",
                                       "failed", "exited"}
         /\ pc[Server] \in {"setFull", "waitEmpty"} =>
              Up /\ sems[Named("Empty")].val = 0
         /\ pc[Server] \in {"waitEmpty", "load"} => sems[Named("Full")].val = 0
         /\ pc[Server] = "load" => Resting

Undisturbed == /\ alone \subseteq Programs
               /\ pc[Server] \in Handler => alone = {}
               /\ Server \in alone => Quiet
               /\ \A c \in alone \ {Server} :
                    /\ Only(c)
                    /\ pc[c] \in Before \cup Posted => Tended(c) /\ Fresh(c)

Unread == \A c \in Callers : pc[c] = "off" => result[c] = 0

Calls == OneByOne /\ Undisturbed /\ Unread /\ OwnCall /\ RightWhenAlone

RInv == Base /\ Calls
------------------------------------------------------------------------------
(* The calls on a semaphore *)

\* Assignments to fields of a semaphore.
WithQueue(x, q) == [x EXCEPT !.queue = q]
WithPermits(x, v, undo) == [x EXCEPT !.val = v, !.undo = undo]
WithAll(x, v, q, undo) == [x EXCEPT !.val = v, !.queue = q, !.undo = undo]

\* A semaphore with some of its fields replaced, and its fields.
LEMMA Assigned ==
    ASSUME NEW e, NEW v, NEW q, NEW undo, NEW w, NEW r, NEW y
    PROVE  /\ WithQueue(Sem(e, v, q, undo), r) = Sem(e, v, r, undo)
           /\ WithAll(Sem(e, v, q, undo), w, r, y) = Sem(e, w, r, y)
           /\ Sem(e, v, q, undo).exists = e /\ Sem(e, v, q, undo).val = v
           /\ Sem(e, v, q, undo).queue = q /\ Sem(e, v, q, undo).undo = undo
<1>1. [Sem(e, v, q, undo) EXCEPT !.queue = r] = Sem(e, v, r, undo)
  BY DEF Sem
<1>2. [Sem(e, v, q, undo) EXCEPT !.val = w] = Sem(e, w, q, undo)
  BY DEF Sem
<1>3. [Sem(e, w, q, undo) EXCEPT !.queue = r] = Sem(e, w, r, undo)
  BY DEF Sem
<1>4. [Sem(e, w, r, undo) EXCEPT !.undo = y] = Sem(e, w, r, y)
  BY DEF Sem
<1>5. WithAll(Sem(e, v, q, undo), w, r, y) =
        [[[Sem(e, v, q, undo) EXCEPT !.val = w] EXCEPT !.queue = r] EXCEPT !.undo = y]
  BY DEF WithAll
<1>6. WithAll(Sem(e, v, q, undo), w, r, y) = Sem(e, w, r, y)
  BY <1>2, <1>3, <1>4, <1>5
<1>7. /\ Sem(e, v, q, undo).exists = e /\ Sem(e, v, q, undo).val = v
      /\ Sem(e, v, q, undo).queue = q /\ Sem(e, v, q, undo).undo = undo
  BY DEF Sem
<1>8. QED
  BY <1>1, <1>6, <1>7 DEF WithQueue

\* A semaphore made of fields of the right types is one.
LEMMA Made ==
    ASSUME NEW e, NEW v \in Nat, NEW q, NEW undo \in [Programs -> Int], NEW x,
           x = Sem(e, v, q, undo)
    PROVE  IsSem(x) /\ x.exists = e /\ x.val = v /\ x.queue = q /\ x.undo = undo
<1>1. x.exists = e /\ x.val = v /\ x.queue = q /\ x.undo = undo
  BY Assigned
<1>2. x = Sem(x.exists, x.val, x.queue, x.undo)
  BY <1>1
<1>3. QED
  BY <1>1, <1>2 DEF IsSem

\* Rpc is none of the apps.
LEMMA Who == /\ Server \in Programs /\ Server \notin Callers
             /\ Callers \subseteq Programs
             /\ \A c \in Callers : c \in Nat /\ c # 0
             /\ \A p \in Programs : p = Server \/ p \in Callers
             /\ "Empty" \in Keys /\ "Full" \in Keys
             /\ \A k \in Keys : k = "Empty" \/ k = "Full"
  BY RpcAssumption DEF Server, Programs, Keys

\* The queues that a semaphore may have: parts of one are such again.
LEMMA Lines ==
    ASSUME NEW k \in Keys, NEW q \in Line(k)
    PROVE  /\ q \in Seq(Programs) /\ Len(q) \in Nat
           /\ << >> \in Line(k)
           /\ \A n \in 0..Len(q) : SubSeq(q, n + 1, Len(q)) \in Line(k)
           /\ \A p \in Programs : Without(q, p) \in Line(k)
           /\ k = "Empty" => Without(q, Server) = << >>
           /\ q = << >> => \A p \in Programs : Without(q, p) = << >>
<1>1. \A p \in Programs : Without(<< >>, p) = << >>
  BY DEF Without
<1>2. CASE k = "Empty"
  <2>1. q = << >> \/ q = <<Server>>
    BY <1>2 DEF Line
  <2>2. /\ << >> \in Seq(Programs) /\ <<Server>> \in Seq(Programs)
        /\ Len(<< >>) = 0 /\ Len(<<Server>>) = 1
    BY Who
  <2>3. Without(<<Server>>, Server) = << >>
    <3>1. DOMAIN <<Server>> = {1} /\ <<Server>>[1] = Server
      OBVIOUS
    <3>2. (CHOOSE j \in DOMAIN <<Server>> : <<Server>>[j] = Server) = 1
      BY <3>1
    <3>3. Without(<<Server>>, Server) =
             SubSeq(<<Server>>, 1, 0) \o SubSeq(<<Server>>, 2, Len(<<Server>>))
      BY <3>1, <3>2 DEF Without
    <3>4. SubSeq(<<Server>>, 1, 0) = << >> /\ SubSeq(<<Server>>, 2, 1) = << >>
      BY SubSeqEmpty
    <3>5. << >> \o << >> = << >>
      OBVIOUS
    <3>6. QED
      BY <2>2, <3>3, <3>4, <3>5
  <2>4. \A p \in Programs : p # Server => Without(<<Server>>, p) = <<Server>>
    <3>1. DOMAIN <<Server>> = {1} /\ <<Server>>[1] = Server
      OBVIOUS
    <3>2. QED
      BY <3>1 DEF Without
  <2>5. /\ SubSeq(<< >>, 1, 0) = << >>
        /\ SubSeq(<<Server>>, 1, 1) = <<Server>>
        /\ SubSeq(<<Server>>, 2, 1) = << >>
    <3>1. SubSeq(<<Server>>, 1, Len(<<Server>>)) = <<Server>>
      BY <2>2, SubSeqFull
    <3>2. SubSeq(<< >>, 1, 0) = << >> /\ SubSeq(<<Server>>, 2, 1) = << >>
      BY SubSeqEmpty
    <3>3. QED
      BY <2>2, <3>1, <3>2
  <2>6. \A n \in 0..Len(q) : SubSeq(q, n + 1, Len(q)) \in Line(k)
    <3>1. SUFFICES ASSUME NEW n \in 0..Len(q)
                   PROVE  SubSeq(q, n + 1, Len(q)) \in {<< >>, <<Server>>}
      BY <1>2 DEF Line
    <3>2. CASE q = << >>
      BY <2>2, <2>5, <3>1, <3>2
    <3>3. CASE q = <<Server>>
      <4>1. n = 0 \/ n = 1
        BY <2>2, <3>1, <3>3
      <4>2. QED
        BY <2>2, <2>5, <3>3, <4>1
    <3>4. QED
      BY <2>1, <3>2, <3>3
  <2>7. \A p \in Programs : Without(q, p) \in {<< >>, <<Server>>}
    BY <1>1, <2>1, <2>3, <2>4
  <2>8. /\ q \in Seq(Programs) /\ Len(q) \in Nat /\ Without(q, Server) = << >>
    BY <1>1, <2>1, <2>2, <2>3, Who
  <2>9. Line(k) = {<< >>, <<Server>>}
    BY <1>2 DEF Line
  <2>10. QED
    BY <1>1, <2>6, <2>7, <2>8, <2>9
<1>3. CASE k = "Full"
  <2>1. Line(k) = Seq(Callers) /\ q \in Seq(Callers) /\ k # "Empty"
    BY <1>3 DEF Line
  <2>2. q \in Seq(Programs) /\ Len(q) \in Nat /\ << >> \in Seq(Callers)
        /\ \A j \in 1..Len(q) : q[j] \in Callers
        /\ DOMAIN q = 1..Len(q)
    BY <2>1, Who, SeqMonotonic
  <2>3. \A n \in 0..Len(q) : SubSeq(q, n + 1, Len(q)) \in Seq(Callers)
    BY <2>2, SubSeqProperties
  <2>4. ASSUME NEW p \in Programs PROVE Without(q, p) \in Seq(Callers)
    <3>1. CASE \E j \in DOMAIN q : q[j] = p
      <4> DEFINE at == CHOOSE j \in DOMAIN q : q[j] = p
      <4>1. at \in 1..Len(q)
        BY <2>2, <3>1
      <4>2. Without(q, p) = SubSeq(q, 1, at - 1) \o SubSeq(q, at + 1, Len(q))
        BY <3>1 DEF Without
      <4> HIDE DEF at
      <4>3. SubSeq(q, 1, at - 1) \in Seq(Callers) /\ SubSeq(q, at + 1, Len(q)) \in Seq(Callers)
        <5>1. /\ at - 1 \in Int /\ at + 1 \in Int /\ 1 \in Int /\ Len(q) \in Int
              /\ \A j \in 1 .. at - 1 : q[j] \in Callers
              /\ \A j \in at + 1 .. Len(q) : q[j] \in Callers
          BY <2>2, <4>1
        <5>2. QED
          BY <5>1, SubSeqProperties
      <4>4. QED
        BY <4>2, <4>3, ConcatProperties
    <3>2. CASE ~ \E j \in DOMAIN q : q[j] = p
      BY <2>1, <3>2 DEF Without
    <3>3. QED
      BY <3>1, <3>2
  <2>5. QED
    BY <1>1, <2>1, <2>2, <2>3, <2>4
<1>4. QED
  BY <1>2, <1>3, Who

\* What Settle does when n sleepers go on and w are the woken ones.
LetGo(x, n, w) ==
    [x EXCEPT !.val = x.val - n,
              !.queue = SubSeq(x.queue, n + 1, Len(x.queue)),
              !.undo = [p \in Programs |-> IF p \in w THEN x.undo[p] + 1 ELSE x.undo[p]]]

\* Settle, with its local definitions named.
LEMMA SettleIs ==
    ASSUME NEW x, NEW n, NEW w, n = IF x.val < Len(x.queue) THEN x.val ELSE Len(x.queue),
           w = {x.queue[k] : k \in 1..n}
    PROVE  Settle(x) = LetGo(x, n, w)
  BY DEF Settle, LetGo

\* What a call leaves of x: a semaphore that is there if x was, on which nobody new
\* sleeps.
Follows(k, x, y) == /\ Good(k, y) /\ y.exists = x.exists
                    /\ x.queue = << >> => y.queue = << >>

\* Settle lets sleepers go on with the permits that are there.
LEMMA SettleGood ==
    ASSUME NEW k \in Keys, NEW e, NEW v \in Nat, NEW q \in Line(k),
           NEW undo \in [Programs -> Int], NEW x, x = Sem(e, v, q, undo)
    PROVE  /\ Follows(k, x, Settle(x))
           /\ q = << >> => Settle(x).val = v
           /\ v = 0 => Settle(x).val = 0
           /\ q = <<Server>> /\ v = 1 => Settle(x).queue = << >> /\ Settle(x).val = 0
<1>1. IsSem(x) /\ x.exists = e /\ x.val = v /\ x.queue = q /\ x.undo = undo
  BY Made
<1>2. Len(q) \in Nat /\ q \in Seq(Programs)
  BY Lines
<1> DEFINE n == IF v < Len(q) THEN v ELSE Len(q)
           w == {q[j] : j \in 1..n}
           r == SubSeq(q, n + 1, Len(q))
           y == [p \in Programs |-> IF p \in w THEN undo[p] + 1 ELSE undo[p]]
<1>3. n \in 0..Len(q) /\ v - n \in Nat
  BY <1>2
<1>4. Settle(x) = LetGo(x, n, w)
  BY <1>1, SettleIs
<1>5. y \in [Programs -> Int]
  OBVIOUS
<1>6. LetGo(x, n, w) = WithAll(x, v - n, r, y)
  BY <1>1 DEF LetGo, WithAll
<1>7. r \in Line(k)
  BY <1>3, Lines
<1>8. r # << >> => v - n = 0
  <2>1. CASE v < Len(q)
    BY <2>1
  <2>2. CASE ~(v < Len(q))
    <3>1. SubSeq(q, Len(q) + 1, Len(q)) = << >>
      BY <1>2, SubSeqEmpty
    <3>2. QED
      BY <2>2, <3>1
  <2>3. QED
    BY <2>1, <2>2
<1>9. q = << >> => n = 0 /\ r = << >>
  BY <1>2, <1>3, SubSeqEmpty
<1>10. q = <<Server>> /\ v = 1 => n = 1 /\ r = << >>
  <2>1. Len(<<Server>>) = 1
    OBVIOUS
  <2>2. SubSeq(<<Server>>, 2, 1) = << >>
    BY SubSeqEmpty
  <2>3. QED
    BY <2>1, <2>2
<1> HIDE DEF n, w, r, y
<1>11. Settle(x) = Sem(e, v - n, r, y)
  BY <1>4, <1>6, Assigned
<1>12. /\ IsSem(Settle(x)) /\ Settle(x).exists = e
       /\ Settle(x).val = v - n /\ Settle(x).queue = r
  BY <1>3, <1>5, <1>11, Made
<1>13. Follows(k, x, Settle(x))
  BY <1>1, <1>7, <1>8, <1>9, <1>12 DEF Follows, Good
<1>14. v = 0 => v - n = 0
  BY <1>2, <1>3
<1>15. QED
  BY <1>9, <1>10, <1>12, <1>13, <1>14

\* The fields of a good semaphore, named.
LEMMA GoodParts ==
    ASSUME NEW k \in Keys, NEW x, Good(k, x)
    PROVE  \E e, v, q, undo : /\ x = Sem(e, v, q, undo)
                              /\ v \in Nat /\ q \in Line(k) /\ undo \in [Programs -> Int]
                              /\ x.exists = e /\ x.val = v /\ x.queue = q /\ x.undo = undo
                              /\ q # << >> => v = 0
  BY DEF Good, IsSem

\* Assignments of a value and its adjustments.
LEMMA Permitted ==
    ASSUME NEW e, NEW v, NEW q, NEW undo, NEW w, NEW y
    PROVE  WithPermits(Sem(e, v, q, undo), w, y) = Sem(e, w, q, y)
<1>1. [Sem(e, v, q, undo) EXCEPT !.val = w] = Sem(e, w, q, undo)
  BY DEF Sem
<1>2. [Sem(e, w, q, undo) EXCEPT !.undo = y] = Sem(e, w, q, y)
  BY DEF Sem
<1>3. WithPermits(Sem(e, v, q, undo), w, y) =
        [[Sem(e, v, q, undo) EXCEPT !.val = w] EXCEPT !.undo = y]
  BY DEF WithPermits
<1>4. QED
  BY <1>1, <1>2, <1>3

Gave(undo, p)    == [undo EXCEPT ![p] = @ - 1]
Took(undo, p)    == [undo EXCEPT ![p] = @ + 1]
Cleared(undo, p) == [undo EXCEPT ![p] = 0]
Zero             == [p \in Programs |-> 0]
Back(n)          == IF n < 0 THEN 0 ELSE n

\* semPost adds a permit: the one that sleeps takes it.
LEMMA PostGood ==
    ASSUME NEW k \in Keys, NEW x, Good(k, x), NEW p \in Programs
    PROVE  /\ Follows(k, x, PostOp(x, p))
           /\ x.queue = <<Server>> => PostOp(x, p).queue = << >> /\ PostOp(x, p).val = 0
<1>1. PICK e, v, q, undo : /\ x = Sem(e, v, q, undo)
                           /\ v \in Nat /\ q \in Line(k) /\ undo \in [Programs -> Int]
                           /\ x.exists = e /\ x.val = v /\ x.queue = q /\ x.undo = undo
                           /\ q # << >> => v = 0
  BY GoodParts
<1> DEFINE x1 == Sem(e, v + 1, q, Gave(undo, p))
<1>2. Gave(undo, p) \in [Programs -> Int] /\ v + 1 \in Nat
  BY <1>1 DEF Gave
<1>3. PostOp(x, p) = Settle(WithPermits(x, v + 1, Gave(undo, p)))
  BY <1>1 DEF PostOp, WithPermits, Gave
<1>4. WithPermits(Sem(e, v, q, undo), v + 1, Gave(undo, p)) = x1
  BY Permitted
<1>5. PostOp(x, p) = Settle(x1)
  BY <1>1, <1>3, <1>4
<1>6. x1 = Sem(e, v + 1, q, Gave(undo, p))
  OBVIOUS
<1> HIDE DEF x1
<1>7. /\ Follows(k, x1, Settle(x1))
      /\ q = <<Server>> /\ v + 1 = 1 => Settle(x1).queue = << >> /\ Settle(x1).val = 0
  BY <1>1, <1>2, <1>6, SettleGood
<1>8. x1.exists = e /\ x1.queue = q
  BY <1>6, Assigned
<1>9. Follows(k, x, Settle(x1))
  BY <1>1, <1>7, <1>8 DEF Follows
<1>10. <<Server>> # << >>
  OBVIOUS
<1>11. q = <<Server>> => v + 1 = 1
  BY <1>1, <1>10
<1>12. QED
  BY <1>1, <1>5, <1>7, <1>9, <1>11

\* semInitValue sets the permits.
LEMMA SetGood ==
    ASSUME NEW k \in Keys, NEW x, Good(k, x), NEW w \in Nat
    PROVE  Follows(k, x, SetValOp(x, w)) /\ (w = 0 => SetValOp(x, w).val = 0)
<1>1. PICK e, v, q, undo : /\ x = Sem(e, v, q, undo)
                           /\ v \in Nat /\ q \in Line(k) /\ undo \in [Programs -> Int]
                           /\ x.exists = e /\ x.val = v /\ x.queue = q /\ x.undo = undo
  BY GoodParts
<1> DEFINE x1 == Sem(e, w, q, Zero)
<1>2. Zero \in [Programs -> Int]
  BY DEF Zero
<1>3. SetValOp(x, w) = Settle(WithPermits(x, w, Zero))
  BY DEF SetValOp, WithPermits, Zero
<1>4. SetValOp(x, w) = Settle(x1)
  BY <1>1, <1>3, Permitted
<1>5. x1 = Sem(e, w, q, Zero)
  OBVIOUS
<1> HIDE DEF x1
<1>6. w \in Nat
  OBVIOUS
<1>7. Follows(k, x1, Settle(x1)) /\ (w = 0 => Settle(x1).val = 0)
  BY <1>1, <1>2, <1>5, <1>6, SettleGood
<1>8. Follows(k, x1, Settle(x1)) /\ x1.exists = e /\ x1.queue = q
  BY <1>5, <1>7, Assigned
<1>9. QED
  BY <1>1, <1>4, <1>7, <1>8 DEF Follows

\* The exit of a program applies its adjustment.
LEMMA ExitGood ==
    ASSUME NEW k \in Keys, NEW x, Good(k, x), NEW p \in Programs
    PROVE  /\ Follows(k, x, ExitOp(x, p))
           /\ k = "Empty" /\ p = Server /\ x.exists => ExitOp(x, p).queue = << >>
<1>1. PICK e, v, q, undo : /\ x = Sem(e, v, q, undo)
                           /\ v \in Nat /\ q \in Line(k) /\ undo \in [Programs -> Int]
                           /\ x.exists = e /\ x.val = v /\ x.queue = q /\ x.undo = undo
  BY GoodParts
<1>2. CASE ~x.exists
  <2>1. ExitOp(x, p) = x
    BY <1>2 DEF ExitOp
  <2>2. QED
    BY <1>2, <2>1 DEF Follows
<1>3. CASE x.exists
  <2> DEFINE w == Back(v + undo[p])
             rest == Without(q, p)
             x1 == Sem(e, w, rest, Cleared(undo, p))
  <2>1. ExitOp(x, p) = Settle(WithAll(x, w, rest, Cleared(undo, p)))
    BY <1>1, <1>3, ZenonT(40) DEF ExitOp, WithAll, Back, Cleared
  <2>2. ExitOp(x, p) = Settle(x1)
    BY <1>1, <2>1, Assigned
  <2>3. w \in Nat /\ Cleared(undo, p) \in [Programs -> Int]
    BY <1>1 DEF Back, Cleared
  <2>4. rest \in Line(k) /\ (q = << >> => rest = << >>)
        /\ (k = "Empty" /\ p = Server => rest = << >>)
    BY <1>1, Lines
  <2> HIDE DEF w, rest
  <2>5. x1 = Sem(e, w, rest, Cleared(undo, p))
    OBVIOUS
  <2> HIDE DEF x1
  <2>6. Follows(k, x1, Settle(x1))
    BY <2>3, <2>4, <2>5, SettleGood
  <2>7. Follows(k, x1, Settle(x1)) /\ x1.exists = e /\ x1.queue = rest
    BY <2>5, <2>6, Assigned
  <2>8. QED
    BY <1>1, <2>2, <2>4, <2>7 DEF Follows
<1>4. QED
  BY <1>2, <1>3

\* semWait takes a permit or goes to sleep.
LEMMA WaitGood ==
    ASSUME NEW k \in Keys, NEW x, Good(k, x), NEW p \in Programs,
           k = "Empty" => p = Server /\ x.queue = << >>,
           k # "Empty" => p \in Callers
    PROVE  /\ Good(k, WaitOp(x, p)) /\ WaitOp(x, p).exists = x.exists
           /\ x.val = 0 => /\ WaitOp(x, p).queue = Append(x.queue, p)
                           /\ WaitOp(x, p).val = 0
<1>1. PICK e, v, q, undo : /\ x = Sem(e, v, q, undo)
                           /\ v \in Nat /\ q \in Line(k) /\ undo \in [Programs -> Int]
                           /\ x.exists = e /\ x.val = v /\ x.queue = q /\ x.undo = undo
                           /\ q # << >> => v = 0
  BY GoodParts
<1>2. CASE v > 0
  <2> DEFINE x1 == Sem(e, v - 1, q, Took(undo, p))
  <2>1. WaitOp(x, p) = WithPermits(x, v - 1, Took(undo, p))
    BY <1>1, <1>2 DEF WaitOp, WithPermits, Took
  <2> DEFINE u == v - 1
  <2>2. u = v - 1
    OBVIOUS
  <2> HIDE DEF u
  <2>3. WithPermits(Sem(e, v, q, undo), u, Took(undo, p)) = Sem(e, u, q, Took(undo, p))
    BY Permitted
  <2>4. WithPermits(Sem(e, v, q, undo), v - 1, Took(undo, p)) = x1
    BY <2>2, <2>3
  <2>5. WaitOp(x, p) = x1
    BY <1>1, <2>1, <2>4
  <2>6. Took(undo, p) \in [Programs -> Int] /\ v - 1 \in Nat
    BY <1>1, <1>2 DEF Took
  <2>7. x1 = Sem(e, v - 1, q, Took(undo, p))
    OBVIOUS
  <2> HIDE DEF x1
  <2>8. IsSem(x1) /\ x1.exists = e /\ x1.val = v - 1 /\ x1.queue = q
    BY <2>6, <2>7, Made
  <2>9. q = << >> /\ v # 0
    BY <1>1, <1>2
  <2>10. Good(k, WaitOp(x, p)) /\ WaitOp(x, p).exists = x.exists /\ x.val # 0
    BY <1>1, <2>5, <2>8, <2>9 DEF Good
  <2>11. QED
    BY <2>10
<1>3. CASE v = 0
  <2>1. WaitOp(x, p) = WithQueue(x, Append(q, p))
    BY <1>1, <1>3 DEF WaitOp, WithQueue
  <2>2. WithQueue(Sem(e, v, q, undo), Append(q, p)) = Sem(e, v, Append(q, p), undo)
    BY Assigned
  <2>3. WaitOp(x, p) = Sem(e, 0, Append(q, p), undo)
    BY <1>1, <1>3, <2>1, <2>2
  <2> DEFINE none == 0
  <2>4. none \in Nat /\ none = 0 /\ WaitOp(x, p) = Sem(e, none, Append(q, p), undo)
    BY <2>3
  <2> HIDE DEF none
  <2>5. undo \in [Programs -> Int]
    BY <1>1
  <2> DEFINE y == WaitOp(x, p)
             longer == Append(q, p)
  <2>6. none \in Nat /\ y = Sem(e, none, longer, undo)
    BY <2>4
  <2> HIDE DEF y, longer
  <2>7. IsSem(y) /\ y.exists = e /\ y.val = none /\ y.queue = longer
    BY <2>5, <2>6, Made
  <2>8. /\ IsSem(WaitOp(x, p)) /\ WaitOp(x, p).exists = e
        /\ WaitOp(x, p).val = none /\ WaitOp(x, p).queue = Append(q, p)
    BY <2>7 DEF y, longer
  <2>9. Append(q, p) \in Line(k)
    <3>1. CASE k = "Empty"
      <4>1. q = << >> /\ p = Server
        BY <1>1, <3>1
      <4>2. Append(q, p) = <<Server>>
        BY <4>1
      <4>3. QED
        BY <3>1, <4>2 DEF Line
    <3>2. CASE k # "Empty"
      <4>1. q \in Seq(Callers) /\ p \in Callers
        BY <1>1, <3>2 DEF Line
      <4>2. QED
        BY <3>2, <4>1, AppendProperties DEF Line
    <3>3. QED
      BY <3>1, <3>2
  <2>10. QED
    BY <1>1, <2>8, <2>9, <2>4 DEF Good
<1>4. QED
  BY <1>1, <1>2, <1>3

\* A semaphore set that is not there, and one that is just made.
LEMMA AbsentGood == /\ \A k \in Keys : Good(k, Absent) /\ Absent.queue = << >>
                    /\ ~Absent.exists
<1>1. Absent = Sem(FALSE, 0, << >>, [p \in Programs |-> 0])
  BY Zenon DEF Absent, Sem
<1>2. \A k \in Keys : << >> \in Line(k)
  BY DEF Line
<1> DEFINE e == FALSE
           zero == [p \in Programs |-> 0]
<1>3. zero \in [Programs -> Int] /\ 0 \in Nat
  OBVIOUS
<1>4. Absent = Sem(e, 0, << >>, zero) /\ ~e
  BY <1>1
<1> HIDE DEF e, zero
<1>5. IsSem(Absent) /\ Absent.exists = e /\ Absent.val = 0 /\ Absent.queue = << >>
  BY <1>3, <1>4, Made
<1>6. QED
  BY <1>2, <1>4, <1>5 DEF Good

\* semInit finds a set, or makes one without permits.
LEMMA CreateGood ==
    ASSUME NEW k \in Keys, NEW x, Good(k, x)
    PROVE  /\ Good(k, CreateOp(x)) /\ CreateOp(x).exists
           /\ x.exists => CreateOp(x) = x
           /\ ~x.exists => CreateOp(x).queue = << >>
<1>1. CASE x.exists
  BY <1>1 DEF CreateOp
<1>2. CASE ~x.exists
  <2> DEFINE yes == TRUE
             none == 0
             empty == << >>
             made == Sem(yes, none, empty, Zero)
  <2>1. Absent = Sem(FALSE, 0, << >>, Zero)
    BY DEF Absent, Sem, Zero
  <2>2. yes /\ none \in Nat /\ none = 0 /\ empty = << >> /\ empty \in Line(k)
        /\ Zero \in [Programs -> Int]
    BY DEF Line, Zero
  <2>3. CreateOp(x) = [Sem(FALSE, none, empty, Zero) EXCEPT !.exists = yes]
    BY <1>2, <2>1 DEF CreateOp
  <2> HIDE DEF yes, none, empty
  <2>4. [Sem(FALSE, none, empty, Zero) EXCEPT !.exists = yes] = Sem(yes, none, empty, Zero)
    BY DEF Sem
  <2>5. made = Sem(yes, none, empty, Zero) /\ CreateOp(x) = made
    BY <2>3, <2>4
  <2> DEFINE z == Zero
  <2>6. none \in Nat /\ z \in [Programs -> Int] /\ made = Sem(yes, none, empty, z)
    BY <2>2, <2>5
  <2> HIDE DEF made, z
  <2>7. IsSem(made) /\ made.exists = yes /\ made.val = none /\ made.queue = empty
    BY <2>6, Made
  <2>8. QED
    BY <1>2, <2>2, <2>5, <2>7 DEF Good
<1>3. QED
  BY <1>1, <1>2

\* semDestroy removes a set and wakes who sleeps.
LEMMA DestroyGood ==
    ASSUME NEW k \in Keys, NEW x, Good(k, x)
    PROVE  /\ Good(k, DestroyOp(x)) /\ DestroyOp(x).queue = << >>
           /\ ~DestroyOp(x).exists
<1>1. PICK e, v, q, undo : /\ x = Sem(e, v, q, undo)
                           /\ v \in Nat /\ q \in Line(k) /\ undo \in [Programs -> Int]
  BY GoodParts
<1> DEFINE no == FALSE
           empty == << >>
<1>2. DestroyOp(Sem(e, v, q, undo)) =
        [[Sem(e, v, q, undo) EXCEPT !.exists = no] EXCEPT !.queue = empty]
  BY DEF DestroyOp
<1>3. ~no /\ empty = << >> /\ empty \in Line(k)
  BY DEF Line
<1> HIDE DEF no, empty
<1>4. [Sem(e, v, q, undo) EXCEPT !.exists = no] = Sem(no, v, q, undo)
  BY DEF Sem
<1>5. [Sem(no, v, q, undo) EXCEPT !.queue = empty] = Sem(no, v, empty, undo)
  BY DEF Sem
<1>6. DestroyOp(x) = Sem(no, v, empty, undo)
  BY <1>1, <1>2, <1>4, <1>5
<1>7. /\ IsSem(DestroyOp(x)) /\ DestroyOp(x).exists = no
      /\ DestroyOp(x).queue = empty
  BY <1>1, <1>6, Made
<1>8. QED
  BY <1>3, <1>7 DEF Good

\* A signal takes rpc out of the queue.
LEMMA WakeGood ==
    ASSUME NEW k \in Keys, NEW x, Good(k, x)
    PROVE  LET y == [x EXCEPT !.queue = Without(@, Server)]
           IN  Good(k, y) /\ y.exists = x.exists /\ (k = "Empty" => y.queue = << >>)
<1>1. PICK e, v, q, undo : /\ x = Sem(e, v, q, undo)
                           /\ v \in Nat /\ q \in Line(k) /\ undo \in [Programs -> Int]
                           /\ x.exists = e /\ x.val = v /\ x.queue = q
                           /\ q # << >> => v = 0
  BY GoodParts
<1> DEFINE rest == Without(q, Server)
           y == [x EXCEPT !.queue = Without(@, Server)]
<1>2. y = WithQueue(x, rest)
  BY <1>1 DEF WithQueue
<1>3. /\ rest \in Line(k) /\ (k = "Empty" => rest = << >>) /\ (q = << >> => rest = << >>)
  BY <1>1, Who, Lines
<1> HIDE DEF rest
<1> HIDE DEF y
<1>4. y = Sem(e, v, rest, undo)
  <2>1. WithQueue(Sem(e, v, q, undo), rest) = Sem(e, v, rest, undo)
    BY Assigned
  <2>2. QED
    BY <1>1, <1>2, <2>1
<1>5. IsSem(y) /\ y.exists = e /\ y.val = v /\ y.queue = rest
  BY <1>1, <1>4, Made
<1>6. Good(k, y) /\ y.exists = x.exists /\ (k = "Empty" => y.queue = << >>)
  BY <1>1, <1>3, <1>5 DEF Good
<1>7. QED
  BY <1>6 DEF y
------------------------------------------------------------------------------
(* The sets and what rpc has opened *)

\* The sets after a step that removes none.
Intact == /\ sems' = [s \in Keys \X Ages |-> sems'[s]]
          /\ \A k \in Keys, a \in Ages :
                /\ Good(k, sems'[<<k, a>>])
                /\ sems[<<k, a>>].exists => sems'[<<k, a>>].exists
                /\ sems'[<<k, a>>].exists => a = semid[k]

\* The same of a step that does not put rpc to sleep.
Kept == /\ Intact
        /\ \A a \in Ages : sems[<<"Empty", a>>].queue = << >>
                            => sems'[<<"Empty", a>>].queue = << >>

\* A step that does not touch them.
LEMMA KeptSame == ASSUME Base, sems' = sems PROVE Kept
  BY DEF Base, Shape, Sets, Kept, Intact

\* A step that changes one set.
LEMMA IntactOne ==
    ASSUME Base, NEW k \in Keys, NEW a \in Ages, NEW y,
           sems' = [sems EXCEPT ![<<k, a>>] = y],
           Good(k, y),
           sems[<<k, a>>].exists => y.exists,
           y.exists => a = semid[k]
    PROVE  /\ Intact /\ sems'[<<k, a>>] = y
           /\ \A l \in Keys, b \in Ages :
                 <<l, b>> # <<k, a>> => sems'[<<l, b>>] = sems[<<l, b>>]
<1>1. sems = [s \in Keys \X Ages |-> sems[s]] /\ Sets
  BY DEF Base, Shape
<1>2. sems' = [s \in Keys \X Ages |-> IF s = <<k, a>> THEN y ELSE sems[s]]
  BY <1>1
<1>3. sems' = [s \in Keys \X Ages |-> sems'[s]] /\ sems'[<<k, a>>] = y
  BY <1>2
<1>4. ASSUME NEW l \in Keys, NEW b \in Ages
      PROVE  /\ Good(l, sems'[<<l, b>>])
             /\ sems[<<l, b>>].exists => sems'[<<l, b>>].exists
             /\ sems'[<<l, b>>].exists => b = semid[l]
             /\ <<l, b>> # <<k, a>> => sems'[<<l, b>>] = sems[<<l, b>>]
  <2>1. CASE l = k /\ b = a
    BY <1>3, <2>1
  <2>2. CASE ~(l = k /\ b = a)
    <3>1. sems'[<<l, b>>] = sems[<<l, b>>]
      BY <1>2, <2>2
    <3>2. QED
      BY <1>1, <3>1 DEF Sets
  <2>3. QED
    BY <2>1, <2>2
<1>5. QED
  BY <1>3, <1>4 DEF Intact

\* A step that changes one set and lets nobody new wait for Empty.
LEMMA KeptOne ==
    ASSUME Base, NEW k \in Keys, NEW a \in Ages, NEW y,
           sems' = [sems EXCEPT ![<<k, a>>] = y],
           Good(k, y),
           sems[<<k, a>>].exists => y.exists,
           y.exists => a = semid[k],
           k = "Empty" /\ sems[<<k, a>>].queue = << >> => y.queue = << >>
    PROVE  Kept
<1>1. /\ Intact /\ sems'[<<k, a>>] = y
      /\ \A l \in Keys, b \in Ages :
            <<l, b>> # <<k, a>> => sems'[<<l, b>>] = sems[<<l, b>>]
  BY IntactOne
<1>2. ASSUME NEW b \in Ages, sems[<<"Empty", b>>].queue = << >>
      PROVE  sems'[<<"Empty", b>>].queue = << >>
  <2>1. CASE <<"Empty", b>> = <<k, a>>
    BY <1>1, <1>2, <2>1
  <2>2. CASE <<"Empty", b>> # <<k, a>>
    BY <1>1, <1>2, <2>2, Who
  <2>3. QED
    BY <2>1, <2>2
<1>3. QED
  BY <1>1, <1>2 DEF Kept

\* A step that changes all of them.
LEMMA KeptAll ==
    ASSUME Base, sems' = [s \in Keys \X Ages |-> sems'[s]],
           \A k \in Keys, a \in Ages : Follows(k, sems[<<k, a>>], sems'[<<k, a>>])
    PROVE  Kept
  BY Who DEF Base, Kept, Intact, Sets, Follows

\* When rpc is awake nobody waits for Empty.
LEMMA Awake == ASSUME Base, ~Asleep(Server)
               PROVE  \A a \in Ages : sems[<<"Empty", a>>].queue = << >>
<1>1. SUFFICES ASSUME NEW a \in Ages, sems[<<"Empty", a>>].queue # << >>
               PROVE  FALSE
  OBVIOUS
<1>2. sems[<<"Empty", a>>].queue \in Line("Empty") /\ <<"Empty", a>> \in Keys \X Ages
  BY Who DEF Base, Sets, Good
<1>3. sems[<<"Empty", a>>].queue = <<Server>>
  BY <1>1, <1>2 DEF Line
<1>4. DOMAIN <<Server>> = {1} /\ <<Server>>[1] = Server
  OBVIOUS
<1>5. Server \in Sleepers(sems[<<"Empty", a>>])
  BY <1>3, <1>4 DEF Sleepers
<1>6. QED
  BY <1>2, <1>5 DEF Asleep

\* When rpc is asleep it waits for Empty, and what it holds is up.
LEMMA AsleepUp ==
    ASSUME Base, Asleep(Server)
    PROVE  Resting /\ Up
<1>1. PICK s \in Keys \X Ages : Server \in Sleepers(sems[s])
  BY DEF Asleep
<1>2. PICK k \in Keys, a \in Ages : s = <<k, a>>
  OBVIOUS
<1>3. sems[<<k, a>>].queue \in Line(k) /\ (sems[<<k, a>>].exists => a = semid[k])
  BY DEF Base, Sets, Good
<1>4. Server \in Sleepers(sems[<<k, a>>])
  BY <1>1, <1>2
<1>5. PICK j \in DOMAIN sems[<<k, a>>].queue : sems[<<k, a>>].queue[j] = Server
  BY <1>4 DEF Sleepers
<1>6. k = "Empty"
  <2>1. SUFFICES ASSUME k # "Empty" PROVE FALSE
    OBVIOUS
  <2>2. sems[<<k, a>>].queue \in Seq(Callers)
    BY <1>3, <2>1 DEF Line
  <2>3. sems[<<k, a>>].queue[j] \in Callers
    BY <1>5, <2>2
  <2>4. QED
    BY <1>5, <2>3, Who
<1>7. DOMAIN << >> = {}
  OBVIOUS
<1>8. sems[<<"Empty", a>>].queue = <<Server>>
  BY <1>3, <1>5, <1>6, <1>7 DEF Line
<1>9. <<Server>> # << >>
  OBVIOUS
<1>10. /\ sems[<<"Empty", a>>].exists
       /\ pc[Server] = "load" /\ a = sem[Server]["Empty"]
  BY <1>8, <1>9 DEF Base, Waiter
<1>11. a = semid["Empty"] /\ a \in Ages
  BY <1>3, <1>6, <1>10
<1>12. Resting
  BY <1>8, <1>10, <1>11 DEF Resting, Named
<1>13. ~Lost("Empty")
  BY <1>10, <1>11 DEF Lost, Ages
<1>14. Up \/ Down
  BY <1>10 DEF Base, Holding, Serving
<1>15. QED
  BY <1>12, <1>13, <1>14 DEF Down

\* What rpc has stays, while the keys name the same sets.
LEMMA HasKept ==
    ASSUME Base, Intact, semid' = semid, sem'[Server] = sem[Server]
    PROVE  \A k \in Keys : (Has(k) => Has(k)') /\ (Lost(k) => Lost(k)')
<1>1. SUFFICES ASSUME NEW k \in Keys PROVE (Has(k) => Has(k)') /\ (Lost(k) => Lost(k)')
  OBVIOUS
<1>2. semid[k] \in Ages
  BY DEF Base, Shape
<1>3. sems[<<k, semid[k]>>].exists => sems'[<<k, semid[k]>>].exists
  BY <1>2 DEF Intact
<1>4. QED
  BY <1>3 DEF Has, Lost, Named

\* A step of an app leaves rpc what it has.
LEMMA CallerKeeps ==
    ASSUME Base, Kept, Shape', semid' = semid, segment' = segment,
           setting' = setting, resume' = resume,
           shm'[Server] = shm[Server], sem'[Server] = sem[Server],
           pc'[Server] = pc[Server],
           \/ signals' = signals
           \/ signals' = signals + 1 /\ signals < MaxSignals /\ setting = "harsh"
    PROVE  Base'
<1>1. Sets'
  BY DEF Kept, Intact, Sets
<1>2. Waiter'
  BY Who DEF Kept, Intact, Waiter, Base
<1>3. Aged'
  <2>1. Aged /\ semid \in [Keys -> Ages] /\ segment \in Ages /\ MaxSignals \in Nat
    BY RpcAssumption DEF Base, Shape
  <2>2. CASE signals' = signals
    BY <2>1, <2>2 DEF Aged
  <2>3. CASE signals' = signals + 1 /\ signals < MaxSignals /\ setting = "harsh"
    <3>1. /\ semid["Empty"] \in Int /\ semid["Full"] \in Int /\ segment \in Int
          /\ signals \in Int /\ signals' \in 0..MaxSignals
      BY <2>1, <2>3, Who DEF Aged, Ages
    <3>2. /\ semid["Empty"] <= signals' + (IF pc[Server] = "destroyEmpty" THEN 0 ELSE 1)
          /\ semid["Full"] <= signals' + (IF pc[Server] \in {"destroyEmpty", "destroyFull"}
                                          THEN 0 ELSE 1)
          /\ segment <= signals' + (IF pc[Server] \in Handler THEN 0 ELSE 1)
      BY <2>1, <2>3, <3>1 DEF Aged
    <3>3. /\ setting \in Settings /\ setting' = "harsh"
          /\ resume \in {"off", "failed"} \cup Serving
          /\ pc[Server] \in Handler => resume # "off"
      BY <2>1, <2>3 DEF Aged
    <3>4. QED
      BY <3>1, <3>2, <3>3 DEF Aged
  <2>4. QED
    BY <2>2, <2>3
<1>4. Holding'
  <2>1. \A k \in Keys : (Has(k) => Has(k)') /\ (Lost(k) => Lost(k)')
    BY HasKept DEF Kept
  <2>2. (Up => Up') /\ (Down => Down')
    BY <2>1, Who DEF Up, Down
  <2>3. QED
    BY <2>1, <2>2, Who DEF Holding, Base
<1>5. QED
  BY <1>1, <1>2, <1>3, <1>4 DEF Base

\* A step of rpc, which is awake, when it stays so.
LEMMA ServerKeeps ==
    ASSUME Base, Kept, Shape', semid' = semid, segment' = segment,
           setting' = setting, resume' = resume, signals' = signals,
           ~Asleep(Server), Holding',
           pc[Server] \notin Handler, pc'[Server] \notin Handler
    PROVE  Base'
<1>1. Sets'
  BY DEF Kept, Intact, Sets
<1>2. Waiter'
  BY Who, Awake DEF Kept, Waiter
<1>3. Aged'
  <2>1. /\ pc[Server] \notin {"destroyEmpty", "destroyFull"}
        /\ pc'[Server] \notin {"destroyEmpty", "destroyFull"}
    BY DEF Handler
  <2>2. /\ semid["Empty"] <= signals + 1 /\ semid["Full"] <= signals + 1
        /\ segment <= signals + 1
    BY <2>1 DEF Aged, Base
  <2>3. /\ signals \in 0..MaxSignals
        /\ setting \in Settings /\ (setting # "harsh" => signals = 0)
        /\ resume \in {"off", "failed"} \cup Serving
    BY DEF Aged, Base
  <2>4. /\ semid'["Empty"] <= signals' + 1 /\ semid'["Full"] <= signals' + 1
        /\ segment' <= signals' + 1
    BY <2>2
  <2>5. QED
    BY <2>1, <2>3, <2>4 DEF Aged
<1>4. QED
  BY <1>1, <1>2, <1>3 DEF Base
------------------------------------------------------------------------------
(* The steps of the apps *)

\* One program moves.
LEMMA Moved ==
    ASSUME Places, NEW p \in Programs, NEW label, Goto(p, label),
           p = Server => label \in ServerLabels,
           p # Server => label \in CallerLabels
    PROVE  /\ Places' /\ pc'[p] = label
           /\ \A q \in Programs : q # p => pc'[q] = pc[q]
<1>1. pc \in [Programs -> ServerLabels \cup CallerLabels]
  BY DEF Places
<1>2. label \in ServerLabels \cup CallerLabels
  OBVIOUS
<1>3. pc' \in [Programs -> ServerLabels \cup CallerLabels]
  BY <1>1, <1>2 DEF Goto
<1>4. pc'[p] = label /\ \A q \in Programs : q # p => pc'[q] = pc[q]
  BY <1>1 DEF Goto
<1>5. QED
  BY <1>3, <1>4, Who DEF Places

\* The variables have their shape when they keep it one by one.
LEMMA Shaped ==
    ASSUME Base, Intact, Places', segment' = segment, semid' = semid,
           shm' \in [Programs -> Ages], sem' \in [Programs -> [Keys -> Ages]],
           cell' = [g \in Ages |-> cell'[g]],
           result' = [c \in Callers |-> result'[c]]
    PROVE  Shape'
<1>1. sems' = [s \in Keys \X Ages |-> sems'[s]]
  BY DEF Intact
<1>2. semid' \in [Keys -> Ages] /\ segment' \in Ages
  BY DEF Base, Shape
<1>3. QED
  BY <1>1, <1>2 DEF Shape

\* What keys, segments and programs name has an age.
LEMMA Ids == ASSUME Base
             PROVE  /\ segment \in Ages /\ \A k \in Keys : semid[k] \in Ages
                    /\ \A p \in Programs : shm[p] \in Ages
                    /\ \A p \in Programs, k \in Keys : sem[p][k] \in Ages
                    /\ Places
  BY DEF Base, Shape

\* A step of an app that changes no set.
LEMMA CallerMoves ==
    ASSUME Base, NEW c \in Callers, NEW label \in CallerLabels, Goto(c, label),
           Kept, semid' = semid, segment' = segment, setting' = setting,
           resume' = resume,
           shm' = shm \/ \E g \in Ages : shm' = [shm EXCEPT ![c] = g],
           sem' = sem \/ \E k \in Keys, a \in Ages : sem' = [sem EXCEPT ![c][k] = a],
           cell' = cell \/ \E g, x : cell' = [cell EXCEPT ![g] = x],
           result' = result \/ \E x : result' = [result EXCEPT ![c] = x],
           \/ signals' = signals
           \/ signals' = signals + 1 /\ signals < MaxSignals /\ setting = "harsh"
    PROVE  Base'
<1>1. c \in Programs /\ c # Server /\ Server \in Programs
  BY Who
<1>2. Places' /\ pc'[Server] = pc[Server]
  BY <1>1, Ids, Moved
<1>3. shm' \in [Programs -> Ages] /\ shm'[Server] = shm[Server]
  BY <1>1 DEF Base, Shape
<1>4. sem' \in [Programs -> [Keys -> Ages]] /\ sem'[Server] = sem[Server]
  <2>1. sem \in [Programs -> [Keys -> Ages]]
    BY DEF Base, Shape
  <2>2. CASE sem' = sem
    BY <2>1, <2>2
  <2>3. CASE \E k \in Keys, a \in Ages : sem' = [sem EXCEPT ![c][k] = a]
    <3>1. PICK k \in Keys, a \in Ages : sem' = [sem EXCEPT ![c][k] = a]
      BY <2>3
    <3>2. [sem[c] EXCEPT ![k] = a] \in [Keys -> Ages]
      BY <1>1, <2>1
    <3>3. sem' = [sem EXCEPT ![c] = [sem[c] EXCEPT ![k] = a]]
      BY <1>1, <2>1, <3>1
    <3>4. QED
      BY <1>1, <2>1, <3>2, <3>3
  <2>4. QED
    BY <2>2, <2>3
<1>5. cell' = [g \in Ages |-> cell'[g]]
  <2>1. cell = [g \in Ages |-> cell[g]]
    BY DEF Base, Shape
  <2>2. CASE cell' = cell
    BY <2>1, <2>2
  <2>3. CASE \E g, x : cell' = [cell EXCEPT ![g] = x]
    BY <2>1, <2>3
  <2>4. QED
    BY <2>2, <2>3
<1>6. result' = [d \in Callers |-> result'[d]]
  <2>1. result = [d \in Callers |-> result[d]]
    BY DEF Base, Shape
  <2>2. CASE result' = result
    BY <2>1, <2>2
  <2>3. CASE \E x : result' = [result EXCEPT ![c] = x]
    BY <2>1, <2>3
  <2>4. QED
    BY <2>2, <2>3
<1>7. Shape'
  BY <1>2, <1>3, <1>4, <1>5, <1>6, Shaped DEF Kept
<1>8. QED
  BY <1>2, <1>3, <1>4, <1>7, CallerKeeps

\* What a call of an app changes, whether it succeeds or not.
LEMMA CallKeeps ==
    ASSUME Base, NEW p \in Programs, NEW k \in Keys, NEW a \in Ages, NEW y, NEW from,
           NEW next, Call(p, from, <<k, a>>, y, next),
           Good(k, y), y.exists = sems[<<k, a>>].exists,
           k = "Empty" /\ sems[<<k, a>>].queue = << >> => y.queue = << >>
    PROVE  Kept /\ (Goto(p, next) \/ Goto(p, "failed"))
<1>1. sems[<<k, a>>].exists => a = semid[k]
  BY DEF Base, Sets
<1>2. CASE /\ sems[<<k, a>>].exists
           /\ sems' = [sems EXCEPT ![<<k, a>>] = y]
           /\ Goto(p, next)
  <2>1. sems' = [sems EXCEPT ![<<k, a>>] = y] /\ (y.exists => a = semid[k])
    BY <1>1, <1>2
  <2>2. Kept
    BY <2>1, KeptOne
  <2>3. QED
    BY <1>2, <2>2
<1>3. CASE sems' = sems /\ Goto(p, "failed")
  BY <1>3, KeptSame
<1>4. QED
  BY <1>2, <1>3 DEF Call

\* A program that opens a set.
LEMMA InitKeeps ==
    ASSUME Base, NEW p \in Programs, NEW k \in Keys, NEW from, NEW next,
           SemInit(p, from, Named(k), next)
    PROVE  Kept /\ Goto(p, next) /\ sems'[Named(k)].exists
<1>1. Named(k) = <<k, semid[k]>> /\ semid[k] \in Ages
  BY Ids DEF Named
<1> DEFINE y == CreateOp(sems[<<k, semid[k]>>])
<1>2. sems' = [sems EXCEPT ![<<k, semid[k]>>] = y]
  BY <1>1 DEF SemInit
<1>3. Good(k, sems[<<k, semid[k]>>])
  BY <1>1 DEF Base, Sets
<1>4. /\ Good(k, y) /\ y.exists
      /\ sems[<<k, semid[k]>>].queue = << >> => y.queue = << >>
  BY <1>3, CreateGood
<1> HIDE DEF y
<1>5. Kept
  BY <1>1, <1>2, <1>4, KeptOne
<1>6. sems'[<<k, semid[k]>>] = y
  BY <1>1, <1>2 DEF Base, Shape
<1>7. QED
  BY <1>1, <1>4, <1>5, <1>6 DEF SemInit

\* The end of a program.
LEMMA LeaveKeeps ==
    ASSUME Base, NEW p \in Programs, NEW how, Leave(p, how)
    PROVE  Kept /\ Goto(p, how)
<1>1. sems' = [s \in Keys \X Ages |-> ExitOp(sems[s], p)]
  BY DEF Leave
<1>2. \A k \in Keys, a \in Ages : sems'[<<k, a>>] = ExitOp(sems[<<k, a>>], p)
  BY <1>1
<1>3. \A k \in Keys, a \in Ages : Follows(k, sems[<<k, a>>], sems'[<<k, a>>])
  BY <1>2, ExitGood DEF Base, Sets
<1>4. sems' = [s \in Keys \X Ages |-> sems'[s]]
  BY <1>1
<1>5. QED
  BY <1>3, <1>4, KeptAll DEF Leave

\* The set on which p calls.
LEMMA MineIs == ASSUME Base, NEW p \in Programs, NEW k \in Keys
                PROVE  /\ Mine(p, k) = <<k, sem[p][k]>> /\ sem[p][k] \in Ages
                       /\ Good(k, sems[<<k, sem[p][k]>>])
<1>1. sem[p][k] \in Ages
  BY Ids
<1>2. QED
  BY <1>1 DEF Mine, Base, Sets

\* The post of any program.
LEMMA PostKeeps ==
    ASSUME Base, NEW p \in Programs, NEW k \in Keys, NEW from, NEW next,
           SemPost(p, from, Mine(p, k), next)
    PROVE  Kept /\ (Goto(p, next) \/ Goto(p, "failed"))
<1> DEFINE y == PostOp(sems[<<k, sem[p][k]>>], p)
<1>1. Call(p, from, <<k, sem[p][k]>>, y, next)
  BY MineIs DEF SemPost
<1>2. sem[p][k] \in Ages /\ Follows(k, sems[<<k, sem[p][k]>>], y)
  BY MineIs, PostGood
<1> HIDE DEF y
<1>3. QED
  BY <1>1, <1>2, CallKeeps DEF Follows

\* Every step of an app keeps the base.
LEMMA AppBase == ASSUME Base, NEW c \in Callers, App(c) PROVE Base'
<1>1. c \in Programs /\ c # Server /\ "Empty" \in Keys /\ "Full" \in Keys
  BY Who
<1>2. ASSUME Attach(c) PROVE Base'
  <2>1. Kept
    BY <1>2, KeptSame DEF Attach
  <2>2. PICK label \in {"write", "failed"} : Goto(c, label)
    BY <1>1, <1>2 DEF Attach
  <2>3. label \in CallerLabels
    BY <2>2 DEF CallerLabels, Before
  <2>4. UNCHANGED <<memVars, idVars, runVars>>
    BY <1>2 DEF Attach
  <2>5. QED
    BY <2>1, <2>2, <2>3, <2>4, CallerMoves DEF memVars, idVars, runVars
<1>3. ASSUME Open(c) PROVE Base'
  <2>1. PICK k \in Keys, from \in {"openEmpty", "openFull"},
             label \in {"postEmpty", "waitFull"} :
           /\ SemInit(c, from, Named(k), label)
           /\ sem' = [sem EXCEPT ![c][k] = semid[k]]
    BY <1>1, <1>3 DEF Open
  <2>2. Kept /\ Goto(c, label) /\ semid[k] \in Ages
    BY <1>1, <2>1, InitKeeps, Ids
  <2>3. label \in CallerLabels
    BY <2>1 DEF CallerLabels, Before, Posted
  <2>4. UNCHANGED <<memVars, segment, semid, shm, runVars>>
    BY <1>3 DEF Open
  <2>5. QED
    BY <2>1, <2>2, <2>3, <2>4, CallerMoves DEF memVars, runVars
<1>4. ASSUME Ask(c) PROVE Base'
  <2>1. CASE WriteCell(c, "write", c, "openEmpty")
    <3>1. Kept
      BY <2>1, KeptSame DEF WriteCell
    <3>2. Goto(c, "openEmpty") /\ "openEmpty" \in CallerLabels
      BY <2>1 DEF WriteCell, CallerLabels, Before
    <3>3. /\ cell' = [cell EXCEPT ![shm[c]] = c]
          /\ UNCHANGED <<num, result, idVars, runVars>>
      BY <2>1 DEF WriteCell
    <3>4. QED
      BY <3>1, <3>2, <3>3, CallerMoves DEF idVars, runVars
  <2>2. CASE /\ SemPost(c, "postEmpty", Mine(c, "Empty"), "openFull")
             /\ UNCHANGED <<memVars, idVars, runVars>>
    <3>1. Kept /\ (Goto(c, "openFull") \/ Goto(c, "failed"))
      BY <1>1, <2>2, PostKeeps
    <3>2. "openFull" \in CallerLabels /\ "failed" \in CallerLabels
      BY DEF CallerLabels, Posted
    <3>3. QED
      BY <2>2, <3>1, <3>2, CallerMoves DEF memVars, idVars, runVars
  <2>3. QED
    BY <1>4, <2>1, <2>2 DEF Ask
<1>5. ASSUME Await(c) PROVE Base'
  <2> DEFINE y == WaitOp(sems[<<"Full", sem[c]["Full"]>>], c)
  <2>1. Call(c, "waitFull", <<"Full", sem[c]["Full"]>>, y, "read")
    BY <1>1, <1>5, MineIs DEF Await, SemWait
  <2>2. sem[c]["Full"] \in Ages /\ Good("Full", sems[<<"Full", sem[c]["Full"]>>])
    BY <1>1, MineIs
  <2>3. Good("Full", y) /\ y.exists = sems[<<"Full", sem[c]["Full"]>>].exists
    BY <1>1, <2>2, WaitGood
  <2> HIDE DEF y
  <2>4. Kept /\ (Goto(c, "read") \/ Goto(c, "failed"))
    BY <1>1, <2>1, <2>2, <2>3, CallKeeps
  <2>5. "read" \in CallerLabels /\ "failed" \in CallerLabels
    BY DEF CallerLabels, Posted
  <2>6. UNCHANGED <<memVars, idVars, runVars>>
    BY <1>5 DEF Await
  <2>7. QED
    BY <2>4, <2>5, <2>6, CallerMoves DEF memVars, idVars, runVars
<1>6. ASSUME Read(c) PROVE Base'
  <2>1. Kept
    BY <1>6, KeptSame DEF Read
  <2>2. Goto(c, "done") /\ "done" \in CallerLabels
    BY <1>6 DEF Read, CallerLabels
  <2>3. /\ result' = [result EXCEPT ![c] = cell[shm[c]]]
        /\ UNCHANGED <<cell, num, idVars, runVars>>
    BY <1>6 DEF Read
  <2>4. QED
    BY <2>1, <2>2, <2>3, CallerMoves DEF idVars, runVars
<1>7. ASSUME Exit(c) PROVE Base'
  <2>1. Kept /\ Goto(c, "exited") /\ "exited" \in CallerLabels
    BY <1>1, <1>7, LeaveKeeps DEF Exit, CallerLabels
  <2>2. UNCHANGED <<memVars, idVars, runVars>>
    BY <1>7 DEF Exit
  <2>3. QED
    BY <2>1, <2>2, CallerMoves DEF memVars, idVars, runVars
<1>8. QED
  BY <1>2, <1>3, <1>4, <1>5, <1>6, <1>7 DEF App

\* So does the start of one, and its end by a signal.
LEMMA CallerComes == ASSUME Base, NEW c \in Callers, StartCaller(c) PROVE Base'
<1>1. Kept
  BY KeptSame DEF StartCaller
<1>2. Goto(c, "shmat") /\ "shmat" \in CallerLabels
  BY DEF StartCaller, Shmget, CallerLabels, Before
<1>3. /\ shm' = [shm EXCEPT ![c] = segment] /\ segment' = segment
      /\ UNCHANGED <<memVars, semid, sem, resume, setting, signals>>
  BY DEF StartCaller, Shmget
<1>4. QED
  BY <1>1, <1>2, <1>3, Ids, CallerMoves DEF memVars

\* A signal ends an app.
LEMMA CallerKilled == ASSUME Base, NEW c \in Callers, Kill(c) PROVE Base'
<1>1. Kept /\ Goto(c, "exited") /\ "exited" \in CallerLabels
  BY Who, LeaveKeeps DEF Kill, CallerLabels
<1>2. /\ signals' = signals + 1 /\ signals < MaxSignals /\ setting = "harsh"
      /\ UNCHANGED <<memVars, idVars, resume, setting>>
  BY DEF Kill
<1>3. QED
  BY <1>1, <1>2, CallerMoves DEF memVars, idVars
------------------------------------------------------------------------------
(* The steps of rpc *)

\* Rpc serves, and goes on to serve or fails.
LEMMA ServingMoves ==
    ASSUME Base, Kept, ~Asleep(Server), pc[Server] \in Serving,
           NEW label \in Serving \cup {"failed"}, Goto(Server, label),
           UNCHANGED <<idVars, runVars, result>>,
           cell' = cell \/ \E g, x : cell' = [cell EXCEPT ![g] = x]
    PROVE  Base'
<1>1. label \in ServerLabels /\ label \notin Handler /\ pc[Server] \notin Handler
  BY DEF ServerLabels, Handler, Serving
<1>2. Places' /\ pc'[Server] = label
  BY <1>1, Who, Ids, Moved
<1>3. cell' = [g \in Ages |-> cell'[g]] /\ result' = [d \in Callers |-> result'[d]]
  <2>1. cell = [g \in Ages |-> cell[g]] /\ result = [d \in Callers |-> result[d]]
    BY DEF Base, Shape
  <2>2. CASE cell' = cell
    BY <2>1, <2>2
  <2>3. CASE \E g, x : cell' = [cell EXCEPT ![g] = x]
    BY <2>1, <2>3
  <2>4. QED
    BY <2>2, <2>3
<1>4. Shape'
  <2>1. shm' \in [Programs -> Ages] /\ sem' \in [Programs -> [Keys -> Ages]]
    BY DEF Base, Shape, idVars
  <2>2. QED
    BY <1>2, <1>3, <2>1, Shaped DEF Kept, idVars
<1>5. Holding'
  <2>1. \A k \in Keys : (Has(k) => Has(k)') /\ (Lost(k) => Lost(k)')
    BY HasKept DEF Kept, idVars
  <2>2. Up \/ Down
    BY DEF Base, Holding
  <2>3. (Up \/ Down)'
    BY <2>1, <2>2, Who DEF Up, Down, idVars
  <2>4. pc'[Server] \notin Opening \cup Handler
    BY <1>2 DEF Opening, Handler, Serving
  <2>5. QED
    BY <2>3, <2>4 DEF Holding, Opening, Handler
<1>6. QED
  BY <1>1, <1>2, <1>4, <1>5, ServerKeeps DEF idVars, runVars

\* Rpc opens its segment or a set, or ends.
LEMMA OutsideMoves ==
    ASSUME Base, Kept, ~Asleep(Server), pc[Server] \notin Handler,
           NEW label \in ServerLabels \ Handler, Goto(Server, label),
           UNCHANGED <<memVars, segment, semid, resume, setting, signals>>,
           shm' = shm \/ shm' = [shm EXCEPT ![Server] = segment],
           sem' = sem \/ \E k \in Keys : sem' = [sem EXCEPT ![Server][k] = semid[k]],
           pc'[Server] = label => Holding'
    PROVE  Base'
<1>1. Places' /\ pc'[Server] = label
  BY Who, Ids, Moved
<1>2. shm' \in [Programs -> Ages]
  BY DEF Base, Shape
<1>3. sem' \in [Programs -> [Keys -> Ages]]
  <2>1. sem \in [Programs -> [Keys -> Ages]] /\ semid \in [Keys -> Ages]
    BY DEF Base, Shape
  <2>2. CASE \E k \in Keys : sem' = [sem EXCEPT ![Server][k] = semid[k]]
    <3>1. PICK k \in Keys : sem' = [sem EXCEPT ![Server][k] = semid[k]]
      BY <2>2
    <3>2. [sem[Server] EXCEPT ![k] = semid[k]] \in [Keys -> Ages]
      BY <2>1, Who
    <3>3. sem' = [sem EXCEPT ![Server] = [sem[Server] EXCEPT ![k] = semid[k]]]
      BY <2>1, <3>1, Who
    <3>4. QED
      BY <2>1, <3>2, <3>3, Who
  <2>3. QED
    BY <2>1, <2>2
<1>4. Shape'
  <2>1. cell' = [g \in Ages |-> cell'[g]] /\ result' = [d \in Callers |-> result'[d]]
    BY DEF Base, Shape, memVars
  <2>2. QED
    BY <1>1, <1>2, <1>3, <2>1, Shaped DEF Kept
<1>5. QED
  BY <1>1, <1>4, ServerKeeps

\* A sleeping rpc is at load.
LEMMA NotAsleep == ASSUME Base, pc[Server] # "load" PROVE ~Asleep(Server)
  BY AsleepUp DEF Resting

\* Rpc starts with the segment that SHM_KEY names.
LEMMA ServerStarts == ASSUME Base, StartServer PROVE Base'
<1>1. pc[Server] \in {"off", "exited"} /\ Kept
  BY KeptSame DEF StartServer, Running
<1>2. ~Asleep(Server) /\ pc[Server] \notin Handler
  BY <1>1, NotAsleep DEF Handler
<1>3. "shmat" \in ServerLabels \ Handler
  BY DEF ServerLabels, Opening, Handler
<1>4. /\ Goto(Server, "shmat") /\ shm' = [shm EXCEPT ![Server] = segment]
      /\ UNCHANGED <<memVars, segment, semid, sem, resume, setting, signals>>
  BY DEF StartServer, Shmget
<1>5. pc'[Server] = "shmat" => Holding'
  <2>1. shm'[Server] = segment'
    BY <1>4, Who DEF Base, Shape
  <2>2. QED
    BY <2>1 DEF Holding, Serving, Opening
<1>6. QED
  BY <1>1, <1>2, <1>3, <1>4, <1>5, OutsideMoves

\* Rpc attaches its segment.
LEMMA ServerAttaches == ASSUME Base, Attach(Server) PROVE Base'
<1>1. pc[Server] = "shmat" /\ ~Asleep(Server) /\ Kept
  BY KeptSame DEF Attach, At
<1>2. PICK label \in {"openEmpty", "failed"} : Goto(Server, label)
  BY <1>1 DEF Attach
<1>3. UNCHANGED <<memVars, idVars, runVars>>
  BY DEF Attach
<1>4. label \in ServerLabels \ Handler /\ pc[Server] \notin Handler
  BY <1>1, <1>2 DEF ServerLabels, Opening, Handler
<1>5. pc'[Server] = label => Holding'
  <2>1. shm'[Server] = segment'
    BY <1>1, <1>3 DEF Base, Holding, Opening, idVars
  <2>2. QED
    BY <1>2, <2>1 DEF Holding, Serving, Opening
<1>6. QED
  BY <1>1, <1>2, <1>3, <1>4, <1>5, OutsideMoves DEF idVars, runVars

\* Rpc opens Empty and Full: then all it has is up.
LEMMA ServerOpens == ASSUME Base, Open(Server) PROVE Base'
<1>1. UNCHANGED <<memVars, segment, semid, shm, runVars>>
  BY DEF Open
<1>2. ASSUME NEW k \in Keys, NEW from \in {"openEmpty", "openFull"}, NEW label,
             SemInit(Server, from, Named(k), label),
             sem' = [sem EXCEPT ![Server][k] = semid[k]]
      PROVE  /\ Kept /\ Goto(Server, label) /\ ~Asleep(Server) /\ pc[Server] = from
             /\ Has(k)' /\ \A l \in Keys : l # k /\ Has(l) => Has(l)'
             /\ shm'[Server] = segment'
  <2>1. Kept /\ Goto(Server, label) /\ sems'[Named(k)].exists
    BY <1>2, Who, InitKeeps
  <2>2. pc[Server] = from /\ ~Asleep(Server)
    BY <1>2 DEF SemInit, At
  <2>3. /\ sem'[Server][k] = semid[k] /\ \A l \in Keys : l # k => sem'[Server][l] = sem[Server][l]
    BY <1>2, Who DEF Base, Shape
  <2>4. Has(k)'
    BY <1>1, <2>1, <2>3 DEF Has, Named
  <2>5. ASSUME NEW l \in Keys, l # k, Has(l) PROVE Has(l)'
    <3>1. sems'[<<l, semid[l]>>].exists
      BY <2>1, <2>5, Ids DEF Has, Named, Kept, Intact
    <3>2. QED
      BY <1>1, <2>3, <2>5, <3>1 DEF Has, Named
  <2>6. shm'[Server] = segment'
    BY <1>1, <1>2, <2>2 DEF Base, Holding, Opening
  <2>7. QED
    BY <2>1, <2>2, <2>4, <2>5, <2>6
<1>3. "openFull" \in ServerLabels \ Handler /\ "setEmpty" \in ServerLabels \ Handler
      /\ "openEmpty" \notin Handler /\ "openFull" \notin Handler
  BY DEF ServerLabels, Opening, Handler, Serving
<1>4. CASE /\ SemInit(Server, "openEmpty", Named("Empty"), "openFull")
           /\ sem' = [sem EXCEPT ![Server]["Empty"] = semid["Empty"]]
  <2>1. /\ Kept /\ Goto(Server, "openFull") /\ ~Asleep(Server)
        /\ pc[Server] = "openEmpty" /\ Has("Empty")' /\ shm'[Server] = segment'
    BY <1>2, <1>4, Who
  <2>2. pc'[Server] = "openFull" => Holding'
    BY <2>1 DEF Holding, Serving, Opening
  <2>3. QED
    BY <1>1, <1>3, <1>4, <2>1, <2>2, Who, OutsideMoves DEF runVars
<1>5. CASE /\ SemInit(Server, "openFull", Named("Full"), "setEmpty")
           /\ sem' = [sem EXCEPT ![Server]["Full"] = semid["Full"]]
  <2>1. /\ Kept /\ Goto(Server, "setEmpty") /\ ~Asleep(Server)
        /\ pc[Server] = "openFull" /\ Has("Full")' /\ shm'[Server] = segment'
        /\ (Has("Empty") => Has("Empty")')
    BY <1>2, <1>5, Who
  <2>2. Has("Empty")'
    BY <2>1 DEF Base, Holding
  <2>3. Up'
    BY <2>1, <2>2 DEF Up
  <2>4. pc'[Server] = "setEmpty" => Holding'
    BY <2>3 DEF Holding, Opening
  <2>5. QED
    BY <1>1, <1>3, <1>5, <2>1, <2>4, Who, OutsideMoves DEF runVars
<1>6. QED
  BY <1>4, <1>5 DEF Open

\* Rpc sets the values.
LEMMA ServerSets == ASSUME Base, SetValues PROVE Base'
<1>1. UNCHANGED <<memVars, idVars, runVars>>
  BY DEF SetValues
<1>2. PICK k \in Keys, from \in Serving, next \in Serving :
         SemInitValue(Server, from, Mine(Server, k), 0, next)
  BY Who DEF SetValues, Serving
<1> DEFINE zero == 0
           y == SetValOp(sems[<<k, sem[Server][k]>>], zero)
<1>3. Call(Server, from, <<k, sem[Server][k]>>, y, next)
  BY <1>2, Who, MineIs DEF SemInitValue
<1>4. zero \in Nat
  OBVIOUS
<1> HIDE DEF zero
<1>5. sem[Server][k] \in Ages /\ Follows(k, sems[<<k, sem[Server][k]>>], y)
  BY <1>4, Who, MineIs, SetGood
<1> HIDE DEF y
<1>6. Kept /\ (Goto(Server, next) \/ Goto(Server, "failed"))
  BY <1>3, <1>5, Who, CallKeeps DEF Follows
<1>7. pc[Server] \in Serving /\ ~Asleep(Server)
  BY <1>3 DEF Call, At
<1>8. QED
  BY <1>1, <1>6, <1>7, ServingMoves DEF memVars

\* Rpc reads the number.
LEMMA ServerLoads == ASSUME Base, Load PROVE Base'
<1>1. Kept /\ ~Asleep(Server) /\ pc[Server] \in Serving
  BY KeptSame DEF Load, At, Serving
<1>2. Goto(Server, "store") /\ "store" \in Serving /\ UNCHANGED <<idVars, runVars, result, cell>>
  BY DEF Load, Serving
<1>3. QED
  BY <1>1, <1>2, ServingMoves

\* Rpc writes the sum.
LEMMA ServerStores == ASSUME Base, Store PROVE Base'
<1>1. Kept /\ ~Asleep(Server) /\ pc[Server] \in Serving
  BY KeptSame DEF Store, WriteCell, At, Serving
<1>2. /\ Goto(Server, "postFull") /\ "postFull" \in Serving
      /\ UNCHANGED <<idVars, runVars, result>>
      /\ cell' = [cell EXCEPT ![shm[Server]] = Sum[num]]
  BY DEF Store, WriteCell, Serving
<1>3. QED
  BY <1>1, <1>2, ServingMoves

\* Rpc takes a permit, or goes to sleep where it has its set of Empty.
LEMMA WaitBase ==
    ASSUME Base, SemWait(Server, "waitEmpty", Mine(Server, "Empty"), "load"),
           UNCHANGED <<memVars, idVars, runVars>>
    PROVE  Base'
<1> DEFINE a == sem[Server]["Empty"]
           y == WaitOp(sems[<<"Empty", a>>], Server)
<1>1. a \in Ages /\ Good("Empty", sems[<<"Empty", a>>]) /\ Mine(Server, "Empty") = <<"Empty", a>>
  BY Who, MineIs
<1>2. Call(Server, "waitEmpty", <<"Empty", a>>, y, "load")
  BY <1>1 DEF SemWait
<1>3. pc[Server] = "waitEmpty" /\ ~Asleep(Server) /\ pc[Server] \in Serving
  BY <1>2 DEF Call, At, Serving
<1>4. \A b \in Ages : sems[<<"Empty", b>>].queue = << >>
  BY <1>3, Awake
<1>5. Good("Empty", y) /\ y.exists = sems[<<"Empty", a>>].exists
  BY <1>1, <1>4, Who, WaitGood
<1> HIDE DEF y
<1>6. CASE /\ sems[<<"Empty", a>>].exists
           /\ sems' = [sems EXCEPT ![<<"Empty", a>>] = y]
           /\ Goto(Server, "load")
  <2>1. a = semid["Empty"]
    BY <1>1, <1>6, Who DEF Base, Sets
  <2>2. /\ Intact /\ sems'[<<"Empty", a>>] = y
        /\ \A l \in Keys, b \in Ages :
              <<l, b>> # <<"Empty", a>> => sems'[<<l, b>>] = sems[<<l, b>>]
    BY <1>1, <1>5, <1>6, <2>1, Who, IntactOne
  <2>3. "load" \in ServerLabels /\ "load" \in Serving
    BY DEF ServerLabels, Serving
  <2>4. Places' /\ pc'[Server] = "load"
    BY <1>6, <2>3, Who, Ids, Moved
  <2>5. Shape'
    <3>1. /\ shm' \in [Programs -> Ages] /\ sem' \in [Programs -> [Keys -> Ages]]
          /\ cell' = [g \in Ages |-> cell'[g]] /\ result' = [d \in Callers |-> result'[d]]
      BY DEF Base, Shape, idVars, memVars
    <3>2. QED
      BY <2>2, <2>4, <3>1, Shaped DEF idVars
  <2>6. Sets'
    BY <2>2 DEF Intact, Sets, idVars
  <2>7. Waiter'
    <3>1. ASSUME NEW b \in Ages, sems'[<<"Empty", b>>].queue # << >>
          PROVE  b = a
      BY <1>4, <2>2, <3>1, Who
    <3>2. sems'[<<"Empty", a>>].exists /\ a = sem'[Server]["Empty"]
      BY <1>5, <1>6, <2>2 DEF idVars
    <3>3. QED
      BY <2>4, <3>1, <3>2 DEF Waiter
  <2>8. Aged'
    <3>1. pc'[Server] \notin Handler /\ pc[Server] \notin Handler
      BY <1>3, <2>4 DEF Handler
    <3>2. QED
      BY <1>3, <2>4, <3>1 DEF Base, Aged, idVars, runVars
  <2>9. Holding'
    <3>1. \A k \in Keys : (Has(k) => Has(k)') /\ (Lost(k) => Lost(k)')
      BY <2>2, HasKept DEF idVars
    <3>2. Up \/ Down
      BY <1>3 DEF Base, Holding
    <3>3. (Up \/ Down)'
      BY <3>1, <3>2, Who DEF Up, Down, idVars
    <3>4. QED
      BY <2>4, <3>3 DEF Holding, Opening
  <2>10. QED
    BY <2>5, <2>6, <2>7, <2>8, <2>9 DEF Base
<1>7. CASE sems' = sems /\ Goto(Server, "failed")
  <2>1. Kept
    BY <1>7, KeptSame
  <2>2. QED
    BY <1>3, <1>7, <2>1, ServingMoves DEF memVars
<1>8. QED
  BY <1>2, <1>6, <1>7 DEF Call

\* The semop calls of rpc.
LEMMA ServerWaits == ASSUME Base, Semop PROVE Base'
<1>1. CASE SemPost(Server, "postFull", Mine(Server, "Full"), "waitEmpty")
  <2>1. Kept /\ (Goto(Server, "waitEmpty") \/ Goto(Server, "failed"))
    BY <1>1, Who, PostKeeps
  <2>2. pc[Server] \in Serving /\ ~Asleep(Server) /\ "waitEmpty" \in Serving
    BY <1>1 DEF SemPost, Call, At, Serving
  <2>3. UNCHANGED <<memVars, idVars, runVars>>
    BY DEF Semop
  <2>4. QED
    BY <2>1, <2>2, <2>3, ServingMoves DEF memVars
<1>2. QED
  BY <1>1, WaitBase DEF Semop

\* Rpc exits.
LEMMA ServerExits == ASSUME Base, Exit(Server) PROVE Base'
<1>1. Kept /\ Goto(Server, "exited") /\ ~Asleep(Server) /\ pc[Server] \in {"failed", "done"}
  BY Who, LeaveKeeps DEF Exit, At
<1>2. "exited" \in ServerLabels \ Handler /\ pc[Server] \notin Handler
  BY <1>1 DEF ServerLabels, Handler
<1>3. pc'[Server] = "exited" => Holding'
  BY DEF Holding, Opening, Serving
<1>4. UNCHANGED <<memVars, idVars, runVars>>
  BY DEF Exit
<1>5. QED
  BY <1>1, <1>2, <1>3, <1>4, OutsideMoves DEF idVars, runVars
\* A signal that ends rpc.
LEMMA ServerKilled == ASSUME Base, Kill(Server) PROVE Base'
<1>1. Kept /\ Goto(Server, "exited")
  BY Who, LeaveKeeps DEF Kill
<1>2. /\ UNCHANGED <<memVars, idVars, resume, setting>>
      /\ signals' = signals + 1 /\ signals < MaxSignals /\ setting = "harsh"
  BY DEF Kill
<1>3. "exited" \in ServerLabels
  BY DEF ServerLabels
<1>4. Places' /\ pc'[Server] = "exited"
  BY <1>1, <1>3, Who, Ids, Moved
<1>5. Shape'
  <2>1. /\ shm' \in [Programs -> Ages] /\ sem' \in [Programs -> [Keys -> Ages]]
        /\ cell' = [g \in Ages |-> cell'[g]] /\ result' = [d \in Callers |-> result'[d]]
    BY <1>2 DEF Base, Shape, idVars, memVars
  <2>2. QED
    BY <1>1, <1>2, <1>4, <2>1, Shaped DEF Kept, idVars
<1>6. Sets'
  BY <1>1, <1>2 DEF Kept, Intact, Sets, idVars
<1>7. \A a \in Ages : sems'[<<"Empty", a>>].queue = << >>
  <2>1. SUFFICES ASSUME NEW a \in Ages PROVE sems'[<<"Empty", a>>].queue = << >>
    OBVIOUS
  <2>2. <<"Empty", a>> \in Keys \X Ages /\ Good("Empty", sems[<<"Empty", a>>])
    BY Who DEF Base, Sets
  <2>3. sems'[<<"Empty", a>>] = ExitOp(sems[<<"Empty", a>>], Server)
    BY <2>2 DEF Kill, Leave
  <2>4. CASE sems[<<"Empty", a>>].exists
    BY <2>2, <2>3, <2>4, Who, ExitGood
  <2>5. CASE ~sems[<<"Empty", a>>].exists
    <3>1. sems[<<"Empty", a>>].queue = << >>
      BY <2>5 DEF Base, Waiter
    <3>2. QED
      BY <1>1, <3>1 DEF Kept
  <2>6. QED
    BY <2>4, <2>5
<1>8. Waiter'
  BY <1>7 DEF Waiter
<1>9. Aged'
  <2>1. /\ semid["Empty"] \in Int /\ semid["Full"] \in Int /\ segment \in Int
        /\ signals \in 0..MaxSignals /\ MaxSignals \in Nat
        /\ resume \in {"off", "failed"} \cup Serving /\ setting \in Settings
    BY Ids, Who, RpcAssumption DEF Ages, Base, Aged
  <2>2. /\ semid["Empty"] <= signals + 1 /\ semid["Full"] <= signals + 1
        /\ segment <= signals + 1
    BY <2>1 DEF Base, Aged
  <2>3. /\ signals' \in 0..MaxSignals /\ semid'["Empty"] <= signals' + 1
        /\ semid'["Full"] <= signals' + 1 /\ segment' <= signals' + 1
    BY <1>2, <2>1, <2>2 DEF idVars
  <2>4. pc'[Server] \notin Handler
        /\ pc'[Server] \notin {"destroyEmpty", "destroyFull"}
    BY <1>4 DEF Handler
  <2>5. QED
    BY <1>2, <2>1, <2>3, <2>4 DEF Aged
<1>10. Holding'
  BY <1>4 DEF Holding, Opening, Serving
<1>11. QED
  BY <1>5, <1>6, <1>8, <1>9, <1>10 DEF Base

\* The handler starts: rpc is awake, and has not removed anything yet.
LEMMA Interrupted == ASSUME Base, SigInt PROVE Base'
<1>1. /\ UNCHANGED <<memVars, idVars, setting>> /\ Goto(Server, "destroyEmpty")
      /\ signals' = signals + 1 /\ signals < MaxSignals /\ setting = "harsh"
      /\ pc[Server] \in Serving
      /\ resume' = IF Asleep(Server) THEN "failed" ELSE pc[Server]
  BY DEF SigInt
<1>2. ASSUME NEW k \in Keys, NEW a \in Ages
      PROVE  LET y == sems'[<<k, a>>]
             IN  /\ Good(k, y) /\ y.exists = sems[<<k, a>>].exists
                 /\ k = "Empty" => y.queue = << >>
  <2>1. sems'[<<k, a>>] = [sems[<<k, a>>] EXCEPT !.queue = Without(@, Server)]
    BY DEF SigInt
  <2>2. Good(k, sems[<<k, a>>])
    BY DEF Base, Sets
  <2>3. QED
    BY <2>1, <2>2, WakeGood
<1>3. sems' = [s \in Keys \X Ages |-> sems'[s]]
  BY DEF SigInt
<1>4. Kept
  BY <1>2, <1>3, Who DEF Kept, Intact, Base, Sets
<1>5. "destroyEmpty" \in ServerLabels
  BY DEF ServerLabels, Handler
<1>6. Places' /\ pc'[Server] = "destroyEmpty"
  BY <1>1, <1>5, Who, Ids, Moved
<1>7. Shape'
  <2>1. /\ shm' \in [Programs -> Ages] /\ sem' \in [Programs -> [Keys -> Ages]]
        /\ cell' = [g \in Ages |-> cell'[g]] /\ result' = [d \in Callers |-> result'[d]]
    BY <1>1 DEF Base, Shape, idVars, memVars
  <2>2. QED
    BY <1>1, <1>4, <1>6, <2>1, Shaped DEF Kept, idVars
<1>8. Sets'
  BY <1>1, <1>4 DEF Kept, Intact, Sets, idVars
<1>9. Waiter'
  BY <1>2, Who DEF Waiter
<1>10. Aged'
  <2>1. /\ semid["Empty"] \in Int /\ semid["Full"] \in Int /\ segment \in Int
        /\ signals \in 0..MaxSignals /\ MaxSignals \in Nat /\ setting \in Settings
    BY Ids, Who, RpcAssumption DEF Ages, Base, Aged
  <2>2. /\ semid["Empty"] <= signals + 1 /\ semid["Full"] <= signals + 1
        /\ segment <= signals + 1
    BY <2>1 DEF Base, Aged
  <2>3. /\ signals' \in 0..MaxSignals /\ semid'["Empty"] <= signals'
        /\ semid'["Full"] <= signals' /\ segment' <= signals'
    BY <1>1, <2>1, <2>2 DEF idVars
  <2>4. resume' \in {"off", "failed"} \cup Serving /\ resume' # "off"
    BY <1>1 DEF Serving
  <2>5. pc'[Server] = "destroyEmpty" /\ pc'[Server] \in Handler
    BY <1>6 DEF Handler
  <2>6. /\ semid'["Empty"] <= signals' + 0 /\ semid'["Full"] <= signals' + 0
        /\ segment' <= signals' + 0
    BY <1>1, <2>1, <2>3 DEF idVars
  <2>7. QED
    BY <1>1, <2>1, <2>3, <2>4, <2>5, <2>6 DEF Aged
<1>11. Holding'
  <2>1. \A k \in Keys : (Has(k) => Has(k)') /\ (Lost(k) => Lost(k)')
    BY <1>1, <1>4, HasKept DEF Kept, idVars
  <2>2. Up \/ Down
    BY <1>1 DEF Base, Holding
  <2>3. (Up \/ Down)'
    BY <1>1, <2>1, <2>2, Who DEF Up, Down, idVars
  <2>4. QED
    BY <1>6, <2>3 DEF Holding, Opening
<1>12. QED
  BY <1>7, <1>8, <1>9, <1>10, <1>11 DEF Base

\* A set is destroyed: its key names a new one if it was there.
LEMMA Destroyed ==
    ASSUME Base, NEW k \in Keys, NEW from \in Handler, NEW next \in Handler,
           Destroy(k, from, next), semid'[k] \in Ages
    PROVE  /\ Shape' /\ Sets' /\ Waiter' /\ pc'[Server] = next
           /\ pc[Server] = from /\ ~Asleep(Server)
           /\ \A l \in Keys : l # k => /\ semid'[l] = semid[l]
                                       /\ Has(l) => Has(l)'
                                       /\ Lost(l) => Lost(l)'
           /\ \/ Has(k) /\ Lost(k)' /\ semid'[k] = semid[k] + 1
              \/ ~Has(k) /\ semid' = semid /\ (Lost(k) => Lost(k)')
           /\ UNCHANGED <<memVars, segment, shm, sem, runVars>>
<1> DEFINE a == sem[Server][k]
           y == DestroyOp(sems[<<k, a>>])
<1>1. a \in Ages /\ Good(k, sems[<<k, a>>]) /\ Mine(Server, k) = <<k, a>>
  BY Who, MineIs
<1>2. /\ pc[Server] = from /\ ~Asleep(Server)
      /\ sems' = [sems EXCEPT ![<<k, a>>] = y]
      /\ pc' = [q \in Programs |-> IF q = Server THEN next
                                   ELSE IF q \in Sleepers(sems[<<k, a>>]) THEN "failed"
                                   ELSE pc[q]]
      /\ semid' = [semid EXCEPT ![k] = IF sems[<<k, a>>].exists THEN @ + 1 ELSE @]
      /\ UNCHANGED <<memVars, segment, shm, sem, runVars>>
  BY <1>1 DEF Destroy, SemDestroy, At
<1>3. Good(k, y) /\ y.queue = << >> /\ ~y.exists
  BY <1>1, DestroyGood
<1> HIDE DEF y
<1>4. sems = [s \in Keys \X Ages |-> sems[s]] /\ semid \in [Keys -> Ages]
  BY DEF Base, Shape
<1>5. /\ sems' = [s \in Keys \X Ages |-> sems'[s]] /\ sems'[<<k, a>>] = y
      /\ \A l \in Keys, b \in Ages :
            <<l, b>> # <<k, a>> => sems'[<<l, b>>] = sems[<<l, b>>]
  <2>1. sems' = [s \in Keys \X Ages |-> IF s = <<k, a>> THEN y ELSE sems[s]]
    BY <1>2, <1>4
  <2>2. QED
    BY <1>1, <2>1
<1>6. sems[<<k, a>>].exists => a = semid[k]
  BY <1>1 DEF Base, Sets
<1>7. \A l \in Keys : l # k => semid'[l] = semid[l]
  BY <1>2, <1>4
<1>8. semid' \in [Keys -> Ages]
  <2>1. semid' = [l \in Keys |-> semid'[l]]
    BY <1>2, <1>4
  <2>2. QED
    BY <1>4, <1>7, <2>1
<1>9. Places' /\ pc'[Server] = next
  <2>1. next \in ServerLabels /\ "failed" \in CallerLabels
    BY DEF ServerLabels, CallerLabels
  <2>2. pc'[Server] = next /\ \A c \in Callers : pc'[c] \in CallerLabels
    BY <1>2, <2>1, Who, Ids DEF Places
  <2>3. pc' \in [Programs -> ServerLabels \cup CallerLabels]
    <3>1. \A q \in Programs : pc'[q] \in ServerLabels \cup CallerLabels
      BY <2>1, <2>2, Who
    <3>2. pc' = [q \in Programs |-> pc'[q]]
      BY <1>2
    <3>3. QED
      BY <3>1, <3>2
  <2>4. QED
    BY <2>1, <2>2, <2>3 DEF Places
<1>10. Shape'
  <2>1. /\ segment' \in Ages /\ shm' \in [Programs -> Ages]
        /\ sem' \in [Programs -> [Keys -> Ages]]
        /\ cell' = [g \in Ages |-> cell'[g]] /\ result' = [d \in Callers |-> result'[d]]
    BY <1>2 DEF Base, Shape, memVars
  <2>2. QED
    BY <1>5, <1>8, <1>9, <2>1 DEF Shape
<1>11. Sets'
  <2>1. ASSUME NEW l \in Keys, NEW b \in Ages
        PROVE  /\ Good(l, sems'[<<l, b>>])
               /\ sems'[<<l, b>>].exists => b = semid'[l]
    <3>1. CASE <<l, b>> = <<k, a>>
      BY <1>3, <1>5, <3>1
    <3>2. CASE <<l, b>> # <<k, a>>
      <4>1. sems'[<<l, b>>] = sems[<<l, b>>]
        BY <1>5, <3>2
      <4>2. Good(l, sems[<<l, b>>]) /\ (sems[<<l, b>>].exists => b = semid[l])
        BY DEF Base, Sets
      <4>3. CASE l # k
        BY <1>7, <4>1, <4>2, <4>3
      <4>4. CASE l = k
        <5>1. b # a
          BY <3>2, <4>4
        <5>2. sems[<<l, b>>].exists => ~sems[<<k, a>>].exists
          BY <1>6, <4>2, <4>4, <5>1
        <5>3. ~sems[<<k, a>>].exists => semid'[k] = semid[k]
          BY <1>2, <1>4
        <5>4. QED
          BY <4>1, <4>2, <4>4, <5>2, <5>3
      <4>5. QED
        BY <4>3, <4>4
    <3>3. QED
      BY <3>1, <3>2
  <2>2. QED
    BY <2>1 DEF Sets
<1>12. Waiter'
  <2>1. \A b \in Ages : sems[<<"Empty", b>>].queue = << >>
    BY <1>2, Awake
  <2>2. ASSUME NEW b \in Ages PROVE sems'[<<"Empty", b>>].queue = << >>
    <3>1. CASE <<"Empty", b>> = <<k, a>>
      BY <1>3, <1>5, <3>1
    <3>2. CASE <<"Empty", b>> # <<k, a>>
      BY <1>5, <2>1, <3>2, Who
    <3>3. QED
      BY <3>1, <3>2
  <2>3. QED
    BY <2>2 DEF Waiter
<1>13. ASSUME NEW l \in Keys, l # k
       PROVE  /\ semid'[l] = semid[l]
              /\ Has(l) => Has(l)'
              /\ Lost(l) => Lost(l)'
  <2>1. sems'[<<l, semid[l]>>] = sems[<<l, semid[l]>>]
    BY <1>4, <1>5, <1>13
  <2>2. QED
    BY <1>2, <1>7, <1>13, <2>1 DEF Has, Lost, Named
<1>14. \/ Has(k) /\ Lost(k)' /\ semid'[k] = semid[k] + 1
       \/ ~Has(k) /\ semid' = semid /\ (Lost(k) => Lost(k)')
  <2>1. CASE sems[<<k, a>>].exists
    <3>1. a = semid[k] /\ semid'[k] = semid[k] + 1 /\ semid[k] \in Int
      BY <1>2, <1>4, <1>6, <2>1 DEF Ages
    <3>2. Has(k)
      BY <2>1, <3>1 DEF Has, Named
    <3>3. sem'[Server][k] < semid'[k]
      BY <1>2, <3>1
    <3>4. QED
      BY <3>1, <3>2, <3>3 DEF Lost
  <2>2. CASE ~sems[<<k, a>>].exists
    <3>1. semid' = semid
      BY <1>2, <1>4, <2>2
    <3>2. ~Has(k)
      BY <2>2 DEF Has, Named
    <3>3. Lost(k) => Lost(k)'
      BY <1>2, <3>1 DEF Lost
    <3>4. QED
      BY <3>1, <3>2, <3>3
  <2>3. QED
    BY <2>1, <2>2
<1>15. QED
  BY <1>2, <1>9, <1>10, <1>11, <1>12, <1>13, <1>14
\* The age that a destroyed set leaves to its key.
LEMMA NextAge ==
    ASSUME Base, NEW k \in Keys, NEW from \in Handler, NEW next, Destroy(k, from, next),
           semid[k] <= signals
    PROVE  semid'[k] \in Ages
<1>1. semid \in [Keys -> Ages] /\ signals \in 0..MaxSignals /\ MaxSignals \in Nat
  BY RpcAssumption DEF Base, Shape, Aged
<1>2. semid' = [semid EXCEPT ![k] = IF sems[Mine(Server, k)].exists THEN @ + 1 ELSE @]
  BY DEF Destroy
<1>3. semid'[k] = semid[k] + 1 \/ semid'[k] = semid[k]
  BY <1>1, <1>2
<1>4. QED
  BY <1>1, <1>3 DEF Ages

\* Rpc destroys Empty.
LEMMA EmptyGoes == ASSUME Base, Destroy("Empty", "destroyEmpty", "destroyFull") PROVE Base'
<1>1. /\ "Empty" \in Keys /\ "Full" \in Keys /\ "Empty" # "Full"
      /\ "destroyEmpty" \in Handler /\ "destroyFull" \in Handler
  BY Who DEF Handler
<1>2. pc[Server] = "destroyEmpty"
  BY DEF Destroy, SemDestroy, At
<1>3. semid["Empty"] <= signals
  BY <1>2, Ids, <1>1 DEF Base, Aged, Ages
<1>4. semid'["Empty"] \in Ages
  BY <1>1, <1>3, NextAge
<1>5. /\ Shape' /\ Sets' /\ Waiter' /\ pc'[Server] = "destroyFull"
      /\ semid'["Full"] = semid["Full"]
      /\ (Has("Full") => Has("Full")') /\ (Lost("Full") => Lost("Full")')
      /\ \/ Has("Empty") /\ Lost("Empty")' /\ semid'["Empty"] = semid["Empty"] + 1
         \/ ~Has("Empty") /\ semid' = semid /\ (Lost("Empty") => Lost("Empty")')
      /\ UNCHANGED <<memVars, segment, shm, sem, runVars>>
  BY <1>1, <1>4, Destroyed
<1>6. Aged'
  <2>1. /\ semid["Empty"] \in Int /\ semid["Full"] \in Int /\ segment \in Int
        /\ signals \in 0..MaxSignals /\ signals \in Int /\ setting \in Settings
        /\ (setting # "harsh" => signals = 0)
        /\ resume \in {"off", "failed"} \cup Serving /\ resume # "off"
    BY <1>1, <1>2, Ids DEF Ages, Base, Aged
  <2>2. semid["Full"] <= signals /\ segment <= signals
    <3>1. /\ semid["Full"] <= signals + 0 /\ segment <= signals + 0
      BY <1>1, <1>2 DEF Base, Aged
    <3>2. QED
      BY <2>1, <3>1
  <2>3. /\ semid'["Empty"] <= signals + 1
        /\ semid'["Full"] <= signals + 0 /\ segment' <= signals + 0
    BY <1>3, <1>5, <2>1, <2>2
  <2>4. signals' = signals /\ setting' = setting /\ resume' = resume
    BY <1>5 DEF runVars
  <2>5. QED
    BY <1>1, <1>5, <2>1, <2>3, <2>4 DEF Aged
<1>7. Holding'
  <2>1. Up \/ Down
    BY <1>2 DEF Base, Holding
  <2>2. CASE Has("Empty")
    <3>1. ~Lost("Empty")
      BY <1>1, <2>2, Ids DEF Has, Lost, Ages
    <3>2. Up
      BY <2>1, <3>1 DEF Down
    <3>3. Lost("Empty")' /\ Has("Full")' /\ shm'[Server] = segment'
      BY <1>5, <2>2, <3>2 DEF Up
    <3>4. QED
      BY <1>5, <3>3 DEF Holding, Opening, Serving
  <2>3. CASE ~Has("Empty")
    <3>1. Down
      BY <2>1, <2>3 DEF Up
    <3>2. Down'
      BY <1>5, <2>3, <3>1 DEF Down
    <3>3. QED
      BY <1>5, <3>2 DEF Holding, Opening, Serving
  <2>4. QED
    BY <2>2, <2>3
<1>8. QED
  BY <1>5, <1>6, <1>7 DEF Base

\* Rpc destroys Full.
LEMMA FullGoes == ASSUME Base, Destroy("Full", "destroyFull", "remove") PROVE Base'
<1>1. /\ "Empty" \in Keys /\ "Full" \in Keys /\ "Empty" # "Full"
      /\ "destroyFull" \in Handler /\ "remove" \in Handler
  BY Who DEF Handler
<1>2. pc[Server] = "destroyFull"
  BY DEF Destroy, SemDestroy, At
<1>3. semid["Full"] <= signals
  BY <1>2, Ids, <1>1 DEF Base, Aged, Ages
<1>4. semid'["Full"] \in Ages
  BY <1>1, <1>3, NextAge
<1>5. /\ Shape' /\ Sets' /\ Waiter' /\ pc'[Server] = "remove"
      /\ semid'["Empty"] = semid["Empty"]
      /\ (Lost("Empty") => Lost("Empty")')
      /\ \/ Has("Full") /\ Lost("Full")' /\ semid'["Full"] = semid["Full"] + 1
         \/ ~Has("Full") /\ semid' = semid /\ (Lost("Full") => Lost("Full")')
      /\ UNCHANGED <<memVars, segment, shm, sem, runVars>>
  BY <1>1, <1>4, Destroyed
<1>6. Aged'
  <2>1. /\ semid["Empty"] \in Int /\ semid["Full"] \in Int /\ segment \in Int
        /\ signals \in 0..MaxSignals /\ signals \in Int /\ setting \in Settings
        /\ (setting # "harsh" => signals = 0)
        /\ resume \in {"off", "failed"} \cup Serving /\ resume # "off"
    BY <1>1, <1>2, Ids DEF Ages, Base, Aged
  <2>2. semid["Empty"] <= signals + 1 /\ segment <= signals + 0
    BY <1>1, <1>2 DEF Base, Aged
  <2>3. /\ semid'["Empty"] <= signals + 1
        /\ semid'["Full"] <= signals + 1 /\ segment' <= signals + 0
    BY <1>3, <1>5, <2>1, <2>2
  <2>4. signals' = signals /\ setting' = setting /\ resume' = resume
    BY <1>5 DEF runVars
  <2>5. QED
    BY <1>1, <1>5, <2>1, <2>3, <2>4 DEF Aged
<1>7. Holding'
  <2>1. \/ Lost("Empty") /\ Has("Full") /\ shm[Server] = segment
        \/ Down
    BY <1>2 DEF Base, Holding
  <2>2. shm[Server] \in Int /\ segment \in Int
    BY Ids, Who DEF Ages
  <2>3. Lost("Empty") /\ shm[Server] <= segment
    BY <2>1, <2>2 DEF Down
  <2>4. Lost("Full")'
    <3>1. CASE Has("Full")
      BY <1>5, <3>1
    <3>2. CASE ~Has("Full")
      BY <1>5, <2>1, <3>2 DEF Down
    <3>3. QED
      BY <3>1, <3>2
  <2>5. Lost("Empty")' /\ shm'[Server] <= segment'
    BY <1>5, <2>3
  <2>6. QED
    BY <1>5, <2>4, <2>5 DEF Holding, Opening, Serving
<1>8. QED
  BY <1>5, <1>6, <1>7 DEF Base

\* Rpc removes the segment and returns to where the signal found it.
LEMMA SegmentGoes == ASSUME Base, Remove PROVE Base'
<1>1. /\ pc[Server] = "remove" /\ ~Asleep(Server) /\ sems' = sems
      /\ UNCHANGED <<memVars, semid, shm, sem, runVars>>
      /\ \/ shm[Server] = segment /\ segment' = segment + 1 /\ Goto(Server, resume)
         \/ shm[Server] # segment /\ segment' = segment /\ Goto(Server, "failed")
  BY DEF Remove, At
<1>2. /\ semid["Empty"] \in Int /\ semid["Full"] \in Int /\ segment \in Ages
      /\ segment \in Int /\ shm[Server] \in Int
      /\ signals \in 0..MaxSignals /\ signals \in Int /\ setting \in Settings
      /\ (setting # "harsh" => signals = 0)
      /\ resume \in {"failed"} \cup Serving /\ MaxSignals \in Nat
  <2>1. resume \in {"off", "failed"} \cup Serving /\ resume # "off"
    BY <1>1 DEF Base, Aged, Handler
  <2>2. QED
    BY <2>1, Ids, Who, RpcAssumption DEF Ages, Base, Aged
<1>3. /\ semid["Empty"] <= signals + 1 /\ semid["Full"] <= signals + 1
      /\ segment <= signals + 0
  BY <1>1 DEF Base, Aged, Handler
<1>4. segment' \in Ages /\ segment' <= signals + 1
  BY <1>1, <1>2, <1>3 DEF Ages
<1>5. PICK label \in {"failed"} \cup Serving :
         Goto(Server, label) /\ (label \in Serving => shm[Server] = segment /\ segment' = segment + 1)
  <2>1. "failed" \notin Serving
    BY DEF Serving
  <2>2. QED
    BY <1>1, <1>2, <2>1
<1>6. label \in ServerLabels /\ label \notin Handler
  BY <1>5 DEF ServerLabels, Handler, Serving
<1>7. Places' /\ pc'[Server] = label
  BY <1>5, <1>6, Who, Ids, Moved
<1>8. Shape'
  BY <1>1, <1>4, <1>7 DEF Base, Shape, memVars
<1>9. Sets'
  BY <1>1 DEF Base, Sets
<1>10. Waiter'
  <2>1. \A a \in Ages : sems'[<<"Empty", a>>].queue = << >>
    BY <1>1, Awake
  <2>2. QED
    BY <2>1 DEF Waiter
<1>11. Aged'
  <2>1. pc'[Server] \notin Handler /\ pc'[Server] \notin {"destroyEmpty", "destroyFull"}
    BY <1>6, <1>7 DEF Handler
  <2>2. /\ semid' = semid /\ signals' = signals /\ setting' = setting /\ resume' = resume
    BY <1>1 DEF runVars
  <2>3. QED
    BY <1>2, <1>3, <1>4, <2>1, <2>2 DEF Aged
<1>12. Holding'
  <2>1. Lost("Empty") /\ Lost("Full")
    BY <1>1 DEF Base, Holding
  <2>2. Lost("Empty")' /\ Lost("Full")'
    BY <1>1, <2>1 DEF Lost
  <2>3. label \in Serving => Down'
    <3>1. label \in Serving => shm[Server] < segment'
      BY <1>2, <1>5
    <3>2. QED
      BY <1>1, <2>2, <3>1 DEF Down
  <2>4. pc'[Server] \notin Opening \cup {"destroyEmpty", "destroyFull", "remove"}
    BY <1>5, <1>7 DEF Serving, Opening
  <2>5. QED
    BY <1>7, <2>3, <2>4 DEF Holding, Opening
<1>13. QED
  BY <1>8, <1>9, <1>10, <1>11, <1>12 DEF Base

\* Every step keeps the base.
LEMMA BaseStep == ASSUME Base, [Next]_vars PROVE Base'
<1>1. ASSUME vars' = vars PROVE Base'
  BY <1>1, ZenonT(40) DEF vars, memVars, idVars, runVars, Base, Shape, Places, Aged, Sets, Waiter,
     Holding, Up, Down, Has, Lost, Named
<1>2. ASSUME Main PROVE Base'
  BY <1>2, ServerAttaches, ServerOpens, ServerSets, ServerWaits, ServerLoads, ServerStores,
     EmptyGoes, FullGoes, SegmentGoes, ServerExits DEF Main, DestroyAll
<1>3. ASSUME NEW p \in Programs, Kill(p) PROVE Base'
  BY <1>3, Who, ServerKilled, CallerKilled
<1>4. ASSUME Stopped PROVE Base'
  BY <1>1, <1>4 DEF Stopped
<1>5. QED
  BY <1>1, <1>2, <1>3, <1>4, ServerStarts, Interrupted, CallerComes, AppBase DEF Next
------------------------------------------------------------------------------
(* The calls *)

\* While rpc works for c: what it holds, and where it is.
LEMMA TendedIs ==
    ASSUME Base, NEW c \in Callers, Tended(c)
    PROVE  /\ \A k \in Keys : sem[Server][k] = semid[k] /\ sems[<<k, semid[k]>>].exists
           /\ shm[Server] = segment /\ shm[c] = segment
           /\ pc[Server] \in {"load", "store", "postFull", "waitEmpty"}
<1>1. Up
  BY DEF Tended
<1>2. \A k \in Keys : sem[Server][k] = semid[k] /\ sems[<<k, semid[k]>>].exists
  BY <1>1, Who DEF Up, Has, Named
<1>3. shm[Server] = segment /\ shm[c] = segment
  BY <1>1 DEF Tended, Up
<1>4. pc[Server] \in {"load", "store", "postFull", "waitEmpty"}
  BY DEF Tended, Asking, Counting, Counted, Resting
<1>5. QED
  BY <1>2, <1>3, <1>4

\* While rpc rests it sleeps.
LEMMA RestIsSleep == ASSUME Base, Resting PROVE Asleep(Server)
<1>1. <<"Empty", semid["Empty"]>> \in Keys \X Ages /\ semid["Empty"] \in Ages
  BY Who, Ids
<1>2. sems[<<"Empty", semid["Empty"]>>].queue # << >>
  BY DEF Resting, Named
<1>3. QED
  BY <1>1, <1>2, Awake

\* c is still tended, if its call goes on.
Tending(c) == pc'[c] \in Before \cup Posted =>
                 Tended(c)' /\ (Fresh(c) => Fresh(c)')

\* The steps of c itself.
LEMMA AttachTends ==
    ASSUME Base, NEW c \in Callers, Tended(c), Attach(c) PROVE Tending(c)
<1>1. /\ pc[c] = "shmat" /\ UNCHANGED <<memVars, idVars, runVars, sems>>
      /\ Goto(c, "write")
  BY Who, TendedIs DEF Attach, At
<1>2. pc'[c] = "write" /\ pc'[Server] = pc[Server]
  <2>1. "write" \in CallerLabels
    BY DEF CallerLabels, Before
  <2>2. QED
    BY <1>1, <2>1, Who, Ids, Moved
<1>3. Asking(c)
  BY <1>1 DEF Tended, Counting, Counted, Posted
<1>4. Up' /\ shm'[c] = segment'
  BY <1>1 DEF Tended, Up, Has, Named, idVars
<1>5. Asking(c)'
  BY <1>1, <1>2, <1>3 DEF Asking, Resting, Named, Before, idVars
<1>6. Tended(c)'
  BY <1>2, <1>4, <1>5 DEF Tended
<1>7. ~Counted(c)
  BY <1>1 DEF Counted, Posted
<1>8. Fresh(c) => Fresh(c)'
  BY <1>1, <1>2, <1>7 DEF Fresh, Named, idVars
<1>9. QED
  BY <1>6, <1>8 DEF Tending

\* c opens Empty, and later Full: both are the sets that rpc has.
LEMMA OpenTends ==
    ASSUME Base, NEW c \in Callers, Tended(c), Open(c) PROVE Tending(c)
<1>1. UNCHANGED <<memVars, segment, semid, shm, runVars>>
  BY DEF Open
<1>2. ASSUME NEW k \in Keys, NEW from, NEW label \in CallerLabels,
             SemInit(c, from, Named(k), label),
             sem' = [sem EXCEPT ![c][k] = semid[k]]
      PROVE  /\ sems' = sems /\ pc[c] = from /\ pc'[c] = label
             /\ pc'[Server] = pc[Server] /\ sem'[Server] = sem[Server]
             /\ sem'[c][k] = semid[k]
             /\ \A l \in Keys : l # k => sem'[c][l] = sem[c][l]
  <2>1. sems' = [sems EXCEPT ![Named(k)] = CreateOp(sems[Named(k)])]
        /\ pc[c] = from /\ Goto(c, label)
    BY <1>2 DEF SemInit, At
  <2>2. CreateOp(sems[Named(k)]) = sems[Named(k)]
    BY TendedIs DEF Named, CreateOp
  <2>3. sems = [s \in Keys \X Ages |-> sems[s]]
    BY DEF Base, Shape
  <2>4. sems' = sems
    BY <2>1, <2>2, <2>3
  <2>5. pc'[c] = label /\ pc'[Server] = pc[Server]
    BY <2>1, Who, Ids, Moved
  <2>6. /\ sem'[Server] = sem[Server] /\ sem'[c][k] = semid[k]
        /\ \A l \in Keys : l # k => sem'[c][l] = sem[c][l]
    BY <1>2, Who DEF Base, Shape
  <2>7. QED
    BY <2>1, <2>4, <2>5, <2>6
<1>3. "postEmpty" \in CallerLabels /\ "waitFull" \in CallerLabels
  BY DEF CallerLabels, Before, Posted
<1>4. CASE /\ SemInit(c, "openEmpty", Named("Empty"), "postEmpty")
           /\ sem' = [sem EXCEPT ![c]["Empty"] = semid["Empty"]]
  <2>1. /\ sems' = sems /\ pc[c] = "openEmpty" /\ pc'[c] = "postEmpty"
        /\ pc'[Server] = pc[Server] /\ sem'[Server] = sem[Server]
        /\ sem'[c]["Empty"] = semid["Empty"]
    BY <1>2, <1>3, <1>4, Who, ZenonT(40)
  <2>2. Up' /\ shm'[c] = segment'
    BY <1>1, <2>1 DEF Tended, Up, Has, Named
  <2>3. Asking(c)
    BY <2>1 DEF Tended, Counting, Counted, Posted
  <2>4. Asking(c)'
    BY <1>1, <2>1, <2>3 DEF Asking, Resting, Named, Before, memVars
  <2>5. Tended(c)'
    BY <2>1, <2>2, <2>4 DEF Tended
  <2>6. ~Counted(c)
    BY <2>1 DEF Counted, Posted
  <2>7. Fresh(c) => Fresh(c)'
    BY <1>1, <2>1, <2>6 DEF Fresh, Named
  <2>8. QED
    BY <2>5, <2>7 DEF Tending
<1>5. CASE /\ SemInit(c, "openFull", Named("Full"), "waitFull")
           /\ sem' = [sem EXCEPT ![c]["Full"] = semid["Full"]]
  <2>1. /\ sems' = sems /\ pc[c] = "openFull" /\ pc'[c] = "waitFull"
        /\ pc'[Server] = pc[Server] /\ sem'[Server] = sem[Server]
        /\ sem'[c]["Full"] = semid["Full"]
    BY <1>2, <1>3, <1>5, Who, ZenonT(40)
  <2>2. Up' /\ shm'[c] = segment'
    BY <1>1, <2>1 DEF Tended, Up, Has, Named
  <2>3. ~Asking(c)
    BY <2>1 DEF Asking, Before
  <2>4. (Counting(c) => Counting(c)') /\ (Counted(c) => Counted(c)')
    BY <1>1, <2>1 DEF Counting, Counted, Resting, Named, Posted, memVars
  <2>5. Tended(c)'
    BY <1>1, <2>1, <2>2, <2>3, <2>4 DEF Tended
  <2>6. Fresh(c) => Fresh(c)'
    BY <1>1, <2>1, <2>4 DEF Fresh, Named
  <2>7. QED
    BY <2>5, <2>6 DEF Tending
<1>6. QED
  BY <1>4, <1>5, Who DEF Open

\* c writes its number and posts: rpc, which sleeps, gets the permit.
LEMMA AskTends ==
    ASSUME Base, NEW c \in Callers, Tended(c), Ask(c) PROVE Tending(c)
<1>1. CASE WriteCell(c, "write", c, "openEmpty")
  <2>1. /\ pc[c] = "write" /\ Goto(c, "openEmpty") /\ sems' = sems
        /\ cell' = [cell EXCEPT ![shm[c]] = c]
        /\ UNCHANGED <<num, result, idVars, runVars>>
    BY <1>1 DEF WriteCell, At
  <2>2. "openEmpty" \in CallerLabels
    BY DEF CallerLabels, Before
  <2>3. pc'[c] = "openEmpty" /\ pc'[Server] = pc[Server]
    BY <2>1, <2>2, Who, Ids, Moved
  <2>4. cell'[segment] = c
    BY <2>1, TendedIs, Ids DEF Base, Shape
  <2>5. Asking(c) /\ ~Counted(c)
    BY <2>1 DEF Tended, Counting, Counted, Posted
  <2>6. Asking(c)'
    BY <2>1, <2>3, <2>4, <2>5 DEF Asking, Resting, Named, Before, idVars
  <2>7. Up' /\ shm'[c] = segment'
    BY <2>1 DEF Tended, Up, Has, Named, idVars
  <2>8. Tended(c)'
    BY <2>3, <2>6, <2>7 DEF Tended
  <2>9. Fresh(c) => Fresh(c)'
    BY <2>1, <2>3, <2>5 DEF Fresh, Named, idVars
  <2>10. QED
    BY <2>8, <2>9 DEF Tending
<1>2. CASE /\ SemPost(c, "postEmpty", Mine(c, "Empty"), "openFull")
           /\ UNCHANGED <<memVars, idVars, runVars>>
  <2>1. pc[c] = "postEmpty"
    BY <1>2 DEF SemPost, Call, At
  <2>2. Asking(c) /\ ~Counted(c)
    BY <2>1 DEF Tended, Counting, Counted, Posted
  <2> DEFINE x == sems[<<"Empty", semid["Empty"]>>]
             y == PostOp(x, c)
  <2>3. /\ x.exists /\ x.queue = <<Server>> /\ Mine(c, "Empty") = <<"Empty", semid["Empty"]>>
        /\ cell[segment] = c /\ pc[Server] = "load"
    BY <2>1, <2>2, TendedIs, Who DEF Asking, Resting, Named, Mine
  <2>4. sems' = [sems EXCEPT ![<<"Empty", semid["Empty"]>>] = y] /\ Goto(c, "openFull")
    BY <1>2, <2>3 DEF SemPost, Call
  <2>5. Good("Empty", x) /\ semid["Empty"] \in Ages /\ semid["Full"] \in Ages
    BY Ids, Who DEF Base, Sets
  <2>6. y.queue = << >> /\ y.val = 0 /\ y.exists
    BY <2>3, <2>5, Who, PostGood DEF Follows
  <2> HIDE DEF x, y
  <2>7. "openFull" \in CallerLabels
    BY DEF CallerLabels, Posted
  <2>8. pc'[c] = "openFull" /\ pc'[Server] = "load"
    BY <2>3, <2>4, <2>7, Who, Ids, Moved
  <2>9. /\ sems'[<<"Empty", semid["Empty"]>>] = y
        /\ sems'[<<"Full", semid["Full"]>>] = sems[<<"Full", semid["Full"]>>]
    BY <2>4, <2>5, Who DEF Base, Shape
  <2>10. Up' /\ shm'[c] = segment'
    BY <1>2, <2>6, <2>9 DEF Tended, Up, Has, Named, idVars
  <2>11. Counting(c)'
    BY <1>2, <2>3, <2>6, <2>8, <2>9 DEF Counting, Named, Posted, idVars, memVars
  <2>12. Tended(c)'
    BY <2>8, <2>10, <2>11 DEF Tended
  <2>13. Fresh(c) => Fresh(c)'
    BY <1>2, <2>2, <2>8, <2>9 DEF Fresh, Named, idVars
  <2>14. QED
    BY <2>12, <2>13 DEF Tending
<1>3. QED
  BY <1>1, <1>2 DEF Ask

\* c waits for Full; if no reply was left over it sleeps.
LEMMA AwaitTends ==
    ASSUME Base, NEW c \in Callers, Tended(c), Await(c) PROVE Tending(c)
<1>1. pc[c] = "waitFull" /\ UNCHANGED <<memVars, idVars, runVars>>
  BY DEF Await, SemWait, Call, At
<1> DEFINE x == sems[<<"Full", semid["Full"]>>]
           y == WaitOp(x, c)
<1>2. x.exists /\ Mine(c, "Full") = <<"Full", semid["Full"]>>
  BY <1>1, TendedIs, Who DEF Tended, Mine
<1>3. sems' = [sems EXCEPT ![<<"Full", semid["Full"]>>] = y] /\ Goto(c, "read")
  BY <1>2 DEF Await, SemWait, Call
<1>4. Good("Full", x) /\ semid["Empty"] \in Ages /\ semid["Full"] \in Ages
  BY Ids, Who DEF Base, Sets
<1>5. /\ y.exists /\ (x.val = 0 => y.queue = Append(x.queue, c) /\ y.val = 0)
  BY <1>2, <1>4, Who, WaitGood, SMTT(40)
<1>6. x.queue \in Seq(Callers)
  BY <1>4, Who DEF Good, Line
<1> HIDE DEF x, y
<1>7. "read" \in CallerLabels
  BY DEF CallerLabels, Posted
<1>8. pc'[c] = "read" /\ pc'[Server] = pc[Server]
  BY <1>3, <1>7, Who, Ids, Moved
<1>9. /\ sems'[<<"Full", semid["Full"]>>] = y
      /\ sems'[<<"Empty", semid["Empty"]>>] = sems[<<"Empty", semid["Empty"]>>]
  BY <1>3, <1>4, Who DEF Base, Shape
<1>10. Up' /\ shm'[c] = segment' /\ sem'[c]["Full"] = semid'["Full"]
  BY <1>1, <1>5, <1>9 DEF Tended, Up, Has, Named, idVars
<1>11. ~Asking(c)
  BY <1>1 DEF Asking, Before
<1>12. (Counting(c) => Counting(c)') /\ (Counted(c) => Counted(c)')
  BY <1>1, <1>8, <1>9 DEF Counting, Counted, Resting, Named, Posted, idVars, memVars
<1>13. Tended(c)'
  BY <1>10, <1>11, <1>12 DEF Tended
<1>14. Fresh(c) => Fresh(c)'
  <2>1. SUFFICES ASSUME x.val = 0 PROVE y.val = 0 /\ c \in Sleepers(y)
    BY <1>1, <1>8, <1>9, <1>12 DEF Fresh, Named, idVars, x
  <2>2. y.val = 0 /\ y.queue = Append(x.queue, c)
    BY <1>5, <2>1
  <2>3. /\ Len(x.queue) \in Nat
        /\ Len(Append(x.queue, c)) = Len(x.queue) + 1
        /\ Append(x.queue, c)[Len(x.queue) + 1] = c
        /\ DOMAIN Append(x.queue, c) = 1 .. Len(x.queue) + 1
    BY <1>6
  <2>4. QED
    BY <2>2, <2>3 DEF Sleepers
<1>15. QED
  BY <1>13, <1>14 DEF Tending

\* What c reads is its own number or the sum, and if its call is fresh the sum.
LEMMA ReadGets ==
    ASSUME Base, NEW c \in Callers, Tended(c), Read(c)
    PROVE  cell[shm[c]] \in {c, Sum[c]} /\ (Fresh(c) => cell[shm[c]] = Sum[c])
<1>1. pc[c] = "read" /\ ~Asleep(c) /\ shm[c] = segment
  BY DEF Read, At, Tended
<1>2. ~Asking(c)
  BY <1>1 DEF Asking, Before
<1>3. cell[segment] \in {c, Sum[c]} /\ (Counted(c) => cell[segment] = Sum[c])
  BY <1>2 DEF Tended, Counting, Counted
<1>4. c \notin Sleepers(sems[Named("Full")])
  BY <1>1, Ids, Who DEF Asleep, Named
<1>5. Fresh(c) => Counted(c)
  BY <1>1, <1>4 DEF Fresh
<1>6. QED
  BY <1>1, <1>3, <1>5

\* What no step of an app does.
LEMMA AppOthers ==
    ASSUME Base, NEW c \in Callers, App(c)
    PROVE  /\ Running(c) /\ pc'[c] # "off" /\ pc'[Server] = pc[Server]
           /\ \A d \in Callers : d # c => pc'[d] = pc[d] /\ result'[d] = result[d]
           /\ UNCHANGED runVars
<1>1. \E label \in CallerLabels \ {"off"} : Goto(c, label)
  <2>1. Attach(c) => Goto(c, "write") \/ Goto(c, "failed")
    BY Who DEF Attach
  <2>2. Open(c) => Goto(c, "postEmpty") \/ Goto(c, "waitFull")
    BY Who DEF Open, SemInit
  <2>3. Ask(c) => Goto(c, "openEmpty") \/ Goto(c, "openFull") \/ Goto(c, "failed")
    BY DEF Ask, WriteCell, SemPost, Call
  <2>4. Await(c) => Goto(c, "read") \/ Goto(c, "failed")
    BY DEF Await, SemWait, Call
  <2>5. (Read(c) => Goto(c, "done")) /\ (Exit(c) => Goto(c, "exited"))
    BY DEF Read, Exit, Leave
  <2>6. {"write", "failed", "postEmpty", "waitFull", "openEmpty", "openFull", "read",
         "done", "exited"} \subseteq CallerLabels \ {"off"}
    BY DEF CallerLabels, Before, Posted
  <2>7. QED
    BY <2>1, <2>2, <2>3, <2>4, <2>5, <2>6 DEF App
<1>2. PICK label \in CallerLabels \ {"off"} : Goto(c, label)
  BY <1>1
<1>3. pc'[c] = label /\ \A q \in Programs : q # c => pc'[q] = pc[q]
  BY <1>2, Who, Ids, Moved
<1>4. pc[c] \notin {"off", "exited"}
  BY DEF App, Attach, Open, SemInit, Ask, WriteCell, SemPost, Await, SemWait, Call, Read,
     Exit, At
<1>5. result' = result \/ \E x : result' = [result EXCEPT ![c] = x]
  BY DEF App, Attach, Open, Ask, WriteCell, Await, Read, Exit, memVars
<1>6. \A d \in Callers : d # c => result'[d] = result[d]
  BY <1>5 DEF Base, Shape
<1>7. UNCHANGED runVars
  BY DEF App, Attach, Open, Ask, WriteCell, Await, Read, Exit
<1>8. QED
  BY <1>2, <1>3, <1>4, <1>6, <1>7, Who DEF Running

\* Any step of c.
LEMMA AppTends ==
    ASSUME Base, NEW c \in Callers, App(c), pc[c] \in Before \cup Posted => Tended(c)
    PROVE  /\ Tending(c)
           /\ \A d \in Callers : d # c => pc'[d] = pc[d] /\ result'[d] = result[d]
           /\ \/ result' = result
              \/ /\ result'[c] \in {c, Sum[c]} /\ (Fresh(c) => result'[c] = Sum[c])
                 /\ Tended(c) /\ pc[c] = "read"
<1>1. /\ Attach(c) \/ Open(c) \/ Ask(c) \/ Await(c) => /\ pc[c] \in Before \cup Posted
                                                       /\ result' = result
      /\ Read(c) => /\ pc[c] = "read" /\ pc'= [pc EXCEPT ![c] = "done"]
                    /\ result' = [result EXCEPT ![c] = cell[shm[c]]]
      /\ Exit(c) => /\ pc' = [pc EXCEPT ![c] = "exited"]
                    /\ result' = result
  <2>1. Attach(c) => pc[c] \in Before \cup Posted /\ result' = result
    BY DEF Attach, At, Before, memVars
  <2>2. Open(c) => pc[c] \in Before \cup Posted /\ result' = result
    BY DEF Open, SemInit, At, Before, Posted, memVars
  <2>3. Ask(c) => pc[c] \in Before \cup Posted /\ result' = result
    BY DEF Ask, WriteCell, SemPost, Call, At, Before, memVars
  <2>4. Await(c) => pc[c] \in Before \cup Posted /\ result' = result
    BY DEF Await, SemWait, Call, At, Posted, memVars
  <2>5. QED
    BY <2>1, <2>2, <2>3, <2>4 DEF Read, Exit, Leave, At, Goto, memVars
<1>2. \A d \in Callers : d # c => pc'[d] = pc[d] /\ result'[d] = result[d]
  BY AppOthers
<1>3. result = [d \in Callers |-> result[d]] /\ pc \in [Programs -> ServerLabels \cup CallerLabels]
  BY DEF Base, Shape, Places
<1>4. CASE Attach(c) \/ Open(c) \/ Ask(c) \/ Await(c)
  <2>1. Tended(c) /\ result' = result
    BY <1>1, <1>4
  <2>2. Tending(c)
    BY <1>4, <2>1, AttachTends, OpenTends, AskTends, AwaitTends
  <2>3. QED
    BY <1>2, <2>1, <2>2
<1>5. CASE Read(c)
  <2>1. Tended(c) /\ pc[c] = "read"
    BY <1>1, <1>5 DEF Posted
  <2>2. pc'[c] = "done" /\ result'[c] = cell[shm[c]]
        /\ \A d \in Callers : d # c => result'[d] = result[d]
    BY <1>1, <1>3, <1>5, Who
  <2>3. Tending(c)
    BY <2>2 DEF Tending, Before, Posted
  <2>4. QED
    BY <1>2, <1>5, <2>1, <2>2, <2>3, ReadGets
<1>6. CASE Exit(c)
  <2>1. pc'[c] = "exited" /\ result' = result
    BY <1>1, <1>3, <1>6, Who
  <2>2. Tending(c)
    BY <2>1 DEF Tending, Before, Posted
  <2>3. QED
    BY <1>2, <2>1, <2>2
<1>7. QED
  BY <1>4, <1>5, <1>6 DEF App
\* The steps of rpc while it works for c.
LEMMA ServerTends ==
    ASSUME Base, NEW c \in Callers, Tended(c), pc[c] \in Before \cup Posted, Main
    PROVE  Tending(c)
<1>1. pc[Server] \in {"load", "store", "postFull", "waitEmpty"} /\ c # Server /\ c \in Programs
  BY TendedIs, Who
<1>2. ~Attach(Server) /\ ~Open(Server) /\ ~SetValues /\ ~Remove /\ ~Exit(Server) /\ ~DestroyAll
  BY <1>1 DEF Attach, Open, SetValues, Remove, Exit, DestroyAll, Destroy, SemDestroy,
     SemInit, SemInitValue, Call, At
<1>3. /\ semid["Empty"] \in Ages /\ semid["Full"] \in Ages /\ segment \in Ages
  BY Ids, Who
<1>4. ASSUME NEW label \in {"load", "store", "postFull", "waitEmpty"}, Goto(Server, label)
      PROVE  pc'[c] = pc[c] /\ pc'[Server] = label
  <2>1. label \in ServerLabels
    BY DEF ServerLabels, Serving
  <2>2. QED
    BY <1>1, <1>4, <2>1, Who, Ids, Moved
<1>5. CASE /\ SemWait(Server, "waitEmpty", Mine(Server, "Empty"), "load")
           /\ UNCHANGED <<memVars, idVars, runVars>>
  <2> DEFINE x == sems[<<"Empty", semid["Empty"]>>]
             y == WaitOp(x, Server)
  <2>1. pc[Server] = "waitEmpty" /\ ~Asleep(Server)
    BY <1>5 DEF SemWait, Call, At
  <2>2. Counted(c)
    BY <2>1 DEF Tended, Asking, Counting, Resting
  <2>3. x.exists /\ Mine(Server, "Empty") = <<"Empty", semid["Empty"]>>
        /\ x.val = 0 /\ x.queue = << >>
    BY <1>3, <2>1, <2>2, TendedIs, Awake, Who DEF Counted, Named, Mine
  <2>4. sems' = [sems EXCEPT ![<<"Empty", semid["Empty"]>>] = y] /\ Goto(Server, "load")
    BY <1>5, <2>3 DEF SemWait, Call
  <2>5. Good("Empty", x)
    BY <1>3, Who DEF Base, Sets
  <2>6. y.exists /\ y.val = 0 /\ y.queue = Append(x.queue, Server)
    BY <2>3, <2>5, Who, WaitGood
  <2>7. y.queue = <<Server>>
    BY <2>3, <2>6
  <2> HIDE DEF x, y
  <2>8. pc'[c] = pc[c] /\ pc'[Server] = "load"
    BY <1>4, <2>4
  <2>9. /\ sems'[<<"Empty", semid["Empty"]>>] = y
        /\ sems'[<<"Full", semid["Full"]>>] = sems[<<"Full", semid["Full"]>>]
    BY <1>3, <2>4, Who DEF Base, Shape
  <2>10. Resting'
    BY <1>5, <2>7, <2>8, <2>9 DEF Resting, Named, idVars
  <2>11. Counted(c)'
    BY <1>5, <2>2, <2>6, <2>8, <2>9, <2>10 DEF Counted, Named, idVars, memVars
  <2>12. Up'
    BY <1>5, <2>6, <2>9 DEF Tended, Up, Has, Named, idVars
  <2>13. Tended(c)'
    BY <1>5, <2>8, <2>11, <2>12 DEF Tended, idVars
  <2>14. QED
    BY <2>11, <2>13 DEF Tending, Fresh
<1>6. CASE /\ SemPost(Server, "postFull", Mine(Server, "Full"), "waitEmpty")
           /\ UNCHANGED <<memVars, idVars, runVars>>
  <2> DEFINE x == sems[<<"Full", semid["Full"]>>]
             y == PostOp(x, Server)
  <2>1. pc[Server] = "postFull" /\ ~Asleep(Server)
    BY <1>6 DEF SemPost, Call, At
  <2>2. Counted(c)
    BY <2>1 DEF Tended, Asking, Counting, Resting
  <2>3. x.exists /\ Mine(Server, "Full") = <<"Full", semid["Full"]>>
    BY TendedIs, Who DEF Mine
  <2>4. sems' = [sems EXCEPT ![<<"Full", semid["Full"]>>] = y] /\ Goto(Server, "waitEmpty")
    BY <1>6, <2>3 DEF SemPost, Call
  <2>5. Good("Full", x)
    BY <1>3, Who DEF Base, Sets
  <2>6. y.exists
    BY <2>3, <2>5, Who, PostGood DEF Follows
  <2> HIDE DEF x, y
  <2>7. pc'[c] = pc[c] /\ pc'[Server] = "waitEmpty"
    BY <1>4, <2>4
  <2>8. /\ sems'[<<"Full", semid["Full"]>>] = y
        /\ sems'[<<"Empty", semid["Empty"]>>] = sems[<<"Empty", semid["Empty"]>>]
    BY <1>3, <2>4, Who DEF Base, Shape
  <2>9. Counted(c)'
    BY <1>6, <2>2, <2>7, <2>8 DEF Counted, Named, idVars, memVars
  <2>10. Up'
    BY <1>6, <2>6, <2>8 DEF Tended, Up, Has, Named, idVars
  <2>11. Tended(c)'
    BY <1>6, <2>7, <2>9, <2>10 DEF Tended, idVars
  <2>12. QED
    BY <2>9, <2>11 DEF Tending, Fresh
<1>7. CASE Load
  <2>1. /\ pc[Server] = "load" /\ ~Asleep(Server) /\ Goto(Server, "store")
        /\ num' = cell[segment] /\ UNCHANGED <<cell, result, idVars, runVars, sems>>
    BY <1>7, TendedIs DEF Load, At
  <2>2. ~Resting
    BY <2>1, RestIsSleep
  <2>3. Counting(c)
    BY <2>1, <2>2 DEF Tended, Asking, Counted
  <2>4. pc'[c] = pc[c] /\ pc'[Server] = "store"
    BY <1>4, <2>1
  <2>5. Counting(c)'
    BY <2>1, <2>3, <2>4 DEF Counting, Named, idVars
  <2>6. Up'
    BY <2>1 DEF Tended, Up, Has, Named, idVars
  <2>7. Tended(c)'
    BY <2>1, <2>4, <2>5, <2>6 DEF Tended, idVars
  <2>8. ~Counted(c)
    BY <2>1, <2>2 DEF Counted
  <2>9. Fresh(c) => Fresh(c)'
    BY <2>1, <2>4, <2>8 DEF Fresh, Named, idVars
  <2>10. QED
    BY <2>7, <2>9 DEF Tending
<1>8. CASE Store
  <2>1. /\ pc[Server] = "store" /\ Goto(Server, "postFull")
        /\ cell' = [cell EXCEPT ![segment] = Sum[num]]
        /\ UNCHANGED <<num, result, idVars, runVars, sems>>
    BY <1>8, TendedIs DEF Store, WriteCell, At
  <2>2. Counting(c) /\ num = c
    BY <2>1 DEF Tended, Asking, Counting, Counted, Resting
  <2>3. cell'[segment] = Sum[c]
    <3>1. cell = [g \in Ages |-> cell[g]]
      BY DEF Base, Shape
    <3>2. cell'[segment] = Sum[num]
      BY <1>3, <2>1, <3>1
    <3>3. QED
      BY <2>2, <3>2
  <2>4. pc'[c] = pc[c] /\ pc'[Server] = "postFull"
    BY <1>4, <2>1
  <2>5. Counted(c)'
    BY <2>1, <2>2, <2>3, <2>4 DEF Counting, Counted, Named, idVars
  <2>6. Up'
    BY <2>1 DEF Tended, Up, Has, Named, idVars
  <2>7. Tended(c)'
    BY <2>1, <2>4, <2>5, <2>6 DEF Tended, idVars
  <2>8. QED
    BY <2>5, <2>7 DEF Tending, Fresh
<1>9. QED
  BY <1>2, <1>5, <1>6, <1>7, <1>8 DEF Main, Semop

\* Rpc handles a signal only where there are signals.
LEMMA HandlerHarsh == ASSUME Base, pc[Server] \in Handler PROVE setting = "harsh"
<1>1. segment \in Ages /\ signals \in 0..MaxSignals /\ segment <= signals + 0
  BY Ids DEF Base, Aged
<1>2. signals # 0
  BY <1>1, RpcAssumption DEF Ages
<1>3. QED
  BY <1>2 DEF Base, Aged

\* Who is where in the places a program runs.
LEMMA Works == ASSUME Base, NEW c \in Callers, Running(c), pc[c] \notin {"done", "failed"}
               PROVE  pc[c] \in Before \cup Posted
  BY Ids DEF Places, CallerLabels, Running

\* A step of rpc outside its handler does not touch the apps.
LEMMA ServerOnly ==
    ASSUME Base, Main, pc[Server] \notin Handler
    PROVE  /\ \A c \in Callers : pc'[c] = pc[c]
           /\ result' = result /\ pc'[Server] \notin Handler
<1>1. ~DestroyAll /\ ~Remove
  BY DEF DestroyAll, Destroy, SemDestroy, Remove, At, Handler
<1>2. \E label \in {"write", "openEmpty", "openFull", "setEmpty", "setFull", "waitEmpty",
                    "load", "store", "postFull", "failed", "exited"} : Goto(Server, label)
  <2>1. Attach(Server) => Goto(Server, "openEmpty") \/ Goto(Server, "failed")
    BY DEF Attach
  <2>2. Open(Server) => Goto(Server, "openFull") \/ Goto(Server, "setEmpty")
    BY DEF Open, SemInit
  <2>3. SetValues => \/ Goto(Server, "setFull") \/ Goto(Server, "waitEmpty")
                     \/ Goto(Server, "failed")
    BY DEF SetValues, SemInitValue, Call
  <2>4. Semop => \/ Goto(Server, "load") \/ Goto(Server, "waitEmpty")
                 \/ Goto(Server, "failed")
    BY DEF Semop, SemWait, SemPost, Call
  <2>5. Load => Goto(Server, "store")
    BY DEF Load
  <2>6. Store => Goto(Server, "postFull")
    BY DEF Store, WriteCell
  <2>7. Exit(Server) => Goto(Server, "exited")
    BY DEF Exit, Leave
  <2>8. QED
    BY <1>1, <2>1, <2>2, <2>3, <2>4, <2>5, <2>6, <2>7 DEF Main
<1>3. pc \in [Programs -> ServerLabels \cup CallerLabels]
  BY Ids DEF Places
<1>4. (\A c \in Callers : pc'[c] = pc[c]) /\ pc'[Server] \notin Handler
  BY <1>2, <1>3, Who DEF Goto, Handler
<1>5. result' = result
  BY <1>1 DEF Main, Attach, Open, SetValues, Semop, Load, Store, WriteCell, Exit, memVars
<1>6. QED
  BY <1>4, <1>5

------------------------------------------------------------------------------
(* Every step keeps what holds of the calls *)

\* Rpc sets both semaphores to 0, finds no post of Empty and goes to sleep.
LEMMA StaysQuiet == ASSUME Base, Quiet, Main, pc[Server] \notin Handler PROVE Quiet'
<1>1. (\A c \in Callers : pc'[c] = pc[c]) /\ NobodyCalls'
  BY ServerOnly DEF Quiet, NobodyCalls, Running
<1>2. /\ semid["Empty"] \in Ages /\ semid["Full"] \in Ages
      /\ \A k \in Keys : sem[Server][k] \in Ages /\ Good(k, sems[<<k, semid[k]>>])
  BY Ids, Who, MineIs DEF Base, Sets
<1>3. ASSUME NEW label \in Opening \cup Serving \cup {"failed", "exited"},
             Goto(Server, label)
      PROVE  pc'[Server] = label
  BY <1>3, Who, Ids, Moved DEF ServerLabels
<1>4. ASSUME NEW k \in Keys, NEW y, sems' = [sems EXCEPT ![Named(k)] = y],
             semid' = semid
      PROVE  /\ sems'[Named(k)'] = y
             /\ \A l \in Keys : l # k => sems'[Named(l)'] = sems[Named(l)]
  <2>1. semid[k] \in Ages /\ \A l \in Keys : semid[l] \in Ages
    BY <1>2, Who
  <2>2. QED
    BY <1>4, <2>1 DEF Base, Shape, Named
<1>5. CASE Attach(Server) \/ Open(Server) \/ Exit(Server)
  <2>1. Attach(Server) => Goto(Server, "openEmpty") \/ Goto(Server, "failed")
    BY DEF Attach
  <2>2. Open(Server) => Goto(Server, "openFull") \/ Goto(Server, "setEmpty")
    BY DEF Open, SemInit
  <2>3. Exit(Server) => Goto(Server, "exited")
    BY DEF Exit, Leave
  <2>4. pc'[Server] \in {"openEmpty", "openFull", "setEmpty", "failed", "exited"}
    BY <1>3, <1>5, <2>1, <2>2, <2>3 DEF Opening, Serving
  <2>5. QED
    BY <1>1, <2>4 DEF Quiet, Opening
<1>6. CASE SetValues
  <2>1. PICK k \in Keys, from \in Serving, next \in Serving :
           /\ SemInitValue(Server, from, Mine(Server, k), 0, next)
           /\ \/ k = "Empty" /\ from = "setEmpty" /\ next = "setFull"
              \/ k = "Full" /\ from = "setFull" /\ next = "waitEmpty"
    BY <1>6, Who DEF SetValues, Serving
  <2>2. UNCHANGED <<memVars, idVars, runVars>>
    BY <1>6 DEF SetValues
  <2> DEFINE x == sems[Mine(Server, k)]
             zero == 0
             y == SetValOp(x, zero)
  <2>3. pc[Server] = from /\ zero \in Nat /\ zero = 0
    BY <2>1 DEF SemInitValue, Call, At
  <2>4. \/ x.exists /\ sems' = [sems EXCEPT ![Mine(Server, k)] = y] /\ Goto(Server, next)
        \/ Goto(Server, "failed")
    BY <2>1 DEF SemInitValue, Call
  <2> HIDE DEF zero
  <2>5. CASE Goto(Server, "failed")
    <3>1. pc'[Server] = "failed"
      BY <1>3, <2>5
    <3>2. QED
      BY <1>1, <3>1 DEF Quiet
  <2>6. CASE x.exists /\ sems' = [sems EXCEPT ![Mine(Server, k)] = y] /\ Goto(Server, next)
    <3>1. Good(k, x) /\ sem[Server][k] = semid[k] /\ Mine(Server, k) = Named(k)
      <4>1. sem[Server][k] \in Ages /\ Mine(Server, k) = <<k, sem[Server][k]>>
        BY <1>2 DEF Mine
      <4>2. Good(k, x) /\ sem[Server][k] = semid[k]
        BY <2>6, <4>1 DEF Base, Sets
      <4>3. QED
        BY <4>1, <4>2 DEF Named
    <3>2. Up
      <4>1. semid[k] \in Nat /\ ~Lost(k)
        BY <1>2, <3>1, Who DEF Lost, Ages
      <4>2. Up \/ Down
        BY <2>1, <2>3 DEF Base, Holding, Serving
      <4>3. QED
        BY <4>1, <4>2, Who DEF Down
    <3>3. y.exists /\ y.val = 0
      BY <2>3, <2>6, <3>1, SetGood DEF Follows
    <3> HIDE DEF x, y
    <3>4. /\ sems'[Named(k)'] = y
          /\ \A l \in Keys : l # k => sems'[Named(l)'] = sems[Named(l)]
      BY <1>4, <2>2, <2>6, <3>1 DEF idVars
    <3>5. Up'
      BY <2>2, <3>2, <3>3, <3>4, Who DEF Up, Has, idVars
    <3>6. pc'[Server] = next
      BY <1>3, <2>1, <2>6 DEF Serving
    <3>7. CASE k = "Empty"
      BY <1>1, <2>1, <3>3, <3>4, <3>5, <3>6, <3>7 DEF Quiet
    <3>8. CASE k = "Full"
      BY <1>1, <2>1, <2>3, <3>3, <3>4, <3>5, <3>6, <3>8, Who DEF Quiet
    <3>9. QED
      BY <3>7, <3>8, Who
  <2>7. QED
    BY <2>4, <2>5, <2>6
<1>7. CASE Semop
  <2> DEFINE x == sems[Named("Empty")]
             y == WaitOp(x, Server)
  <2>1. /\ SemWait(Server, "waitEmpty", Mine(Server, "Empty"), "load")
        /\ UNCHANGED <<memVars, idVars, runVars>>
    BY <1>7 DEF Semop, SemPost, Call, At, Quiet, Opening
  <2>2. pc[Server] = "waitEmpty" /\ ~Asleep(Server)
    BY <2>1 DEF SemWait, Call, At
  <2>3. Up /\ x.val = 0 /\ sems[Named("Full")].val = 0
    BY <2>2 DEF Quiet
  <2>4. x.exists /\ Mine(Server, "Empty") = Named("Empty")
    BY <2>3 DEF Up, Has, Mine, Named
  <2>5. sems' = [sems EXCEPT ![Named("Empty")] = y] /\ Goto(Server, "load")
    BY <2>1, <2>4 DEF SemWait, Call
  <2>6. Good("Empty", x) /\ x.queue = << >>
    BY <1>2, <2>2, Awake, Who DEF Named
  <2>7. y.queue = Append(x.queue, Server)
    BY <2>3, <2>6, Who, WaitGood
  <2>8. y.queue = <<Server>>
    BY <2>6, <2>7
  <2> HIDE DEF x, y
  <2>9. /\ sems'[Named("Empty")'] = y
        /\ sems'[Named("Full")'] = sems[Named("Full")]
    BY <1>4, <2>1, <2>5, Who DEF idVars
  <2>10. pc'[Server] = "load"
    BY <1>3, <2>5 DEF Serving
  <2>11. QED
    BY <1>1, <2>3, <2>8, <2>9, <2>10 DEF Quiet, Resting
<1>8. ~Load /\ ~Store
  BY RestIsSleep DEF Load, Store, WriteCell, At, Quiet, Opening
<1>9. ~DestroyAll /\ ~Remove
  BY DEF DestroyAll, Destroy, SemDestroy, Remove, At, Handler
<1>10. QED
  BY <1>5, <1>6, <1>7, <1>8, <1>9 DEF Main

\* A step of rpc.
LEMMA ServerCalls == ASSUME RInv, Main PROVE Calls'
<1>1. Base /\ OneByOne /\ Undisturbed /\ Unread /\ OwnCall /\ RightWhenAlone
  BY DEF RInv, Calls
<1>2. alone' = alone /\ setting' = setting
  BY DEF Main, Attach, Open, SetValues, Semop, Load, Store, WriteCell, DestroyAll, Destroy,
     Remove, Exit, runVars
<1>3. CASE pc[Server] \in Handler
  <2>1. setting = "harsh" /\ alone = {}
    BY <1>1, <1>3, HandlerHarsh DEF Undisturbed
  <2>2. DestroyAll \/ Remove
    BY <1>3 DEF Main, Attach, Open, SetValues, Semop, Load, Store, WriteCell, Exit,
       SemInit, SemInitValue, SemWait, SemPost, Call, At, Handler
  <2>3. result' = result /\ \A c \in Callers : pc'[c] \in {pc[c], "failed"}
    <3>1. pc \in [Programs -> ServerLabels \cup CallerLabels]
      BY <1>1, Ids DEF Places
    <3>2. CASE DestroyAll
      BY <3>2, Who DEF DestroyAll, Destroy, SemDestroy, memVars
    <3>3. CASE Remove
      BY <3>1, <3>3, Who DEF Remove, Goto, memVars
    <3>4. QED
      BY <2>2, <3>2, <3>3
  <2>4. OneByOne' /\ OwnCall'
    BY <1>2, <2>1 DEF OneByOne, OwnCall
  <2>5. Undisturbed' /\ RightWhenAlone'
    BY <1>2, <2>1 DEF Undisturbed, RightWhenAlone
  <2>6. Unread'
    BY <1>1, <2>3 DEF Unread
  <2>7. QED
    BY <2>4, <2>5, <2>6 DEF Calls
<1>4. CASE pc[Server] \notin Handler
  <2>1. /\ \A c \in Callers : pc'[c] = pc[c]
        /\ result' = result /\ pc'[Server] \notin Handler
    BY <1>1, <1>4, ServerOnly
  <2>2. \A c \in Callers : (Running(c)' <=> Running(c)) /\ (Only(c)' <=> Only(c))
    BY <2>1 DEF Running, Only
  <2>3. OneByOne'
    <3>1. SUFFICES ASSUME setting = "sequence", NEW c \in Callers, Running(c)
                   PROVE  Only(c) /\ (pc[c] \notin {"done", "failed"} => Tended(c)')
      BY <1>2, <2>1, <2>2 DEF OneByOne
    <3>2. Only(c) /\ (pc[c] \notin {"done", "failed"} => Tended(c))
      BY <1>1, <3>1 DEF OneByOne
    <3>3. ASSUME pc[c] \notin {"done", "failed"} PROVE Tended(c)'
      <4>1. pc[c] \in Before \cup Posted /\ Tended(c)
        BY <1>1, <3>1, <3>2, <3>3, Works
      <4>2. Tending(c)
        BY <1>1, <4>1, ServerTends
      <4>3. QED
        BY <2>1, <4>1, <4>2 DEF Tending
    <3>4. QED
      BY <3>2, <3>3
  <2>4. Undisturbed'
    <3>1. ASSUME NEW c \in alone, c # Server
          PROVE  Only(c)' /\ (pc'[c] \in Before \cup Posted => Tended(c)' /\ Fresh(c)')
      <4>1. /\ c \in Callers /\ Only(c)
            /\ pc[c] \in Before \cup Posted => Tended(c) /\ Fresh(c)
        BY <1>1, <3>1, Who DEF Undisturbed
      <4>2. ASSUME pc[c] \in Before \cup Posted PROVE Tending(c)
        BY <1>1, <4>1, <4>2, ServerTends
      <4>3. QED
        BY <2>1, <2>2, <4>1, <4>2 DEF Tending
    <3>2. Server \in alone => Quiet'
      BY <1>1, <1>4, StaysQuiet DEF Undisturbed
    <3>3. QED
      BY <1>1, <1>2, <2>1, <3>1, <3>2 DEF Undisturbed
  <2>5. Unread' /\ OwnCall' /\ RightWhenAlone'
    BY <1>1, <1>2, <2>1 DEF Unread, OwnCall, RightWhenAlone, Undisturbed
  <2>6. QED
    BY <2>3, <2>4, <2>5 DEF Calls
<1>5. QED
  BY <1>3, <1>4

\* A step of an app.
LEMMA AppCalls == ASSUME RInv, NEW c \in Callers, App(c) PROVE Calls'
<1>1. Base /\ OneByOne /\ Undisturbed /\ Unread /\ OwnCall /\ RightWhenAlone
  BY DEF RInv, Calls
<1>2. /\ Running(c) /\ pc'[c] # "off" /\ pc'[Server] = pc[Server]
      /\ \A d \in Callers : d # c => pc'[d] = pc[d] /\ result'[d] = result[d]
      /\ alone' = alone /\ setting' = setting
  BY <1>1, AppOthers DEF runVars
<1>3. ASSUME Only(c) PROVE \A d \in Callers : Running(d)' => d = c
  BY <1>2, <1>3 DEF Only, Running
<1>4. \A d \in alone : d = c
  <2>1. Server \notin alone
    BY <1>1, <1>2 DEF Undisturbed, Quiet, NobodyCalls
  <2>2. QED
    BY <1>1, <1>2, <2>1 DEF Undisturbed, Only
<1>5. Unread'
  BY <1>1, <1>2 DEF Unread
<1>6. ASSUME Only(c), pc[c] \in Before \cup Posted => Tended(c)
      PROVE  /\ Only(c)'
             /\ pc'[c] \in Before \cup Posted => Tended(c)' /\ (Fresh(c) => Fresh(c)')
             /\ result'[c] = result[c] \/ (/\ result'[c] \in {c, Sum[c]}
                                           /\ Fresh(c) => result'[c] = Sum[c]
                                           /\ pc[c] \in Before \cup Posted)
  <2>1. /\ Tending(c)
        /\ \/ result' = result
           \/ /\ result'[c] \in {c, Sum[c]} /\ (Fresh(c) => result'[c] = Sum[c])
              /\ Tended(c) /\ pc[c] = "read"
    BY <1>1, <1>6, AppTends
  <2>2. Only(c)'
    BY <1>3, <1>6 DEF Only
  <2>3. QED
    BY <2>1, <2>2 DEF Tending, Posted
<1>7. OneByOne' /\ OwnCall'
  <2>1. CASE setting # "sequence"
    BY <1>2, <2>1 DEF OneByOne, OwnCall
  <2>2. CASE setting = "sequence"
    <3>1. Only(c) /\ (pc[c] \in Before \cup Posted => Tended(c))
      BY <1>1, <1>2, <2>2 DEF OneByOne, Before, Posted
    <3>2. /\ Only(c)' /\ (pc'[c] \in Before \cup Posted => Tended(c)')
          /\ result'[c] = result[c] \/ result'[c] \in {c, Sum[c]}
      BY <1>6, <3>1
    <3>3. OwnCall'
      BY <1>1, <1>2, <2>2, <3>2 DEF OwnCall
    <3>4. ASSUME NEW d \in Callers, Running(d)'
          PROVE  Only(d)' /\ (pc'[d] \notin {"done", "failed"} => Tended(d)')
      <4>1. d = c
        BY <1>3, <3>1, <3>4
      <4>2. pc'[c] \in CallerLabels
        BY <1>1, AppBase, Ids DEF Base, Shape, Places
      <4>3. pc'[c] \notin {"done", "failed"} => pc'[c] \in Before \cup Posted
        BY <3>4, <4>1, <4>2 DEF CallerLabels, Running
      <4>4. QED
        BY <3>2, <4>1, <4>3
    <3>5. QED
      BY <3>3, <3>4 DEF OneByOne
  <2>3. QED
    BY <2>1, <2>2
<1>8. Undisturbed' /\ RightWhenAlone'
  <2>1. CASE c \notin alone
    <3>1. alone' = {}
      BY <1>2, <1>4, <2>1
    <3>2. QED
      BY <3>1 DEF Undisturbed, RightWhenAlone
  <2>2. CASE c \in alone
    <3>1. alone' = {c} /\ alone = {c}
      BY <1>2, <1>4, <2>2
    <3>2. Only(c) /\ (pc[c] \in Before \cup Posted => Tended(c) /\ Fresh(c))
      BY <1>1, <2>2, Who DEF Undisturbed
    <3>3. /\ Only(c)' /\ (pc'[c] \in Before \cup Posted => Tended(c)' /\ (Fresh(c) => Fresh(c)'))
          /\ \/ result'[c] = result[c]
             \/ (Fresh(c) => result'[c] = Sum[c]) /\ pc[c] \in Before \cup Posted
      BY <1>6, <3>2
    <3>4. RightWhenAlone'
      BY <1>1, <3>1, <3>2, <3>3, Who DEF RightWhenAlone
    <3>5. ASSUME pc'[c] \in Before \cup Posted PROVE Fresh(c)
      <4>1. pc[c] \in Before \cup Posted
        <5>1. pc[c] \notin {"done", "failed"}
          <6>1. SUFFICES ASSUME pc[c] \in {"done", "failed"} PROVE FALSE
            OBVIOUS
          <6>2. Exit(c)
            BY <6>1 DEF App, Attach, Open, SemInit, Ask, WriteCell, SemPost, Await,
               SemWait, Call, Read, At
          <6>3. Goto(c, "exited")
            BY <6>2 DEF Exit, Leave
          <6>4. pc'[c] = "exited"
            BY <1>1, <6>3, Who, Ids DEF Goto, Places
          <6>5. QED
            BY <3>5, <6>4 DEF Before, Posted
        <5>2. QED
          BY <1>1, <1>2, <5>1, Works
      <4>2. QED
        BY <3>2, <4>1
    <3>6. Undisturbed'
      BY <1>1, <1>2, <3>1, <3>3, <3>5, Who DEF Undisturbed
    <3>7. QED
      BY <3>4, <3>6
  <2>3. QED
    BY <2>1, <2>2
<1>9. QED
  BY <1>5, <1>7, <1>8 DEF Calls

\* The start of an app: if rpc waits and nobody else calls, it rests.
LEMMA StartCalls == ASSUME RInv, NEW c \in Callers, StartCaller(c) PROVE Calls'
<1>1. Base /\ OneByOne /\ Undisturbed /\ Unread /\ OwnCall /\ RightWhenAlone
  BY DEF RInv, Calls
<1>2. /\ pc[c] = "off" /\ Goto(c, "shmat")
      /\ setting = "sequence" => NobodyCalls /\ Idle
      /\ alone' = IF /\ NobodyCalls /\ Idle
                     /\ Server \in alone \/ sems[Named("Full")].val = 0
                  THEN {c} ELSE {}
      /\ shm' = [shm EXCEPT ![c] = segment] /\ segment' = segment
      /\ UNCHANGED <<memVars, semid, sem, resume, setting, starts, signals, sems>>
  BY DEF StartCaller, Shmget
<1>3. "shmat" \in CallerLabels
  BY DEF CallerLabels, Before
<1>4. /\ pc'[c] = "shmat" /\ pc'[Server] = pc[Server]
      /\ \A d \in Callers : d # c => pc'[d] = pc[d]
  BY <1>1, <1>2, <1>3, Who, Ids, Moved
<1>5. ASSUME NobodyCalls, Idle PROVE Only(c)' /\ Tended(c)'
  <2>1. Resting /\ Up
    BY <1>1, <1>5, AsleepUp DEF Idle
  <2>2. Only(c)'
    BY <1>4, <1>5 DEF Only, Running, NobodyCalls
  <2>3. shm'[c] = segment' /\ shm'[Server] = shm[Server]
    BY <1>1, <1>2, Who DEF Base, Shape
  <2>4. Up'
    BY <1>2, <2>1, <2>3 DEF Up, Has, Named
  <2>5. Asking(c)'
    BY <1>2, <1>4, <2>1 DEF Asking, Resting, Named, Before
  <2>6. QED
    BY <1>4, <2>2, <2>3, <2>4, <2>5 DEF Tended
<1>6. OneByOne' /\ OwnCall'
  <2>1. CASE setting # "sequence"
    BY <1>2, <2>1 DEF OneByOne, OwnCall
  <2>2. CASE setting = "sequence"
    <3>1. Only(c)' /\ Tended(c)'
      BY <1>2, <1>5, <2>2
    <3>2. \A d \in Callers : Running(d)' => d = c
      BY <3>1 DEF Only
    <3>3. OneByOne'
      BY <3>1, <3>2 DEF OneByOne
    <3>4. OwnCall'
      BY <1>1, <1>2 DEF OwnCall, memVars
    <3>5. QED
      BY <3>3, <3>4
  <2>3. QED
    BY <2>1, <2>2
<1>7. Undisturbed' /\ RightWhenAlone'
  <2>1. CASE alone' = {}
    BY <2>1 DEF Undisturbed, RightWhenAlone
  <2>2. CASE alone' # {}
    <3>1. alone' = {c} /\ NobodyCalls /\ Idle /\ sems[Named("Full")].val = 0
      BY <1>1, <1>2, <2>2 DEF Undisturbed, Quiet, Idle
    <3>2. Only(c)' /\ Tended(c)'
      BY <1>5, <3>1
    <3>3. Fresh(c)'
      BY <1>2, <1>4, <3>1 DEF Fresh, Named
    <3>4. pc'[Server] \notin Handler
      BY <1>4, <3>1 DEF Idle, Handler
    <3>5. result'[c] = 0
      BY <1>1, <1>2 DEF Unread, memVars
    <3>6. QED
      BY <3>1, <3>2, <3>3, <3>4, <3>5, Who DEF Undisturbed, RightWhenAlone
  <2>3. QED
    BY <2>1, <2>2
<1>8. Unread'
  BY <1>1, <1>2, <1>4 DEF Unread, memVars
<1>9. QED
  BY <1>6, <1>7, <1>8 DEF Calls

\* The start of rpc, which ran for none of the apps.
LEMMA ServerStartCalls == ASSUME RInv, StartServer PROVE Calls'
<1>1. Base /\ OneByOne /\ Unread /\ OwnCall
  BY DEF RInv, Calls
<1>2. /\ ~Running(Server) /\ alone' = (IF NobodyCalls THEN {Server} ELSE {})
      /\ Goto(Server, "shmat")
      /\ setting' = setting /\ result' = result
  BY DEF StartServer, Shmget, memVars
<1>3. pc'[Server] = "shmat" /\ \A c \in Callers : pc'[c] = pc[c]
  BY <1>1, <1>2, Who, Ids DEF Goto, Places
<1>4. \A c \in Callers : ~Tended(c)
  BY <1>1, <1>2, TendedIs DEF Running
<1>5. OneByOne'
  <2>1. \A c \in Callers : (Running(c)' <=> Running(c)) /\ (Only(c)' <=> Only(c))
    BY <1>3 DEF Running, Only
  <2>2. QED
    BY <1>1, <1>2, <1>3, <1>4, <2>1 DEF OneByOne
<1>6. Undisturbed' /\ RightWhenAlone'
  <2>1. NobodyCalls => Quiet'
    BY <1>3 DEF Quiet, NobodyCalls, Running, Opening
  <2>2. QED
    BY <1>2, <1>3, <2>1, Who DEF Undisturbed, RightWhenAlone, Handler
<1>7. Unread' /\ OwnCall'
  BY <1>1, <1>2, <1>3 DEF Unread, OwnCall
<1>8. QED
  BY <1>5, <1>6, <1>7 DEF Calls

\* A signal, after which nothing is promised of the calls that are under way.
LEMMA SignalCalls ==
    ASSUME RInv, SigInt \/ \E p \in Programs : Kill(p)
    PROVE  Calls'
<1>1. Base /\ Unread
  BY DEF RInv, Calls
<1>2. /\ setting' = "harsh" /\ alone' = {} /\ result' = result
      /\ \E p \in Programs, label \in {"destroyEmpty", "exited"} : Goto(p, label)
  <2>1. SigInt => Server \in Programs /\ Goto(Server, "destroyEmpty")
    BY Who DEF SigInt
  <2>2. \A p \in Programs : Kill(p) => Goto(p, "exited")
    BY DEF Kill, Leave
  <2>3. QED
    BY <2>1, <2>2 DEF SigInt, Kill, memVars
<1>3. \A c \in Callers : pc'[c] = "off" => pc[c] = "off"
  BY <1>1, <1>2, Who, Ids DEF Goto, Places
<1>4. OneByOne' /\ OwnCall' /\ Undisturbed' /\ RightWhenAlone'
  BY <1>2 DEF OneByOne, OwnCall, Undisturbed, RightWhenAlone
<1>5. Unread'
  BY <1>1, <1>2, <1>3 DEF Unread
<1>6. QED
  BY <1>4, <1>5 DEF Calls

\* Every step keeps Calls.
LEMMA CallsStep == ASSUME RInv, [Next]_vars PROVE Calls'
<1>1. ASSUME vars' = vars PROVE Calls'
  BY <1>1 DEF vars, memVars, idVars, runVars, RInv, Calls, OneByOne, Undisturbed, Unread,
     OwnCall, RightWhenAlone, Running, Only, Quiet, NobodyCalls, Tended, Fresh, Asking,
     Counting, Counted, Resting, Up, Has, Named
<1>2. ASSUME Stopped PROVE Calls'
  BY <1>1, <1>2 DEF Stopped
<1>3. QED
  BY <1>1, <1>2, ServerStartCalls, ServerCalls, SignalCalls, StartCalls, AppCalls DEF Next
------------------------------------------------------------------------------
(* The theorems *)

\* The invariant holds at the start.
LEMMA Starts == Init => RInv
<1>1. SUFFICES ASSUME Init PROVE RInv
  OBVIOUS
<1>2. /\ pc = [p \in Programs |-> "off"] /\ sems = [s \in Keys \X Ages |-> Absent]
      /\ segment = 1 /\ semid = [k \in Keys |-> 1] /\ shm = [p \in Programs |-> 1]
      /\ sem = [p \in Programs |-> [k \in Keys |-> 1]]
      /\ cell = [g \in Ages |-> 0] /\ result = [c \in Callers |-> 0]
      /\ resume = "off" /\ alone = {} /\ setting \in Settings /\ signals = 0
  BY <1>1 DEF Init
<1>3. 1 \in Ages
  BY RpcAssumption DEF Ages
<1>4. "off" \in ServerLabels /\ "off" \in CallerLabels
  BY DEF ServerLabels, CallerLabels
<1>5. pc[Server] = "off" /\ \A c \in Callers : pc[c] = "off"
  BY <1>2, Who
<1>6. Places
  BY <1>2, <1>4, <1>5 DEF Places
<1>7. Shape
  BY <1>2, <1>3, <1>6 DEF Shape
<1>8. Aged
  <2>1. semid["Empty"] = 1 /\ semid["Full"] = 1 /\ segment = 1
    BY <1>2, Who
  <2>2. QED
    BY <1>2, <1>5, <2>1, RpcAssumption DEF Aged, Handler
<1>9. Sets /\ Waiter
  <2>1. \A k \in Keys, a \in Ages : sems[<<k, a>>] = Absent
    BY <1>2
  <2>2. QED
    BY <2>1, Who, AbsentGood DEF Sets, Waiter
<1>10. Holding
  BY <1>5 DEF Holding, Opening, Serving
<1>11. Base
  BY <1>7, <1>8, <1>9, <1>10 DEF Base
<1>12. Calls
  <2>1. \A c \in Callers : ~Running(c) /\ result[c] = 0
    BY <1>2, <1>5 DEF Running
  <2>2. QED
    BY <1>2, <2>1 DEF Calls, OneByOne, Undisturbed, Unread, OwnCall, RightWhenAlone
<1>13. QED
  BY <1>11, <1>12 DEF RInv

\* The inductive invariant: what every program has opened (app.c, rpc.c), and how far
\* the call is for which rpc works.
THEOREM RpcInv == Spec => []RInv
<1>1. RInv /\ [Next]_vars => RInv'
  BY BaseStep, CallsStep DEF RInv
<1>2. QED
  BY Starts, <1>1, PTL DEF Spec

\* A call that nothing disturbs, made while rpc waits, gives the sum of its own number
\* (app.c:144-152, rpc.c:163-168) if it is the first since rpc was started, or no post of
\* Full is left over, for any number of callers, restarts and signals before.
THEOREM AloneSafe == Spec => []RightWhenAlone
<1>1. RInv => RightWhenAlone
  BY DEF RInv, Calls
<1>2. QED
  BY RpcInv, <1>1, PTL

\* Callers that come one after the other get their own number or its sum
\* (app.c:140), for any number of callers.
THEOREM OwnSafe == Spec => []OwnCall
<1>1. RInv => OwnCall
  BY DEF RInv, Calls
<1>2. QED
  BY RpcInv, <1>1, PTL
==============================================================================
