# Linux-System-Programming-with-C: a TLA+ verification project

The repository is a course in system programming: about sixty small C programs in nine
chapters.  What can go wrong in them is seldom in their data; it is in their order of
events: threads and processes that share a buffer, semaphores made of mutexes, the kernel undoing
semaphore operations of a dead process, servers that wait for one client while another one calls, signals
that come before `pause`, a `select` loop whose clients come and go.  This project models
those programs in TLA+, checks the models with TLC and proves the central ones with TLAPS.

File names below are relative to `src/`; `6/` is short for `6_Synchronization/`, and so
on for the other chapters.

## 1. Inventory

| part | state it keeps | operations | interacts through | what makes it correct |
|---|---|---|---|---|
| `6/semlib2.c` semaphore for threads | `sval`, `mutex`, `cond` | `sem_init`, `sem_wait`, `sem_trywait`, `sem_post` | called by `prodcons_s.c`, `sipc4.c` from several threads | it is a counting semaphore and strands no sleeper |
| `6/prodcons.h` bounded buffer | `buf`, `in`, `out`, `counter` | put, get | two threads, or two processes with a shared memory segment | it is a bounded FIFO |
| `6/prodcons_s.c` | the buffer, three semaphores | `Producer`, `Consumer`, `main` | `semlib2`, `pthread_join` | as the buffer; tokens conserved, an exact counter, an orderly end |
| `6/prodcons_m.c` | the buffer, a mutex, two conditions | the same | mutex, condition variables | as the buffer; no wakeup is lost |
| `6/prodcons_t.c`, `6/producer.c`, `6/consumer.c` | the buffer | two loops that spin on `counter` | shared memory only | the counter stays in range; a FIFO until an update is lost |
| `6/semlib.c` System V semaphores | in the kernel: value, sleepers, an undo adjustment per process | `semInit`, `semInitValue`, `semWait`, `semPost`, `semDestroy` | called by the next three from several processes | see its callers |
| `6/producer_s.c`, `6/consumer_s.c` | the buffer, three semaphores | two `main`s | `semlib`; started and killed by the user | exclusion also when one is killed; everything consumed and cleaned up |
| `6/sipc1.c`, `6/sipc2.c` | a text in shared memory, three semaphores | one request, one reply | `semlib`; killed by the user | only a reply is taken for the reply; it comes |
| `6/sipc3.c`, `6/sipc4.c`, `5/sipc1.c`/`sipc2.c`, `5/msgq1.c`/`msgq2.c` | the same text under a condition, semaphores, a flag, in a queue | the same | threads, shared memory, a message queue | the same |
| `8/rpc.c`, `8/app.c` calculation server | a number in shared memory, two semaphores | one sum per call; SIGINT destroys all | their copies of `semlib`; restarted, interrupted, killed | right sums (which are), all calls end, SIGINT ends `rpc` |
| `9/chats.c` chat server | `reads`, `cpy_reads`, `sockIdx[]`, `Client[]` | `select` loop, accept, log-in, text, log-out, SIGINT | TCP connections | tables agree, nothing blocks, names and order are kept, all is read |
| `9/chatc.c` chat client | two thread ids, the socket | `main`, `ReceiveMsg`, `SendMsg`, SIGINT | TCP; threads that cancel and join each other | it ends, and does not crash |
| `7/tcps.c`, `udps.c`, `hw2.c`, `hw3.c`, `select.c` | the sockets; children, threads | accept, read, write; `recvfrom`, `sendto`; SIGINT | `tcpc.c`, `tcpc_dns.c`, `udpc.c` | every request is answered, a reply is a reply, only SIGINT ends a server |
| `5/mipc.c` with `synclib.c` | a number in shared memory, two pipes | `update` by turns | parent and child | they alternate and get through |
| `5/fifos.c`, `5/fifoc.c` | named pipes | request and reply | pipes that outlive their processes; restart, SIGINT, kill | every request is answered |
| `5/mymore.c` | a pipe and the descriptors 0 to 4 of two processes | `ls -l` into `more` | the pipe | both processes end, and nothing is lost |
| `4/alarm.c`, `4/mysleep.c` | a timer, a handler | `setalarm`, `mysleep` | SIGALRM | the dots go on, the sleep ends |
| `2/mylsl.c`, `2/mylsr.c` | a directory read twice | listing | other processes that change the directory | what stays is listed, once |
| `8/size.c` | the buffer of `readdir` | a thread per entry | threads with pointers into that buffer | a name is printed with its own size |
| `1/mycp.c`, `mycp2.c`, `split.c`, `merge.c`, `5/mycp3.c`, `8/del.c`, `8/pattern.c` | buffers | copy, split, merge, delete, count | - | they compute what they should |

### Not modelled

* `3/mysystem.c` waits for the one child it has forked.  Each of the two threads of `3/tadd.c` adds to
  a counter of its own, and `main` reads both after it has joined both: no step of one can disturb another.
* `2/myrm.c` is one call of `remove`; `5/shm.c` prints addresses.
* How `mylsl.c` formats a line (mode bits, owner, time), which is two thirds of that file, and every other text
  that is printed, unless it is the result.
* `semTryWait`, `semGetValue` of `semlib.c` and of its copies, `sem_getvalue`, `sem_destroy` of `semlib2.c`: nobody
  calls them while another thread or process is at work, or at all.
* `ThreadUsleep`, `usleep` and `rand` only delay and choose data; every delay is possible in the models
  anyway.
* Calls that fail for want of memory, descriptors or processes: the programs print an error and exit.

### What is hard in this code

`PROJECT.json` lists the hazards with their lines.  In short: a semaphore that signals
before it adds the permit (`semlib2.c:67-73`); wakeups that are forgotten or come
without a signal (`prodcons_m.c:64-78, 109-123`, `sipc3.c:17`); a counter that two sides change without a
lock (`prodcons_t.c:66, 87`); `SETVAL` against a process that is already
at work (`consumer_s.c:38-46`); sleeps in the place of a join
(`producer_s.c:68`, `msgq1.c:36`); `SEM_UNDO`, which helps when a process is killed and hurts when it
ends normally (`semlib.c:38, 64`, `app.c:140`); a signal handler that takes the semaphores away from the code
it returns to (`rpc.c:114-125`); a signal that comes too early (`mysleep.c:15`); threads that cancel and join each other from three
places (`chatc.c:67-70, 103-111`); servers with one thread that wait for the wrong client (`tcps.c:62`, `select.c:156`,
`fifos.c:59`); a pipe that ends only when everybody has closed it (`mymore.c:18, 31`); three tables of the chat
server that must agree while descriptors are reused (`chats.c:86-88, 164-171`), a snapshot of ready descriptors that is
used later (`chats.c:147-157`), and sends to clients that are gone (`chats.c:58`).

## 2. Modules

```
Semaphore   <== SemLib2            ThreadsProofs       MCThreads
BoundedFifo <== SharedBuffer       SharedBufferProofs
                <- ProdConsS       ProdConsSProofs     MCProdConsS
                <- ProdConsM       ProdConsMProofs     MCProdConsM
                <- ProdConsT       ThreadsProofs       MCThreads
                <- ProdConsV       ProdConsVProofs     MCProdConsV
                   ProdConsV -> SysVProcs -> SysVSem
RequestReply <== SipcV       -> SysVProcs -> SysVSem   MCPrograms
             <== SipcOthers                            MCPrograms
Rpc -> SysVProcs -> SysVSem        RpcProofs           MCRpc
ChatS                              ChatProofs          MCChatS, MCChat
ChatC                              ChatProofs          MCChat
Servers                            ServersProofs       MCServers
Sizes                              ThreadsProofs       MCThreads
PipeSync, NamedPipes, Alarms, Pipeline,
Listings, Tools                                        MCPrograms
```

`<==` is "is implemented by" (`INSTANCE`, a `PROPERTY` of the run), `<-` is `EXTENDS`, `->` is
`INSTANCE`.

**Semaphore** is the counting semaphore a caller expects: a call takes effect in one step
between its invocation and its return.  **SemLib2** is `semlib2.c`, where each
pthread call and each access to `sval` is a step.  `pc` is the place in the
function; `waitBlocked` is the sleep in `pthread_cond_wait`, `waitRelock` the thread that was
woken and does not have the mutex yet.  `PostSignal` wakes any one sleeper, `SpuriousWake` is a
return without a signal.

**BoundedFifo** is what every producer/consumer program promises.  **SharedBuffer** has
the buffer and the accesses all of them make: `PutItem`, `GetItem`, and
`counter++`/`counter--` as `LoadCounter` and `StoreCounter`, since the compiler
makes a load and a store of them.  Items are numbered; their data does not matter.  Each
program's module adds what it does around the accesses:

* **ProdConsS** - a semaphore call is one step.  That is not an assumption: `SemLib2`
  implements `Semaphore` (checked, and its safety part proved).
* **ProdConsM** - `Sleep` gives up the mutex and sleeps, `Signal` wakes the other side if it sleeps.
* **ProdConsT** - a spinning side is enabled when it reads a value that lets it go on.
  `lost` remembers whether a store has overwritten an update of the other side.  The processes
  `producer.c`, `consumer.c` make the same accesses to a segment.
* **ProdConsV** - two processes.  `setting` says how they are run, see *runs*.

In the programs with threads `main` is a process of its own, which joins the others and
destroys what they share.  The pthread functions return 0 or a positive error number, so the
`< 0` branches of the code are dead and have no action.

**SysVSem** is a System V semaphore as pure operators on a record: value, queue of sleepers,
undo adjustment per process.  The kernel performs a sleeper's decrement itself when the
value grows (`Settle`), so a process that left the queue has its permit.  `ExitOp` is what
`SEM_UNDO` does at the exit, `SetValOp` is `SETVAL`, which clears all adjustments.
**SysVProcs** makes steps of processes of them: a call on a semaphore that does not exist fails
and ends the process, as the callers' `exit(1)` does; `SemDestroy` fails the sleepers.

**RequestReply** is what `sipc` promises in all its versions.  **SipcV** is `6/sipc1.c` and
`6/sipc2.c`; **SipcOthers** has the other four pairs, each as a list of steps `Do(who, from, to, what)` on a
record `sync`, `sync.version` says which.  The busy-waiting pair spins on a flag; `IPC_RMID`
leaves the segment to those that have attached it.  Removing a message queue is different: `msgrcv` then fails.

**Rpc** is `rpc.c` and `app.c`.  Program 0 is the server, program `n` the app that is called with `n`.  A key names
one set or segment after another: `semid` and `segment` say which one now, `sem` and `shm` which one a program
has got hold of, so a program can go on with a set that is destroyed while its key names a new one.  `SigInt`
is the delivery of the signal: a sleeping `semWait` will fail (`resume`), anything else goes on after
the handler, whose three calls are steps of their own.  `alone` remembers the caller that nothing has
disturbed since it found the server waiting, and, before a first call, that nobody has called since the server was started.  Left out: a SIGINT before `rpc` has opened both
semaphores, where the handler works on ids that are still 0 (`rpc.c:115`) and what it destroys depends on what else the
machine runs; and overflow of the sum.

**ChatS** is `chats.c`.  `Select` takes the snapshot `cpy_reads`; the scan handles its
descriptors in ascending order, the listening socket first: `Accept`, and for a client
`LogIn`, `Say`, `Farewell` (log-out) or `RecvFails`.  `SendToOtherClients` is part of
`Say` and `Farewell`: one step, because sends to different sockets do not disturb
each other; a send that fails ends the server, and only the entries before it were served.
`GetID` is a function on `Client`; from a full table it returns 1, as the program built by the makefile
(no optimisation) does.  The peers are the environment: `Connect`, `Send` (the ID, then texts),
`Leave`, `Reset`.  A connection the peer has closed is `closed` until the server sends on it
(`hit`), and `reset` when the answer has arrived: then a send fails.  A peer that leaves with
unread data is `aborted`: then the server's recv fails behind the data.  One recv takes any
number of the waiting items, of which the string functions see the first.  Items are whole
and fit into the buffers.  A failing `select`, `accept` or `socket` is left out (no descriptor is
ever closed while it is in `reads`: part of `OwnEntry`).

**ChatC** is the rest of `chatc.c`: how it ends.  `main` and the threads `R` (`ReceiveMsg`) and `S` (`SendMsg`) each have a place;
`ids` are the thread ids that are set, `cancelled` the threads that were cancelled and have not noticed yet.  The handler `CloseClient` is a
run of places of `main`, which it interrupts, in one of its own joins or elsewhere.  A join of a thread that somebody else joins
already may return an error at once, and passes for success: `JoinAtOnce`.

**Servers** has the five servers of chapter 7 and their clients; `kind` is the one that runs.  The calls are the same in all of
them (`Accept`, `ReadRequest`, `WriteReply`, `Close`, `ReceiveFrom`, `SendTo`) and take the place where the first thread goes on; what
differs is who makes them: the first thread (`Tcps`, `Udps`, `Select`), a child (`Hw2Child`; `listeners` are the processes that have the
listening socket), a thread (`Hw3Accept`, `Hw3ReceiveFrom`; `spare` counts those that still wait).  `todo` is what is left of `count` in
the loop of `select.c` and `hw3.c`: when both sockets are ready that is the TCP socket twice, since nothing is
removed from the set.  `hw3.c` starts threads faster than they are used when a socket stays ready; `MaxSpare` bounds that.  A client
that is `mute` has connected and sends nothing.

**PipeSync** is `mipc.c` with `synclib.c`; a pipe is its number of bytes.  **NamedPipes** is `fifos.c` and
`fifoc.c`: a name that is removed and made again is another pipe, and a pipe keeps its contents only while somebody has it open.
**Pipeline** is `mymore.c`: `fd` says which file is open under which descriptor of which process, and that decides when
a read sees the end and when a write has no reader.  **Alarms** is `alarm.c` and `mysleep.c`: a pending signal is handled
before the next step of the program, and interrupts `pause` only if the program is in it.  **Listings** is `mylsl.c` (as `ls -l`) and `mylsr.c`
(as `ls -R`) on a small tree that changes under them.  **Sizes** is `size.c`: a thread has a pointer to a slot of the buffer of
`readdir`, which `Create` fills anew.  **Tools** has the sequential programs as functions on sequences of bytes, each loop a recursive
function of what is left to do.

Operators that begin with "A faulty ..." are mutations of the definition behind them; each shows that
a property can fail.  No specification uses them.

## 3. Runs

| run | constants | states | question |
|---|---|---|---|
| `threads` | see below | 34 thousand | is `semlib2.c` a semaphore? what does busy waiting without a lock break? whose size does `size.c` print? |
| `prodcons_s` | `MAX_BUF` 2, `NLOOPS` 20, the program's own | 1.7 thousand | is `prodcons_s.c` a FIFO buffer that ends well? |
| `prodcons_m` | the same, 2 spurious wakeups | 6 thousand | the same for `prodcons_m.c`; are wakeups lost? |
| `prodcons_v` | the same `MAX_BUF`, `NLOOPS`, at most one kill | 9 thousand | `producer_s.c`, `consumer_s.c` run as intended, and run anyhow |
| `programs` | see below | 11 thousand | the other small programs of chapters 1 to 6 and 8 |
| `rpc` | 2 callers, 2 starts of `rpc`, one interrupt or kill | 250 thousand | which calls are right, which are answered, does SIGINT end `rpc`? |
| `rpc_again` | 2 callers, one after the other | - | the second call (finding) |
| `chats` | 3 peers, 3 entries, 1 text each | a million | tables, blocking, names, order, what ends the server |
| `chat` | server: 2 peers, 2 entries, 2 texts each; client: 2 unread texts | 47 thousand | is everything read, every closed connection given up? does the client end? |
| `chats_full` | 3 peers, 2 entries | - | a client too many (finding) |
| `servers` | each server with 2 TCP clients and 1 UDP client; at most 1 killed, 1 mute | 84 thousand | is every request answered, who can end a server? |
| `servers_both` | `select.c`, 1 TCP and 1 UDP client | - | a connection and a datagram together (finding) |

`MCThreads`, `MCPrograms` and `MCChat` put programs that have nothing to do with each other into one run: the variable `program` (`side`) is
chosen at the start, the others stay as they are, and each property speaks of its own program.  The bounds in `MCThreads`: for `semlib2` 3 threads,
the initial value 1, 2 calls each and 1 spurious wakeup; `prodcons_t` with `MAX_BUF` 2 and `NLOOPS` 7; up to three entries in a directory where the
buffer of `readdir` holds two.  In `MCPrograms`: `sipc` prompt, and with any kills (there are two processes to kill); two clients of `fifos` and two signals (`MaxEnds`); three pages
through a pipe that takes two; two changes of a directory while it is listed; files of up to five bytes for a buffer of two.

The bounds are enough for the interesting cases.  Three threads are a sleeper, a poster and a
third that takes the permit in between; two calls let each block after it has posted.  Where the
program fixes the numbers (`prodcons.h:9-10`, `mipc.c`) the runs use them.  In `prodcons_t` seven
items make the lost update, the wrap-around and a full buffer happen; the items of a longer
run bring nothing new.  One kill out of two processes is the one that matters: after it only one is left.
In `rpc` two callers meet in the memory and at the semaphores, or come one after the other; after the one interrupt or kill `rpc`
may be started again on what is left.
In `chats` three peers can be in three entries at once (one text goes to two others, the second
of which may be gone), or follow each other in a reused entry and descriptor; the
table is smaller than the program's five.  `chats` treats the peers as symmetric; `chat`
checks liveness and does not.  In `servers` the one TCP client can be served while the other waits, is mute or is killed,
and a datagram can be there before, with and after a connection.
With two signals a server of named pipes can be killed, started on what is left, and interrupted.  Five bytes are
two buffers and a rest, in halves of two and three.

Deadlock is checked where a specification names the states in which a system may rest (`Ended`, `Stopped`, `Quiet`, `Idle`).
`programs`, `chat`, `servers` and `servers_both` say `CHECK_DEADLOCK FALSE`: in them a system comes to rest in many ways that are
right (a server without clients waits, a killed partner leaves the other in `read`), and what may not happen is
said by the liveness properties `TakesTurns`, `PipelineEnds`, `FifoServed`, `SipcAnswered`, `Ends` and `Served` instead.

### What the properties say

* `ImplementsSemaphore`, `ImplementsFifo`, `FifoSafety`, `SipcNoFalseText`: the abstract specification, as a refinement.
* `MutexGuardsCounter`, `CounterExact`, `MutexReturned`: mutual exclusion and what it protects;
  in `ProdConsV` also when a holder is killed.
* `NoStranded`, `NoLostWakeup`: nobody sleeps on a condition that holds unless a wakeup is under way, and (`NoLostWakeup`) the two sides
  never sleep both, nor one of them when the other has ended.
* `TokensConserved`, `NobodyLeftWaiting`: tokens are neither lost nor made; the two sides are never both held up by a semaphore, nor one of them when the other has ended.
* `FinalReport`, `AllConsumed`, `CleanEnd`: what is destroyed at the end is out of use, and nothing is missing.
* `CounterInRange`, `WorksUntilLost`: busy waiting loses updates, but never leaves the range the waits test for, and is a FIFO that
  leaves nobody spinning and ends as long as no update is lost.
* `SipcNoFalseText`, `SipcAnswered`: in six programs a request gets its reply, and nothing else is taken for it.
* `TakesTurns`, `FifoServed`, `Rings`, `PipelineEnds`, `Lists`, `OwnSizes`, `ToolsRight`: one property for each of the small programs; the
  comment above each says what it leaves out.
* `RightWhenAlone`, `OwnCall`, `AllAnswered`, `InterruptEnds`: which calls of `rpc` give the right sum (not all do; the first after a
  restart does, whatever the semaphores were left at), that every
  call ends while `rpc` runs although exits take posts back, and that SIGINT always ends `rpc`.
* `OwnEntry`, `NeverBlocks`, `Faithful`, `DiesOnlyOfReset`, `Served` (of `ChatS`): the chat server.  `chats` and
  `chat` assume at most `MAX_CLIENT` clients at a time (`Crowd`).
* `CrashesOnlyEarly`, `Ends`: the chat client.  It ends after SIGINT and after the end of the server, and what can
  crash it is a cancellation before both threads exist.
* `TrueReply`, `Survives`, `Served` (of `Servers`): the servers of chapter 7 and their clients.  `TrueReply` is about the TCP clients only.

### Findings

1. `rpc_again`: the exit of an app gives its permit of `Full` back (`SEM_UNDO`), so the next app does not wait for its answer
   and may print its own number.
2. `chats_full`: `GetID` from a full table returns an entry in use.
3. `servers_both`: when a connection and a datagram are ready together, `select.c` looks at the TCP socket twice and waits in the second `accept`
   for a connection nobody makes; the datagram is not answered, although `README.md:92` says the server receives both.

### What does not hold

The properties above say what the code does.  These are the places where it does less than one would like, and where the properties
stop short:

* `consumer_s.c` sets the semaphores whenever it starts (`:46`), and wipes out the posts of a producer that is already at work:
  with `Settings = {"unordered"}` `AllConsumed` of `ProdConsV` fails.
* `6/sipc1.c` exits after its last `semPost`, and `SEM_UNDO` takes the post back unless `sipc2.c` already waits
  for it: with `Settings = {"slow"}` `Answered` of `SipcV` fails.  `5/msgq1.c` removes the queue after a
  second, `msgq2.c` may come too late; and it fails when it is started first.
* `sipc3.c` has `if` where it needs `while` (`:17`): after a spurious wakeup a thread takes its own text, or nothing, for the other's.
  `SipcNoFalseText` holds as long as there is none.
* `fifos.c` waits in `open` for a client that was killed after its request, and dies of SIGPIPE when the client is gone by
  the time of the write; SIGINT removes the name of a pipe that clients have open.
* A client of `tcps.c` or `select.c` that has connected and says nothing holds all others up (`HeldUp`); `hw2.c` and `hw3.c` serve them.
  A client whose server was interrupted prints its own request as the reply (`tcpc.c:46`).
* In `mysleep.c` an alarm that comes before `pause` (`:15`) is missed, and the sleep does not end.
* In `size.c` `main` returns without a join (`:32`), so `README.md:99`'s list of files may be short; and in a directory larger than the buffer of
  `readdir` a thread may print another name, or one name with the size of another.
* `pattern.c` counts an occurrence at the start of the file twice (its first two windows are the same), and the last windows are short and
  show old bytes; `ToolsRight` only says that it misses none of what `README.md:98` tells it to count.
* A chat client that leaves before it sends its ID is logged in under the name the entry had before (`chats.c:72`); `Faithful` speaks of clients
  that have sent theirs.  A chat client whose SIGINT comes at the ID prompt cancels thread ids that are not set (`chatc.c:103`).
* A SIGINT in the first moments of `rpc` removes semaphores and memory with the id 0, whoever they belong to (`rpc.c:115`).

### Fairness

Threads and processes are scheduled: each running one gets weak fairness.  No fairness is assumed of
a call nobody has to make (`Call`), a spurious wakeup, a kill, a user who types or quits, another process that changes a directory, or anything
a chat peer or the chat client's server does; weak
fairness for mutexes and semaphores is enough because in the loops a waiting side is the only
one left after finitely many steps.  `semlib2.c` gets it for each thread inside a call.
`rpc` needs less: weak fairness of all programs together, since every run of them comes to rest.  In `Servers` a client that has connected
goes on unless it is mute or killed; threads and children each have their own fairness.  In `Alarms` a timer that is set goes off.
`threads`, `programs` and `chat` take the fairness of each specification over for the program that runs.

## 4. Proofs

The proofs hold for every value of the constants, and assume the named assumptions of the modules only (and, for the
chat server, what is said there).  TLAPS checks eight modules, about 13500 obligations.

**ThreadsProofs** - the three programs of `MCThreads`, each under its own specification.  *semlib2.c*, any number of threads and calls: `HolderInside` (`Exclusion`) with the types is inductive: only the holder of the mutex is at a
label where it may move the mutex.  `NoStranded` needs a stronger invariant, since `sem_post` signals
before it adds: a poster between the two has already woken a thread that the permit is for.  `Linearizable`
maps each step to a step of `Semaphore` or a stutter.

The busy-waiting loops, any `MAX_BUF` and `NLOOPS`: `BusyRangeSafe` is `CounterInRange` and needs no lock.  `SeenInv` says that between a side's test and its store the other side
can move the counter only away from the limit that the first has tested, or store a value that was loaded within it.  `BusyFifoSafe` and `BusyNoneSpins` are
the safety half of `WorksUntilLost`: until the first lost update `counter` follows the items (`FollowsInv`), so the tests are right and `Window` holds, and two sides
that both spin would see a buffer that is full and empty.

`size.c`, any directory and any buffer of `readdir` (`Room`, `MaxEntries`, hypotheses of the theorem, since they are the model's numbers and not
the program's): `SizesSafe` is `OwnSizes`.  `SizeInv` says that as long as the buffer lasts no slot is filled anew, so that the k-th thread finds the k-th entry behind its pointer whenever it looks, and prints
it once.

`ThreadsSafe` puts the three together for `AnySpec`, the specification the run checks: each of the programs takes its own steps in it, or none (`AnySteps`).

**SharedBufferProofs** has what the buffer gives to every program that uses it, for any `MAX_BUF`: `PutStep` and `GetStep` say that
a put with a free slot, and a get with an item, keep `Window` (the slots from `out` on hold exactly the items that are produced
and not consumed) and are the steps of `BoundedFifo`.  They rest on arithmetic of the ring (`WrapIsMod`,
`WrapInjective`).  What is left to each program is to show that a side that reaches the slots finds a free one, or an item.

**ProdConsSProofs** - any `MAX_BUF` and `NLOOPS`.  `FifoSafe` says that the program implements the safety part of `BoundedFifo`.  None of the
properties is inductive alone.  The inductive invariant has `Shape` (types and where
each thread may be); `Books` (tokens conserved, at most one side inside the mutex, loop
counters, items and `counter` in step with the places of the sides); and `Window`, `InOrder`.  `Books` shows that a side that
holds a token finds a free slot, or an item.  `WaitersGo` is `NobodyLeftWaiting`, the freedom from deadlock: who waits for the mutex finds the other in it, and
were both out of tokens, or one behind the end of the other, the tokens that `Books` conserves would be nowhere.

**ProdConsMProofs** - any `MAX_BUF`, `NLOOPS` and number of spurious wakeups.  Here no token says that a slot is free: a side has tested
`counter` in the mutex, perhaps long ago, and slept in between.  `TestInv` is the heart: from the last test to the store the counter
is still what the test allowed, and what was loaded is still the counter, because only the holder of the mutex moves it.
`SignalComing` is inductive with it: `counter` leaves the value a sleeper waits at only by a store of the other side, which is
still inside the mutex and before its signal.  That nobody is left asleep, the other half of `NoLostWakeup`, follows: without a signal to come `counter` is what each sleeper waits at,
and it cannot be full and empty at a time, nor at the limit of one side when the other has moved all its items.  `FifoSafe` is the refinement of `BoundedFifo`.

**ProdConsVProofs** - any `MAX_BUF`, `NLOOPS` and `MaxKills`, and any `Settings`.  `MutexKept` is `MutexReturned`.  The inductive invariant says in
`MutexState` that the mutex is `Missing`, `Unset` (created with the value 0, before the consumer's `semInitValue`), `Free`, or `Held` by one side, and
in each case what its value, its queue and its undo adjustments are: exactly the holder has an adjustment, 1, so its
exit gives back what it took, and that may hand the mutex to the one sleeper at once.  `TokenState` says that `Empty` and `Full` have no sleeper
but the side that waits for them; that is why a side at a call on the mutex is in no other queue.  `EarlyState` says that
the producer gets no further than to the mutex while it has no value, and so destroys nothing the consumer is still to set.  The lemmas before it compute what `semop`, `semctl` and `exit` do to a semaphore
with at most one sleeper.

`FifoSafe` is `FifoSafety`, the refinement of `BoundedFifo`, and rests on the tokens.  `Pools` says that what a side may still take of its token - permits that are free, taken, or
about to be posted - is never more than there are slots or items for it: kills, a second `semInitValue` and early ends only lose permits (`Room`, `Stock`), and before the
consumer has set the values nobody has got a permit (`Unstarted`).  Hence a side inside the mutex finds a slot or an item, and `Ring` (`Window`, `InOrder`, `Slotted`) is kept.
`AllGot` is `AllConsumed`, with the assumption that the two are not started in any order (otherwise the property fails: *What does not hold*, section 3).  Run as intended no
permit is lost, so the permits for the consumer are exactly the items (`Exact`); when the producer is in its pause all items are made, and a
consumer that slept would sleep with an item waiting for it; so it is awake (`PauseAwake`), and since the producer's two seconds are enough for one that is, the
semaphores go only when it has ended with all items.

**ChatProofs** - the server, any number of peers and texts, any table, with the assumption `Crowd <= MAX_CLIENT`: no more clients at a time than
entries.  Without it `OwnEntry` fails (run `chats_full`).  `EntrySafe`, `ReadySafe` and `DeathSafe` have one inductive invariant.
`Own` ties descriptors and entries; `OnePlace` says that a peer waits, or has one descriptor, never both; `NoCrowd` counts the peers.  `FreeEntry` is the
step that needs all three: were every entry in use, the entries would map one to one into the clients other than the one that
waits, of which there are fewer (a pigeonhole), so `GetID` finds an unused entry.  `NeverBlocks` is carried through every step of the scan
because a log-out takes away only the descriptor the scan has just passed, and a new client gets one that was not open when
the snapshot was taken; and because data that waits, or an end, stays until it is read.  `DeathSafe` follows: a recv or a send that fails has a
descriptor in use, so it is the peer's fault.
`FaithSafe` adds `Voices`, what has been said and heard: what a peer has sent and the server not read is its own and in turn (`InTurn`); the first of it is its ID
as long as it has no name (`IdFirst`); a name in an entry is that of the peer whose descriptor the entry has, or of one who has left for good (`OwnName`,
`Names`), which is where `Own` is needed; and whatever is heard came before all that still waits to be read of its speaker (`HeardWell`).  So a text that is
passed on is later than all that was heard under that name, and nothing is heard under it after its log-out.
It says nothing of who may hear: the server sends to every entry in use (`chats.c:56-58`), also to a client that has not sent its ID yet.
`ClientSafe` is `CrashesOnlyEarly`, for the client.  `ClientInv` says that the ids that are set are those of the threads that were created, that only such threads are
cancelled, and that `S` is created after `R`; so once `S` is there no cancellation and no join meets an id that is not set, whichever of `main`, its handler and `R` makes it.

**ServersProofs** - any number of clients, kills, mute clients and threads (`MaxSpare`), for each of the five servers, with the assumption of `Servers` that no TCP client is called `"main"`, the
name of the first thread.  `ReplySafe` is `TrueReply`, of TCP clients only, `SurvivalSafe` is `Survives`.  The inductive invariant `Net` has, besides the types (`Shape`),
`Waiting`: a connection waits once, open, and nobody serves it yet; and `Dealing`, what has been done for each client so far: who is about to write has read the request, or the client is dead; who is about to close
has written, or the client has ended; the connection is open until the write.  So the second write to a client that is gone, which
would raise SIGPIPE, never comes, and an end of file is not taken for a reply unless the server is `Excused`: told to end by SIGINT, in the two servers that have threads or `select`.  `Sockets` says that the
listening socket stays until SIGINT, so that `accept` does not fail before.

**RpcProofs** - any callers, `MaxStarts` and `MaxSignals`, all settings.  `AloneSafe` is `RightWhenAlone`, `OwnSafe` is `OwnCall`.  Neither is near to inductive: the invariant `RInv` first
says what `rpc` holds.  A set that is there is the one its key names (`Sets`); only `rpc` waits for `Empty`, and then at `load` on the set it has opened (`Waiter`); while it serves, what it has
opened is all up or, from its interrupt on, all gone (`Holding`), for its handler takes the three away one by one and a caller may make new ones in
between; and every age goes back to one signal (`Aged`), so the ages suffice.  On this `Calls` follows one call: `rpc` sleeps (`Asking`), has the one permit and the caller's number in the cell (`Counting`), has
stored the sum and has no permit left (`Counted`).  A call may meet a post of `Full` that is left over and read too early (its own number, `OwnCall`); if there was none when it
started it sleeps until it is `Counted` (`Fresh`, `RightWhenAlone`).  There is none when `rpc` has just been started and nobody has called: `rpc` sets
both semaphores to 0 and goes to sleep, whatever they were left at (`Quiet`).  `Sum` is left as it is: no step depends on its value.

**Only model-checked.**  Everything under fairness (`ImplementsSemaphore` and `ImplementsFifo` as far as they are
liveness, `Served`, `Ends`, `AllAnswered`, `InterruptEnds`, `CleanEnd`, `SipcAnswered`, `TakesTurns`, `FifoServed`, `Rings`, `PipelineEnds`,
`Lists`, the second half of `WorksUntilLost`), which the provers cannot do; the functions of `Tools` (`ToolsRight`), whose meaning for every
input is an induction; and `SipcNoFalseText`, the refinement of `RequestReply` by six pairs of programs that exchange one request and one reply: nothing in them
is left to a constant but the kills of `SipcV`, of which there are at most two, so the run has all their behaviours (`harsh` includes `slow`).

## 5. What could follow

* Chat server and client in one model: what the server assumes of its peers (`Connect`, `Send`, `Leave`) is what `ChatC` does, by
  reading only.
