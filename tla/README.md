# Verification of the LinuxCode programs

The repository is a collection of Linux system-programming programs: thread
synchronisation, process control, pipes and shared memory, signals, buffered
files, and small network services. Each directory is a program of its own; a
few headers were copied from one program to the next (`LockGuard.hpp`,
`Thread.hpp`, `Task.hpp`, `log.hpp`, `ThreadPool.hpp`). There is no build of the
whole, no test, and no document but the comments in the sources.

This directory holds TLA+ models of the programs whose correctness depends on
the order of events, TLC configurations that check them on small instances, and
proofs that TLAPS checks for every instance.

    tlc -config RingQueue.cfg RingQueue.tla      # model-check a run
    tlapm RingQueueProof.tla                     # check a proof

## 1. Inventory

| Program | State | Operations | Interaction | What is hard |
|---|---|---|---|---|
| `thread_ringqueue` | a vector of `_cap` slots, a step counter per side, two semaphores, two mutexes | `push`, `pop` | producer and consumer threads share one ring | a push and a pop run at the same time under different mutexes; only semaphore tokens keep them off one slot |
| `thread_cond/blockqueue` | `std::queue`, one mutex, two condition variables | `push`, `pop`; `producter`, `consumer`, `saver` of `MainCp.cc`; `save` | three threads, the middle one consumer of one queue and producer of the next | lost and spurious wake-ups, the bound, `exit` in the middle |
| `thread_cond/test_cond` | a counter, a mutex, a condition variable | `start_routine`, the signalling loop of `main` | five threads and `main` | a wait without a predicate |
| `thread_pool`, copied to `network_code/socket_tcp` | the singleton pointer and its lock, a task queue, a mutex, a condition variable | `getInstance`, `run`, `push`, `handlerTask` | any thread may push, workers take | double-checked creation, one signal per push, tasks that throw |
| `thread_mutex` | the counter `ticket`, a mutex on the stack of `main` | `getTicket`, `main` | four sellers | test, print and decrement must not be separated; the mutex dies with `main` |
| `thread`, `thread_ctrl` | none shared | create, join, detach, cancel | `main` and its threads | a detached thread ends with the process |
| `procpool` | pipes, tables of open files | make pipes and children, send tasks, close, wait | parent and forked children | inherited write ends hide the end of file |
| `network_code/socket_tcp2` | byte buffers of either side, a connection per child | `recvPackage`, `enLength`, `deLength`, `ParseLine`, `serialize`, `deserialize`, `cal`, `calServer::start` | client and server over TCP, server and forked children | TCP cuts the stream anywhere, either side may end, forks fail |
| `network_code/socket_tcp` | log files, the pool, a descriptor per connection | `initServer`, `daemonSelf`, `tcpServer::start`, `serverIO`, `logMessage`; the client's loop | accept loop, pool workers, clients over TCP | a session keeps a worker, lines are cut and joined, clients leave while they are answered |
| `network_code/http_demo` | one request | `HandlerHttp`, `parse`, `Get`, `readFile` | a child per connection | a request in two segments, missing, unreadable and changing files, a client that does not read |
| `network_code/socket_udp` | `_users` | `routeMessage`, `addUser`, `delUser`, `broadcastMessage`; client loops | clients and server over UDP | datagrams lost, doubled, overtaken |
| `socket_udp` | none | receive and print | | |
| `mylibc` | `FILE_`: buffer, size, flags | `fopen_`, `fwrite_`, `fflush_`, `fclose_` | process, kernel, disk | kills, power failures, short writes |
| `myshell` | redirection, `myargv`, last status | read, parse, builtins, fork, redirect, exec, wait | shell and child | state of one command seen by the next |
| `pipe`, `name_pipe` | kernel pipe | write words, read and print | two processes | boundaries of messages, open as rendezvous, end of input |
| `shm` | a segment | create, attach, write, print, remove | server and client | no synchronisation at all; the segment survives its processes |
| `signal`, `signal2`, `signal3` | masks and dispositions | block, print pending, handle | process and kernel | |
| `probar`, `test1`, `test2`, `test11.27` | | sequential exercises | | |

What makes each component correct, in the order of the modules below:

* **RingQueue**: tokens are conserved; threads of a side take turns at the step
  counter; a store and a load that overlap are on different slots; tasks come out
  as they went in; nobody waits for ever while the other side moves.
* **BlockQueue**: the queue stays within `_maxcap` and is never popped empty; the
  single signal of each operation leaves no sleeper behind that could move.
* **MainCp**: what is produced is saved, once and in order.
* **ThreadPool**: one pool however many threads ask first; a task is executed once,
  by one worker; tasks are taken in the order of `push`.
* **getTicket**: no ticket is sold twice or skipped, and the mutex is destroyed
  when nobody uses it.
* **processPool**: the children get what was sent to them and all of them exit.
* **Calculator**: the answer printed is the value of the line just entered.
* **Calculator and HTTP server**: no zombie, no descriptor left open, and the accept
  loop goes on; the HTTP answer is the file asked for, behind its length.
* **Echo server**: every byte comes back once and in order; a connection waits for a
  worker only while all are held; no client ends the server.
* **mylibc**: no character is lost, doubled or moved; what was flushed survives kills
  and power failures.
* **UDP chat**: only who asked for it gets messages.
* **Shell**: files, terminal and `$?` are what the lines of the session say, each line
  for itself.
* **Pipes**: through the named pipe every character comes; of the anonymous one, whatever
  is shown of the beginning of a word is the whole word, in order, and words are lost only
  as the reader is written to lose them; no process waits for an end that nobody will close.
* **Shared memory**: no line the server prints goes back behind the line before it; one
  server at a time has the segment, and it removes it.
* **Condition variable demo**: every signal somebody waited for sells one ticket.

`PROJECT.json` lists every component with its sources and, under `hazards`, the
lines where these things can go wrong.

## 2. Modules

| Module | Models | Kind |
|---|---|---|
| `BoundedChannel` | nothing in the code: what the queues promise, a FIFO channel of bounded capacity | abstract specification |
| `RingQueue` | `RingQueue.hpp`, the threads of `thread_ringqueue/Main.cc` | implements `BoundedChannel` |
| `BlockQueue` | `BlockQueue.hpp` | implements `BoundedChannel` |
| `BlockPipeline` | `MainCp.cc`, `save` | composes two `BlockQueue`s |
| `ThreadPool` | `ThreadPool.hpp`, `LockGuard.hpp`, `thread_pool/Main.cc` | its task queue implements `BoundedChannel` |
| `TicketSale` | `thread_mutex/mythread.cc`, `Mutex.hpp` | |
| `ProcPool` | `processPool.cc` | |
| `CalSession` | `recvPackage`, `deLength`, `enLength`, `handlerEntery`, `calClient::start` | one connection |
| `Calculator` | `ParseLine`, the text forms, `cal` | one line, through both sides |
| `CalServer` | `calServer::initServer`, `start` | all connections, one session being a process that ends some time |
| `HttpServer` | `HandlerHttp`, `parse`, `Get`, `readFile` | extends `CalServer`: the session is `HandlerHttp` |
| `EchoServer` | `tcpServer`, `daemonSelf`, `serverIO`, `TcpClient` | extends `ThreadPool`: the task is `serverIO` |
| `MyStdio`, `MCMyStdio` | `myStdio.c`; the chunks and contents TLC uses | |
| `UdpChat` | `routeMessage`, `onlineUser`, `udpServer`, `udpClient` | |
| `MyShell` | `myshell.c` | |
| `Pipes` | `pipe/myprocess.cc`, `name_pipe` | two programs of one shape |
| `SharedMemory` | `shm` | |
| `CondDemo` | `test_cond.cc` | |
| `MCServers` | extends `HttpServer` (with `CalServer`) and `EchoServer` (with `ThreadPool`): the three TCP servers with their bounds, one at a time | model checking |
| `MCDemos` | extends `ProcPool`, `MyShell`, `Pipes`, `SharedMemory` and `CondDemo`: the five programs without a network, one at a time | model checking |
| `ProofLemmas` | what the proofs share: counting threads, concatenation, least and greatest elements, induction | proofs |
| `RingQueueProof`, `BlockQueueProof`, `ThreadPoolProof` | the queues and the pool, with their refinements | proofs |
| `ThreadProofs` | `TicketSale`, `CondDemo`, `BlockPipeline` | proofs |
| `ProcessProofs` | `ProcPool`, `MyStdio`, `Pipes`, `SharedMemory`, `MyShell` | proofs |
| `ServerProofs` | `CalServer`, `HttpServer`, `EchoServer` | proofs |
| `NetworkProofs` | `UdpChat`, `CalSession`, `Calculator` | proofs |

Conventions. Variables and actions carry the names of the code. A thread has a
program counter `pc[t]` whose labels are the statements between which another
thread may run; everything between two labels is local to the thread or protected.
An operator whose comment says *mutant* is not used by the specification: it is
the form the operator below it would have with a plausible bug, and
`PROJECT.json` says which property notices it.

### RingQueue
`push` and `pop` are mirror images, so the state is kept per side: `sem["push"]` is
`_spaceSem`, `sem["pop"]` is `_dataSem`, and likewise for `mutex` and `step`. A call
and the return of its P are one step, `Wait`; then come `Lock`, `Claim` (the index taken by
the post-increment), `Store`/`Load`, `Wrap` (the modulo), `Unlock` and `Post` (V). The copy of a task takes
time: between its beginning and its end the thread is at `"access"`, and two threads
there on one slot would be a data race.

### BlockQueue
One action per statement: `Lock`, the test of the `while`, waiting (which gives the
mutex back in the same step), the wake-up by `Signal` or by `Spurious`, the move,
`SignalOther`, `Unlock`. A woken thread competes for the mutex again before it
repeats the test. `Signal` with nobody waiting does nothing.

### BlockPipeline
`c_bq` and `s_bq` are two instances of `BlockQueue` over disjoint variables; the
consumer thread is in the `Consumers` of the one and the `Producers` of the other.
`exited` is the `exit(1)` of `save`, after which nothing moves.

### ThreadPool
`getInstance` is split where another thread may come in between: the unlocked test
(`Check`), the lock (`Single`), the second test (`Recheck`), constructing (`Build`),
assigning the pointer (`Publish`), unlocking (`Release`). The assignment is taken
to be visible as a whole, which the build on x86 gives; the language does not
promise it. `push` and `handlerTask` follow the code. A task in `Bad` throws: it
leaves the worker function and ends the process. In `EchoServer` a task is not one step
but the session of a connection.

### TicketSale
`ticket--` is a load (`reg[t]`) and a store. `main` joins the sellers and then
destroys the mutex. `sold` counts, for each number, how often it was printed as
sold.

### ProcPool
`ends[p]` is the set of pipe ends process `p` has open; `fork` copies the parent's.
A child reads the end of file when no process has the write end open. Sending
picks any child and any task, as `rand()` may. A `fork` may fail: the assert aborts
the parent, the kernel closes its ends.

### Calculator, CalSession, CalServer, HttpServer
`CalSession` keeps the control of the protocol: the bytes under way to each side,
what each has received and not consumed, and where in `recvPackage` it is. A text
is a run of bytes that carry the number of the request, so the model can tell an
answer from the answer to another line. A `recv` takes any prefix of what is
under way. `Calculator` keeps the data: a line is a sequence of characters, scanned
by the state machine of `ParseLine`; integers have the width of `MaxInt`; a signed
overflow wraps, as the instructions of the build do. `CalServer` keeps the processes and
the descriptors: `open[c]` is the set of processes that have connection `c` open.

`HttpServer` adds, for each connection, what the serving process does: one `recv` of
what has arrived (nothing, a piece of the first line, the line, or an error that the
unsigned length turns into a message), `parse` with its `stat`, `Get` with the body
resized and read, `send`. `Edit` changes the files between these steps, so that the
`stat` may be stale when the file is opened. What is on the disk is a file, a directory
(open succeeds, read fails, which `readFile` does not notice) or something that `open`
refuses. An answer keeps apart its `Content-Length`, the bytes that were read, of which
version, and the size of the body sent: one more than the length, NULs where nothing was
read. A `send` larger than `SocketBuffer` returns when the client reads (`ReadAnswer`, an
action without fairness) or leaves. What a process can die of before it answers, an
exception or a signal, is the request's state `"crashed"`.

### EchoServer
`main` becomes a daemon before it starts the workers, and before it accepts. Connection
`n` is task `n` of the pool. `stream[n]` holds the bytes under way in each direction;
`read` takes what there is up to `BufSize`, and so a line may come in two reads and two
lines in one. The client takes one `read` as the answer to its line, whatever it
holds. A `write` to a client that has left raises SIGPIPE, which `daemonSelf` ignores.

### MyStdio
`file` is the file as the kernel shows it, `disk` as it is after a power failure.
`Write` appends what the buffer holds, or a part of it (`cut`). `fsync` copies `file`
to `disk`, and `disk` may catch up with any part of `file` at any other time too, so that
a power failure may leave half a line: `WholeLines` speaks of kills. An `open` that fails
ends the program, as `main.c` does with the `NULL` it gets.

### UdpChat
The network is the set of all datagrams ever sent; a datagram is received any
number of times and in any order. Every handler of the server is one step since the
server has one thread. `owner[c]` counts the processes that have had the address `c`: a
client may end, with or without `offline`, and the next one gets its port, whom the
server cannot tell from it.

### MyShell
A line is the sequence of its words, the three signs among them; `checkcommand` cuts it at
the first sign, and the rest, further signs included, is a file name. `out` is the
buffer of `stdout`, which `fork` copies and the child's `exit` writes. `files[d][f]` is
the content of a file; a program writes the number of its line. `ended[n]` remembers
what came of line `n`, and the operators after `ShellFairSpec` say from this alone what
the files, the terminal and `$?` have to be. A line without a word before its sign makes
the shell crash in `strcmp`, which is a state of the model (`"crashed"`) and not an error
it hides.

### Pipes
`kind` chooses between the anonymous pipe, into which arrays of 100 bytes go, and the
named one, into which words go. `put` is all that was ever given to `write`, a cell for a
character (a NUL or not); its first `passed` cells went into the pipe, and the first `taken`
of these came out. The reader's array `hand` holds places in `put`, so that what is printed
says which word it comes from, and how much of it; `heads` are the places where arrays
begin. `buff` keeps behind the NUL of a word what longer words left there, and goes into
the pipe with it. A read takes 399 bytes where there are that many, so the next one begins
one byte before the end of an array, then two, and so on into the word itself; what a
shorter read leaves in `hand` is still there when `printf` looks for its NUL. Words of the
anonymous pipe are as long as fits `buff` with its NUL: `cin` would write a longer one
behind the array, which is undefined. If the input ends before its first word, `buff` was
never set, and nothing is claimed. A `write` of one array is not split (`PIPE_BUF`); one of
a long word may be, also while it waits for room.

`extra` holds the processes that still have the end they do not use. The named pipe is
made and removed by `server.cc` and `command.cc`, so that the two sides may have opened
different ones of the same name.

### SharedMemory
A segment has the name of the process that made it, since each makes one at most.
`mem[s]` holds the characters of the number in segment `s`, the text before it being the same
in every message of one client. What `%d` writes for a number is the constant `Number`, of
which only this is assumed: no number is written with fewer characters than the one
before. `sprintf` writes characters in ascending order, several at a time.
A killed process leaves the segment under the key; a client that comes first makes one
of mode 0, which nobody but root can attach. The model is of a user who is not root.
`printf` reads what it prints while it may change, and may do so twice, for the length and
for the copy: `ReadShm` reads one place at a time, the places in any order, and `PrintShm`
prints when the characters up to a NUL are there.

### CondDemo
One action per statement of `start_routine`. `lost` and `spurious` are counted in order to
say what becomes of every signal.

## 3. Runs

Every run exhausts its state space. Deadlock is checked in `RingQueue` and `BlockQueue`,
whose threads loop for ever, and in `TicketSale`, where the return of `main` is an
explicit step; the other programs may end, or their users may stop, and their
configurations say so. `MCServers` and `MCDemos` choose a program in the initial state
and keep the variables of the others unchanged.

| Run | Instance | Shows |
|---|---|---|
| `RingQueue` | 2 producers, 2 consumers, 2 slots, 2 tasks | `SlotExclusive`, the inductive invariant `IInv`; `IsChannel`: implements `BoundedChannel` with its liveness |
| `BlockQueue` | 2 producers, 3 consumers, 1 place, 2 items | `NoLostWakeup`, `IInv`, `IsChannel` |
| `BlockPipeline` | 5 tasks, queues of 1 | `NothingLostInOrder`, `EverythingSaved` |
| `ThreadPool` | 2 callers, 3 workers, 4 tasks, the last one bad | `OnePool`, `EachTaskOnce`, `NoLostWakeup`, `IsChannel`, `EverythingRuns` |
| `TicketSale` | 4 sellers, 10 tickets | `SoldAboveCounter`, `SoldOutAtEnd`, `IInv`, `SaleEnds` |
| `CalSession` | 4 lines, texts of 1 to 3 bytes, a buffer of 10 | `Answers`, `NothingLeftBehind`, `RoomForZero`, `EveryLineAnswered` |
| `Calculator` | all lines of at most 4 of 8 characters, 6-bit integers | `EndToEnd`, `LinesEnd` |
| `MCServers` | calculator server: 4 connections; HTTP: 2 connections, 2 urls, 3 kinds of files, one edit, bodies that fit into the socket and one that does not; echo: 2 workers, 3 connections | `AcceptSafe` and `AcceptLoopRuns` for both servers with that loop; `HttpSafe`, `HttpEnds`; `EchoSafe`, `EchoServed` |
| `MCMyStdio` | 4 characters of buffer, 4 writes, flags 1 and 2 | `Accounted`, `Durable`, `WholeLines` |
| `MCMyStdioFull` | the same, flag 3 | a finding, see below |
| `UdpChat` | 2 clients with 2 owners each, 3 datagrams | `OnlyWhoAsked`, `SenderIsIncluded` |
| `MCDemos` | process pool: 3 children, 3 tasks of 2 kinds; shell: 3 lines out of 12; pipes: 4 arrays of 4 cells, 7 read at a time, and words of up to 3 characters through the named pipe, 2 read at a time; shared memory: 2 servers, 3 messages of up to 2 characters; condition variable: 3 threads, 4 signals | `PoolSafe`, `ShellSafe`, `PipesSafe`, `MemorySafe`, `CondSafe`; `ProgramsSettle`: each comes to the state it is meant to stop in |

What the properties of the last two kinds of runs say and do not say:

* `AcceptSafe` is the type invariant, `NoChildLeft` and `ClosedAfterSession`. For the HTTP
  server it holds of the same variables, since its `Next` extends that of `CalServer`.
* `HttpSafe`: **if** the first line has arrived when `recv` is called and nobody edits the
  files, the answer is the file behind its length (a directory as NULs, the 404 page
  behind the size of what cannot be opened or behind -1), in a body one byte longer than
  announced. With edits, what goes wrong is bounded: a content is never older than the
  size before it, never longer, and shorter only if it is newer; and a process dies only
  of a request without its line or of a client that has left. A file that appears after
  its `stat` failed does not end it: the `read` of `(size_t)-1` bytes fails and an empty
  body goes out behind -1.
* `HttpEnds` excuses, besides a second fork that failed, a client that stays, does not read
  and has asked for more than the socket takes: `send` has no timeout (`HttpServer.hpp:74`).
* `EchoServed`: if again and again some worker is not held by a client that stays, every
  accepted connection gets a worker; if clients hold all workers for ever, nobody else is
  served, and that is how the code is. A user who enters an empty line makes both sides
  wait (a `write` of length 0 sends nothing), and `EchoServed` does not call that an
  error: all bytes entered have been shown.
* `PipesSafe`: through the named pipe every character comes, once and in order. Of the
  anonymous one the child prints up to the first NUL of what it holds: words behind another
  one in the same read are lost, and ends of words, also of words long shown, are printed
  where a read begins inside an array. What holds for all that: there is a NUL in the array
  whenever `printf` looks for one; the beginnings of words come in the order of the words,
  none twice, each with the rest of its word and nothing else behind it; and a word written
  into an empty pipe is shown.
* `ProgramsSettle` says of the pipes that a reader whose writer is gone sees the end of file,
  that a writer whose reader is gone ends or has nothing left to write, and that two who wait
  for each other in `open` wait at different pipes of one name.
* `MemorySafe`: there are moments of the client's work, in their order and none later than
  now, one for each line, such that every character of a line, and its end, was in the
  segment between the moment of the line before and its own. A line may therefore mix
  messages in any way, and 9, 90 and 10 may be printed for 9 and 10, or 19, 10 and 20; but
  a line never shows again what was overwritten before an earlier line was complete. At most
  one server is between making and removing a segment; the segment that outlives all
  processes is that of a killed server or of a client that came first.
* `CondSafe` does not say that the counter stays above zero: the threads do not test it.

`IInv` of the two queues and of `TicketSale` contains the module's `TypeOK`, and so do
`AcceptSafe`, `EchoSafe` and `PoolSafe`; in the other modules the type invariant is not
listed by a run.

Why the bounds are enough:

* *Two threads of each side* of a queue are the least for a race within a side and
  one against the other; the third consumer of `BlockQueue` lets two sleep while a
  third overtakes the one that was woken. A capacity of one makes every push meet a
  full queue, and two slots let the ring be empty, partly filled, full and wrapped.
  What holds for other sizes is proved, see section 5.
* *Four pool tasks and three workers*: more tasks than workers, so that signals are
  sent while everybody is awake, and a bad one among them.
* *Three children*: child 3 inherits two write ends, so that closing order, creation
  order and waiting order all differ.
* *The buffer of 10 bytes*: a package of the longest text (7 bytes) fits, two do not,
  so both the cut package and the joined ones occur; the ratio is the one of the code
  (1024 against a few dozen).
* *6-bit integers*: `9*9`, `99` and their negatives leave the range.
* *Four characters of buffer*: chunks that fill it exactly, end with a newline, or
  have one in the middle.
* *Three datagrams*: enough to go online, send and go offline in any order of
  arrival, each any number of times; the second owner may come between any two of them.
* *Two workers and three connections*: the third one waits for a worker. One user enters
  two bytes, in one line that takes two reads or in two lines that are joined in the
  client's one; the buffer is one byte.
* *One edit of the files* is enough for a file that appears, disappears or changes
  between two steps of one request; the second connection only connects, which is enough
  to show that it does not wait for the first.
* *Three lines of shell*: one that makes a file, one that appends to it, reads it or
  changes the directory, and one that shows what is left of both. The lines have two
  signs in one, a sign without a file and a file that does not exist; the status words are
  exit 0, exit 3 and signal 11 with a core dump.
* *Four arrays of four cells, seven of them in a read*: the first full read ends one cell
  before the end of the second array, the second one two cells before, inside a word of
  three characters; a short read after a full one leaves the end of the array's content
  standing, and a word of one character after a longer one leaves the end of that word
  behind its NUL. A pipe of eight makes the writer wait. With arrays of three cells no end of
  a word is printed next to a stale one. The characters of the named pipe are fewer (7),
  its words are cut at any place. *Two named pipes* of one name: each side has another one.
* *The messages 1, 2 and 10*: the last one is longer than the one before, as 10 is after 9.
* *Three threads and four signals* on a counter of two: signals lost before the threads
  wait, and a counter below zero.

## 4. Fairness

* Threads and processes: the kernel runs whoever can run. Programs that loop for ever
  have `WF` of the steps of each kind of thread. In a program that ends or blocks after
  finitely many steps (`CalServer`, `HttpServer`, `EchoServer` apart from spurious
  wake-ups, `ProcPool`, `MyShell`, `SharedMemory`, `CondDemo`) one `WF` of all steps the
  system takes by itself says the same: none is left undone for ever. `Pipes` has one for
  each process, since its writer goes on writing the last word after the end of the input. A blocked thread is not enabled, and nothing stronger is assumed of mutexes
  and semaphores: no thread is promised the lock. For this reason the liveness of the
  queues is that of the channel (*some* push, *some* pop), not of a thread.
* `<>[][~Spurious]`, `<>[][~Wakeup]`: spurious wake-ups do not go on for ever. Without it a thread
  could be woken and go back to sleep instead of every other step.
* Nothing is assumed of users and peers: nobody has to type a line (`CalSession`,
  `MyShell`, `Pipes`), connect or leave (`CalServer`, `HttpServer`, `EchoServer`) or send
  (`UdpChat`), and no program the shell started has to end.
* Nothing is assumed of failures: a fork, a write or an `fopen` may fail or succeed, and
  nobody has to kill a process.

## 5. Proofs

The theorems hold for every set of threads (finite), every capacity above zero, every
set of items and every number of tickets, children, tasks, messages, connections or
datagrams. What they assume of the constants is `RingAssumption`, `BlockQueueAssumption`,
`PipelineAssumption`, `PoolAssumption` (of `ThreadPool`, and of `ProcPool`),
`SaleAssumption`, `CondAssumption`, `ServerAssumption`, `HttpAssumption`, `EchoAssumption`,
`ChatAssumption`, `SessionAssumption`, `StdioAssumption`, `PipesAssumption`,
`MemoryAssumption`, `ShellAssumption` and `CalculatorAssumption`; TLC evaluates each of
them. Where a module bounds a count the code does not bound, the theorem holds for every
bound.

Each safety property below is proved from an inductive invariant that implies it. It
holds initially, each action keeps it (a lemma per action), and PTL makes the theorem of
the two. In what follows only what the invariant adds to the property and to the types is
named.

* **RingQueueProof**. `SlotExclusive` is not inductive: that two indices differ
  follows from how many tokens are where. `IInv` adds that a mutex protects what is
  between lock and unlock (`MutexInv`), that the step counter and the index a thread
  holds agree (`StepInv`), that each slot is accounted for by a token of `_spaceSem`,
  one of `_dataSem`, or a thread between its wait and its post (`SlotsInv`), and that the
  producers write `Size` slots ahead of where the consumers read (`RingInv`). From it
  follow `Typing`, `TakingTurns`, `NoSharedSlot`, `Accounting`. `ImplementsChannel` maps
  the `Size` slots from the front of the consumers on, around the end of the ring, to the
  content of the channel (`Window`). Every action but two leaves both ends and the slots
  between them alone (`SameWindow`, `QuietContents`); a store puts its task behind the
  window (`StoreContents`), a load takes the one in front (`LoadContents`), and both need
  `IInv` to know that it is that slot and no other thread's.
* **BlockQueueProof**. `IInv` is `MutexInv`, `MoveInv` (whoever is about to push or pop
  finds the test still true) and `NoLostWakeup`: items do not outnumber the consumers
  that are awake plus the signals about to be sent, if a consumer sleeps. Each action
  is one lemma that counts threads. From it follow `Typing`, `OneSignalIsEnough`,
  `NeverAllAsleep`. `ImplementsChannel` shows that the initial
  states are those of the channel and every step is one of the channel or a stutter.
* **ThreadPoolProof**. Four invariants on top of the types (`PoolType`) and of what a
  caller carries where (`CarryInv`). `OneInv`: the owner of `_singlock` is who is between
  the second test and the release, and `built` counts the pointer that is set or about to
  be; `OnePool` follows (`OneForAll`). `NoLostWakeup` is inductive once the numbers of
  awake workers and of callers about to signal are counted (`OneSignalIsEnough`).
  `PlaceInv` adds to `EachTaskOnce` that a task not yet submitted is nowhere: without it
  nothing says that the next number is new (`NoTaskLostOrDoubled`); lemmas say how
  `Append` and `Tail` change the number of occurrences in a queue. From these follow
  `Typing`, and `ImplementsChannel`: tasks that are queued at most once are at most
  `MaxTasks`, so that a push always finds room in the channel.
* **ThreadProofs**.
  *Tickets*: `IInv` adds to `SoldAboveCounter` who owns the mutex where, and that the
  loaded value is still the counter. From it follow `SaleTyping`, `NoDoubleSale`,
  `SoldOut`.
  *Signals*: `InBalance` counts the threads that have been woken and have yet to sell
  against signals, tickets and spurious wake-ups (`SignalsSellTickets`).
  *The pipeline*: `StageInv` says where a thread can be in its loop while it is in a queue,
  and that what the consumer pushes is what it popped. Then every push, pop and
  `save` moves a task by one place on a line that is a concatenation of log, hands and
  queues (`PipelineInOrder`).
* **ProcessProofs**.
  *The process pool*: `ReverseExit` is not inductive: a child sees its end of file only
  when nobody holds the write end, so `WriterInv` says who does: the parent between
  making and closing it, and every living child that was forked later. `ForkInv` adds that
  children are forked in the order of their pipes and that nobody has exited before the
  parent begins to close. From these follows `PoolIsSafe`; that `Send` and `Read` keep
  `sent = ran \o pipe` is a lemma about sequences.
  *Buffered files*: `Accounted`, `Durable` and `WholeLines` are proved together
  (`NothingLostOrDoubled`, `FlushedStays`, `LinesStayWhole`). `NothingYet` says that before
  `fopen_` nothing has happened, and `DiskBehind` that once something was flushed the disk
  holds a beginning of the file, so that a writeback of a part of it takes nothing away.
  *Pipes*: `put` is arrays of one length, one behind the other, each with a word, its NUL and
  a rest (`ArraysInv`, `WordsInv`); that the arrays before a place in one are all there is an
  induction (`HeadsBack`). A read that ends inside an array was a full one, and full reads
  are all of one length: so when `t` cells of an array are still to come, the reader's
  array holds, from its cell `t` on, a whole array (`TailInv`). A read of just those `t`
  cells leaves that array from its second cell on, where its NUL still is, and so `printf`
  finds one (`ReadStops`). Where it stops, and that what it prints of the beginning of a word
  goes on to there place by place, is `HeldInv`. `AloneInv` follows a word from the empty
  pipe it was written into to the reader's array, where it comes first, and onto the
  terminal; `StreamInv` says that through the
  named pipe what is shown and held is everything taken. `WordsComeInOrder` follows, for any
  lengths of the two arrays of which one is a multiple of the other, and any capacity.
  *Shared memory*: the segment of the client holds exactly the characters written up to
  now (`ClientInv`), since characters of a message written over a part of the same
  message over the one before make a longer part (`OverMore`), and a message covers the one
  before (`OverAll`). All that a server has printed is explained by moments up to now
  (`SeenBy`), every character it has found of the next line was there since the last of
  them (`FoundSince`), and now never goes back. `KeyInv` says that a server that works has the
  key until it removes its segment. `NeverShownBack` follows.
  *The shell*: `ShellSafe` speaks of the prompt only; between two prompts a line is half
  done, and the shell's buffer, the child's copy of it, the file and the terminal disagree.
  `ShellInv` says at every step where what has been shown is. `LastLine` ties `myargv` and
  the redirection to the line in hand (a redirection that an earlier line left behind
  breaks it), `ChildInv` says what the child has and has not done and that it holds
  nothing of the shell's output, `PlaceInv` that directory and `$?` are those the
  session says, and `FilesInv` and `TerminalInv` are `ShellSafe` for a session whose last
  line is under way. Both are concatenations over the whole session (`FlattenSeq`); the
  lemmas about it (`FlattenLast`, `FlattenReplaced`, `FlattenNothing`) say what one more
  line, a change of the last line's end, and a truncation make of it, and
  `FileOpened` and `FileWritten` what they make of a file. `SessionsMeanTheirLines`
  follows, for a session of any length.
* **ServerProofs**.
  *Accept loop*: `ChildInv`: the only child the server may have is the one of `sock`,
  between the fork and the end of the wait. `OpenInv`: `Holders` says exactly which
  processes have each descriptor. `AcceptIsSafe` follows, for the HTTP server too, whose
  steps are those of the accept loop or leave its variables alone.
  *HTTP*: `DiskInv` knows of each file which edit made it; `ParsedOf` keeps, from `parse` to
  the end, what the `stat` found: it is true of the file, or was before an edit that came
  later. What the answer holds and what a process died of follow (`HttpAnswersTheFile`):
  `BodyAnswers` goes through what `open` and `read` may do with what is now on the disk.
  *Echo*: to the pool's invariants come `BootInv` (no worker before SIGPIPE is ignored),
  `CloseInv` (a descriptor is open as long as its task has not run, and is closed after the
  client left) and `LineInv`: shown, on the way back, in the worker's buffer and on the way
  there are the bytes entered, in this order (`EchoesEverything`). That one worker at most
  holds a connection is the pool's `PlaceInv`.
* **NetworkProofs**.
  *Chat*: `AskedInv` puts the owners of an address at the place of the process
  that asked, and adds that no datagram is from an owner the address has not had yet: that
  is what an old `online` that arrives late needs. `NobodyUnasked`, `SendersHearThemselves`
  and, because a datagram is numbered by how many were sent, `ChatTyping` follow.
  *A session*: on each side, what was received and what is under way are together nothing
  or exactly one message, the one both counters say is due (`ServerSide`, `ClientSide`),
  and no whole package lies in front of a `recv` (`NoPackage`). That a prefix of a message
  has a package only when it is whole, and means its request then, are lemmas about
  `enLength` and `recvPackage`. `RequestsAnsweredInOrder`, `NoPackageLeftBehind` and
  `BufferNeverFull` follow.
  *What is computed*: `ScanInv` says how far `ParseLine` has cut the line, `ReplyInv` that
  from then on the request is the line's, the text under way is its text, and the
  response is `cal` of it; this needs that both text forms are read back as they were
  written (`RequestReadBack`, `ResponseReadBack`). They are since `stoi` reads what
  `to_string` writes (`StoiOfToString`, by induction on the number: `DecimalInverse`), no
  digit and no sign is the separator, and an operator that is the separator lies between
  two others. `CalIs` says that `cal` is right: an overflow keeps the residue (`WrapIs`),
  and a quotient and a remainder are those of a division that truncates (`QuotientIs`, where
  a left operand without a sign, which `ParseLine` guarantees, is needed to stay in the
  range of `int`). `PrintedIsTheValue` and `LineTypesAreRight` follow.
* **ProofLemmas**: the cardinality of `{u \in T : f[u] \in L}` is a natural number, one
  change of `f` changes it by one at most, none leaves it; concatenation under a name, with
  its laws; least and greatest elements; `NatSetInduction`: a set of numbers that holds 0
  and with each its successor holds all, from the library's `WFMin`. Stated of a set and not
  of an operator it can be used by the provers at hand: to unfold a recursive function
  (`FlattenSeq`, `Decimal`, `decimal`), the proofs define the set of numbers up to which
  there is exactly one function that keeps the recursion.

Model-checked only:

* all liveness, the liveness of the refinements included: it needs `ENABLED` and fairness,
  which the prover does not handle. `ImplementsChannel` is about the safety part of the
  channel (`Channel!Spec`), `IsChannel` of the two queues' runs about both;
* the other temporal properties of the runs, `LinesEnd` and `ProgramsSettle` among them,
  for the same reason.

Every invariant and every step property that a passing run checks is proved.

## 6. Findings

* `MCMyStdioFull`: `myStdio.c:52` tests `fp->flags & SYNC_NOW` although the three
  flag values are 1, 2 and 3: `SYNC_FULL` has the bit of `SYNC_NOW` (and that of
  `SYNC_LINE`), so full buffering, which `myStdio.h:15` announces, writes through at
  once.

Seen on the way, without a run of their own:

* `thread_pool/ThreadPool.hpp:94` calls the singleton eager; it is made in the first
  call of `getInstance`.
* `calServer.cc:18`: a sum, difference or product that overflows is returned with exit
  code 0, although `protocol.hpp:195` says that 0 stands for a result that is correct.
  `EndToEnd` is therefore stated modulo the width of `int`.
* `MainCp.cc` and `ThreadPool` end without notice when `save` cannot open its log and
  when a task throws; `EverythingSaved` and `EverythingRuns` allow for that.

* `HttpServer.hpp:67`: the result of `recv` is kept in a `size_t`, so that the -1 of a failed
  `recv` is not told from a message; a request that comes in two segments is parsed
  without its first line, with a size that was never set. `HttpCrashes` and `HttpAnswers`
  allow for both.
* `HttpServer.cc:51,59`: the body has one byte more than `Content-Length` says, and a
  missing file is announced with -1 and status 200; `Util.hpp:31` compares a `size_t` with 0.
  `HttpAnswers` states what comes out.
* `myshell.c:110`: a line without a word gives `strcmp` a null pointer. `ShellSettled` has
  this end of the shell as a case of its own.
* `shm_client.cc:8` with `comm.hpp:53`: a client that comes first makes a segment of mode 0;
  it cannot attach it, and neither can the server, which finds the key taken.
* `myprocess.cc:28`: a read of 399 bytes takes up to four arrays of 100 and prints what is
  before the first NUL, so words behind another one are lost; each full read moves the
  place where the next one begins by a byte, until it is inside a word, and ends of words
  are printed as lines of their own.
* `test_cond.cc:23`: the counter is decremented without a test, which the comment above it leaves
  out for now, and so goes below zero.

## 7. Not modelled

* `logMessage` of both servers: it formats a line and appends it to a file that no other
  code reads; the file is opened and closed in the call.
* The signal programs: one process that blocks, catches or prints its pending signals,
  most of it commented out; what happens is the kernel's doing.
* `thread`, `thread_ctrl`: create, join, detach and cancel of threads that share nothing.
* `socket_udp`: receives and prints, and keeps no state; `UdpChat` models its successor.
* `probar`, `test1`, `test2`, `test11.27`: sequential output, one `fork` or `exec` each.

Within the modelled programs:

* JSON (a library), log texts and prompts;
* an `accept` that fails, which is tried again, and a `/dev/null` that cannot be opened;
* the `Content-Type` that `parse` makes of the suffix, and the texts of the header lines;
* `ls --color=auto`, lines of the shell with more than `OPT_NUM` words or without a
  newline at their end;
* the truncation of long datagrams; writes of `mylibc` beyond the buffer, which the code
  declares out of its scope;
* a user who is root, for `shm`; several clients writing into one segment.

What would extend this work most is a proof of the liveness properties, from the same
invariants and the fairness of section 4, with a prover that handles `ENABLED`; and a
model of the JSON form of the two messages, which the default build uses.
