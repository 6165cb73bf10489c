# Verification of disasm's distributed shared memory

The repository grew from a disassembler demo into a *distributed shared memory*
(DSM): unmodified programs on several machines read and write one memory page as
if it were local. A store to the page faults; the fault handler asks for write
access, lets the one instruction run with the page unprotected, and sends the
new value to every other machine. Everything of interest happens between
processes: sockets, signals, shared memory. This directory models that part in
TLA+, checks it with TLC on small sessions and proves most of its safety
properties with TLAPS for sessions of every size.

`src/dev/demos/net/` holds the networked DSM, the core of this project;
`src/dev/dsm/` an older version for one machine.

## 1. Inventory

| component | source | state | operations |
|---|---|---|---|
| session server | `dsm_server.c` | `started`, `gid`, three counters, operation queue and step, connections | seven message handlers, accept, end of session |
| arbiter (one per machine) | `dsm_arbiter.c` | `started`, process table with three flags per process, queue of writers, poll set | ten message handlers, accept, poll passes, signalling, exit |
| application process | `dsm_interface.c`, `dsm_sync.c` | its place in the program, page protection, `gid` | `dsm_init`, a store (SIGSEGV, the store, SIGILL), `dsm_barrier`, `dsm_exit` |
| messages and sockets | `dsm_msg.*`, `dsm_inet.c` | bytes under way | `dsm_sendall`, `dsm_recvall` |
| job control | `dsm_signal.c`, the kernel | stopped / signal pending | `kill(SIGTSTP)`, `kill(SIGCONT)` |
| operation queue | `dsm_queue.c` | ring, size, head, tail | init, get head, enqueue (with resize), dequeue |
| poll set | `dsm_poll.c` | array of descriptors | add (with growth), remove (with shuffle) |
| start-up on a machine | `dsm_interface.c` (before the connection) | shared file, init semaphore, who forked the arbiter | create or open, map and zero, initialise, fork, wait |
| session daemon, hash table | `dsm_daemon.c`, `dsm_htab.c`, its client `dsm_client.c` | sessions by name, in chained buckets, each with a port or the descriptors that wait for one; poll set | look up (or fork a server and wait), check in, delete; accept; handle a closed connection |
| local DSM | `src/dev/dsm/` | three semaphores, shared table, process group, handlers | `dsm_init`, seize and release access, `dsm_exit` |
| demos, test programs | `shared_maps/`, `siggen.c`, `disasm.c`, `dsmc.c`, `dsmd.c` | - | - |

**How they interact.** A process talks to its arbiter over a loopback socket,
an arbiter to the server over the network. A write is a round trip through all
of them:

1. the process sends `SYNC_REQ`; the arbiter queues it, marks it stopped and
   queued, and asks the server, which queues *the arbiter*;
2. if nothing was queued the server sends `STOP_ALL`; each arbiter sends SIGTSTP to
   its running processes and answers `STOP_DONE` with the number of its processes;
3. when all are accounted for, the server sends `WRITE_OKAY` to the arbiter at the
   head of its queue, which forwards it to the process at the head of its own;
4. the process stores, sends `SYNC_INFO` with the value, and stops itself; the
   arbiter dequeues it; the server sends the value to every arbiter, which
   writes it to its page and answers `SYNC_DONE`;
5. when all are accounted for, the server dequeues the arbiter and either goes to 3
   with the next, or sends `CONT_ALL`, and each arbiter sends SIGCONT to everyone
   but queued writers and processes at a barrier.

A barrier is `WAIT_BARR` up, a self-inflicted SIGTSTP, and `WAIT_DONE` down, which
the arbiter turns into SIGCONT. `CONT_ALL` and a barrier release use the same signal.

Before a session there is the daemon: whoever wants to join asks it for the port of a session
by name. It forks a session server for an unknown name, keeps the descriptor of everyone who
asks until that server checks in, answers them all, and forgets the name when the server
reports the end.

**What is hard here.** Nobody stores who was granted the write: two queues on two levels
are each read at their head, and have to agree. Stopping is
asynchronous, and acknowledged when the signal is sent. A process stops itself
*after* it announced that it would, and a signal that comes before is lost. Acknowledgements
are counted in processes, several to a message. An arbiter's loop edits the array it is
walking over. A dead process can be signalled. PROJECT.json lists every such
hazard with its line and the properties that watch it.

**What makes each component correct.** Server: its step, queue and counters move
together and it never sees a message out of order. Arbiter: it freezes whoever could
run, wakes whoever may, and no one else. Process: its page is writable only while it
holds the grant. The session: one writer at a time, everyone else held, every page
equal when the session runs, barriers that hold and are released, requests that are
answered, failures that reach everybody. Operation queue: it is a queue. Daemon: it is a directory,
one server per name, answers to those who asked, and it never blocks. Start-up: one
arbiter per machine, and nobody connects before it listens. Local DSM: its lock is exclusive
across its three uses, nobody is signalled in a wait for a semaphore, and whoever was stopped on its way in is continued.

## 2. The modules

| module | models |
|---|---|
| `DsmNet` | constants and their assumptions, messages, FIFO channels, signals, the page of each machine |
| `DsmServer` | `dsm_server.c`: `Srv...`, one action per handler |
| `DsmArbiter` | `dsm_arbiter.c` and the order of `dsm_poll.c`: `Arb...`, one action per handler, `ArbPoll` and `ArbAccept` |
| `DsmProcess` | `dsm_interface.c` from the connection on, `dsm_sync.c`: `Proc...`, one action per system call, and signal delivery |
| `DsmSession` | the three side by side, closed sockets, deaths, fairness, and all properties |
| `CoherentPage` | what a session promises: copies that behave like one page with one writer at a time |
| `Fifo`, `OpQueue` | what an operation queue promises, and the ring of `dsm_queue.c` that implements it |
| `DsmStartup` | `dsm_init` before the connection, and the arbiter's side of it; one action per system call |
| `LocalDsm` | `src/dev/dsm/`: `dsm_init`, a store, `dsm_exit`, signals and semaphores; one action per system call |
| `DsmDaemon` | `dsm_daemon.c`, `dsm_htab.c` and its use of `dsm_poll.c`; the clients and the servers' two messages |
| `SessionDirectory` | what the daemon promises of each name |
| `MCDsmSession`, `MCDsmDaemon` | small instances for TLC |
| `DsmSessionProofs`, `DsmWriterProofs`, `DsmProtocolProofs`, `DsmBarrierProofs` | theorems about a session, each on top of the one before |
| `DsmStartupProofs`, `OpQueueProofs`, `LocalDsmProofs`, `DsmDaemonProofs` | theorems about the other components |

Names follow the source: `nproc_waiting`, `opqueue`, `step`, `is_queued`, `ToFreeze`
(whom `msg_stopAll` signals). `map` in PROJECT.json gives the lines of each definition.
Operators named `Faulty...` are variants of the operator that follows them, with the kind of
slip one makes in such code; no action uses them, they document what
each property is able to notice.

### Correspondence and abstractions

- **A handler is one action.** The programs are single threaded, and a
  handler only computes and sends: nothing another program does in
  between can change what it computes, so its sends may be taken together. Two
  places need care. Signals: the loop of `signalProcess` stops at the first failure,
  which `Signalled` and `SignalFails` keep. The page: only `ArbApplySync` and
  `ProcStore` touch it.
- **Sending to everyone is one step.** The server's loop sends to one
  descriptor after the other; receivers that are late see the message later, which
  the channels allow anyway.
- **Poll passes.** An arbiter reads at most one message per socket and pass, server
  first, in order of acceptance. `pass` holds what the pass has still to read. This
  matters: a barrier announcement sent before a process was frozen is
  read before the `CONT_ALL` that follows, and only because local messages are readable at
  once while a pass cannot serve the server twice (the variant `FaultyReadable` shows it). A
  message of the server may be seen late (`fromServer`). The listener is first
  in the array; `ArbAccept` therefore precedes the pass. A pass that accepts one of
  several connections has the same effect as one before the others connected.
- **Removal while walking.** `SteppedOver` is the descriptor the loop skips when
  `msg_prgmDone` shuffles the array down.
- **The server polls too**, but its handlers do not depend on the order in which it
  reads different sockets, so `DsmServer` takes any order.
- **Sockets** are reliable and FIFO (TCP). What was sent to a program that is gone
  is never read. A closed socket is noticed when everything before it was read.
- **SIGTSTP** is pending until its target next leaves the kernel: a process that is
  in a `send` may complete it. SIGCONT acts at once and discards a pending stop. Handlers
  for both are commented out in `dsm_init` (lines 316-317), so the default action
  holds. A process that sends itself SIGTSTP stops at once.
- **The process table** is indexed by process instead of descriptor. Descriptors grow in the
  order of acceptance before the session starts and nobody is accepted later, so table order is
  poll-set order.
- **Panics** are states: `srvState`, `arbState`, `loc` = `"panic"`, after which nothing of
  that program runs. Checks of the form "only the server may send this" cannot fail, since
  each message type has one kind of sender, and are left out.
- **A page** holds a value per offset; a value names its writer and how much of its
  program was left. Reads are not modelled: they do not change anything.
- **The arbiter connects to the server before** it lets its processes in
  (`getServerSocket` precedes the init semaphore), hence `backlog = Arbiters` at first.
- **A process is killed** only once connected; a process that never connects is the
  same as a session that never starts.
- **gone** is the set of processes whose pid has been reaped. It lets `kill()` fail.
- **rounds** is a history variable.
- **Start-up ends where the session begins.** In `DsmStartup` the exchange of messages is reduced to
  who has registered; `DsmSession` starts from processes that have passed the semaphore.
  The other machines may register at any time, so the start message may come as soon as all local
  processes have registered. A file that is mapped has a size and `data_off`, nothing else
  that matters; sizes and offsets are counted in pages.
- **Stores in `LocalDsm`** are of two kinds. All processes map the page readable and writable; the arbiter then protects it
  (`dsm_manager.c:229`), in its own mapping, as `mprotect` does (`protected`). So only the arbiter's stores fault, and take
  the lock, freeze the group, write and release (`Fault` to `Unfreeze`); those of the others are `PlainStore`, which nobody hears of.
  Reads of the page, and with them the turn-taking of `childProgram`, are left out: any process may store next.
- **Job control in `LocalDsm`** has the same rules, with handlers: a stop signal is
  delivered at some later step, and an installed handler does nothing. One that interrupted a `sem_wait` would make
  `dsm_down` panic; `NobodyInterrupted` says that this does not happen, so it is no step of the model. `dsm_killpg` sets the sender's own
  handler to the default (`SetBack`). The signal sets of a group are updated in one step because
  the kernel does so under its lock, and a signal sent to a member is delivered before that member's
  `setpgid` in `dsm_exit` returns. `sem_open` of an existing or a new
  name has the same effect, and `setpgid` fails if the group has no member left.
- **The daemon is one loop** over a poll set that its handlers change: `at` is its index, an element keeps
  the POLLIN of the last `poll`, and each action handles one element. Descriptors are numbers, the
  lowest free one is given out next, and entries of the table keep descriptors, as in the code: a
  descriptor kept from earlier may belong to someone else by the time it is answered (`owner`).
- **After a closed connection** `processMessage` goes on with a message that was not read. `ReadNothing`
  takes it to be no message or what an earlier call left on the stack (`last`). Writing to a descriptor that
  is closed makes `dsm_sendall` panic; writing to a client that hung up does not, at first.
- **Clients of the daemon** that are not `Interactive`, and servers, connect and send their one message in one step: the daemon
  would wait in `recv` for the rest of a message that was begun. `Interactive` ones are those a user steers with the menu of
  `dsm_client.c` (lines 177-186): they may be slow, may hang up, and may send up to `MaxAgain` further messages on the same connection
  (`again`), each a lookup of any session or a message the daemon has no action for, which makes it close the connection. The
  daemon reads the messages of a client in their order, one in each pass. `configMsg` and the servers clear a message before they fill it, so an
  identifier, hashed over all its 32 bytes, always falls into the bucket `Hash` gives it.
- **Session servers as the daemon sees them** check in (`SET`), report the end (`DEL`, only after someone
  was told the port, since a session needs participants), or die between the two; a failed
  `execve` is such a death. That a forked server inherits the daemon's descriptors has no effect on what the model keeps.
- **Refinement mappings.** For `CoherentPage`, nobody stores the writer: `Writer` is the head of the queue of the
  arbiter at the head of the server's queue, from the grant until that arbiter has forwarded the data; the
  current page is the one of the machine at the head of the server's queue (`Source`); a machine is a member until
  its arbiter exits, also after a panic (with only running arbiters as members, `Source` would fall to a stale
  machine when the last of them closes, on instances with three processes on two machines). `Asking` keeps a dead
  process whose request is queued, since its arbiter does. For `SessionDirectory`, an entry is a port
  and the number of those waiting, and `forked` counts the servers of a name.

## 3. What is checked

Every property is stated, with a comment, in `DsmSession` (or `OpQueue`, `DsmStartup`, `LocalDsm`,
`DsmDaemon`).

| run | instance | properties |
|---|---|---|
| `two_machines` | p1, p2 on one machine, p3 on another; all write at once, write after a barrier, write while another is at the barrier, or leaves; 500 thousand states up to exchanging p1 and p2 | `TypeOK` `NoProtocolPanic` `WriterAlone` `PagesAgree` `StepMatchesQueue` `BarrierHolds` `InitBlocks` `CoherentSpec` (refinement of `CoherentPage`) |
| `one_machine` | three processes on one machine, so the server takes its shortcut for one arbiter and one arbiter queues several writers; writes, barriers and exits in several orders; p2 may die at any time; 0.8 million states | `NoProtocolPanic` `SingleWriter` `WriterAlone` `GrantAgreement` `BarrierHolds` `NobodyStoppedAtRelease` `CoherentSpec` |
| `liveness` | two machines, one process each, a write and a barrier; p2 may die at any time; 50 thousand states | `EveryoneStarts` `AcksArrive` `WriteGranted` `BarrierReleased` `FailureEndsSession` |
| `daemon` | two clients, two names in one bucket, three servers; one client may be slow, send a second message on its connection, or hang up, and one server may die; 37 thousand states | `TypeOK` `NoPanic` `AnswerIsRight` `OneServer` `ReadyMeansReadable` `DirectorySpec` (refinement of `SessionDirectory`) `EveryoneAnswered` |
| `opqueue` | initial size 2, doubled twice; 29 thousand states | `FifoSpec` (refinement of `Fifo`) |
| `startup` | three processes on a machine, a fourth elsewhere; 9.5 thousand states | `TypeOK` `OneArbiter` `ListenerReady` `PageSurvives` `EveryoneReady` |
| `local_dsm` | three processes, two stores each; 33 thousand states | `TypeOK` `LockIsExclusive` `GroupReady` `DestroyedByTheLast` `NobodyInterrupted` `NobodyLeftStopped` `EveryoneFinishes` |
| `barrier_returns` `write_proceeds` `barrier_suspends` `daemon_survives` `shared_page` | the smallest instance that shows it (for `barrier_suspends` four processes on one machine, 0.65 million states) | one violated property each, see section 5 |

**Bounds.** Programs are finite sequences of calls (`Workloads`), which bounds every
counter. Two bounds are in a guard: `MaxSize` in `OpQueue`, past which
the ring is not grown, and `MaxAgain` in `DsmDaemon`, the messages that clients send after their first. Two processes on one machine and one on another is the smallest session
with a queue of writers on both levels, acknowledgements that count
for more than one, and a page that others update; the workloads of the two instances make all three
request at once, meet the barrier before, during and after a freeze, and leave or die
while others write. Sessions of more processes repeat these situations; for the
properties of section 4 that is a theorem. `MCOpQueue` reaches every
position of head and tail at sizes 2 and 4, and the growth from each. `DsmStartup` has no bound but
its processes: with three, one creates the file, one finds it without a size, one comes late;
`NProc` is one more than them, as a post too few or too many shows only when machines differ.
`MCDaemon` has one bucket, so that chains matter; its two clients meet in one session or ask for two, and the second message of one
lets it be queued twice, be queued for both, or be closed while it is queued. `MaxQueue`, 2 for the 64 of `DSM_MAX_SESSION_QUEUE`, is reached by two clients
and exceeded by a second lookup or a replayed one. `NServers` is the number of servers that all requests together can fork. (Three clients
without a second message, 69 thousand states, and one client with two, 47 thousand, show nothing more.)
Three processes in `LocalDsm` let the arbiter write while one stores, joins or leaves, and one is still on its way in; `Stores` bounds
the stores of each, and two let a write follow the first, after which the arbiter's own handlers are set back.

**Deadlock** is not checked: programs end, and a finished or torn-down session stops.

**Symmetry** is used in `two_machines` only, which checks no liveness: its set of programs does not change
when p1 and p2, which share a machine, are exchanged. Elsewhere processes run different
programs on different machines.

**Fairness** (`Fairness` in `DsmSession`) is weak fairness of each program: the server's
handling of each connection, each arbiter, each process. The operating system schedules
every runnable program and `poll` reports every readable socket, so a loop that keeps running
serves each; a descriptor stepped over is served in the next pass. Death has no fairness. No strong fairness is
assumed for the networked version: a pass may ignore a server message that is under way only as long as local
messages keep the arbiter busy, and programs are finite. `LocalDsm` assumes the same of its
processes; the lock is taken once by each joiner and a bounded number of times by the arbiter, so nobody is passed over for ever. `DsmDaemon` assumes weak fairness of the daemon's loop and of the peers that connect
and send (each does so once); nobody has to send a second message, to hang up, to die, or to end a session.

**`BarrierHolds`** is about sessions nobody has left: with two leavers it fails (`barrier_suspends`).

**Liveness** is stated up to the session being torn down, and `WriteGranted` also up to
a queued writer being frozen, which is the flaw of section 5 and blocks everyone behind it. `EveryoneReady` allows for one kind of panic: that of a
process that maps the shared file before it has a size. The others then get as far as the wait for the session, which
never starts. `EveryoneFinishes` says that every process of the local version ends, in panic at worst (a file mapped too early, the
names unlinked twice); its one exemption is an arbiter that panics before it has opened the lock, which those behind it wait for.
`EveryoneAnswered` is about sessions that are not hit by one of four things the daemon does not recover from:
a server that died, a full queue, a client that hung up, and one whose second message was read. The last two leave a descriptor
in an entry, which may be given to another peer, even to the session's own server, whose check-in is then answered instead of the client that
waits. `NoPanic` and `AnswerIsRight` make the same exception for the last two (`Patient`); what happens otherwise is shown by `daemon_survives`, `MCDaemonQueue.cfg` and `MCDaemonPort.cfg`. `OneServer`, `ReadyMeansReadable` and `DirectorySpec` make none.

## 4. What is proved

For every number of machines and processes, every placement, every set of programs and
every set of processes that may be killed; for every initial size of the queue; for every number
of clients, servers, buckets and names of the daemon. The proofs rest on the named
assumptions of the models and on nothing else: in `DsmNet` and `DsmSession`, at least two processes, as
`parseArgs` demands, at least one on each machine, and write offsets that include 0, where the arbiter
stores; in `DsmStartup`, that a session is as large as the processes of one machine; in `OpQueue`, an initial size above 0; in
`LocalDsm`, finitely many processes; in `DsmDaemon`, that clients are finitely many and that there are numbers for as many
servers as there can be requests. Three have a hypothesis on a constant and two are restricted to part of a session's life, as the table says.

| theorem | module | says |
|---|---|---|
| `TypeCorrect` | `DsmSessionProofs` | `Spec => []TypeOK` |
| `StepFollowsQueue` | `DsmSessionProofs` | `Spec => []StepMatchesQueue` |
| `InitGathersAll` | `DsmSessionProofs` | `Spec => []InitBlocks` |
| `GrantInvariant` | `DsmSessionProofs` | `Spec => [](TypeInv /\ PlaceInv /\ GrantInv)`, the inductive invariant |
| `WriterIsAlone` | `DsmSessionProofs` | `Spec => []SingleWriter` |
| `QueuesAgree` | `DsmSessionProofs` | `Spec => []GrantAgreement` |
| `PageInvariant` | `DsmSessionProofs` | the invariant behind the next, if `Offsets = {0}` |
| `PagesStayEqual` | `DsmSessionProofs` | `Spec => []PagesAgree`, if `Offsets = {0}` |
| `WriterInvariant` | `DsmWriterProofs` | `Spec => []WriterInv`, the invariant behind the next |
| `WriterRunsAlone` | `DsmWriterProofs` | `Spec => []WriterAlone` |
| `ProtocolInvariant` | `DsmProtocolProofs` | `Spec => []ProtocolInv`, the invariant behind the next four |
| `NobodyPanics` | `DsmProtocolProofs` | `Spec => []NoProtocolPanic` |
| `SessionIsCoherent` | `DsmProtocolProofs` | `Spec => CoherentSpec`: the session implements `CoherentPage`, if `Offsets = {0}` |
| `BarriersHold` | `DsmBarrierProofs` | `Spec => [](gone = {} => BarrierHolds)`, until a process is killed |
| `ReleaseFindsNobodyStopped` | `DsmBarrierProofs` | `Spec => [](Intact => NobodyStoppedAtRelease)`, until a process is killed or leaves |
| `StartupTypes` | `DsmStartupProofs` | `Spec => []TypeOK` |
| `OneArbiterOnly` | `DsmStartupProofs` | `Spec => []OneArbiter` |
| `FileSurvives` | `DsmStartupProofs` | `Spec => PageSurvives` |
| `NobodyRefused` | `DsmStartupProofs` | `Spec => []ListenerReady` |
| `QueueTypes` | `OpQueueProofs` | `Spec => []TypeOK` |
| `RingIsFifo` | `OpQueueProofs` | `Spec => FifoSpec`: the ring implements `Fifo` |
| `LocalInvariant` | `LocalDsmProofs` | `Spec => []LocalInv`, the inductive invariant |
| `LocalTypes` | `LocalDsmProofs` | `Spec => []TypeOK` |
| `LockExcludes` | `LocalDsmProofs` | `Spec => []LockIsExclusive` |
| `GroupIsReady` | `LocalDsmProofs` | `Spec => []GroupReady` |
| `LastOneDestroys` | `LocalDsmProofs` | `Spec => []DestroyedByTheLast` |
| `NobodyIsInterrupted` | `LocalDsmProofs` | `Spec => []NobodyInterrupted` |
| `EveryoneUnfrozen` | `LocalDsmProofs` | `Spec => []NobodyLeftStopped` |
| `DaemonTypes` | `DsmDaemonProofs` | `Spec => []TypeOK` |
| `NeverBlocks` | `DsmDaemonProofs` | `Spec => []ReadyMeansReadable` |
| `AnswersRight` | `DsmDaemonProofs` | `Spec => []AnswerIsRight` |
| `OneServerEach` | `DsmDaemonProofs` | `Spec => []OneServer` |
| `NeverPanics` | `DsmDaemonProofs` | `Spec => []NoPanic` |
| `DirectoryKept` | `DsmDaemonProofs` | `Spec => DirectorySpec`: the daemon implements `SessionDirectory` |

*The hypotheses.* `Offsets = {0}`: an arbiter puts an update at the start of its page whatever offset it
was made at (`dsm_arbiter.c:504`), so with another offset `PagesAgree` is false of the code.
That is in section 5. The runs use the same value. `gone = {}` and `Intact` (`gone = {}`, and nobody has left) are
states, not constants; what is missing there is said below.

*Types.* `TypeOK` is not inductive: `ProcStore` and `ProcSigill` take the head of the
rest of the program. `StoreInv` adds that a process in a store has a write at the head
of it; `TypeInv` is the conjunction. One lemma per component.

*The server.* `StepMatchesQueue` is inductive as it stands, given the types.

*Registration.* That `INIT` ends only when everyone has registered takes the path of a registration: `JoinInv`
follows the one `ADD_PROC` of each process from its socket to its arbiter's table and on to the server, never in two of
these places; `CountInv` says that the server's counter is at most the number of processes whose
`ADD_PROC` it has read, and that a started session has everyone; `GidInv` that no two processes are told
the same number; `ChainInv` that everything which presupposes the start comes after it.

*The grant.* `SingleWriter` says nothing about a grant that is under way, so it is not
inductive. `GrantInv` follows it around: it is in the channel to one arbiter (`Sent`),
in the channel to one process (`Passed`), with a process (`Writable`), in the
channel back to the arbiter (`Returning`), or in the channel back to the server (`Returned`).
`AtMostOnce`: no channel holds it twice. `Apart`: no two places hold it. `InOrder`: as
long as some place holds it the server waits for the data and has that arbiter at the head of its queue, and
the arbiter has that process at the head of its own. `PlaceInv` adds that an arbiter's
table, queue and descriptors only hold its own processes. A new grant is made only where
the invariant shows that none exists (`GrantMade`); every other handler
moves it one place on (`GrantKept`) or leaves it alone (`GrantUntouched`). Why the queues keep
agreeing: both are only appended to, and their heads are removed only by the data of
the process that holds the grant.

*The pages.* Between the writer's data and the last acknowledgement the copies differ, and what `PagesAgree` says of
the quiet moments depends on who has been updated so far. `RoundInv` follows one round of updates: each live arbiter other
than the writer's has the update in its channel (`Updating`), or its acknowledgement on the
way (`Acking`), or has been counted, one of the three, and the server has counted at most the processes
of those in `Counted`; so a full count means that nobody is left to be updated. `DataInv` says which value is where: data
under way is the value of its sender's page, updates carry the value of the writer's machine, and whoever is not to be
updated any more has it. `LinkInv` and `ListInv` say whom the server still writes to, and that a list of descriptors names nobody twice.
It rests on the grant (one writer) and on registration (the count of processes).

*The writer alone.* Three arguments, one on top of the other. First, `StopInv`: the round of `STOP_ALL` and its answers is
a barrier with a count, like a round of updates. `NProc` is reached only if every arbiter has answered for all its
processes. A process that has left is counted nowhere, so from then on no round is complete: a grant is only out while the
rounds are `Whole`, and `Settled`, what everything else says of a session, is claimed of `Whole` ones only. Second, whoever was frozen
stays frozen until its arbiter reads the resume (`HoldInv`). Nothing but the resume may wake a
process of a halted machine, and the release of a barrier is the same signal; `ToRelease` leaves out whoever is marked as stopped,
which is all of a halted machine. The reverse is delicate: a process that the resume wakes although it is at a barrier is let out
of the barrier, and one that is asleep with its announcement unread would be taken for running at the next freeze. `FlushInv` says that
before a machine is resumed its arbiter has read every announcement, because the update or the grant that precedes the resume takes a pass of its
own, and that pass reads them. `BarrierInv` counts announcements on their way to the server: together with what the server has
counted they are never more than the processes marked as waiting, so a release finds everybody marked. `PosInv` says which
messages of a process are unread in each state of its entry in the table, `QueueInv` that the arbiter's queue holds nobody twice.
Third, a grant out means `WAITING_SYNC_INFO`, and that no freeze is on its way: every machine is halted, and everyone is held except the holder of
the grant, of which there is one. `StartInv` and `EnrolInv` say that orders come after the start on each machine, and that poll set
and table name the same processes.

*No panic.* A handler panics when its sanity check fails, so `NoProtocolPanic` is about what each message finds. `AskInv`: a
process that waits for a grant has one request, on its way to its arbiter or in its arbiter's queue, and one that does not wait has
none. `LineInv`: an arbiter's requests under way and its places in the server's queue are together as many as the processes in
its own queue, and one more while its write is being spread, since it dequeues first. So a grant finds a process queued, data finds its
writer at the head, and the server's queue is not empty when an answer comes. `NameInv`: a number goes to who asked for it and is read in
`dsm_init`. `EndInv`: an arbiter closes when its last process is gone, and only the killed have no pid. `NoProtocolPanic` is part of
the invariant, because a program that had panicked would not answer.

*One page.* `ProtocolInv` gives the writer of the refinement, the head of two queues. Missing is that there is a current
page: `ParkInv` says that the machine whose write is being spread still has the process that wrote it, stopped, about to stop, or
dead, so its arbiter has not closed. `CurrentInv` collects what a state says of the abstract page, and every step is
then a step of `CoherentPage` or a stutter: one lemma per component.

*Barriers.* In an `Intact` session the round of freezes counts exactly everyone (`ExactInv`), so that all of `Settled` holds.
A process is `Open` from its announcement until the server sends the release; its `Level` is the number of barriers it has
passed, and all processes have the same (`LevelInv`): the release is sent when everyone is open, and closes all at once. Whoever is in user
code is not open, because nothing but the release may wake it. `BarrierHolds` itself claims nothing once somebody has
left; so `BarriersHold` needs only that nobody was killed. For `NobodyStoppedAtRelease`, `RestInv`
says that the writer of the round is not at the barrier, so a round is over, or has not begun, when a barrier is complete (`MidRound`), and `ReleaseInv`
that the stream to each arbiter has no `CONT_ALL` behind the release, and no release behind a `STOP_ALL`: when the release is read, the
resume of the round before it has been read, and the freeze of the one after it has not.

*The queue.* `TypeOK` of `OpQueue` bounds head and tail by the current size; it is inductive. The refinement maps the ring to
the sequence from head to tail. Enqueue and dequeue are steps of `Fifo` because the indices of the elements left are shifted by one modulo
the size; growing is a stutter because what lies before the head is copied past the old end.

*Start-up.* The types need that the semaphore holds no more than was posted. `OneArbiter` says
nothing about a process that created the file and has not forked yet; `RaceInv` adds that the name
of the file stays until the session starts, so that nobody else can create it, and that the session
starts only when every process is past the race. That also makes the file survive: the late
mappers are among those that have to register first. `ListenInv` follows the arbiter: there is none until the winner
forks it, and what is posted on the semaphore is posted by one that listens.

*Local DSM.* `LocalInv` has a part for each thing that is shared: `RoleInv` the file (which branch of the start each
process may be in, what size it saw, and that only the arbiter's page is ever protected, so that nobody else takes the path of a write), `TallyInv` the counter (it is the number of processes that have counted
themselves and not left), `NamesInv` the names (they stay until everyone has counted itself, so there is one arbiter), `RaiseInv`
the barrier, `LockInv` the lock (it is free only when nobody holds it, and only after the arbiter opened it),
`GroupInv` the process group, `StopInv` the signals (they go to members of the group other than the arbiter, and stop only one that is in
the group but has not installed its handlers yet). `LockIsExclusive` and
`NobodyLeftStopped` are parts of it; `GroupReady` follows because the table is locked until the arbiter leads its group,
`DestroyedByTheLast` because the counter is exact, and `NobodyInterrupted` because the only process that waits for a semaphore after it
has joined the group is the arbiter, which is sent no signals.

*The daemon.* `DaemonInv` holds whatever clients do: `ConnInv` (a connection has one descriptor, each descriptor polled is a connection's),
`ReadyInv` (what the pass has still to visit can be read without waiting, although entries move
when one before them is removed), `ChainInv` (an entry has a port or somebody queued, never both, and a port is that of a server
which has checked in under that name), `LastInv` (what is in the entry the last message touched, for the
message may be handled a second time), `ForkInv` (servers are numbered without gaps, and there are never more of them than messages
that were read). `QueueInv` says that the queued
descriptors are connections of clients that asked for that name, each queued once, as long as clients are `Patient`. `ActiveInv` says
that a name has an entry exactly while a server is active for it, in the bucket of its hash; it makes `OneServer` inductive, and it
keeps the daemon from looking for an entry that is not there. A step of the loop has one of six outcomes,
each a lemma per part of the invariant; the refinement maps them to the actions of `SessionDirectory`.
`NoPanic` and `AnswerIsRight` are about patient clients, as the properties state; the other theorems about the daemon hold whatever clients do.

Before they were proved, all parts of the invariants were checked by TLC on the instances above.

**Only model-checked:**

- `BarrierHolds` after a process was killed. An arbiter that signals a dead process panics, and its `STOP_DONE` is then missing from the count
  of a round or, if the death comes later, already in it; `Settled` is claimed of rounds that counted everyone, and these may not.
- `NobodyStoppedAtRelease` after a process left or was killed. Whoever has left announces itself no more, so no further barrier should complete;
  but the server counts announcements, not processes, and a process woken out of a barrier as in `barrier_suspends` announces itself
  twice. That takes two others who leave for each, so the count stays below `nproc`; to prove it takes a count of the
  descriptors that were stepped over.
- All liveness properties: `EveryoneStarts`, `AcksArrive`, `WriteGranted`, `BarrierReleased`,
  `FailureEndsSession`, `EveryoneReady`, `EveryoneFinishes`, `EveryoneAnswered`. They need fairness and `ENABLED`, which are out of the proof
  system's reach here.

## 5. Where the code and its documentation disagree

| run | what happens |
|---|---|
| `barrier_returns` | p1 announces itself at the barrier (`dsm_interface.c:337`); p2 is the last; the release reaches p1 as a SIGCONT before p1 stops itself (line 338). p1 then stops and is never continued. `dropAccess` (`dsm_sync.c:114-118`) has the same window. |
| `write_proceeds` | p2's request arrives after its arbiter handled `STOP_ALL` for p1, which stopped p2 while it waits for its grant. The grant is a message (`dsm_arbiter.c:478`); SIGCONT is only sent on `CONT_ALL`, when nobody is queued, and not to queued processes. p2 sleeps and the session with it. |
| `barrier_suspends` | four processes share a machine; p3 comes to the barrier and announces itself, while p1 and p2 leave, one in each of two passes: each removal moves the array down under the loop (`dsm_arbiter.c:560`), which steps over the next descriptor, and p3's announcement stays unread through both passes. The `CONT_ALL` of p4's write comes first, finds p3 not waiting, and wakes it out of the barrier. |
| `daemon_survives` | a client connects and hangs up; the daemon reports it and goes on with a message nobody sent (`dsm_daemon.c:268-277`). If that memory still holds a request, the closed descriptor is queued in its entry, and the daemon panics when the server of that session checks in. |
| `shared_page` | p1 creates and initialises the file; p2, which has mapped it, zeroes it only after p1 has protected its page (`dsm_interface.c:125`): `data_off` is 0 and `dsm_getSharedPage` returns the control data. |

Four more have a configuration beside the others, for a property of `DsmDaemon` or `LocalDsm` that TLC refutes
(`tlc -config MCDaemonQueue.cfg MCDsmDaemon`); they are not among the runs of PROJECT.json.

| configuration | property | what happens |
|---|---|---|
| `MCDaemonQueue.cfg` | `QueuedAreNotified` | a client asks for a session and, while it waits, asks again (its menu is a loop, `dsm_client.c:177-186`). `dsm_enqueueTableEntryFD` (`dsm_htab.c:194`) queues its descriptor twice; at the check-in of the server the first answer closes it, and the second makes `dsm_sendall` panic. Nobody hung up. |
| `MCDaemonPort.cfg` | `PortIsOfSession` | c1 asks for x and then for y, is answered for x and closed (`dsm_daemon.c:166`), and its descriptor stays in the queue of y. c2, who asks for x, is given that descriptor, and is told the port of y when y's server checks in. |
| `MCLocalAtomic.cfg` | `WritesAreAtomic` | the arbiter holds the lock and has frozen the group to store (`dsm_sync.c:72`), and p2 stores at the same time: `dsm_manager.c:229` protects the arbiter's mapping only, so p2 does not fault and waits for nobody, and the SIGTSTP meets its empty handler (`dsm_manager.c:259`). |
| `MCLocalLast.cfg` | `OnlyOneIsLast` | both processes count themselves (`dsm_manager.c:242`) before either reads the count (line 245); both take themselves for the last, and the second finds the names gone and panics. If that is the arbiter, the table stays locked. |

Three flaws of the networked version are in the model without a run of their own. `nproc` does not follow
processes that leave (`dsm_server.c:341`), so those that remain wait for ever at their next barrier; the
liveness properties are about sessions nobody has left. A process that has left and been reaped is still in its arbiter's table until
the arbiter reads its `PRGM_DONE`; a freeze in that window signals it, `kill()` fails, and the arbiter panics (`dsm_arbiter.c:593`), although
everyone did what they should. `NoProtocolPanic` is about sessions nobody has left or died in, and `FailureEndsSession` about deaths, so
no property is about this one. The offset of a write is carried along and
dropped at the end (`dsm_arbiter.c:504`): a store at offset 1 appears at offset 0 elsewhere. With
`Offsets = {0, 1}` and a program that stores at 1, `PagesAgree` fails; the passing runs store at the start of the page.

Two of the daemon. Entries keep descriptors, not connections (`dsm_daemon.c:163`): `MCDaemonPort.cfg` shows what comes of it when
a client asks twice, and after a client that waits has hung up the answer for it goes in the same way to whoever has its descriptor. And
only a session server that lives reports itself (`dsm_server.c:541`): when it dies before, its clients wait for ever, and when it
dies later its port is still handed out.

One of the start-up: a process that opens the shared file before its creator has set the size maps nothing and panics
(`dsm_interface.c:275`), and the others then wait for a session that cannot start.

Two memory errors are outside these modules: `dsm_setPollable` grows its array to too few
bytes (`dsm_poll.c:65`), and the process table is indexed one past its
end when a descriptor equals its length (`dsm_arbiter.c:260`, `300`, `587`).

## 6. Not modelled, and the plan

What is left are two proofs: `BarrierHolds` and `NobodyStoppedAtRelease` without their restrictions, for which section 4 says what is missing.
TLC checks them without (`one_machine` kills a process and lets others leave).

Not planned: the disassembler and instruction injection demos and the patching of
instructions in the fault handlers (sequential, around the external decoder XED); the
shared-map demos (covered by the local DSM); the echo programs `dsmc` and `dsmd` and the
messages `dsm_client` can send to other programs than the daemon, which hold no logic of the system (the daemon has no action for
their types, and that much is modelled); address
lookup, argument parsing and printing; heap errors, which have no outcome to model.
