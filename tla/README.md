# Formal model of locomatch

TLA+ modules, TLC configurations and TLAPS proofs for the operating-systems
project in `src/`: a thread planner (SUSE), a shared-memory server (MUSE), a
file-system server with a FUSE client (SAC), and the libraries between them.
The modules are translated from the code; a row of `PROJECT.json` "map" gives
the lines each definition stands for.

## 1. The system

| Component | Source | State it keeps | Status here |
|---|---|---|---|
| SUSE thread states | `planificacion/suse/suse_scheduler.c` 518-693 | one list per state, `program->exec`, `tcb_counter`, `multiprog_degree`, semaphore `available_multiprog` | modelled: `SuseTcb` |
| SUSE schedulers | `suse_scheduler.c` | `new_counter`, the semaphores of `suse.ini` with their queues, `wakeupList`, `joined`, one loop per thread | modelled: `SuseScheduler` |
| SUSE listener, console, shutdown | `planificacion/suse/suse.c` | `clientes`, `endsuse`, the server's socket | partly: `SuseScheduler` |
| SUSE burst estimates (SJF) | `suse_scheduler.c` `get_shortest_job_position`, `update_estimate` | `estimate`, times of each TCB | abstracted: any ready thread may be the shortest |
| SUSE metrics | `suse_scheduler.c` | none, it reads and logs | the thread is not modelled; `log_metrics` as `suse_close` calls it is in `SuseScheduler`, for its locks |
| hilolay client stub | `lib/hilolay/hilolay_alumnos.c` | one socket; one request at a time | its side of the protocol is in `SuseScheduler` |
| sockets library | `lib/sockets/sockets.c` | none; packets of (size, bytes) | not modelled |
| MUSE frames and clock | `memoria/muse/segments.c` | `bitmapFrames` (free, used, modified), `clockPointer` | modelled: `MuseFrames` |
| MUSE segments | `segments.c` | a segment table per client, pages, heap metadata | not modelled: does not compile, see section 5 |
| MUSE server, libMUSE | `memoria/muse/muse.c`, `lib/libMUSE/libmuse.c` | a client id | not modelled: the operations are stubs |
| SAC server: nodes and blocks | `fileSystem/sac/sac_servidor/sac_servidor.c` | the disk image: bitmap, 1024 nodes, data blocks; the table of open files | `SacNodes` (nodes, bitmap, open files) and `SacData` (write, data blocks) |
| SAC server: connection and parsing | `server.c`, `parser.c` | a stream of one connection at a time | partly: `SacLink` |
| SAC client | `fileSystem/sac/sac_cli/sac_cli.c` | a socket that all its threads share | modelled: `SacLink` |

How they meet. A program linked with hilolay opens one socket to SUSE and sends
`SUSE_CREATE`, `SUSE_SCHEDULE_NEXT`, `SUSE_WAIT`, `SUSE_SIGNAL`, `SUSE_JOIN` and
`SUSE_CLOSE`; only `SUSE_SCHEDULE_NEXT` is answered. Inside SUSE one thread per
program (the short-term scheduler) handles the requests in order, one thread
(the long-term scheduler) admits new threads, one accepts connections, and
`main` reads the console and at the end joins them all. They share the TCBs
through `state_list_mutex`, the list of programs through `clientes_mutex`, a
semaphore of the operating system per resource (`new_counter`,
`available_multiprog`, `program->tcb_counter`), a mutex per semaphore of
`suse.ini` and a mutex per wake-up list. MUSE and SAC are separate processes;
both handle a connection at a time and share nothing with SUSE but the sockets
library.

What is hard in it:

* *Concurrency in SUSE.* `move_tcb_to` sleeps on a semaphore while it holds the
  mutex everybody needs; `check_multiprog` takes and returns a slot without it;
  handlers choose a thread under the mutex and move it after they released it;
  a signal of one program wakes a thread of another whose scheduler may be
  about to sleep.
* *Shutdown of SUSE.* `salir` is typed at any moment of those loops; `main`
  joins the schedulers with `clientes_mutex` held.
* *SAC's disk.* Results of the block search are used without a test, loops over
  blocks that do not advance, an operation that fails half way after it wrote,
  names and block lists that keep what the stack held before.
* *SAC's connection.* FUSE's threads share a socket without a mutex, and a read
  takes whatever has arrived: two messages, or half of one.
* *MUSE.* A clock whose rounds change the bits that the next rounds look at.

`PROJECT.json` "hazards" lists these at their lines, each with the properties
that would catch it going wrong.

What makes each part correct: for the thread states, that every list, counter
and slot agrees with the states (`ListsMatchState`, `CounterMatches`,
`SlotsAccounted`); for the schedulers, that no thread or wake-up is lost or
served twice and no handler acts on a thread that has changed since it was
chosen (`BlockedHasOneWaker`, `NoRedundantMove`, `NoLostCreation`,
`ExecIsWhatTheClientRuns`), that requests are answered and threads admitted;
for the shutdown, that it ends. For SAC: no block in two files, the bitmap
agrees with the nodes, a path finds its own node, the root is recognised, a
write stays off the data of other files, a caller gets the answer to its own
request. Where the code keeps to one of these only in part, the property says
in which part. For MUSE: the clock's
victim is the one the algorithm names.

## 2. The modules

| Module | What it is |
|---|---|
| `ThreadLifecycle` | abstract: what SUSE promises of a thread's states, one executing thread per program, no admission beyond the degree |
| `SuseTcb` | the TCB lists, `move_tcb_to`, the multiprogramming semaphore |
| `SuseScheduler` | the whole server over `SuseTcb`: Init, Next, Spec |
| `SuseProperties` | invariants, action properties, the refinement, fairness, liveness |
| `MCSuse` | small instances for TLC (four `.cfg` files) |
| `SuseProofs` | type correctness, the semaphore queues, the slots of the multiprogramming degree and the two dead ends, proved |
| `SuseCreationProofs` | no created thread is lost, proved |
| `SuseWakerProofs` | one waker per blocked thread, and with it the lists, the counters, the moves and the refinement of `ThreadLifecycle`; what sleepers, joins and answers may count on, and which joins never end, proved |
| `FileTree` | abstract: the files of a disk are a tree of paths that only grows |
| `SacNodes` | the SAC server's node table: formatting, path search, mknod, mkdir, open, opendir, readdir, and the server killed between any two writes |
| `SacProperties` | its invariants, the refinement of `FileTree`, and what comments of the code say |
| `MCSac` | small disks for TLC (four `.cfg` files) |
| `SacNodesProofs` | bits, root, table, open files, the path search and the refinement of `FileTree`, for every size and whatever names are stored as, proved |
| `SacData` | `action_write`: blocks found, chunks written, the node saved, with the server killed between any two writes |
| `SacDataProperties`, `MCSacData` | what is checked of it, and a small disk (two `.cfg` files) |
| `SacDataProofs` | no block has two owners, lists fit sizes, what a write may reach and what it has left, proved |
| `SacLink` | the FUSE client's threads, the socket they share, the server's loop |
| `SacLinkProperties`, `MCSacLink` | what is checked of it, and two threads |
| `SacLinkProofs` | the connection drains and a lone call gets its own answer, proved |
| `MuseFrames` | MUSE's table of frames, `setAFrame` and the modified clock |
| `MuseProperties`, `MCMuse` | what is checked of it, and a memory of four frames |
| `MuseProofs` | the clock's choice and how it gets to every frame, for every number of frames, proved |
| `IntervalLemmas` | the least and the greatest number of a set, which every search returns; induction up to a number; functions applied many times over; proved, used by three proof modules |

### SUSE: state and actions against the code

*Mutexes.* A critical section of `state_list_mutex` that does not sleep is one
action which requires `listMutex = None`. `move_tcb_to` sleeps in
`sem_wait(&available_multiprog)` with that mutex held, so it is two actions:
`MoveBegin` (the lists, `program->exec`, `tcb_counter`, the old slot given back)
and `MoveEnd` (the slot taken, `tcb->state` set, the mutex freed). Between them
`listMutex` names the sleeper. `semMutex[s]` is a semaphore's mutex, kept by
`block` and `wakeup` while they move or notify. `WakeupMutexHeld` is
`wakeup_mutex`, kept while the wake-ups taken from the list are moved.
`ClientesHeld` is `clientes_mutex` in the one place where it is kept for long:
`main`'s joins.

*A short-term scheduler* (`pc[p]`) is in `recv` when it waits for a request. A
handler that moves threads puts the calls of `move_tcb_to` it will make in
`todo[p]` and goes on at the place named by `pc[p]` when they are done; each
call of `todo` is a `StMoveBegin` and, unless it goes to EXIT, a `StMoveEnd`. So
everything a handler reads before it releases the mutex may be stale when the
move happens, as in the code. After every request come `wakeup_threads`
(`StWakeupThreads`) and the test of the loop (`StLoopTest`).

*The long-term scheduler* (`lpc`): `LtsTake` (wait for `new_counter`, read the
head of `newList`), `LtsCheckWait` and `LtsCheckPost` (`check_multiprog`),
`LtsMoveBegin` and `LtsMoveEnd`, `LtsSignalMain` when the thread is a main.

*The client* is the stub: one request at a time, of the six operations that
hilolay has. Which one, and in the name of which thread, is chosen when it is
received; a client may send any, and a tid it joins may be its own or one that
was never created. `cur[p]` is the thread of the last answer and `owes[p]` that
the client ought to ask again (after a wait, a join or a close it cannot know
who runs). `owes` is history and guards nothing; `cur` tells the actions only
whether the main was created. What is assumed of hilolay, which is not in
`src/`, is that a program's first request creates its main and that a tid is
created once.

*A client that does not ask* may find `program->exec` NULL, which the handlers
dereference: `StCrash`, and one case of `StJoin`. The process ends, with
everybody in it (`Alive` is a conjunct of `Next`). `ExecIsWhatTheClientRuns`
says that nobody else can cause it.

*Joins that find nobody.* `StAskJoin` takes any thread of the program. The
search of the one that joins, or of one that was never created, spins for ever
(`Hopeless`, `HopelessJoinsLast`).

*The jam.* `main` joins the schedulers with `clientes_mutex` held, and
`move_tcb_to`, `create_tcb` and `log_metrics` ask for that mutex while they hold
`state_list_mutex`. `StJam` is that wait: `jammed` names the scheduler and
`listMutex` is its own. The wait is no dead end by definition: every action
behind it is enabled again once `~ClientesHeld`. That it never is again
is `JamIsADeadlock`, checked and proved. In the code the wait may come in the
middle of the section, after a list was already changed; the model has it in
front. Nobody can tell the two apart. What the section changes is read under
`state_list_mutex`, except for three semaphores: `available_multiprog` and
`new_counter` are waited for by the long-term scheduler, which has ended before
`main` takes `clientes_mutex`, and `tcb_counter` by the program's own scheduler,
the one that is jammed. `metrics_mutex`, which `log_metrics` takes first, is left
out: whoever holds it waits only for mutexes that come after it, and nobody asks
for it with one of those held, so it adds no cycle.

*Abstractions.* A TCB is a model value owned by a program; tids, packets, logs
and times are left out, and so is a request with an unknown operation, which is
logged. SJF depends on measured times, so `StSchedule` may choose any ready
thread or keep the one that executes. `ready` is a set because its order matters
only to ties of the estimate; `newList`, the queues, `wakeupList` and `joined`
are sequences. `program->close` is never initialised in the code: `Accept` takes
both values.

*Bounds.* The constants bound the programs, threads and semaphores. Two guards
bound the behaviours: a thread is created once (`state[t] = "none"`) and a
program connects once (`pc[p] = "none"`). Everything else a client sends is
unbounded.

### SAC: state and actions against the code

*The disk* is `bitmap` (the blocks whose bit is set), `node` (the blocks of the
node table as `GFile`: state, name, parent, and the last number written to its
list of children) and `spoilt` (blocks outside the table that a node was
written to). `reformatted` is a history variable: a table with nodes in it was
formatted. Blocks are numbered as on a disk of 128 MiB, whose bitmap fills
one block. It is the only size for which `find_node`'s `2 + i`, the formatting's
block 2 and the computed `node_table_start` agree and the bitmap stays off the
node table (`DiskIsModelled`, proved). A disk starts
as zeros or as the random bytes the server's README makes it from.

*Requests* are handled one at a time (`server.c` reads, answers, reads again).
One that is refused writes nothing and is no step. `mknod` and `mkdir` are the
same body with another state: `Create` (the search, the free block, its bit on
the disk), `WriteNode`, `WriteDirectory`. `format_disk` is `Start` and three
writes. `Kill` may come between any two; the disk stays, the table of open
files goes.

*Undefined behaviour.* `mknod` and `mkdir` give `fseek` the address of a node
instead of the stream. `WriteDirectory` takes the outcomes a build can show:
the server dies, or the stream stays behind the node it wrote, so that the next
block is read as the directory and written one further; a block that was never
a node may also read as a full list, and the request ends there. `opendir`'s
entry has any `node_block`. `readdir` compares a number with `strcmp(_, NULL)`:
the server dies.

*Names* are copied without their terminator into a structure of the stack
(`memcpy` of `strlen` bytes in `mknod`, `mkdir` and for the root). What was
there before stays behind them, so the name on the disk may be the one that was
asked for, a longer one that a path has (`Longer`, the pairs of a name and one
that begins with it), or one that no path has (`Stray`). `copies` is that set,
and every creation and every formatting chooses from it. A file stored under
`Stray` is not found by the path it was made with; a root stored so is not
recognised, and the next start formats the disk and clears the bits of the nodes
that are still on it.

*Bounds.* `NodeCount` stands for 1024. `MaxOpen` stops new entries in the table
of open files, which never shrinks; nothing else is capped, the table of nodes
fills up. The table of open files is a set: its order and the fds, 16 bits wide,
are left out, because which entry a request finds is decided by them alone.
Requests for `/` alone are left out (`mknod` and `mkdir` would read in front of
their array; the others answer from a constant, `readdir` ends like any
`readdir`).

### SAC: data blocks

`SacData` is `action_write` over a disk whose files `mknod` already made (a
request of `SacNodes` does not change data blocks, and the two share only the
bitmap, each its own part of it: nodes in one, data blocks in the other). `req`
holds the locals. `Write` is the part in front of the first write to the disk;
then one action for each write: `AddBlock` (the search and its bit),
`WriteChunk` (one turn of the loop), `SaveNode`. Cells stand for bytes, a block
has three of them. What a cell holds is not kept, only the file that wrote to
the block last (`writer`).

The size in a request and the length of its text are independent: the client
sends `strlen` of a buffer and a separate size. A text is shorter than a block,
because a request is at most 3000 bytes and a block 4096. The copy of the text
is as long as its terminator allows: `lengths` takes every length that what
lies behind the copied bytes on the heap can give.

The loop that adds blocks writes each to the same place, so a write that needs
two blocks keeps one. The loop that writes moves on in the text but not on the
disk, and ends on zero only: a size that does not end where a block ends makes
it run with a negative length, and the server dies (`Crash`) after the bit and
the text were written and before the node was. A block number from the list's
end is its zero, the header. One from behind it was never written: `mknod` left
there what its stack held, so `Stray` has every block of the disk and the
numbers no seek can go to. The text is written there, over another file's data
if it is so, and `astray` remembers it. Only text over the bitmap or the nodes
stops the model (`pc = "wrecked"`): from there on those are letters.

### SAC: the connection

`SacLink` keeps the two directions of the stream as sequences of pieces. A
message that fits the reader's buffer is one piece, a longer one two; a `read`
takes any number of pieces up to the one that fills its buffer, and only the
first string in it is used. The buffer may also be full inside a message that
follows the first: its rest is then what the next `read` begins with
(`cut_request`, `cut_answer`; `rests` has the texts that the rest of an answer
can be). `Send` and `Receive` are the halves of each of the
six operations, which any thread of FUSE may run at the same time. `Serve` is
one turn of the server's loop: the first string is answered with any answer the
operation has. `results` is what FUSE is told for an answer; a read returns its
buffer's address for a text, which as an `int` may be negative, an error, or
not, a success. The server may end at any time; the client never connects again,
and a `read` that fails leaves the empty buffer it made.

### MUSE: frames

`MuseFrames` has the functions on the table of frames as actions that are called
in any order, because their callers in `segments.c` cannot run (section 5). A
round of the clock is the set of turns after which it meets the bits it looks
for; `stop` moves the hand behind the least. `last` is a history variable: what
the last step did to which frame.

## 3. The runs

| Run | Instance | What it shows |
|---|---|---|
| `suse_full` | programs A (3 threads) and B (1), three slots, one semaphore (initial 0, maximum 1), B's client may disconnect; any client may go on without asking | the lists, counters, queues and wakers; no stale move, no lost creation; only a client that did not ask ends the server; the server implements `ThreadLifecycle` |
| `suse_crowded` | the same programs, two slots, two semaphores (initial 0 and 1), B may disconnect | every slot is accounted for when the server is full; who can be caught in `move_tcb_to`, and that it is final |
| `suse_roomy` | A (2 threads), B (1), a slot each, one semaphore | the long-term scheduler never hangs; admission, answers, and which join searches end |
| `suse_shutdown` | two mains, two slots, `salir` at any moment, B may disconnect | the shutdown reaches the joins; a scheduler that needs `clientes_mutex` during them, and `main`, never go on |
| `sac_nodes` | a table of 4 blocks that fills up; files `d`, `dx` and `d/dx`, of which `dx` is `d` with a stray byte | the search is sound and finds the only file of a stored name, nothing is written outside the table while two blocks are left, the root is lost in two ways only, the files are a `FileTree` until the disk is lost |
| `sac_open` | a table of 3 blocks that fills up; the same files; 2 entries in the table of open files | a node's block has its bit at every write of every request until a table with nodes is formatted, and until then what was opened stays a regular file |
| `sac_search`, `sac_directory` | small disks | one comment each that the code does not follow (below) |
| `sac_data` | two files, three data blocks of three cells, offsets 0, 2 and 6, sizes 1, 3 and 7, texts of 1 and 2 | over writes, kills and restarts no block has two files; a file has at most the blocks its size fills; text goes astray only after a block was lost; a write that fits its block, to a number of its list, leaves other files' data alone; the loops end |
| `sac_needed` | one file on the same disk | a write that needs two blocks gets one |
| `sac_link` | two threads, six operations, two pieces under way when a request is sent | leftovers never outlive the calls that caused them; a call that met no other gets its own answer, tells of an error when it was refused, and ends |
| `muse_frames` | four frames | the clock's choice and that its hand comes by every frame |

Why these are enough for SUSE: the wake-up list that skips every other element needs two
threads of one program woken between two rounds (A's two workers), crossing
wake-ups need two programs, a lost slot needs a server that is full with a
thread to admit (four threads, two slots: `suse_crowded`), a thread blocked
twice over needs three threads of A and B to run freely (three slots:
`suse_full`), and a join needs a second thread. The two safety runs share the
bounds between them because three slots and two semaphores together do not end
in minutes.
The semaphore of maximum 1 meets the signal at the maximum. `suse_full` and
`suse_crowded` are checked up to the exchange of A's two workers
(`WorkersAlike`), which no definition and no property tells apart; the runs with
liveness have no symmetry.

For SAC: `find_node` takes two nodes of the same last name, one of them in a
directory, and a search that fails at each level. With four blocks there are
the root, two nodes below each other and one that is the last to fit, then the
one that does not, whose entry goes over the root; with three the last two and
the one that does not fit all write outside the table. A root stored with
something behind it takes one formatting, and a kill, to be formatted over.

`sac_data`: two files are the least that can share a block; a write of 7 at 0
needs three blocks, at 6 it needs blocks in front of its place that were lost, so
that the next write there goes by a number that was never written; the three
data blocks fill up. `sac_link`: two threads are the least that can
meet, and a third would only read the same stream; every operation is there
because each has its own answers. The bound `MaxInFlight` stops new requests,
never answers. `muse_frames`: with four frames each of the four rounds can stop
at, before and behind the hand.

CHECK_DEADLOCK is off in SUSE's four: a server whose clients are all blocked or
gone stops, and so does one that ended, or that a client's request killed. It is off in `sac_data` and
`sac_needed` (a wrecked disk) and in `sac_link` (a client that was killed, or
two threads that wait for an answer that was lost).

*Fairness* (`FairSpec`): strong for the long-term scheduler and for each
short-term scheduler, weak for `main` and the listener. The kernel runs every
thread; strong, because these threads wait for mutexes and semaphores that
others take again and again (a join's search spins on `state_list_mutex`), so a
step of theirs is not enabled continuously. It stands for locks that starve
nobody; with weak fairness a spinning join keeps the mutex from the long-term
scheduler. The clients (`Request`, `Accept`) and the operator (`Quit`) are not
fair: they owe nothing. The fair actions are those of a server that runs
(`Alive /\ ...`), and a liveness property ends in `\/ ~Alive`: a client may end
the server before anything is answered. SAC's server is weakly fair (one process that runs), and so is each thread of
the client that waits in `read`: what comes in reaches it in the end. Nobody has
to call or to be killed. MUSE states no fairness: `NoFrameIsOverlooked` is about
behaviours in which the clock goes on choosing.

SUSE's two liveness runs check that a thread that was
created is admitted, that a client that asks is answered once a thread of its
can run, that join's search ends unless it is hopeless, that a hopeless one does
not, and that `salir` reaches the joins.

### What the runs show of the code's weak points

* `check_multiprog` looks at the degree without the mutex. It may take the slot
  that a thread leaves for an instant between two states; then the long-term
  scheduler goes on to `move_tcb_to` although every slot is held, and sleeps
  there with `state_list_mutex`. `OnlyLtsCanHang` says that nobody else can be
  caught that way, `HangIsForever` that nothing gets the server out of it, and
  `LtsNeverHangs` (run `suse_roomy`) that it takes more threads than slots.
* `join_threads` holds `clientes_mutex` while it waits for schedulers that may
  need it: `JamIsADeadlock`.
* A thread that joins itself, or a tid that was never created, makes its
  scheduler spin for ever, taking and releasing `state_list_mutex`:
  `HopelessJoinsLast`, the second half of `JoinSearchEnds`.
* A wait, a signal, a close or a join from a client that did not ask who runs
  may end the server: `ExecIsWhatTheClientRuns` has no more than the other
  direction, that a client which did ask does not.

No document of the repository says otherwise of SUSE, so these are recorded as
hazards and not as divergences. For SAC, comments in `sac_servidor.c` do:

* `sac_search`: "voy buscando uno por uno" (1026). `flag_discarded` is not
  reset, so after one match is discarded no other is looked at.
* `sac_directory`: "guardo el nodo del directorio donde estaba" (476). The
  `fseek` is on something else; the directory never gets the entry.
* `sac_needed`: "le voy a agregar la cantidad de bloques que le hagan falta al
  archivo" (724). All but the last block are lost, in the bitmap too.

`find_free_block` returns -1 where its comment says 0 (1158 and 1176), and no
caller looks at either: `sac_nodes`, `sac_open` and `sac_data` model what
follows. A name with a stray byte behind it is another name: its file is not
found by the path it was made with, and a root stored so makes the next start
format a disk with files on it (`RootIsLostInTwoWays`). From there on, and from
a node over the header on, the disk is `Lost` to `UniqueNamesAreFound` and
`FilesSpec`, which promise nothing any more: the bits of live nodes are cleared
and new nodes go over them. An entry of `opendir` may make a file that nobody
opened pass for open. A write whose block was lost goes by a number from
`mknod`'s stack and may change another file's data.

In `sac_link`, what is left out of the properties is what the code does not
promise: operations that meet may take each other's answers, or lose them and
wait for ever; a dead server is told as success by every operation but
`getattr`; a refused write too, which is why `ToldTheTruthWhenAlone` leaves
writes out. A read that was given a text may be told as an error; the property
says that nothing else is, without a refusal.

## 4. The proofs

Assumptions, all evaluated by TLC in the runs of their module:
`TcbAssumption` and `SchedulerAssumption` (finitely many threads, each with an
owner; every program's main is its own; a semaphore's maximum is positive, as in
`suse.ini`); `SacAssumption` (a table of at least one node; finitely many paths,
one at least, none empty; the names that stand for no name are none of theirs;
`Longer` is a set of pairs of names); `SacDataAssumption` (blocks of two cells or more, a text shorter than a
block); `SacLinkAssumption` (finitely many workers, messages of one piece or
two); `MuseAssumption` (a frame at least). A theorem that needs more says so in
its `ASSUME`.

*SUSE*

* `TypesHold`, `SemQueuesHold` (`SuseProofs`): `TypeOK` and `SemQueueMatches`.
  The inductive invariant `TypeInv` joins them, because each needs the other: a
  signal that wakes takes the head of the semaphore's queue without a test, and
  it is a thread only if the queue is as long as the negative value says.
  `ArgIsKept` and `CurrentIsKept` say that a handler or the long-term scheduler
  that kept a thread over an unlock has one.
* `SlotsHold`, `DegreeIsBounded` (`SuseProofs`): the slots. `MoverIsKnown`
  is the strengthening: who holds `state_list_mutex` asleep is either the
  long-term scheduler, and it is then at `moving`, or a short-term scheduler
  with a call to an active state at the head of `todo`. With it every step is
  `Quiet` for the slots, or starts a move, or ends one.
* `HangLasts`, `JamLasts` (`SuseProofs`): the two dead ends, from the same
  invariant. For the jam, `MoverIsKnown` adds that who is jammed holds
  `state_list_mutex`, has a call, a creation or a log to make (so it has not
  ended, and `main` cannot leave its joins), and that `main` is in them (so
  `clientes_mutex` is not free, and the scheduler cannot go on).
* `CreationsHold` (`SuseCreationProofs`): `NoLostCreation`. Counting posts
  (`PostsMatch`) is not enough: a thread moved twice out of NEW would leave the
  line without its post. `Known` excludes it: whatever a scheduler keeps (a
  ready list, a queue, a call to make, an argument) is a thread that was
  admitted, and `AdmittedStay` says that such a thread is never NEW again.
  `NewListKnown` adds that the line has no thread twice and that the long-term
  scheduler moves its head.
* `WakersCorrect` (`SuseWakerProofs`): the inductive invariant `WakerInv`, on
  top of the two before. `BlockedHasOneWaker` alone is far from inductive: a
  handler decides under the mutex which threads it will move and moves them
  later, one by one, while other programs signal, block and exit.
  `ThreadsWait` therefore speaks of a thread from the moment a call to block it
  is in `todo`, and says that nobody takes it from a semaphore's queue before
  it is on `blockedList`, because its own scheduler keeps the semaphore's mutex
  until then. It needs `AllCallsKnown` (every call still to be made is legal
  now, no thread is moved twice, a close wakes exactly those that joined),
  `ListsMatchPlace` (the lists also while a thread moves), `OwnThreads` (a
  scheduler keeps threads of its program only, so no other one moves them),
  `ClientKnown` (what the client may believe at each place of its scheduler) and
  `QueuesDistinct`. A step of one program leaves those of the others alone
  (`Bystander`), and each action has a lemma.
* From it: `BlockedHold`, `MovesHold`, `ExecsHold`, `ListsHold`, `HangsHold`
  and `RoomIsEnough`, whose hypothesis is a slot for every thread;
  `CountersHold` by an induction of its own over the moves; and
  `LifecycleHolds`, the refinement: the executing thread of a program is unique
  because `program->exec` is one variable that agrees with the states, and a
  thread is admitted below the degree because its slot was taken first, and
  `AnswersNameWhoExecutes`: `notify_program` reads `program->exec` without a test,
  and what it names is a thread of the program that executes. `ExecsHold` is
  about a client that asked; `WakerInv` itself needs no such client.

*SAC's nodes* (`SacNodesProofs`), for every table, every set of paths and every
request, with the server killed between any two writes. The inductive invariant
is `NodesInv`. Its heart is `TakenInOrder`: `find_free_block` takes the table
from its start and nothing is given back, so the block behind a new node is
free or outside the table. That block is what the code reads as the directory
and copies one further; without the order it might be a file's, and the copy a
second file that no bit protects.

* `BitsHold`, `RootHolds`: `NodesHaveBits` and `RootIsLostInTwoWays`.
  `WrittenIsKnown` says what the bits rest on, until a table with nodes is
  formatted over: the nodes are in the bitmap, and the next one goes over none of
  them. `RootIsStored`: a server that takes requests has stored its root, under
  some name, or has lost its header first.
* `TableHolds`: `OnlyTheTableIsWritten`, while two blocks of the table are left
  (`TableFills`); the two are needed, `sac_open` goes through what one or none
  does.
* `OpenedHold`: `OpenedStayFiles`, from `WrittenIsKnown`: neither a new node nor
  the entry that goes two blocks further ever meets an opened file's node.
* `NodeTypesHold`: the types, with the fact that both searches answer with a
  block of the table, 0 or -1.
* `SearchHolds` (`SearchIsSound`): what the path search finds has the path that
  was asked for, whatever the disk holds, cycles and names with stray bytes included.
  The search (`ancestors`) goes up from a block as often as the path has names;
  a file's path (`path_below`) is spelt the same way. Both are recursive
  functions, so each first has to be shown to exist: `IterationExists` applies a
  function n times over, by `UpTo`, an induction over a set of numbers that
  follows from its least missing element. `PathIsSpelt` joins the two: a path of
  bounded length is a block's exactly when going up from it meets the path's
  names, last to first, and ends at the top. Beyond the bound `path_of` stops
  short, and says so (`ShortPathsAreWhole`).
* `UniqueNamesHold` and `FilesGrow` (the refinement of `FileTree`). The inductive
  invariant is `FilesInv`, on top of `NodesInv`: until the disk is `Lost` every
  written node `Fits`, that is, its parent is a written directory whose path is
  shorter than the longest asked for. With it a step that writes no node changes
  no path (`NodesStay`, `TreeStays`: a path depends on written nodes only), and
  one that writes a node adds its path, under the name that was stored, and
  leaves the others (`NodeIsAdded`). The exception is needed: in a full table the
  next node goes over the header, the next start formats, and a directory may
  come to be its own ancestor; a root under another name is formatted over too.
  No size of the table and no name is assumed away.

* `LayoutFits` and `DiskIsModelled`: where `format_disk` places its areas on a
  disk of any size, and for which sizes that is the disk of this module. They are
  arithmetic, about no step of a run.

*SAC's data blocks* (`SacDataProofs`), for every disk, set of files, request and
length of the copy: `OwnersHold` (no block in two files), `ListsFit`,
`StraysAfterLossOnly`, `OthersAreSafe`, `DataTypesHold`. `BlocksHaveOneOwner`
alone is not inductive: a block is found and its bit set on the disk before the
node that lists it is saved. `WriteIsKnown` bridges the two: the locals of a
write are its file's list with at most one fresh block behind it, one that
nobody lists and that is not free. `FullWhenNoBlock` (only a full disk puts -1
in a list) and `LeftIsKnown` (what is left of the text always has some room in
the chunk) carry the other three. `OthersAreSafe` is about numbers from the
list and its zero; `StraysAfterLossOnly` says when a write goes by another.

*SAC's connection* (`SacLinkProofs`), for every set of workers: `DrainHolds`
(`LinkDrains`) by the pieces each step adds and each `read` takes, one at least;
it needs `NothingSentToTheDead`, since a server that ended takes its
leftovers with it. `OwnAnswersHold`: while no two calls have met and no answer
was longer than its reader's buffer, whatever travels belongs to the only
worker that waits (`QuietOwns`), so its answer is its own. `TruthHolds`
(`ToldTheTruthWhenAlone`) adds that what travels for a worker is a request of,
or an answer to, the operation it is in (`QuietFits`), and that SAC's client takes
each answer of every operation but `write` for what it says, save a read's text
(`ResultsAreTrue`).

*MUSE* (`MuseProofs`), for every number of frames: `VictimsHold`, that the
frame the four rounds stop at is the least of its class behind the hand and
that no frame has a better class. The cases are the first round that finds
something (`ClockFindsItsVictim`); the fourth cannot fail, because the second
cleared every bit it looked at. `FramesTypesHold`: the hand and the victim are
frames. The least element of a set is proved to exist in `IntervalLemmas` by
well-founded inclusion.

Only model-checked: liveness (`EveryThreadIsAdmitted`, `SchedulingIsAnswered`,
`JoinSearchEnds`, `ShutdownReachesTheJoins`, `WriteEnds`, `LoneCallEnds`,
`NoFrameIsOverlooked`), since the proof system reasons neither about fairness nor
about `ENABLED`. Every invariant, every action property and both refinements of
the passing runs are theorems, under the hypotheses given above. Of the liveness
properties the part that is about single steps is proved too:

* `WorkIsNoticed` (`SuseWakerProofs`): who sleeps on `tcb_counter` or
  `new_counter` with work to do has a post to come. It follows from the counters
  (`CounterMatches`, `NoLostCreation`); with the fairness of the kernel it is why
  `SchedulingIsAnswered` and `EveryThreadIsAdmitted` hold.
* `JoinsAreFound` (`SuseWakerProofs`): `suse_join`'s search fails exactly when
  the thread is NEW, executes (it is the one that joins) or was never created. It
  follows from `ListsMatchPlace`. With `EveryThreadIsAdmitted` it is why
  `JoinSearchEnds` holds.
* `HopelessJoins` (`SuseWakerProofs`): the last two searches go on for ever,
  `HopelessJoinsLast`, the second conjunct of `JoinSearchEnds`. While a scheduler
  searches, the only moves it makes are wake-ups, so who executes stays
  (`SearchKeepsExec`), and nobody else creates or moves a thread of its program
  that executes.
* `WritesGetOn` (`SacDataProofs`): the variant of `WriteEnds`, the blocks still
  needed and the cells left to write. It needs `LeftIsKnown`: a chunk is never
  empty while something is left.
* `LoneCallsCanEnd` (`SacLinkProofs`): while no two operations met, the only one
  that waits has a request or an answer on its way, or its read returns. Unlike
  `OwnAnswersHold` it also speaks of long messages: what they leave over is then
  what the next operation reads.
* `HandReachesAll` (`MuseProofs`): the variant of `NoFrameIsOverlooked`. In
  lexicographic order: the other frames whose `modif` is 0 (it is never reset, so
  they only get fewer), the `used` bit of the frame, and the turns the hand has to
  it. A victim that was modified is found behind frames that were passed, so a
  frame that is not chosen lost its bit or is nearer. `FrameCount` choices, two
  values of the bit and `FrameCount` turns bound how often it can happen.

## 5. Not modelled

* SAC, `action_read` and `getattr`: they change neither the disk nor the table
  of open files. `action_read` copies the file's block numbers with the
  `strlen` of an array of numbers, so the blocks it reads after the first are
  what its stack held; a model of it would have no promise to check.
* SAC, the letters of a request: separators, spaces and quotes in a path or a
  text, error texts such as `EBADF`. `opendir` and `readdir` are in the client
  but not registered with FUSE. A second client: the server accepts one after
  the other and only one ever exists here.
* SAC, disks of a size other than 128 MiB and less than eight blocks more
  (`DiskIsModelled`): below, the node table starts on the bitmap; above, the
  bitmap's last bytes lie in the root's node, or the table is not where
  `find_node`'s constants have it. Descriptors that `close()` on a stream leaves
  open.
* SAC, the order of the table of open files and its fds of 16 bits: the table is
  never bounded, and what goes wrong at the 65536th entry is out of reach.
* `sac_write` compares its buffer, not the answer, to decide what to return;
  `SacLink` takes what follows from it (a refused write is told as success).
* SUSE's metrics thread (it reads and logs; `log_metrics` is modelled where
  `suse_close` calls it) and the measured times; configuration
  parsing; memory that is freed after the joins; the text of a thread id in
  hilolay's packets, four bytes of which travel.
* Reuse of a socket's number in SUSE: after a disconnection the program stays
  in `clientes`, and a new client with the same number is not served.
* The sockets library: packs and unpacks, keeps no state. The stream it leaves
  is modelled where its pieces matter (`SacLink`).
* MUSE behind its frames: `segments.c` does not compile as it stands (a call
  without its argument at line 243; from 556 to its end at 675 it is a comment),
  `setAFrame`
  answers -1 for the free frame it took and its callers index with it,
  `lastHeap` is dereferenced when it is NULL and `swapPage` is empty, so
  nothing behind `createSegment`'s first page can run. The request handlers and
  libMUSE are stubs that change no state.
* Vendored code, the fuse example, the deployment scripts.

## 6. What is left

1. SUSE's shutdown in full: `destroy_lists`, a NEW thread left behind, socket
   numbers used again, the metrics thread among the mutexes.
2. MUSE's segments, once the file compiles.
