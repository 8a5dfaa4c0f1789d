# A TLA+ verification of the AESD character driver and socket server

The repository holds two programs that are meant to run together: a Linux
character driver, `/dev/aesdchar`, that keeps the ten newest newline-terminated
commands written to it (`aesd-char-driver/`), and `aesdsocket`, a TCP server
that appends the packet of every client to one output and sends the whole
output back (`server/`).  Around them are small course exercises
(`finder-app/`, `examples/`).  This directory models the two programs and the
exercises written in C, checks them with TLC and proves their safety properties
for all sizes with TLAPS.

Paths below are relative to `src/`.

## Inventory

| Component | State | Operations | Talks to |
|---|---|---|---|
| circular buffer, `aesd-char-driver/aesd-circular-buffer.{h,c}` | slots, `in_offs`, `out_offs`, `full` | init, add_entry, find_entry_offset_for_fpos | called by the driver, unlocked |
| character driver, `aesd-char-driver/main.c` | the buffer, the unfinished command `entry`, two mutexes, heap blocks, a position per open file | load, unload, open, release, read, write | user processes; the kernel's allocator, user copies and interruptible locks |
| server main thread, `server/src/aesd_server.c` | `running`, listening socket, worker list, timer id | init, bind, listen, accept, check_workers, shutdown | starts and joins workers, interrupted by signals |
| worker threads, `server/src/aesd_worker.c` | `shutdown`, `exited`, connection, data file and its mutex | receive_data, send_response, close_client | clients, main thread (flags), the timer's handler (mutex) |
| signal handlers and timer, `aesd_server.c`, `aesdsocket.c` | pending expirations | SIGINT/SIGTERM handler, alarm_handler | run on top of whatever thread the kernel picks |
| worker list, `server/include/aesdsocket/queue.h` | SLIST links | INSERT_HEAD, REMOVE, FOREACH_SAFE | main thread only |
| entry and daemon mode, `server/src/aesdsocket.c` | none of its own | fork, setsid, dup2, register handlers | runs before any thread |
| writer, `finder-app/writer.c` | position in the string, exit status | check arguments, create, write, close | the file system |
| threading, `examples/threading/` | a shared mutex, a `thread_data` per thread | start_thread_obtaining_mutex, the thread's function | the caller, which joins |
| system calls, `examples/systemcalls/` | children, an output descriptor | do_system, do_exec, do_exec_redirect | child processes |
| scripts, build, CI | files | shell | not modelled |

What is hard in this code: two nested locks with interruptible waits and four
exits in `aesd_write`; heap blocks whose ownership moves from `kbuf` to
`dev->entry` to a slot and back to the writer that drops it; a mutex that is
held across blocking `recv` and `send` and is also taken inside a signal
handler; worker structures that are freed by one thread and used by another; a
shutdown that races with signals, timer expirations and silent clients.  The
list with lines is under `hazards` in `PROJECT.json`.

What makes each component correct:

* buffer: the two offsets and the flag say exactly which slots are in use, the
  slots are the newest entries in order, the dropped pointer is the oldest one,
  and the search finds exactly the byte it was asked for;
* driver: one owner per heap block, no access to freed memory, calls that look
  atomic to the processes, calls that return;
* server: the mutex is held exactly while the file is open, packets and
  timestamps are whole, a worker is joined before it is freed and freed once, no
  pointer of the worker list leads to a freed entry, a response is all the output
  returns at one moment, clients are answered, a shutdown ends and leaves no
  worker and no connection behind;
* exercises: the exit status of the writer, the flag of a thread and the result
  of a call tell what really happened, and the programs end.

## Modules

| Module | Models | Role |
|---|---|---|
| `CircularBuffer` | the C functions as operators on the struct | used by the next two and by the driver |
| `CircularBufferSpec` | a caller that adds entries in every order | checked, proved |
| `RecentEntries` | a list of the newest entries | abstract specification of the ring |
| `NatFacts` | | induction on and recursion over the naturals, as lemmas about sets and functions; sums over finite sets |
| `RingFacts` | | lemmas on the operators of `CircularBuffer`, for any kind of entry |
| `CircularBufferProofs` | | theorems on the ring and its search |
| `CharDriver` | `main.c` of the driver, composed with `CircularBuffer` | checked, proved |
| `CharDriverProofs` | | theorems on the locks, the memory and the types of the driver |
| `AesdDevice` | a device with atomic reads and writes | abstract specification of the driver |
| `AesdDeviceProofs` | | the theorem that the driver implements `AesdDevice` |
| `WorkerList` | the SLIST macros as operators on head and next pointers | used by `AesdServer` |
| `OutputStore` | what a plain file or `/dev/aesdchar` keeps and returns of the pieces written to it | used by the next two |
| `AesdServer` | the server process, its clients and the kernel | checked, proved |
| `PacketLog` | a log of whole packets, on a file or on a device | abstract specification of the output |
| `AesdServerProofs` | | lemmas on the SLIST macros; theorems on the mutex, the workers' memory, the worker list, the shutdown, the packets in the output and the types |
| `AesdLogProofs` | | the theorem that the server implements `PacketLog` |
| `Writer`, `Threading`, `SystemCalls` | the exercises | used by the next one |
| `Exercises` | the three exercises side by side; a behaviour runs one of them | checked, proved |
| `ExercisesProofs` | | theorems on the exercises |
| `MCCircularBuffer`, `MCCharDriver`, `MCAesdServer`, `MCExamples` | | the instances TLC checks |

### CircularBuffer

`AddEntry` is the buffer `aesd_circular_buffer_add_entry` leaves behind and
`Overwritten` the pointer it returns.  `SearchOffset(b)[k]` is the variable
`search_offset` after the loop has visited `k` slots; `FindEntry` stops at the
first slot that ends beyond the offset asked for.  The offsets are `uint8_t`:
with at most 256 slots (`SlotsAssumption`) their increments are taken modulo the
number of slots before they can overflow.  The sums of sizes are `size_t` and
are not given a width: every size is that of a block the kernel has allocated.

### CharDriver

One action per stretch of `aesd_read` and `aesd_write` that no other process can
get into: taking `entry_lock`, the allocation (with the copy and free of the
previous block), `copy_from_user`, taking `buf_lock`, the push, the unlock; and
for a read taking `buf_lock`, the search that fixes what is copied, and
`copy_to_user`, which may sleep.
`heap` maps addresses to the bytes in them, or `NULL` when they are not
allocated.  Reading or freeing an unallocated block, or the byte in front of a
block, is undefined behaviour in C: the action then sets `undefined` to whose
memory it was, and nothing is said about what follows (every action requires
that it is still `"no"`).  `DefinedBehaviour` says which of these never happen:
no block of the ring is used after it was freed, and the byte in front of a
block is read only by a write of no bytes with no unfinished command (which gets
`ZERO_SIZE_PTR`, `main.c:157`).  The third cause, the freed block of the
unfinished command, is what `dangling_entry` leads to.

The failures are named in `Faults`, so that a run can say which of them it
allows.  An interruptible lock fails only when it has to wait; `kzalloc` may
fail at any size; a user copy fails as a whole (`copy_to_user` and
`copy_from_user` return the number of bytes left and the code treats every
non-zero value alike).  `aesd_cleanup_module` needs all files closed, as the
module's reference count does.  `leaked` records blocks that nothing points to
after an unload.

### AesdServer

A client and its worker have the same name.  A packet is what the worker's
`recv` calls return, one `Segments` value per call; a file is a sequence of
pieces `<<owner, kind>>`.  The kinds keep what matters of the bytes: a full
buffer, a buffer padded with zeroes because the segment was short, a buffer of
zeroes only (end of the stream), and a piece that ends in the newline.  Trailing
repetitions of zeroes are merged, so that the loop of a closed client stays
finite.

The main thread (`main`), every worker (`wpc[c]`) and the handlers (`alarm`)
interleave at every point where the code blocks, takes or releases the mutex, or
reads or writes a flag of another thread.  A handler runs on top of a thread,
which stands still until it returns.  Linux gives a process-directed signal to
the main thread if that does not block it, and otherwise to another thread:
SIGINT and SIGTERM always run on the main thread, and SIGALRM does unless the
main thread is inside `alarm_handler`.  `accept()` returns on any signal, since
no handler is installed with `SA_RESTART`.  A worker whose `recv` or `send` were
interrupted by `alarm_handler` holds the mutex the handler waits for, so that
call never returns.

`conn[c]` is the connection as the two kernels see it: open, closed by the
client (`recv` returns 0; the first `send` is answered with a reset and makes it
`"broken"`, the next one raises SIGPIPE), reset by the client (calls fail, also
one that is blocked), done.  `unread[c]` counts the pieces that were sent to the
client and that it has not read: at `SendBuf` of them the kernel's buffers are
full and `send` blocks, with the mutex held, until the client reads or leaves.
A client that closes with something unread resets the connection.
`Failures` names what may go wrong.  `"space"` is a `write` that takes fewer
bytes than asked for: the code does not look at the count, so the piece is
`"cut"` and the loop goes on.

`unlinked` records that the `unlink` at the end of `srv_shutdown` left no file
behind; it may fail, which is reported and nothing else.

`char_dev` is the build switch `USE_AESD_CHAR_DEVICE`, taken from `Builds`: with
the device there is no timer, and the output is not unlinked.  `OutputStore`
says what becomes of the pieces, as `AesdDevice` and the driver do: the device
keeps the `Capacity` newest commands, and what a failed worker wrote stays in
front of the next packet.  Both the server and `PacketLog` use it, so that the
refinement is about the threads and not about the device.

The list of workers is a record of pointers, changed by the macros of
`WorkerList`; an entry that was removed keeps its next pointer, as in C.
`Listed` is the least set that the head and the next pointers in it lead into,
which is what following the pointers from the head comes by.  `check_workers` and `srv_shutdown`
walk it with `subject` (`entry`) and `entry_temp`, and the join is a step of its
own because it blocks.

`main` starts at `"boot"`: fork, `daemonize`, `openlog` and `sigaction`.  A signal
then has its default effect (`signal_default`).  Afterwards `signal_handler` runs
on the main thread, and where that is inside `syslog` (`Logging`) it may find the
lock of the C library taken by its own thread and wait for ever; `hung` says
whether it is on top of the main thread's own code or of `alarm_handler`, which
then does not return either.  A
failed allocation or `pthread_create` after `accept` dereferences a null
pointer; the process is then `"killed"`.

### Writer, Threading, SystemCalls

Each of these has one action per system call, with its failures always allowed.
`Writer` keeps the characters of the string, because the property is about which
of them are in the file.  `Threading` has one action per operand of the `&&`
chain in `threadfunc`: a failure skips the rest of the chain, the unlock
included.  `try_lock` waits until the mutex is free; that `pthread_mutex_lock`
returns an error instead is an action of its own, `try_lock_fails`.  `SystemCalls` has a process that calls the three functions one after
the other; call `n` has child `n`, and `wait()` reaps any child that has ended,
as in C.

## Runs

Passing runs:

| Run | Instance | Shows |
|---|---|---|
| `ring` | 3 slots, 3 pointers, sizes 1 and 3 | offsets agree, ring refines the list, search equals indexing into the concatenation |
| `driver` | 2 processes, 2 slots, commands of up to 2 bytes, empty writes, unloads, failed user copies (that of an append included) and interrupted pushes | one owner per block, no use of freed commands, refinement of `AesdDevice` |
| `driver_live` | 2 processes, 1 slot, writes of a newline (an interrupted one leaves it in `entry`), interrupted locks and failed allocations as well | every call returns, refinement of `AesdDevice` |
| `server` | both builds, 2 clients (a packet of two segments and one of one), resets, one signal, one expiration, a device of one command | mutex, list pointers and worker accounting, contiguous packets, clean shutdown, refinement of `PacketLog` |
| `server_failures` | both builds, 1 client, every failure, two signals, two expirations, so that the handler can run on a worker | mutex, clean shutdown (with an `unlink` that may fail) and the log on all error paths |
| `server_live` | both builds, 2 clients that send their packets and read the answers, one signal, two expirations | every client is answered and every shutdown ends, but for a deadlock of `alarm_handler` and a signal that hangs in `syslog` |
| `examples` | a string of 3 characters and up to 2 interruptions; 2 threads; 3 calls | exit status and results tell what happened; the writer ends, and every thread does unless a failed one kept the mutex |

Violations, each a disagreement of the code with a line of the repository (see
`findings`):

| Run | What the code does |
|---|---|
| `dangling_entry` | a copy fault in an append leaves `dev->entry` pointing to a freed block |
| `closed_client` | a client that closes before its newline keeps its worker looping with the mutex held |
| `alarm_deadlock` | `alarm_handler` waits for a mutex its own thread holds |
| `signal_race` | a termination signal before `running` is set, just before `accept()`, or during a `syslog` call does not end the server |
| `redirect` | `do_exec_redirect` returns with its output file open when `fork` fails, and true for a command that failed |

`closed_client` fails in a second way as well: with the packet `OneShort` instead of
`OneScript` TLC shows a client that closes while it is answered, whose worker ends
the whole process through SIGPIPE (`send_sigpipe`, `aesd_worker.c:107`).

Two more disagreements with comments have no run of their own:

* `aesd_server.c:192` against `aesdsocket.c:27-28` (a graceful exit deletes the data
  file): timers are numbered from 0 and glibc stores that number in the `timer_t`,
  so the first timer is taken for no timer.  It is not stopped, and an expiration
  between `unlink` and the end of the process creates the file again.  An `unlink`
  that fails is reported and the file stays, too.  `StoppedIsClean` says what can be
  left: nothing after a successful `unlink`, but for timestamps of a timer with this
  id;
* `systemcalls.c:99` against lines 50-53 (the result is that of the command): a
  child left behind by an interrupted `wait()` may be reaped by a later call, whose
  result is then that of the wrong command.  `ResultTellsCommand` is about the calls
  before that.

The models contain other behaviours that a reader of the code may not expect.
They have no run of their own and are written down here:

* `main.c:151`: a write interrupted at the second lock returns `-EINTR`, with its
  bytes kept and a finished command left unfinished (`write_buf_interrupted`;
  `AesdDevice!Interrupted` states what the device does instead);
* `main.c:157`: a write of no bytes with no unfinished command reads the byte in
  front of `ZERO_SIZE_PTR` (`undefined = "empty"`);
* `main.c:228`: unloading frees the ring and not the unfinished command
  (`leaked`);
* `aesd_worker.c:45`: the zeroes behind a short segment go into the file
  (`Piece`);
* `aesd_server.c:150`: a failed thread start dereferences a null pointer
  (`start_worker`);
* `aesd_worker.c:56`: a `write` that takes a part of the buffer loses the rest of
  it (`"cut"` pieces);
* `aesd_worker.c:24`: with the device, bytes of a worker that failed become the
  beginning of the next client's command (`PacketLog` keeps them in the log);
* `aesd_server.c:209`: the shutdown waits for a client that neither sends nor
  reads nor leaves, as long as that is so (`ShutdownCompletes` assumes
  `ClientFairness`);
* `threading.c:62`: a thread whose sleep fails while it holds the mutex ends
  without unlocking it (`ThreadsEnd` exempts what follows); `threading.c:109`: the
  `thread_data` of a thread that could not be created is not freed (`"leaked"`).

### Bounds, and why they are enough

* A ring of 3 slots has every kind of state: empty, partly filled, full, full
  and rotated by 1 and by 2.  2 slots in the driver still make the ring wrap,
  drop a block and be read while rotated; 1 slot makes every push drop one.
* 2 processes: a lock has a holder and a waiter, and the nested pair of locks
  can be held by two different processes.  Both have any number of calls: only
  the length of one command is bounded (`MaxEntry`, in the guard of `write`).
* There are as many addresses as blocks can be allocated at once, so `kzalloc`
  never fails for lack of model values (`DriverAssumption`).  `MaxLeaks` bounds
  unloads that leak.
* 2 clients: one holds the mutex and one waits, one is in the list before the
  other, one is being joined while the other runs.  A packet of two segments is
  what an append in between would tear apart.  A second expiration is what takes
  the handler to a worker.  A second signal (`server_failures`) can come during the
  shutdown of the first one.  A device of one command (`Capacity`) drops the first
  packet for the second, also before the first one was answered.
* `SendBuf` is 1: a client's second unread piece blocks the worker, and an answer
  has several (two packets and the timestamps).
* `server_live` has two expirations, since the second one is what can reach the
  owner of the mutex: it contains the deadlock of `alarm_deadlock`, and
  `ClientsServed` and `ShutdownCompletes` name it (`SelfDeadlock`) instead of
  excluding it by a bound.  To stay within minutes its packets (`TwoShort`) have one
  segment each; a worker still waits in `recv`, in `send` and in front of the mutex.
  Both properties say `[]<>` of a state instead of `~>`: the answered clients and
  the progress of a shutdown never go back, so it comes to the same, and TLC
  needs no tableau for it.
* The timer's id is `NULL` in `server` and `server_live`: Linux numbers the timers
  of a process from 0, and glibc stores that number in the `timer_t`.
  `server_failures` has both that id and another one, for which `srv_shutdown`
  does delete the timer.
* The server's runs do not check for deadlock: the process ends, and it does
  stop for good in the situation of `alarm_deadlock` or with a client that is
  silent or does not read.
  The driver's do not, because nothing follows undefined behaviour, and a module
  that was unloaded over more than `MaxLeaks` leaked blocks stays unloaded.  The
  exercises end.
* A string of 3 characters is cut in every way, into single characters too, and
  `MaxEINTR` interruptions fall between any two of the pieces.  Two threads: one
  holds the mutex and one waits.  Three calls (`MaxCalls`): an interrupted wait, a
  call that reaps the wrong child, and one that reaps what that left behind.
* Processes and addresses are symmetric and the safety runs of the driver use
  that; the runs that check liveness use no symmetry.

### Fairness

`CharDriver!FairSpec`: a process inside the driver keeps running (weak fairness
of the steps that never block) and a mutex that is released again and again
reaches each waiter (strong fairness of taking it; the kernel's mutex hands off
to its first waiter).  Nobody has to call.

`AesdServer!ServerFairness`: every thread keeps running (weak fairness of its
steps and of the handler on it).  A worker takes the mutex twice and then ends,
and expirations are bounded, so with finitely many clients no fairness of the
mutex is needed.  A step that blocks is not enabled: a worker in `recv` waits
for its client to send, one in `send` for it to read.  `ClientFairness`, that
clients send the rest of their packet and read what they are sent, is therefore
a hypothesis on the environment: without it a client that is silent or does not
read keeps both the mutex and the shutdown.  `ClientsServed` says nothing of
clients that are connected when a signal arrives, `ShutdownCompletes` allows for a
signal that hangs in `syslog`, and both for a handler that waits for the mutex of
its own thread; nothing else can keep them from holding.

`Exercises`: every thread that was started keeps running (a caller need not
start or join any), and the writer keeps running; interruptions are bounded by
`MaxEINTR`, so the kernel is assumed not to interrupt `write` for ever.  A thread
in front of a held mutex waits: that `pthread_mutex_lock` fails is possible and
never obligatory (`try_lock_fails` is not under fairness).  `ThreadsEnd` names the
one thing that makes a waiter wait for ever, a thread that ended with the mutex
and reports failure (`Abandoned`).

## Proofs

Every safety property that the passing runs check is also a theorem for all
values of the constants: all invariants, and the three refinements.  What is left
to TLC is liveness.  The inductive invariants were checked by TLC on the instances
of the runs before they were proved.

### Induction and recursion

The provers cannot instantiate an induction theorem that takes a predicate.
`NatFacts` therefore states what is needed about sets and functions: a nonempty
set of naturals has a least element (`LeastNat`), a set that contains 0 and is
closed under successors up to `n` contains `0 .. n` (`InductionUpTo`), and a
function given by a step from each value to the next exists (`RecursionUpTo`).
A proof by induction defines the set of the numbers with the property and cites
`InductionUpTo`.  `RecursionUpTo` gives the defining equation of the recursive
functions (`SearchOffset`, the fold behind `FlattenSeq`), which a `CHOOSE` hides
otherwise.

The bound of a write is a sum over the processes under way, computed by
`SumFunctionOnSet`, a fold that picks the elements in an order of its own.
`SumsExist` (by induction on the cardinality) gives a function from the subsets to
their sums, `SumIsSum` that the fold computes it, and `SumSplit` that taking out
any element, not only the one the fold picks, takes out its value.

### RingFacts

What the ring and the driver both need, for a buffer that is `WellFormed` over
any set of entries: where the live slots are, what `add_entry` does to the
sequence of them (`AddContents`: one lemma on modular arithmetic, and a case split
on `full`), that the sums `SearchOffset(b)[k]` grow over the used slots and stay
the same behind them, where `FlattenSeq` puts the bytes of each piece
(`FlattenShape`, by induction on the pieces), and that the search stops in the
entry that holds the byte asked for (`FindValue`).

### CircularBufferProofs

From `SlotsAssumption`, `EntriesAssumption` (entries that are added have data:
`aesd_write` adds one only when its last byte is a newline) and `NullAssumption`
(the null pointer is not a result of the search):

* `OffsetsAlwaysAgree` and `RingTypes`: `Spec => []OffsetsAgree` and
  `Spec => []TypeOK`.  Their conjunction is inductive: `add_entry` fills slot
  `in_offs`; before the ring is full that slot is the first unused one, and
  afterwards it is the oldest.
* `RingImplementsRecentList`: every `add_entry` is an `Add` of `RecentEntries`
  under the mapping `recent <- Contents(buffer)`, the returned pointer included
  (`AddContents`).
* `SearchIsIndexing`: `Spec => []FindIsIndexing`.  The concatenation has slot `k`
  between two sums of `SearchOffset` (`FlatShape`).  So the first slot that ends
  beyond an offset (`StopAt`) is the one that holds it, and an offset past the
  last sum is past the end.

### CharDriverProofs

From `DriverAssumption`: the addresses, the null pointer and `ZERO_SIZE_PTR`
differ, a written chunk is a string of bytes, and there are finitely many
processes and addresses.

* `LocksReleased`: `entry_lock` and `buf_lock` are held exactly by the process
  that is on a stretch of `aesd_read` or `aesd_write` between taking and
  releasing them (`LocksInv`).  So every exit of the two functions, the error
  paths included, releases what it took, and two processes are never on such a
  stretch together (`OneWriter`).
* `EveryBlockOwned`: `Spec => []BlocksOwnedOnce`, and `RingNeverDangles`:
  `Spec => []DefinedBehaviour`.  Neither is inductive: whether a push frees a
  block that something else points to depends on every pointer there is.
  `MemInv` adds what the code relies on at each place: between the allocation and
  the user copy `kbuf` is a block of the final length and the previous block is
  free (`KbufOk`); a write that has appended has not left the entry dangling
  (`EntryOk`); a reader copies from a slot (`ReaderOk`); the ring's offsets say
  which slots have a block (`WellFormed`).  It says nothing of the memory once
  something undefined has happened, and `DefinedBehaviour` of how that can
  happen.  A step that moves no block is handled by one lemma (`MemStays`);
  allocation, copy, push, load and unload each have their own.

* `DriverTypes`: `Spec => []TypeOK`.  The types follow from the two invariants
  above and `CallInv` (a call has no outcome as long as it can take effect).  The
  two bounds need more.  A write is checked against `MaxEntry` when it enters and
  appended later, when others have been: `SizeInv` says that the unfinished
  command *and all writes that have entered and not been appended* fit, the sum
  `Flying`.  A position moves by what a reader found earlier, before it slept in
  `copy_to_user`: `PosInv` says that what it copies is still what the search would
  find (`FoundFor`), so that the position stays within the kept data (`ReadPlace`),
  which is at most `Slots * MaxEntry` bytes (`TotalBound`).  `DriverInv` is the
  conjunction of the five.

### AesdDeviceProofs

`DriverIsDevice`: `Spec => DriverImplementsDevice`, the refinement of the device
with atomic calls, from the same assumptions.

The mapping `Recent` is the blocks of the live slots and `Partial` the unfinished
command, which is in `dev->entry`, or while a write fills a larger block at the
beginning of that, or with the write's bytes already behind it and not to be
counted (`PartialIs`, `PartialShape`).  The invariant beside `DriverInv` is
`TailOk`: between its copy and its decision a write's bytes are the last ones of
the entry.  Then every action is a step of `AesdDevice` or leaves the six mapped
variables alone (`StepDevice`):

* locks, opening, allocation, the user copy and a successful search do not show
  (`StepQuiet`, `StepAlloc`, `StepCopy`, `StepFind`), although allocation and copy
  move the unfinished command to another block (`PartialAlloc`, `PartialCopy`);
* `write_push` is `Write`: the bytes of the entry are the unfinished command with
  the write's behind it, and pushing them into the ring is `Newest` on the
  commands (`RecentPush`), with the freed block in none of the live slots;
* `read_copy` is `Read`: what is copied from one block is contiguous bytes of all
  commands one behind the other, at the file's position, and not empty unless
  nothing was asked for (`ReadBytes`); the search that finds nothing is a `Read` at
  the end;
* the failures are `Fail`, but for the late interruption (`StepLate`) and the fault
  of the user copy, which leaves `dev->entry` dangling and so loses the command;
* an access to memory that is not the driver's is the last step there is, and
  still one of the device.

### AesdServerProofs, AesdLogProofs

From `ServerAssumption` and `ListAssumption` (the null pointer is no entry).
The theorems hold for both builds, every set of clients, every way packets are
cut into segments and every failure.

* `MutexGuardsFile`: `Spec => []LockMatchesFile`.
  `LockMatchesFile` alone is not inductive: a second worker for the same client
  would restart in front of the mutex while the first one holds it.  `LockInv`
  adds that a waiting connection has no worker and waits once, that a client
  with a worker has connected, and that the client whose worker is being started
  has none.  Every step of a worker is shown to be a `WorkerMove` (it stays on
  its side of the file with the mutex unchanged, enters with a free mutex, or
  leaves dropping its own), and one lemma shows that these keep the invariant.
* `WorkersNeverLost`: `Spec => []WorkersAccounted`.  That an insertion adds one
  entry and a removal takes one out is true of linear lists only, where no two
  listed entries have the same next entry and none leads to the first
  (`Linear`).  The first lemmas show that the macros keep lists linear
  (`InsertAdds`, `RemoveTakesOut`), from the characterisation of `Listed` as a
  least set.  `ListInv` adds that nothing is listed before `aesd_server_init` and
  that `srv_shutdown` always takes the first entry.  That a freed worker's thread
  is over (`FreedIsOver`) rests on the join between `exited` and the free, and on a
  worker being started only for a client that has none (`SpawnsOnce`).
* `ShutdownLeavesNothing`: `Spec => []StoppedIsClean`.  `ListInv` gives that every
  worker was joined when the walk reached the end of the list.  `StopInv` adds
  that a worker on its way out has closed its connection, that handlers run only
  on threads that exist, that a stopped timer lets nothing recreate the file, and
  that after a successful `unlink` the output is gone or holds timestamps only
  (`FileDeleted`): nobody but the handler writes any more, and only a timer with id
  `NULL` still calls it.
* `PacketsNeverInterleave`: `Spec => []PacketsContiguous`.  Contiguity is kept by
  an append only if the writer's pieces are the last ones.  `OutputInv` adds that
  a client that has not had the mutex owns nothing in the output, and that what
  the receiving worker wrote is at its end; with `LockInv` no other thread appends
  in between.  A device that drops its oldest command keeps an end of the sequence.
* `ServerTypes`: `Spec => []TypeOK`, from the invariants above and the remaining
  variables (`OtherTypes`); a client never has more than `SendBuf` unread pieces
  (`UnreadBounded`).
* `ServerImplementsLog`: `Spec => FileIsPacketLog`, the refinement.  The mapping
  `Log` is the output without what the receiving worker has at its end
  (`Before`).  `LogInv` says what the answers depend on: a worker that answers has
  a file, with its client's packet in it unless a full device has dropped it;
  what was sent so far is a beginning of what the output returns; a device has no
  timer and never more than `Capacity` commands.  `PacketOpen` says that a
  receiver has not written its newline, so that the command a full device drops
  for a packet is never that packet.  Then every action is a step of `PacketLog` or
  leaves the four mapped variables alone (`LogRefines`): opening the file and a
  buffer in the middle of a packet do not show (`StepRecvLock`, `StepRecv`); the
  buffer with the newline, the end by shutdown and the error paths are `Packet`
  (`EndWithPiece`, `EndOfPacket`), or nothing when nothing was written; the end of
  `send_response` is `Answer` (`StepSend`); the handler is `Timestamp` and the
  unlink is `Delete`.

### ExercisesProofs

From `ExercisesAssumption` (the string is a sequence, no thread is called
`NoThread`, the bounds are naturals):

* `WriterStatus`: `Spec => []StatusTellsFile`.  `WriterInv`: the position and the
  rest add up to the length, and the file holds what was passed.
* `MutexLossReported`: `Spec => []FailureTellsMutex`.  `ThreadInv`: a mutex
  belongs to a thread past its lock, and success means that it was given back.
* `ResultIsOwn`: `Spec => []ResultTellsCommand`.  `CallInv`: calls return in order, and as long as no
  `wait()` has failed every call that returned has reaped its own child, so the
  only child left to reap is that of the call in progress.

### Only model-checked

* Liveness (`CallsReturn`, `ClientsServed`, `ShutdownCompletes`, `WriterExits`,
  `ThreadsEnd`): fairness and `ENABLED` are out of the prover's reach.
* That the modelled failures are the kernel's, and the parts marked external in
  `map` (allocator, user copies, sockets, signals), are assumptions of the models;
  the proofs are about the models.

## Not modelled

* Registration of the device number and of the cdev: a load that fails leaves
  nothing behind and is no step.
* The lock of the C library's time functions: `alarm_handler` takes it in
  `localtime` (`aesd_server.c:232`), and so may the `syslog` call it interrupts, on
  the main thread or on a worker.  Only the lock that `syslog` itself takes is
  modelled, for `signal_handler` on the main thread.
* The width of sizes: a command of unbounded length is bounded by `MaxEntry`, and
  `kzalloc` may fail at any size.
* The other list kinds of `queue.h`, which nothing uses.
* `examples/autotest-validate` and the student test (constants and a read of a
  configuration file), the shell scripts, the kernel build, the build files and
  CI: sequential commands over the file system without state of their own.

## Plan

Done: the ring with its refinement and its search; the driver with its failures
and its refinement of an atomic device; the server in both builds, with its list
on pointers, signals, timer, short writes and its refinement of a log; the
exercises.  Every safety property of these is checked and proved, every liveness
property checked.

What could follow: the lock of the C library's time functions (see above), and
the server on top of the driver's own specification instead of `OutputStore`.
