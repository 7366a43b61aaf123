# Specifications of aesdsocket and the aesdchar driver

This directory holds TLA+ models of the programs in this repository, the TLC
configurations that check them and TLAPS proofs about them. `PROJECT.json` lists
the runs, the source lines every definition models, the mutants that show each
property can fail, the findings and the hazards. Line numbers below refer to
`src/aesd-char-driver/main.c` (main.c), `aesd-circular-buffer.c` (c),
`src/server/aesdsocket.c` and the files of `src/examples`.

## The system

`aesdsocket` accepts TCP connections on port 9000. Each gets a thread that
writes what it receives to `/dev/aesdchar` up to a newline and sends back what
the device holds. The device is the kernel module `aesdchar`. It collects bytes
in a working entry until a newline and then moves that packet to a ring of the
last ten packets.

| component | state | operations | interacts by |
| --- | --- | --- | --- |
| circular buffer (`aesd-circular-buffer.c`, `.h`) | `entry[]`, `in_offs`, `out_offs`, `full`, `buf_len`, `overflow_entry` | init, add_entry, find_entry_offset_for_fpos, destroy | called by the driver, which must lock and owns all memory |
| character driver (`main.c`, `aesdchar.h`, `aesd_ioctl.h`) | the ring, the working entry, `nextReadPosition`, the mutex; per file `f_pos`; the kernel heap | open, release, read, write, llseek, ioctl, module init and cleanup | system calls of any task, concurrently; krealloc, kfree, user copies |
| socket server (`aesdsocket.c`) | list of threads, their count, `g_datap`, the mutex; per thread its socket and device file | main's accept loop, the thread, the handler of SIGTERM and SIGINT | threads share the mutex and the device; main and the handler share the list and `g_datap` |
| server on the driver (`aesdsocket.c` with `main.c`, start and load scripts) | a thread's receive buffer, `isIoctl`, the position of its device file | packets, seek commands, the answer; kill and restart, module reload | system calls; TCP |
| system calls example (`systemcalls.c`, `systemcalls_1.c`, `systemcalls_2.c`) | child processes, their output file | do_system, do_exec, do_exec_redirect | fork, execv, wait; the file both processes open |
| threading example (`threading.c`, `.h`) | a mutex, a `thread_data` per thread | start_thread_obtaining_mutex, threadfunc | pthreads; the user who joins |
| writer, finder, tests, build scripts | none | one-shot programs | files |

What is hard about them, and so what the properties are for:

* The ring: wrapping, the full flag, `buf_len` kept up by differences, the
  search loop that ends by its index coming round, entries of size zero. It is
  correct if it is a bounded first-in first-out log and the search is indexing
  into the concatenated entries.
* The driver: every call may interleave with every other. `aesd_read` stores to
  a field of the device before it takes the lock. `krealloc` may fail and user
  copies may stop short. Pointers pass from the working entry to the ring and to
  `kfree`. It is correct if the device is a log of packets, memory has one
  owner, work on the ring is under the lock, and reads and seeks mean positions
  in that log.
* The server: a thread may be anywhere when main looks at it or a signal comes.
  The handler runs in the middle of main and never returns. It is correct if the
  device is used under the mutex, no node is freed under its thread, and main
  gets back to accept.
* The server on the driver: an answer takes many reads whose position is carried
  from call to call, TCP may cut a command in two, the process may die with half
  a packet in the driver, and a bad command may end a thread inside it. It is
  correct if a client is sent what the device holds, its own packet last,
  packets mix clients only where a client left a line unfinished, and
  connections end.
* The examples: two processes open one file, `wait` may fail or find another
  child, a child may come back from the call as a second program; a mutex may
  stay taken. They are correct if what they report is true and they end.

## Modules

| module | models |
| --- | --- |
| `Ring` | the buffer as a record and its functions as operators on it |
| `BoundedLog` | abstract: the last `Capacity` entries, first in first out |
| `CircularBuffer` | the ring under any sequence of adds; refines `BoundedLog` |
| `FindOffset` | the search as the do-while loop it is, one step per turn |
| `PacketLog` | abstract: one stream of bytes cut into packets, the last `Capacity` of them kept |
| `AesdChar` | the driver: tasks, lock, heap, working entry, ring; refines `PacketLog` |
| `SerialService` | abstract: one client at a time, none after the end |
| `AesdSocket` | main, threads and signal handler of the server; refines `SerialService` |
| `AesdSystem` | the thread's dialogue with its client by the driver's own actions, processes that end and start, module reloads |
| `SystemCalls` | do_system, do_exec, do_exec_redirect in both versions, with their children |
| `Threading` | the threads, their mutex and their user |
| `Examples` | a program that uses the two examples one after the other |
| `MCFindOffset`, `MCAesdChar` | instances for TLC |
| `RingProofs`, `CircularBufferProofs`, `FindOffsetProofs` | lemmas and theorems of the ring and the search |
| `AesdCharProofs`, `DriverLogProofs` | the driver: lock, types, ring, heap, leaks, seeks; the packet log, reads |
| `AesdSocketProofs`, `AesdSystemProofs`, `ExamplesProofs` | the server, the server on the driver, the two examples |

`AesdSystem` extends `AesdChar`: every step of it that touches the device is an
action of the driver. `AesdSocket` says who runs when and leaves the bytes out;
`AesdSystem` has the bytes and takes from it that there is one connection at a
time. `AesdChar` and `CircularBuffer` extend `Ring`, so the driver is checked
with the add_entry that is proved correct, and with the definition of the search
that `FindOffset` shows the loop to compute (`AgreesWithConcatenation`).

### How the models correspond to the code

*Ring.* Field names are those of the C structure. `AddEntry` is
`aesd_circular_buffer_add_entry` statement by statement; what the C function
returns is `Overwritten`. `uint8_t` offsets need no width, as they are reduced
modulo the capacity at every step.

*Driver.* `pc[f]` says where the task of file `f` is. A call begins with
`ReadCall`, `WriteCall`, `SeekCall` or `LseekCall`, waits in `Lock`, has its
body in one step where the body touches only what the lock protects, and ends in
`Unlock`. The body of a read is split in three around its accesses to
`nextReadPosition`, because another reader may store to that field at any time
without the lock: the search uses what it finds there, and `+=` is a load and a
store. Bytes are numbered by the history variable `accepted`. Whether the last
byte the driver looks at is a newline is a choice, made once per byte (a byte
that was not a newline at the end of a write stays none). Memory that nobody
wrote is `Junk`. `live` and `data` are the kernel heap. A write of nothing to an
empty working entry reads in front of `ZERO_SIZE_PTR`; the kernel ends the task
with the mutex taken, which then belongs to `DeadTask` (`WriteOops`). A seek to
a command out of range runs `mutex_unlock` on an uninitialised pointer: either
it is nothing mapped (`SeekOops`) or it is the device, whose mutex it releases
whoever has it. While nobody is in its body that is harmless, or even lets the
others go on where a dead task had the mutex (`SeekUnlocks`). While somebody is,
mutual exclusion is over (`SeekIntrudes`): two bodies can then interleave, and a
body as one step would hide that. `Spec` therefore ends where such a step would
be taken: what is checked and proved of it is about the driver up to the first
seek to an impossible command that meets a task in its body. `IntrusionSpec` has
the step, for `driver_badcmd` only. A file belongs to one task, as in the
server. In `PacketLog` a write that finds no memory is `Lose`: the bytes behind
the last newline are replaced by as many that nobody wrote (main.c:118-125).

*Server.* A connection, its node and its thread have one name. `main`,
`worker[n]` and `handler[t]` say where main, a thread and a thread's signal
handler are. A thread with an active handler does nothing else. The steps are
cut where the code blocks, where it changes what others read, and wherever a
signal arriving in between makes a difference (count, insert, join, uncount,
remove). Linux gives a process-directed signal to main unless main has it
blocked or has one pending; only with `Repeats` can another thread get one.
`exit` and being killed end every step. Joining a thread twice is undefined by
POSIX: the model lets the second join wait or fail, as glibc does. What is
received is left to `AesdSystem`: receiving ends when the client ends its packet
or its side of the connection.

*Server on the driver.* `thread` is where the thread of the connection is: at a
`recv`, in one of the system calls, closing, exiting. A chunk is what one `recv`
returns: text, a line, a seek command, the first part of a command and its rest.
The thread and the driver look at the same last byte for the newline, so
`WriteBody` is `WriteSome` with the driver's choice made by the chunk. `strncmp`
looks at 19 bytes, some of which a cut command need not have received; what
`buf` held before decides then, so the model takes either branch. `Ends` is the
end of the process, by `checkerr` or by a signal: the kernel closes the file,
and what is in the working entry stays. The kernel cannot end a process inside a
call of the driver (its locks are not killable), which is why `Killed` is
possible only between calls. A thread that the driver's oops ended (`dead`)
keeps `g_mutex` and the device. `Restart`, `LoadModule` and `UnloadModule` are
the start and load scripts. Clients are numbered in the order in which the
driver first sees their bytes.

*Examples.* `SystemCalls` keeps the child's states (`kids`), how it ended and
the file, as the number of the child that wrote each position. `version` chooses
between `systemcalls.c`, which `systemcalls_2.c` repeats with other layout, and
`systemcalls_1.c`. A child for which open fails in `do_exec_redirect` of
`systemcalls.c` returns into a copy of the program (`clone`). `ForkFails` is
also possible when every process number is in use. What commands are called
with, and the buffers of the C library, are left out. `Threading` leaves the
length of the sleeps open. `Examples` runs rounds of threads first and then
calls, so that the two state spaces add up instead of multiplying; children that
the program had before go on.

## Runs

All runs together take about ten minutes. `CHECK_DEADLOCK FALSE` is set where
the program may really stop: after the server has ended or while it waits for a
client, in `driver`, where a task that the kernel ended may hold the lock, and
in the examples, where a program exits and a mutex stays taken.

| run | instance | shows |
| --- | --- | --- |
| `ring` | 3 slots, sizes 0 to 2, offsets to one past the largest total | type, shape, `buf_len`, eviction of the oldest, refinement of `BoundedLog`; the loop finds the byte of the concatenation, in occupied slots only, and ends |
| `driver` | 2 slots, 3 addresses; one task writes 0, 1 or 2 bytes, another reads, seeks and calls ioctl with a command in and one out of range; krealloc fails, user copies stop short or fail | lock, ring and heap stay sound, only a failing krealloc leaks, what reads and seeks return, refinement of `PacketLog`, all with dead tasks, loads and unloads; calls return |
| `server_service` | 2 nodes, both signals, to threads too, failing calls, leaving clients | mutex around the device, no node freed under its thread, nothing left behind at accept, one client at a time, no stale pointer in the handler while signals go to main, joins end, signals end the process |
| `system` | 2 slots, clients without end, cut and wrong commands, failing krealloc, killed and restarted servers, reloads | packets are of one client unless a line was left open, the answer is the device's content, the own packet comes back, connections end; the driver refines `PacketLog` here too |
| `examples` | both versions, 2 children, a child from before, 3 threads, failing calls | true is success for the functions that look at it, no child is left, output is kept if the file is opened first, success frees the mutex, calls and threads end |

Seven runs show a violation; they are the findings below.

*Why the bounds are enough.* Two slots make the third packet wrap, and two is
the least number for which order in the array and order of age differ; `ring`
has three, so that there is a slot that is neither first nor last. Addresses are
as many as the slots and the working entry can hold: `krealloc` moves whenever
one is free, which is in every state but that of a full ring with a partial
packet. `MaxBytes` bounds where a write or read may begin. In `driver` it is 2,
so a third byte is the last one, and the third packet wraps the ring: it may
evict a packet of nothing as well as one of bytes. `system` allows one byte
more, and checks the packet log again where three lines of one client or of
three enter. One file that writes and one that reads and seeks are enough for
every interleaving of the lock and of the shared read position that does not
involve a second reader, which `driver_race` has; writers meet each other in the
lock only, and the proofs are for any number of them. Two nodes suffice for the
server, because main joins the thread it started before it accepts again
(`ImplementsSerialService`); a node is allocated again after it is freed.
`MaxReads` only bounds how long a thread sends. In `system` one slot of the two
is evicted by the third packet, and three bytes make three clients share the
device. In `examples` two children are the one forked and one more that `wait`
can find, and three threads are one that holds the mutex and two that compete.
Addresses are symmetric where no liveness is checked.

*Fairness.* In the driver a task inside a call keeps running (`WF` of its body)
and a kernel mutex is handed to every waiter eventually (`SF` of `Lock`; Linux
mutexes hand off to the first waiter). Nobody has to start a call. In the server
threads, main and handlers are scheduled, and every client ends its packet or
closes. The latter is an assumption on clients: `recv` has no timeout, so a
silent client holds the mutex and main for as long as it likes. `FairSystemSpec`
is that for the dialogue: the thread runs and its client sends something or
leaves; nobody has to kill, restart or reload. In the examples the program, its
children and the threads are scheduled, commands and sleeps end (`CallFairness`,
`TFairness`), and no `wait`, `lock` or `unlock` has to fail. A copy of the
program that a child has become need not end.

*Restrictions that some properties need*: everything about the driver is about
`Spec`, without the step of `SeekIntrudes`; with it `CallerHoldsLock` fails
(`driver_badcmd`), and no claim is made about the bodies behind it.
`ReadsAtFpos` and `ReadsForward` are about one reader; the first fails with two
(`driver_race`). No property assumes that `krealloc` succeeds: after a failure
the size of the working entry is kept and its memory is not (main.c:120), so the
next packet begins with as many bytes that nobody wrote. `OnlyKreallocLeaks`
names this as the only leak, `PacketLog` has it as `Lose`, `ReadsForward` looks
at the other bytes, and the properties of `system` leave such bytes out where
they ask who sent them. `EveryCallReturns` excepts the states in which a dead
task has the mutex: a write of nothing to an empty working entry gets there
(main.c:118-151), and from then on no call that takes the mutex returns until an
ioctl with a command out of range happens to release it.
`SeekFindsCommandUntilWrap` stops holding once the ring has wrapped
(`driver_wrap`). `NotCrashed` says nothing of signals that reach two threads:
both handlers take the list apart then, and the second one frees a node again.
`ListedIsCounted` is about the first signal; a second one can come between lines
100 and 108 of the handler. `AnswerIsTheLog` leaves out commands that TCP cut:
the rest of the command is written behind the seek, as text, and the position is
lost. `TrueMeansSuccess` and `NothingLeft` are what is left of the promise of
the system calls example. The first is about the functions that look at an exit
status at all (`LooksAtStatus`), and for `do_exec` and `do_exec_redirect` both
say something only when the program has no other child and `wait` does not fail
(`sole`), since their `wait` takes any child and its result is not looked at.
`NothingLeft` also leaves out the child that `do_exec_redirect` has forked when
it cannot open the file. `CallEnds` leaves out a parent that waits for the copy
of the program that such a child becomes. `TrueMeansExecuted` is the promise as
it is written, and fails (`syscalls_status`).

Some hazards are modelled but no property says that they do not bite, because
the code has no answer to them and no doc promises one: a client that is silent
for ever, a cut seek command, a failing call that exits while others work, a
client that is gone. `PROJECT.json` says so at each.

## Findings

* `driver_race`: reads of two files overlap and use each other's position,
  because `nextReadPosition` is shared and stored without the lock (main.c:61).
* `driver_badcmd`: a seek to a command out of range unlocks a mutex through an
  uninitialised pointer (main.c:203). If that is the device, a task in the
  middle of its body loses its mutex.
* `driver_wrap`: a seek counts commands in array order, reads in order of age
  (main.c:217).
* `server_spin`: a thread that is done when main looks is never joined, and main
  loops for ever (aesdsocket.c:485).
* `server_cleanup`: a signal that interrupts main's join joins the thread twice
  and the handler exits before it has cleaned up (aesdsocket.c:98).
* `syscalls_status`: `do_system` returns true for every command that exits,
  although systemcalls.c:9-12 promises false for one that returns non-zero
  (systemcalls.c:27). The same promise is broken by `do_exec` and
  `do_exec_redirect` of `systemcalls_1.c`, which do not look at the status (docs
  at 48-51), and by a `wait` that fails or finds another child; the shortest
  counterexample is that of `do_system`.
* `exec_truncates`: the parent opens the output file too, behind the fork, and
  may truncate what the command has already written (systemcalls.c:129).

## Proofs

The theorems hold for every capacity `MaxOps \in Nat \ {0}`, every set of
addresses, sizes, tasks, nodes, signals and threads, from the assumptions on
constants named in the module they are about (for the ring and the driver
`MaxOpsAssumption` and `NullAssumption` of `Ring`).

*The ring.* `RingIsWellFormed` and `BufLenIsTotalOf` are inductive only together
with the type: that `buf_len` does not underflow follows from its being the
total, which bounds the evicted size, and that the new total is right follows
from the walk being the same walk moved by one slot, which needs the shape.
`Good` is this conjunction; `AddKeepsGood` splits on whether the ring is full.
The sums are a recursive function; that it exists and is unique is proved by
induction over sets of numbers (`LeastElement`, `SetInduction`), which needs no
induction theorem with an operator parameter. From `Good` follow `TypeCorrect`,
`RingCorrect`, `BufLenCorrect`, `EvictionCorrect` and, with `AddPushes`, the
refinement of `BoundedLog` (`Refinement`).

*The search.* `FInv` adds to `Good` the types, the loop invariant (the walk is
at its k-th entry, `curRunningOffset` is the sum before it and not above the
offset searched for) and the result. `BodyKeepsFInv` is the one hard step.
`WalkStep` says that the index meets `in_offs` exactly after `Count` entries.
`FindCorrect` and `WalkCorrect` follow. `SearchIsAnIndex` says that the search
the driver uses and the loop both return the byte at the offset in the
concatenated strings. The concatenation is `FlattenSeq` of the community
modules, a fold over a recursive function on intervals; `FlattenSeqIs` unfolds
it by its last string (`IntervalInduction`), and the lemmas on flattening in
`RingProofs` say where in it a string's bytes lie: behind as many as the sum of
the sizes before it.

*The driver.* `LockInv` adds to `CallerHoldsLock` where tasks can be and that no
file is open while the module is not loaded, without which loading, which resets
the mutex, could take it from somebody. `LockCorrect` needs no assumption on the
commands: it says that in `Spec` the task in a body has the mutex, and that is
what justifies bodies of one step in the other theorems. The step that breaks
it, `SeekIntrudes`, is not in `Spec`. `IInv` is `DeviceInv` (types, `Good`,
`HeapSafe`) and `UserInv` (what the tasks keep). `HeapSafe` is inductive only
with the shape of the ring: that the slot at `in_offs` of a ring that is not
full holds nothing says what is freed when a packet enters (`CommitEntries`),
and that no two slots share memory says that the free hits no other. The types
in turn need `HeapSafe`, because a read copies as many bytes as the size says.
`DriverTypeCorrect`, `DriverBufferCorrect` and `DriverHeapCorrect` follow;
`DriverLeaks` looks at each step: memory leaves the reach of the device only
where `krealloc` fails.

*Seeks.* `DriverSeeksInside` and `DriverSeeksFind` add to `IInv` that a call
returns nothing before its body ran (`NothingYet`), so that "ok" is an answer of
this seek. An ioctl sums sizes in the order of the array and the file is in order
of age. The walk is a rotation of the array, so the two totals agree
(`TotalsAgree`), hence no position lies behind `buf_len` (`SeekLandsInside`);
until the ring wraps the two orders are one, and the position is that of the
command. After that they are not: `driver_wrap` is the finding.

*The packet log.* `DriverImplementsLog` assumes only that writes have a largest
size (`WritesAreBounded`; the bound of `PacketLog` is stated with it). A failing
`krealloc` is the step `Lose` of the log. For
the refinement, `AddWhenNotFull` and `AddWhenFull` say what a packet does to the
walk; the slots of a walk differ, so the memory that is freed is that of the
oldest packet only and the bytes of the others stay. A step that leaves the
device alone stutters (`QuietSteps`).

*Reads.* `DriverReadsAtFpos` says that a read delivers the bytes of `Contents`,
the packets one after the other, from the file position on. It assumes
`OneReader`, because `driver_race` shows it false with two: only then is the
position that the search finds the one this reader stored (`ReaderInv`), however
many writers come between. `ReadCopies` puts the search, the heap and the
flattening lemmas together. `DriverReadsForward` looks at `Stream`, the contents
followed by the working entry, which is every byte the device still has in the
order of writing. A step appends to it, or drops its first bytes, or empties it;
`ForwardInv` keeps the bytes of it that somebody wrote in ascending order and
ahead of what was delivered at the file position; those that a failing
`krealloc` left count for nothing. It needs `OneReader`.

*The server.* The threaded program turns out to have one node in play: `OneNode`
(the list holds `g_datap` or nothing, and no other node has a thread, memory or
a socket), `MainInv` (what main knows at each point as long as no signal has
come) and `HandlerInv` (what a handler may still rely on: only main's joins, and
a node is removed when no thread uses its data). Each theorem is a short
consequence; `ServesOneAtATime` maps sockets to clients.

*The server on the driver.* `SystemUsesDriver` shows every step of `SystemNext`
to be a step of the driver or a stutter, so the theorems of the driver hold
there too (`SystemKeepsDriverSafe`, with failing `krealloc`).
`PacketsAreOfOneClient` needs that client numbers only grow, that owners in
every piece of memory are in that order, that only clients with an open line are
followed by another one, and that what is in the working entry is of such
clients. `ClientsGetTheLog` and `ClientsGetTheirPacket` are about the whole
dialogue. `DialogueInv` says at each point of it where the thread and its file
are: what was sent so far is what the device holds between the start and the
file position, and the loop ends when the position is at the end. `OwnInv`
follows the client's bytes: they are the last bytes of the working entry until
the newline and then the last bytes of the log, since an eviction takes from the
front and a packet just stored is not what it evicts. Both assume
`RewindsToStart`, which is `lseek(fd, 0, SEEK_SET)` (aesdsocket.c:252); the set
of targets is a constant of the driver only because others may seek elsewhere.
Neither needs `OneReader`, as the server is the one task there, and `krealloc`
may fail.

*The examples.* `TInv` adds who may hold the mutex; `MutualExclusion`,
`DataStays` and `SuccessIsTrue` hold for any number of threads. `CallInv` says
which children a call can have at each point: only its own if the program had
none (`OnlyKid`), what the file holds of a child that wrote (`KidsOutput`), and
that no child opens the file where the parent did (`NoChildOpens`). `TrueIsTrue`,
`NoChildStays` and `OutputIsKept` follow. `ExamplesUseBoth` carries all six over
to the program that uses both examples.

Every invariant and every property of steps that a passing run checks is the
statement of a theorem. *Model-checked only* is liveness: `SearchEnds`,
`EveryCallReturns`, `SignalEnds`, `JoinEnds`, `ConnectionEnds`, `CallEnds` and
`ThreadsEnd`, whose proofs need ENABLED for the fairness, which the provers do
not handle.

## Not modelled

`queue.h` is vendored; its three macros in use are `Head`, prepending and
`Tail`. The server's set-up runs once and exits on the first failure. The
timestamp timer is compiled out by `USE_AESD_CHAR_DEVICE`. The driver's
registration with the kernel, an ioctl with another command or an argument that
cannot be copied touch no state. `mutex_destroy` on release does nothing without
`CONFIG_DEBUG_MUTEXES`. Of the scripts, starting the server and loading the
module are modelled; `mknod`, access rights and the order at boot are not. A
second program that uses the device beside the server is a second file of
`AesdChar`, not of `AesdSystem`. The writer, the finder, the tests and the build
scripts have no state of their own.

## Plan

Done: the ring, the search, the driver, the server, the server on the driver and
the two examples, with their theorems, in the order of the table of modules.
Left:

1. The build without `USE_AESD_CHAR_DEVICE`: a file in place of the device, and
   the timer that writes time stamps to it beside the threads.
2. A second file in `AesdSystem`, so that a program beside the server can write
   and read between its calls.
