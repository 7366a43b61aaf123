------------------------------ MODULE AesdChar ------------------------------
(***************************************************************************)
(* The character driver of aesd-char-driver/main.c: one device, which      *)
(* tasks use through files they open.  A file is used by the task that     *)
(* opened it and by no other, which is how aesdsocket.c uses the device,   *)
(* so a file stands for its task as well.                                  *)
(*                                                                         *)
(* What runs under aesd_dev_buf_lock and touches nothing else is one step. *)
(* aesd_read is several: it assigns devp->nextReadPosition before it takes *)
(* the lock (main.c:61), so the reads of other tasks meet that store at    *)
(* every point.  Bytes are numbered as writes accept them; whether a byte  *)
(* is a newline is decided when it is the last byte the driver looks at.   *)
(***************************************************************************)
EXTENDS Ring, Sequences, SequencesExt

CONSTANTS
    Files,          \* open file descriptions, one task each
    NoFile, DeadTask,           \* a mutex held by nobody, or by a task that is gone
    Readers, Writers, Seekers,  \* the files whose tasks make these calls
    ReadCounts,     \* sizes of the buffers given to read
    WriteCounts,    \* sizes of the writes
    SeekCmds,       \* values of aesd_seekto.write_cmd
    SeekOffs,       \* values of aesd_seekto.write_cmd_offset
    LseekTargets,   \* positions asked for through llseek
    MaxBytes,       \* bound: no write begins after this many bytes, no read behind them
    AllocMayFail,   \* krealloc may return NULL
    CopyMayFault    \* copy_to_user and copy_from_user may stop short

ASSUME FilesAssumption ==
    /\ NoFile \notin Files /\ DeadTask \notin Files \cup {NoFile}
    /\ Readers \subseteq Files /\ Writers \subseteq Files /\ Seekers \subseteq Files

ASSUME CallsAssumption ==
    /\ ReadCounts \subseteq Nat \ {0} /\ WriteCounts \subseteq Nat
    /\ SeekCmds \subseteq Nat /\ SeekOffs \subseteq Nat /\ LseekTargets \subseteq Nat
    /\ MaxBytes \in Nat
    /\ AllocMayFail \in BOOLEAN /\ CopyMayFault \in BOOLEAN

VARIABLES
    loaded,             \* between aesd_init_module and aesd_cleanup_module
    buffer,             \* aesd_device.aesd_dev_buffer
    working,            \* aesd_device.aesd_working_entry
    nextReadPosition,   \* aesd_device.nextReadPosition
    owner,              \* who holds aesd_device.aesd_dev_buf_lock
    live, data,         \* the kernel heap: allocated pointers and their bytes
    pc,                 \* where each task is
    f_pos,              \* filp->f_pos
    arg,                \* the struct aesd_seekto of an ioctl under way
    reg,                \* the value aesd_read is about to store at main.c:71 or 90
    retval,             \* what the call is about to return
    reply,              \* the bytes this read copied to the user
    last,               \* history: the highest byte read since open or seek
    accepted            \* history: how many bytes writes accepted

device == <<loaded, buffer, working, live, data, accepted>>
user   == <<arg, reg, retval, reply, last>>
vars   == <<device, nextReadPosition, owner, pc, f_pos, user>>

Junk     == 0       \* a byte of memory nobody has written
NoSeek   == [cmd |-> 0, off |-> 0]
Outcomes == {"none", "ok", "EINVAL", "EFAULT", "ENOMEM"}
Waiting  == {"r_lock", "w_lock", "i_lock", "l_lock"}
Critical == {"r_body", "r_load", "r_store", "w_body", "i_body", "l_body", "unlock"}

-----------------------------------------------------------------------------
(* The module and the file.                                                *)

Init ==
    /\ loaded = FALSE
    /\ buffer = EmptyBuffer
    /\ working = NullEntry
    /\ nextReadPosition = 0
    /\ owner = NoFile
    /\ live = {}
    /\ data = [p \in Ptrs |-> << >>]
    /\ pc = [f \in Files |-> "closed"]
    /\ f_pos = [f \in Files |-> 0]
    /\ arg = [f \in Files |-> NoSeek]
    /\ reg = [f \in Files |-> 0]
    /\ retval = [f \in Files |-> "none"]
    /\ reply = [f \in Files |-> << >>]
    /\ last = [f \in Files |-> 0]
    /\ accepted = 0

\* aesd_init_module: memset, aesd_circular_buffer_init, mutex_init.
Load ==
    /\ ~loaded
    /\ loaded' = TRUE
    /\ buffer' = EmptyBuffer
    /\ working' = NullEntry
    /\ nextReadPosition' = 0
    /\ owner' = NoFile
    /\ UNCHANGED <<live, data, accepted, pc, f_pos, user>>

Freed(ptrs) == /\ live' = live \ ptrs
               /\ data' = [p \in Ptrs |-> IF p \in ptrs THEN << >> ELSE data[p]]

\* aesd_cleanup_module, which the kernel calls when no file is open.  The
\* freed pointers stay in aesd_device until the module is loaded again.
Unload ==
    /\ loaded
    /\ \A f \in Files : pc[f] = "closed"
    /\ loaded' = FALSE
    /\ Freed((Held(buffer) \cup {working.buffptr}) \ {NULL})
    /\ UNCHANGED <<buffer, working, nextReadPosition, owner, accepted, pc, f_pos, user>>

Goto(f, from, to) == pc[f] = from /\ pc' = [pc EXCEPT ![f] = to]

Open(f) ==
    /\ loaded
    /\ Goto(f, "closed", "idle")
    /\ f_pos' = [f_pos EXCEPT ![f] = 0]
    /\ last' = [last EXCEPT ![f] = 0]
    /\ UNCHANGED <<device, nextReadPosition, owner, arg, reg, retval, reply>>

Release(f) ==
    /\ Goto(f, "idle", "closed")
    /\ f_pos' = [f_pos EXCEPT ![f] = 0]
    /\ last' = [last EXCEPT ![f] = 0]
    /\ UNCHANGED <<device, nextReadPosition, owner, arg, reg, retval, reply>>

-----------------------------------------------------------------------------
(* mutex_lock and mutex_unlock.  Unlocking asks nobody who holds the lock. *)

AfterLock == [r_lock |-> "r_body", w_lock |-> "w_body", i_lock |-> "i_body", l_lock |-> "l_body"]

\* Mutant: the lock is taken from whoever holds it.
Lock_NoWait(f) ==
    /\ pc[f] \in Waiting
    /\ owner' = f
    /\ pc' = [pc EXCEPT ![f] = AfterLock[pc[f]]]
    /\ UNCHANGED <<device, nextReadPosition, f_pos, user>>

Lock(f) ==
    /\ pc[f] \in Waiting
    /\ owner = NoFile
    /\ owner' = f
    /\ pc' = [pc EXCEPT ![f] = AfterLock[pc[f]]]
    /\ UNCHANGED <<device, nextReadPosition, f_pos, user>>

\* The call unlocks and returns.
Unlock(f) ==
    /\ Goto(f, "unlock", "idle")
    /\ owner' = NoFile
    /\ arg' = [arg EXCEPT ![f] = NoSeek]
    /\ retval' = [retval EXCEPT ![f] = "none"]
    /\ reply' = [reply EXCEPT ![f] = << >>]
    /\ UNCHANGED <<device, nextReadPosition, f_pos, reg, last>>

Returns(f, r) == retval' = [retval EXCEPT ![f] = r]

-----------------------------------------------------------------------------
(* aesd_read.                                                              *)

\* Mutants: the position of the last read is kept, or the first one taken.
ReadCall_KeepsPosition(f) ==
    /\ f \in Readers
    /\ f_pos[f] <= MaxBytes
    /\ Goto(f, "idle", "r_lock")
    /\ UNCHANGED <<device, nextReadPosition, owner, f_pos, user>>

ReadCall_FromStart(f) ==
    /\ f \in Readers
    /\ f_pos[f] <= MaxBytes
    /\ Goto(f, "idle", "r_lock")
    /\ nextReadPosition' = 0
    /\ UNCHANGED <<device, owner, f_pos, user>>

\* main.c:61: the store to the shared position, without the lock.
ReadCall(f) ==
    /\ f \in Readers
    /\ f_pos[f] <= MaxBytes
    /\ Goto(f, "idle", "r_lock")
    /\ nextReadPosition' = f_pos[f]
    /\ UNCHANGED <<device, owner, f_pos, user>>

\* Mutant: the early exit forgets to unlock.
ReadNothing_KeepsLock(f) ==
    /\ Goto(f, "r_body", "idle")
    /\ FindEntry(buffer, nextReadPosition) = NotFound
    /\ nextReadPosition' = 0
    /\ UNCHANGED <<device, owner, f_pos, user>>

\* main.c:66-74: nothing at that position.
ReadNothing(f) ==
    /\ Goto(f, "r_body", "r_store")
    /\ FindEntry(buffer, nextReadPosition) = NotFound
    /\ reg' = [reg EXCEPT ![f] = 0]
    /\ Returns(f, "ok")
    /\ UNCHANGED <<device, nextReadPosition, owner, f_pos, arg, reply, last>>

Min2(m, n) == IF m < n THEN m ELSE n
Max2(m, n) == IF m < n THEN n ELSE m

\* main.c:66-68 and 75-91: the rest of the entry found, at most count bytes.
ReadSome(f) ==
    LET hit == FindEntry(buffer, nextReadPosition)
        e   == buffer.entry[hit.slot]
    IN  /\ Goto(f, "r_body", "r_load")
        /\ hit # NotFound
        /\ \E count \in ReadCounts :
              LET n == Min2(e.size - hit.offset, count)
              IN  /\ reply' = [reply EXCEPT ![f] =
                                  SubSeq(data[e.buffptr], hit.offset + 1, hit.offset + n)]
                  /\ last' = [last EXCEPT ![f] = Max2(@, data[e.buffptr][hit.offset + n])]
                  /\ f_pos' = [f_pos EXCEPT ![f] = @ + n]
                  /\ reg' = [reg EXCEPT ![f] = n]
        /\ Returns(f, "ok")
        /\ UNCHANGED <<device, nextReadPosition, owner, arg>>

\* main.c:84-87.
ReadFaults(f) ==
    /\ CopyMayFault
    /\ Goto(f, "r_body", "unlock")
    /\ FindEntry(buffer, nextReadPosition) # NotFound
    /\ Returns(f, "EFAULT")
    /\ UNCHANGED <<device, nextReadPosition, owner, f_pos, arg, reg, reply, last>>

\* main.c:90, devp->nextReadPosition += retsize: a load ...
ReadLoad(f) ==
    /\ Goto(f, "r_load", "r_store")
    /\ reg' = [reg EXCEPT ![f] = nextReadPosition + @]
    /\ UNCHANGED <<device, nextReadPosition, owner, f_pos, arg, retval, reply, last>>

\* ... and a store, like the one of main.c:71.
ReadStore(f) ==
    /\ Goto(f, "r_store", "unlock")
    /\ nextReadPosition' = reg[f]
    /\ reg' = [reg EXCEPT ![f] = 0]
    /\ UNCHANGED <<device, owner, f_pos, arg, retval, reply, last>>

-----------------------------------------------------------------------------
(* aesd_write.                                                             *)

WriteCall(f) ==
    /\ f \in Writers
    /\ accepted < MaxBytes
    /\ Goto(f, "idle", "w_lock")
    /\ UNCHANGED <<device, nextReadPosition, owner, f_pos, user>>

\* main.c:122-125: buffptr is lost, size is not reset.
WriteNoMemory(f) ==
    /\ AllocMayFail
    /\ Goto(f, "w_body", "unlock")
    /\ working' = [working EXCEPT !.buffptr = NULL]
    /\ Returns(f, "ENOMEM")
    /\ UNCHANGED <<loaded, buffer, live, data, accepted, nextReadPosition, owner, f_pos,
                   arg, reg, reply, last>>

\* What krealloc leaves of the old contents.
Kept == IF working.buffptr = NULL THEN [i \in 1 .. working.size |-> Junk]
        ELSE data[working.buffptr]

\* krealloc extends in place or moves to memory that was free.
Reallocated == (Ptrs \ live) \cup ({working.buffptr} \ {NULL})

\* k of the count bytes offered are copied behind what was kept.
Copied(count) == IF CopyMayFault THEN 0 .. count ELSE {count}

NewBytes(k) == [i \in 1 .. k |-> accepted + i]

\* The outcomes of buffptr[totalBufSize - 1] == '\n' (main.c:151).  An earlier
\* write has seen that its last byte is none; memory nobody wrote may hold
\* anything, and so may the byte in front of the buffer.
EndsPacket(k) ==
    IF k = 0 /\ Kept # << >> /\ Last(Kept) # Junk THEN {FALSE} ELSE BOOLEAN

\* krealloc to p, and kfree of gone unless it is NULL.
Heap(p, bytes, gone) ==
    /\ live' = (live \ {working.buffptr, gone}) \cup {p}
    /\ data' = [q \in Ptrs |-> IF q = p THEN bytes
                               ELSE IF q \in {working.buffptr, gone} THEN << >> ELSE data[q]]

\* main.c:171-174: no newline yet.
Collect(p, total, bytes) ==
    /\ working' = [buffptr |-> p, size |-> total]
    /\ Heap(p, bytes, NULL)
    /\ UNCHANGED buffer

\* Mutants: the working entry is not reset, or the evicted packet not freed.
Commit_KeepsWorking(p, total, bytes) ==
    LET e == [buffptr |-> p, size |-> total]
    IN  /\ buffer' = AddEntry(buffer, e)
        /\ Heap(p, bytes, Overwritten(buffer).buffptr)
        /\ working' = e

Commit_Leaks(p, total, bytes) ==
    /\ buffer' = AddEntry(buffer, [buffptr |-> p, size |-> total])
    /\ Heap(p, bytes, NULL)
    /\ working' = NullEntry

\* main.c:154-169: the packet enters the ring, and the entry it pushes out is freed.
Commit(p, total, bytes) ==
    LET old   == Overwritten(buffer)
        added == AddEntry(buffer, [buffptr |-> p, size |-> total])
    IN  /\ buffer' = IF buffer.full THEN [added EXCEPT !.overflow_entry.buffptr = NULL]
                                    ELSE added
        /\ Heap(p, bytes, old.buffptr)
        /\ working' = NullEntry

WriteSome(f) ==
    \E count \in WriteCounts, p \in Reallocated :
        /\ working.size + count > 0
        /\ Goto(f, "w_body", "unlock")
        /\ \E k \in Copied(count) :
              LET total == working.size + k
                  bytes == Kept \o NewBytes(k)
              IN  /\ \E ends \in EndsPacket(k) :
                        IF ends THEN Commit(p, total, bytes) ELSE Collect(p, total, bytes)
                  /\ accepted' = accepted + k
                  /\ f_pos' = [f_pos EXCEPT ![f] = @ + k]
        /\ Returns(f, "ok")
        /\ UNCHANGED <<loaded, nextReadPosition, owner, arg, reg, reply, last>>

\* A write of nothing while nothing is kept: krealloc frees what there is and
\* returns ZERO_SIZE_PTR, and the byte in front of that is not mapped.  The
\* kernel ends the task, which closes its file and leaves the lock taken; a task
\* that opens the file again is another one.
\* kfree ignores ZERO_SIZE_PTR, and so does what follows if it is NULL here.
WriteOops(f) ==
    /\ 0 \in WriteCounts
    /\ working.size = 0
    /\ Goto(f, "w_body", "closed")
    /\ Freed({working.buffptr} \ {NULL})
    /\ working' = NullEntry
    /\ f_pos' = [f_pos EXCEPT ![f] = 0]
    /\ last' = [last EXCEPT ![f] = 0]
    /\ owner' = DeadTask
    /\ UNCHANGED <<loaded, buffer, accepted, nextReadPosition, arg, reg, retval, reply>>

-----------------------------------------------------------------------------
(* aesd_ioctl with AESDCHAR_IOCSEEKTO, and aesd_adjust_file_offset.        *)

SeekCall(f) ==
    /\ f \in Seekers
    /\ \E cmd \in SeekCmds, off \in SeekOffs :
          /\ cmd < MaxOps
          /\ arg' = [arg EXCEPT ![f] = [cmd |-> cmd, off |-> off]]
    /\ Goto(f, "idle", "i_lock")
    /\ UNCHANGED <<device, nextReadPosition, owner, f_pos, reg, retval, reply, last>>

\* main.c:201-204 jump to r_done with devp uninitialized.  Whatever the stack
\* holds there is taken for the device: it may be the device, whose mutex is
\* unlocked whoever holds it: a task that is gone or nobody ...
UnlocksAnything(f) ==
    /\ f \in Seekers
    /\ \E cmd \in SeekCmds : cmd >= MaxOps
    /\ pc[f] = "idle"
    /\ owner' = NoFile
    /\ UNCHANGED <<device, nextReadPosition, pc, f_pos, user>>

Busy == \E f \in Files : pc[f] \in Critical

SeekUnlocks(f) == ~Busy /\ UnlocksAnything(f)

\* ... or a task in the middle of its body.  What follows is outside Next: two
\* tasks can be between lock and unlock, and a body is no longer one step.
SeekIntrudes(f) == Busy /\ UnlocksAnything(f)

\* ... or no pointer to anything, and the kernel ends the task.
SeekOops(f) ==
    /\ f \in Seekers
    /\ \E cmd \in SeekCmds : cmd >= MaxOps
    /\ Goto(f, "idle", "closed")
    /\ f_pos' = [f_pos EXCEPT ![f] = 0]
    /\ last' = [last EXCEPT ![f] = 0]
    /\ UNCHANGED <<device, nextReadPosition, owner, arg, reg, retval, reply>>

\* AESD_CIRCULAR_BUFFER_FOREACH visits the slots in array order (main.c:217-235).
\* Mutant: the command's own size is added as well.
SizeBefore_Inclusive(b, slot) == Sums([i \in Slots |-> b.entry[i].size], MaxOps)[slot + 1]
SizeBefore(b, slot) == Sums([i \in Slots |-> b.entry[i].size], MaxOps)[slot]

\* Mutant: any offset will do.
CanSeek_AnyOffset(b, cmd, off) == ~IsEmpty(b) /\ b.entry[cmd].buffptr # NULL
CanSeek(b, cmd, off) ==
    /\ ~IsEmpty(b)
    /\ b.entry[cmd].buffptr # NULL
    /\ off <= b.entry[cmd].size

Seek(f) ==
    /\ Goto(f, "i_body", "unlock")
    /\ CanSeek(buffer, arg[f].cmd, arg[f].off)
    /\ f_pos' = [f_pos EXCEPT ![f] = SizeBefore(buffer, arg[f].cmd) + arg[f].off]
    /\ last' = [last EXCEPT ![f] = 0]
    /\ Returns(f, "ok")
    /\ UNCHANGED <<device, nextReadPosition, owner, arg, reg, reply>>

SeekRefused(f) ==
    /\ Goto(f, "i_body", "unlock")
    /\ ~CanSeek(buffer, arg[f].cmd, arg[f].off)
    /\ Returns(f, "EINVAL")
    /\ UNCHANGED <<device, nextReadPosition, owner, f_pos, arg, reg, reply, last>>

-----------------------------------------------------------------------------
(* aesd_llseek: fixed_size_llseek with buf_len as the size of the file.    *)

LseekCall(f) ==
    /\ f \in Seekers
    /\ Goto(f, "idle", "l_lock")
    /\ UNCHANGED <<device, nextReadPosition, owner, f_pos, user>>

Lseek(f) ==
    /\ Goto(f, "l_body", "unlock")
    /\ \E target \in LseekTargets :
          IF target <= buffer.buf_len
          THEN /\ f_pos' = [f_pos EXCEPT ![f] = target]
               /\ last' = [last EXCEPT ![f] = 0]
               /\ Returns(f, "ok")
          ELSE /\ Returns(f, "EINVAL")
               /\ UNCHANGED <<f_pos, last>>
    /\ UNCHANGED <<device, nextReadPosition, owner, arg, reg, reply>>

-----------------------------------------------------------------------------
Body(f) ==
    \/ ReadNothing(f) \/ ReadSome(f) \/ ReadFaults(f) \/ ReadLoad(f) \/ ReadStore(f)
    \/ WriteNoMemory(f) \/ WriteSome(f) \/ WriteOops(f)
    \/ Seek(f) \/ SeekRefused(f)
    \/ Lseek(f)
    \/ Unlock(f)

Next ==
    \/ Load \/ Unload
    \/ \E f \in Files :
          \/ Open(f) \/ Release(f)
          \/ ReadCall(f) \/ WriteCall(f) \/ SeekCall(f) \/ LseekCall(f)
          \/ SeekUnlocks(f) \/ SeekOops(f)
          \/ Lock(f)
          \/ Body(f)

Spec == Init /\ [][Next]_vars

\* The same with the step that ends mutual exclusion.  It is meant for that one
\* step only, as from there on the bodies of two tasks may interleave.
IntrusionSpec == Init /\ [][Next \/ \E f \in Files : SeekIntrudes(f)]_vars

\* A task inside a call keeps running, and a mutex is handed to every task
\* that waits for it long enough.
FairSpec == Spec /\ \A f \in Files : WF_vars(Body(f)) /\ SF_vars(Lock(f))

-----------------------------------------------------------------------------
TypeOK ==
    /\ loaded \in BOOLEAN
    /\ buffer \in Buffers
    /\ working \in AnyEntry
    /\ nextReadPosition \in Nat
    /\ owner \in Files \cup {NoFile, DeadTask}
    /\ live \subseteq Ptrs
    /\ data \in [Ptrs -> Seq(Nat)]
    /\ pc \in [Files -> {"closed", "idle"} \cup Waiting \cup Critical]
    /\ f_pos \in [Files -> Nat]
    /\ arg \in [Files -> [cmd : Nat, off : Nat]]
    /\ reg \in [Files -> Nat]
    /\ retval \in [Files -> Outcomes]
    /\ reply \in [Files -> Seq(Nat)]
    /\ last \in [Files -> Nat]
    /\ accepted \in Nat

(***************************************************************************)
(* "Any necessary locking must be performed by caller"                     *)
(* (aesd-circular-buffer.c:37, 104): whoever works on the ring or on the   *)
(* working entry holds the lock, so no two tasks do.                       *)
(***************************************************************************)
CallerHoldsLock == \A f \in Files : pc[f] \in Critical => owner = f

(***************************************************************************)
(* The ring inside the device stays well formed and buf_len its total,     *)
(* across evictions, failed writes and reloads of the module.              *)
(***************************************************************************)
BufferInv == RingIsWellFormed(buffer) /\ BufLenIsTotalOf(buffer)

(***************************************************************************)
(* No pointer dangles and no two owners share memory: every entry of the   *)
(* ring and the working entry points to an allocation of its own, which    *)
(* holds as many bytes as its size says.  A free of an evicted packet      *)
(* (main.c:163) or at unload (main.c:346-349) hits nothing still in use.   *)
(***************************************************************************)
HeapSafe ==
    loaded =>
        /\ \A i \in Slots : buffer.entry[i].buffptr # NULL =>
              /\ buffer.entry[i].buffptr \in live
              /\ Len(data[buffer.entry[i].buffptr]) = buffer.entry[i].size
        /\ \A i, j \in Slots :
              buffer.entry[i].buffptr # NULL /\ buffer.entry[i].buffptr = buffer.entry[j].buffptr
                  => i = j
        /\ working.buffptr # NULL =>
              /\ working.buffptr \in live
              /\ working.buffptr \notin Held(buffer)
              /\ Len(data[working.buffptr]) = working.size

Leaked == live \ IF loaded THEN (Held(buffer) \cup {working.buffptr}) \ {NULL} ELSE {}

RunsOutOfMemory(f) == pc[f] = "w_body" /\ retval'[f] = "ENOMEM"

(***************************************************************************)
(* Nothing is leaked but by main.c:120, where a failing krealloc loses the *)
(* memory of the working entry: what is allocated stays in reach of the    *)
(* device until it is freed, and an unloaded module owns nothing.          *)
(***************************************************************************)
OnlyKreallocLeaks ==
    [][\/ Leaked' = Leaked
       \/ /\ \E f \in Files : RunsOutOfMemory(f)
          /\ Leaked' = Leaked \cup ({working.buffptr} \ {NULL})]_vars

-----------------------------------------------------------------------------
(* What readers and seekers get.                                           *)

Contents == FlattenSeq([j \in 1 .. Count(buffer) |-> data[Nth(buffer, j - 1).buffptr]])

Delivers(f) == reply'[f] # << >> /\ reply'[f] # reply[f]

(***************************************************************************)
(* A read delivers the bytes from the caller's file position on: the       *)
(* position it searches for is the character index into the strings        *)
(* "concatenated end to end" (aesd-circular-buffer.c:38-40).               *)
(***************************************************************************)
ReadsAtFpos ==
    [][\A f \in Files : Delivers(f) =>
          /\ f_pos'[f] <= Len(Contents)
          /\ reply'[f] = SubSeq(Contents, f_pos[f] + 1, f_pos'[f])]_vars

(***************************************************************************)
(* A reader that does not seek never gets a byte twice or out of order,    *)
(* although evictions move the window under its file position and a        *)
(* failing krealloc leaves bytes nobody wrote in their midst.              *)
(***************************************************************************)
ReadsForward ==
    [][\A f \in Files : Delivers(f) =>
          \A i \in DOMAIN reply'[f] : reply'[f][i] # Junk => reply'[f][i] > last[f]]_vars

Sought(f) == /\ pc[f] = "i_body" /\ pc'[f] = "unlock"
             /\ retval'[f] = "ok"

(***************************************************************************)
(* ioctl and llseek set no position behind the end of the file.            *)
(***************************************************************************)
SeeksStayInside ==
    [][\A f \in Files :
          Sought(f) \/ (pc[f] = "l_body" /\ retval'[f] = "ok")
              => f_pos'[f] <= buffer.buf_len]_vars

\* The position of byte off of the cmd-th oldest packet.
Position(cmd, off) == Running(buffer)[cmd] + off

(***************************************************************************)
(* Until the ring wraps, an ioctl seeks to the offset in the write command *)
(* it names, counted from the oldest (aesd_ioctl.h:26-33).                 *)
(***************************************************************************)
SeekFindsCommandUntilWrap ==
    [][\A f \in Files : Sought(f) /\ buffer.out_offs = 0
          => f_pos'[f] = Position(arg[f].cmd, arg[f].off)]_vars

(***************************************************************************)
(* The same for any ring: "The zero referenced write command to seek into" *)
(* (aesd_ioctl.h:27).                                                      *)
(***************************************************************************)
SeekFindsCommand ==
    [][\A f \in Files : Sought(f) => f_pos'[f] = Position(arg[f].cmd, arg[f].off)]_vars

(***************************************************************************)
(* Every call gets the lock in the end and returns, or its task is ended   *)
(* by the kernel, unless a task was ended between its lock and its unlock, *)
(* which a write of nothing to an empty working entry does (118-151): the  *)
(* mutex then stays with a task that is gone.                              *)
(***************************************************************************)
EveryCallReturns ==
    \A f \in Files : pc[f] \in Waiting \cup Critical
                        ~> pc[f] \in {"idle", "closed"} \/ owner = DeadTask

-----------------------------------------------------------------------------
(***************************************************************************)
(* The device implements the packet log: the ring and the bytes its        *)
(* entries point to are the packets, the working entry is what is pending. *)
(***************************************************************************)
Packets == [j \in 1 .. Count(buffer) |-> data[Nth(buffer, j - 1).buffptr]]

PL == INSTANCE PacketLog WITH
          Capacity <- MaxOps,
          MaxWrite <- Max(WriteCounts),
          packets  <- IF loaded THEN Packets ELSE << >>,
          pending  <- IF loaded THEN Kept ELSE << >>

ImplementsPacketLog == PL!Spec
=============================================================================
