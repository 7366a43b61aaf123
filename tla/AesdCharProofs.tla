--------------------------- MODULE AesdCharProofs ---------------------------
(***************************************************************************)
(* Safety of the driver for any number of tasks, slots and addresses: the  *)
(* lock, types, the ring inside the device and the heap.                   *)
(***************************************************************************)
EXTENDS AesdChar, RingProofs

Places == {"closed", "idle"} \cup Waiting \cup Critical

\* While the module is not loaded, no file is open.
Placement == ~loaded => \A f \in Files : pc[f] = "closed"

LockInv ==
    /\ pc \in [Files -> Places]
    /\ Placement
    /\ CallerHoldsLock

-----------------------------------------------------------------------------
(* The lock.                                                               *)

LEMMA CallsKeepLockInv ==
    ASSUME LockInv, NEW f \in Files,
           \/ Open(f) \/ Release(f)
           \/ ReadCall(f) \/ WriteCall(f) \/ SeekCall(f) \/ LseekCall(f) \/ SeekOops(f)
    PROVE  LockInv'
<1>1. /\ owner' = owner /\ loaded' = loaded
      /\ \/ pc' = [pc EXCEPT ![f] = "idle"] /\ loaded
         \/ pc' = [pc EXCEPT ![f] = "closed"]
         \/ /\ pc[f] = "idle"
            /\ \E w \in Waiting : pc' = [pc EXCEPT ![f] = w]
  BY DEF Open, Release, ReadCall, WriteCall, SeekCall, LseekCall, SeekOops, Goto, device, Waiting
<1>q. QED
  BY <1>1 DEF LockInv, Placement, CallerHoldsLock, Places, Waiting, Critical

LEMMA LockKeepsLockInv ==
    ASSUME LockInv, NEW f \in Files, Lock(f), NoFile \notin Files
    PROVE  LockInv'
<1>1. /\ pc[f] \in Waiting /\ owner = NoFile /\ owner' = f /\ loaded' = loaded
      /\ \E c \in Critical : pc' = [pc EXCEPT ![f] = c]
  <2>1. /\ pc[f] \in Waiting /\ owner = NoFile /\ owner' = f /\ loaded' = loaded
        /\ pc' = [pc EXCEPT ![f] = AfterLock[pc[f]]]
    BY DEF Lock, device
  <2>2. \A w \in Waiting : AfterLock[w] \in Critical
    BY DEF AfterLock, Waiting, Critical
  <2>q. QED BY <2>1, <2>2
<1>2. \A g \in Files : pc[g] \notin Critical
  BY <1>1 DEF LockInv, CallerHoldsLock
<1>q. QED
  BY <1>1, <1>2 DEF LockInv, Placement, CallerHoldsLock, Places, Waiting, Critical

\* Whatever runs in a critical section stays in it, leaves it by unlocking, or
\* ends and leaves the lock to a task that is gone.
LEMMA BodyKeepsLockInv ==
    ASSUME LockInv, NEW f \in Files, Body(f)
    PROVE  LockInv'
<1>1. CASE Unlock(f)
  <2>1. /\ owner = f /\ owner' = NoFile /\ loaded' = loaded
        /\ pc[f] = "unlock" /\ pc' = [pc EXCEPT ![f] = "idle"]
    BY <1>1 DEF Unlock, Goto, device, LockInv, CallerHoldsLock, Critical
  <2>q. QED
    BY <2>1 DEF LockInv, Placement, CallerHoldsLock, Places, Waiting, Critical
<1>2. CASE WriteOops(f)
  <2>1. /\ owner = f /\ loaded' = loaded
        /\ pc[f] = "w_body" /\ pc' = [pc EXCEPT ![f] = "closed"]
    BY <1>2 DEF WriteOops, Goto, LockInv, CallerHoldsLock, Critical
  <2>q. QED
    BY <2>1 DEF LockInv, Placement, CallerHoldsLock, Places, Waiting, Critical
<1>3. CASE ~Unlock(f) /\ ~WriteOops(f)
  <2>1. /\ pc[f] \in Critical /\ owner' = owner /\ loaded' = loaded
        /\ \E c \in Critical : pc' = [pc EXCEPT ![f] = c]
    BY <1>3 DEF Body, ReadNothing, ReadSome, ReadFaults, ReadLoad, ReadStore,
                WriteNoMemory, WriteSome, Seek, SeekRefused, Lseek,
                Goto, device, Critical
  <2>q. QED
    BY <2>1 DEF LockInv, Placement, CallerHoldsLock, Places, Waiting, Critical
<1>q. QED BY <1>1, <1>2, <1>3

(***************************************************************************)
(* Only the task that holds the lock works on the ring, whatever the tasks *)
(* call in whatever order, up to the first seek to an impossible command   *)
(* that meets a task in its body.  As long as that has not happened a body *)
(* runs to its end before the next begins, so it may be one step.          *)
(***************************************************************************)
THEOREM LockCorrect == Spec => []CallerHoldsLock
<1>1. Init => LockInv
  BY DEF Init, LockInv, Placement, CallerHoldsLock, Places, Critical
<1>2. LockInv /\ [Next]_vars => LockInv'
  <2> SUFFICES ASSUME LockInv, [Next]_vars PROVE LockInv'
    OBVIOUS
  <2>1. CASE Load
    <3>1. pc' = pc /\ \A f \in Files : pc[f] = "closed"
      BY <2>1 DEF Load, LockInv, Placement
    <3>q. QED BY <3>1 DEF LockInv, Placement, CallerHoldsLock, Critical
  <2>2. CASE Unload
    <3>1. pc' = pc /\ \A f \in Files : pc[f] = "closed"
      BY <2>2 DEF Unload
    <3>q. QED BY <3>1 DEF LockInv, Placement, CallerHoldsLock, Critical
  <2>3. ASSUME NEW f \in Files,
               \/ Open(f) \/ Release(f)
               \/ ReadCall(f) \/ WriteCall(f) \/ SeekCall(f) \/ LseekCall(f) \/ SeekOops(f)
        PROVE  LockInv'
    BY <2>3, CallsKeepLockInv
  <2>4. ASSUME NEW f \in Files, Lock(f) PROVE LockInv'
    BY <2>4, LockKeepsLockInv, FilesAssumption
  <2>5. ASSUME NEW f \in Files, Body(f) PROVE LockInv'
    BY <2>5, BodyKeepsLockInv
  <2>6. ASSUME NEW f \in Files, SeekUnlocks(f) PROVE LockInv'
    <3>1. /\ pc' = pc /\ loaded' = loaded
          /\ \A g \in Files : pc[g] \notin Critical
      BY <2>6 DEF SeekUnlocks, UnlocksAnything, Busy, device
    <3>q. QED BY <3>1 DEF LockInv, Placement, CallerHoldsLock
  <2>7. CASE UNCHANGED vars
    BY <2>7 DEF vars, device, LockInv, Placement, CallerHoldsLock
  <2>q. QED
    BY <2>1, <2>2, <2>3, <2>4, <2>5, <2>6, <2>7 DEF Next
<1>3. LockInv => CallerHoldsLock
  BY DEF LockInv
<1>q. QED BY <1>1, <1>2, <1>3, PTL DEF Spec

-----------------------------------------------------------------------------
(***************************************************************************)
(* The device: types, the ring and the heap.  What the tasks keep is       *)
(* separate from it, because most steps change only the one or the other.  *)
(***************************************************************************)
DeviceInv ==
    /\ loaded \in BOOLEAN
    /\ Good(buffer)
    /\ working \in AnyEntry
    /\ live \subseteq Ptrs
    /\ data \in [Ptrs -> Seq(Nat)]
    /\ accepted \in Nat
    /\ HeapSafe

UserInv ==
    /\ nextReadPosition \in Nat
    /\ owner \in Files \cup {NoFile, DeadTask}
    /\ pc \in [Files -> Places]
    /\ Placement
    /\ f_pos \in [Files -> Nat]
    /\ arg \in [Files -> [cmd : Slots, off : Nat]]
    /\ reg \in [Files -> Nat]
    /\ retval \in [Files -> Outcomes]
    /\ reply \in [Files -> Seq(Nat)]
    /\ last \in [Files -> Nat]

\* The entry add_entry leaves in overflow_entry is in no walk.
LEMMA OverflowIsUnseen ==
    ASSUME NEW b, Good(b)
    PROVE  Good([b EXCEPT !.overflow_entry.buffptr = NULL])
<1> DEFINE c == [b EXCEPT !.overflow_entry.buffptr = NULL]
<1>1. b \in Buffers /\ RingIsWellFormed(b) /\ BufLenIsTotalOf(b)
  BY DEF Good
<1>2. /\ c.entry = b.entry /\ c.in_offs = b.in_offs /\ c.out_offs = b.out_offs
      /\ c.full = b.full /\ c.buf_len = b.buf_len
      /\ c \in Buffers
  BY <1>1 DEF Buffers, AnyEntry
<1> HIDE DEF c
<1>3. RingIsWellFormed(c)
  BY <1>1, <1>2 DEF RingIsWellFormed
<1>4. Count(c) = Count(b) /\ \A j : Nth(c, j) = Nth(b, j)
  BY <1>2 DEF Count, Nth, SlotOf
<1>5. Running(c) = Running(b)
  BY <1>4 DEF Running
<1>6. BufLenIsTotalOf(c)
  BY <1>1, <1>2, <1>4, <1>5 DEF BufLenIsTotalOf
<1>q. QED
  BY <1>2, <1>3, <1>6 DEF Good, c

LEMMA HeapFacts ==
    ASSUME DeviceInv, loaded
    PROVE  /\ buffer \in Buffers /\ RingIsWellFormed(buffer)
           /\ buffer.entry \in [Slots -> AnyEntry] /\ buffer.in_offs \in Slots
           /\ \A i \in Slots : buffer.entry[i].buffptr # NULL =>
                 /\ buffer.entry[i].buffptr \in live
                 /\ buffer.entry[i].buffptr # working.buffptr
                 /\ Len(data[buffer.entry[i].buffptr]) = buffer.entry[i].size
           /\ working.size \in Nat /\ working.buffptr \in Ptrs \cup {NULL}
           /\ Kept \in Seq(Nat) /\ Len(Kept) = working.size
<1>1. buffer \in Buffers /\ RingIsWellFormed(buffer)
  BY DEF DeviceInv, Good
<1>2. buffer.entry \in [Slots -> AnyEntry] /\ buffer.in_offs \in Slots
  BY <1>1, Fields
<1>3. working.size \in Nat /\ working.buffptr \in Ptrs \cup {NULL}
  BY DEF DeviceInv, AnyEntry
<1>4. \A i \in Slots : buffer.entry[i].buffptr # NULL =>
         /\ buffer.entry[i].buffptr \in live
         /\ buffer.entry[i].buffptr # working.buffptr
         /\ Len(data[buffer.entry[i].buffptr]) = buffer.entry[i].size
  BY DEF DeviceInv, HeapSafe, Held
<1>5. Kept \in Seq(Nat) /\ Len(Kept) = working.size
  <2>1. CASE working.buffptr = NULL
    <3>1. Kept = [i \in 1 .. working.size |-> Junk]
      BY <2>1 DEF Kept
    <3>q. QED BY <1>3, <3>1 DEF Junk
  <2>2. CASE working.buffptr # NULL
    BY <1>3, <2>2 DEF Kept, DeviceInv, HeapSafe
  <2>q. QED BY <2>1, <2>2
<1>q. QED BY <1>1, <1>2, <1>3, <1>4, <1>5

(***************************************************************************)
(* The steps of the device.  What krealloc returned, p, is no pointer of   *)
(* the ring.                                                               *)
(***************************************************************************)
LEMMA ReallocatedIsFresh ==
    ASSUME DeviceInv, loaded, NEW p \in Reallocated
    PROVE  /\ p \in Ptrs /\ p # NULL
           /\ \A i \in Slots : buffer.entry[i].buffptr # p
<1>1. p \in Ptrs \ live \/ (p = working.buffptr /\ p # NULL)
  BY DEF Reallocated
<1>2. p \in Ptrs /\ p # NULL
  BY <1>1, HeapFacts, NullAssumption
<1>q. QED BY <1>1, <1>2, HeapFacts

LEMMA HeapEffect ==
    ASSUME DeviceInv, NEW p \in Ptrs, NEW bytes \in Seq(Nat), NEW gone, Heap(p, bytes, gone)
    PROVE  /\ live' \subseteq Ptrs
           /\ data' \in [Ptrs -> Seq(Nat)]
           /\ p \in live' /\ data'[p] = bytes
           /\ \A q \in live : q \notin {p, working.buffptr, gone}
                 => q \in live' /\ data'[q] = data[q]
  BY DEF Heap, DeviceInv

LEMMA CollectKeepsDeviceInv ==
    ASSUME DeviceInv, loaded, loaded' = loaded, accepted' \in Nat,
           NEW p \in Reallocated, NEW total \in Nat,
           NEW bytes \in Seq(Nat), Len(bytes) = total,
           Collect(p, total, bytes)
    PROVE  DeviceInv'
<1>1. /\ working' = [buffptr |-> p, size |-> total] /\ buffer' = buffer
      /\ Heap(p, bytes, NULL)
  BY DEF Collect
<1>2. p \in Ptrs /\ p # NULL /\ \A i \in Slots : buffer.entry[i].buffptr # p
  BY ReallocatedIsFresh
<1>3. /\ live' \subseteq Ptrs /\ data' \in [Ptrs -> Seq(Nat)]
      /\ p \in live' /\ data'[p] = bytes
      /\ \A q \in live : q \notin {p, working.buffptr, NULL} => q \in live' /\ data'[q] = data[q]
  BY <1>1, <1>2, HeapEffect
<1>4. working' \in AnyEntry /\ working'.buffptr = p /\ working'.size = total
  BY <1>1, <1>2 DEF AnyEntry
<1>5. \A i \in Slots : buffer.entry[i].buffptr # NULL =>
         /\ buffer.entry[i].buffptr \in live'
         /\ Len(data'[buffer.entry[i].buffptr]) = buffer.entry[i].size
  BY <1>2, <1>3, HeapFacts
<1>6. p \notin Held(buffer)
  BY <1>2 DEF Held
<1>7. HeapSafe'
  BY <1>1, <1>3, <1>4, <1>5, <1>6 DEF HeapSafe, DeviceInv
<1>q. QED
  BY <1>1, <1>3, <1>4, <1>7 DEF DeviceInv

\* The slot at in_offs takes the packet and no other slot changes; the entry that
\* is freed is the one that was in that slot.
LEMMA CommitEntries ==
    ASSUME DeviceInv, loaded, NEW p \in Reallocated, NEW total \in Nat, NEW bytes,
           Commit(p, total, bytes)
    PROVE  /\ Good(buffer')
           /\ buffer.in_offs \in Slots
           /\ Overwritten(buffer).buffptr = buffer.entry[buffer.in_offs].buffptr
           /\ buffer'.entry[buffer.in_offs] = [buffptr |-> p, size |-> total]
           /\ \A i \in Slots \ {buffer.in_offs} : buffer'.entry[i] = buffer.entry[i]
<1> DEFINE e == [buffptr |-> p, size |-> total]
           added == AddEntry(buffer, e)
           in == buffer.in_offs
<1>1. buffer' = IF buffer.full THEN [added EXCEPT !.overflow_entry.buffptr = NULL] ELSE added
  BY DEF Commit
<1>2. Good(added)
  <2>1. e \in Entries
    BY ReallocatedIsFresh DEF Entries
  <2>q. QED BY <2>1, AddKeepsGood DEF DeviceInv
<1>3. Good(buffer')
  BY <1>1, <1>2, OverflowIsUnseen
<1>4. /\ in \in Slots /\ buffer.entry \in [Slots -> AnyEntry]
      /\ buffer'.entry = [buffer.entry EXCEPT ![in] = e]
  <2>1. added.entry = [buffer.entry EXCEPT ![in] = e]
    BY AddFields
  <2>2. buffer'.entry = added.entry
    <3>1. added \in Buffers
      BY <1>2 DEF Good
    <3>q. QED BY <1>1, <3>1 DEF Buffers
  <2>q. QED BY <2>1, <2>2, HeapFacts
<1>5. Overwritten(buffer).buffptr = buffer.entry[in].buffptr
  <2>1. CASE buffer.full
    BY <2>1 DEF Overwritten
  <2>2. CASE ~buffer.full
    <3>1. buffer.entry[in] = NullEntry
      <4>1. ~(in < in)
        BY <1>4 DEF Slots
      <4>q. QED BY <1>4, <2>2, <4>1, HeapFacts DEF RingIsWellFormed
    <3>q. QED BY <2>2, <3>1 DEF Overwritten
  <2>q. QED BY <2>1, <2>2
<1>q. QED BY <1>3, <1>4, <1>5

LEMMA CommitKeepsDeviceInv ==
    ASSUME DeviceInv, loaded, loaded' = loaded, accepted' \in Nat,
           NEW p \in Reallocated, NEW total \in Nat,
           NEW bytes \in Seq(Nat), Len(bytes) = total,
           Commit(p, total, bytes)
    PROVE  DeviceInv'
<1> DEFINE e == [buffptr |-> p, size |-> total]
           old == Overwritten(buffer)
           in == buffer.in_offs
<1>1. /\ working' = NullEntry
      /\ Heap(p, bytes, old.buffptr)
  BY DEF Commit
<1>2. p \in Ptrs /\ p # NULL /\ \A i \in Slots : buffer.entry[i].buffptr # p
  BY ReallocatedIsFresh
<1>3. /\ live' \subseteq Ptrs /\ data' \in [Ptrs -> Seq(Nat)]
      /\ p \in live' /\ data'[p] = bytes
      /\ \A q \in live : q \notin {p, working.buffptr, old.buffptr}
            => q \in live' /\ data'[q] = data[q]
  BY <1>1, <1>2, HeapEffect
<1>4. /\ Good(buffer') /\ in \in Slots
      /\ old.buffptr = buffer.entry[in].buffptr
      /\ buffer'.entry[in] = e
      /\ \A i \in Slots \ {in} : buffer'.entry[i] = buffer.entry[i]
  BY CommitEntries
<1> HIDE DEF old, in
<1>5. \A i, j \in Slots :
         buffer.entry[i].buffptr # NULL /\ buffer.entry[i].buffptr = buffer.entry[j].buffptr => i = j
  BY DEF DeviceInv, HeapSafe
<1>6. \A i \in Slots \ {in} : buffer.entry[i].buffptr # NULL =>
          /\ buffer.entry[i].buffptr \in live'
          /\ Len(data'[buffer.entry[i].buffptr]) = buffer.entry[i].size
  <2> SUFFICES ASSUME NEW i \in Slots \ {in}, buffer.entry[i].buffptr # NULL
               PROVE  /\ buffer.entry[i].buffptr \in live'
                      /\ Len(data'[buffer.entry[i].buffptr]) = buffer.entry[i].size
    OBVIOUS
  <2>1. buffer.entry[i].buffptr \notin {p, working.buffptr, old.buffptr}
    BY <1>2, <1>4, <1>5, HeapFacts
  <2>q. QED BY <1>3, <2>1, HeapFacts
<1>7. \A i \in Slots : buffer'.entry[i].buffptr # NULL =>
          /\ buffer'.entry[i].buffptr \in live'
          /\ Len(data'[buffer'.entry[i].buffptr]) = buffer'.entry[i].size
  <2>1. e.buffptr = p /\ e.size = total
    OBVIOUS
  <2>2. /\ buffer'.entry[in].buffptr \in live'
        /\ Len(data'[buffer'.entry[in].buffptr]) = buffer'.entry[in].size
    <3>1. buffer'.entry[in].buffptr = p /\ buffer'.entry[in].size = total
      BY <1>4, <2>1
    <3>q. QED BY <1>3, <3>1
  <2>q. QED BY <1>4, <1>6, <2>2
<1>8. \A i, j \in Slots :
          buffer'.entry[i].buffptr # NULL /\ buffer'.entry[i].buffptr = buffer'.entry[j].buffptr
             => i = j
  <2>1. e.buffptr = p
    OBVIOUS
  <2>q. QED BY <1>2, <1>4, <1>5, <2>1
<1>9. working' \in AnyEntry /\ working'.buffptr = NULL
  BY <1>1 DEF AnyEntry, NullEntry
<1>10. HeapSafe'
  BY <1>7, <1>8, <1>9 DEF HeapSafe
<1>q. QED
  BY <1>3, <1>4, <1>9, <1>10 DEF DeviceInv

\* What a write of k bytes leaves at p.
LEMMA WrittenBytes ==
    ASSUME DeviceInv, loaded, NEW k \in Nat
    PROVE  /\ Kept \o NewBytes(k) \in Seq(Nat)
           /\ Len(Kept \o NewBytes(k)) = working.size + k
           /\ working.size + k \in Nat
<1>1. accepted \in Nat
  BY DEF DeviceInv
<1>2. NewBytes(k) \in Seq(Nat) /\ Len(NewBytes(k)) = k
  BY <1>1 DEF NewBytes
<1>3. Kept \in Seq(Nat) /\ Len(Kept) = working.size /\ working.size \in Nat
  BY HeapFacts
<1> DEFINE new == NewBytes(k)
<1> HIDE DEF new
<1>4. Kept \o new \in Seq(Nat) /\ Len(Kept \o new) = Len(Kept) + Len(new)
  BY <1>2, <1>3, ConcatProperties DEF new
<1>5. Len(new) = k
  BY <1>2 DEF new
<1>q. QED BY <1>3, <1>4, <1>5 DEF new

LEMMA WriteSomeKeepsDeviceInv ==
    ASSUME DeviceInv, loaded, NEW f \in Files, WriteSome(f)
    PROVE  DeviceInv'
<1>1. PICK count \in WriteCounts, p \in Reallocated :
         \E k \in Copied(count) :
            /\ \E ends \in EndsPacket(k) :
                  IF ends THEN Commit(p, working.size + k, Kept \o NewBytes(k))
                          ELSE Collect(p, working.size + k, Kept \o NewBytes(k))
            /\ accepted' = accepted + k
            /\ loaded' = loaded
  BY DEF WriteSome
<1>2. PICK k \in Copied(count) :
         /\ \E ends \in EndsPacket(k) :
               IF ends THEN Commit(p, working.size + k, Kept \o NewBytes(k))
                       ELSE Collect(p, working.size + k, Kept \o NewBytes(k))
         /\ accepted' = accepted + k
         /\ loaded' = loaded
  BY <1>1
<1>3. k \in Nat
  BY CallsAssumption DEF Copied
<1>4. accepted' \in Nat
  BY <1>2, <1>3 DEF DeviceInv
<1>5. CASE Commit(p, working.size + k, Kept \o NewBytes(k))
  BY <1>2, <1>3, <1>4, <1>5, WrittenBytes, CommitKeepsDeviceInv
<1>6. CASE Collect(p, working.size + k, Kept \o NewBytes(k))
  BY <1>2, <1>3, <1>4, <1>6, WrittenBytes, CollectKeepsDeviceInv
<1>q. QED BY <1>2, <1>5, <1>6

LEMMA FreedEffect ==
    ASSUME DeviceInv, NEW ptrs, Freed(ptrs)
    PROVE  /\ live' = live \ ptrs /\ live' \subseteq Ptrs
           /\ data' \in [Ptrs -> Seq(Nat)]
           /\ \A q \in live' : data'[q] = data[q]
  BY DEF Freed, DeviceInv

LEMMA WriteOopsKeepsDeviceInv ==
    ASSUME DeviceInv, loaded, NEW f \in Files, WriteOops(f)
    PROVE  DeviceInv'
<1>1. /\ Freed({working.buffptr} \ {NULL}) /\ working' = NullEntry
      /\ buffer' = buffer /\ loaded' = loaded /\ accepted' = accepted
  BY DEF WriteOops
<1>2. /\ live' = live \ ({working.buffptr} \ {NULL}) /\ live' \subseteq Ptrs
      /\ data' \in [Ptrs -> Seq(Nat)]
      /\ \A q \in live' : data'[q] = data[q]
  BY <1>1, FreedEffect
<1>3. working' \in AnyEntry /\ working'.buffptr = NULL
  BY <1>1 DEF AnyEntry, NullEntry
<1>4. \A i \in Slots : buffer.entry[i].buffptr # NULL =>
         /\ buffer.entry[i].buffptr \in live'
         /\ Len(data'[buffer.entry[i].buffptr]) = buffer.entry[i].size
  BY <1>2, HeapFacts
<1>5. HeapSafe'
  BY <1>1, <1>3, <1>4 DEF HeapSafe, DeviceInv
<1>q. QED BY <1>1, <1>2, <1>3, <1>5 DEF DeviceInv

LEMMA WriteNoMemoryKeepsDeviceInv ==
    ASSUME DeviceInv, NEW f \in Files, WriteNoMemory(f)
    PROVE  DeviceInv'
<1>1. /\ working' = [working EXCEPT !.buffptr = NULL]
      /\ UNCHANGED <<loaded, buffer, live, data, accepted>>
  BY DEF WriteNoMemory
<1>2. working' \in AnyEntry /\ working'.buffptr = NULL
  BY <1>1 DEF DeviceInv, AnyEntry
<1>3. HeapSafe'
  BY <1>1, <1>2 DEF HeapSafe, DeviceInv
<1>q. QED BY <1>1, <1>2, <1>3 DEF DeviceInv

LEMMA LoadKeepsDeviceInv ==
    ASSUME DeviceInv, Load
    PROVE  DeviceInv'
<1>1. /\ loaded' = TRUE /\ buffer' = EmptyBuffer /\ working' = NullEntry
      /\ UNCHANGED <<live, data, accepted>>
  BY DEF Load
<1>2. working' \in AnyEntry /\ working'.buffptr = NULL
  BY <1>1 DEF AnyEntry, NullEntry
<1>3. \A i \in Slots : buffer'.entry[i].buffptr = NULL
  BY <1>1 DEF EmptyBuffer, NullEntry
<1>4. HeapSafe'
  BY <1>2, <1>3 DEF HeapSafe
<1>q. QED BY <1>1, <1>2, <1>4, EmptyIsGood DEF DeviceInv

LEMMA UnloadKeepsDeviceInv ==
    ASSUME DeviceInv, Unload
    PROVE  DeviceInv'
<1> DEFINE ptrs == (Held(buffer) \cup {working.buffptr}) \ {NULL}
<1>1. /\ loaded' = FALSE /\ Freed(ptrs)
      /\ UNCHANGED <<buffer, working, accepted>>
  BY DEF Unload
<1> HIDE DEF ptrs
<1>2. live' \subseteq Ptrs /\ data' \in [Ptrs -> Seq(Nat)]
  BY <1>1, FreedEffect
<1>3. HeapSafe'
  BY <1>1 DEF HeapSafe
<1>q. QED BY <1>1, <1>2, <1>3 DEF DeviceInv

\* Every other step leaves the device alone.
LEMMA QuietSteps ==
    ASSUME NEW f \in Files,
           \/ Open(f) \/ Release(f)
           \/ ReadCall(f) \/ WriteCall(f) \/ SeekCall(f) \/ LseekCall(f)
           \/ SeekUnlocks(f) \/ SeekOops(f)
           \/ Lock(f)
           \/ ReadNothing(f) \/ ReadSome(f) \/ ReadFaults(f) \/ ReadLoad(f) \/ ReadStore(f)
           \/ Seek(f) \/ SeekRefused(f) \/ Lseek(f) \/ Unlock(f)
    PROVE  UNCHANGED device
  BY DEF Open, Release, ReadCall, WriteCall, SeekCall, LseekCall, SeekUnlocks, UnlocksAnything, SeekOops,
         Lock, ReadNothing, ReadSome, ReadFaults, ReadLoad, ReadStore,
         Seek, SeekRefused, Lseek, Unlock

LEMMA QuietKeepsDeviceInv ==
    ASSUME DeviceInv, UNCHANGED device
    PROVE  DeviceInv'
  BY DEF DeviceInv, device, HeapSafe

-----------------------------------------------------------------------------
(* What the tasks keep.                                                    *)

\* A read copies bytes that are there.
LEMMA ReadSomeKeepsUserInv ==
    ASSUME DeviceInv, UserInv, NEW f \in Files, ReadSome(f)
    PROVE  UserInv'
<1> DEFINE hit == FindEntry(buffer, nextReadPosition)
           e == buffer.entry[hit.slot]
           bytes == data[e.buffptr]
<1>1. /\ pc[f] = "r_body" /\ pc' = [pc EXCEPT ![f] = "r_load"]
      /\ hit # NotFound
      /\ retval' = [retval EXCEPT ![f] = "ok"]
      /\ UNCHANGED <<loaded, nextReadPosition, owner, arg>>
  BY DEF ReadSome, Goto, Returns, device
<1>2. PICK count \in ReadCounts :
        LET n == Min2(e.size - hit.offset, count)
        IN  /\ reply' = [reply EXCEPT ![f] = SubSeq(bytes, hit.offset + 1, hit.offset + n)]
            /\ last' = [last EXCEPT ![f] = Max2(@, bytes[hit.offset + n])]
            /\ f_pos' = [f_pos EXCEPT ![f] = @ + n]
            /\ reg' = [reg EXCEPT ![f] = n]
  BY DEF ReadSome
<1> DEFINE n == Min2(e.size - hit.offset, count)
<1>3. loaded
  BY <1>1 DEF UserInv, Placement
<1>4. /\ hit.slot \in Slots /\ e.buffptr # NULL
      /\ hit.offset \in Nat /\ hit.offset < e.size
  BY <1>1, <1>3, FindEntryHits, HeapFacts DEF UserInv
<1>5. bytes \in Seq(Nat) /\ Len(bytes) = e.size /\ e.size \in Nat
  <2>1. /\ e.buffptr \in live /\ Len(bytes) = e.size
    BY <1>3, <1>4, HeapFacts
  <2>2. e.size \in Nat
    BY <1>3, <1>4, HeapFacts, AnyEntrySize
  <2>q. QED BY <2>1, <2>2 DEF DeviceInv
<1> HIDE DEF hit, e, bytes
<1>6. n \in Nat /\ n > 0 /\ hit.offset + n <= e.size
  BY <1>4, <1>5, CallsAssumption DEF Min2
<1> HIDE DEF n
<1>7. /\ bytes[hit.offset + n] \in Nat
      /\ SubSeq(bytes, hit.offset + 1, hit.offset + n) \in Seq(Nat)
  <2>1. hit.offset + n \in 1 .. Len(bytes) /\ hit.offset + 1 \in 1 .. Len(bytes) + 1
    BY <1>4, <1>5, <1>6
  <2>q. QED BY <1>5, <2>1, ElementOfSeq, SubSeqProperties
<1>8. /\ f_pos' \in [Files -> Nat] /\ reg' \in [Files -> Nat]
      /\ last' \in [Files -> Nat] /\ reply' \in [Files -> Seq(Nat)]
  <2>1. Max2(last[f], bytes[hit.offset + n]) \in Nat
    BY <1>7 DEF UserInv, Max2
  <2>q. QED BY <1>2, <1>6, <1>7, <2>1 DEF UserInv, n
<1>9. Placement' /\ pc' \in [Files -> Places] /\ retval' \in [Files -> Outcomes]
  BY <1>1, <1>3 DEF Placement, UserInv, Places, Critical, Outcomes
<1>q. QED BY <1>1, <1>8, <1>9 DEF UserInv

\* So does the sum of the sizes in front of a command have a value.
LEMMA SeekKeepsUserInv ==
    ASSUME DeviceInv, UserInv, NEW f \in Files, Seek(f)
    PROVE  UserInv'
<1> DEFINE sizes == [i \in Slots |-> buffer.entry[i].size]
<1>1. /\ pc[f] = "i_body" /\ pc' = [pc EXCEPT ![f] = "unlock"]
      /\ f_pos' = [f_pos EXCEPT ![f] = SizeBefore(buffer, arg[f].cmd) + arg[f].off]
      /\ last' = [last EXCEPT ![f] = 0]
      /\ retval' = [retval EXCEPT ![f] = "ok"]
      /\ UNCHANGED <<loaded, nextReadPosition, owner, arg, reg, reply>>
  BY DEF Seek, Goto, Returns, device
<1>2. arg[f].cmd \in Slots /\ arg[f].off \in Nat
  BY DEF UserInv
<1>3. sizes \in [0 .. MaxOps - 1 -> Nat]
  <2>1. buffer.entry \in [Slots -> AnyEntry]
    BY Fields DEF DeviceInv, Good
  <2>q. QED BY <2>1, AnyEntrySize DEF Slots
<1>4. Sums(sizes, MaxOps) \in [0 .. MaxOps -> Nat]
  BY <1>3, SumsAreSums, MaxOpsAssumption DEF IsSums
<1>5. SizeBefore(buffer, arg[f].cmd) \in Nat
  <2>1. SizeBefore(buffer, arg[f].cmd) = Sums(sizes, MaxOps)[arg[f].cmd]
    BY DEF SizeBefore
  <2> HIDE DEF sizes
  <2>2. arg[f].cmd \in 0 .. MaxOps
    BY <1>2, MaxOpsAssumption DEF Slots
  <2>q. QED BY <1>4, <2>1, <2>2
<1>6. f_pos' \in [Files -> Nat]
  BY <1>1, <1>2, <1>5 DEF UserInv
<1>q. QED
  BY <1>1, <1>6 DEF UserInv, Placement, Places, Critical, Outcomes

LEMMA CallsKeepUserInv ==
    ASSUME UserInv, NEW f \in Files,
           \/ Open(f) \/ Release(f)
           \/ ReadCall(f) \/ WriteCall(f) \/ SeekCall(f) \/ LseekCall(f)
           \/ SeekUnlocks(f) \/ SeekOops(f) \/ Lock(f) \/ Unlock(f)
    PROVE  UserInv'
<1>1. CASE Open(f) \/ Release(f) \/ SeekOops(f)
  <2>1. /\ \/ loaded /\ pc' = [pc EXCEPT ![f] = "idle"]
           \/ pc' = [pc EXCEPT ![f] = "closed"]
        /\ f_pos' = [f_pos EXCEPT ![f] = 0] /\ last' = [last EXCEPT ![f] = 0]
        /\ UNCHANGED <<loaded, nextReadPosition, owner, arg, reg, retval, reply>>
    BY <1>1 DEF Open, Release, SeekOops, Goto, device
  <2>q. QED BY <2>1 DEF UserInv, Placement, Places
<1>2. CASE ReadCall(f) \/ WriteCall(f) \/ LseekCall(f)
  <2>1. /\ pc[f] = "idle" /\ \E w \in Waiting : pc' = [pc EXCEPT ![f] = w]
        /\ nextReadPosition' \in {nextReadPosition, f_pos[f]}
        /\ UNCHANGED <<loaded, owner, f_pos, arg, reg, retval, reply, last>>
    BY <1>2 DEF ReadCall, WriteCall, LseekCall, Goto, device, user, Waiting
  <2>q. QED BY <2>1 DEF UserInv, Placement, Places
<1>3. CASE SeekCall(f)
  <2>1. /\ pc[f] = "idle" /\ pc' = [pc EXCEPT ![f] = "i_lock"]
        /\ \E cmd \in SeekCmds, off \in SeekOffs :
              cmd < MaxOps /\ arg' = [arg EXCEPT ![f] = [cmd |-> cmd, off |-> off]]
        /\ UNCHANGED <<loaded, nextReadPosition, owner, f_pos, reg, retval, reply, last>>
    BY <1>3 DEF SeekCall, Goto, device
  <2>2. \A cmd \in SeekCmds, off \in SeekOffs : cmd < MaxOps => cmd \in Slots /\ off \in Nat
    BY CallsAssumption, MaxOpsAssumption DEF Slots
  <2>q. QED BY <2>1, <2>2 DEF UserInv, Placement, Places, Waiting
<1>4. CASE SeekUnlocks(f)
  BY <1>4 DEF SeekUnlocks, UnlocksAnything, device, user, UserInv, Placement
<1>5. CASE Lock(f)
  <2>1. /\ pc[f] \in Waiting /\ owner' = f
        /\ pc' = [pc EXCEPT ![f] = AfterLock[pc[f]]]
        /\ UNCHANGED <<loaded, nextReadPosition, f_pos, arg, reg, retval, reply, last>>
    BY <1>5 DEF Lock, device, user
  <2>2. \A w \in Waiting : AfterLock[w] \in Critical
    BY DEF AfterLock, Waiting, Critical
  <2>q. QED BY <2>1, <2>2 DEF UserInv, Placement, Places, Waiting
<1>6. CASE Unlock(f)
  <2>1. /\ pc[f] = "unlock" /\ pc' = [pc EXCEPT ![f] = "idle"] /\ owner' = NoFile
        /\ arg' = [arg EXCEPT ![f] = NoSeek]
        /\ retval' = [retval EXCEPT ![f] = "none"]
        /\ reply' = [reply EXCEPT ![f] = << >>]
        /\ UNCHANGED <<loaded, nextReadPosition, f_pos, reg, last>>
    BY <1>6 DEF Unlock, Goto, device
  <2>2. NoSeek \in [cmd : Slots, off : Nat]
    BY MaxOpsAssumption DEF NoSeek, Slots
  <2>q. QED BY <2>1, <2>2 DEF UserInv, Placement, Places, Outcomes
<1>q. QED BY <1>1, <1>2, <1>3, <1>4, <1>5, <1>6

LEMMA BodiesKeepUserInv ==
    ASSUME DeviceInv, UserInv, NEW f \in Files,
           \/ ReadNothing(f) \/ ReadFaults(f) \/ ReadLoad(f) \/ ReadStore(f)
           \/ WriteNoMemory(f) \/ WriteSome(f) \/ WriteOops(f)
           \/ SeekRefused(f) \/ Lseek(f)
    PROVE  UserInv'
<1>1. CASE ReadNothing(f) \/ ReadFaults(f) \/ ReadLoad(f) \/ ReadStore(f)
  <2>1. /\ pc[f] # "closed" /\ \E c \in Critical : pc' = [pc EXCEPT ![f] = c]
        /\ nextReadPosition' \in {nextReadPosition, reg[f]}
        /\ \/ reg' = reg
           \/ \E n \in {0, nextReadPosition + reg[f]} : reg' = [reg EXCEPT ![f] = n]
        /\ retval' = retval \/ \E r \in Outcomes : retval' = [retval EXCEPT ![f] = r]
        /\ UNCHANGED <<loaded, owner, f_pos, arg, reply, last>>
    BY <1>1 DEF ReadNothing, ReadFaults, ReadLoad, ReadStore, Goto, Returns, device,
                Critical, Outcomes
  <2>2. reg \in [Files -> Nat] /\ nextReadPosition \in Nat
    BY DEF UserInv
  <2>3. nextReadPosition' \in Nat
    BY <2>1, <2>2
  <2>4. reg' \in [Files -> Nat]
    <3>1. ASSUME NEW n \in Nat, reg' = [reg EXCEPT ![f] = n] PROVE reg' \in [Files -> Nat]
      BY <2>2, <3>1
    <3>2. 0 \in Nat /\ nextReadPosition + reg[f] \in Nat
      BY <2>2
    <3>q. QED BY <2>1, <2>2, <3>1, <3>2
  <2>5. retval' \in [Files -> Outcomes]
    BY <2>1 DEF UserInv
  <2>6. pc' \in [Files -> Places] /\ Placement'
    BY <2>1 DEF UserInv, Placement, Places
  <2>q. QED BY <2>1, <2>3, <2>4, <2>5, <2>6 DEF UserInv
<1>2. CASE WriteNoMemory(f) \/ SeekRefused(f)
  BY <1>2 DEF WriteNoMemory, SeekRefused, Goto, Returns, device,
              UserInv, Placement, Places, Critical, Outcomes
<1>3. CASE WriteOops(f)
  BY <1>3 DEF WriteOops, Goto, UserInv, Placement, Places
<1>4. CASE WriteSome(f)
  <2>1. /\ pc[f] = "w_body" /\ pc' = [pc EXCEPT ![f] = "unlock"]
        /\ retval' = [retval EXCEPT ![f] = "ok"]
        /\ \E count \in WriteCounts : \E k \in Copied(count) : f_pos' = [f_pos EXCEPT ![f] = @ + k]
        /\ UNCHANGED <<loaded, nextReadPosition, owner, arg, reg, reply, last>>
    BY <1>4 DEF WriteSome, Goto, Returns
  <2>2. \A count \in WriteCounts : Copied(count) \subseteq Nat
    BY CallsAssumption DEF Copied
  <2>q. QED BY <2>1, <2>2 DEF UserInv, Placement, Places, Critical, Outcomes
<1>5. CASE Lseek(f)
  <2>1. /\ pc[f] = "l_body" /\ pc' = [pc EXCEPT ![f] = "unlock"]
        /\ \E r \in {"ok", "EINVAL"} : retval' = [retval EXCEPT ![f] = r]
        /\ f_pos' = f_pos \/ \E target \in LseekTargets : f_pos' = [f_pos EXCEPT ![f] = target]
        /\ last' = last \/ last' = [last EXCEPT ![f] = 0]
        /\ UNCHANGED <<loaded, nextReadPosition, owner, arg, reg, reply>>
    BY <1>5 DEF Lseek, Goto, Returns, device
  <2>2. f_pos' \in [Files -> Nat]
    <3>1. CASE f_pos' = f_pos
      BY <3>1 DEF UserInv
    <3>2. ASSUME NEW target \in LseekTargets, f_pos' = [f_pos EXCEPT ![f] = target]
          PROVE  f_pos' \in [Files -> Nat]
      BY <3>2, CallsAssumption DEF UserInv
    <3>q. QED BY <2>1, <3>1, <3>2
  <2>3. last' \in [Files -> Nat]
    BY <2>1 DEF UserInv
  <2>4. retval' \in [Files -> Outcomes]
    BY <2>1 DEF UserInv, Outcomes
  <2>q. QED BY <2>1, <2>2, <2>3, <2>4 DEF UserInv, Placement, Places, Critical
<1>q. QED BY <1>1, <1>2, <1>3, <1>4, <1>5

LEMMA ModuleKeepsUserInv ==
    ASSUME UserInv, Load \/ Unload
    PROVE  UserInv'
  BY DEF Load, Unload, user, UserInv, Placement

-----------------------------------------------------------------------------
(* Both together.                                                          *)

IInv == DeviceInv /\ UserInv

LEMMA InitIInv == Init => IInv
<1> SUFFICES ASSUME Init PROVE IInv
  OBVIOUS
<1>1. DeviceInv
  <2>1. loaded = FALSE /\ buffer = EmptyBuffer /\ working = NullEntry
        /\ live = {} /\ accepted = 0 /\ data = [p \in Ptrs |-> << >>]
    BY DEF Init
  <2>2. working \in AnyEntry
    BY <2>1 DEF NullEntry, AnyEntry
  <2>3. data \in [Ptrs -> Seq(Nat)]
    BY <2>1
  <2>4. HeapSafe
    BY <2>1 DEF HeapSafe
  <2>q. QED BY <2>1, <2>2, <2>3, <2>4, EmptyIsGood DEF DeviceInv
<1>2. UserInv
  <2>1. NoSeek \in [cmd : Slots, off : Nat]
    BY MaxOpsAssumption DEF NoSeek, Slots
  <2>q. QED BY <2>1 DEF Init, UserInv, Placement, Places, Outcomes
<1>q. QED BY <1>1, <1>2 DEF IInv

\* A task that is in a call has opened a file of a loaded module.
LEMMA InCallIsLoaded ==
    ASSUME UserInv, NEW f \in Files, pc[f] # "closed"
    PROVE  loaded
  BY DEF UserInv, Placement

LEMMA NextIInv == IInv /\ [Next]_vars => IInv'
<1> SUFFICES ASSUME DeviceInv, UserInv, [Next]_vars PROVE IInv'
  BY DEF IInv
<1>1. CASE Load
  BY <1>1, LoadKeepsDeviceInv, ModuleKeepsUserInv DEF IInv
<1>2. CASE Unload
  BY <1>2, UnloadKeepsDeviceInv, ModuleKeepsUserInv DEF IInv
<1>3. ASSUME NEW f \in Files,
             \/ Open(f) \/ Release(f)
             \/ ReadCall(f) \/ WriteCall(f) \/ SeekCall(f) \/ LseekCall(f)
             \/ SeekUnlocks(f) \/ SeekOops(f) \/ Lock(f) \/ Unlock(f)
      PROVE  IInv'
  BY <1>3, QuietSteps, QuietKeepsDeviceInv, CallsKeepUserInv DEF IInv
<1>4. ASSUME NEW f \in Files,
             \/ ReadNothing(f) \/ ReadFaults(f) \/ ReadLoad(f) \/ ReadStore(f)
             \/ SeekRefused(f) \/ Lseek(f)
      PROVE  IInv'
  BY <1>4, QuietSteps, QuietKeepsDeviceInv, BodiesKeepUserInv DEF IInv
<1>5. ASSUME NEW f \in Files, ReadSome(f) PROVE IInv'
  BY <1>5, QuietSteps, QuietKeepsDeviceInv, ReadSomeKeepsUserInv DEF IInv
<1>6. ASSUME NEW f \in Files, Seek(f) PROVE IInv'
  BY <1>6, QuietSteps, QuietKeepsDeviceInv, SeekKeepsUserInv DEF IInv
<1>7. ASSUME NEW f \in Files, WriteSome(f) PROVE IInv'
  <2>1. loaded
    BY <1>7, InCallIsLoaded DEF WriteSome, Goto
  <2>q. QED BY <1>7, <2>1, WriteSomeKeepsDeviceInv, BodiesKeepUserInv DEF IInv
<1>8. ASSUME NEW f \in Files, WriteOops(f) PROVE IInv'
  <2>1. loaded
    BY <1>8, InCallIsLoaded DEF WriteOops, Goto
  <2>q. QED BY <1>8, <2>1, WriteOopsKeepsDeviceInv, BodiesKeepUserInv DEF IInv
<1>9. ASSUME NEW f \in Files, WriteNoMemory(f) PROVE IInv'
  BY <1>9, WriteNoMemoryKeepsDeviceInv, BodiesKeepUserInv DEF IInv
<1>10. CASE UNCHANGED vars
  <2>1. UNCHANGED device
    BY <1>10 DEF vars
  <2>q. QED BY <1>10, <2>1, QuietKeepsDeviceInv DEF vars, device, user, UserInv, Placement, IInv
<1>q. QED
  BY <1>1, <1>2, <1>3, <1>4, <1>5, <1>6, <1>7, <1>8, <1>9, <1>10 DEF Next, Body

LEMMA Invariant == Spec => []IInv
  BY InitIInv, NextIInv, PTL DEF Spec

(***************************************************************************)
(* Every variable keeps its type.  That a read copies bytes and not        *)
(* whatever lies behind an allocation needs the heap, and that a seek      *)
(* looks at slots of the array needs the range check of main.c:201.        *)
(***************************************************************************)
THEOREM DriverTypeCorrect == Spec => []TypeOK
<1>1. IInv => TypeOK
  <2> SUFFICES ASSUME IInv PROVE TypeOK
    OBVIOUS
  <2>1. arg \in [Files -> [cmd : Nat, off : Nat]]
    <3>1. \A f \in Files : arg[f] \in [cmd : Nat, off : Nat]
      BY MaxOpsAssumption DEF IInv, UserInv, Slots
    <3>q. QED BY <3>1 DEF IInv, UserInv
  <2>q. QED BY <2>1 DEF IInv, DeviceInv, UserInv, Good, TypeOK, Places
<1>q. QED BY <1>1, Invariant, PTL

(***************************************************************************)
(* The ring inside the device is the ring of CircularBuffer, across        *)
(* evictions, failed writes and reloads.                                   *)
(***************************************************************************)
THEOREM DriverBufferCorrect == Spec => []BufferInv
<1>1. IInv => BufferInv
  BY DEF IInv, DeviceInv, Good, BufferInv
<1>q. QED BY <1>1, Invariant, PTL

(***************************************************************************)
(* No pointer dangles and no memory has two owners, with failing krealloc, *)
(* short copies and whatever else.                                         *)
(***************************************************************************)
THEOREM DriverHeapCorrect == Spec => []HeapSafe
<1>1. IInv => HeapSafe
  BY DEF IInv, DeviceInv
<1>q. QED BY <1>1, Invariant, PTL

-----------------------------------------------------------------------------
(* Leaks.                                                                  *)

LEMMA LeakedIs ==
    ASSUME DeviceInv, loaded
    PROVE  Leaked = live \ (Held(buffer) \cup {working.buffptr})
<1>1. NULL \notin live
  BY NullAssumption DEF DeviceInv
<1>q. QED BY <1>1 DEF Leaked

LEMMA LeakedWillBe ==
    ASSUME loaded', NULL \notin live'
    PROVE  Leaked' = live' \ (Held(buffer)' \cup {working'.buffptr})
  BY DEF Leaked

LEMMA CommitKeepsLeaks ==
    ASSUME DeviceInv, loaded, loaded' = loaded, NEW p \in Reallocated,
           NEW total \in Nat, NEW bytes, Commit(p, total, bytes)
    PROVE  Leaked' = Leaked
<1> DEFINE old == Overwritten(buffer).buffptr
           in == buffer.in_offs
<1>1. /\ working'.buffptr = NULL
      /\ live' = (live \ {working.buffptr, old}) \cup {p}
  BY DEF Commit, Heap, NullEntry
<1>2. /\ in \in Slots /\ old = buffer.entry[in].buffptr
      /\ buffer'.entry[in].buffptr = p
      /\ \A i \in Slots \ {in} : buffer'.entry[i].buffptr = buffer.entry[i].buffptr
  <2>1. /\ in \in Slots /\ old = buffer.entry[in].buffptr
        /\ buffer'.entry[in] = [buffptr |-> p, size |-> total]
        /\ \A i \in Slots \ {in} : buffer'.entry[i] = buffer.entry[i]
    BY CommitEntries
  <2> HIDE DEF old, in
  <2>q. QED BY <2>1
<1> HIDE DEF old, in
<1>3. p \in Ptrs \ live \/ p = working.buffptr
  BY DEF Reallocated
<1>4. NULL \notin live /\ p # NULL
  BY NullAssumption, ReallocatedIsFresh DEF DeviceInv
<1>5. /\ old \in Held(buffer) \cup {NULL} /\ p \in Held(buffer)'
      /\ Held(buffer) \subseteq Held(buffer)' \cup {old}
      /\ Held(buffer)' \subseteq Held(buffer) \cup {p}
  <2>1. Held(buffer) = {buffer.entry[i].buffptr : i \in Slots} \ {NULL}
    BY DEF Held
  <2>2. Held(buffer)' = {buffer'.entry[i].buffptr : i \in Slots} \ {NULL}
    BY DEF Held
  <2>q. QED BY <1>2, <1>4, <2>1, <2>2
<1>6. Leaked = live \ (Held(buffer) \cup {working.buffptr})
  BY LeakedIs
<1>7. Leaked' = live' \ (Held(buffer)' \cup {NULL})
  BY <1>1, <1>4, LeakedWillBe
<1> DEFINE h == Held(buffer)
           h2 == Held(buffer)'
           w == working.buffptr
<1> HIDE DEF h, h2, w
<1>8. ((live \ {w, old}) \cup {p}) \ (h2 \cup {NULL}) = live \ (h \cup {w})
  BY <1>3, <1>4, <1>5 DEF h, h2, w
<1>9. Leaked' = ((live \ {w, old}) \cup {p}) \ (h2 \cup {NULL})
  BY <1>1, <1>7 DEF h2, w
<1>10. Leaked = live \ (h \cup {w})
  BY <1>6 DEF h, w
<1>q. QED BY <1>8, <1>9, <1>10

LEMMA CollectKeepsLeaks ==
    ASSUME DeviceInv, loaded, loaded' = loaded, NEW p \in Reallocated,
           NEW total \in Nat, NEW bytes, Collect(p, total, bytes)
    PROVE  Leaked' = Leaked
<1>1. /\ working'.buffptr = p /\ Held(buffer)' = Held(buffer)
      /\ live' = (live \ {working.buffptr, NULL}) \cup {p}
  BY DEF Collect, Heap, Held
<1>2. p \in Ptrs \ live \/ p = working.buffptr
  BY DEF Reallocated
<1>3. NULL \notin live /\ p # NULL
  BY NullAssumption, ReallocatedIsFresh DEF DeviceInv
<1>4. Leaked = live \ (Held(buffer) \cup {working.buffptr})
  BY LeakedIs
<1>5. Leaked' = live' \ (Held(buffer) \cup {p})
  BY <1>1, <1>3, LeakedWillBe
<1>q. QED BY <1>1, <1>2, <1>3, <1>4, <1>5

LEMMA NoMemoryLeaks ==
    ASSUME DeviceInv, UserInv, NEW f \in Files, WriteNoMemory(f)
    PROVE  /\ RunsOutOfMemory(f)
           /\ Leaked' = Leaked \cup ({working.buffptr} \ {NULL})
<1>1. /\ pc[f] = "w_body" /\ retval' = [retval EXCEPT ![f] = "ENOMEM"]
      /\ working' = [working EXCEPT !.buffptr = NULL]
      /\ UNCHANGED <<loaded, buffer, live>>
  BY DEF WriteNoMemory, Goto, Returns
<1>2. RunsOutOfMemory(f)
  BY <1>1 DEF RunsOutOfMemory, UserInv
<1>3. loaded
  BY <1>1, InCallIsLoaded
<1>4. /\ working'.buffptr = NULL /\ Held(buffer)' = Held(buffer)
      /\ loaded' = loaded /\ live' = live
  BY <1>1 DEF DeviceInv, AnyEntry, Held
<1>5. working.buffptr # NULL => working.buffptr \in live \ Held(buffer)
  BY <1>3 DEF DeviceInv, HeapSafe
<1>q. QED BY <1>2, <1>3, <1>4, <1>5 DEF Leaked

(***************************************************************************)
(* What is allocated is in the ring or is the working entry until it is    *)
(* freed, whatever fails and however often the module is loaded, but for   *)
(* the memory of a working entry that a failing krealloc loses.            *)
(***************************************************************************)
THEOREM DriverLeaks == Spec => OnlyKreallocLeaks
<1>1. ASSUME IInv, [Next]_vars
      PROVE  \/ Leaked' = Leaked
             \/ /\ \E f \in Files : RunsOutOfMemory(f)
                /\ Leaked' = Leaked \cup ({working.buffptr} \ {NULL})
  <2>0. DeviceInv /\ UserInv
    BY <1>1 DEF IInv
  <2>1. CASE UNCHANGED device
    BY <2>1 DEF device, Leaked, Held
  <2>2. CASE Load
    <3>1. \A i \in Slots : EmptyBuffer.entry[i].buffptr = NULL
      BY DEF EmptyBuffer, NullEntry
    <3>2. /\ Held(buffer)' \subseteq {NULL} /\ working'.buffptr = NULL
          /\ live' = live /\ ~loaded /\ loaded'
      BY <2>2, <3>1 DEF Load, Held, NullEntry
    <3>3. NULL \notin live
      BY <2>0, NullAssumption DEF DeviceInv
    <3>q. QED BY <3>2, <3>3 DEF Leaked
  <2>3. CASE Unload
    BY <2>3 DEF Unload, Freed, Leaked
  <2>4. ASSUME NEW f \in Files, WriteSome(f) PROVE Leaked' = Leaked
    <3>1. loaded
      BY <2>0, <2>4, InCallIsLoaded DEF WriteSome, Goto
    <3>2. PICK count \in WriteCounts, p \in Reallocated :
             \E k \in Copied(count) :
                /\ \E ends \in EndsPacket(k) :
                      IF ends THEN Commit(p, working.size + k, Kept \o NewBytes(k))
                              ELSE Collect(p, working.size + k, Kept \o NewBytes(k))
                /\ loaded' = loaded
      BY <2>4 DEF WriteSome
    <3>3. PICK k \in Copied(count) :
             /\ \/ Commit(p, working.size + k, Kept \o NewBytes(k))
                \/ Collect(p, working.size + k, Kept \o NewBytes(k))
             /\ loaded' = loaded
      BY <3>2
    <3>4. working.size + k \in Nat
      <4>1. k \in Nat
        BY CallsAssumption DEF Copied
      <4>q. QED BY <2>0, <3>1, <4>1, HeapFacts
    <3>q. QED BY <2>0, <3>1, <3>3, <3>4, CommitKeepsLeaks, CollectKeepsLeaks
  <2>5. ASSUME NEW f \in Files, WriteOops(f) PROVE Leaked' = Leaked
    <3>1. loaded
      BY <2>0, <2>5, InCallIsLoaded DEF WriteOops, Goto
    <3>2. /\ live' = live \ ({working.buffptr} \ {NULL})
          /\ working'.buffptr = NULL /\ Held(buffer)' = Held(buffer) /\ loaded' = loaded
      BY <2>5 DEF WriteOops, Freed, NullEntry, Held
    <3>q. QED BY <3>1, <3>2 DEF Leaked
  <2>6. ASSUME NEW f \in Files, WriteNoMemory(f)
        PROVE  RunsOutOfMemory(f) /\ Leaked' = Leaked \cup ({working.buffptr} \ {NULL})
    BY <2>0, <2>6, NoMemoryLeaks
  <2>7. ASSUME NEW f \in Files, Open(f) \/ Release(f) \/ ReadCall(f) \/ WriteCall(f)
               \/ SeekCall(f) \/ LseekCall(f) \/ SeekUnlocks(f) \/ SeekOops(f)
               \/ Lock(f) \/ Unlock(f) \/ ReadNothing(f) \/ ReadSome(f) \/ ReadFaults(f)
               \/ ReadLoad(f) \/ ReadStore(f) \/ Seek(f) \/ SeekRefused(f) \/ Lseek(f)
        PROVE  UNCHANGED device
    BY <2>7, QuietSteps
  <2>8. UNCHANGED vars => UNCHANGED device
    BY DEF vars
  <2>q. QED
    BY <1>1, <2>1, <2>2, <2>3, <2>4, <2>5, <2>6, <2>7, <2>8 DEF Next, Body
<1>2. IInv /\ [Next]_vars =>
        [\/ Leaked' = Leaked
         \/ /\ \E f \in Files : RunsOutOfMemory(f)
            /\ Leaked' = Leaked \cup ({working.buffptr} \ {NULL})]_vars
  BY <1>1
<1>q. QED BY <1>2, Invariant, PTL DEF Spec, OnlyKreallocLeaks

-----------------------------------------------------------------------------
(***************************************************************************)
(* Seeks.  aesd_adjust_file_offset adds up the sizes in array order, the   *)
(* ring counts them along the walk: the totals are the same, and while the *)
(* oldest entry is in slot 0 so is every partial sum.                      *)
(***************************************************************************)
ArraySums(b) == Sums([i \in Slots |-> b.entry[i].size], MaxOps)

LEMMA ArraySumsType ==
    ASSUME NEW b \in Buffers
    PROVE  /\ ArraySums(b) \in [0 .. MaxOps -> Nat] /\ ArraySums(b)[0] = 0
           /\ \A i \in Slots : /\ b.entry[i].size \in Nat
                               /\ ArraySums(b)[i + 1] = ArraySums(b)[i] + b.entry[i].size
           /\ \A i, j \in 0 .. MaxOps : i <= j => ArraySums(b)[i] <= ArraySums(b)[j]
<1> DEFINE s == [i \in Slots |-> b.entry[i].size]
<1>1. MaxOps \in Nat /\ Slots = 0 .. MaxOps - 1
  BY MaxOpsAssumption DEF Slots
<1>2. \A i \in Slots : b.entry[i].size \in Nat
  BY Fields, AnyEntrySize
<1>3. s \in [0 .. MaxOps - 1 -> Nat]
  BY <1>1, <1>2
<1>4. ArraySums(b) = Sums(s, MaxOps)
  BY DEF ArraySums
<1>5. \A i \in Slots : s[i] = b.entry[i].size
  OBVIOUS
<1> HIDE DEF s
<1>6. IsSums(ArraySums(b), s, MaxOps)
  BY <1>1, <1>3, <1>4, SumsAreSums
<1>7. \A i, j \in 0 .. MaxOps : i <= j => ArraySums(b)[i] <= ArraySums(b)[j]
  BY <1>1, <1>3, <1>6, SumsMonotone
<1>q. QED BY <1>1, <1>2, <1>5, <1>6, <1>7 DEF IsSums

LEMMA UnwrappedSums ==
    ASSUME NEW b \in Buffers, RingIsWellFormed(b), b.out_offs = 0
    PROVE  \A j \in 0 .. Count(b) : Running(b)[j] = ArraySums(b)[j]
<1> DEFINE n == Count(b)
           S == ArraySums(b)
           Q == [j \in 0 .. n |-> S[j]]
<1>1. n \in 0 .. MaxOps /\ MaxOps \in Nat
  BY CountInRange, MaxOpsAssumption
<1>2. ASSUME NEW j \in 0 .. n - 1 PROVE j \in Slots /\ Nth(b, j) = b.entry[j]
  <2>1. j \in 0 .. MaxOps /\ 0 + j < MaxOps /\ 0 + j = j
    BY <1>1
  <2>2. SlotOf(b, j) = j
    BY <2>1, SlotOfWraps, Fields
  <2>q. QED BY <1>1, <2>1, <2>2 DEF Nth, Slots
<1>3. /\ S \in [0 .. MaxOps -> Nat] /\ S[0] = 0
      /\ \A i \in Slots : S[i + 1] = S[i] + b.entry[i].size
  BY ArraySumsType
<1> HIDE DEF S
<1>4. IsRunning(Q, b)
  <2>1. Q \in [0 .. n -> Nat] /\ Q[0] = 0
    BY <1>1, <1>3
  <2>2. ASSUME NEW j \in 0 .. n - 1 PROVE Q[j + 1] = Q[j] + Nth(b, j).size
    <3>1. Q[j + 1] = S[j + 1] /\ Q[j] = S[j]
      BY <1>1
    <3>q. QED BY <1>2, <1>3, <3>1
  <2> HIDE DEF Q
  <2>q. QED BY <2>1, <2>2 DEF IsRunning
<1>5. \A j \in 0 .. n : Running(b)[j] = Q[j]
  BY <1>4, RunningSums
<1>q. QED BY <1>5 DEF S

LEMMA TotalsAgree ==
    ASSUME NEW b \in Buffers, RingIsWellFormed(b)
    PROVE  Running(b)[Count(b)] = ArraySums(b)[MaxOps]
<1> DEFINE n == Count(b)
           S == ArraySums(b)
           o == b.out_offs
<1>1. /\ n \in 0 .. MaxOps
      /\ b.full => n = MaxOps
      /\ ~b.full => n = b.in_offs /\ n < MaxOps
      /\ MaxOps \in Nat /\ MaxOps > 0 /\ o \in Slots /\ b.full \in BOOLEAN
  BY CountInRange, MaxOpsAssumption, Fields
<1>2. /\ S \in [0 .. MaxOps -> Nat] /\ S[0] = 0
      /\ \A i \in Slots : b.entry[i].size \in Nat /\ S[i + 1] = S[i] + b.entry[i].size
      /\ \A i, j \in 0 .. MaxOps : i <= j => S[i] <= S[j]
  BY ArraySumsType
\* Behind the entries of a ring that is filling, every slot is empty.
<1>3. CASE ~b.full
  <2>1. Running(b)[n] = S[n]
    <3>1. o = 0 /\ n \in 0 .. n
      BY <1>1, <1>3 DEF RingIsWellFormed
    <3>q. QED BY <3>1, UnwrappedSums
  <2>2. ASSUME NEW i \in Slots, n <= i PROVE b.entry[i].size = 0
    <3>1. b.entry[i] = NullEntry
      <4>1. ~ (i < b.in_offs)
        BY <1>1, <1>3, <2>2 DEF Slots
      <4>q. QED BY <1>3, <4>1 DEF RingIsWellFormed
    <3>q. QED BY <3>1 DEF NullEntry
  <2> HIDE DEF S, n, o
  <2> DEFINE T == {k \in Nat : n + k <= MaxOps => S[n + k] = S[n]}
  <2>3. 0 \in T
    BY <1>1
  <2>4. ASSUME NEW k \in T, n + (k + 1) <= MaxOps PROVE S[n + (k + 1)] = S[n]
    <3>1. /\ n + k \in Slots /\ n <= n + k /\ (n + k) + 1 = n + (k + 1)
          /\ S[n + k] = S[n]
      BY <1>1, <2>4 DEF Slots
    <3>2. S[(n + k) + 1] = S[n + k] + 0
      BY <1>2, <2>2, <3>1
    <3>3. S[n] \in Nat
      BY <1>1, <1>2
    <3>q. QED BY <3>1, <3>2, <3>3
  <2>5. T = Nat
    <3>1. \A k \in T : k + 1 \in T
      BY <2>4
    <3>q. QED BY <2>3, <3>1, SetInduction
  <2>6. S[MaxOps] = S[n]
    <3>1. \A k \in Nat : n + k <= MaxOps => S[n + k] = S[n]
      BY <2>5
    <3>2. PICK k \in Nat : n + k = MaxOps
      <4>1. MaxOps - n \in Nat /\ n + (MaxOps - n) = MaxOps
        BY <1>1
      <4>q. QED BY <4>1
    <3>3. n + k <= MaxOps
      BY <1>1, <3>2
    <3>q. QED BY <3>1, <3>2, <3>3
  <2>q. QED BY <2>1, <2>6 DEF S, n
\* A full ring is the array turned round: first what lies behind out_offs, then
\* what lies in front of it.
<1>4. CASE b.full
  <2> DEFINE Q == [j \in 0 .. MaxOps |-> IF o + j <= MaxOps THEN S[o + j] - S[o]
                                         ELSE (S[MaxOps] - S[o]) + S[o + j - MaxOps]]
  <2>0. n = MaxOps
    BY <1>1, <1>4
  <2>1. ASSUME NEW j \in 0 .. MaxOps - 1
        PROVE  /\ SlotOf(b, j) = IF o + j < MaxOps THEN o + j ELSE o + j - MaxOps
               /\ Nth(b, j) = b.entry[SlotOf(b, j)]
    <3>1. j \in 0 .. MaxOps
      BY <1>1
    <3>q. QED BY <1>1, <3>1, SlotOfWraps DEF Nth
  <2> HIDE DEF S, o
  <2>2. o \in Nat /\ o < MaxOps /\ o \in 0 .. MaxOps /\ S[o] \in Nat /\ S[MaxOps] \in Nat /\ S[o] <= S[MaxOps]
    BY <1>1, <1>2 DEF Slots
  <2>3. ASSUME NEW j \in 0 .. MaxOps PROVE Q[j] \in Nat
    <3>1. CASE o + j <= MaxOps
      <4>1. o + j \in 0 .. MaxOps /\ o <= o + j
        BY <2>2, <3>1
      <4>2. S[o] <= S[o + j] /\ S[o + j] \in Nat
        BY <1>2, <2>2, <4>1
      <4>q. QED BY <2>2, <3>1, <4>2
    <3>2. CASE ~(o + j <= MaxOps)
      <4>1. o + j - MaxOps \in 0 .. MaxOps
        BY <1>1, <2>2, <3>2
      <4>2. S[o + j - MaxOps] \in Nat
        BY <1>2, <4>1
      <4>q. QED BY <2>2, <3>2, <4>2
    <3>q. QED BY <3>1, <3>2
  <2>4. ASSUME NEW j \in 0 .. MaxOps - 1 PROVE Q[j + 1] = Q[j] + Nth(b, j).size
    <3>0. j \in 0 .. MaxOps /\ j + 1 \in 0 .. MaxOps
      BY <1>1
    <3>1. CASE o + j < MaxOps
      <4>1. o + j \in Slots /\ SlotOf(b, j) = o + j /\ (o + j) + 1 = o + (j + 1)
        BY <1>1, <2>1, <2>2, <3>1 DEF Slots
      <4>2. S[o + (j + 1)] = S[o + j] + Nth(b, j).size /\ Nth(b, j).size \in Nat
        BY <1>2, <2>1, <4>1
      <4>3. Q[j + 1] = S[o + (j + 1)] - S[o] /\ Q[j] = S[o + j] - S[o]
        BY <1>1, <2>2, <3>0, <3>1
      <4>4. S[o + j] \in Nat
        BY <1>1, <1>2, <2>2, <3>1
      <4>q. QED BY <2>2, <4>2, <4>3, <4>4
    <3>2. CASE ~(o + j < MaxOps)
      <4> DEFINE i == o + j - MaxOps
      <4>1. i \in Slots /\ SlotOf(b, j) = i /\ i + 1 = o + (j + 1) - MaxOps /\ i \in 0 .. MaxOps
        BY <1>1, <2>1, <2>2, <3>2 DEF Slots
      <4>2. S[i + 1] = S[i] + Nth(b, j).size /\ Nth(b, j).size \in Nat /\ S[i] \in Nat
        BY <1>2, <2>1, <4>1
      <4>3. Q[j + 1] = (S[MaxOps] - S[o]) + S[i + 1]
        BY <1>1, <2>2, <3>0, <3>2, <4>1
      <4>4. Q[j] = (S[MaxOps] - S[o]) + S[i]
        <5>1. CASE o + j = MaxOps
          <6>1. i = 0 /\ Q[j] = S[MaxOps] - S[o]
            BY <1>1, <2>2, <3>0, <5>1
          <6>q. QED BY <1>2, <2>2, <6>1
        <5>2. CASE o + j # MaxOps
          BY <1>1, <2>2, <3>0, <3>2, <5>2
        <5>q. QED BY <5>1, <5>2
      <4> HIDE DEF i
      <4>q. QED BY <2>2, <4>2, <4>3, <4>4
    <3>q. QED BY <3>1, <3>2
  <2>5. Q[0] = 0
    BY <1>1, <2>2
  <2>6. Q[MaxOps] = S[MaxOps]
    <3>1. CASE o = 0
      BY <1>1, <1>2, <2>2, <3>1
    <3>2. CASE o # 0
      <4>1. ~(o + MaxOps <= MaxOps) /\ o + MaxOps - MaxOps = o /\ MaxOps \in 0 .. MaxOps
        BY <1>1, <2>2, <3>2
      <4>2. Q[MaxOps] = (S[MaxOps] - S[o]) + S[o]
        BY <4>1
      <4>q. QED BY <2>2, <4>2
    <3>q. QED BY <3>1, <3>2
  <2>7. Q \in [0 .. MaxOps -> Nat]
    BY <2>3
  <2> HIDE DEF Q, n
  <2>8. IsRunning(Q, b)
    BY <2>0, <2>4, <2>5, <2>7 DEF IsRunning, n
  <2>9. Running(b)[MaxOps] = Q[MaxOps]
    <3>1. MaxOps \in 0 .. Count(b)
      BY <1>1, <2>0 DEF n
    <3>q. QED BY <2>8, <3>1, RunningSums
  <2>q. QED BY <2>0, <2>6, <2>9 DEF S, n
<1>q. QED BY <1>1, <1>3, <1>4

\* A call returns nothing before its body has run.
NothingYet ==
    \A f \in Files :
        pc[f] \notin {"r_load", "r_store", "unlock"} => retval[f] = "none"

LEMMA NextNothingYet ==
    UserInv /\ NothingYet /\ [Next]_vars => NothingYet'
<1> SUFFICES ASSUME UserInv, NothingYet, [Next]_vars PROVE NothingYet'
  OBVIOUS
<1>0. pc \in [Files -> Places] /\ retval \in [Files -> Outcomes]
  BY DEF UserInv
<1>1. CASE Load \/ Unload \/ UNCHANGED vars
  BY <1>1 DEF Load, Unload, vars, user, NothingYet
<1>2. ASSUME NEW f \in Files,
             \/ Open(f) \/ Release(f) \/ ReadCall(f) \/ WriteCall(f) \/ SeekCall(f)
             \/ LseekCall(f) \/ SeekOops(f) \/ WriteOops(f)
      PROVE  NothingYet'
  <2>1. /\ retval' = retval /\ pc[f] \in {"closed", "idle", "w_body"}
        /\ \E p \in {"closed", "idle"} \cup Waiting : pc' = [pc EXCEPT ![f] = p]
    BY <1>2 DEF Open, Release, ReadCall, WriteCall, SeekCall, LseekCall, SeekOops, WriteOops,
                Goto, user, Waiting
  <2>q. QED BY <1>0, <2>1 DEF NothingYet
<1>3. ASSUME NEW f \in Files, SeekUnlocks(f) PROVE NothingYet'
  BY <1>3 DEF SeekUnlocks, UnlocksAnything, user, NothingYet
<1>4. ASSUME NEW f \in Files, Lock(f) PROVE NothingYet'
  <2>1. /\ retval' = retval /\ pc[f] \in Waiting /\ pc' = [pc EXCEPT ![f] = AfterLock[pc[f]]]
    BY <1>4 DEF Lock, user
  <2>q. QED BY <1>0, <2>1 DEF NothingYet, Waiting
<1>5. ASSUME NEW f \in Files, Unlock(f) PROVE NothingYet'
  BY <1>0, <1>5 DEF Unlock, Goto, NothingYet
<1>6. ASSUME NEW f \in Files,
             \/ ReadNothing(f) \/ ReadSome(f) \/ ReadFaults(f) \/ ReadLoad(f) \/ ReadStore(f)
             \/ WriteNoMemory(f) \/ WriteSome(f) \/ Seek(f) \/ SeekRefused(f) \/ Lseek(f)
      PROVE  NothingYet'
  <2>1. /\ retval' = retval \/ \E r \in Outcomes : retval' = [retval EXCEPT ![f] = r]
        /\ \E p \in {"r_load", "r_store", "unlock"} : pc' = [pc EXCEPT ![f] = p]
    BY <1>6 DEF ReadNothing, ReadSome, ReadFaults, ReadLoad, ReadStore, WriteNoMemory, WriteSome,
                Seek, SeekRefused, Lseek, Goto, Returns, Outcomes
  <2>q. QED BY <1>0, <2>1 DEF NothingYet
<1>q. QED
  BY <1>1, <1>2, <1>3, <1>4, <1>5, <1>6 DEF Next, Body

LEMMA NothingYetInvariant == Spec => []NothingYet
<1>1. Init => NothingYet
  BY DEF Init, NothingYet
<1>2. IInv => UserInv
  BY DEF IInv
<1>q. QED BY <1>1, <1>2, NextNothingYet, Invariant, PTL DEF Spec

\* Which step it is when an ioctl or an llseek succeeds.
LEMMA SeekSteps ==
    ASSUME UserInv, NothingYet, [Next]_vars, NEW f \in Files
    PROVE  /\ Sought(f) => Seek(f)
           /\ pc[f] = "l_body" /\ retval'[f] = "ok" => Lseek(f)
<1>0. pc \in [Files -> Places] /\ retval \in [Files -> Outcomes]
  BY DEF UserInv
<1>1. pc[f] \in {"i_body", "l_body"} => retval[f] = "none"
  BY DEF NothingYet
<1>2. CASE Load \/ Unload \/ UNCHANGED vars
  BY <1>1, <1>2 DEF Load, Unload, vars, user, Sought
<1>3. ASSUME NEW g \in Files, g # f,
             \/ Open(g) \/ Release(g) \/ ReadCall(g) \/ WriteCall(g) \/ SeekCall(g)
             \/ LseekCall(g) \/ SeekUnlocks(g) \/ SeekOops(g) \/ Lock(g) \/ Body(g)
      PROVE  pc'[f] = pc[f] /\ retval'[f] = retval[f]
  BY <1>0, <1>3
     DEF Open, Release, ReadCall, WriteCall, SeekCall, LseekCall, SeekUnlocks, UnlocksAnything, SeekOops, Lock,
         Body, ReadNothing, ReadSome, ReadFaults, ReadLoad, ReadStore, WriteNoMemory, WriteSome,
         WriteOops, Seek, SeekRefused, Lseek, Unlock, Goto, Returns, user
<1>4. CASE \/ Open(f) \/ Release(f) \/ ReadCall(f) \/ WriteCall(f) \/ SeekCall(f)
           \/ LseekCall(f) \/ SeekUnlocks(f) \/ SeekOops(f) \/ Lock(f)
  <2>1. pc[f] \in {"closed", "idle"} \cup Waiting
    BY <1>4 DEF Open, Release, ReadCall, WriteCall, SeekCall, LseekCall, SeekUnlocks, UnlocksAnything, SeekOops,
                Lock, Goto
  <2>q. QED BY <2>1 DEF Sought, Waiting
<1>5. CASE Body(f)
  <2>1. CASE SeekRefused(f)
    <3>1. pc[f] = "i_body" /\ retval' = [retval EXCEPT ![f] = "EINVAL"]
      BY <2>1 DEF SeekRefused, Goto, Returns
    <3>q. QED BY <1>0, <3>1 DEF Sought
  <2>2. CASE \/ ReadNothing(f) \/ ReadSome(f) \/ ReadFaults(f) \/ ReadLoad(f) \/ ReadStore(f)
             \/ WriteNoMemory(f) \/ WriteSome(f) \/ WriteOops(f) \/ Unlock(f)
    <3>1. pc[f] \notin {"i_body", "l_body"}
      BY <2>2 DEF ReadNothing, ReadSome, ReadFaults, ReadLoad, ReadStore, WriteNoMemory,
                  WriteSome, WriteOops, Unlock, Goto
    <3>q. QED BY <3>1 DEF Sought
  <2>3. Seek(f) => pc[f] = "i_body"
    BY DEF Seek, Goto
  <2>4. Lseek(f) => pc[f] = "l_body"
    BY DEF Lseek, Goto
  <2>q. QED BY <1>5, <2>1, <2>2, <2>3, <2>4 DEF Body, Sought
<1>6. ASSUME pc'[f] = pc[f], retval'[f] = retval[f]
      PROVE  ~Sought(f) /\ ~(pc[f] = "l_body" /\ retval'[f] = "ok")
  BY <1>1, <1>6 DEF Sought
<1>q. QED
  BY <1>2, <1>3, <1>4, <1>5, <1>6 DEF Next

\* The command and the offset of a seek that succeeds.
LEMMA SeekTarget ==
    ASSUME DeviceInv, UserInv, NEW f \in Files, Seek(f)
    PROVE  /\ arg[f].cmd \in 0 .. Count(buffer) - 1
           /\ arg[f].cmd \in Slots /\ arg[f].off \in Nat
           /\ arg[f].off <= buffer.entry[arg[f].cmd].size
           /\ f_pos'[f] = ArraySums(buffer)[arg[f].cmd] + arg[f].off
<1>1. /\ arg[f].cmd \in Slots /\ arg[f].off \in Nat /\ f_pos \in [Files -> Nat]
      /\ buffer \in Buffers /\ RingIsWellFormed(buffer)
  BY DEF UserInv, DeviceInv, Good
<1>2. CanSeek(buffer, arg[f].cmd, arg[f].off)
  BY DEF Seek
<1>3. f_pos'[f] = ArraySums(buffer)[arg[f].cmd] + arg[f].off
  BY <1>1 DEF Seek, SizeBefore, ArraySums
<1>4. buffer.full \/ arg[f].cmd < buffer.in_offs
  <2>1. buffer.entry[arg[f].cmd].buffptr # NULL
    BY <1>2 DEF CanSeek
  <2>q. QED BY <1>1, <2>1 DEF RingIsWellFormed, NullEntry
<1>5. arg[f].cmd \in 0 .. Count(buffer) - 1
  <2>1. buffer.full \in BOOLEAN /\ MaxOps \in Nat /\ buffer.in_offs \in Slots
    BY <1>1, Fields, MaxOpsAssumption
  <2>2. /\ buffer.full => Count(buffer) = MaxOps
        /\ ~buffer.full => Count(buffer) = buffer.in_offs
    BY <1>1, CountInRange
  <2>q. QED BY <1>1, <1>4, <2>1, <2>2 DEF Slots
<1>q. QED BY <1>1, <1>2, <1>3, <1>5 DEF CanSeek

LEMMA SeekLandsInside ==
    ASSUME DeviceInv, UserInv, NEW f \in Files, Seek(f)
    PROVE  f_pos'[f] \in Nat /\ f_pos'[f] <= buffer.buf_len
<1> DEFINE cmd == arg[f].cmd
           S == ArraySums(buffer)
           z == buffer.entry[cmd].size
<1>0. buffer \in Buffers /\ RingIsWellFormed(buffer) /\ BufLenIsTotalOf(buffer)
  BY DEF DeviceInv, Good
<1>1. cmd \in Slots /\ arg[f].off \in Nat /\ arg[f].off <= z /\ f_pos'[f] = S[cmd] + arg[f].off
  BY SeekTarget
<1>2. S[MaxOps] = buffer.buf_len
  BY <1>0, TotalsAgree DEF BufLenIsTotalOf
<1>3. z \in Nat /\ S[cmd + 1] = S[cmd] + z
  BY <1>0, <1>1, ArraySumsType
<1>4. cmd \in 0 .. MaxOps /\ cmd + 1 \in 0 .. MaxOps /\ cmd + 1 <= MaxOps /\ MaxOps \in 0 .. MaxOps
  BY <1>1, MaxOpsAssumption DEF Slots
<1>5. S[cmd + 1] <= S[MaxOps] /\ S[cmd] \in Nat /\ S[MaxOps] \in Nat
  BY <1>0, <1>4, ArraySumsType
<1> HIDE DEF cmd, S, z
<1>q. QED BY <1>1, <1>2, <1>3, <1>5

(***************************************************************************)
(* No ioctl and no llseek sets a position behind the end of the file,      *)
(* although the former counts in array order and the latter asks buf_len   *)
(* (main.c:217-235, 272-281).                                              *)
(***************************************************************************)
THEOREM DriverSeeksInside == Spec => SeeksStayInside
<1>1. ASSUME IInv, NothingYet, [Next]_vars, NEW f \in Files,
             Sought(f) \/ (pc[f] = "l_body" /\ retval'[f] = "ok")
      PROVE  f_pos'[f] <= buffer.buf_len
  <2>1. DeviceInv /\ UserInv
    BY <1>1 DEF IInv
  <2>2. CASE Seek(f)
    BY <2>1, <2>2, SeekLandsInside
  <2>3. CASE Lseek(f)
    <3>1. retval'[f] = "ok" /\ retval \in [Files -> Outcomes] /\ f_pos \in [Files -> Nat]
      BY <1>1, <2>1 DEF Sought, UserInv
    <3>2. PICK target \in LseekTargets :
             IF target <= buffer.buf_len THEN f_pos' = [f_pos EXCEPT ![f] = target]
                                         ELSE retval' = [retval EXCEPT ![f] = "EINVAL"]
      BY <2>3 DEF Lseek, Returns
    <3>q. QED BY <3>1, <3>2
  <2>q. QED BY <1>1, <2>1, <2>2, <2>3, SeekSteps
<1>2. IInv /\ NothingYet /\ [Next]_vars =>
        [\A f \in Files :
            Sought(f) \/ (pc[f] = "l_body" /\ retval'[f] = "ok")
                => f_pos'[f] <= buffer.buf_len]_vars
  BY <1>1
<1>q. QED BY <1>2, Invariant, NothingYetInvariant, PTL DEF Spec, SeeksStayInside

(***************************************************************************)
(* Until the ring wraps, an ioctl finds the byte it names (main.c:217-235, *)
(* aesd_ioctl.h:26-33).                                                    *)
(***************************************************************************)
THEOREM DriverSeeksFind == Spec => SeekFindsCommandUntilWrap
<1>1. ASSUME IInv, NothingYet, [Next]_vars, NEW f \in Files, Sought(f), buffer.out_offs = 0
      PROVE  f_pos'[f] = Position(arg[f].cmd, arg[f].off)
  <2>1. DeviceInv /\ UserInv /\ buffer \in Buffers /\ RingIsWellFormed(buffer)
    BY <1>1 DEF IInv, DeviceInv, Good
  <2>2. Seek(f)
    BY <1>1, <2>1, SeekSteps
  <2>3. arg[f].cmd \in 0 .. Count(buffer) /\ f_pos'[f] = ArraySums(buffer)[arg[f].cmd] + arg[f].off
    <3>1. Count(buffer) \in Nat
      BY <2>1, CountInRange, MaxOpsAssumption
    <3>q. QED BY <1>1, <2>1, <2>2, <3>1, SeekTarget
  <2>q. QED BY <1>1, <2>1, <2>3, UnwrappedSums DEF Position
<1>2. IInv /\ NothingYet /\ [Next]_vars =>
        [\A f \in Files : Sought(f) /\ buffer.out_offs = 0
            => f_pos'[f] = Position(arg[f].cmd, arg[f].off)]_vars
  BY <1>1
<1>q. QED BY <1>2, Invariant, NothingYetInvariant, PTL DEF Spec, SeekFindsCommandUntilWrap
=============================================================================
