-------------------------- MODULE DriverLogProofs --------------------------
(***************************************************************************)
(* The driver implements PacketLog, and a single reader gets the bytes at  *)
(* its position, in order, for any number of tasks, slots and addresses.   *)
(***************************************************************************)
EXTENDS AesdCharProofs

\* What a write does to the device, whichever way it ends.
LEMMA WriteCases ==
    ASSUME DeviceInv, loaded, NEW f \in Files, WriteSome(f)
    PROVE  \E count \in WriteCounts, p \in Reallocated, k \in Nat :
              /\ k <= count
              /\ \/ Commit(p, working.size + k, Kept \o NewBytes(k))
                 \/ Collect(p, working.size + k, Kept \o NewBytes(k))
              /\ accepted' = accepted + k /\ loaded' = loaded
<1>1. PICK count \in WriteCounts, p \in Reallocated :
         \E k \in Copied(count) :
            /\ \E ends \in EndsPacket(k) :
                  IF ends THEN Commit(p, working.size + k, Kept \o NewBytes(k))
                          ELSE Collect(p, working.size + k, Kept \o NewBytes(k))
            /\ accepted' = accepted + k
            /\ loaded' = loaded
  BY DEF WriteSome
<1>2. PICK k \in Copied(count) :
         /\ \/ Commit(p, working.size + k, Kept \o NewBytes(k))
            \/ Collect(p, working.size + k, Kept \o NewBytes(k))
         /\ accepted' = accepted + k
         /\ loaded' = loaded
  BY <1>1
<1>3. k \in Nat /\ k <= count
  BY CallsAssumption DEF Copied
<1>q. QED BY <1>2, <1>3

-----------------------------------------------------------------------------
(* The walk and what its entries point to.                                 *)

LEMMA WalkIsInMemory ==
    ASSUME DeviceInv, loaded, NEW j \in 0 .. Count(buffer) - 1
    PROVE  /\ SlotOf(buffer, j) \in Slots
           /\ Nth(buffer, j).buffptr \in live \ {NULL, working.buffptr}
  BY WalkStep, HeapFacts DEF Nth

LEMMA SlotsDiffer ==
    ASSUME NEW b \in Buffers, NEW j \in 0 .. MaxOps - 1, NEW k \in 0 .. MaxOps - 1, j # k
    PROVE  SlotOf(b, j) # SlotOf(b, k)
<1>1. b.out_offs \in Slots /\ MaxOps \in Nat
  BY Fields, MaxOpsAssumption
<1>2. /\ SlotOf(b, j) = IF b.out_offs + j < MaxOps THEN b.out_offs + j ELSE b.out_offs + j - MaxOps
      /\ SlotOf(b, k) = IF b.out_offs + k < MaxOps THEN b.out_offs + k ELSE b.out_offs + k - MaxOps
  BY <1>1, SlotOfWraps
<1>q. QED BY <1>1, <1>2 DEF Slots

LEMMA WalkIsInjective ==
    ASSUME DeviceInv, loaded,
           NEW j \in 0 .. Count(buffer) - 1, NEW k \in 0 .. Count(buffer) - 1, j # k
    PROVE  Nth(buffer, j).buffptr # Nth(buffer, k).buffptr
<1>1. j \in 0 .. MaxOps - 1 /\ k \in 0 .. MaxOps - 1
  <2>1. Count(buffer) \in 0 .. MaxOps /\ MaxOps \in Nat
    BY CountInRange, HeapFacts, MaxOpsAssumption
  <2>q. QED BY <2>1
<1>2. SlotOf(buffer, j) # SlotOf(buffer, k)
  BY <1>1, SlotsDiffer, HeapFacts
<1>3. /\ SlotOf(buffer, j) \in Slots /\ SlotOf(buffer, k) \in Slots
      /\ Nth(buffer, j).buffptr # NULL
  BY WalkIsInMemory
<1>q. QED BY <1>2, <1>3 DEF DeviceInv, HeapSafe, Nth

LEMMA PacketsType ==
    ASSUME DeviceInv, loaded
    PROVE  /\ Packets \in Seq(Seq(Nat)) /\ Len(Packets) = Count(buffer)
           /\ Count(buffer) \in 0 .. MaxOps
           /\ \A j \in 1 .. Count(buffer) : Packets[j] = data[Nth(buffer, j - 1).buffptr]
<1>1. Count(buffer) \in 0 .. MaxOps /\ MaxOps \in Nat
  BY CountInRange, HeapFacts, MaxOpsAssumption
<1>2. ASSUME NEW j \in 1 .. Count(buffer)
      PROVE  data[Nth(buffer, j - 1).buffptr] \in Seq(Nat)
  <2>1. j - 1 \in 0 .. Count(buffer) - 1
    BY <1>1
  <2>2. Nth(buffer, j - 1).buffptr \in Ptrs
    BY <2>1, WalkIsInMemory DEF DeviceInv
  <2>q. QED BY <2>2 DEF DeviceInv
<1>3. Packets \in [1 .. Count(buffer) -> Seq(Nat)]
  BY <1>2 DEF Packets
<1>q. QED BY <1>1, <1>3 DEF Packets

\* The ring after a commit, apart from overflow_entry, which no walk visits.
LEMMA CommitWalk ==
    ASSUME DeviceInv, loaded, NEW p \in Reallocated, NEW total \in Nat, NEW bytes,
           Commit(p, total, bytes)
    PROVE  LET added == AddEntry(buffer, [buffptr |-> p, size |-> total])
           IN  /\ Count(buffer') = Count(added)
               /\ \A j : Nth(buffer', j) = Nth(added, j)
<1> DEFINE added == AddEntry(buffer, [buffptr |-> p, size |-> total])
<1>1. buffer' = IF buffer.full THEN [added EXCEPT !.overflow_entry.buffptr = NULL] ELSE added
  BY DEF Commit
<1>2. added \in Buffers
  <2>1. [buffptr |-> p, size |-> total] \in Entries
    BY ReallocatedIsFresh DEF Entries
  <2>q. QED BY <2>1, AddKeepsGood DEF DeviceInv, Good
<1> HIDE DEF added
<1>3. /\ buffer'.entry = added.entry /\ buffer'.in_offs = added.in_offs
      /\ buffer'.out_offs = added.out_offs /\ buffer'.full = added.full
  BY <1>1, <1>2 DEF Buffers
<1>q. QED BY <1>3 DEF Count, Nth, SlotOf, added

\* The bytes of the packets that stay are not touched.
LEMMA CommitData ==
    ASSUME DeviceInv, loaded, NEW p \in Reallocated, NEW total \in Nat,
           NEW bytes \in Seq(Nat), Commit(p, total, bytes)
    PROVE  /\ data'[p] = bytes
           /\ \A j \in 0 .. Count(buffer) - 1 :
                 buffer.full /\ j # 0
                   => data'[Nth(buffer, j).buffptr] = data[Nth(buffer, j).buffptr]
           /\ ~buffer.full => \A j \in 0 .. Count(buffer) - 1 :
                 data'[Nth(buffer, j).buffptr] = data[Nth(buffer, j).buffptr]
<1> DEFINE old == Overwritten(buffer).buffptr
<1>1. p \in Ptrs /\ \A i \in Slots : buffer.entry[i].buffptr # p
  BY ReallocatedIsFresh
<1>2. /\ data'[p] = bytes
      /\ \A q \in live : q \notin {p, working.buffptr, old} => data'[q] = data[q]
  BY <1>1, HeapEffect DEF Commit
<1>3. \A j \in 0 .. Count(buffer) - 1 :
         /\ Nth(buffer, j).buffptr \in live \ {NULL, working.buffptr}
         /\ Nth(buffer, j).buffptr # p
  BY <1>1, WalkIsInMemory DEF Nth
<1>4. ASSUME ~buffer.full, NEW j \in 0 .. Count(buffer) - 1
      PROVE  data'[Nth(buffer, j).buffptr] = data[Nth(buffer, j).buffptr]
  <2>1. old = NULL
    BY <1>4 DEF Overwritten, NullEntry
  <2> HIDE DEF old
  <2>q. QED BY <1>2, <1>3, <2>1
<1>5. ASSUME buffer.full, NEW j \in 0 .. Count(buffer) - 1, j # 0
      PROVE  data'[Nth(buffer, j).buffptr] = data[Nth(buffer, j).buffptr]
  <2>1. old = Nth(buffer, 0).buffptr
    <3>1. [buffptr |-> p, size |-> total] \in Entries
      BY <1>1 DEF Entries
    <3>2. Nth(buffer, 0) = buffer.entry[buffer.in_offs]
      BY <1>5, <3>1, AddWhenFull, HeapFacts
    <3>q. QED BY <1>5, <3>2 DEF Overwritten
  <2>2. 0 \in 0 .. Count(buffer) - 1
    BY <1>5, PacketsType
  <2>3. Nth(buffer, j).buffptr # Nth(buffer, 0).buffptr
    BY <1>5, <2>2, WalkIsInjective
  <2> HIDE DEF old
  <2>q. QED BY <1>2, <1>3, <2>1, <2>3
<1>q. QED BY <1>2, <1>4, <1>5

LEMMA AppendElements ==
    ASSUME NEW S, NEW l \in Seq(S), NEW x \in S, NEW n \in Nat, n = Len(l)
    PROVE  Append(l, x) = [j \in 1 .. n + 1 |-> IF j = n + 1 THEN x ELSE l[j]]
<1> DEFINE f == [j \in 1 .. n + 1 |-> IF j = n + 1 THEN x ELSE l[j]]
<1>1. f \in Seq(S) /\ Len(f) = n + 1
  OBVIOUS
<1>2. Append(l, x) \in Seq(S) /\ Len(Append(l, x)) = n + 1
  OBVIOUS
<1>3. ASSUME NEW j \in 1 .. n + 1 PROVE Append(l, x)[j] = f[j]
  OBVIOUS
<1> HIDE DEF f
<1>4. Append(l, x) = f
  BY <1>1, <1>2, <1>3, SeqEqual
<1>q. QED BY <1>4 DEF f

LEMMA CommitPushes ==
    ASSUME DeviceInv, loaded, NEW p \in Reallocated, NEW total \in Nat,
           NEW bytes \in Seq(Nat), Commit(p, total, bytes)
    PROVE  Packets' = Pushed(Packets, bytes)
<1> DEFINE n == Count(buffer)
           l == Packets
           m == Packets'
           e == [buffptr |-> p, size |-> total]
           added == AddEntry(buffer, e)
<1>1. l \in Seq(Seq(Nat)) /\ Len(l) = n /\ n \in 0 .. MaxOps /\ MaxOps \in Nat /\ MaxOps > 0
  BY PacketsType, MaxOpsAssumption
<1>2. /\ m = [j \in 1 .. Count(buffer') |-> data'[Nth(buffer', j - 1).buffptr]]
      /\ Count(buffer') = Count(added) /\ \A j : Nth(buffer', j) = Nth(added, j)
  BY CommitWalk DEF Packets
<1>3. e \in Entries /\ e.buffptr = p
  BY ReallocatedIsFresh DEF Entries
<1>4. /\ data'[p] = bytes
      /\ buffer.full => \A j \in 0 .. n - 1 : j # 0
            => data'[Nth(buffer, j).buffptr] = data[Nth(buffer, j).buffptr]
      /\ ~buffer.full => \A j \in 0 .. n - 1 :
            data'[Nth(buffer, j).buffptr] = data[Nth(buffer, j).buffptr]
  BY CommitData
<1>5. \A j \in 1 .. n : l[j] = data[Nth(buffer, j - 1).buffptr]
  BY PacketsType
<1> HIDE DEF l
<1>6. CASE ~buffer.full
  <2>1. /\ Count(added) = n + 1 /\ n < MaxOps
        /\ \A j \in 0 .. n - 1 : Nth(added, j) = Nth(buffer, j)
        /\ Nth(added, n) = e
    BY <1>3, <1>6, AddWhenNotFull, CountInRange, HeapFacts
  <2> HIDE DEF n, m, e, added
  <2>2. Append(l, bytes) = [j \in 1 .. n + 1 |-> IF j = n + 1 THEN bytes ELSE l[j]]
    BY <1>1, AppendElements
  <2>3. ASSUME NEW j \in 1 .. n + 1
        PROVE  data'[Nth(buffer', j - 1).buffptr] = IF j = n + 1 THEN bytes ELSE l[j]
    <3>1. CASE j = n + 1
      <4>1. j - 1 = n
        BY <1>1, <3>1
      <4>q. QED BY <1>2, <1>3, <1>4, <2>1, <3>1, <4>1
    <3>2. CASE j # n + 1
      <4>1. j \in 1 .. n /\ j - 1 \in 0 .. n - 1
        BY <1>1, <3>2
      <4>q. QED BY <1>2, <1>4, <1>5, <1>6, <2>1, <3>2, <4>1
    <3>q. QED BY <3>1, <3>2
  <2>4. m = Append(l, bytes)
    BY <1>2, <2>1, <2>2, <2>3
  <2>q. QED BY <1>1, <2>1, <2>4 DEF Pushed, m, l
<1>7. CASE buffer.full
  <2>1. /\ Count(added) = MaxOps /\ n = MaxOps
        /\ \A j \in 0 .. MaxOps - 2 : Nth(added, j) = Nth(buffer, j + 1)
        /\ Nth(added, MaxOps - 1) = e
    BY <1>3, <1>7, AddWhenFull, CountInRange, HeapFacts
  <2> HIDE DEF n, m, e, added
  <2>2. Append(Tail(l), bytes) = [j \in 1 .. MaxOps |-> IF j = MaxOps THEN bytes ELSE l[j + 1]]
    <3> DEFINE t == Tail(l)
               k == MaxOps - 1
    <3>1. /\ t \in Seq(Seq(Nat)) /\ Len(t) = k
          /\ \A j \in 1 .. k : t[j] = l[j + 1]
      BY <1>1, <2>1
    <3>2. k \in Nat /\ k + 1 = MaxOps /\ \A j \in 1 .. MaxOps : j # MaxOps => j \in 1 .. k
      BY <1>1
    <3> HIDE DEF t, k
    <3>3. Append(t, bytes) = [j \in 1 .. k + 1 |-> IF j = k + 1 THEN bytes ELSE t[j]]
      BY <3>1, <3>2, AppendElements
    <3>4. Append(t, bytes) = [j \in 1 .. MaxOps |-> IF j = MaxOps THEN bytes ELSE l[j + 1]]
      BY <3>1, <3>2, <3>3
    <3>q. QED BY <3>4 DEF t
  <2>3. ASSUME NEW j \in 1 .. MaxOps
        PROVE  data'[Nth(buffer', j - 1).buffptr] = IF j = MaxOps THEN bytes ELSE l[j + 1]
    <3>1. CASE j = MaxOps
      BY <1>2, <1>3, <1>4, <2>1, <3>1
    <3>2. CASE j # MaxOps
      <4>1. /\ j - 1 \in 0 .. MaxOps - 2 /\ j \in 0 .. n - 1 /\ j # 0 /\ j + 1 \in 1 .. n
            /\ (j - 1) + 1 = j /\ (j + 1) - 1 = j
        BY <1>1, <2>1, <3>2
      <4>2. Nth(buffer', j - 1) = Nth(buffer, j)
        BY <1>2, <2>1, <4>1
      <4>3. l[j + 1] = data[Nth(buffer, j).buffptr]
        BY <1>5, <4>1
      <4>q. QED BY <1>4, <1>7, <3>2, <4>1, <4>2, <4>3
    <3>q. QED BY <3>1, <3>2
  <2>4. m = Append(Tail(l), bytes)
    BY <1>2, <2>1, <2>2, <2>3
  <2>q. QED BY <1>1, <2>1, <2>4 DEF Pushed, m, l
<1>8. buffer.full \in BOOLEAN
  BY Fields, HeapFacts
<1>q. QED BY <1>6, <1>7, <1>8

-----------------------------------------------------------------------------
(* The packet log.                                                         *)

\* No write is longer than all others.
WritesAreBounded == \E m \in WriteCounts : \A c \in WriteCounts : c <= m

LEMMA LongestWrite ==
    ASSUME WritesAreBounded, NEW c \in WriteCounts
    PROVE  Max(WriteCounts) \in Nat /\ c <= Max(WriteCounts)
<1>1. \E m \in WriteCounts : \A d \in WriteCounts : m >= d
  BY CallsAssumption DEF WritesAreBounded
<1>2. Max(WriteCounts) \in WriteCounts /\ \A d \in WriteCounts : Max(WriteCounts) >= d
  BY <1>1 DEF Max
<1>q. QED BY <1>2, CallsAssumption

LEMMA FreshAreNew == \A n : PL!Fresh(n) = NewBytes(n)
  BY DEF PL!Fresh, NewBytes

\* A write that ends a packet.
LEMMA CommitCompletes ==
    ASSUME DeviceInv, loaded, loaded' = loaded, NEW p \in Reallocated, NEW k \in Nat,
           Commit(p, working.size + k, Kept \o NewBytes(k)), accepted' = accepted + k
    PROVE  PL!Complete(k)
<1>1. /\ Kept \o NewBytes(k) \in Seq(Nat) /\ working.size + k \in Nat
  BY WrittenBytes
<1>2. Packets' = Pushed(Packets, Kept \o NewBytes(k))
  BY <1>1, CommitPushes
<1>3. Kept' = << >>
  <2>1. working' = NullEntry
    BY DEF Commit
  <2>2. Kept' = [i \in 1 .. 0 |-> Junk]
    BY <2>1 DEF Kept, NullEntry, Junk
  <2>q. QED BY <2>2
<1>q. QED
  BY <1>2, <1>3, FreshAreNew DEF PL!Complete, PL!Push, Pushed

\* A write that does not.
LEMMA CollectAccepts ==
    ASSUME DeviceInv, loaded, loaded' = loaded, NEW p \in Reallocated, NEW k \in Nat,
           Collect(p, working.size + k, Kept \o NewBytes(k)), accepted' = accepted + k
    PROVE  PL!Accept(k)
<1> DEFINE bytes == Kept \o NewBytes(k)
<1>1. p \in Ptrs /\ p # NULL /\ \A i \in Slots : buffer.entry[i].buffptr # p
  BY ReallocatedIsFresh
<1>2. bytes \in Seq(Nat)
  BY WrittenBytes
<1>3. /\ buffer' = buffer /\ working'.buffptr = p
      /\ data'[p] = bytes
      /\ \A q \in live : q \notin {p, working.buffptr, NULL} => data'[q] = data[q]
  BY <1>1, <1>2, HeapEffect DEF Collect
<1>4. Kept' = bytes
  BY <1>1, <1>3 DEF Kept
<1> HIDE DEF bytes
<1>5. Packets' = Packets
  <2>1. ASSUME NEW j \in 1 .. Count(buffer)
        PROVE  data'[Nth(buffer, j - 1).buffptr] = data[Nth(buffer, j - 1).buffptr]
    <3>1. j - 1 \in 0 .. Count(buffer) - 1
      BY PacketsType
    <3>2. /\ Nth(buffer, j - 1).buffptr \in live \ {NULL, working.buffptr}
          /\ Nth(buffer, j - 1).buffptr # p
      BY <1>1, <3>1, WalkIsInMemory DEF Nth
    <3>q. QED BY <1>3, <3>2
  <2>2. Packets' = [j \in 1 .. Count(buffer) |-> data'[Nth(buffer, j - 1).buffptr]]
    BY <1>3 DEF Packets
  <2>q. QED BY <2>1, <2>2 DEF Packets
<1>q. QED
  BY <1>4, <1>5, FreshAreNew DEF PL!Accept, bytes

LEMMA EmptyKept ==
    ASSUME working = NullEntry
    PROVE  Kept = << >>
<1>1. Kept = [i \in 1 .. 0 |-> Junk]
  BY DEF Kept, NullEntry
<1>q. QED BY <1>1

LEMMA WriteIsLogged ==
    ASSUME DeviceInv, WritesAreBounded, loaded, NEW f \in Files, WriteSome(f)
    PROVE  PL!Next
<1>1. PICK count \in WriteCounts, p \in Reallocated, k \in Nat :
         /\ k <= count
         /\ \/ Commit(p, working.size + k, Kept \o NewBytes(k))
            \/ Collect(p, working.size + k, Kept \o NewBytes(k))
         /\ accepted' = accepted + k /\ loaded' = loaded
  BY WriteCases
<1>2. k \in 0 .. Max(WriteCounts)
  BY <1>1, LongestWrite, CallsAssumption
<1>3. PL!Accept(k) \/ PL!Complete(k)
  BY <1>1, CommitCompletes, CollectAccepts
<1>q. QED BY <1>2, <1>3 DEF PL!Next

\* Steps that leave the log as it is.
LEMMA QuietIsStutter ==
    ASSUME UNCHANGED device
    PROVE  UNCHANGED PL!vars
<1>1. /\ loaded' = loaded /\ buffer' = buffer /\ working' = working
      /\ data' = data /\ accepted' = accepted
  BY DEF device
<1>2. Packets' = Packets
  BY <1>1 DEF Packets
<1>3. Kept' = Kept
  BY <1>1 DEF Kept
<1>q. QED BY <1>1, <1>2, <1>3 DEF PL!vars

LEMMA LoadIsStutter ==
    ASSUME Load
    PROVE  UNCHANGED PL!vars
<1>1. /\ ~loaded /\ loaded' = TRUE /\ buffer' = EmptyBuffer /\ working' = NullEntry
      /\ accepted' = accepted
  BY DEF Load
<1>2. Packets' = << >>
  <2>1. Count(buffer') = 0
    BY <1>1 DEF EmptyBuffer, Count
  <2>2. Packets' = [j \in 1 .. 0 |-> data'[Nth(buffer', j - 1).buffptr]]
    BY <2>1 DEF Packets
  <2>q. QED BY <2>2
<1>3. Kept' = << >>
  <2>1. Kept' = [i \in 1 .. 0 |-> Junk]
    BY <1>1 DEF Kept, NullEntry, Junk
  <2>q. QED BY <2>1
<1>q. QED BY <1>1, <1>2, <1>3 DEF PL!vars

\* The task is lost and nothing else: there was nothing to collect.
LEMMA OopsIsStutter ==
    ASSUME DeviceInv, loaded, NEW f \in Files, WriteOops(f)
    PROVE  UNCHANGED PL!vars
<1>1. /\ working.size = 0 /\ working' = NullEntry
      /\ Freed({working.buffptr} \ {NULL})
      /\ buffer' = buffer /\ loaded' = loaded /\ accepted' = accepted
  BY DEF WriteOops
<1>2. Kept = << >>
  <2>1. Kept \in Seq(Nat) /\ Len(Kept) = 0
    BY <1>1, HeapFacts
  <2>q. QED BY <2>1
<1>3. Kept' = << >>
  <2>1. Kept' = [i \in 1 .. 0 |-> Junk]
    BY <1>1 DEF Kept, NullEntry, Junk
  <2>q. QED BY <2>1
<1>4. Packets' = Packets
  <2>1. ASSUME NEW j \in 1 .. Count(buffer)
        PROVE  data'[Nth(buffer, j - 1).buffptr] = data[Nth(buffer, j - 1).buffptr]
    <3>1. j - 1 \in 0 .. Count(buffer) - 1
      BY PacketsType
    <3>2. Nth(buffer, j - 1).buffptr \in live \ {NULL, working.buffptr}
      BY <3>1, WalkIsInMemory
    <3>3. Nth(buffer, j - 1).buffptr \in live'
      BY <1>1, <3>2, FreedEffect
    <3>q. QED BY <1>1, <3>3, FreedEffect
  <2>2. Packets' = [j \in 1 .. Count(buffer) |-> data'[Nth(buffer, j - 1).buffptr]]
    BY <1>1 DEF Packets
  <2>q. QED BY <2>1, <2>2 DEF Packets
<1>q. QED BY <1>1, <1>2, <1>3, <1>4 DEF PL!vars

\* A write finds no memory: what was kept is as long as before, and not there.
LEMMA NoMemoryKeeps ==
    ASSUME DeviceInv, loaded, NEW f \in Files, WriteNoMemory(f)
    PROVE  /\ loaded' = loaded /\ accepted' = accepted
           /\ buffer' = buffer /\ data' = data
           /\ Kept' = [i \in 1 .. working.size |-> Junk]
<1>1. /\ loaded' = loaded /\ accepted' = accepted /\ buffer' = buffer /\ data' = data
      /\ working' = [working EXCEPT !.buffptr = NULL]
  BY DEF WriteNoMemory
<1>2. working'.buffptr = NULL /\ working'.size = working.size
  BY <1>1 DEF DeviceInv, AnyEntry
<1>q. QED BY <1>1, <1>2 DEF Kept

LEMMA NoMemoryIsLost ==
    ASSUME DeviceInv, loaded, NEW f \in Files, WriteNoMemory(f)
    PROVE  PL!Lose
<1>1. /\ loaded' = loaded /\ accepted' = accepted
      /\ buffer' = buffer /\ data' = data
      /\ Kept' = [i \in 1 .. working.size |-> Junk]
  BY NoMemoryKeeps
<1>2. Packets' = Packets
  BY <1>1 DEF Packets
<1>3. DOMAIN Kept = 1 .. working.size
  BY HeapFacts
<1>q. QED BY <1>1, <1>2, <1>3 DEF PL!Lose, PL!Unwritten, Junk

LEMMA StepIsLogged ==
    ASSUME WritesAreBounded
    PROVE  IInv /\ [Next]_vars => [PL!Next]_(PL!vars)
<1> SUFFICES ASSUME DeviceInv, UserInv, [Next]_vars PROVE PL!Next \/ UNCHANGED PL!vars
  BY DEF IInv
<1>1. CASE UNCHANGED device
  BY <1>1, QuietIsStutter
<1>2. CASE Load
  BY <1>2, LoadIsStutter
<1>3. CASE Unload
  BY <1>3 DEF Unload, PL!Next, PL!Forget
<1>4. ASSUME NEW f \in Files, WriteSome(f) PROVE PL!Next
  <2>1. loaded
    BY <1>4, InCallIsLoaded DEF WriteSome, Goto
  <2>q. QED BY <1>4, <2>1, WriteIsLogged
<1>5. ASSUME NEW f \in Files, WriteOops(f) PROVE UNCHANGED PL!vars
  <2>1. loaded
    BY <1>5, InCallIsLoaded DEF WriteOops, Goto
  <2>q. QED BY <1>5, <2>1, OopsIsStutter
<1>6. ASSUME NEW f \in Files, WriteNoMemory(f) PROVE PL!Next
  <2>1. loaded
    BY <1>6, InCallIsLoaded DEF WriteNoMemory, Goto
  <2>q. QED BY <1>6, <2>1, NoMemoryIsLost DEF PL!Next
<1>7. ASSUME NEW f \in Files, Open(f) \/ Release(f) \/ ReadCall(f) \/ WriteCall(f)
             \/ SeekCall(f) \/ LseekCall(f) \/ SeekUnlocks(f) \/ SeekOops(f)
             \/ Lock(f) \/ Unlock(f) \/ ReadNothing(f) \/ ReadSome(f) \/ ReadFaults(f)
             \/ ReadLoad(f) \/ ReadStore(f) \/ Seek(f) \/ SeekRefused(f) \/ Lseek(f)
      PROVE  UNCHANGED device
  BY <1>7, QuietSteps
<1>8. UNCHANGED vars => UNCHANGED device
  BY DEF vars
<1>q. QED
  BY <1>1, <1>2, <1>3, <1>4, <1>5, <1>6, <1>7, <1>8 DEF Next, Body

(***************************************************************************)
(* The device implements the packet log, across reallocations, evictions,  *)
(* short copies, failing krealloc, lost tasks and reloads (main.c:102-182, *)
(* 314-351): its packets are the last MaxOps lines of one stream, byte for *)
(* byte, but for bytes that a failing krealloc made it forget.             *)
(***************************************************************************)
THEOREM DriverImplementsLog ==
    ASSUME WritesAreBounded
    PROVE  Spec => ImplementsPacketLog
<1>1. Init => PL!Init
  BY DEF Init, PL!Init
<1>2. IInv /\ [Next]_vars => [PL!Next]_(PL!vars)
  BY StepIsLogged
<1>q. QED BY <1>1, <1>2, Invariant, PTL DEF Spec, ImplementsPacketLog, PL!Spec

-----------------------------------------------------------------------------
(***************************************************************************)
(* Reads.  The bytes of the device are its packets laid end to end, so the *)
(* k-th packet begins behind the sizes of those in front of it.            *)
(***************************************************************************)
LEMMA ContentsAre ==
    ASSUME DeviceInv, loaded
    PROVE  /\ Contents = FlattenSeq(Packets)
           /\ Contents \in Seq(Nat)
           /\ Len(Contents) = Running(buffer)[Count(buffer)]
           /\ \A k \in 0 .. Count(buffer) - 1 :
                 /\ data[Nth(buffer, k).buffptr] \in Seq(Nat)
                 /\ Len(data[Nth(buffer, k).buffptr]) = Nth(buffer, k).size
                 /\ \A o \in 1 .. Nth(buffer, k).size :
                       Contents[Running(buffer)[k] + o] = data[Nth(buffer, k).buffptr][o]
<1> DEFINE n == Count(buffer)
           P == Running(buffer)
<1>1. /\ Packets \in Seq(Seq(Nat)) /\ Len(Packets) = n /\ n \in Nat
      /\ \A j \in 1 .. n : Packets[j] = data[Nth(buffer, j - 1).buffptr]
  BY PacketsType, MaxOpsAssumption
<1>2. IsRunning(P, buffer)
  BY RunningSums, HeapFacts
<1>3. ASSUME NEW k \in 0 .. n - 1
      PROVE  /\ Packets[k + 1] = data[Nth(buffer, k).buffptr]
             /\ data[Nth(buffer, k).buffptr] \in Seq(Nat)
             /\ Len(data[Nth(buffer, k).buffptr]) = Nth(buffer, k).size
  <2>1. k + 1 \in 1 .. n /\ (k + 1) - 1 = k
    BY <1>1
  <2>2. Packets[k + 1] = data[Nth(buffer, k).buffptr] /\ Packets[k + 1] \in Seq(Nat)
    BY <1>1, <2>1
  <2>3. Len(data[Nth(buffer, k).buffptr]) = Nth(buffer, k).size
    BY WalkIsInMemory, HeapFacts DEF Nth
  <2>q. QED BY <2>2, <2>3
<1>4. IsSums(P, Lengths(Packets), Len(Packets))
  <2>1. ASSUME NEW k \in 0 .. n - 1 PROVE Lengths(Packets)[k] = Nth(buffer, k).size
    <3>1. k + 1 \in 1 .. Len(Packets) /\ k \in 0 .. Len(Packets) - 1
      BY <1>1
    <3>2. Lengths(Packets)[k] = Len(Packets[k + 1])
      BY <1>1, <3>1, LengthsType
    <3>q. QED BY <1>3, <3>2
  <2> HIDE DEF P
  <2>q. QED BY <1>1, <1>2, <2>1 DEF IsSums, IsRunning
<1>5. Contents = FlattenSeq(Packets)
  BY DEF Contents, Packets
<1> HIDE DEF P, n
<1>6. /\ Contents \in Seq(Nat) /\ Len(Contents) = P[n]
      /\ \A k \in 0 .. n - 1 : \A o \in 1 .. Len(Packets[k + 1]) :
            Contents[P[k] + o] = Packets[k + 1][o]
  <2> DEFINE l == Packets
             S == Nat
  <2>1. l \in Seq(Seq(S)) /\ Len(l) = n /\ IsSums(P, Lengths(l), n) /\ Contents = FlattenSeq(l)
    BY <1>1, <1>4, <1>5
  <2> HIDE DEF l, S
  <2>2. /\ FlattenSeq(l) \in Seq(S) /\ Len(FlattenSeq(l)) = P[n]
        /\ \A k \in 0 .. n - 1 : \A o \in 1 .. Len(l[k + 1]) :
              FlattenSeq(l)[P[k] + o] = l[k + 1][o]
    <3>1. FlattenSeq(l) \in Seq(S)
      BY <2>1, FlattenSeqIs
    <3>2. Len(FlattenSeq(l)) = P[n]
      BY <2>1, FlattenSeqIs
    <3>3. \A k \in 0 .. n - 1 : \A o \in 1 .. Len(l[k + 1]) :
              FlattenSeq(l)[P[k] + o] = l[k + 1][o]
      BY <2>1, FlattenSeqIs
    <3>q. QED BY <3>1, <3>2, <3>3
  <2>q. QED BY <2>1, <2>2 DEF l, S
<1>q. QED BY <1>3, <1>5, <1>6 DEF P, n

\* What ReadSome copies: a part of one packet, which is a part of the contents.
LEMMA ReadCopies ==
    ASSUME DeviceInv, UserInv, NEW f \in Files, ReadSome(f)
    PROVE  \E n \in Nat \ {0} :
              /\ f_pos'[f] = f_pos[f] + n
              /\ nextReadPosition + n <= Len(Contents)
              /\ reply'[f] = SubSeq(Contents, nextReadPosition + 1, nextReadPosition + n)
              /\ last'[f] = Max2(last[f], Contents[nextReadPosition + n])
<1> DEFINE pos == nextReadPosition
           P == Running(buffer)
           c == Count(buffer)
<1>1. /\ loaded /\ pos \in Nat /\ FindEntry(buffer, pos) # NotFound
      /\ f_pos \in [Files -> Nat] /\ reply \in [Files -> Seq(Nat)] /\ last \in [Files -> Nat]
  BY InCallIsLoaded DEF ReadSome, Goto, UserInv
<1>2. buffer \in Buffers /\ RingIsWellFormed(buffer) /\ c \in Nat
  BY <1>1, HeapFacts, PacketsType, MaxOpsAssumption
<1>3. IsRunning(P, buffer)
  BY <1>2, RunningSums
<1>4. pos < P[c]
  <2>1. ~(P[c] <= pos)
    BY <1>1, <1>2, FindEntryIsNothing
  <2>2. P[c] \in Nat
    BY <1>2, <1>3 DEF IsRunning
  <2>q. QED BY <1>1, <2>1, <2>2
<1>5. PICK k \in 0 .. c - 1 : P[k] <= pos /\ pos < P[k + 1]
  BY <1>1, <1>2, <1>4, EveryByteIsInAnEntry
<1> DEFINE bytes == data[Nth(buffer, k).buffptr]
           size == Nth(buffer, k).size
           off == pos - P[k]
<1>6. FindEntry(buffer, pos) = [slot |-> SlotOf(buffer, k), offset |-> off]
  BY <1>1, <1>2, <1>5, FindEntryIs
<1> DEFINE hit == FindEntry(buffer, pos)
           e == buffer.entry[hit.slot]
<1>7. PICK count \in ReadCounts :
        LET n == Min2(size - off, count)
        IN  /\ reply' = [reply EXCEPT ![f] = SubSeq(bytes, off + 1, off + n)]
            /\ last' = [last EXCEPT ![f] = Max2(@, bytes[off + n])]
            /\ f_pos' = [f_pos EXCEPT ![f] = @ + n]
  <2>1. PICK count \in ReadCounts :
          LET n == Min2(e.size - hit.offset, count)
          IN  /\ reply' = [reply EXCEPT ![f] =
                              SubSeq(data[e.buffptr], hit.offset + 1, hit.offset + n)]
              /\ last' = [last EXCEPT ![f] = Max2(@, data[e.buffptr][hit.offset + n])]
              /\ f_pos' = [f_pos EXCEPT ![f] = @ + n]
    BY DEF ReadSome
  <2>2. hit.slot = SlotOf(buffer, k) /\ hit.offset = off
    BY <1>6
  <2>3. data[e.buffptr] = bytes /\ e.size = size
    BY <2>2 DEF Nth
  <2> HIDE DEF hit, e, bytes, size, off
  <2>q. QED BY <2>1, <2>2, <2>3
<1> DEFINE n == Min2(size - off, count)
<1>8. /\ Contents \in Seq(Nat) /\ Len(Contents) = P[c]
      /\ bytes \in Seq(Nat) /\ Len(bytes) = size
      /\ \A o \in 1 .. size : Contents[P[k] + o] = bytes[o]
  BY <1>1, ContentsAre
<1>9. /\ P[k] \in Nat /\ P[c] \in Nat /\ P[k + 1] = P[k] + size /\ P[k + 1] <= P[c]
      /\ size \in Nat
  <2>1. k \in 0 .. c /\ k + 1 \in 0 .. c /\ c \in 0 .. c /\ k + 1 <= c
    BY <1>2
  <2>q. QED BY <1>2, <1>3, <1>8, <2>1, RunningSums, LenProperties DEF IsRunning
<1> HIDE DEF bytes, size, P, c
<1>10. /\ off \in Nat /\ off < size /\ P[k] + off = pos
  BY <1>1, <1>5, <1>9
<1>11. n \in Nat \ {0} /\ off + n <= size
  BY <1>9, <1>10, CallsAssumption DEF Min2
<1> HIDE DEF n, off
<1>12. pos + n <= P[c]
  BY <1>1, <1>9, <1>10, <1>11
<1>13. SubSeq(bytes, off + 1, off + n) = SubSeq(Contents, pos + 1, pos + n)
  <2> DEFINE S == Nat
             l == SubSeq(bytes, off + 1, off + n)
             r == SubSeq(Contents, pos + 1, pos + n)
  <2>0. /\ bytes \in Seq(S) /\ Contents \in Seq(S) /\ pos \in Nat
        /\ off \in Nat /\ n \in Nat /\ off + n <= Len(bytes) /\ pos + n <= Len(Contents)
    BY <1>1, <1>8, <1>10, <1>11, <1>12
  <2> HIDE DEF S, pos
  <2>1. /\ l \in Seq(S) /\ Len(l) = n
        /\ \A i \in 1 .. n : l[i] = bytes[off + i]
    BY <2>0, SliceIs
  <2>2. /\ r \in Seq(S) /\ Len(r) = n
        /\ \A i \in 1 .. n : r[i] = Contents[pos + i]
    BY <2>0, SliceIs
  <2>3. ASSUME NEW i \in 1 .. n PROVE bytes[off + i] = Contents[pos + i]
    <3>1. off + i \in 1 .. size /\ P[k] + (off + i) = pos + i
      BY <1>9, <1>10, <1>11
    <3>q. QED BY <1>8, <3>1
  <2> HIDE DEF l, r, pos
  <2>4. \A i \in 1 .. n : l[i] = r[i]
    BY <2>1, <2>2, <2>3
  <2>q. QED BY <2>1, <2>2, <2>4, SeqEqual DEF l, r
<1>14. bytes[off + n] = Contents[pos + n]
  <2>1. off + n \in 1 .. size /\ P[k] + (off + n) = pos + n
    BY <1>9, <1>10, <1>11
  <2>q. QED BY <1>8, <2>1
<1>15. /\ f_pos'[f] = f_pos[f] + n
       /\ reply'[f] = SubSeq(bytes, off + 1, off + n)
       /\ last'[f] = Max2(last[f], bytes[off + n])
  BY <1>1, <1>7 DEF n
<1>q. QED BY <1>8, <1>11, <1>12, <1>13, <1>14, <1>15

LEMMA ContentsLength ==
    ASSUME DeviceInv, loaded
    PROVE  Contents \in Seq(Nat) /\ Len(Contents) = buffer.buf_len /\ Len(Contents) \in Nat
<1>1. Contents \in Seq(Nat) /\ Len(Contents) = Running(buffer)[Count(buffer)]
  BY ContentsAre
<1>2. Running(buffer)[Count(buffer)] = buffer.buf_len
  BY DEF DeviceInv, Good, BufLenIsTotalOf
<1>3. buffer.buf_len \in Nat
  BY Fields DEF DeviceInv, Good
<1>q. QED BY <1>1, <1>2, <1>3

\* A read that finds nothing has come to the end.
LEMMA NothingIsTheEnd ==
    ASSUME DeviceInv, UserInv, NEW f \in Files, ReadNothing(f)
    PROVE  Len(Contents) <= nextReadPosition
<1> DEFINE pos == nextReadPosition
           P == Running(buffer)
           c == Count(buffer)
<1>1. loaded /\ pos \in Nat /\ FindEntry(buffer, pos) = NotFound
  BY InCallIsLoaded DEF ReadNothing, Goto, UserInv
<1>2. buffer \in Buffers /\ RingIsWellFormed(buffer) /\ c \in Nat
  BY <1>1, HeapFacts, PacketsType, MaxOpsAssumption
<1>3. Len(Contents) = P[c] /\ P[c] \in Nat
  BY <1>1, ContentsAre, LenProperties
<1>4. CASE pos < P[c]
  <2>1. PICK k \in 0 .. c - 1 : P[k] <= pos /\ pos < P[k + 1]
    BY <1>1, <1>2, <1>4, EveryByteIsInAnEntry
  <2>2. FindEntry(buffer, pos) = [slot |-> SlotOf(buffer, k), offset |-> pos - P[k]]
    BY <1>1, <1>2, <2>1, FindEntryIs
  <2>3. SlotOf(buffer, k) = -1
    BY <1>1, <2>2 DEF NotFound
  <2>4. SlotOf(buffer, k) \in Slots
    BY <1>2, <2>1, WalkStep
  <2>q. QED BY <2>3, <2>4, MaxOpsAssumption DEF Slots
<1>q. QED BY <1>1, <1>3, <1>4

LEMMA SameContents ==
    ASSUME buffer' = buffer, data' = data
    PROVE  Contents' = Contents
<1>1. Contents = FlattenSeq(Packets) /\ Contents' = FlattenSeq(Packets')
  BY DEF Contents, Packets
<1>2. Packets' = Packets
  BY DEF Packets
<1>q. QED BY <1>1, <1>2

\* The packet a write completes comes last.
LEMMA CommitComesLast ==
    ASSUME DeviceInv, loaded, NEW p \in Reallocated, NEW total \in Nat,
           NEW bytes \in Seq(Nat), Commit(p, total, bytes)
    PROVE  /\ buffer' # buffer
           /\ \E before \in Seq(Nat) : Contents' = before \o bytes
<1> DEFINE S == Nat
           l == Packets
<1>1. l \in Seq(Seq(S)) /\ bytes \in Seq(S) /\ Packets' = Pushed(l, bytes)
  BY PacketsType, CommitPushes
<1>2. Contents' = FlattenSeq(Packets')
  BY DEF Contents, Packets
<1> HIDE DEF l
<1>3. \E before \in Seq(S) : Contents' = before \o bytes
  <2>1. CASE Len(l) < MaxOps
    BY <1>1, <1>2, <2>1, FlattenAppend DEF Pushed
  <2>2. CASE ~(Len(l) < MaxOps)
    <3>1. l # << >>
      BY <2>2, MaxOpsAssumption
    <3>2. Tail(l) \in Seq(Seq(S))
      BY <1>1, <3>1
    <3>q. QED BY <1>1, <1>2, <2>2, <3>2, FlattenAppend DEF Pushed
  <2>q. QED BY <2>1, <2>2
<1>4. buffer'.entry[buffer.in_offs].buffptr = p /\ buffer.in_offs \in Slots
  <2>1. buffer'.entry[buffer.in_offs] = [buffptr |-> p, size |-> total] /\ buffer.in_offs \in Slots
    BY CommitEntries
  <2>q. QED BY <2>1
<1>5. buffer.entry[buffer.in_offs].buffptr # p
  BY <1>4, ReallocatedIsFresh
<1>q. QED BY <1>3, <1>4, <1>5

\* A single task reads.
OneReader == \A f, g \in Readers : f = g

\* So nobody stores to the shared position between its store and its search.
ReaderInv ==
    \A f \in Files :
        /\ pc[f] \in {"r_lock", "r_body", "r_load", "r_store"} => f \in Readers
        /\ pc[f] \in {"r_lock", "r_body"} => nextReadPosition = f_pos[f]

LEMMA NextReaderInv ==
    ASSUME OneReader
    PROVE  UserInv /\ ReaderInv /\ [Next]_vars => ReaderInv'
<1> SUFFICES ASSUME UserInv, ReaderInv, [Next]_vars PROVE ReaderInv'
  OBVIOUS
<1>0. pc \in [Files -> Places] /\ f_pos \in [Files -> Nat]
  BY DEF UserInv
<1>1. CASE Load
  <2>1. pc' = pc /\ \A f \in Files : pc[f] = "closed"
    BY <1>1 DEF Load, UserInv, Placement
  <2>q. QED BY <2>1 DEF ReaderInv
<1>2. CASE Unload \/ UNCHANGED vars
  BY <1>2 DEF Unload, vars, ReaderInv
<1>3. ASSUME NEW f \in Files, ReadCall(f) PROVE ReaderInv'
  <2>1. /\ f \in Readers /\ pc' = [pc EXCEPT ![f] = "r_lock"]
        /\ nextReadPosition' = f_pos[f] /\ f_pos' = f_pos
    BY <1>3 DEF ReadCall, Goto
  <2>q. QED BY <1>0, <2>1 DEF ReaderInv, OneReader
<1>4. ASSUME NEW f \in Files, ReadStore(f) PROVE ReaderInv'
  <2>1. /\ pc[f] = "r_store" /\ pc' = [pc EXCEPT ![f] = "unlock"] /\ f_pos' = f_pos
    BY <1>4 DEF ReadStore, Goto
  <2>q. QED BY <1>0, <2>1 DEF ReaderInv, OneReader
<1>5. ASSUME NEW f \in Files, Lock(f) PROVE ReaderInv'
  <2>1. /\ pc[f] \in Waiting /\ pc' = [pc EXCEPT ![f] = AfterLock[pc[f]]]
        /\ nextReadPosition' = nextReadPosition /\ f_pos' = f_pos
    BY <1>5 DEF Lock
  <2>2. CASE pc[f] = "r_lock"
    BY <1>0, <2>1, <2>2 DEF ReaderInv, AfterLock
  <2>3. CASE pc[f] # "r_lock"
    <3>1. AfterLock[pc[f]] \notin {"r_lock", "r_body", "r_load", "r_store"}
      BY <2>1, <2>3 DEF AfterLock, Waiting
    <3>q. QED BY <1>0, <2>1, <3>1 DEF ReaderInv
  <2>q. QED BY <2>2, <2>3
<1>6. ASSUME NEW f \in Files, ReadNothing(f) \/ ReadSome(f) \/ ReadLoad(f) PROVE ReaderInv'
  <2>1. /\ pc[f] \in {"r_body", "r_load"} /\ nextReadPosition' = nextReadPosition
        /\ \E p \in {"r_load", "r_store"} : pc' = [pc EXCEPT ![f] = p]
        /\ \A g \in Files : g # f => f_pos'[g] = f_pos[g]
    BY <1>0, <1>6 DEF ReadNothing, ReadSome, ReadLoad, Goto
  <2>q. QED BY <1>0, <2>1 DEF ReaderInv
<1>7. ASSUME NEW f \in Files, SeekUnlocks(f) PROVE ReaderInv'
  BY <1>7 DEF SeekUnlocks, UnlocksAnything, ReaderInv
<1>8. ASSUME NEW f \in Files,
             \/ Open(f) \/ Release(f) \/ WriteCall(f) \/ SeekCall(f) \/ LseekCall(f) \/ SeekOops(f)
             \/ ReadFaults(f) \/ WriteNoMemory(f) \/ WriteSome(f) \/ WriteOops(f)
             \/ Seek(f) \/ SeekRefused(f) \/ Lseek(f) \/ Unlock(f)
      PROVE  ReaderInv'
  <2>1. /\ nextReadPosition' = nextReadPosition
        /\ \E p \in {"closed", "idle", "w_lock", "i_lock", "l_lock", "unlock"} :
              pc' = [pc EXCEPT ![f] = p]
    BY <1>8 DEF Open, Release, WriteCall, SeekCall, LseekCall, SeekOops, ReadFaults, WriteNoMemory,
                WriteSome, WriteOops, Seek, SeekRefused, Lseek, Unlock, Goto
  <2>2. \A g \in Files : g # f => f_pos'[g] = f_pos[g]
    BY <1>0, <1>8 DEF Open, Release, WriteCall, SeekCall, LseekCall, SeekOops, ReadFaults,
                WriteNoMemory, WriteSome, WriteOops, Seek, SeekRefused, Lseek, Unlock
  <2>q. QED BY <1>0, <2>1, <2>2 DEF ReaderInv
<1>q. QED
  BY <1>1, <1>2, <1>3, <1>4, <1>5, <1>6, <1>7, <1>8 DEF Next, Body

LEMMA ReaderInvariant == ASSUME OneReader PROVE Spec => []ReaderInv
<1>1. Init => ReaderInv
  BY DEF Init, ReaderInv
<1>2. IInv => UserInv
  BY DEF IInv
<1>q. QED BY <1>1, <1>2, NextReaderInv, Invariant, PTL DEF Spec

\* A reply changes when a read copies, and is dropped when a call returns.
LEMMA DeliversIsReadSome ==
    ASSUME UserInv, [Next]_vars, NEW f \in Files, Delivers(f)
    PROVE  ReadSome(f)
<1>0. reply \in [Files -> Seq(Nat)]
  BY DEF UserInv
<1>1. ASSUME NEW g \in Files, ReadSome(g) PROVE g = f
  <2>1. g # f => reply'[f] = reply[f]
    BY <1>0, <1>1 DEF ReadSome
  <2>q. QED BY <2>1 DEF Delivers
<1>2. ASSUME NEW g \in Files, Unlock(g) PROVE FALSE
  BY <1>0, <1>2 DEF Unlock, Delivers
<1>3. ASSUME reply' = reply PROVE FALSE
  BY <1>3 DEF Delivers
<1>4. ASSUME NEW g \in Files,
             \/ Open(g) \/ Release(g) \/ ReadCall(g) \/ WriteCall(g) \/ SeekCall(g) \/ LseekCall(g)
             \/ SeekUnlocks(g) \/ SeekOops(g) \/ Lock(g)
             \/ ReadNothing(g) \/ ReadFaults(g) \/ ReadLoad(g) \/ ReadStore(g)
             \/ WriteNoMemory(g) \/ WriteSome(g) \/ WriteOops(g)
             \/ Seek(g) \/ SeekRefused(g) \/ Lseek(g)
      PROVE  reply' = reply
  BY <1>4 DEF Open, Release, ReadCall, WriteCall, SeekCall, LseekCall, SeekUnlocks, UnlocksAnything,
              SeekOops, Lock, ReadNothing, ReadFaults, ReadLoad, ReadStore, WriteNoMemory, WriteSome, WriteOops,
              Seek, SeekRefused, Lseek, user
<1>5. Load \/ Unload \/ UNCHANGED vars => reply' = reply
  BY DEF Load, Unload, vars, user
<1>q. QED BY <1>1, <1>2, <1>3, <1>4, <1>5 DEF Next, Body

(***************************************************************************)
(* With a single reader, a read delivers the bytes of the concatenated     *)
(* packets from the caller's file position on, however writes and          *)
(* evictions come between its unlocked store and its search                *)
(* (main.c:61-91, aesd-circular-buffer.c:38-40).                           *)
(***************************************************************************)
THEOREM DriverReadsAtFpos == ASSUME OneReader PROVE Spec => ReadsAtFpos
<1>1. ASSUME IInv, ReaderInv, [Next]_vars, NEW f \in Files, Delivers(f)
      PROVE  /\ f_pos'[f] <= Len(Contents)
             /\ reply'[f] = SubSeq(Contents, f_pos[f] + 1, f_pos'[f])
  <2>1. DeviceInv /\ UserInv
    BY <1>1 DEF IInv
  <2>2. ReadSome(f)
    BY <1>1, <2>1, DeliversIsReadSome
  <2>3. nextReadPosition = f_pos[f]
    BY <1>1, <2>2 DEF ReadSome, Goto, ReaderInv
  <2>q. QED BY <2>1, <2>2, <2>3, ReadCopies
<1>2. IInv /\ ReaderInv /\ [Next]_vars =>
        [\A f \in Files : Delivers(f) =>
            /\ f_pos'[f] <= Len(Contents)
            /\ reply'[f] = SubSeq(Contents, f_pos[f] + 1, f_pos'[f])]_vars
  BY <1>1
<1>q. QED BY <1>2, Invariant, ReaderInvariant, PTL DEF Spec, ReadsAtFpos

-----------------------------------------------------------------------------
(***************************************************************************)
(* What is still to come.  The bytes of the device, those of the working   *)
(* entry last, are one piece of the stream that writes produce: a write    *)
(* goes on at its end, an eviction takes from its front, and a failing     *)
(* krealloc wipes some of it out.                                          *)
(***************************************************************************)
Stream == Contents \o Kept

LEMMA StreamType ==
    ASSUME DeviceInv, loaded
    PROVE  /\ Contents \in Seq(Nat) /\ Kept \in Seq(Nat) /\ Stream \in Seq(Nat)
           /\ Len(Stream) = Len(Contents) + Len(Kept)
           /\ \A i \in 1 .. Len(Contents) : Stream[i] = Contents[i]
<1> DEFINE S == Nat
           c == Contents
           k == Kept
<1>1. c \in Seq(S) /\ k \in Seq(S)
  BY ContentsAre, HeapFacts
<1> HIDE DEF c, k
<1>2. /\ c \o k \in Seq(S) /\ Len(c \o k) = Len(c) + Len(k)
      /\ \A i \in 1 .. Len(c) : (c \o k)[i] = c[i]
  BY <1>1
<1>q. QED BY <1>1, <1>2 DEF c, k, Stream

\* The stream goes on by k bytes, and loses bytes at its front.
Extends(k) ==
    /\ accepted' = accepted + k
    /\ \E gone \in Seq(Nat) : gone \o Stream' = Stream \o NewBytes(k)

\* Some of its bytes are lost, and the others stay where they are.
Wiped ==
    /\ accepted' = accepted
    /\ Len(Stream') = Len(Stream)
    /\ \A i \in 1 .. Len(Stream) : Stream'[i] \in {Stream[i], Junk}

LEMMA ConcatElements ==
    ASSUME NEW s \in Seq(Nat), NEW t \in Seq(Nat)
    PROVE  /\ Len(s \o t) = Len(s) + Len(t) /\ DOMAIN (s \o t) = 1 .. Len(s) + Len(t)
           /\ \A i \in 1 .. Len(s) + Len(t) :
                 (s \o t)[i] = IF i <= Len(s) THEN s[i] ELSE t[i - Len(s)]
  OBVIOUS

LEMMA NoMemoryWipes ==
    ASSUME DeviceInv, loaded, NEW f \in Files, WriteNoMemory(f)
    PROVE  Wiped
<1> DEFINE c == Contents
           k == Kept
           z == [i \in 1 .. working.size |-> Junk]
<1>1. /\ accepted' = accepted /\ buffer' = buffer /\ data' = data /\ Kept' = z
  BY NoMemoryKeeps
<1>2. Contents' = c
  BY <1>1, SameContents
<1>3. /\ c \in Seq(Nat) /\ k \in Seq(Nat)
      /\ Len(k) = working.size /\ working.size \in Nat
  BY StreamType, HeapFacts
<1>4. z \in Seq(Nat) /\ Len(z) = Len(k) /\ \A i \in 1 .. Len(k) : z[i] = Junk
  BY <1>3 DEF Junk
<1>5. Stream = c \o k /\ Stream' = c \o z
  BY <1>1, <1>2 DEF Stream
<1> HIDE DEF c, k, z
<1>6. /\ Len(c \o k) = Len(c) + Len(k) /\ Len(c \o z) = Len(c) + Len(k)
      /\ \A i \in 1 .. Len(c) + Len(k) :
            /\ (c \o k)[i] = IF i <= Len(c) THEN c[i] ELSE k[i - Len(c)]
            /\ (c \o z)[i] = IF i <= Len(c) THEN c[i] ELSE z[i - Len(c)]
  BY <1>3, <1>4, ConcatElements
<1>7. ASSUME NEW i \in 1 .. Len(c) + Len(k)
      PROVE  (c \o z)[i] \in {(c \o k)[i], Junk}
  <2>1. Len(c) \in Nat /\ Len(k) \in Nat
    BY <1>3, LenProperties
  <2>2. ~(i <= Len(c)) => i - Len(c) \in 1 .. Len(k)
    BY <2>1
  <2>q. QED BY <1>4, <1>6, <2>2
<1>q. QED BY <1>1, <1>5, <1>6, <1>7 DEF Wiped

LEMMA SameStream ==
    ASSUME DeviceInv, loaded, Packets' = Packets, Kept' = Kept, accepted' = accepted
    PROVE  Extends(0)
<1>1. Contents = FlattenSeq(Packets) /\ Contents' = FlattenSeq(Packets')
  BY DEF Contents, Packets
<1>2. Stream' = Stream
  BY <1>1 DEF Stream
<1>3. NewBytes(0) = << >>
  BY DEF NewBytes
<1>4. Stream \in Seq(Nat) /\ << >> \in Seq(Nat)
  BY StreamType
<1>5. << >> \o Stream = Stream /\ Stream \o << >> = Stream
  BY <1>4, ConcatEmptySeq
<1>6. accepted' = accepted + 0
  BY DEF DeviceInv
<1>q. QED BY <1>2, <1>3, <1>4, <1>5, <1>6 DEF Extends

LEMMA NewBytesType ==
    ASSUME DeviceInv, NEW k \in Nat
    PROVE  NewBytes(k) \in Seq(Nat) /\ Len(NewBytes(k)) = k
<1>1. accepted \in Nat
  BY DEF DeviceInv
<1>q. QED BY <1>1 DEF NewBytes

LEMMA AcceptExtends ==
    ASSUME DeviceInv, loaded, loaded', NEW k \in Nat, PL!Accept(k)
    PROVE  Extends(k)
<1> DEFINE S == Nat
           c == Contents
           p == Kept
           x == NewBytes(k)
<1>1. c \in Seq(S) /\ p \in Seq(S) /\ x \in Seq(S) /\ << >> \in Seq(S)
  BY StreamType, NewBytesType
<1>2. Packets' = Packets /\ Kept' = p \o x /\ accepted' = accepted + k
  BY FreshAreNew DEF PL!Accept
<1>3. Contents' = c
  <2>1. Contents = FlattenSeq(Packets) /\ Contents' = FlattenSeq(Packets')
    BY DEF Contents, Packets
  <2>q. QED BY <1>2, <2>1
<1> HIDE DEF c, p, x
<1>4. (c \o p) \o x = c \o (p \o x) /\ c \o (p \o x) \in Seq(S)
  <2>1. p \o x \in Seq(S)
    BY <1>1, ConcatProperties
  <2>q. QED BY <1>1, <2>1, ConcatAssociative, ConcatProperties
<1>5. << >> \o (c \o (p \o x)) = c \o (p \o x)
  BY <1>4, ConcatEmptySeq
<1>6. Stream' = c \o (p \o x) /\ Stream \o x = c \o (p \o x)
  BY <1>2, <1>3, <1>4 DEF Stream, c, p
<1>q. QED BY <1>1, <1>2, <1>5, <1>6 DEF Extends, x

LEMMA CompleteExtends ==
    ASSUME DeviceInv, loaded, loaded', NEW k \in Nat, PL!Complete(k)
    PROVE  Extends(k)
<1> DEFINE S == Nat
           l == Packets
           c == Contents
           p == Kept
           x == NewBytes(k)
           y == p \o x
<1>1. /\ c \in Seq(S) /\ p \in Seq(S) /\ x \in Seq(S) /\ << >> \in Seq(S)
      /\ l \in Seq(Seq(S))
  BY StreamType, NewBytesType, PacketsType
<1>2. /\ Packets' = PL!Push(l, y) /\ Kept' = << >> /\ accepted' = accepted + k
  BY FreshAreNew DEF PL!Complete
<1>3. Contents' = FlattenSeq(Packets') /\ c = FlattenSeq(l)
  BY DEF Contents, Packets
<1> HIDE DEF l, c, p, x
<1>4. y \in Seq(S) /\ (c \o p) \o x = c \o y
  <2>1. p \o x \in Seq(S)
    BY <1>1, ConcatProperties
  <2>2. (c \o p) \o x = c \o (p \o x)
    BY <1>1, ConcatAssociative
  <2>q. QED BY <2>1, <2>2
<1> HIDE DEF y
<1>5. ASSUME Contents' \in Seq(S) PROVE Stream' = Contents'
  BY <1>2, <1>5, ConcatEmptySeq DEF Stream
<1>6. CASE Len(l) < MaxOps
  <2>1. Contents' = c \o y
    <3>1. Packets' = Append(l, y)
      BY <1>2, <1>6 DEF PL!Push
    <3>q. QED BY <1>1, <1>3, <1>4, <3>1, FlattenAppend
  <2>2. c \o y \in Seq(S)
    BY <1>1, <1>4, ConcatProperties
  <2>3. << >> \o (c \o y) = c \o y
    BY <2>2, ConcatEmptySeq
  <2>4. << >> \o Stream' = Stream \o x
    BY <1>4, <1>5, <2>1, <2>2, <2>3 DEF Stream, c, p
  <2>q. QED BY <1>1, <1>2, <2>4 DEF Extends, x
<1>7. CASE ~(Len(l) < MaxOps)
  <2> DEFINE h == l[1]
             t == Tail(l)
             r == FlattenSeq(t)
  <2>1. l # << >>
    BY <1>7, MaxOpsAssumption
  <2>2. c = h \o r /\ h \in Seq(S) /\ t \in Seq(Seq(S)) /\ r \in Seq(S)
    BY <1>1, <1>3, <2>1, FlattenTail
  <2>3. Packets' = Append(t, y)
    BY <1>2, <1>7 DEF PL!Push
  <2> HIDE DEF h, t
  <2>4. Contents' = r \o y
    BY <1>3, <1>4, <2>2, <2>3, FlattenAppend
  <2> HIDE DEF r
  <2>5. r \o y \in Seq(S) /\ (h \o r) \o y = h \o (r \o y)
    <3>1. r \o y \in Seq(S)
      BY <1>4, <2>2, ConcatProperties
    <3>2. (h \o r) \o y = h \o (r \o y)
      <4>1. h \in Seq(S) /\ r \in Seq(S) /\ y \in Seq(S)
        BY <1>4, <2>2
      <4>q. QED BY <4>1, ConcatAssociative
    <3>q. QED BY <3>1, <3>2
  <2>6. h \o Stream' = Stream \o x
    BY <1>4, <1>5, <2>2, <2>4, <2>5 DEF Stream, c, p
  <2>q. QED BY <1>2, <2>2, <2>6 DEF Extends, x
<1>q. QED BY <1>6, <1>7

LEMMA StreamStep ==
    ASSUME DeviceInv, UserInv, [Next]_vars, loaded'
    PROVE  \/ Stream' = << >> /\ accepted' = accepted
           \/ loaded /\ Wiped
           \/ loaded /\ \E k \in Nat : Extends(k)
<1>1. ASSUME loaded, UNCHANGED PL!vars PROVE Extends(0)
  BY <1>1, SameStream DEF PL!vars
<1>2. ASSUME UNCHANGED device PROVE loaded /\ Extends(0)
  <2>1. loaded
    BY <1>2 DEF device
  <2>q. QED BY <1>1, <1>2, <2>1, QuietIsStutter
<1>3. CASE Load
  <2>1. buffer' = EmptyBuffer /\ working' = NullEntry /\ accepted' = accepted
    BY <1>3 DEF Load
  <2>2. Packets' = << >> /\ Kept' = << >>
    BY <1>3, LoadIsStutter DEF Load, PL!vars
  <2>3. Contents' = FlattenSeq(Packets')
    BY DEF Contents, Packets
  <2>4. Contents' = << >>
    BY <2>2, <2>3 DEF FlattenSeq
  <2>q. QED BY <2>1, <2>2, <2>4 DEF Stream
<1>4. CASE Unload
  BY <1>4 DEF Unload
<1>5. ASSUME NEW f \in Files, WriteSome(f) PROVE loaded /\ \E k \in Nat : Extends(k)
  <2>1. loaded
    BY <1>5, InCallIsLoaded DEF WriteSome, Goto
  <2>2. PICK count \in WriteCounts, p \in Reallocated, k \in Nat :
         /\ \/ Commit(p, working.size + k, Kept \o NewBytes(k))
            \/ Collect(p, working.size + k, Kept \o NewBytes(k))
         /\ accepted' = accepted + k /\ loaded' = loaded
    BY <1>5, <2>1, WriteCases
  <2>3. PL!Accept(k) \/ PL!Complete(k)
    BY <2>1, <2>2, CommitCompletes, CollectAccepts
  <2>q. QED BY <2>1, <2>3, AcceptExtends, CompleteExtends
<1>6. ASSUME NEW f \in Files, WriteOops(f) PROVE loaded /\ Extends(0)
  <2>1. loaded
    BY <1>6, InCallIsLoaded DEF WriteOops, Goto
  <2>q. QED BY <1>1, <1>6, <2>1, OopsIsStutter
<1>7. ASSUME NEW f \in Files, WriteNoMemory(f) PROVE loaded /\ Wiped
  <2>1. loaded
    BY <1>7, InCallIsLoaded DEF WriteNoMemory, Goto
  <2>q. QED BY <1>7, <2>1, NoMemoryWipes
<1>8. ASSUME NEW f \in Files, Open(f) \/ Release(f) \/ ReadCall(f) \/ WriteCall(f)
             \/ SeekCall(f) \/ LseekCall(f) \/ SeekUnlocks(f) \/ SeekOops(f)
             \/ Lock(f) \/ Unlock(f) \/ ReadNothing(f) \/ ReadSome(f) \/ ReadFaults(f)
             \/ ReadLoad(f) \/ ReadStore(f) \/ Seek(f) \/ SeekRefused(f) \/ Lseek(f)
      PROVE  UNCHANGED device
  BY <1>8, QuietSteps
<1>9. UNCHANGED vars => UNCHANGED device
  BY DEF vars
<1>q. QED
  BY <1>2, <1>3, <1>4, <1>5, <1>6, <1>7, <1>8, <1>9 DEF Next, Body

\* No step takes a file back, but for those that start it anew.
LEMMA PositionStep ==
    ASSUME UserInv, [Next]_vars, NEW f \in Files
    PROVE  \/ last'[f] = 0
           \/ last'[f] = last[f] /\ f_pos'[f] >= f_pos[f]
           \/ ReadSome(f)
<1>0. f_pos \in [Files -> Nat] /\ last \in [Files -> Nat]
  BY DEF UserInv
<1>1. UNCHANGED <<f_pos, last>> => last'[f] = last[f] /\ f_pos'[f] >= f_pos[f]
  BY <1>0
<1>2. CASE Load \/ Unload \/ UNCHANGED vars
  BY <1>1, <1>2 DEF Load, Unload, vars, user
<1>3. ASSUME NEW g \in Files,
             \/ Open(g) \/ Release(g) \/ SeekOops(g) \/ WriteOops(g) \/ Seek(g) \/ Lseek(g)
      PROVE  \/ last'[f] = 0
             \/ last'[f] = last[f] /\ f_pos'[f] >= f_pos[f]
  <2>1. \/ UNCHANGED <<f_pos, last>>
        \/ last' = [last EXCEPT ![g] = 0] /\ \A h \in Files : h # g => f_pos'[h] = f_pos[h]
    BY <1>0, <1>3 DEF Open, Release, SeekOops, WriteOops, Seek, Lseek
  <2>q. QED BY <1>0, <1>1, <2>1
<1>4. ASSUME NEW g \in Files, WriteSome(g)
      PROVE  last'[f] = last[f] /\ f_pos'[f] >= f_pos[f]
  <2>1. PICK count \in WriteCounts : \E k \in Copied(count) : f_pos' = [f_pos EXCEPT ![g] = @ + k]
    BY <1>4 DEF WriteSome
  <2>2. PICK k \in Copied(count) : f_pos' = [f_pos EXCEPT ![g] = @ + k]
    BY <2>1
  <2>3. k \in Nat
    BY <2>2, CallsAssumption DEF Copied
  <2>4. last' = last
    BY <1>4 DEF WriteSome
  <2>q. QED BY <1>0, <2>2, <2>3, <2>4
<1>5. ASSUME NEW g \in Files, ReadSome(g), g # f
      PROVE  last'[f] = last[f] /\ f_pos'[f] >= f_pos[f]
  <2>1. last'[f] = last[f] /\ f_pos'[f] = f_pos[f]
    BY <1>0, <1>5 DEF ReadSome
  <2>q. QED BY <1>0, <2>1
<1>6. ASSUME NEW g \in Files,
             \/ ReadCall(g) \/ WriteCall(g) \/ SeekCall(g) \/ LseekCall(g) \/ SeekUnlocks(g)
             \/ Lock(g) \/ Unlock(g) \/ ReadNothing(g) \/ ReadFaults(g) \/ ReadLoad(g)
             \/ ReadStore(g) \/ WriteNoMemory(g) \/ SeekRefused(g)
      PROVE  UNCHANGED <<f_pos, last>>
  BY <1>6 DEF ReadCall, WriteCall, SeekCall, LseekCall, SeekUnlocks, UnlocksAnything, Lock, Unlock,
              ReadNothing, ReadFaults, ReadLoad, ReadStore, WriteNoMemory, SeekRefused, user
<1>q. QED BY <1>1, <1>2, <1>3, <1>4, <1>5, <1>6 DEF Next, Body

-----------------------------------------------------------------------------
(***************************************************************************)
(* The inductive invariant: the bytes of the stream that somebody wrote    *)
(* are numbered in order, and those behind a file's position come after    *)
(* the last one it read.                                                   *)
(***************************************************************************)
Numbered(s, n) ==
    /\ \A i \in 1 .. Len(s) : s[i] \in 0 .. n
    /\ \A i, j \in 1 .. Len(s) : i < j /\ s[i] # Junk /\ s[j] # Junk => s[i] < s[j]

Ahead(s, pos, byte) == \A i \in 1 .. Len(s) : pos < i /\ s[i] # Junk => byte < s[i]

ForwardInv ==
    /\ \A f \in Files : last[f] <= accepted
    /\ loaded => /\ Numbered(Stream, accepted)
                 /\ \A f \in Files : Ahead(Stream, f_pos[f], last[f])

\* Writing k bytes behind the stream.
LEMMA LongerStream ==
    ASSUME DeviceInv, loaded, Numbered(Stream, accepted), NEW k \in Nat,
           NEW pos \in Nat, NEW byte \in Nat, byte <= accepted, Ahead(Stream, pos, byte)
    PROVE  /\ Stream \o NewBytes(k) \in Seq(Nat)
           /\ Numbered(Stream \o NewBytes(k), accepted + k)
           /\ Ahead(Stream \o NewBytes(k), pos, byte)
<1> DEFINE s == Stream
           x == NewBytes(k)
           v == s \o x
           m == Len(s)
<1>1. s \in Seq(Nat) /\ x \in Seq(Nat) /\ Len(x) = k /\ m \in Nat /\ accepted \in Nat
  BY StreamType, NewBytesType DEF DeviceInv
<1>2. \A i \in 1 .. k : x[i] = accepted + i
  BY DEF NewBytes
<1>3. /\ \A i, j \in 1 .. m : i < j /\ s[i] # 0 /\ s[j] # 0 => s[i] < s[j]
      /\ \A i \in 1 .. m : s[i] \in 0 .. accepted
      /\ \A i \in 1 .. m : pos < i /\ s[i] # 0 => byte < s[i]
  BY DEF Numbered, Ahead, Junk
<1>4. v \in Seq(Nat) /\ Len(v) = m + k
  <2> HIDE DEF s, x
  <2>1. v \in Seq(Nat) /\ Len(v) = Len(s) + Len(x)
    BY <1>1, ConcatProperties
  <2>q. QED BY <1>1, <2>1
<1>5. \A i \in 1 .. m + k : v[i] = IF i <= m THEN s[i] ELSE accepted + (i - m)
  <2> HIDE DEF s, x
  <2> SUFFICES ASSUME NEW i \in 1 .. m + k
               PROVE  v[i] = IF i <= m THEN s[i] ELSE accepted + (i - m)
    OBVIOUS
  <2>1. v[i] = IF i <= m THEN s[i] ELSE x[i - m]
    BY <1>1
  <2>2. ~(i <= m) => i - m \in 1 .. k
    BY <1>1
  <2>q. QED BY <1>2, <2>1, <2>2
<1> HIDE DEF s, x, v, m
<1>6. ASSUME NEW i \in 1 .. m + k
      PROVE  v[i] \in 0 .. accepted + k /\ (pos < i /\ v[i] # 0 => byte < v[i])
  <2>1. CASE i <= m
    <3>1. i \in 1 .. m /\ v[i] = s[i]
      BY <1>1, <1>5, <2>1
    <3>q. QED BY <1>1, <1>3, <3>1
  <2>2. CASE ~(i <= m)
    <3>1. v[i] = accepted + (i - m)
      BY <1>5, <2>2
    <3>q. QED BY <1>1, <2>2, <3>1
  <2>q. QED BY <2>1, <2>2
<1>7. ASSUME NEW i \in 1 .. m + k, NEW j \in 1 .. m + k, i < j, v[i] # 0, v[j] # 0
      PROVE  v[i] < v[j]
  <2>1. CASE j <= m
    <3>1. i \in 1 .. m /\ j \in 1 .. m /\ v[i] = s[i] /\ v[j] = s[j]
      BY <1>1, <1>5, <1>7, <2>1
    <3>q. QED BY <1>3, <1>7, <3>1
  <2>2. CASE i <= m /\ ~(j <= m)
    <3>1. i \in 1 .. m /\ v[i] = s[i] /\ v[j] = accepted + (j - m)
      BY <1>1, <1>5, <2>2
    <3>q. QED BY <1>1, <1>3, <2>2, <3>1
  <2>3. CASE ~(i <= m)
    <3>1. ~(j <= m)
      BY <1>1, <1>7, <2>3
    <3>2. v[i] = accepted + (i - m) /\ v[j] = accepted + (j - m)
      BY <1>5, <2>3, <3>1
    <3>q. QED BY <1>1, <1>7, <3>2
  <2>q. QED BY <2>1, <2>2, <2>3
<1>q. QED BY <1>4, <1>6, <1>7 DEF Numbered, Ahead, Junk, v, s, x

\* Losing bytes at the front brings the rest nearer, and skips none.
LEMMA ShorterStream ==
    ASSUME NEW t, NEW gone \in Seq(Nat), NEW v \in Seq(Nat), gone \o t = v, t \in Seq(Nat),
           NEW n \in Nat, NEW pos \in Nat, NEW byte \in Nat, Numbered(v, n), Ahead(v, pos, byte)
    PROVE  Numbered(t, n) /\ Ahead(t, pos, byte)
<1> DEFINE d == Len(gone)
           m == Len(t)
<1>1. d \in Nat /\ m \in Nat
  OBVIOUS
<1>2. Len(v) = d + m /\ \A i \in 1 .. m : v[d + i] = t[i]
  OBVIOUS
<1>3. /\ \A i, j \in 1 .. Len(v) : i < j /\ v[i] # Junk /\ v[j] # Junk => v[i] < v[j]
      /\ \A i \in 1 .. Len(v) : v[i] \in 0 .. n
      /\ \A i \in 1 .. Len(v) : pos < i /\ v[i] # Junk => byte < v[i]
  BY DEF Numbered, Ahead
<1> HIDE DEF d
<1>4. \A i \in 1 .. m : d + i \in 1 .. Len(v) /\ (pos < i => pos < d + i)
  BY <1>1, <1>2
<1>5. ASSUME NEW i \in 1 .. m
      PROVE  t[i] \in 0 .. n /\ (pos < i /\ t[i] # Junk => byte < t[i])
  <2>1. d + i \in 1 .. Len(v) /\ v[d + i] = t[i]
    BY <1>2, <1>4
  <2>2. v[d + i] \in 0 .. n /\ (pos < d + i /\ v[d + i] # Junk => byte < v[d + i])
    BY <1>3, <2>1
  <2>q. QED BY <1>4, <2>1, <2>2
<1>6. ASSUME NEW i \in 1 .. m, NEW j \in 1 .. m, i < j, t[i] # Junk, t[j] # Junk
      PROVE  t[i] < t[j]
  <2>1. d + i \in 1 .. Len(v) /\ d + j \in 1 .. Len(v) /\ d + i < d + j
    BY <1>1, <1>4, <1>6
  <2>2. v[d + i] = t[i] /\ v[d + j] = t[j]
    BY <1>2
  <2>3. v[d + i] < v[d + j]
    BY <1>3, <1>6, <2>1, <2>2
  <2>q. QED BY <2>2, <2>3
<1>q. QED BY <1>5, <1>6 DEF Numbered, Ahead

\* Losing bytes anywhere.
LEMMA WipedStream ==
    ASSUME NEW s \in Seq(Nat), NEW t \in Seq(Nat), Len(t) = Len(s),
           \A i \in 1 .. Len(s) : t[i] \in {s[i], Junk},
           NEW n \in Nat, NEW pos \in Nat, NEW byte \in Nat, Numbered(s, n), Ahead(s, pos, byte)
    PROVE  Numbered(t, n) /\ Ahead(t, pos, byte)
<1>1. ASSUME NEW i \in 1 .. Len(t) PROVE t[i] \in 0 .. n
  <2>1. s[i] \in 0 .. n
    BY DEF Numbered
  <2>2. 0 \in 0 .. n
    OBVIOUS
  <2>q. QED BY <2>1, <2>2 DEF Junk
<1>2. \A i, j \in 1 .. Len(t) : i < j /\ t[i] # Junk /\ t[j] # Junk => t[i] < t[j]
  BY DEF Numbered
<1>3. \A i \in 1 .. Len(t) : pos < i /\ t[i] # Junk => byte < t[i]
  BY DEF Ahead
<1>q. QED BY <1>1, <1>2, <1>3 DEF Numbered, Ahead

\* A file that reads: the last byte it copied is the one at its new position,
\* and if nobody wrote that one, the file has still read what it had.
LEMMA ReadKeepsAhead ==
    ASSUME DeviceInv, UserInv, ReaderInv, ForwardInv, NEW f \in Files, ReadSome(f)
    PROVE  /\ loaded /\ UNCHANGED <<Stream, loaded, accepted>>
           /\ Ahead(Stream, f_pos'[f], last'[f])
           /\ last'[f] <= accepted
<1>1. loaded /\ nextReadPosition = f_pos[f] /\ f_pos[f] \in Nat
  BY InCallIsLoaded DEF ReadSome, Goto, ReaderInv, UserInv
<1>2. PICK n \in Nat \ {0} :
         /\ f_pos'[f] = f_pos[f] + n
         /\ nextReadPosition + n <= Len(Contents)
         /\ last'[f] = Max2(last[f], Contents[nextReadPosition + n])
  BY ReadCopies
<1> DEFINE to == f_pos[f] + n
<1>3. UNCHANGED <<Stream, loaded, accepted>>
  <2>1. UNCHANGED <<loaded, buffer, data, working, accepted>>
    BY QuietSteps DEF device
  <2>2. Contents' = Contents
    BY <2>1, SameContents
  <2>3. Kept' = Kept
    BY <2>1 DEF Kept
  <2>q. QED BY <2>1, <2>2, <2>3 DEF Stream
<1>4. /\ Len(Contents) \in Nat /\ Len(Stream) \in Nat /\ Len(Contents) <= Len(Stream)
      /\ \A i \in 1 .. Len(Contents) : Stream[i] = Contents[i]
  <2>1. /\ Contents \in Seq(Nat) /\ Kept \in Seq(Nat) /\ Len(Stream) = Len(Contents) + Len(Kept)
        /\ \A i \in 1 .. Len(Contents) : Stream[i] = Contents[i]
    BY <1>1, StreamType
  <2>2. Len(Contents) \in Nat /\ Len(Kept) \in Nat
    BY <2>1, LenProperties
  <2>q. QED BY <2>1, <2>2
<1>5. to \in 1 .. Len(Contents) /\ to \in 1 .. Len(Stream)
  BY <1>1, <1>2, <1>4
<1>6. last'[f] = Max2(last[f], Stream[to]) /\ f_pos'[f] = to /\ f_pos[f] < to
  BY <1>1, <1>2, <1>4, <1>5
<1> HIDE DEF to
<1>7. /\ Numbered(Stream, accepted) /\ accepted \in Nat
      /\ last[f] \in Nat /\ last[f] <= accepted /\ Ahead(Stream, f_pos[f], last[f])
  BY <1>1 DEF ForwardInv, DeviceInv, UserInv
<1>8. Stream[to] \in 0 .. accepted
  BY <1>5, <1>7 DEF Numbered
<1>9. last'[f] <= accepted
  BY <1>6, <1>7, <1>8 DEF Max2
<1>10. Ahead(Stream, to, last'[f])
  <2> SUFFICES ASSUME NEW i \in 1 .. Len(Stream), to < i, Stream[i] # Junk
               PROVE  last'[f] < Stream[i]
    BY DEF Ahead
  <2>1. f_pos[f] < i
    BY <1>1, <1>5, <1>6
  <2>2. last[f] < Stream[i] /\ Stream[i] \in 0 .. accepted
    BY <1>7, <2>1 DEF Ahead, Numbered
  <2>3. Stream[to] < Stream[i]
    <3>1. CASE Stream[to] = Junk
      BY <2>2, <3>1 DEF Junk
    <3>2. CASE Stream[to] # Junk
      BY <1>5, <1>7, <3>2 DEF Numbered
    <3>q. QED BY <3>1, <3>2
  <2>q. QED BY <1>6, <2>2, <2>3 DEF Max2
<1>q. QED BY <1>1, <1>3, <1>6, <1>9, <1>10

StreamTyped == loaded => Stream \in Seq(Nat)

LEMMA NextForwardInv ==
    ASSUME IInv, IInv', StreamTyped', ReaderInv, ForwardInv, [Next]_vars
    PROVE  ForwardInv'
<1>0. /\ DeviceInv /\ UserInv /\ accepted \in Nat
      /\ f_pos \in [Files -> Nat] /\ last \in [Files -> Nat]
      /\ DeviceInv' /\ accepted' \in Nat
  BY DEF IInv, DeviceInv, UserInv
<1>1. ASSUME loaded' PROVE \/ Stream' = << >> /\ accepted' = accepted
                           \/ loaded /\ Wiped
                           \/ loaded /\ \E k \in Nat : Extends(k)
  BY <1>0, <1>1, StreamStep
<1>2. accepted <= accepted'
  <2>1. CASE loaded'
    BY <1>0, <1>1, <2>1 DEF Extends, Wiped
  <2>2. CASE ~loaded'
    <3>1. accepted' = accepted
      <4>1. UNCHANGED device \/ Load \/ Unload => accepted' = accepted
        BY DEF device, Load, Unload
      <4>2. ASSUME NEW f \in Files, WriteSome(f) \/ WriteOops(f) \/ WriteNoMemory(f) PROVE FALSE
        <5>1. loaded /\ loaded' = loaded
          BY <1>0, <4>2, InCallIsLoaded DEF WriteSome, WriteOops, WriteNoMemory, Goto
        <5>q. QED BY <2>2, <5>1
      <4>3. ASSUME NEW f \in Files, Open(f) \/ Release(f) \/ ReadCall(f) \/ WriteCall(f)
             \/ SeekCall(f) \/ LseekCall(f) \/ SeekUnlocks(f) \/ SeekOops(f)
             \/ Lock(f) \/ Unlock(f) \/ ReadNothing(f) \/ ReadSome(f) \/ ReadFaults(f)
             \/ ReadLoad(f) \/ ReadStore(f) \/ Seek(f) \/ SeekRefused(f) \/ Lseek(f)
            PROVE  UNCHANGED device
        BY <4>3, QuietSteps
      <4>4. UNCHANGED vars => UNCHANGED device
        BY DEF vars
      <4>q. QED BY <4>1, <4>2, <4>3, <4>4 DEF Next, Body
    <3>q. QED BY <1>0, <3>1
  <2>q. QED BY <2>1, <2>2
<1>3. ASSUME NEW f \in Files PROVE last'[f] <= accepted'
  <2>1. last[f] \in Nat /\ last[f] <= accepted
    BY <1>0 DEF ForwardInv
  <2>2. CASE ReadSome(f)
    BY <1>0, <2>2, ReadKeepsAhead
  <2>3. CASE last'[f] = 0 \/ last'[f] = last[f]
    BY <1>0, <1>2, <2>1, <2>3
  <2>q. QED BY <1>0, <2>2, <2>3, PositionStep
\* Whatever the new stream keeps of what was ahead is ahead still.
<1>4. ASSUME loaded, loaded',
             \A pos, byte \in Nat : byte <= accepted /\ Ahead(Stream, pos, byte)
                => Numbered(Stream', accepted') /\ Ahead(Stream', pos, byte)
      PROVE  Numbered(Stream, accepted)' /\ \A f \in Files : Ahead(Stream, f_pos[f], last[f])'
  <2> DEFINE t == Stream'
  <2>1. /\ Numbered(Stream, accepted)
        /\ \A f \in Files : Ahead(Stream, f_pos[f], last[f]) /\ last[f] <= accepted
    BY <1>4 DEF ForwardInv
  <2>2. t \in Seq(Nat) /\ Len(t) \in Nat
    BY <1>4, LenProperties DEF StreamTyped
  <2>3. Numbered(t, accepted')
    <3>1. Len(Stream) \in Nat
      BY <1>0, <1>4, StreamType, LenProperties
    <3>2. Ahead(Stream, Len(Stream), 0)
      BY <3>1 DEF Ahead
    <3>q. QED BY <1>0, <1>4, <3>1, <3>2
  <2>4. ASSUME NEW f \in Files PROVE Ahead(t, f_pos'[f], last'[f])
    <3>0. f_pos[f] \in Nat /\ last[f] \in Nat /\ f_pos'[f] \in Nat
      <4>1. f_pos' \in [Files -> Nat]
        BY DEF IInv, UserInv
      <4>q. QED BY <1>0, <4>1
    <3>1. CASE last'[f] = 0
      <4>1. \A i \in 1 .. Len(t) : t[i] \in 0 .. accepted'
        BY <2>3 DEF Numbered
      <4> HIDE DEF t
      <4>q. QED BY <1>0, <3>1, <4>1 DEF Ahead, Junk
    <3>2. CASE last'[f] = last[f] /\ f_pos'[f] >= f_pos[f]
      <4>1. Ahead(t, f_pos[f], last[f])
        BY <1>4, <2>1, <3>0
      <4> HIDE DEF t
      <4>q. QED BY <2>2, <3>0, <3>2, <4>1 DEF Ahead
    <3>3. CASE ReadSome(f)
      BY <1>0, <3>3, ReadKeepsAhead
    <3>q. QED BY <1>0, <3>1, <3>2, <3>3, PositionStep
  <2>q. QED BY <2>3, <2>4
<1>5. ASSUME loaded' PROVE Numbered(Stream, accepted)' /\ \A f \in Files : Ahead(Stream, f_pos[f], last[f])'
  <2> DEFINE t == Stream'
  <2>0. t \in Seq(Nat) /\ (loaded => Stream \in Seq(Nat) /\ Numbered(Stream, accepted))
    BY <1>0, <1>5, StreamType DEF StreamTyped, ForwardInv
  <2>1. CASE Stream' = << >>
    BY <2>1 DEF Numbered, Ahead
  <2>2. CASE loaded /\ Wiped
    <3>1. /\ Len(t) = Len(Stream) /\ \A i \in 1 .. Len(Stream) : t[i] \in {Stream[i], Junk}
          /\ accepted' = accepted
      BY <2>2 DEF Wiped
    <3> HIDE DEF t
    <3>2. ASSUME NEW pos \in Nat, NEW byte \in Nat, Ahead(Stream, pos, byte)
          PROVE  Numbered(t, accepted') /\ Ahead(t, pos, byte)
      BY <1>0, <2>0, <2>2, <3>1, <3>2, WipedStream
    <3>q. QED BY <1>4, <1>5, <2>2, <3>2 DEF t
  <2>3. ASSUME loaded, NEW k \in Nat, Extends(k)
        PROVE  Numbered(Stream, accepted)' /\ \A f \in Files : Ahead(Stream, f_pos[f], last[f])'
    <3> DEFINE v == Stream \o NewBytes(k)
    <3>1. PICK gone \in Seq(Nat) : gone \o t = v
      BY <2>3 DEF Extends
    <3>2. accepted' = accepted + k
      BY <2>3 DEF Extends
    <3>3. ASSUME NEW pos \in Nat, NEW byte \in Nat, byte <= accepted, Ahead(Stream, pos, byte)
          PROVE  Numbered(t, accepted') /\ Ahead(t, pos, byte)
      <4>1. v \in Seq(Nat) /\ Numbered(v, accepted + k) /\ Ahead(v, pos, byte)
        BY <1>0, <2>0, <2>3, <3>3, LongerStream
      <4> HIDE DEF t, v
      <4>2. accepted + k \in Nat
        BY <1>0
      <4>q. QED BY <2>0, <3>1, <3>2, <4>1, <4>2, ShorterStream
    <3>q. QED BY <1>4, <1>5, <2>3, <3>3
  <2>q. QED BY <1>1, <1>5, <2>1, <2>2, <2>3
<1>q. QED BY <1>3, <1>5 DEF ForwardInv

(***************************************************************************)
(* With a single reader, no byte that is read is one it has read before or *)
(* one written before the last one read, although every eviction moves the *)
(* contents under the file positions (main.c:61-91, 154-169) and a failing *)
(* krealloc wipes out the bytes behind the last newline (120-125).         *)
(***************************************************************************)
THEOREM DriverReadsForward ==
    ASSUME OneReader
    PROVE  Spec => ReadsForward
<1>1. Init => ForwardInv
  BY DEF Init, ForwardInv
<1>2. IInv /\ IInv' /\ StreamTyped' /\ ReaderInv /\ ForwardInv /\ [Next]_vars => ForwardInv'
  BY NextForwardInv
<1>3. IInv => StreamTyped
  BY StreamType DEF IInv, StreamTyped
<1>4. ASSUME IInv, ReaderInv, ForwardInv, [Next]_vars, NEW f \in Files, Delivers(f),
             NEW i \in DOMAIN reply'[f], reply'[f][i] # Junk
      PROVE  reply'[f][i] > last[f]
  <2>1. DeviceInv /\ UserInv /\ last[f] \in Nat
    BY <1>4 DEF IInv, UserInv
  <2>2. ReadSome(f)
    BY <1>4, <2>1, DeliversIsReadSome
  <2>3. loaded /\ nextReadPosition = f_pos[f] /\ f_pos[f] \in Nat
    BY <1>4, <2>1, <2>2, InCallIsLoaded DEF ReadSome, Goto, ReaderInv, UserInv
  <2> DEFINE pos == f_pos[f]
  <2>4. PICK n \in Nat \ {0} :
           /\ pos + n <= Len(Contents)
           /\ reply'[f] = SubSeq(Contents, pos + 1, pos + n)
    BY <2>1, <2>2, <2>3, ReadCopies
  <2>5. /\ Contents \in Seq(Nat) /\ Kept \in Seq(Nat)
        /\ Len(Stream) = Len(Contents) + Len(Kept)
        /\ \A m \in 1 .. Len(Contents) : Stream[m] = Contents[m]
    BY <2>1, <2>3, StreamType
  <2>6. Len(Contents) \in Nat /\ Len(Kept) \in Nat
    BY <2>5, LenProperties
  <2>7. i \in 1 .. n /\ reply'[f][i] = Contents[pos + i]
    <3> DEFINE S == Nat
               c == Contents
               r == SubSeq(c, pos + 1, pos + n)
    <3>1. c \in Seq(S) /\ pos \in Nat /\ n \in Nat /\ pos + n <= Len(c)
      BY <2>3, <2>4, <2>5
    <3>2. r = reply'[f]
      BY <2>4
    <3> HIDE DEF c, S, pos
    <3>3. r \in Seq(S) /\ Len(r) = n /\ \A m \in 1 .. n : r[m] = c[pos + m]
      <4>1. r \in Seq(S)
        BY <3>1, SliceIs
      <4>2. Len(r) = n
        BY <3>1, SliceIs
      <4>3. \A m \in 1 .. n : r[m] = c[pos + m]
        BY <3>1, SliceIs
      <4>q. QED BY <4>1, <4>2, <4>3
    <3> HIDE DEF r
    <3>4. i \in 1 .. n
      BY <1>4, <3>2, <3>3
    <3>q. QED BY <3>2, <3>3, <3>4 DEF c
  <2>8. pos + i \in 1 .. Len(Contents) /\ pos + i \in 1 .. Len(Stream) /\ pos < pos + i
    <3> HIDE DEF pos
    <3>1. pos \in Nat /\ i \in Nat /\ 1 <= i /\ i <= n
      BY <2>3, <2>7 DEF pos
    <3>q. QED BY <2>4, <2>5, <2>6, <3>1
  <2>9. Ahead(Stream, pos, last[f])
    BY <1>4, <2>3 DEF ForwardInv
  <2> HIDE DEF pos
  <2>10. Stream[pos + i] = Contents[pos + i] /\ Contents[pos + i] \in Nat
    BY <2>5, <2>8
  <2>11. last[f] < Stream[pos + i]
    BY <1>4, <2>7, <2>8, <2>9, <2>10 DEF Ahead
  <2>q. QED BY <2>1, <2>7, <2>10, <2>11
<1>5. IInv /\ ReaderInv /\ ForwardInv /\ [Next]_vars =>
        [\A f \in Files : Delivers(f) =>
            \A i \in DOMAIN reply'[f] : reply'[f][i] # Junk => reply'[f][i] > last[f]]_vars
  BY <1>4
<1>q. QED BY <1>1, <1>2, <1>3, <1>5, Invariant, ReaderInvariant, PTL DEF Spec, ReadsForward
=============================================================================
