-------------------------- MODULE FindOffsetProofs --------------------------
(***************************************************************************)
(* Partial correctness of the search loop, for every number of slots,      *)
(* every entry and every offset.  The loop invariant of FindOffset carries *)
(* the argument; it rests on the ring being well formed, which             *)
(* CircularBufferProofs shows that adding preserves.                       *)
(***************************************************************************)
EXTENDS FindOffset, CircularBufferProofs

-----------------------------------------------------------------------------
FInv == Good(buffer) /\ FTypeOK /\ LoopInvariant /\ FindsTheCharacter

LEMMA FInvInit == FInit => FInv
<1> SUFFICES ASSUME FInit PROVE FInv
  OBVIOUS
<1>1. Good(buffer)
  BY EmptyIsGood DEF FInit, Init
<1>2. 0 \in Slots
  BY MaxOpsAssumption DEF Slots
<1>q. QED
  BY <1>1, <1>2 DEF FInit, FInv, FTypeOK, TypeOK, Good, NotFound, LoopInvariant, FindsTheCharacter

LEMMA AddKeepsFInv ==
    ASSUME FInv, pc = "idle", Next, UNCHANGED <<pc, locals>>
    PROVE  FInv'
<1>1. Good(buffer)'
  BY AddedAreEntries, AddKeepsGood DEF FInv, Next, Add
<1>q. QED
  BY <1>1 DEF FInv, FTypeOK, TypeOK, Good, locals, LoopInvariant, FindsTheCharacter

LEMMA CallKeepsFInv ==
    ASSUME FInv, NEW off \in 0 .. MaxOffset, Call(off)
    PROVE  FInv'
<1>1. /\ Good(buffer) /\ buffer' = buffer
      /\ buffer \in Buffers /\ RingIsWellFormed(buffer) /\ BufLenIsTotalOf(buffer)
  BY DEF FInv, Call, Good
<1>2. buffer.out_offs \in Slots /\ Count(buffer) \in 0 .. MaxOps /\ off \in Nat
      /\ buffer.full \in BOOLEAN /\ MaxOps \in Nat /\ MaxOps > 0
      /\ buffer.in_offs \in Slots
  BY <1>1, Fields, CountInRange, MaxOpsAssumption, MaxOffsetAssumption
<1>3. FTypeOK'
  BY <1>1, <1>2 DEF Call, FTypeOK, TypeOK, NotFound
<1>4. IsEmpty(buffer) <=> Count(buffer) = 0
  BY <1>1, <1>2, CountInRange DEF IsEmpty, RingIsWellFormed
<1>5. CASE IsEmpty(buffer)
  <2>1. pc' = "return" /\ result' = NotFound /\ char_offset' = off
    BY <1>5 DEF Call
  <2>2. FindsTheCharacter'
    <3>1. buffer.buf_len = 0
      BY <1>1, <1>4, <1>5, RunningSums DEF BufLenIsTotalOf, IsRunning
    <3>q. QED BY <1>1, <1>2, <2>1, <3>1 DEF FindsTheCharacter
  <2>3. LoopInvariant'
    BY <2>1 DEF LoopInvariant
  <2>q. QED BY <1>1, <1>3, <2>2, <2>3 DEF FInv
<1>6. CASE ~IsEmpty(buffer)
  <2>1. pc' = "loop" /\ char_offset' = off /\ index' = buffer.out_offs /\ curRunningOffset' = 0
    BY <1>6 DEF Call
  <2>2. 0 \in 0 .. Count(buffer) - 1
    BY <1>2, <1>4, <1>6
  <2>3. SlotOf(buffer, 0) = buffer.out_offs
    BY <1>2, SlotOfWraps DEF Slots
  <2>4. curRunningOffset' = Running(buffer)[0] /\ curRunningOffset' <= char_offset'
    BY <1>1, <1>2, <2>1, RunningSums DEF IsRunning
  <2>5. LoopInvariant'
    BY <1>1, <2>1, <2>2, <2>3, <2>4 DEF LoopInvariant
  <2>6. FindsTheCharacter'
    BY <2>1 DEF FindsTheCharacter
  <2>q. QED BY <1>1, <1>3, <2>5, <2>6 DEF FInv
<1>q. QED
  BY <1>5, <1>6

LEMMA BodyKeepsFInv ==
    ASSUME FInv, Body
    PROVE  FInv'
<1> DEFINE n == Count(buffer)
           len == buffer.buf_len
           P == Running(buffer)
           cur == curRunningOffset + buffer.entry[index].size
           hit == IsHit(char_offset, cur)
<1>1. /\ Good(buffer) /\ buffer' = buffer
      /\ buffer \in Buffers /\ RingIsWellFormed(buffer) /\ BufLenIsTotalOf(buffer)
      /\ pc = "loop" /\ char_offset' = char_offset /\ char_offset \in Nat
      /\ curRunningOffset \in Nat /\ index \in Slots
  BY DEF FInv, FTypeOK, Body, Good
<1>2. PICK k \in 0 .. n - 1 :
          /\ index = SlotOf(buffer, k)
          /\ curRunningOffset = P[k]
          /\ curRunningOffset <= char_offset
  BY <1>1 DEF FInv, LoopInvariant
<1>3. n \in 0 .. MaxOps /\ k \in 0 .. MaxOps /\ len \in Nat /\ MaxOps \in Nat
  BY <1>1, CountInRange, Fields, MaxOpsAssumption
<1>4. /\ Advance(index) = SlotOf(buffer, k + 1)
      /\ SlotOf(buffer, k + 1) = buffer.in_offs <=> k + 1 = n
      /\ Advance(index) \in Slots
  BY <1>1, <1>2, WalkStep, AdvanceWraps
<1>5. Nth(buffer, k) = buffer.entry[index] /\ Nth(buffer, k).size \in Nat
  BY <1>1, <1>2, <1>3, NthType DEF Nth
<1>6. cur = P[k + 1] /\ P[n] = len
  <2>1. IsRunning(P, buffer)
    BY <1>1, RunningSums
  <2>2. P[k + 1] = P[k] + Nth(buffer, k).size
    BY <2>1 DEF IsRunning
  <2>q. QED BY <1>1, <1>2, <1>5, <2>2 DEF BufLenIsTotalOf
<1>7. /\ curRunningOffset' = cur /\ cur \in Nat
      /\ prevRunningOffset' = curRunningOffset
      /\ result' = IF hit THEN [slot |-> index, offset |-> char_offset - curRunningOffset]
                          ELSE NotFound
      /\ index' = IF hit THEN index ELSE Advance(index)
      /\ pc' = IF hit \/ WalkEnds(index) THEN "return" ELSE "loop"
  BY <1>1, <1>5 DEF Body
<1>8. (hit <=> char_offset + 1 <= cur) /\ (WalkEnds(index) <=> k + 1 = n)
  BY <1>4 DEF IsHit, WalkEnds
<1> HIDE DEF n, len, P, cur, hit
<1>9. FTypeOK'
  <2>1. result' \in [slot : Slots \cup {-1}, offset : Int]
    BY <1>1, <1>7 DEF NotFound
  <2>2. pc' \in {"idle", "loop", "return"} /\ index' \in Slots
    BY <1>1, <1>4, <1>7
  <2>q. QED BY <1>1, <1>7, <2>1, <2>2 DEF FTypeOK, TypeOK
<1>10. CASE hit
  <2>1. /\ pc' = "return"
        /\ result' = [slot |-> index, offset |-> char_offset - curRunningOffset]
    BY <1>7, <1>10
  <2>2. /\ P[k] + result'.offset = char_offset
        /\ result'.offset \in 0 .. Nth(buffer, k).size - 1
    <3> DEFINE p == curRunningOffset
               z == Nth(buffer, k).size
    <3>1. cur = p + z
      BY <1>5 DEF cur
    <3>2. result'.offset = char_offset - p
      BY <2>1
    <3>3. char_offset \in Nat /\ p \in Nat /\ z \in Nat /\ p <= char_offset /\ char_offset + 1 <= p + z
      BY <1>1, <1>2, <1>5, <1>8, <1>10, <3>1
    <3> HIDE DEF p, z
    <3>4. p + (char_offset - p) = char_offset /\ char_offset - p \in 0 .. z - 1
      BY <3>3
    <3>q. QED BY <1>2, <3>2, <3>4 DEF p, z
  <2>3. FindsTheCharacter'
    <3>1. result'.slot = SlotOf(buffer, k) /\ result' # NotFound
      <4>1. index # -1
        BY <1>1 DEF Slots
      <4>q. QED BY <1>2, <2>1, <4>1 DEF NotFound
    <3>q. QED BY <1>1, <1>2, <2>2, <3>1 DEF FindsTheCharacter, n, P
  <2>4. LoopInvariant'
    BY <2>1 DEF LoopInvariant
  <2>q. QED BY <1>1, <1>9, <2>3, <2>4 DEF FInv
<1>11. CASE ~hit /\ k + 1 = n
  <2>1. pc' = "return" /\ result' = NotFound
    BY <1>7, <1>8, <1>11
  <2>2. len <= char_offset
    BY <1>1, <1>3, <1>6, <1>7, <1>8, <1>11
  <2>3. FindsTheCharacter'
    BY <1>1, <2>1, <2>2 DEF FindsTheCharacter, len
  <2>4. LoopInvariant'
    BY <2>1 DEF LoopInvariant
  <2>q. QED BY <1>1, <1>9, <2>3, <2>4 DEF FInv
<1>12. CASE ~hit /\ k + 1 # n
  <2>1. pc' = "loop" /\ index' = SlotOf(buffer, k + 1)
    BY <1>4, <1>7, <1>8, <1>12
  <2>2. k + 1 \in 0 .. n - 1
    BY <1>3, <1>12
  <2>3. curRunningOffset' = P[k + 1] /\ curRunningOffset' <= char_offset'
    BY <1>1, <1>6, <1>7, <1>8, <1>12
  <2>4. LoopInvariant'
    BY <1>1, <2>1, <2>2, <2>3 DEF LoopInvariant, n, P
  <2>5. FindsTheCharacter'
    BY <2>1 DEF FindsTheCharacter
  <2>q. QED BY <1>1, <1>9, <2>4, <2>5 DEF FInv
<1>q. QED
  BY <1>10, <1>11, <1>12

LEMMA FInvariant == FSpec => []FInv
<1>1. FInv /\ [FNext]_vars => FInv'
  <2> SUFFICES ASSUME FInv, [FNext]_vars PROVE FInv'
    OBVIOUS
  <2>1. CASE pc = "idle" /\ Next /\ UNCHANGED <<pc, locals>>
    BY <2>1, AddKeepsFInv
  <2>2. CASE \E off \in 0 .. MaxOffset : Call(off)
    BY <2>2, CallKeepsFInv
  <2>3. CASE Body
    BY <2>3, BodyKeepsFInv
  <2>4. CASE Return
    BY <2>4 DEF Return, FInv, FTypeOK, TypeOK, Good, locals, LoopInvariant, FindsTheCharacter
  <2>5. CASE UNCHANGED vars
    BY <2>5 DEF vars, FInv, FTypeOK, TypeOK, Good, locals, LoopInvariant, FindsTheCharacter
  <2>q. QED BY <2>1, <2>2, <2>3, <2>4, <2>5 DEF FNext
<1>q. QED
  BY <1>1, FInvInit, PTL DEF FSpec

(***************************************************************************)
(* Every search returns the byte at char_offset of the concatenated        *)
(* strings, or NULL when they are too short (c:36-49).                     *)
(***************************************************************************)
THEOREM FindCorrect == FSpec => []FindsTheCharacter
<1>1. FInv => FindsTheCharacter
  BY DEF FInv
<1>q. QED
  BY <1>1, FInvariant, PTL

(***************************************************************************)
(* The walk reads occupied slots only.                                     *)
(***************************************************************************)
THEOREM WalkCorrect == FSpec => []WalkStaysInside
<1>1. FInv => WalkStaysInside
  <2> SUFFICES ASSUME FInv, pc = "loop" PROVE buffer.entry[index].buffptr # NULL
    BY DEF WalkStaysInside
  <2>1. PICK k \in 0 .. Count(buffer) - 1 : index = SlotOf(buffer, k)
    BY DEF FInv, LoopInvariant
  <2>q. QED BY <2>1, WalkStep DEF FInv, Good
<1>q. QED
  BY <1>1, FInvariant, PTL

-----------------------------------------------------------------------------
(***************************************************************************)
(* Cells(b) has one cell per byte, and the cell of the o-th byte of the    *)
(* k-th entry stands behind those of all the entries in front of it.       *)
(***************************************************************************)
LEMMA CellsAre ==
    ASSUME NEW b \in Buffers, RingIsWellFormed(b)
    PROVE  /\ Len(Cells(b)) = Running(b)[Count(b)]
           /\ \A k \in 0 .. Count(b) - 1 : \A o \in 1 .. Nth(b, k).size :
                 Cells(b)[Running(b)[k] + o] = [slot |-> SlotOf(b, k), offset |-> o - 1]
<1> DEFINE n == Count(b)
           S == [slot : Slots, offset : Nat]
           row(k) == [o \in 1 .. Nth(b, k).size |-> [slot |-> SlotOf(b, k), offset |-> o - 1]]
           seqs == [j \in 1 .. n |-> row(j - 1)]
<1>1. n \in Nat /\ IsRunning(Running(b), b)
  BY CountInRange, RunningSums, MaxOpsAssumption
<1>2. ASSUME NEW k \in 0 .. n - 1
      PROVE  /\ row(k) \in Seq(S) /\ Len(row(k)) = Nth(b, k).size
             /\ \A o \in 1 .. Nth(b, k).size :
                   row(k)[o] = [slot |-> SlotOf(b, k), offset |-> o - 1]
  <2>1. k \in 0 .. MaxOps
    BY CountInRange, MaxOpsAssumption
  <2>2. SlotOf(b, k) \in Slots /\ Nth(b, k).size \in Nat
    BY <2>1, NthType, WalkStep
  <2> DEFINE z == Nth(b, k).size
             cell(o) == [slot |-> SlotOf(b, k), offset |-> o - 1]
  <2>3. z \in Nat /\ \A o \in 1 .. z : cell(o) \in S
    BY <2>2
  <2>4. row(k) = [o \in 1 .. z |-> cell(o)]
    OBVIOUS
  <2> HIDE DEF row, S, z, cell
  <2>5. row(k) \in Seq(S) /\ Len(row(k)) = z /\ \A o \in 1 .. z : row(k)[o] = cell(o)
    BY <2>3, <2>4
  <2>q. QED BY <2>5 DEF z, cell
<1>3. Cells(b) = FlattenSeq(seqs)
  BY DEF Cells
<1> HIDE DEF row, S
<1>4. seqs \in Seq(Seq(S)) /\ Len(seqs) = n
  <2>1. \A j \in 1 .. n : row(j - 1) \in Seq(S)
    BY <1>1, <1>2
  <2>q. QED BY <1>1, <2>1
<1>5. \A k \in 0 .. n - 1 : seqs[k + 1] = row(k)
  BY <1>1
<1> HIDE DEF seqs
<1>6. IsSums(Running(b), Lengths(seqs), n)
  BY <1>1, <1>2, <1>4, <1>5 DEF IsSums, IsRunning, Lengths
<1> HIDE DEF n
<1>7. /\ Len(FlattenSeq(seqs)) = Running(b)[n]
      /\ \A k \in 0 .. n - 1 : \A o \in 1 .. Len(seqs[k + 1]) :
            FlattenSeq(seqs)[Running(b)[k] + o] = seqs[k + 1][o]
  BY <1>4, <1>6, FlattenSeqIs
<1>8. ASSUME NEW k \in 0 .. n - 1, NEW o \in 1 .. Nth(b, k).size
      PROVE  Cells(b)[Running(b)[k] + o] = [slot |-> SlotOf(b, k), offset |-> o - 1]
  <2>1. seqs[k + 1] = row(k) /\ o \in 1 .. Len(row(k))
    BY <1>2, <1>5
  <2>2. Cells(b)[Running(b)[k] + o] = row(k)[o]
    BY <1>3, <1>7, <2>1
  <2>q. QED BY <1>2, <2>2
<1>q. QED
  BY <1>3, <1>7, <1>8 DEF n

(***************************************************************************)
(* The loop is a correct implementation of the search as AesdChar takes it *)
(* to be, and both are the index into the concatenated strings (c:38-46).  *)
(***************************************************************************)
THEOREM SearchIsAnIndex == FSpec => []AgreesWithConcatenation
<1>1. FInv => AgreesWithConcatenation
  <2> SUFFICES ASSUME FInv, pc = "return"
               PROVE  /\ result = FindEntry(buffer, char_offset)
                      /\ result = IF char_offset < buffer.buf_len
                                  THEN Cells(buffer)[char_offset + 1] ELSE NotFound
    BY DEF AgreesWithConcatenation
  <2> DEFINE P == Running(buffer)
             n == Count(buffer)
  <2>1. /\ buffer \in Buffers /\ RingIsWellFormed(buffer) /\ BufLenIsTotalOf(buffer)
        /\ char_offset \in Nat /\ result \in [slot : Slots \cup {-1}, offset : Int]
        /\ FindsTheCharacter
    BY DEF FInv, FTypeOK, Good
  <2>2. P[n] = buffer.buf_len /\ buffer.buf_len \in Nat
    BY <2>1, Fields DEF BufLenIsTotalOf
  <2>3. CASE result = NotFound
    <3>1. buffer.buf_len <= char_offset
      BY <2>1, <2>3 DEF FindsTheCharacter
    <3>2. FindEntry(buffer, char_offset) = NotFound
      BY <2>1, <2>2, <3>1, FindEntryIsNothing
    <3>3. ~ (char_offset < buffer.buf_len)
      BY <2>1, <2>2, <3>1
    <3>q. QED BY <2>3, <3>2, <3>3
  <2>4. CASE result # NotFound
    <3>1. PICK k \in 0 .. n - 1 :
             /\ result.slot = SlotOf(buffer, k)
             /\ P[k] + result.offset = char_offset
             /\ result.offset \in 0 .. Nth(buffer, k).size - 1
      BY <2>1, <2>4 DEF FindsTheCharacter
    <3>2. /\ n \in Nat /\ n <= MaxOps /\ MaxOps \in Nat /\ P \in [0 .. n -> Nat]
          /\ P[k + 1] = P[k] + Nth(buffer, k).size
          /\ \A i, j \in 0 .. n : i <= j => P[i] <= P[j]
      BY <2>1, CountInRange, RunningSums, MaxOpsAssumption DEF IsRunning
    <3> DEFINE z == Nth(buffer, k).size
               o == result.offset
    <3>3. z \in Nat /\ P[k] \in Nat /\ P[k + 1] \in Nat /\ k \in 0 .. n /\ k + 1 \in 0 .. n
      <4>1. k \in 0 .. MaxOps
        BY <3>2
      <4>q. QED BY <2>1, <3>2, <4>1, NthType
    <3>4. result = [slot |-> SlotOf(buffer, k), offset |-> o]
      BY <2>1, <3>1
    <3>5. o \in 0 .. z - 1 /\ P[k] + o = char_offset /\ P[k + 1] = P[k] + z
      BY <3>1, <3>2
    <3>6. P[k + 1] <= P[n]
      BY <3>2, <3>3
    <3> HIDE DEF P, n, o, z
    <3>7. /\ P[k] <= char_offset /\ char_offset < P[k + 1] /\ o = char_offset - P[k]
          /\ o + 1 \in 1 .. z /\ char_offset + 1 = P[k] + (o + 1) /\ (o + 1) - 1 = o
      BY <2>1, <3>3, <3>5
    <3>8. char_offset < buffer.buf_len
      BY <2>1, <2>2, <3>3, <3>6, <3>7
    <3>9. FindEntry(buffer, char_offset) = [slot |-> SlotOf(buffer, k), offset |-> char_offset - P[k]]
      BY <2>1, <3>7, FindEntryIs DEF P, n
    <3>10. Cells(buffer)[P[k] + (o + 1)] = [slot |-> SlotOf(buffer, k), offset |-> (o + 1) - 1]
      BY <2>1, <3>7, CellsAre DEF P, n, z
    <3>q. QED BY <3>4, <3>7, <3>8, <3>9, <3>10
  <2>q. QED BY <2>3, <2>4
<1>q. QED
  BY <1>1, FInvariant, PTL
=============================================================================
