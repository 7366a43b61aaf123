------------------------ MODULE CircularBufferProofs ------------------------
(***************************************************************************)
(* Theorems about the ring on its own.  The inductive invariant is Good:   *)
(* the type, the shape of the ring and the meaning of buf_len together,    *)
(* because buf_len stays a natural number only while it is a total.        *)
(***************************************************************************)
EXTENDS CircularBuffer, RingProofs

LEMMA AddedAreEntries == Added \subseteq Entries
  BY SizesAssumption DEF Added, Entries

LEMMA GoodInvariant == Spec => []Good(buffer)
<1>1. Init => Good(buffer)
  BY EmptyIsGood DEF Init
<1>2. Good(buffer) /\ [Next]_buffer => Good(buffer)'
  BY AddedAreEntries, AddKeepsGood DEF Next, Add
<1>q. QED
  BY <1>1, <1>2, PTL DEF Spec

(***************************************************************************)
(* The offsets are always indexes of the array and buf_len never drops     *)
(* below zero, whatever is added.                                          *)
(***************************************************************************)
THEOREM TypeCorrect == Spec => []TypeOK
<1>1. Good(buffer) => TypeOK
  BY DEF Good, TypeOK
<1>q. QED
  BY <1>1, GoodInvariant, PTL

(***************************************************************************)
(* The offsets and the full flag describe the occupied slots.              *)
(***************************************************************************)
THEOREM RingCorrect == Spec => []RingInv
<1>1. Good(buffer) => RingInv
  BY DEF Good, RingInv
<1>q. QED
  BY <1>1, GoodInvariant, PTL

(***************************************************************************)
(* buf_len is the total of the sizes of the entries in the ring.           *)
(***************************************************************************)
THEOREM BufLenCorrect == Spec => []BufLenIsTotal
<1>1. Good(buffer) => BufLenIsTotal
  BY DEF Good, BufLenIsTotal
<1>q. QED
  BY <1>1, GoodInvariant, PTL

(***************************************************************************)
(* A full ring hands its oldest entry back to the caller.                  *)
(***************************************************************************)
THEOREM EvictionCorrect == Spec => EvictsTheOldest
<1>1. Good(buffer) /\ [Next]_buffer
        => [buffer.full => buffer'.overflow_entry = Nth(buffer, 0)]_buffer
  <2> SUFFICES ASSUME Good(buffer), NEW e \in Added, Add(e), buffer.full
               PROVE  buffer'.overflow_entry = Nth(buffer, 0)
    BY DEF Next
  <2>1. Nth(buffer, 0) = buffer.entry[buffer.in_offs]
    BY AddedAreEntries, AddWhenFull DEF Good
  <2>q. QED
    BY <2>1, AddFields DEF Add
<1>q. QED
  BY <1>1, GoodInvariant, PTL DEF Spec, EvictsTheOldest

(***************************************************************************)
(* The ring implements the bounded log: whatever MaxOps is, its walk is    *)
(* the last MaxOps entries added, in order (aesd_circular_buffer_add_entry *)
(* c:110-156).                                                             *)
(***************************************************************************)
THEOREM Refinement == Spec => ImplementsLog
<1>1. Init => Log!Init
  <2> SUFFICES ASSUME Init PROVE LogOf(buffer) = << >>
    BY DEF Log!Init
  <2>1. LogOf(buffer) \in Seq(AnyEntry) /\ Len(LogOf(buffer)) = Count(buffer)
    BY EmptyIsGood, LogOfType DEF Init, Good
  <2>2. Count(buffer) = 0
    BY DEF Init, Count, EmptyBuffer
  <2>q. QED BY <2>1, <2>2
<1>2. Good(buffer) /\ [Next]_buffer => [Log!Next]_(LogOf(buffer))
  <2>1. CASE UNCHANGED buffer
    BY <2>1 DEF LogOf, Count, Nth, SlotOf
  <2>2. ASSUME Good(buffer), NEW e \in Added, Add(e)
        PROVE  Log!Add(e)
    <3>1. LogOf(AddEntry(buffer, e)) = Log!Push(LogOf(buffer), e)
      BY <2>2, AddedAreEntries, AddPushes DEF Pushed, Log!Push
    <3>2. LogOf(buffer)' = LogOf(AddEntry(buffer, e))
      BY <2>2 DEF Add, LogOf, Count, Nth, SlotOf
    <3>q. QED BY <3>1, <3>2 DEF Log!Add
  <2>q. QED
    BY <2>1, <2>2 DEF Next, Log!Next
<1>q. QED
  BY <1>1, <1>2, GoodInvariant, PTL DEF Spec, ImplementsLog, Log!Spec
=============================================================================
