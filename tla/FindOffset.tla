----------------------------- MODULE FindOffset -----------------------------
(***************************************************************************)
(* aesd_circular_buffer_find_entry_offset_for_fpos of                      *)
(* aesd-circular-buffer.c as the loop it is: one step per turn of its      *)
(* do-while.  Between two searches the caller adds entries; during one it  *)
(* does not, because the lock it must hold keeps others out (c:36-49).     *)
(***************************************************************************)
EXTENDS CircularBuffer, SequencesExt

CONSTANT MaxOffset  \* bound: the largest character offset searched for

ASSUME MaxOffsetAssumption == MaxOffset \in Nat

VARIABLES
    pc,                 \* "idle", "loop", "return"
    char_offset,
    index,
    curRunningOffset,
    prevRunningOffset,
    result              \* the entry and offset returned, NotFound for NULL

locals == <<char_offset, index, curRunningOffset, prevRunningOffset, result>>
vars   == <<buffer, pc, locals>>

\* Mutant: the walk starts at the first slot of the array.
Call_FromSlotZero(off) ==
    /\ pc = "idle"
    /\ char_offset' = off
    /\ index' = 0
    /\ curRunningOffset' = 0
    /\ prevRunningOffset' = 0
    /\ result' = NotFound
    /\ pc' = IF IsEmpty(buffer) THEN "return" ELSE "loop"
    /\ UNCHANGED buffer

\* A call: the empty ring returns at once, otherwise the walk starts at out_offs.
Call(off) ==
    /\ pc = "idle"
    /\ char_offset' = off
    /\ index' = buffer.out_offs
    /\ curRunningOffset' = 0
    /\ prevRunningOffset' = 0
    /\ result' = NotFound
    /\ pc' = IF IsEmpty(buffer) THEN "return" ELSE "loop"
    /\ UNCHANGED buffer

\* The comparison at c:85.  Mutant: off by one.
IsHit_Inclusive(off, running) == off <= running
IsHit(off, running) == off + 1 <= running

\* The condition of the while at c:95, behind the step of the index.  Mutants:
\* the walk ends where it began, where the index is before the step, or never.
WalkEnds_AtStart(i) == Advance(i) = buffer.out_offs
WalkEnds_BeforeStep(i) == i = buffer.in_offs
WalkEnds_Never(i) == FALSE
WalkEnds(i) == Advance(i) = buffer.in_offs

Body ==
    LET cur == curRunningOffset + buffer.entry[index].size
        hit == IsHit(char_offset, cur)
    IN  /\ pc = "loop"
        /\ prevRunningOffset' = curRunningOffset
        /\ curRunningOffset' = cur
        /\ result' = IF hit THEN [slot |-> index, offset |-> char_offset - curRunningOffset]
                            ELSE NotFound
        /\ index' = IF hit THEN index ELSE Advance(index)
        /\ pc' = IF hit \/ WalkEnds(index) THEN "return" ELSE "loop"
        /\ UNCHANGED <<buffer, char_offset>>

Return == pc = "return" /\ pc' = "idle" /\ UNCHANGED <<buffer, locals>>

FInit ==
    /\ Init
    /\ pc = "idle"
    /\ char_offset = 0
    /\ index = 0
    /\ curRunningOffset = 0
    /\ prevRunningOffset = 0
    /\ result = NotFound

FNext ==
    \/ pc = "idle" /\ Next /\ UNCHANGED <<pc, locals>>
    \/ \E off \in 0 .. MaxOffset : Call(off)
    \/ Body
    \/ Return

\* A thread inside the function keeps running.
FSpec == FInit /\ [][FNext]_vars /\ WF_vars(Body) /\ WF_vars(Return)

-----------------------------------------------------------------------------
FTypeOK ==
    /\ TypeOK
    /\ pc \in {"idle", "loop", "return"}
    /\ char_offset \in Nat
    /\ index \in Slots
    /\ curRunningOffset \in Nat
    /\ prevRunningOffset \in Nat
    /\ result \in [slot : Slots \cup {-1}, offset : Int]

(***************************************************************************)
(* The answer in terms of the strings concatenated end to end (c:38-46):   *)
(* the byte returned is the byte at char_offset, and NULL means that not   *)
(* enough data is written.                                                 *)
(***************************************************************************)
FindsTheCharacter ==
    pc = "return" =>
        IF result = NotFound THEN buffer.buf_len <= char_offset
        ELSE \E j \in 0 .. Count(buffer) - 1 :
                /\ result.slot = SlotOf(buffer, j)
                /\ Running(buffer)[j] + result.offset = char_offset
                /\ result.offset \in 0 .. Nth(buffer, j).size - 1

(***************************************************************************)
(* What every turn of the loop starts from: the walk stands at its k-th    *)
(* entry, and everything in front of it lies before char_offset.           *)
(***************************************************************************)
LoopInvariant ==
    pc = "loop" =>
        \E k \in 0 .. Count(buffer) - 1 :
            /\ index = SlotOf(buffer, k)
            /\ curRunningOffset = Running(buffer)[k]
            /\ curRunningOffset <= char_offset

(***************************************************************************)
(* The walk never leaves the occupied slots: what it reads as an entry was *)
(* added and not yet overwritten, in a full ring as in a filling one.      *)
(***************************************************************************)
WalkStaysInside == pc = "loop" => buffer.entry[index].buffptr # NULL

(***************************************************************************)
(* The loop computes what AesdChar takes the function to be, and both are  *)
(* the index into the concatenation: Cells lists the <<slot, offset>> of   *)
(* every byte in the ring, oldest first.                                   *)
(***************************************************************************)
Cells(b) ==
    FlattenSeq([j \in 1 .. Count(b) |->
        [o \in 1 .. Nth(b, j - 1).size |->
            [slot |-> SlotOf(b, j - 1), offset |-> o - 1]]])

AgreesWithConcatenation ==
    pc = "return" =>
        /\ result = FindEntry(buffer, char_offset)
        /\ result = IF char_offset < buffer.buf_len
                    THEN Cells(buffer)[char_offset + 1] ELSE NotFound

\* Every search ends: index comes round to in_offs (c:95-96).
SearchEnds == pc = "loop" ~> pc = "return"
=============================================================================
