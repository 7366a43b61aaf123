--------------------------- MODULE CircularBuffer ---------------------------
(***************************************************************************)
(* The ring of aesd-circular-buffer.c on its own, in the hands of a caller *)
(* that adds any entry at any time.                                        *)
(***************************************************************************)
EXTENDS Ring

CONSTANT Sizes  \* the sizes of the entries the caller adds

ASSUME SizesAssumption == Sizes \subseteq Nat

VARIABLE buffer

Added == [buffptr : Ptrs, size : Sizes]

Init == buffer = EmptyBuffer

Add(e) == buffer' = AddEntry(buffer, e)

Next == \E e \in Added : Add(e)

Spec == Init /\ [][Next]_buffer

-----------------------------------------------------------------------------
\* The offsets are always indexes, and buf_len never drops below zero.
TypeOK == buffer \in Buffers

(***************************************************************************)
(* The offsets and the full flag describe the occupied slots (c:126-152).  *)
(***************************************************************************)
RingInv == RingIsWellFormed(buffer)

(***************************************************************************)
(* buf_len, which add_entry only ever adjusts by differences (c:129 and    *)
(* c:142) and llseek takes for the size of the file, is the total size of  *)
(* the entries in the ring.                                                *)
(***************************************************************************)
BufLenIsTotal == BufLenIsTotalOf(buffer)

(***************************************************************************)
(* What add_entry returns when it overwrites is the oldest entry, the one  *)
(* no later search finds: the caller may free its memory (c:104-108).      *)
(***************************************************************************)
EvictsTheOldest ==
    [][buffer.full => buffer'.overflow_entry = Nth(buffer, 0)]_buffer

(***************************************************************************)
(* The ring implements the bounded first-in first-out log.                 *)
(***************************************************************************)
Log == INSTANCE BoundedLog WITH
           Capacity <- MaxOps, Entry <- Added, log <- LogOf(buffer)

ImplementsLog == Log!Spec
=============================================================================
