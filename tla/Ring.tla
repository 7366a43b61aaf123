-------------------------------- MODULE Ring --------------------------------
(***************************************************************************)
(* The data structure of aesd-char-driver/aesd-circular-buffer.c.  The C   *)
(* structure is a record with the fields of struct aesd_circular_buffer,   *)
(* and the functions of the file are operators on that record:             *)
(* CircularBuffer is the ring on its own, AesdChar the driver that keeps   *)
(* one inside struct aesd_dev.                                             *)
(***************************************************************************)
EXTENDS Integers, FiniteSetsExt

CONSTANTS
    MaxOps,     \* AESDCHAR_MAX_WRITE_OPERATIONS_SUPPORTED
    Ptrs,       \* the addresses a caller's memory can have
    NULL

ASSUME MaxOpsAssumption == MaxOps \in Nat \ {0}
ASSUME NullAssumption   == NULL \notin Ptrs

Slots     == 0 .. MaxOps - 1
NullEntry == [buffptr |-> NULL, size |-> 0]
Entries   == [buffptr : Ptrs, size : Nat]           \* what a caller adds
AnyEntry  == [buffptr : Ptrs \cup {NULL}, size : Nat]

Buffers == [entry          : [Slots -> AnyEntry],
            overflow_entry : AnyEntry,
            buf_len        : Nat,
            in_offs        : Slots,
            out_offs       : Slots,
            full           : BOOLEAN]

EmptyBuffer ==
    [entry          |-> [i \in Slots |-> NullEntry],
     overflow_entry |-> NullEntry,
     buf_len        |-> 0,
     in_offs        |-> 0,
     out_offs       |-> 0,
     full           |-> FALSE]

-----------------------------------------------------------------------------
(* The entries in the order they were added.                               *)

IsEmpty(b) == ~b.full /\ b.in_offs = b.out_offs

\* How many slots a walk from out_offs to in_offs visits.
Count(b) == IF b.full THEN MaxOps
            ELSE IF b.in_offs >= b.out_offs THEN b.in_offs - b.out_offs
            ELSE MaxOps + b.in_offs - b.out_offs

\* The j-th entry (from 0) of that walk.
SlotOf(b, j) == (b.out_offs + j) % MaxOps
Nth(b, j)    == b.entry[SlotOf(b, j)]

-----------------------------------------------------------------------------
(***************************************************************************)
(* aesd_circular_buffer_add_entry: the buffer after e is added, and the    *)
(* entry it returns (NullEntry for the NULL pointer).  A definition named  *)
(* after another, like Advance_Late after Advance, is a mutant of it.      *)
(***************************************************************************)
Advance_Late(i) == (i + 1) % (MaxOps + 1)
Advance(i) == (i + 1) % MaxOps

\* Mutants: the size of the new entry, or of the overwritten one, is forgotten.
LengthAfter_DropsNew(b, e) == b.buf_len - (IF b.full THEN b.entry[b.in_offs].size ELSE 0)
LengthAfter_KeepsOld(b, e) == b.buf_len + e.size
LengthAfter(b, e) ==
    b.buf_len + e.size - (IF b.full THEN b.entry[b.in_offs].size ELSE 0)

\* Mutant: a full ring keeps the place of its oldest entry.
OutAfter_Stays(b) == b.out_offs
OutAfter(b) == IF b.full THEN Advance(b.in_offs) ELSE b.out_offs

FullAfter(b) == b.full \/ Advance(b.in_offs) = b.out_offs

AddEntry(b, e) ==
    [entry          |-> [b.entry EXCEPT ![b.in_offs] = e],
     overflow_entry |-> b.entry[b.in_offs],
     buf_len        |-> LengthAfter(b, e),
     in_offs        |-> Advance(b.in_offs),
     out_offs       |-> OutAfter(b),
     full           |-> FullAfter(b)]

\* Mutant: the entry returned is the one behind the overwritten slot.
Overwritten_Next(b) == IF b.full THEN b.entry[Advance(b.in_offs)] ELSE NullEntry
Overwritten(b) == IF b.full THEN b.entry[b.in_offs] ELSE NullEntry

(***************************************************************************)
(* aesd_circular_buffer_find_entry_offset_for_fpos: the first entry of the *)
(* walk at which the running size exceeds pos, and the offset in it.  The  *)
(* loop that computes it is FindOffset.                                    *)
(***************************************************************************)
\* The partial sums of s[0], ..., s[n - 1].
Sums(s, n) == LET S[i \in 0 .. n] == IF i = 0 THEN 0 ELSE S[i - 1] + s[i - 1]
              IN  S

Running(b) == Sums([j \in 0 .. Count(b) - 1 |-> Nth(b, j).size], Count(b))

NotFound == [slot |-> -1, offset |-> 0]

FindEntry(b, pos) ==
    LET hits == {j \in 0 .. Count(b) - 1 : pos + 1 <= Running(b)[j + 1]}
    IN  IF hits = {} THEN NotFound
        ELSE [slot   |-> SlotOf(b, Min(hits)),
              offset |-> pos - Running(b)[Min(hits)]]

\* AESD_CIRCULAR_BUFFER_FOREACH and aesd_circular_buffer_destroy visit the
\* slots in array order and skip those that hold no pointer.
Held(b) == {b.entry[i].buffptr : i \in Slots} \ {NULL}

-----------------------------------------------------------------------------
(***************************************************************************)
(* The offsets and the flag describe the occupied slots: a full ring has   *)
(* its ends at the same slot, the walk from out_offs visits exactly the    *)
(* slots that hold a pointer, and until the ring is full for the first     *)
(* time the oldest entry is in slot 0 and every slot from in_offs on is    *)
(* still as memset left it (c:126-152).                                    *)
(***************************************************************************)
RingIsWellFormed(b) ==
    /\ b.full => b.in_offs = b.out_offs
    /\ ~b.full => b.out_offs = 0
    /\ \A i \in Slots :
          IF b.full \/ i < b.in_offs THEN b.entry[i].buffptr # NULL
                                     ELSE b.entry[i] = NullEntry

BufLenIsTotalOf(b) == b.buf_len = Running(b)[Count(b)]

\* The entries of b, oldest first.
LogOf(b) == [j \in 1 .. Count(b) |-> Nth(b, j - 1)]
=============================================================================
