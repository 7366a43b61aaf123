----------------------------- MODULE BoundedLog -----------------------------
(***************************************************************************)
(* What the circular buffer of aesd-circular-buffer.c promises its caller: *)
(* a first-in first-out log of the last Capacity entries added.  The       *)
(* offsets, the full flag and the overflow copy of the implementation are  *)
(* invisible here; CircularBuffer shows that it implements this module.    *)
(***************************************************************************)
EXTENDS Naturals, Sequences

CONSTANTS
    Capacity,   \* AESDCHAR_MAX_WRITE_OPERATIONS_SUPPORTED
    Entry       \* what callers add

VARIABLE log    \* oldest entry first

(***************************************************************************)
(* The log after e is added: a full log gives up its oldest entry.         *)
(***************************************************************************)
Push(l, e) == IF Len(l) < Capacity THEN Append(l, e) ELSE Append(Tail(l), e)

Init == log = << >>

Add(e) == log' = Push(log, e)

Next == \E e \in Entry : Add(e)

Spec == Init /\ [][Next]_log
=============================================================================
