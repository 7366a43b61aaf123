----------------------------- MODULE MCAesdChar -----------------------------
(* Instances of the driver with a ring of two slots: the third packet      *)
(* wraps, and the position of a packet in the array is no longer its place *)
(* in the walk.                                                            *)
EXTENDS AesdChar, TLC

CONSTANTS f1, f2

None == {}
Only1 == {f1}
OneTwo == {1, 2}
ZeroOne == {0, 1}
ZeroToTwo == {0, 1, 2}
PtrsAlike == Permutations(Ptrs)
=============================================================================
