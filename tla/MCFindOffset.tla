---------------------------- MODULE MCFindOffset ----------------------------
(* Searches in every ring of three slots that entries of up to two  *)
(* bytes can leave, at every offset to one past the largest total.         *)
EXTENDS FindOffset

MCSizes == {0, 1, 2}
=============================================================================
