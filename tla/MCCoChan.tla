------------------------------ MODULE MCCoChan ------------------------------
(* Model values for CoChan: one channel of each kind, and a fixed one with  *)
(* more than one slot.                                                      *)
EXTENDS CoChan

ChanSizes == {-1, 0, 1, 2}
=============================================================================
