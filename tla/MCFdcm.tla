------------------------------- MODULE MCFdcm -------------------------------
(***************************************************************************)
(* A small FDCM area: 9 bytes, a 2-byte header, 2 bits to a bitmap byte.  *)
(* Records of 1 byte run out of bits (the clamp IndexMax leaves 4 bits for *)
(* 5 slots), records of 2 bytes run out of room (2 slots), one of 4 bytes  *)
(* is longer than what lies before the first slot, one of 7 does not fit.  *)
(***************************************************************************)
EXTENDS Fdcm, TLC

CONSTANTS v1, v2

MCValues    == {v1, v2}
MCDataSizes == {1, 2, 4, 7}
Symmetry    == Permutations(MCValues)
=============================================================================
