----------------------------- MODULE MCBleWork -----------------------------
(***************************************************************************)
(* A delayed work and two others, two threads and the handlers that submit *)
(* and cancel them.                                                        *)
(***************************************************************************)
EXTENDS BleWork

CONSTANTS d, a, b, t1, t2

MCWorks   == {d, a, b}
MCDelayed == {d}
MCThreads == {t1, t2}
=============================================================================
