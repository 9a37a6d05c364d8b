----------------------------- MODULE MCWakelock -----------------------------
(***************************************************************************)
(* Two locks and two threads; timeouts of one and two ticks.               *)
(***************************************************************************)
EXTENDS Wakelock, TLC

CONSTANTS a, b, t1, t2

MCLocks    == {a, b}
MCThreads  == {t1, t2}
OneTick    == {1}
MCTimeouts == {1, 2}
Symmetry   == Permutations(MCLocks) \cup Permutations(MCThreads)
=============================================================================
