---------------------------- MODULE MCPmThread ----------------------------
(***************************************************************************)
(* The PM thread, one caller of pm_enter_mode and one thread that takes    *)
(* and releases another wakelock.                                         *)
(***************************************************************************)
EXTENDS PmThread

CONSTANTS pm, a, main, t1

MCLocks   == {pm, a}
MCThreads == {main, t1}
NoTimeout == {}
ForeverOnly == {"forever"}
AnyTmo      == {"forever", "finite"}
=============================================================================
