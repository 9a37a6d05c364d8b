---------------------------- MODULE MCSuspend ----------------------------
(***************************************************************************)
(* Two devices with both kinds of callbacks, registered in any order       *)
(* before and during a transition.                                         *)
(***************************************************************************)
EXTENDS Suspend

CONSTANTS d1, d2

MCDevices == {d1, d2}
MCNoirq   == {d1, d2}
MCModes   == {"sleep", "hibernation"}
MCTests   == {"none", "core", "platform", "devices"}
=============================================================================
