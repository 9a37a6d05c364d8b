----------------------------- MODULE MCSysCtrl -----------------------------
(***************************************************************************)
(* Two observers, one of one event and one of all; an application thread, *)
(* the network task and the looper; a queue of one event.                  *)
(***************************************************************************)
EXTENDS SysCtrl

CONSTANTS o1, o2, up, app

MCObservers == {o1, o2}
MCEvents    == {up, Handler}
MCWatches   == [o \in MCObservers |-> IF o = o1 THEN {up} ELSE {up, Handler}]
MCApps      == {app}
=============================================================================
