---------------------------- MODULE RecordStore ----------------------------
(***************************************************************************)
(* What the users of an FDCM area rely on: a register that holds the last  *)
(* record written, one record size at a time.  A write that returns its    *)
(* size has replaced the record; one that is cut short may leave the old   *)
(* record, the new one, or none that can be used, and never a record that  *)
(* nobody wrote.  Nothing but a write or an erase changes what is read.    *)
(***************************************************************************)
CONSTANTS DataSizes, Values, Nothing, Garbage

VARIABLES
  stored,  \* what a read of each record size gives
  target,  \* the write in progress: {} or {<<size, value>>}
  result   \* how the last call ended

vars == <<stored, target, result>>

\* A call in progress may spoil what is stored, and for its own record size
\* may already show the new value.
Disturb(own) ==
  \A d \in DataSizes :
    stored'[d] \in {stored[d], Nothing, Garbage}
                     \cup {w[2] : w \in {t \in own : t[1] = d}}

Init ==
  /\ stored = [d \in DataSizes |-> Nothing]
  /\ target = {}
  /\ result = "none"

Begin(d, v) ==
  /\ target = {}
  /\ target' = {<<d, v>>}
  /\ result' = "none"
  /\ UNCHANGED stored

Reject == target = {} /\ result' = "fail" /\ UNCHANGED <<stored, target>>

Progress == target # {} /\ Disturb(target) /\ UNCHANGED <<target, result>>

Commit ==
  \E w \in target :
    /\ stored' = [d \in DataSizes |-> IF d = w[1] THEN w[2] ELSE Nothing]
    /\ target' = {}
    /\ result' = "ok"

Abort == target # {} /\ Disturb(target) /\ target' = {} /\ result' = "fail"

Clear ==
  /\ target = {}
  /\ \/ stored' = [d \in DataSizes |-> Nothing] /\ result' = "none"
     \/ Disturb({}) /\ result' = "fail"
  /\ UNCHANGED target

Next ==
  \/ \E d \in DataSizes, v \in Values : Begin(d, v)
  \/ Reject \/ Progress \/ Commit \/ Abort \/ Clear

Spec == Init /\ [][Next]_vars
=============================================================================
