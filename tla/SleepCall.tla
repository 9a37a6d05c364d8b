------------------------------ MODULE SleepCall ------------------------------
(***************************************************************************)
(* What pm_task relies on when it calls suspend_devices_and_enter.  Within *)
(* a call devices go down and up, one at a time; the system sleeps with    *)
(* all of them down, interrupts masked and the threads stopped; nothing    *)
(* changes while it sleeps; and the call returns with every device up and  *)
(* the threads running, but for a device that let interrupts through while *)
(* it went down.  Or it ends in a reboot.                                  *)
(***************************************************************************)
CONSTANT Devices

VARIABLES
  phase,    \* "out", "in" the call, or "asleep" within it
  reg,      \* the devices registered
  status,   \* each device: "up", "part" or "down"
  masked,   \* interrupts are disabled
  stopped,  \* the threads do not run
  missed,   \* a driver came too late for this call, or unmasked interrupts
  left      \* the devices that went down and unmasked interrupts

vars == <<phase, reg, status, masked, stopped, missed, left>>

Init ==
  /\ phase = "out" /\ reg = {} /\ status = [d \in Devices |-> "up"]
  /\ ~masked /\ ~stopped /\ ~missed /\ left = {}

\* Drivers come and go while threads run.
Driver(d) ==
  /\ ~stopped
  /\ reg' \in {reg, reg \cup {d}, reg \ {d}}
  /\ status' \in {status, [status EXCEPT ![d] = "up"]}
  /\ missed' \in {missed, phase = "in"}
  /\ missed => missed'
  /\ left' \in {left, left \ {d}}
  /\ UNCHANGED <<phase, masked, stopped>>

Call ==
  /\ phase = "out" /\ phase' = "in"
  /\ UNCHANGED <<reg, status, masked, stopped, missed, left>>

Device(d) ==
  /\ phase = "in"
  /\ \E s \in {"up", "part", "down"} : status' = [status EXCEPT ![d] = s]
  /\ left' \in {left, left \ {d}}
  /\ UNCHANGED <<phase, reg, masked, stopped, missed>>

\* d goes down with interrupts unmasked, and nobody takes it up again.
Unmask(d) ==
  /\ phase = "in"
  /\ \E s \in {"part", "down"} : status' = [status EXCEPT ![d] = s]
  /\ left' = left \cup {d} /\ missed' = TRUE /\ masked' = FALSE
  /\ UNCHANGED <<phase, reg, stopped>>

\* Interrupts are masked and threads stopped, or neither is any longer.
Quiet ==
  /\ phase = "in"
  /\ masked' \in BOOLEAN /\ stopped' \in BOOLEAN
  /\ UNCHANGED <<phase, reg, status, missed, left>>

Sleep ==
  /\ phase = "in" /\ phase' = "asleep"
  /\ stopped
  /\ missed \/ (masked /\ \A d \in reg : status[d] = "down")
  /\ UNCHANGED <<reg, status, masked, stopped, missed, left>>

Wake ==
  /\ phase = "asleep" /\ phase' = "in"
  /\ UNCHANGED <<reg, status, masked, stopped, missed, left>>

Return ==
  /\ phase = "in" /\ phase' = "out"
  /\ ~masked /\ ~stopped /\ \A d \in Devices \ left : status[d] = "up"
  /\ ~missed'
  /\ UNCHANGED <<reg, status, masked, stopped, left>>

Reboot ==
  /\ phase # "out" /\ phase' = "out"
  /\ reg' = {} /\ status' = [d \in Devices |-> "up"]
  /\ ~masked' /\ ~stopped' /\ ~missed' /\ left' = {}

Next ==
  \/ \E d \in Devices : Driver(d) \/ Device(d) \/ Unmask(d)
  \/ Call \/ Quiet \/ Sleep \/ Wake \/ Return \/ Reboot

Spec == Init /\ [][Next]_vars
=============================================================================
