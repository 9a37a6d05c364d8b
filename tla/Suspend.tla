------------------------------ MODULE Suspend ------------------------------
(***************************************************************************)
(* The suspend core.  suspend_devices_and_enter takes the devices from     *)
(* dpm_list to dpm_suspended_list and from dpm_late_early_list to          *)
(* dpm_noirq_list while it calls their suspend callbacks, enters the mode, *)
(* and takes them back while it calls their resume callbacks.  Any         *)
(* callback may fail, and a reason to wake may turn up at any time.        *)
(*                                                                         *)
(* Drivers register and unregister devices from other threads, which run   *)
(* until the scheduler is stopped and again once it goes on, also during   *)
(* the callbacks of dpm_suspend and dpm_resume.                            *)
(***************************************************************************)
EXTENDS Lists

CONSTANTS
  Devices,
  Normal,   \* those whose driver has suspend and resume
  Noirq,    \* those whose driver has suspend_noirq and resume_noirq
  Modes,    \* the modes asked for
  Tests,    \* the levels pm_set_test_level is called with
  None,     \* no device
  MaxReg    \* bound: the registrations until the next reboot

ASSUME SuspendAssumption ==
  /\ Normal \cup Noirq = Devices /\ None \notin Devices
  /\ Modes \subseteq {"sleep", "standby", "hibernation"}
  /\ Tests \subseteq {"none", "core", "platform", "devices"}
  /\ MaxReg \in Nat

VARIABLES
  list,       \* dpm_list
  suspended,  \* dpm_suspended_list
  early,      \* dpm_late_early_list
  noirq,      \* dpm_noirq_list
  half,       \* the device pm_register_ops has put in dpm_list only
  test,       \* pm_test_level
  pc,         \* where suspend_devices_and_enter is
  mode,       \* its state
  cb,         \* the device whose callback runs
  ret,        \* its error: "zero", "fail" or "wake"
  error,      \* suspend_enter: error is not 0
  wakeup,     \* suspend_enter: wakeup is not 0
  irqs,       \* interrupts are enabled
  running,    \* the scheduler is not suspended
  pending,    \* check_wakeup_irqs finds a reason to wake
  (* history *)
  reg,        \* devices pm_register_ops took and pm_unregister_ops did not
  down,       \* devices suspended and not resumed, the last one first
  downNoirq,  \* the same of the noirq callbacks
  left,       \* devices whose noirq callback suspended them but enabled
              \* interrupts, which the loop did not move: not resumed since
  before,     \* dpm_list and dpm_late_early_list when the call began, as long
              \* as no device came or went
  odd,        \* what came meanwhile: "mid", "late", "unmasked"
  regs        \* registrations, for the bound

lists   == <<list, suspended, early, noirq>>
call    == <<mode, cb, ret, error, wakeup>>
system  == <<irqs, running, pending>>
drivers == <<half, reg, regs>>
history == <<down, downNoirq, left, before, odd>>
vars    == <<lists, test, pc, call, system, drivers, history>>

Boot ==
  /\ list = <<>> /\ suspended = <<>> /\ early = <<>> /\ noirq = <<>>
  /\ half = None /\ test = "none"
  /\ pc = "idle" /\ mode = "none" /\ cb = None /\ ret = "zero"
  /\ error = FALSE /\ wakeup = FALSE
  /\ irqs = TRUE /\ running = TRUE /\ pending = FALSE
  /\ reg = {} /\ down = <<>> /\ downNoirq = <<>> /\ left = {}
  /\ before = <<<<>>, <<>>>> /\ odd = {} /\ regs = 0

Init == Boot

\* !list_empty(&dev->node[..])
InNormal(d) == d \in Range(list) \cup Range(suspended)
InNoirq(d)  == d \in Range(early) \cup Range(noirq)

Transition == pc # "idle"
Note(what) == IF Transition THEN odd \cup what ELSE odd

-----------------------------------------------------------------------------
(* Drivers, in other threads *)

\* pm_register_ops: the device's driver has initialised it, and it is up.  It
\* is put at the head of each list, with interrupts enabled in between.
Register(d) ==
  /\ running /\ half = None /\ regs < MaxReg
  /\ ~InNormal(d) /\ ~InNoirq(d)
  /\ regs' = regs + 1
  /\ list' = IF d \in Normal THEN <<d>> \o list ELSE list
  /\ before' = <<<<>>, <<>>>>
  /\ odd' = Note({"mid"} \cup IF pc = "begun" /\ d \in Normal THEN {"late"} ELSE {})
  /\ down' = Without(down, d) /\ downNoirq' = Without(downNoirq, d)
  /\ left' = left \ {d}
  /\ IF d \in Normal /\ d \in Noirq
     THEN half' = d /\ UNCHANGED <<early, reg>>
     ELSE /\ half' = None /\ reg' = reg \cup {d}
          /\ early' = IF d \in Noirq THEN <<d>> \o early ELSE early
  /\ UNCHANGED <<suspended, noirq, test, pc, call, system>>

RegisterNoirq ==
  /\ running /\ half # None
  /\ early' = <<half>> \o early
  /\ reg' = reg \cup {half} /\ half' = None
  /\ before' = <<<<>>, <<>>>> /\ odd' = Note({"mid"})
  /\ UNCHANGED <<list, suspended, noirq, test, pc, call, system, down, downNoirq, left,
                 regs>>

\* pm_unregister_ops, which takes the device off whatever list it is on.
Unregister(d) ==
  /\ running /\ half = None
  /\ d \in Normal => InNormal(d)
  /\ d \in Noirq => InNoirq(d)
  /\ list' = Without(list, d) /\ suspended' = Without(suspended, d)
  /\ early' = Without(early, d) /\ noirq' = Without(noirq, d)
  /\ reg' = reg \ {d}
  /\ down' = Without(down, d) /\ downNoirq' = Without(downNoirq, d)
  /\ left' = left \ {d}
  /\ before' = <<<<>>, <<>>>> /\ odd' = Note({"mid"})
  /\ UNCHANGED <<half, test, pc, call, system, regs>>

SetTestLevel(l) ==
  /\ running /\ test' = l
  /\ UNCHANGED <<lists, pc, call, system, drivers, history>>

-----------------------------------------------------------------------------
(* suspend_devices_and_enter *)

Go(from, to) == pc = from /\ pc' = to

\* suspend_ops.begin may fail.
Begin(m) ==
  /\ pc = "idle"
  /\ mode' = m
  /\ \/ pc' = "suspend" /\ ret' = "zero"
     \/ pc' = "end" /\ ret' = "fail"
  /\ before' = <<list, early>>
  /\ UNCHANGED <<lists, test, cb, error, wakeup, system, drivers, down, downNoirq,
                 left, odd>>

\* dpm_suspend: the callback of the first device is called ...
SuspendDevice ==
  /\ pc = "suspend" /\ cb = None /\ list # <<>>
  /\ cb' = Head(list)
  /\ UNCHANGED <<lists, test, pc, mode, ret, error, wakeup, system, drivers, history>>

\* Mutated: a device that fails is tried again.
SuspendedTriedAgain ==
  /\ pc = "suspend" /\ cb # None /\ cb' = None
  /\ \/ UNCHANGED <<lists, pc, ret, down>>
     \/ /\ list' = Without(list, cb)
        /\ suspended' = <<cb>> \o Without(suspended, cb)
        /\ down' = <<cb>> \o down
        /\ UNCHANGED <<early, noirq, pc, ret>>
  /\ UNCHANGED <<test, mode, error, wakeup, system, drivers, downNoirq, left,
                 before, odd>>

\* ... and returns; list_move takes the device there, unregistered or not.
Suspended ==
  /\ pc = "suspend" /\ cb # None /\ cb' = None
  /\ \/ /\ pc' = "resume" /\ ret' = "fail"
        /\ UNCHANGED <<lists, down>>
     \/ /\ list' = Without(list, cb)
        /\ suspended' = <<cb>> \o Without(suspended, cb)
        /\ down' = <<cb>> \o down
        /\ UNCHANGED <<early, noirq, pc, ret>>
  /\ UNCHANGED <<test, mode, error, wakeup, system, drivers, downNoirq, left,
                 before, odd>>

DevicesSuspended ==
  /\ cb = None /\ list = <<>>
  /\ Go("suspend", "begun")
  /\ UNCHANGED <<lists, test, call, system, drivers, history>>

\* Mutated: the scheduler is left running.
SuspendSchedulerNot ==
  /\ Go("begun", IF test = "devices" THEN "resume" ELSE "prepare")
  /\ UNCHANGED <<lists, test, call, system, drivers, history>>

\* suspend_test(TEST_DEVICES), then OS_ThreadSuspendScheduler.
SuspendScheduler ==
  /\ Go("begun", IF test = "devices" THEN "resume" ELSE "prepare")
  /\ running' = (test = "devices")
  /\ UNCHANGED <<lists, test, call, irqs, pending, drivers, history>>

-----------------------------------------------------------------------------
(* suspend_enter *)

\* PM_REBOOT: everything in memory is gone.
Reboot ==
  /\ list' = <<>> /\ suspended' = <<>> /\ early' = <<>> /\ noirq' = <<>>
  /\ half' = None /\ test' = "none"
  /\ pc' = "idle" /\ mode' = "none" /\ cb' = None /\ ret' = "zero"
  /\ error' = FALSE /\ wakeup' = FALSE
  /\ irqs' = TRUE /\ running' = TRUE /\ pending' = FALSE
  /\ reg' = {} /\ down' = <<>> /\ downNoirq' = <<>> /\ left' = {}
  /\ before' = <<<<>>, <<>>>> /\ odd' = {} /\ regs' = 0

\* suspend_ops.prepare may fail.
Prepare ==
  /\ pc = "prepare"
  /\ \/ pc' = "check" /\ UNCHANGED error
     \/ pc' = "finish" /\ error' = TRUE
  /\ UNCHANGED <<lists, test, mode, cb, ret, wakeup, system, drivers, history>>

\* arch_suspend_disable_irqs and the first check_wakeup_irqs.
DisableIrqs ==
  /\ pc = "check"
  /\ IF pending /\ mode = "hibernation"
     THEN Reboot
     ELSE /\ irqs' = FALSE
          /\ wakeup' = pending /\ error' = pending
          /\ pc' = IF pending THEN "finish" ELSE "noirq"
          /\ UNCHANGED <<lists, test, mode, cb, ret, running, pending, drivers,
                         history>>

\* Mutated: the devices are not resumed when a callback failed.
NoirqFailsUnresumed ==
  /\ pc = "noirq" /\ early # <<>>
  /\ error' = TRUE /\ pc' = "finish"
  /\ irqs' \in BOOLEAN
  /\ UNCHANGED <<lists, test, mode, cb, ret, wakeup, running, pending, drivers, history>>

\* Mutated: a device that fails is moved and the loop goes on.
NoirqFailsPassed ==
  /\ pc = "noirq" /\ early # <<>>
  /\ early' = Tail(early) /\ noirq' = <<Head(early)>> \o noirq
  /\ irqs' \in BOOLEAN
  /\ UNCHANGED <<list, suspended, test, pc, call, running, pending, drivers, history>>

\* dpm_suspend_noirq: the callback fails, ...
NoirqFails ==
  /\ pc = "noirq" /\ early # <<>>
  /\ error' = TRUE /\ pc' = "resumeNoirq"
  /\ irqs' \in BOOLEAN
  /\ UNCHANGED <<lists, test, mode, cb, ret, wakeup, running, pending, drivers, history>>

\* ... suspends the device but leaves interrupts enabled, at which the loop
\* ends with an error of 0: the mode is entered, and the device, which stays
\* where it is, is not among those dpm_resume_noirq resumes, ...
NoirqUnmasks ==
  /\ pc = "noirq" /\ early # <<>>
  /\ irqs' = TRUE /\ odd' = odd \cup {"unmasked"}
  /\ left' = left \cup {Head(early)}
  /\ pc' = "devices"
  /\ UNCHANGED <<lists, test, call, running, pending, drivers, down, downNoirq,
                 before>>

\* ... or succeeds, also on a device left suspended, and a reason to wake is
\* looked for.
NoirqSuspended ==
  /\ pc = "noirq" /\ early # <<>>
  /\ IF pending /\ mode = "hibernation"
     THEN Reboot
     ELSE /\ early' = Tail(early) /\ noirq' = <<Head(early)>> \o noirq
          /\ downNoirq' = <<Head(early)>> \o downNoirq
          /\ left' = left \ {Head(early)}
          /\ error' = pending
          /\ pc' = IF pending THEN "resumeNoirq" ELSE "noirq"
          /\ UNCHANGED <<list, suspended, test, mode, cb, ret, wakeup, system, drivers,
                         down, before, odd>>

AllNoirqSuspended ==
  /\ early = <<>>
  /\ Go("noirq", "devices")
  /\ UNCHANGED <<lists, test, call, system, drivers, history>>

\* The levels that end a test here, the second check_wakeup_irqs and enter.
Enter ==
  /\ pc = "devices"
  /\ CASE test = "devices" -> pc' = "resumeNoirq" /\ UNCHANGED wakeup
       [] test = "platform" -> pc' = "wake" /\ UNCHANGED wakeup
       [] OTHER -> /\ ~(pending /\ mode = "hibernation")
                   /\ wakeup' = pending
                   /\ pc' = IF test = "core" \/ pending THEN "wake" ELSE "asleep"
  /\ UNCHANGED <<lists, test, mode, cb, ret, error, system, drivers, down, downNoirq,
                 left, before, odd>>

EnterReboots ==
  /\ pc = "devices" /\ test \notin {"devices", "platform"}
  /\ pending /\ mode = "hibernation"
  /\ Reboot

\* suspend_ops.enter returns when there is a reason to wake, or when
\* HAL_Wakeup_SetSrc refuses; a hibernation ends in a reboot.
Wake ==
  /\ pc = "asleep"
  /\ IF mode = "hibernation" /\ pending
     THEN Reboot
     ELSE pc' = "wake" /\ UNCHANGED <<lists, test, call, system, drivers, history>>

\* suspend_ops.wake
Woken ==
  /\ Go("wake", "resumeNoirq")
  /\ UNCHANGED <<lists, test, call, system, drivers, history>>

\* Mutated: the last device of the list is resumed first.
ResumeNoirqLast ==
  /\ pc = "resumeNoirq" /\ noirq # <<>>
  /\ noirq' = Front(noirq) /\ early' = <<Last(noirq)>> \o early
  /\ downNoirq' = Without(downNoirq, Last(noirq))
  /\ UNCHANGED <<list, suspended, test, pc, call, system, drivers, down, left,
                 before, odd>>

\* dpm_resume_noirq: errors are only counted.
ResumeNoirq ==
  /\ pc = "resumeNoirq" /\ noirq # <<>>
  /\ noirq' = Tail(noirq) /\ early' = <<Head(noirq)>> \o early
  /\ downNoirq' = Without(downNoirq, Head(noirq))
  /\ UNCHANGED <<list, suspended, test, pc, call, system, drivers, down, left,
                 before, odd>>

NoirqResumed ==
  /\ noirq = <<>>
  /\ Go("resumeNoirq", "finish")
  /\ UNCHANGED <<lists, test, call, system, drivers, history>>

\* Platform_finish, and OS_ThreadResumeScheduler in the caller.
Finish ==
  /\ Go("finish", "resume")
  /\ ret' = IF wakeup \/ (error /\ pending) THEN "wake" ELSE "zero"
  /\ error' = FALSE /\ wakeup' = FALSE
  /\ irqs' = TRUE /\ running' = TRUE
  /\ UNCHANGED <<lists, test, mode, cb, pending, drivers, history>>

-----------------------------------------------------------------------------
\* dpm_resume: the device is moved, then its callback is called.
ResumeToTail ==
  /\ pc = "resume" /\ cb = None /\ suspended # <<>>
  /\ cb' = Head(suspended)
  /\ suspended' = Tail(suspended) /\ list' = Append(list, cb')
  /\ UNCHANGED <<early, noirq, test, pc, mode, ret, error, wakeup, system, drivers,
                 history>>

ResumeDevice ==
  /\ pc = "resume" /\ cb = None /\ suspended # <<>>
  /\ cb' = Head(suspended)
  /\ suspended' = Tail(suspended) /\ list' = <<cb'>> \o list
  /\ UNCHANGED <<early, noirq, test, pc, mode, ret, error, wakeup, system, drivers,
                 history>>

Resumed ==
  /\ pc = "resume" /\ cb # None /\ cb' = None
  /\ down' = Without(down, cb)
  /\ UNCHANGED <<lists, test, pc, mode, ret, error, wakeup, system, drivers, downNoirq,
                 left, before, odd>>

DevicesResumed ==
  /\ cb = None /\ suspended = <<>>
  /\ Go("resume", "end")
  /\ UNCHANGED <<lists, test, call, system, drivers, history>>

\* suspend_ops.end; the call returns and its locals are gone.
End ==
  /\ Go("end", "idle")
  /\ mode' = "none" /\ ret' = "zero"
  /\ before' = <<<<>>, <<>>>> /\ odd' = {}
  /\ UNCHANGED <<lists, test, cb, error, wakeup, system, drivers, down, downNoirq,
                 left>>

-----------------------------------------------------------------------------
(* A reason to wake turns up, and goes while interrupts are handled. *)

Arrives ==
  /\ ~pending /\ pending' = TRUE
  /\ UNCHANGED <<lists, test, pc, call, irqs, running, drivers, history>>

Handled ==
  /\ pending /\ irqs /\ pending' = FALSE
  /\ UNCHANGED <<lists, test, pc, call, irqs, running, drivers, history>>

Step ==
  \/ SuspendDevice \/ Suspended \/ DevicesSuspended \/ SuspendScheduler
  \/ Prepare \/ DisableIrqs \/ NoirqFails \/ NoirqUnmasks \/ NoirqSuspended
  \/ AllNoirqSuspended \/ Enter \/ EnterReboots \/ (pending /\ Wake) \/ Woken
  \/ ResumeNoirq \/ NoirqResumed \/ Finish
  \/ ResumeDevice \/ Resumed \/ DevicesResumed \/ End

Next ==
  \/ \E d \in Devices : Register(d) \/ Unregister(d)
  \/ RegisterNoirq
  \/ \E l \in Tests : SetTestLevel(l)
  \/ \E m \in Modes : Begin(m)
  \/ Step \/ Wake
  \/ Arrives \/ Handled

\* The PM thread is scheduled, and an interrupt wakes the processor.
Fairness == WF_vars(Step) /\ SF_vars(pending /\ Wake)

Spec     == Init /\ [][Next]_vars
FairSpec == Spec /\ Fairness
-----------------------------------------------------------------------------
(* Properties *)

\* Each list holds a device once, no device is on two lists of a kind, and the
\* locals are what suspend_devices_and_enter can have in them.
SuTypeOK ==
  /\ \A s \in {list, suspended, down} : IsInjective(s) /\ Range(s) \subseteq Normal
  /\ \A s \in {early, noirq, downNoirq} : IsInjective(s) /\ Range(s) \subseteq Noirq
  /\ Range(list) \cap Range(suspended) = {} /\ Range(early) \cap Range(noirq) = {}
  /\ half \in Devices \cup {None} /\ cb \in Normal \cup {None} /\ reg \subseteq Devices
  /\ test \in Tests \cup {"none"} /\ mode \in Modes \cup {"none"}
  /\ pc \in {"idle", "suspend", "begun", "prepare", "check", "noirq", "devices",
             "asleep", "wake", "resumeNoirq", "finish", "resume", "end"}
  /\ ret \in {"zero", "fail", "wake"} /\ error \in BOOLEAN /\ wakeup \in BOOLEAN
  /\ irqs \in BOOLEAN /\ running \in BOOLEAN /\ pending \in BOOLEAN
  /\ left \subseteq Noirq
  /\ odd \subseteq {"mid", "late", "unmasked"}

\* A device came after the last look at dpm_list, or a noirq callback left
\* interrupts enabled.
Missed == odd \cap {"late", "unmasked"} # {}

\* All callbacks of d have suspended it; some of them have, or none.
Down(d) ==
  /\ d \in Normal => d \in Range(down)
  /\ d \in Noirq => d \in Range(downNoirq) \cup left

Status(d) ==
  IF Down(d) THEN "down"
  ELSE IF d \in Range(down) \cup Range(downNoirq) \cup left
       THEN "part" ELSE "up"

\* suspend_enter is "called after devices have been suspended" (pm.c:428): the
\* mode is entered with every registered device's callbacks done, also of a
\* device registered during dpm_suspend, unless it came after the last look at
\* dpm_list or a noirq callback left interrupts enabled.
AsleepAllDown ==
  pc = "asleep" /\ ~Missed =>
    /\ ~irqs /\ ~running
    /\ \A d \in reg : Down(d)

\* Whichever step fails and wherever the call turns back, it returns with
\* interrupts enabled, the scheduler running and every device resumed but one:
\* a device whose suspend_noirq succeeded with interrupts enabled is returned
\* suspended (rom pm.c:281-287).  It is still in dpm_late_early_list, so that
\* the next call suspends it, and resumes it unless the same comes again.
UpWhenBack ==
  ~Transition =>
    /\ irqs /\ running
    /\ suspended = <<>> /\ noirq = <<>>
    /\ \A d \in Devices \ left : Status(d) = "up"
    /\ left \subseteq Range(early)

\* A call that no registration fell into leaves the lists in the order it
\* found, which the next one suspends in.
ListsRestored ==
  pc = "end" /\ "mid" \notin odd => before = <<list, early>>

\* A device is resumed after every registered device that was suspended after
\* it, and no earlier than the noirq callbacks of all but one that is left
\* suspended.
ResumeReverses ==
  [][\A d \in reg \cap reg' :
       /\ d \in Range(down) \ Range(down') => d = Head(down) /\ downNoirq = <<>>
       /\ d \in Range(downNoirq) \ Range(downNoirq') => d = Head(downNoirq)]_vars

Phase ==
  CASE pc = "idle" -> "out" [] pc = "asleep" -> "asleep" [] OTHER -> "in"

Call == INSTANCE SleepCall WITH
  phase   <- Phase,
  status  <- [d \in Devices |-> Status(d)],
  masked  <- ~irqs,
  stopped <- ~running,
  missed  <- Missed,
  left    <- left

\* suspend_devices_and_enter is the call that pm_task and the devices' drivers
\* take it for: while the system sleeps nothing runs or changes, and all that
\* the call has taken down is up again when it returns, but for a device whose
\* noirq callback enabled interrupts.
ImplementsSleepCall == Call!Spec

\* A call ends, by returning or in a reboot, if reasons to wake keep coming:
\* one that comes between the checks and the sleep is not slept through.
CallEnds == []<>pending => (Transition ~> ~Transition)
=============================================================================
