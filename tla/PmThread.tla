------------------------------ MODULE PmThread ------------------------------
(***************************************************************************)
(* The PM thread and its callers.  pm_enter_mode_timeout releases the PM   *)
(* thread's own wakelock and waits for an answer; pm_task waits until no   *)
(* wakelock is active, puts the system to sleep and posts the answer.      *)
(* Lockers take and release other wakelocks meanwhile, and pm_suspend_abort*)
(* may come from a timer.                                                  *)
(*                                                                         *)
(* A caller and the PM thread share _pm_state, _pm_tmo, _pm_step and       *)
(* _wl_touch without a lock: each access is a step of its own.             *)
(***************************************************************************)
EXTENDS Wakelock

CONSTANTS
  PmLock,   \* _pm_wakelock, held unless a caller waits
  Caller,   \* the thread that calls pm_enter_mode_timeout
  Tmos,     \* what it passes for tmo: "forever", "finite"
  Aborts,   \* whether pm_suspend_abort is called
  MaxDone   \* bound: the answers not taken when a call or an abort comes

ASSUME PmAssumption ==
  /\ PmLock \in Locks /\ Caller \in Threads /\ MaxRef > 0
  /\ Tmos \subseteq {"forever", "finite"}

VARIABLES
  state,     \* _pm_state: "on", or the mode asked for
  tmo,       \* _pm_tmo: "forever", "finite" or "zero"
  touch,     \* _wl_touch
  step,      \* _pm_step: 1 from the PM thread's attempt to the caller's return
  done,      \* the count of _pm_thread->wait
  wakeRet,   \* _pm_thread->wake_ret
  pmpc,      \* where pm_task is
  pmTmo,     \* the timeout it passed to pm_wakelocks_wait
  pmRet,     \* its ret
  callpc,    \* where the caller is
  callTmo,   \* its tmo
  callRet,   \* what pm_enter_mode_timeout returned
  abortpc,   \* where pm_suspend_abort is
  tried      \* _pm_enter_mode ran since the caller's call began

pmThread == <<pmpc, pmTmo, pmRet>>
caller   == <<callpc, callTmo, callRet>>
pmVars   == <<state, tmo, touch, step, done, wakeRet, pmThread, caller, abortpc,
              tried>>
vars     == <<wlVars, pmVars>>

\* After pm_start: the PM thread's lock is held.
PmInit ==
  /\ now = 0 /\ expires = [l \in Locks |-> 0]
  /\ ref = [l \in Locks |-> IF l = PmLock THEN 1 ELSE 0]
  /\ listed = {PmLock} /\ null = FALSE /\ sem = 0
  /\ arg = NoLock /\ argTick = Forever /\ timer = Off
  /\ pc = [t \in Tasks |-> "idle"] /\ locking = {}
  /\ seen = [t \in Tasks |-> 0] /\ ms = [t \in Tasks |-> 0]
  /\ owed = [l \in Locks |-> 0]
  /\ state = "on" /\ tmo = "forever" /\ touch = FALSE /\ step = 0
  /\ done = 0 /\ wakeRet = "zero"
  /\ pmpc = "call" /\ pmTmo = "forever" /\ pmRet = "zero"
  /\ callpc = "idle" /\ callTmo = "forever" /\ callRet = "none"
  /\ abortpc = "idle"
  /\ tried = FALSE

-----------------------------------------------------------------------------
(* pm_task *)

PmGo(from, to) == pmpc = from /\ pmpc' = to

\* pm_wakelocks_wait is called.
PmCall ==
  /\ PmGo("call", "check")
  /\ pmTmo' = tmo
  /\ UNCHANGED <<wlVars, state, tmo, touch, step, done, wakeRet, pmRet, caller,
                 abortpc, tried>>

\* while (!_wl_null)
PmCheck ==
  /\ pmpc = "check"
  /\ pmpc' = IF null THEN "mode" ELSE "sem"
  /\ UNCHANGED <<wlVars, state, tmo, touch, step, done, wakeRet, pmTmo, pmRet,
                 caller, abortpc, tried>>

\* OS_SemaphoreWait(&wakelocks_wait, timeout)
PmSemaphore ==
  /\ PmGo("sem", "woken")
  /\ \/ sem > 0 /\ sem' = sem - 1 /\ pmRet' = "zero"
     \/ sem = 0 /\ pmTmo # "forever" /\ sem' = sem /\ pmRet' = "timeout"
  /\ UNCHANGED <<now, ref, expires, listed, null, arg, argTick, timer, pc, locking,
                 seen, ms, owed, state, tmo, touch, step, done, wakeRet, pmTmo,
                 caller, abortpc, tried>>

\* A touch starts the wait again, with the timeout set since.
PmWoken ==
  /\ pmpc = "woken"
  /\ pmpc' = IF touch THEN "call" ELSE IF pmRet = "timeout" THEN "clear" ELSE "check"
  /\ touch' = FALSE
  /\ pmTmo' = IF pmpc' = "check" THEN pmTmo ELSE "forever"
  /\ pmRet' = IF touch THEN "zero" ELSE pmRet
  /\ UNCHANGED <<wlVars, state, tmo, step, done, wakeRet, caller, abortpc, tried>>

\* _pm_enter_mode, which does nothing in the mode PM_MODE_ON.
PmMode ==
  /\ pmpc = "mode"
  /\ step' = 1
  /\ tried' = TRUE
  /\ pmpc' = IF state = "on" THEN "clear" ELSE "suspend"
  /\ pmRet' = "zero" /\ pmTmo' = "forever"
  /\ UNCHANGED <<wlVars, state, tmo, touch, done, wakeRet, caller, abortpc>>

\* Mutated: the wakelocks are not looked at again before the sleep.
PmSuspendUnchecked ==
  /\ pmpc = "suspend"
  /\ \/ pmpc' \in {"asleep", "call"} /\ pmRet' = "zero"
     \/ pmpc' = "clear" /\ pmRet' \in {"fail", "wakeup"}
  /\ UNCHANGED <<wlVars, state, tmo, touch, step, done, wakeRet, pmTmo, caller,
                 abortpc, tried>>

\* The devices are suspended and check_wakeup_irqs looks for a reason not to
\* sleep, with interrupts off.  One that only the WLAN or BLE core is
\* interested in makes the PM thread try again.  A build may repeat an attempt
\* that failed (CONFIG_PM_TRY_NUM_WHEN_FAIL, 0 by default, pm.c:641-650): it
\* touches nothing modelled here until the last one, and is a stutter.
PmSuspend ==
  /\ pmpc = "suspend"
  /\ \/ null /\ ~touch /\ pmpc' = "asleep" /\ pmRet' = "zero"
     \/ pmpc' = "clear" /\ pmRet' \in {"fail", "wakeup"}
     \/ pmpc' = "call" /\ pmRet' = "zero"
  /\ UNCHANGED <<wlVars, state, tmo, touch, step, done, wakeRet, pmTmo, caller,
                 abortpc, tried>>

\* The system wakes.  An event only the WLAN or BLE core is interested in
\* sends it back to sleep without an answer.
PmWake ==
  /\ pmpc = "asleep"
  /\ pmpc' \in {"clear", "call"}
  /\ UNCHANGED <<wlVars, state, tmo, touch, step, done, wakeRet, pmTmo, pmRet,
                 caller, abortpc, tried>>

PmClear ==
  /\ PmGo("clear", "answer")
  /\ tmo' = "forever"
  /\ UNCHANGED <<wlVars, state, touch, step, done, wakeRet, pmTmo, pmRet, caller,
                 abortpc, tried>>

PmAnswer ==
  /\ PmGo("answer", "hold")
  /\ wakeRet' = pmRet /\ pmRet' = "zero"
  /\ done' = done + 1
  /\ UNCHANGED <<wlVars, state, tmo, touch, step, pmTmo, caller, abortpc, tried>>

\* Mutated: pm_task does not wait for the caller to take the answer.
PmHoldNot ==
  /\ PmGo("hold", "call")
  /\ UNCHANGED <<wlVars, state, tmo, touch, step, done, wakeRet, pmTmo, pmRet,
                 caller, abortpc, tried>>

\* while (_pm_step == 1)
PmHold ==
  /\ PmGo("hold", "call")
  /\ step # 1
  /\ UNCHANGED <<wlVars, state, tmo, touch, step, done, wakeRet, pmTmo, pmRet,
                 caller, abortpc, tried>>

PmTask ==
  \/ PmCall \/ PmCheck \/ PmSemaphore \/ PmWoken \/ PmMode
  \/ PmSuspend \/ PmClear \/ PmAnswer \/ PmHold

-----------------------------------------------------------------------------
(* pm_enter_mode_timeout *)

CallGo(from, to) == callpc = from /\ callpc' = to

EnterMode(t) ==
  /\ CallGo("idle", "mode")
  /\ pc[Caller] = "idle"
  /\ state = "on"
  /\ done <= MaxDone
  /\ tmo' = t /\ callTmo' = t
  /\ tried' = FALSE
  /\ UNCHANGED <<wlVars, state, touch, step, done, wakeRet, pmThread, callRet,
                 abortpc>>

SetMode ==
  /\ CallGo("mode", IF callTmo = "forever" THEN "unlock" ELSE "touch")
  /\ state' = "sleep"
  /\ UNCHANGED <<wlVars, tmo, touch, step, done, wakeRet, pmThread, callTmo,
                 callRet, abortpc, tried>>

\* pm_wakelocks_touch: the PM thread is to take up the new timeout.
Touch ==
  /\ CallGo("touch", "drain")
  /\ touch' = TRUE
  /\ UNCHANGED <<wlVars, state, tmo, step, done, wakeRet, pmThread, callTmo,
                 callRet, abortpc, tried>>

\* OS_SemaphoreWait(&wakelocks_wait, 0), then OS_SemaphoreRelease: others may
\* release the semaphore in between.
SetSem(s) ==
  /\ sem' = s
  /\ UNCHANGED <<now, ref, expires, listed, null, arg, argTick, timer, pc, locking,
                 seen, ms, owed>>
Drained == IF sem > 0 THEN sem - 1 ELSE 0

Drain ==
  /\ CallGo("drain", "post")
  /\ SetSem(Drained)
  /\ UNCHANGED <<state, tmo, touch, step, done, wakeRet, pmThread, callTmo, callRet,
                 abortpc, tried>>

Post ==
  /\ CallGo("post", "touched")
  /\ SetSem(sem + 1)
  /\ UNCHANGED <<state, tmo, touch, step, done, wakeRet, pmThread, callTmo, callRet,
                 abortpc, tried>>

\* while (pm_wakelocks_is_touched())
AwaitTouched ==
  /\ CallGo("touched", "unlock")
  /\ ~touch
  /\ UNCHANGED <<wlVars, state, tmo, touch, step, done, wakeRet, pmThread, callTmo,
                 callRet, abortpc, tried>>

UnlockPm ==
  /\ CallGo("unlock", "wait")
  /\ Unlock(Caller, PmLock)
  /\ UNCHANGED <<state, tmo, touch, step, done, wakeRet, pmThread, callTmo, callRet,
                 abortpc, tried>>

\* Mutated: the PM thread's lock is not taken back.
AwaitAnswerUnlocked ==
  /\ CallGo("wait", "result")
  /\ pc[Caller] = "idle"
  /\ done > 0 /\ done' = done - 1
  /\ UNCHANGED <<wlVars, state, tmo, touch, step, wakeRet, pmThread, callTmo,
                 callRet, abortpc, tried>>

AwaitAnswer ==
  /\ CallGo("wait", "lock")
  /\ pc[Caller] = "idle"
  /\ done > 0 /\ done' = done - 1
  /\ UNCHANGED <<wlVars, state, tmo, touch, step, wakeRet, pmThread, callTmo,
                 callRet, abortpc, tried>>

LockPm ==
  /\ CallGo("lock", "result")
  /\ Lock(Caller, PmLock)
  /\ UNCHANGED <<state, tmo, touch, step, done, wakeRet, pmThread, callTmo, callRet,
                 abortpc, tried>>

TakeResult ==
  /\ CallGo("result", "on")
  /\ pc[Caller] = "idle"
  /\ callRet' = wakeRet
  /\ step' = 2
  /\ UNCHANGED <<wlVars, state, tmo, touch, done, wakeRet, pmThread, callTmo,
                 abortpc, tried>>

\* The call returns; its locals are gone.
LeaveMode ==
  /\ CallGo("on", "idle")
  /\ state' = "on"
  /\ callTmo' = "forever" /\ callRet' = "none" /\ tried' = FALSE
  /\ UNCHANGED <<wlVars, tmo, touch, step, done, wakeRet, pmThread, abortpc>>

CallerStep ==
  \/ SetMode \/ Touch \/ Drain \/ Post \/ AwaitTouched \/ UnlockPm
  \/ AwaitAnswer \/ LockPm \/ TakeResult \/ LeaveMode

-----------------------------------------------------------------------------
(* pm_suspend_abort *)

Abort ==
  /\ Aborts
  /\ \/ /\ abortpc = "idle" /\ abortpc' = "touch"
        /\ done <= MaxDone
        /\ tmo' = "zero"
        /\ UNCHANGED <<wlVars, touch>>
     \/ /\ abortpc = "touch" /\ abortpc' = "drain"
        /\ touch' = TRUE
        /\ UNCHANGED <<wlVars, tmo>>
     \/ /\ abortpc = "drain" /\ abortpc' = "post"
        /\ SetSem(Drained)
        /\ UNCHANGED <<tmo, touch>>
     \/ /\ abortpc = "post" /\ abortpc' = "idle"
        /\ SetSem(sem + 1)
        /\ UNCHANGED <<tmo, touch>>
  /\ UNCHANGED <<state, step, done, wakeRet, pmThread, caller, tried>>

-----------------------------------------------------------------------------
Locker(t) == \E l \in Locks \ {PmLock} : Call(t, l)

\* While the system sleeps nothing else runs: interrupts are off.
PmNext ==
  \/ PmWake
  \/ /\ pmpc # "asleep"
     /\ \/ PmTask \/ CallerStep
        \/ \E t \in Tmos : EnterMode(t)
        \/ Abort
        \/ /\ \/ \E t \in Threads \ {Caller} : Locker(t)
              \/ \E t \in Tasks : Continue(t)
              \/ TimerExpires \/ TimerCallback \/ Tick
           /\ UNCHANGED pmVars

\* Threads are scheduled and the system is woken: a call that began goes on.
\* Sooner or later what ends an attempt to sleep is an event for the
\* application, or a failure.
PmFairness ==
  /\ WF_vars(pmpc # "asleep" /\ PmTask)
  /\ WF_vars(pmpc # "asleep" /\ CallerStep)
  /\ WF_vars(PmWake) /\ SF_vars((PmSuspend \/ PmWake) /\ pmpc' = "clear")
  /\ \A t \in Tasks : WF_vars(pmpc # "asleep" /\ Continue(t) /\ UNCHANGED pmVars)

PmSpec     == PmInit /\ [][PmNext]_vars
PmFairSpec == PmSpec /\ PmFairness
-----------------------------------------------------------------------------
(* Properties *)

\* The PM thread, one caller and pm_suspend_abort, each somewhere in its code.
PmTypeOK ==
  /\ WlTypeOK /\ sem <= 3
  /\ state \in {"on", "sleep"} /\ tmo \in {"forever", "finite", "zero"}
  /\ touch \in BOOLEAN /\ step \in {0, 1, 2} /\ tried \in BOOLEAN
  /\ done \in Nat /\ wakeRet \in {"zero", "fail", "wakeup", "timeout"}
  /\ pmpc \in {"call", "check", "sem", "woken", "mode", "suspend", "asleep",
               "clear", "answer", "hold"}
  /\ pmTmo \in {"forever", "finite", "zero"}
  /\ pmRet \in {"zero", "fail", "wakeup", "timeout"}
  /\ callpc \in {"idle", "mode", "touch", "drain", "post", "touched", "unlock", "wait",
                 "lock", "result", "on"}
  /\ callTmo \in {"forever", "finite"}
  /\ callRet \in {"none", "zero", "fail", "wakeup", "timeout"}
  /\ abortpc \in {"idle", "touch", "drain", "post"}

\* "System will not suspend if any of wakelocks active" (pm.h:155): the
\* system is not asleep while a lock is held whose pm_wake_lock returned,
\* also if it was taken after the PM thread had seen none.
AsleepUnheld ==
  pmpc = "asleep" =>
    \A l \in Locks : ref[l] > 0 => \E t \in Threads : <<t, l>> \in locking

\* The system sleeps only inside a call of pm_enter_mode_timeout, between its
\* unlock and its lock of the PM thread's wakelock, however late pm_task is.
AsleepInCall == pmpc = "asleep" => callpc \in {"wait", "lock", "result"}

\* pm_enter_mode: "@retval 0 if success" (pm.h:206): when the call returns 0,
\* the PM thread has tried to enter the mode since the call began.
AnswerIsOwn == callpc = "on" /\ callRet = "zero" => tried

\* A call of pm_enter_mode returns, if in the end nobody holds a wakelock:
\* the release that lets the PM thread go is never lost to it.
EnterReturns ==
  <>[](\A l \in Locks \ {PmLock} : ref[l] = 0) =>
    (callpc # "idle" ~> callpc = "idle")
=============================================================================
