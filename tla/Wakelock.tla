------------------------------ MODULE Wakelock ------------------------------
(***************************************************************************)
(* Wakelocks: what keeps the system out of suspend.  Threads take a lock   *)
(* until they release it (ref counts those) or for a number of ticks; the  *)
(* locks taken are on a list, one timer waits for the last of them to      *)
(* expire, and _wl_null tells the PM thread that none is active.           *)
(*                                                                         *)
(* A call is a critical section on the lock, then _wakelock_update: a read *)
(* of the tick count, a critical section that walks the list, and outside  *)
(* of it a change of the timer's period.  Each of these is one step, and   *)
(* the steps of threads, of the timer's callback and of the tick interrupt *)
(* interleave.                                                             *)
(***************************************************************************)
EXTENDS Integers

CONSTANTS
  Locks,      \* the struct wakelock objects
  Threads,    \* the threads that call pm_wake_lock and its kin
  TimerTask,  \* the thread that runs the timer's callback
  Timeouts,   \* the timeouts callers ask for, in ticks (1 ms)
  NoLock,     \* the NULL of _wl_timer_arg
  Horizon,    \* bound: the ticks calls are made in, below 2^31 (24.8 days)
  MaxRef      \* bound: the holds on one lock, ref is a uint16_t

ASSUME WakelockAssumption ==
  /\ Timeouts \subseteq Nat \ {0}
  /\ Horizon \in Nat /\ MaxRef \in Nat
  /\ TimerTask \notin Threads /\ NoLock \notin Locks

VARIABLES
  now,       \* OS_GetTicks()
  ref,       \* wakelock::ref
  expires,   \* wakelock::expires
  listed,    \* the locks on wakelocks_list
  null,      \* _wl_null: no lock is active, the system may suspend
  sem,       \* the count of the semaphore wakelocks_wait
  arg,       \* _wl_timer_arg
  argTick,   \* _wl_timer_expires
  timer,     \* the tick _wl_timer is set to, or Off
  pc,        \* where each thread is in its call
  locking,   \* <<t, l>>: t is inside pm_wake_lock(l), before its update
  seen, ms,  \* its locals: the ticks it read, the period it sets
  owed       \* for each lock, the tick its last timeout was promised for

lockVars == <<ref, expires, listed, null, sem, arg, argTick, timer>>
wlVars   == <<now, ref, expires, listed, null, sem, arg, argTick, timer,
              pc, locking, seen, ms, owed>>

Tasks   == Threads \cup {TimerTask}
Off     == -1
Forever == -1    \* OS_WAIT_FOREVER, later than no tick and earlier than none

WlInit ==
  /\ now = 0
  /\ ref = [l \in Locks |-> 0]
  /\ expires = [l \in Locks |-> 0]
  /\ listed = {} /\ null = TRUE /\ sem = 0
  /\ arg = NoLock /\ argTick = 0 /\ timer = Off
  /\ pc = [t \in Tasks |-> "idle"]
  /\ locking = {}
  /\ seen = [t \in Tasks |-> 0]
  /\ ms = [t \in Tasks |-> 0]
  /\ owed = [l \in Locks |-> 0]

-----------------------------------------------------------------------------
(* The critical section each call starts with *)

Enter(t) ==
  /\ pc[t] = "idle"
  /\ pc' = [pc EXCEPT ![t] = "read"]
  /\ UNCHANGED <<now, seen, ms>>

\* pm_wake_lock
Lock(t, l) ==
  /\ Enter(t)
  /\ ref[l] < MaxRef
  /\ listed' = listed \cup {l}
  /\ ref' = [ref EXCEPT ![l] = @ + 1]
  /\ timer' = Off
  /\ argTick' = Forever
  /\ locking' = locking \cup {<<t, l>>}
  /\ UNCHANGED <<expires, null, sem, arg, owed>>

\* pm_wake_lock_timeout: a later deadline than the timer's takes it over,
\* unless a lock held forever has stopped the timer.
LockTimeout(t, l, msec) ==
  LET tick == now + msec
  IN  /\ Enter(t)
      /\ tick < Horizon
      /\ listed' = listed \cup {l}
      /\ expires' = [expires EXCEPT ![l] = tick]
      /\ owed' = [owed EXCEPT ![l] = tick]
      /\ IF argTick # Forever /\ tick > argTick
           THEN timer' = tick /\ arg' = l /\ argTick' = tick
           ELSE UNCHANGED <<timer, arg, argTick>>
      /\ UNCHANGED <<ref, null, sem, locking>>

\* Mutated: the count is not checked (rom/rom_bin/src/pm/wakelock.c:283).
UnlockUnchecked(t, l) ==
  /\ Enter(t)
  /\ ref' = [ref EXCEPT ![l] = @ - 1]
  /\ UNCHANGED <<expires, listed, null, sem, arg, argTick, timer, locking, owed>>

\* pm_wake_unlock, which leaves the lock on the list.
Unlock(t, l) ==
  /\ Enter(t)
  /\ ref' = [ref EXCEPT ![l] = IF @ > 0 THEN @ - 1 ELSE 0]
  /\ UNCHANGED <<expires, listed, null, sem, arg, argTick, timer, locking, owed>>

\* pm_wake_lock_timeout(wl, 0): gives up a timeout asked for before.
Cancel(t, l) ==
  /\ Enter(t)
  /\ owed[l] > 0
  /\ owed' = [owed EXCEPT ![l] = 0]
  /\ listed' = IF ref[l] = 0 THEN listed \ {l} ELSE listed
  /\ UNCHANGED <<ref, expires, null, sem, arg, argTick, timer, locking>>

\* The timer is one-shot: it is off when its callback runs.
TimerExpires ==
  /\ timer # Off /\ now >= timer
  /\ pc[TimerTask] = "idle"
  /\ timer' = Off
  /\ pc' = [pc EXCEPT ![TimerTask] = "callback"]
  /\ UNCHANGED <<now, ref, expires, listed, null, sem, arg, argTick,
                 locking, seen, ms, owed>>

\* Mutated: a lock held without a timeout is removed too.
TimerCallbackUnchecked ==
  /\ pc[TimerTask] = "callback"
  /\ listed' = listed \ {arg}
  /\ pc' = [pc EXCEPT ![TimerTask] = "read"]
  /\ UNCHANGED <<now, ref, expires, null, sem, arg, argTick, timer,
                 locking, seen, ms, owed>>

\* _wakelock_timer_cb: what _wl_timer_arg points to now, expired or not.
TimerCallback ==
  /\ pc[TimerTask] = "callback"
  /\ listed' = IF arg # NoLock /\ ref[arg] = 0 THEN listed \ {arg} ELSE listed
  /\ pc' = [pc EXCEPT ![TimerTask] = "read"]
  /\ UNCHANGED <<now, ref, expires, null, sem, arg, argTick, timer,
                 locking, seen, ms, owed>>

-----------------------------------------------------------------------------
(* _wakelock_update *)

\* The tick count is read before interrupts are off.
ReadTicks(t) ==
  /\ pc[t] = "read"
  /\ seen' = [seen EXCEPT ![t] = now]
  /\ pc' = [pc EXCEPT ![t] = "update"]
  /\ UNCHANGED <<lockVars, now, locking, ms, owed>>

Held       == {l \in listed : ref[l] > 0}
Expired(t) == {l \in listed : ref[l] = 0 /\ seen[t] >= expires[l]}
Pending(t) == {l \in listed : ref[l] = 0 /\ seen[t] < expires[l]}

\* The call returns; its locals are gone.
Return(t) ==
  /\ pc' = [pc EXCEPT ![t] = "idle"]
  /\ locking' = {w \in locking : w[1] # t}
  /\ seen' = [seen EXCEPT ![t] = 0]
  /\ ms' = [ms EXCEPT ![t] = 0]

\* The walk ends at a held lock; expired ones before it are removed.
UpdateHeld(t) ==
  /\ pc[t] = "update"
  /\ Held # {}
  /\ \E gone \in SUBSET Expired(t) : listed' = listed \ gone
  /\ null' = FALSE
  /\ Return(t)
  /\ UNCHANGED <<now, ref, expires, sem, arg, argTick, timer, owed>>

\* Mutated: _wl_null is set and the PM thread is not told.
UpdateNoneSilent(t) ==
  /\ pc[t] = "update"
  /\ Held = {} /\ Pending(t) = {}
  /\ listed' = {}
  /\ null' = TRUE
  /\ Return(t)
  /\ UNCHANGED <<now, ref, expires, sem, arg, argTick, timer, owed>>

\* Nothing is left: the PM thread is let go, once.
UpdateNone(t) ==
  /\ pc[t] = "update"
  /\ Held = {} /\ Pending(t) = {}
  /\ listed' = {}
  /\ null' = TRUE
  /\ sem' = IF sem = 0 THEN 1 ELSE sem
  /\ Return(t)
  /\ UNCHANGED <<now, ref, expires, arg, argTick, timer, owed>>

\* The timer is to wait for the last lock to expire.  If that tick has come
\* since the tick count was read, nothing is done.
UpdatePending(t) ==
  /\ pc[t] = "update"
  /\ Held = {}
  /\ listed' = Pending(t)
  /\ \E m \in Pending(t) :
       /\ \A l \in Pending(t) : expires[l] <= expires[m]
       /\ IF expires[m] > now
            THEN /\ arg' = m /\ argTick' = expires[m]
                 /\ ms' = [ms EXCEPT ![t] = expires[m] - now]
                 /\ null' = FALSE
                 /\ pc' = [pc EXCEPT ![t] = "arm"]
                 /\ locking' = {w \in locking : w[1] # t}
                 /\ UNCHANGED seen
            ELSE Return(t) /\ UNCHANGED <<arg, argTick, null>>
  /\ UNCHANGED <<now, ref, expires, sem, timer, owed>>

\* OS_TimerChangePeriod, after interrupts are on again.
ArmTimer(t) ==
  /\ pc[t] = "arm"
  /\ timer' = now + ms[t]
  /\ Return(t)
  /\ UNCHANGED <<now, ref, expires, listed, null, sem, arg, argTick, owed>>

Continue(t) ==
  \/ ReadTicks(t)
  \/ UpdateHeld(t) \/ UpdateNone(t) \/ UpdatePending(t)
  \/ ArmTimer(t)

-----------------------------------------------------------------------------
\* Time goes on past the bound while the timer is running.
Tick ==
  /\ now < Horizon \/ now < timer
  /\ now' = now + 1
  /\ UNCHANGED <<lockVars, pc, locking, seen, ms, owed>>

Call(t, l) ==
  \/ Lock(t, l) \/ Unlock(t, l) \/ Cancel(t, l)
  \/ \E msec \in Timeouts : LockTimeout(t, l, msec)

WlNext ==
  \/ \E t \in Threads, l \in Locks : Call(t, l)
  \/ \E t \in Tasks : Continue(t)
  \/ TimerExpires \/ TimerCallback
  \/ Tick

WlSpec == WlInit /\ [][WlNext]_wlVars
-----------------------------------------------------------------------------
(* Properties *)

\* Locks, one list, one timer, and a call in progress per thread.
WlTypeOK ==
  /\ now \in Nat
  /\ ref \in [Locks -> 0 .. MaxRef]
  /\ expires \in [Locks -> 0 .. Horizon] /\ owed \in [Locks -> 0 .. Horizon]
  /\ listed \subseteq Locks
  /\ null \in BOOLEAN /\ sem \in Nat
  /\ arg \in Locks \cup {NoLock}
  /\ argTick \in Nat \cup {Forever} /\ timer \in Nat \cup {Off}
  /\ pc \in [Tasks -> {"idle", "callback", "read", "update", "arm"}]
  /\ locking \subseteq Threads \X Locks
  /\ seen \in [Tasks -> Nat] /\ ms \in [Tasks -> 0 .. Horizon]

\* "System will not suspend if any of wakelocks active" (pm.h:155), for the
\* locks taken without a timeout: while one is held, _wl_null lets the PM
\* thread go only before the pm_wake_lock that took it has returned.
HeldKeepsAwake ==
  \A l \in Locks :
    ref[l] > 0 /\ null => \E t \in Threads : <<t, l>> \in locking

\* "This wakelock is also active if it is locked as timeout mode before
\* timeout" (pm.h:153): between calls, a lock whose timeout has not come
\* keeps the system from suspending.
TimeoutKeepsAwake ==
  (\A t \in Threads : pc[t] = "idle") =>
    \A l \in Locks : owed[l] > now => ~null
=============================================================================
