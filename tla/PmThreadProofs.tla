--------------------------- MODULE PmThreadProofs ---------------------------
(***************************************************************************)
(* Wakelocks: one held without a timeout keeps the system awake.  The PM   *)
(* thread with them: when the system sleeps, and whose answer              *)
(* pm_enter_mode takes if no call has a timeout.  For any locks, threads   *)
(* and timeouts.                                                           *)
(***************************************************************************)
EXTENDS PmThread, TLAPS

(* Wakelocks *)

\* No critical section takes a held lock off the list, so that every walk
\* of the list meets it.
HeldListed == \A l \in Locks : ref[l] > 0 => l \in listed

\* A thread is recorded as locking until its own walk of the list.
LockingInCall ==
  \A t \in Threads, l \in Locks : <<t, l>> \in locking => pc[t] \in {"read", "update"}

IInv == WlTypeOK /\ HeldListed /\ LockingInCall /\ HeldKeepsAwake

\* Without a held lock on the list there is none at all.
LEMMA NoneHeld ==
  ASSUME IInv, Held = {}
  PROVE  \A l \in Locks : ref[l] = 0
<1> SUFFICES ASSUME NEW l \in Locks PROVE ref[l] = 0
  OBVIOUS
<1>1. ref[l] \in Nat
  BY WakelockAssumption DEF IInv, WlTypeOK
<1>2. ~(ref[l] > 0)
  BY DEF IInv, HeldListed, Held
<1> QED BY <1>1, <1>2

\* A call that returns leaves the types of its locals alone.
LEMMA ReturnTypes ==
  ASSUME WlTypeOK, NEW t \in Tasks, Return(t)
  PROVE  /\ pc' \in [Tasks -> {"idle", "callback", "read", "update", "arm"}]
         /\ locking' \subseteq Threads \X Locks
         /\ seen' \in [Tasks -> Nat] /\ ms' \in [Tasks -> 0 .. Horizon]
BY WakelockAssumption DEF WlTypeOK, Return

LEMMA InitIInv == WlInit => IInv
BY WakelockAssumption
   DEF WlInit, IInv, WlTypeOK, HeldListed, LockingInCall, HeldKeepsAwake, Tasks, Off

-----------------------------------------------------------------------------
\* The types: ticks only grow, and a period set is one asked for.
LEMMA TypeStep == WlTypeOK /\ [WlNext]_wlVars => WlTypeOK'
<1> SUFFICES ASSUME WlTypeOK, [WlNext]_wlVars PROVE WlTypeOK'
  OBVIOUS
<1> USE WakelockAssumption DEF WlTypeOK, Tasks
<1>1. ASSUME NEW t \in Threads, NEW l \in Locks, Lock(t, l)
      PROVE  WlTypeOK'
  <2>1. ref[l] + 1 \in 0 .. MaxRef
    BY <1>1 DEF Lock
  <2>2. <<t, l>> \in Threads \X Locks
    OBVIOUS
  <2> QED BY <1>1, <2>1, <2>2 DEF Lock, Enter, Off, Forever
<1>2. ASSUME NEW t \in Threads, NEW l \in Locks, Unlock(t, l)
      PROVE  WlTypeOK'
  <2>1. (IF ref[l] > 0 THEN ref[l] - 1 ELSE 0) \in 0 .. MaxRef
    OBVIOUS
  <2> QED BY <1>2, <2>1 DEF Unlock, Enter
<1>3. ASSUME NEW t \in Threads, NEW l \in Locks, Cancel(t, l)
      PROVE  WlTypeOK'
  BY <1>3 DEF Cancel, Enter
<1>4. ASSUME NEW t \in Threads, NEW l \in Locks, NEW msec \in Timeouts,
             LockTimeout(t, l, msec)
      PROVE  WlTypeOK'
  <2>1. now + msec \in Nat /\ now + msec \in 0 .. Horizon
    BY <1>4 DEF LockTimeout
  <2> QED BY <1>4, <2>1 DEF LockTimeout, Enter
<1>5. ASSUME NEW t \in Tasks, ReadTicks(t)
      PROVE  WlTypeOK'
  BY <1>5 DEF ReadTicks, lockVars
<1>6. ASSUME NEW t \in Tasks, UpdateHeld(t)
      PROVE  WlTypeOK'
  <2>1. listed' \subseteq Locks
    BY <1>6 DEF UpdateHeld
  <2>2. Return(t) /\ null' = FALSE
    BY <1>6 DEF UpdateHeld
  <2> QED BY <1>6, <2>1, <2>2, ReturnTypes DEF UpdateHeld
<1>7. ASSUME NEW t \in Tasks, UpdateNone(t)
      PROVE  WlTypeOK'
  <2>1. Return(t) /\ null' = TRUE /\ sem' \in Nat
    BY <1>7 DEF UpdateNone
  <2> QED BY <1>7, <2>1, ReturnTypes DEF UpdateNone
<1>8. ASSUME NEW t \in Tasks, UpdatePending(t)
      PROVE  WlTypeOK'
  <2>1. /\ listed' = Pending(t) /\ Pending(t) \subseteq Locks
        /\ UNCHANGED <<now, ref, expires, sem, timer, owed>>
    BY <1>8 DEF UpdatePending, Pending
  <2>2. PICK m \in Pending(t) :
          IF expires[m] > now
            THEN /\ arg' = m /\ argTick' = expires[m]
                 /\ ms' = [ms EXCEPT ![t] = expires[m] - now]
                 /\ null' = FALSE
                 /\ pc' = [pc EXCEPT ![t] = "arm"]
                 /\ locking' = {w \in locking : w[1] # t}
                 /\ UNCHANGED seen
            ELSE Return(t) /\ UNCHANGED <<arg, argTick, null>>
    BY <1>8 DEF UpdatePending
  <2>3. CASE expires[m] > now
    <3>1. expires[m] - now \in 0 .. Horizon /\ expires[m] \in Nat
      BY <2>1, <2>3
    <3>2. /\ arg' \in Locks /\ argTick' \in Nat /\ null' = FALSE
          /\ locking' \subseteq Threads \X Locks /\ seen' = seen
      BY <2>1, <2>2, <2>3, <3>1
    <3>3. /\ ms' \in [Tasks -> 0 .. Horizon]
          /\ pc' \in [Tasks -> {"idle", "callback", "read", "update", "arm"}]
      BY <2>2, <2>3, <3>1
    <3> QED BY <2>1, <3>2, <3>3
  <2>4. CASE ~(expires[m] > now)
    BY <2>1, <2>2, <2>4, ReturnTypes
  <2> QED BY <2>3, <2>4
<1>9. ASSUME NEW t \in Tasks, ArmTimer(t)
      PROVE  WlTypeOK'
  <2>1. now + ms[t] \in Nat
    OBVIOUS
  <2>2. Return(t) /\ timer' = now + ms[t]
    BY <1>9 DEF ArmTimer
  <2> QED BY <1>9, <2>1, <2>2, ReturnTypes DEF ArmTimer
<1>10. CASE TimerExpires
  BY <1>10 DEF TimerExpires
<1>11. CASE TimerCallback
  BY <1>11 DEF TimerCallback
<1>12. CASE Tick
  BY <1>12 DEF Tick, lockVars
<1>13. CASE UNCHANGED wlVars
  BY <1>13 DEF wlVars
<1> QED
  BY <1>1, <1>2, <1>3, <1>4, <1>5, <1>6, <1>7, <1>8, <1>9, <1>10, <1>11,
     <1>12, <1>13 DEF WlNext, Call, Continue

-----------------------------------------------------------------------------
\* Every critical section keeps held locks listed and the system awake.
LEMMA NextIInv == IInv /\ [WlNext]_wlVars => IInv'
<1> SUFFICES ASSUME IInv, [WlNext]_wlVars PROVE IInv'
  OBVIOUS
<1>t. WlTypeOK /\ WlTypeOK'
  BY TypeStep DEF IInv
<1>i. HeldListed /\ LockingInCall /\ HeldKeepsAwake
  BY DEF IInv
<1>s. SUFFICES HeldListed' /\ LockingInCall' /\ HeldKeepsAwake'
  BY <1>t DEF IInv
<1>1. ASSUME NEW t \in Threads, NEW l \in Locks, Lock(t, l)
      PROVE  HeldListed' /\ LockingInCall' /\ HeldKeepsAwake'
  <2>1. /\ ref' = [ref EXCEPT ![l] = ref[l] + 1] /\ listed' = listed \cup {l}
        /\ locking' = locking \cup {<<t, l>>} /\ null' = null
        /\ pc' = [pc EXCEPT ![t] = "read"]
    BY <1>1 DEF Lock, Enter
  <2> QED
    BY <1>t, <1>i, <2>1
       DEF WlTypeOK, Tasks, HeldListed, LockingInCall, HeldKeepsAwake
<1>2. ASSUME NEW t \in Threads, NEW l \in Locks, Unlock(t, l)
      PROVE  HeldListed' /\ LockingInCall' /\ HeldKeepsAwake'
  <2>1. /\ ref' = [ref EXCEPT ![l] = IF @ > 0 THEN @ - 1 ELSE 0]
        /\ UNCHANGED <<listed, locking, null>>
        /\ pc' = [pc EXCEPT ![t] = "read"]
    BY <1>2 DEF Unlock, Enter
  <2>2. \A k \in Locks : ref'[k] > 0 => ref[k] > 0
    BY <1>t, <2>1 DEF WlTypeOK
  <2> QED
    BY <1>t, <1>i, <2>1, <2>2
       DEF WlTypeOK, Tasks, HeldListed, LockingInCall, HeldKeepsAwake
<1>3. ASSUME NEW t \in Threads, NEW l \in Locks, Cancel(t, l)
      PROVE  HeldListed' /\ LockingInCall' /\ HeldKeepsAwake'
  BY <1>3, <1>t, <1>i
     DEF Cancel, Enter, WlTypeOK, Tasks, HeldListed, LockingInCall, HeldKeepsAwake
<1>4. ASSUME NEW t \in Threads, NEW l \in Locks, NEW msec \in Timeouts,
             LockTimeout(t, l, msec)
      PROVE  HeldListed' /\ LockingInCall' /\ HeldKeepsAwake'
  <2>1. /\ listed' = listed \cup {l} /\ UNCHANGED <<ref, locking, null>>
        /\ pc' = [pc EXCEPT ![t] = "read"]
    BY <1>4 DEF LockTimeout, Enter
  <2> QED
    BY <1>t, <1>i, <2>1
       DEF WlTypeOK, Tasks, HeldListed, LockingInCall, HeldKeepsAwake
<1>5. ASSUME NEW t \in Tasks, ReadTicks(t)
      PROVE  HeldListed' /\ LockingInCall' /\ HeldKeepsAwake'
  BY <1>5, <1>t, <1>i
     DEF ReadTicks, lockVars, WlTypeOK, Tasks, HeldListed, LockingInCall,
         HeldKeepsAwake
<1>6. ASSUME NEW t \in Tasks, UpdateHeld(t)
      PROVE  HeldListed' /\ LockingInCall' /\ HeldKeepsAwake'
  <2>1. PICK gone \in SUBSET Expired(t) : listed' = listed \ gone
    BY <1>6 DEF UpdateHeld
  <2>2. /\ null' = FALSE /\ ref' = ref
        /\ pc' = [pc EXCEPT ![t] = "idle"]
        /\ locking' = {w \in locking : w[1] # t}
    BY <1>6 DEF UpdateHeld, Return
  <2> QED
    BY <1>t, <1>i, <2>1, <2>2
       DEF Expired, WlTypeOK, Tasks, HeldListed, LockingInCall, HeldKeepsAwake
<1>7. ASSUME NEW t \in Tasks, UpdateNone(t)
      PROVE  HeldListed' /\ LockingInCall' /\ HeldKeepsAwake'
  <2>1. /\ Held = {} /\ ref' = ref
        /\ pc' = [pc EXCEPT ![t] = "idle"]
        /\ locking' = {w \in locking : w[1] # t}
    BY <1>7 DEF UpdateNone, Return
  <2>2. \A l \in Locks : ref'[l] = 0
    BY <2>1, NoneHeld
  <2> QED
    BY <1>t, <1>i, <2>1, <2>2
       DEF WlTypeOK, Tasks, HeldListed, LockingInCall, HeldKeepsAwake
<1>8. ASSUME NEW t \in Tasks, UpdatePending(t)
      PROVE  HeldListed' /\ LockingInCall' /\ HeldKeepsAwake'
  <2>1. /\ Held = {} /\ ref' = ref
        /\ locking' = {w \in locking : w[1] # t}
        /\ pc' \in {[pc EXCEPT ![t] = "idle"], [pc EXCEPT ![t] = "arm"]}
    BY <1>8 DEF UpdatePending, Return
  <2>2. \A l \in Locks : ref'[l] = 0
    BY <2>1, NoneHeld
  <2> QED
    BY <1>t, <1>i, <2>1, <2>2
       DEF WlTypeOK, Tasks, HeldListed, LockingInCall, HeldKeepsAwake
<1>9. ASSUME NEW t \in Tasks, ArmTimer(t)
      PROVE  HeldListed' /\ LockingInCall' /\ HeldKeepsAwake'
  <2>1. /\ pc[t] = "arm" /\ UNCHANGED <<ref, listed, null>>
        /\ pc' = [pc EXCEPT ![t] = "idle"]
        /\ locking' = {w \in locking : w[1] # t}
    BY <1>9 DEF ArmTimer, Return
  <2>2. \A k \in Threads, l \in Locks : <<k, l>> \in locking => k # t
    BY <1>i, <2>1 DEF LockingInCall
  <2> QED
    BY <1>t, <1>i, <2>1, <2>2
       DEF WlTypeOK, Tasks, HeldListed, LockingInCall, HeldKeepsAwake
<1>10. CASE TimerExpires
  BY <1>10, <1>t, <1>i, WakelockAssumption
     DEF TimerExpires, WlTypeOK, Tasks, HeldListed, LockingInCall, HeldKeepsAwake
<1>11. CASE TimerCallback
  <2>1. /\ UNCHANGED <<ref, locking, null>>
        /\ pc' = [pc EXCEPT ![TimerTask] = "read"]
        /\ pc[TimerTask] = "callback"
        /\ listed' = IF arg # NoLock /\ ref[arg] = 0 THEN listed \ {arg} ELSE listed
    BY <1>11 DEF TimerCallback
  <2>2. HeldListed'
    BY <1>i, <2>1 DEF HeldListed
  <2>3. LockingInCall'
    BY <1>t, <1>i, <2>1, WakelockAssumption DEF WlTypeOK, Tasks, LockingInCall
  <2>4. HeldKeepsAwake'
    BY <1>i, <2>1 DEF HeldKeepsAwake
  <2> QED BY <2>2, <2>3, <2>4
<1>12. CASE Tick
  BY <1>12, <1>i DEF Tick, lockVars, HeldListed, LockingInCall, HeldKeepsAwake
<1>13. CASE UNCHANGED wlVars
  BY <1>13, <1>i DEF wlVars, HeldListed, LockingInCall, HeldKeepsAwake
<1> QED
  BY <1>1, <1>2, <1>3, <1>4, <1>5, <1>6, <1>7, <1>8, <1>9, <1>10, <1>11,
     <1>12, <1>13 DEF WlNext, Call, Continue

-----------------------------------------------------------------------------
\* The state of the wakelocks keeps its types (wakelock.c's statics).
THEOREM WlTypeCorrect == WlSpec => []WlTypeOK
<1> QED BY InitIInv, TypeStep, PTL DEF WlSpec, IInv

\* A lock taken with pm_wake_lock keeps _wl_null at 0 from that call's return
\* to its pm_wake_unlock, whatever other threads and the timer do.
THEOREM HeldKeepsAwakeAlways == WlSpec => []HeldKeepsAwake
<1>1. IInv => HeldKeepsAwake
  BY DEF IInv
<1> QED BY <1>1, InitIInv, NextIInv, PTL DEF WlSpec

-----------------------------------------------------------------------------
(* The PM thread *)

\* The PM thread's lock is given up only between the caller's unlock and its
\* lock, and only the caller takes it.
LockInv ==
  /\ ref[PmLock] = IF callpc \in {"wait", "lock"} THEN 0 ELSE 1
  /\ \A t \in Threads : <<t, PmLock>> \in locking => t = Caller /\ callpc = "result"

\* While the system sleeps nothing runs that could clear _wl_null.
SleepInv == pmpc = "asleep" => null

PmInv == IInv /\ LockInv /\ SleepInv

LEMMA PmInitInv == PmInit => PmInv
<1> SUFFICES ASSUME PmInit PROVE PmInv
  OBVIOUS
<1>1. ref \in [Locks -> 0 .. MaxRef] /\ ref[PmLock] = 1
  BY WakelockAssumption, PmAssumption DEF PmInit
<1>2. \A l \in Locks : ref[l] > 0 => l = PmLock
  BY DEF PmInit
<1>3. IInv
  <2>1. WlTypeOK
    <3>1. /\ now \in Nat /\ sem \in Nat /\ listed \subseteq Locks
          /\ arg \in Locks \cup {NoLock}
          /\ argTick \in Nat \cup {Forever} /\ timer \in Nat \cup {Off}
          /\ locking \subseteq Threads \X Locks
      BY PmAssumption DEF PmInit
    <3>2. /\ expires \in [Locks -> 0 .. Horizon] /\ owed \in [Locks -> 0 .. Horizon]
          /\ pc \in [Tasks -> {"idle", "callback", "read", "update", "arm"}]
          /\ seen \in [Tasks -> Nat] /\ ms \in [Tasks -> 0 .. Horizon]
      BY WakelockAssumption DEF PmInit
    <3>3. null \in BOOLEAN
      BY DEF PmInit
    <3> QED BY <1>1, <3>1, <3>2, <3>3 DEF WlTypeOK
  <2> QED
    BY <1>2, <2>1 DEF PmInit, IInv, HeldListed, LockingInCall, HeldKeepsAwake
<1>4. LockInv /\ SleepInv
  BY <1>1 DEF PmInit, LockInv, SleepInv
<1> QED BY <1>3, <1>4 DEF PmInv

-----------------------------------------------------------------------------
\* What the PM thread and its callers do to the wakelocks, a call like others
\* or a change of the semaphore, keeps their invariant.
LEMMA SemaphoreStep ==
  ASSUME IInv, sem' \in Nat,
         UNCHANGED <<now, ref, expires, listed, null, arg, argTick, timer, pc, locking,
                     seen, ms, owed>>
  PROVE  IInv'
BY DEF IInv, WlTypeOK, HeldListed, LockingInCall, HeldKeepsAwake

LEMMA WakelockStep == IInv /\ [PmNext]_vars => IInv'
<1> SUFFICES ASSUME IInv, [PmNext]_vars PROVE IInv'
  OBVIOUS
<1> USE PmAssumption
<1>0. sem \in Nat
  BY DEF IInv, WlTypeOK
<1>1. CASE UNCHANGED wlVars
  BY <1>1, NextIInv
<1>2. CASE PmSemaphore
  <2>1. sem' \in Nat
    BY <1>0, <1>2 DEF PmSemaphore
  <2> QED BY <1>2, <2>1, SemaphoreStep DEF PmSemaphore
<1>3. CASE Drain
  BY <1>0, <1>3, SemaphoreStep DEF Drain, SetSem, Drained
<1>4. CASE Post
  BY <1>0, <1>4, SemaphoreStep DEF Post, SetSem
<1>5. CASE SetSem(Drained) \/ SetSem(sem + 1)
  BY <1>0, <1>5, SemaphoreStep DEF SetSem, Drained
<1>6. CASE UnlockPm
  BY <1>6, NextIInv DEF UnlockPm, WlNext, Call
<1>7. CASE LockPm
  BY <1>7, NextIInv DEF LockPm, WlNext, Call
<1>8. CASE \/ \E t \in Threads \ {Caller} : Locker(t)
           \/ \E t \in Tasks : Continue(t)
           \/ TimerExpires \/ TimerCallback \/ Tick
  BY <1>8, NextIInv DEF Locker, WlNext
<1>9. CASE PmTask
  BY <1>1, <1>2, <1>9
     DEF PmTask, PmCall, PmCheck, PmWoken, PmMode, PmSuspend, PmClear, PmAnswer, PmHold
<1>10. CASE CallerStep
  BY <1>1, <1>3, <1>4, <1>6, <1>7, <1>10
     DEF CallerStep, SetMode, Touch, AwaitTouched, AwaitAnswer, TakeResult, LeaveMode
<1>11. CASE Abort
  BY <1>1, <1>5, <1>11 DEF Abort
<1>12. CASE PmWake \/ \E t \in Tmos : EnterMode(t)
  BY <1>1, <1>12 DEF PmWake, EnterMode
<1>13. CASE UNCHANGED vars
  BY <1>1, <1>13 DEF vars
<1> QED BY <1>8, <1>9, <1>10, <1>11, <1>12, <1>13 DEF PmNext

-----------------------------------------------------------------------------
\* Who has the PM thread's lock, and that no step but the wake ends a sleep.
LEMMA OtherCalls ==
  ASSUME IInv, LockInv,
         \/ \E t \in Threads \ {Caller} : Locker(t)
         \/ \E t \in Tasks : Continue(t)
         \/ TimerExpires \/ TimerCallback \/ Tick,
         UNCHANGED callpc
  PROVE  LockInv'
<1> USE WakelockAssumption, PmAssumption
<1>1. ASSUME NEW t \in Threads \ {Caller}, NEW l \in Locks \ {PmLock}, Call(t, l)
      PROVE  ref'[PmLock] = ref[PmLock] /\ locking' \subseteq locking \cup {<<t, l>>}
  BY <1>1 DEF Call, Lock, LockTimeout, Unlock, Cancel, IInv, WlTypeOK
<1>2. ASSUME NEW t \in Tasks, Continue(t)
      PROVE  ref' = ref /\ locking' \subseteq locking
  BY <1>2 DEF Continue, ReadTicks, UpdateHeld, UpdateNone, UpdatePending, ArmTimer,
              Return, lockVars
<1>3. ASSUME TimerExpires \/ TimerCallback \/ Tick
      PROVE  ref' = ref /\ locking' = locking
  BY <1>3 DEF TimerExpires, TimerCallback, Tick, lockVars
<1>4. CASE \E t \in Threads \ {Caller} : Locker(t)
  BY <1>1, <1>4 DEF Locker, LockInv
<1>5. CASE \E t \in Tasks : Continue(t)
  BY <1>2, <1>5 DEF LockInv
<1>6. CASE TimerExpires \/ TimerCallback \/ Tick
  BY <1>3, <1>6 DEF LockInv
<1> QED BY <1>4, <1>5, <1>6

LEMMA LockStep == IInv /\ LockInv /\ [PmNext]_vars => LockInv'
<1> SUFFICES ASSUME IInv, LockInv, [PmNext]_vars PROVE LockInv'
  OBVIOUS
<1> USE WakelockAssumption, PmAssumption
<1>1. CASE UNCHANGED <<ref, locking, callpc>>
  BY <1>1 DEF LockInv
<1>2. CASE PmTask \/ PmWake \/ Abort \/ UNCHANGED vars
  BY <1>1, <1>2
     DEF PmTask, PmCall, PmCheck, PmSemaphore, PmWoken, PmMode, PmSuspend, PmClear,
         PmAnswer, PmHold, PmWake, Abort, SetSem, wlVars, vars, pmVars, caller
<1>3. CASE \E t \in Tmos : EnterMode(t)
  BY <1>3 DEF EnterMode, CallGo, LockInv, wlVars
<1>4. CASE SetMode \/ Touch \/ Drain \/ Post \/ AwaitTouched
  BY <1>4 DEF SetMode, Touch, Drain, Post, AwaitTouched, SetSem, CallGo, LockInv, wlVars
<1>5. CASE UnlockPm
  <2>1. ref' = [ref EXCEPT ![PmLock] = IF @ > 0 THEN @ - 1 ELSE 0] /\ locking' = locking
    BY <1>5 DEF UnlockPm, Unlock
  <2>2. callpc = "unlock" /\ callpc' = "wait" /\ ref[PmLock] = 1
    BY <1>5 DEF UnlockPm, CallGo, LockInv
  <2> QED BY <2>1, <2>2 DEF LockInv, IInv, WlTypeOK
<1>6. CASE AwaitAnswer
  BY <1>6 DEF AwaitAnswer, CallGo, LockInv, wlVars
<1>7. CASE LockPm
  <2>1. /\ ref' = [ref EXCEPT ![PmLock] = @ + 1]
        /\ locking' = locking \cup {<<Caller, PmLock>>}
    BY <1>7 DEF LockPm, Lock
  <2>2. callpc = "lock" /\ callpc' = "result" /\ ref[PmLock] = 0
    BY <1>7 DEF LockPm, CallGo, LockInv
  <2> QED BY <2>1, <2>2 DEF LockInv, IInv, WlTypeOK
<1>8. CASE TakeResult
  <2>1. <<Caller, PmLock>> \notin locking
    BY <1>8 DEF TakeResult, IInv, LockingInCall
  <2> QED BY <1>8, <2>1 DEF TakeResult, CallGo, LockInv, wlVars
<1>9. CASE LeaveMode
  BY <1>9 DEF LeaveMode, CallGo, LockInv, wlVars
<1>10. CASE /\ \/ \E t \in Threads \ {Caller} : Locker(t)
               \/ \E t \in Tasks : Continue(t)
               \/ TimerExpires \/ TimerCallback \/ Tick
            /\ UNCHANGED pmVars
  BY <1>10, OtherCalls DEF pmVars, caller
<1> QED
  BY <1>2, <1>3, <1>4, <1>5, <1>6, <1>7, <1>8, <1>9, <1>10 DEF PmNext, CallerStep

LEMMA SleepStep == SleepInv /\ [PmNext]_vars => SleepInv'
<1> SUFFICES ASSUME SleepInv, [PmNext]_vars PROVE SleepInv'
  OBVIOUS
<1>1. CASE pmpc = "asleep"
  <2>1. PmWake \/ UNCHANGED vars
    BY <1>1 DEF PmNext
  <2> QED BY <2>1 DEF PmWake, SleepInv, vars, wlVars, pmVars, pmThread
<1>2. CASE pmpc # "asleep" /\ pmpc' = "asleep"
  <2>1. CASE PmSuspend
    BY <2>1 DEF PmSuspend, SleepInv, wlVars
  <2>2. CASE UNCHANGED pmpc
    BY <1>2, <2>2
  <2>3. CASE PmTask
    BY <1>2, <2>1, <2>3
       DEF PmTask, PmGo, PmCall, PmCheck, PmSemaphore, PmWoken, PmMode, PmClear,
           PmAnswer, PmHold
  <2> QED
    BY <1>2, <2>2, <2>3
       DEF PmNext, PmWake, CallerStep, SetMode, Touch, Drain, Post, AwaitTouched,
           UnlockPm, AwaitAnswer, LockPm, TakeResult, LeaveMode, EnterMode, Abort,
           vars, pmVars, pmThread
<1> QED BY <1>1, <1>2 DEF SleepInv

LEMMA PmInvariant == PmSpec => []PmInv
<1>1. PmInv /\ [PmNext]_vars => PmInv'
  BY WakelockStep, LockStep, SleepStep DEF PmInv
<1> QED BY PmInitInv, <1>1, PTL DEF PmSpec

-----------------------------------------------------------------------------
(* When the system sleeps *)

\* The system never sleeps while a lock is held whose pm_wake_lock has
\* returned, however the calls and pm_task interleave.
THEOREM AsleepUnheldAlways == PmSpec => []AsleepUnheld
<1>1. PmInv => AsleepUnheld
  BY DEF PmInv, SleepInv, IInv, HeldKeepsAwake, AsleepUnheld
<1> QED BY PmInvariant, <1>1, PTL

\* The system never sleeps outside the caller's unlock and lock of the PM
\* thread's wakelock, however late pm_task is with an earlier call.
THEOREM AsleepInCallAlways == PmSpec => []AsleepInCall
<1>1. PmInv => AsleepInCall
  <2> SUFFICES ASSUME PmInv, pmpc = "asleep" PROVE callpc \in {"wait", "lock", "result"}
    BY DEF AsleepInCall
  <2>1. CASE ref[PmLock] > 0
    <3>1. \E t \in Threads : <<t, PmLock>> \in locking
      BY <2>1, PmAssumption DEF PmInv, SleepInv, IInv, HeldKeepsAwake
    <3> QED BY <3>1 DEF PmInv, LockInv
  <2>2. CASE ~(ref[PmLock] > 0)
    BY <2>2 DEF PmInv, LockInv
  <2> QED BY <2>1, <2>2
<1> QED BY PmInvariant, <1>1, PTL

-----------------------------------------------------------------------------
(* The types *)

One(b) == IF b THEN 1 ELSE 0

\* Each of the two touches gives the semaphore once, and a walk that finds no
\* lock only when nobody has.
SemInv == sem + One(callpc = "post") + One(abortpc = "post") <= 3

\* PmTypeOK without the wakelocks.
PmTypes ==
  /\ state \in {"on", "sleep"} /\ tmo \in {"forever", "finite", "zero"}
  /\ touch \in BOOLEAN /\ step \in {0, 1, 2} /\ tried \in BOOLEAN
  /\ done \in Nat /\ wakeRet \in {"zero", "fail", "wakeup", "timeout"}
  /\ pmpc \in {"call", "check", "sem", "woken", "mode", "suspend", "asleep",
               "clear", "answer", "hold"}
  /\ pmTmo \in {"forever", "finite", "zero"}
  /\ pmRet \in {"zero", "fail", "wakeup", "timeout"}
  /\ callpc \in {"idle", "mode", "touch", "drain", "post", "touched", "unlock", "wait",
                 "lock", "result", "on"}
  /\ callTmo \in {"forever", "finite"}
  /\ callRet \in {"none", "zero", "fail", "wakeup", "timeout"}
  /\ abortpc \in {"idle", "touch", "drain", "post"}

LEMMA PmTypesStep == PmTypes /\ [PmNext]_vars => PmTypes'
<1> SUFFICES ASSUME PmTypes, [PmNext]_vars PROVE PmTypes'
  OBVIOUS
<1> USE DEF PmTypes, PmGo, CallGo, pmThread, caller
<1>1. CASE PmTask
  <2>1. CASE PmCall \/ PmCheck \/ PmSemaphore \/ PmMode
    BY <2>1 DEF PmCall, PmCheck, PmSemaphore, PmMode
  <2>2. CASE PmWoken
    <3>1. touch' \in BOOLEAN
      BY <2>2 DEF PmWoken
    <3>2. /\ pmpc' \in {"call", "clear", "check"}
          /\ pmTmo' \in {pmTmo, "forever"} /\ pmRet' \in {pmRet, "zero"}
      BY <2>2 DEF PmWoken
    <3>3. UNCHANGED <<state, tmo, step, done, wakeRet, callpc, callTmo, callRet,
                      abortpc, tried>>
      BY <2>2 DEF PmWoken
    <3> QED BY <3>1, <3>2, <3>3
  <2>3. CASE PmSuspend \/ PmClear \/ PmHold
    BY <2>3 DEF PmSuspend, PmClear, PmHold
  <2>4. CASE PmAnswer
    BY <2>4 DEF PmAnswer
  <2> QED BY <1>1, <2>1, <2>2, <2>3, <2>4 DEF PmTask
<1>2. CASE CallerStep
  <2>1. CASE SetMode \/ Touch \/ Drain \/ Post
    BY <2>1 DEF SetMode, Touch, Drain, Post
  <2>2. CASE AwaitTouched \/ UnlockPm \/ LockPm
    BY <2>2 DEF AwaitTouched, UnlockPm, LockPm
  <2>3. CASE AwaitAnswer
    BY <2>3 DEF AwaitAnswer
  <2>4. CASE TakeResult \/ LeaveMode
    BY <2>4 DEF TakeResult, LeaveMode
  <2> QED BY <1>2, <2>1, <2>2, <2>3, <2>4 DEF CallerStep
<1>3. CASE \E t \in Tmos : EnterMode(t)
  BY <1>3, PmAssumption DEF EnterMode
<1>4. CASE Abort
  <2>1. touch' \in BOOLEAN
    BY <1>4 DEF Abort
  <2>2. tmo' \in {tmo, "zero"} /\ abortpc' \in {"idle", "touch", "drain", "post"}
    BY <1>4 DEF Abort
  <2>3. UNCHANGED <<state, step, done, wakeRet, pmpc, pmTmo, pmRet, callpc, callTmo,
                    callRet, tried>>
    BY <1>4 DEF Abort
  <2> QED BY <2>1, <2>2, <2>3
<1>5. CASE PmWake
  BY <1>5 DEF PmWake
<1>6. CASE UNCHANGED pmVars
  BY <1>6 DEF pmVars
<1> QED BY <1>1, <1>2, <1>3, <1>4, <1>5, <1>6 DEF PmNext, vars

LEMMA SemStep == IInv /\ SemInv /\ [PmNext]_vars => SemInv'
<1> SUFFICES ASSUME IInv, SemInv, [PmNext]_vars PROVE SemInv'
  OBVIOUS
<1> USE DEF One, SemInv
<1>0. sem \in Nat
  BY DEF IInv, WlTypeOK
<1>1. CASE UNCHANGED <<sem, callpc, abortpc>>
  BY <1>1
<1>2. CASE /\ \/ \E t \in Threads \ {Caller} : Locker(t)
              \/ \E t \in Tasks : Continue(t)
              \/ TimerExpires \/ TimerCallback \/ Tick
           /\ UNCHANGED pmVars
  <2>1. sem' = sem \/ (sem = 0 /\ sem' = 1)
    BY <1>0, <1>2
       DEF Locker, Call, Lock, LockTimeout, Unlock, Cancel, Continue, ReadTicks,
           UpdateHeld, UpdateNone, UpdatePending, ArmTimer, TimerExpires,
           TimerCallback, Tick, lockVars
  <2>2. UNCHANGED <<callpc, abortpc>>
    BY <1>2 DEF pmVars, caller
  <2> QED BY <1>0, <2>1, <2>2
<1>3. CASE PmTask \/ PmWake \/ UNCHANGED vars
  BY <1>0, <1>1, <1>3
     DEF PmTask, PmCall, PmCheck, PmSemaphore, PmWoken, PmMode, PmSuspend, PmClear,
         PmAnswer, PmHold, PmWake, vars, pmVars, wlVars, caller
<1>4. CASE \E t \in Tmos : EnterMode(t)
  BY <1>4 DEF EnterMode, CallGo, wlVars
<1>5. CASE SetMode \/ Touch \/ AwaitTouched \/ AwaitAnswer \/ TakeResult \/ LeaveMode
  BY <1>5
     DEF SetMode, Touch, AwaitTouched, AwaitAnswer, TakeResult, LeaveMode, CallGo, wlVars
<1>6. CASE UnlockPm \/ LockPm
  BY <1>6 DEF UnlockPm, LockPm, Unlock, Lock, CallGo
<1>7. CASE Drain
  BY <1>0, <1>7 DEF Drain, SetSem, Drained, CallGo
<1>8. CASE Post
  BY <1>0, <1>8 DEF Post, SetSem, CallGo
<1>9. CASE Abort
  BY <1>0, <1>9 DEF Abort, SetSem, Drained, caller, wlVars
<1> QED
  BY <1>2, <1>3, <1>4, <1>5, <1>6, <1>7, <1>8, <1>9 DEF PmNext, CallerStep

\* The PM thread, its callers and pm_suspend_abort keep their variables in
\* range: the semaphore never counts more than three.
THEOREM PmTypeCorrect == PmSpec => []PmTypeOK
<1>1. PmInit => SemInv /\ PmTypes
  <2> SUFFICES ASSUME PmInit PROVE SemInv /\ PmTypes
    OBVIOUS
  <2>1. SemInv
    BY DEF PmInit, SemInv, One
  <2>2. touch \in BOOLEAN /\ tried \in BOOLEAN
    BY DEF PmInit
  <2> QED BY <2>1, <2>2 DEF PmInit, PmTypes
<1>2. PmInv /\ SemInv /\ PmTypes /\ [PmNext]_vars => SemInv' /\ PmTypes'
  BY SemStep, PmTypesStep DEF PmInv
<1>3. PmInv /\ SemInv /\ PmTypes => PmTypeOK
  BY DEF PmInv, IInv, WlTypeOK, SemInv, One, PmTypes, PmTypeOK
<1> QED BY PmInvariant, <1>1, <1>2, <1>3, PTL DEF PmSpec

-----------------------------------------------------------------------------
(* Whose answer a call takes *)

\* Without timeouts and aborts pm_task never leaves its wait on its own.
Untouched ==
  /\ tmo = "forever" /\ pmTmo = "forever" /\ callTmo = "forever"
  /\ ~touch /\ pmRet # "timeout" /\ abortpc = "idle"

\* pm_task is in an attempt to sleep only while the caller waits for it, and
\* holds until the caller has taken its answer: the two take turns.
Turns ==
  /\ pmpc \in {"mode", "suspend", "asleep", "clear", "answer"} =>
       callpc = "wait" /\ done = 0
  /\ pmpc \in {"suspend", "asleep", "clear", "answer"} => tried /\ step = 1
  /\ pmpc = "hold" =>
       \/ callpc = "wait" /\ done = 1 /\ step = 1 /\ tried
       \/ callpc \in {"lock", "result"} /\ done = 0 /\ step = 1 /\ tried
       \/ callpc = "on" /\ done = 0 /\ step = 2 /\ tried
       \/ callpc \in {"idle", "mode", "unlock", "wait"} /\ done = 0 /\ step = 2
  /\ pmpc \in {"call", "check", "sem", "woken"} =>
       /\ done = 0 /\ callpc \notin {"lock", "result"}
       /\ callpc = "on" => tried

TurnInv ==
  /\ Untouched /\ Turns
  /\ pmpc \in {"call", "check", "sem", "woken", "mode", "suspend", "asleep", "clear",
               "answer", "hold"}
  /\ callpc \in {"idle", "mode", "unlock", "wait", "lock", "result", "on"}

\* No lock active means the PM thread's is not either, or is being taken.
LEMMA NullInCall ==
  ASSUME PmInv, null
  PROVE  callpc \in {"wait", "lock", "result"}
<1>1. CASE ref[PmLock] > 0
  <2>1. \E t \in Threads : <<t, PmLock>> \in locking
    BY <1>1, PmAssumption DEF PmInv, IInv, HeldKeepsAwake
  <2> QED BY <2>1 DEF PmInv, LockInv
<1>2. CASE ~(ref[PmLock] > 0)
  BY <1>2 DEF PmInv, LockInv
<1> QED BY <1>1, <1>2

\* The steps of pm_task.
LEMMA TurnPmTask ==
  ASSUME PmInv, TurnInv, PmTask \/ PmWake
  PROVE  TurnInv'
<1> USE DEF TurnInv, PmGo, caller
<1>1. CASE PmCall
  BY <1>1 DEF PmCall, Untouched, Turns
<1>2. CASE PmCheck
  BY <1>2, NullInCall DEF PmCheck, Untouched, Turns
<1>3. CASE PmSemaphore
  BY <1>3 DEF PmSemaphore, Untouched, Turns
<1>4. CASE PmWoken
  BY <1>4 DEF PmWoken, Untouched, Turns
<1>5. CASE PmMode
  BY <1>5 DEF PmMode, Untouched, Turns
<1>6. CASE PmSuspend
  BY <1>6 DEF PmSuspend, Untouched, Turns
<1>7. CASE PmWake
  BY <1>7 DEF PmWake, Untouched, Turns
<1>8. CASE PmClear
  BY <1>8 DEF PmClear, Untouched, Turns
<1>9. CASE PmAnswer
  BY <1>9 DEF PmAnswer, Untouched, Turns
<1>10. CASE PmHold
  BY <1>10 DEF PmHold, Untouched, Turns
<1> QED BY <1>1, <1>2, <1>3, <1>4, <1>5, <1>6, <1>7, <1>8, <1>9, <1>10 DEF PmTask

\* The steps of the caller.
LEMMA TurnCaller ==
  ASSUME TurnInv, Tmos \subseteq {"forever"},
         CallerStep \/ \E t \in Tmos : EnterMode(t)
  PROVE  TurnInv'
<1> USE DEF TurnInv, CallGo, pmThread
<1>1. CASE \E t \in Tmos : EnterMode(t)
  BY <1>1 DEF EnterMode, Untouched, Turns
<1>2. CASE SetMode
  BY <1>2 DEF SetMode, Untouched, Turns
<1>3. CASE Touch \/ Drain \/ Post \/ AwaitTouched
  BY <1>3 DEF Touch, Drain, Post, AwaitTouched
<1>4. CASE UnlockPm
  BY <1>4 DEF UnlockPm, Untouched, Turns
<1>5. CASE AwaitAnswer
  BY <1>5 DEF AwaitAnswer, Untouched, Turns
<1>6. CASE LockPm
  BY <1>6 DEF LockPm, Untouched, Turns
<1>7. CASE TakeResult
  BY <1>7 DEF TakeResult, Untouched, Turns
<1>8. CASE LeaveMode
  BY <1>8 DEF LeaveMode, Untouched, Turns
<1> QED BY <1>1, <1>2, <1>3, <1>4, <1>5, <1>6, <1>7, <1>8 DEF CallerStep

\* pm_enter_mode returns 0 only for an attempt made since it was called, if
\* nobody calls pm_suspend_abort and no call has a timeout: either may leave
\* an answer that the next call takes for its own.
THEOREM AnswerIsOwnAlways ==
  ASSUME Aborts = FALSE, Tmos \subseteq {"forever"}
  PROVE  PmSpec => []AnswerIsOwn
<1>1. PmInit => TurnInv
  BY DEF PmInit, TurnInv, Untouched, Turns
<1>2. PmInv /\ TurnInv /\ [PmNext]_vars => TurnInv'
  <2> SUFFICES ASSUME PmInv, TurnInv, [PmNext]_vars PROVE TurnInv'
    OBVIOUS
  <2>1. CASE UNCHANGED pmVars
    BY <2>1 DEF pmVars, pmThread, caller, TurnInv, Untouched, Turns
  <2>2. ~Abort
    BY DEF Abort
  <2> QED BY <2>1, <2>2, TurnPmTask, TurnCaller DEF PmNext, vars
<1>3. TurnInv => AnswerIsOwn
  BY DEF TurnInv, Turns, AnswerIsOwn
<1> QED BY PmInvariant, <1>1, <1>2, <1>3, PTL DEF PmSpec
=============================================================================
