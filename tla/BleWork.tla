------------------------------ MODULE BleWork ------------------------------
(***************************************************************************)
(* The work queue of the Bluetooth host: works put in a queue by           *)
(* k_work_submit and by the timers of delayed works, and a thread that     *)
(* takes them and calls their handlers.  To wait for the queue the thread  *)
(* polls: it registers an event that an append makes ready, looks again    *)
(* and waits for a semaphore.                                              *)
(*                                                                         *)
(* What runs between irq_lock and irq_unlock is one step, and so is a      *)
(* timer's callback, which runs in the tick interrupt (RT-Thread's timers  *)
(* are created without RT_TIMER_FLAG_SOFT_TIMER).  k_work_submit is three  *)
(* steps: k_queue_append reads the queue's tail before it takes the lock.  *)
(* k_delayed_work_cancel is two: it tests work_q before it takes the lock. *)
(***************************************************************************)
EXTENDS Lists

CONSTANTS
  Works,
  Delayed,   \* the works of struct k_delayed_work
  Threads,   \* those that submit and cancel, beside the handlers
  WorkQ,     \* the thread of z_work_q_main
  None,      \* no work, NULL
  MaxSubmit  \* bound: the submissions

ASSUME BleAssumption ==
  /\ Delayed \subseteq Works /\ None \notin Works /\ WorkQ \notin Threads
  /\ MaxSubmit \in Nat

VARIABLES
  queue,    \* k_queue::data_q
  after,    \* the next pointer of a work that has left the queue
  pending,  \* K_WORK_STATE_PENDING
  workQ,    \* the delayed works whose work_q is set
  timer,    \* the delayed works whose timer runs
  event,    \* k_poll's event is in the queue's poll_events
  ready,    \* its state is not K_POLL_STATE_NOT_READY
  wait,     \* poller.wait is set
  sem,      \* the count of k_poll's semaphore
  pc,       \* where z_work_q_main is
  item,     \* the work it took
  at,       \* where a thread is in k_work_submit_to_queue or k_delayed_work_cancel
  arg,      \* its work
  prev,     \* the queue's tail, as k_queue_append read it
  (* history *)
  owed,     \* works submitted since their handler last ran or they were cancelled
  lost,     \* works linked behind one that had left the queue
  unarmed,  \* delayed works whose timer could not be created or started
  count     \* submissions, for the bound

poll     == <<event, ready, wait, sem>>
submits  == <<at, arg, prev>>
history  == <<owed, lost, unarmed, count>>
vars     == <<queue, after, pending, workQ, timer, poll, pc, item, submits, history>>

Callers == Threads \cup {WorkQ}

Init ==
  /\ queue = <<>> /\ after = [w \in Works |-> None]
  /\ pending = {} /\ workQ = {} /\ timer = {}
  /\ event = FALSE /\ ready = FALSE /\ wait = FALSE /\ sem = 0
  /\ pc = "get" /\ item = None
  /\ at = [t \in Callers |-> "idle"] /\ arg = [t \in Callers |-> None]
  /\ prev = [t \in Callers |-> None]
  /\ owed = {} /\ lost = {} /\ unarmed = {} /\ count = 0

LastWork == IF queue = <<>> THEN None ELSE Last(queue)

IndexOf(w) == CHOOSE i \in DOMAIN queue : queue[i] = w

\* t may call: a thread, or a handler that runs in the work queue's thread.
Calls(t) == at[t] = "idle" /\ (t = WorkQ => pc = "handler")

-----------------------------------------------------------------------------
(* k_queue *)

\* handle_poll_events: the event is taken off the queue's list, and the poller
\* is woken if it waits already.
Signal ==
  /\ event' = FALSE
  /\ ready' = (ready \/ event)
  /\ sem' = IF event /\ wait THEN sem + 1 ELSE sem
  /\ UNCHANGED wait

\* sys_sflist_insert of w behind p.
Insert(p, w) ==
  /\ queue' = IF p = None THEN <<w>> \o queue
              ELSE IF p \in Range(queue)
                   THEN InsertAt(queue, 1 + IndexOf(p), w)
                   ELSE IF after[p] = None THEN Append(queue, w) ELSE queue
  /\ IF p \notin Range(queue) \cup {None} /\ after[p] # None
     THEN after' = [after EXCEPT ![p] = w, ![w] = after[p]] /\ lost' = lost \cup {w}
     ELSE after' = [after EXCEPT ![w] = None] /\ UNCHANGED lost

\* sys_sflist_get_not_empty leaves the work's next pointer as it was.
Get ==
  /\ queue # <<>>
  /\ item' = Head(queue) /\ queue' = Tail(queue)
  /\ after' = [after EXCEPT ![item'] = IF queue' = <<>> THEN None ELSE Head(queue')]

-----------------------------------------------------------------------------
(* k_work_submit_to_queue *)

SubmitTest(t, w) ==
  /\ Calls(t) /\ count < MaxSubmit
  /\ w \notin pending
  /\ pending' = pending \cup {w}
  /\ at' = [at EXCEPT ![t] = "peek"] /\ arg' = [arg EXCEPT ![t] = w]
  /\ owed' = owed \cup {w} /\ count' = count + 1
  /\ UNCHANGED <<queue, after, workQ, timer, poll, pc, item, prev, lost,
                 unarmed>>

\* sys_sflist_peek_tail, without the lock.
SubmitPeek(t) ==
  /\ at[t] = "peek"
  /\ at' = [at EXCEPT ![t] = "insert"]
  /\ prev' = [prev EXCEPT ![t] = LastWork]
  /\ UNCHANGED <<queue, after, pending, workQ, timer, poll, pc, item, arg, history>>

\* queue_insert
SubmitInsert(t) ==
  /\ at[t] = "insert"
  /\ Insert(prev[t], arg[t]) /\ Signal
  /\ at' = [at EXCEPT ![t] = "idle"]
  /\ arg' = [arg EXCEPT ![t] = None] /\ prev' = [prev EXCEPT ![t] = None]
  /\ UNCHANGED <<pending, workQ, timer, pc, item, owed, unarmed, count>>

-----------------------------------------------------------------------------
(* Delayed works *)

\* Mutated: a work that is pending is cancelled, in the queue or not.
CancelsAll(w) == TRUE

\* The part of k_delayed_work_cancel under the lock succeeds: the work is not
\* pending, or it is in the queue and is taken off.
Cancels(w) == w \notin pending \/ w \in Range(queue)

\* sys_sflist_find_and_remove
WithoutWork(w) == Without(queue, w)

\* k_delayed_work_cancel: the work must have a work_q; the lock is not taken yet.
CancelTest(t, w) ==
  /\ Calls(t)
  /\ w \in workQ
  /\ at' = [at EXCEPT ![t] = "cancel"] /\ arg' = [arg EXCEPT ![t] = w]
  /\ UNCHANGED <<queue, after, pending, workQ, timer, poll, pc, item, prev, history>>

\* Mutated: the timer is left running.
CancelCounting(t) ==
  LET w == arg[t]
  IN  /\ at[t] = "cancel" /\ Cancels(w)
      /\ queue' = WithoutWork(w)
      /\ workQ' = workQ \ {w} /\ pending' = pending \ {w}
      /\ owed' = owed \ {w} /\ unarmed' = unarmed \ {w}
      /\ at' = [at EXCEPT ![t] = "idle"] /\ arg' = [arg EXCEPT ![t] = None]
      /\ UNCHANGED <<after, timer, poll, pc, item, prev, lost, count>>

\* The rest of it, under the lock.  It returns 0 also for a work that is with
\* its handler or has been, whose work_q is still set.
Cancel(t) ==
  LET w == arg[t]
  IN  /\ at[t] = "cancel" /\ Cancels(w)
      /\ queue' = WithoutWork(w)
      /\ timer' = IF w \in pending THEN timer ELSE timer \ {w}
      /\ workQ' = workQ \ {w} /\ pending' = pending \ {w}
      /\ owed' = owed \ {w} /\ unarmed' = unarmed \ {w}
      /\ at' = [at EXCEPT ![t] = "idle"] /\ arg' = [arg EXCEPT ![t] = None]
      /\ UNCHANGED <<after, poll, pc, item, prev, lost, count>>

\* The work is pending and not in the queue: -EINVAL.
CancelFails(t) ==
  /\ at[t] = "cancel" /\ ~Cancels(arg[t])
  /\ at' = [at EXCEPT ![t] = "idle"] /\ arg' = [arg EXCEPT ![t] = None]
  /\ UNCHANGED <<queue, after, pending, workQ, timer, poll, pc, item, prev, history>>

\* z_add_timeout, which only warns when the timer cannot be created or started.
AddTimeout(w) ==
  \/ timer' = timer \cup {w} /\ unarmed' = unarmed \ {w}
  \/ timer' = timer \ {w} /\ unarmed' = unarmed \cup {w}

\* Mutated: the earlier submission is cancelled after the timer was started.
SubmitDelayedFirst(t, w) ==
  /\ Calls(t) /\ count < MaxSubmit
  /\ w \in workQ => Cancels(w)
  /\ queue' = WithoutWork(w) /\ pending' = pending \ {w}
  /\ timer' = IF w \in workQ \ pending THEN timer \ {w} ELSE timer \cup {w}
  /\ workQ' = workQ \cup {w}
  /\ owed' = owed \cup {w} /\ count' = count + 1
  /\ UNCHANGED <<after, poll, pc, item, submits, lost, unarmed>>

\* k_delayed_work_submit_to_queue with a delay: a submission that is still
\* counting down or in the queue is cancelled first, and if it cannot be, the
\* call fails.
SubmitDelayed(t, w) ==
  /\ Calls(t) /\ count < MaxSubmit
  /\ w \in workQ => Cancels(w)
  /\ IF w \in workQ
     THEN queue' = WithoutWork(w) /\ pending' = pending \ {w}
     ELSE UNCHANGED <<queue, pending>>
  /\ AddTimeout(w)
  /\ workQ' = workQ \cup {w}
  /\ owed' = owed \cup {w} /\ count' = count + 1
  /\ UNCHANGED <<after, poll, pc, item, submits, lost>>

\* ... and without one: the work is submitted at once, under the lock.
SubmitNow(t, w) ==
  /\ Calls(t) /\ count < MaxSubmit
  /\ w \in workQ => Cancels(w)
  /\ queue' = Append(WithoutWork(w), w) /\ Signal
  /\ after' = [after EXCEPT ![w] = None]
  /\ timer' = IF w \in workQ \ pending THEN timer \ {w} ELSE timer
  /\ workQ' = workQ \cup {w} /\ pending' = pending \cup {w}
  /\ owed' = owed \cup {w} /\ unarmed' = unarmed \ {w} /\ count' = count + 1
  /\ UNCHANGED <<pc, item, submits, lost>>

\* work_timeout
TimerFires(w) ==
  /\ w \in timer
  /\ timer' = timer \ {w}
  /\ IF w \in pending
     THEN UNCHANGED <<queue, after, pending, poll>>
     ELSE /\ queue' = Append(queue, w) /\ pending' = pending \cup {w} /\ Signal
          /\ after' = [after EXCEPT ![w] = None]
  /\ UNCHANGED <<workQ, pc, item, submits, history>>

-----------------------------------------------------------------------------
(* z_work_q_main: k_queue_get, with CONFIG_POLL, and the handler *)

Go(from, to) == pc = from /\ pc' = to

QueueGet ==
  /\ Go("get", IF queue = <<>> THEN "register" ELSE "got")
  /\ IF queue = <<>> THEN UNCHANGED <<queue, after, item>> ELSE Get
  /\ UNCHANGED <<pending, workQ, timer, poll, submits, history>>

\* register_events; the event and the poller are new.
Register ==
  /\ Go("register", "recheck")
  /\ event' = (queue = <<>>) /\ ready' = (queue # <<>>) /\ wait' = FALSE
  /\ UNCHANGED <<queue, after, pending, workQ, timer, sem, item, submits, history>>

\* Mutated: the event's state is not looked at again.
RecheckNot ==
  /\ Go("recheck", "wait")
  /\ wait' = TRUE /\ sem' = 0
  /\ UNCHANGED <<queue, after, pending, workQ, timer, event, ready, item, submits,
                 history>>

\* The event's state is looked at again, and the semaphore is created.
Recheck ==
  /\ Go("recheck", IF ready THEN "take" ELSE "wait")
  /\ event' = (event /\ ~ready)
  /\ wait' = ~ready /\ sem' = 0
  /\ UNCHANGED <<queue, after, pending, workQ, timer, ready, item, submits, history>>

\* OS_SemaphoreWait, and poller.wait is reset.
Wait ==
  /\ Go("wait", "clear")
  /\ sem > 0 /\ sem' = 0
  /\ wait' = FALSE
  /\ UNCHANGED <<queue, after, pending, workQ, timer, event, ready, item, submits,
                 history>>

\* clear_event_registrations
Clear ==
  /\ Go("clear", "take")
  /\ event' = FALSE
  /\ UNCHANGED <<queue, after, pending, workQ, timer, ready, wait, sem, item, submits,
                 history>>

\* k_queue_poll takes a work, or polls again.
Take ==
  /\ Go("take", IF queue = <<>> THEN "register" ELSE "got")
  /\ IF queue = <<>> THEN UNCHANGED <<queue, after, item>> ELSE Get
  /\ UNCHANGED <<pending, workQ, timer, poll, submits, history>>

\* Mutated: the pending bit is left for the end of the handler.
HandlerPending ==
  /\ Go("got", "handler")
  /\ owed' = owed \ {item}
  /\ UNCHANGED <<queue, after, pending, workQ, timer, poll, item, submits, lost,
                 unarmed, count>>

\* The pending bit is tested and cleared, and the handler is called.
Handler ==
  /\ Go("got", IF item \in pending THEN "handler" ELSE "get")
  /\ item' = IF item \in pending THEN item ELSE None
  /\ pending' = pending \ {item}
  /\ owed' = owed \ {item}
  /\ UNCHANGED <<queue, after, workQ, timer, poll, submits, lost, unarmed, count>>

HandlerReturns ==
  /\ Go("handler", "get")
  /\ at[WorkQ] = "idle"
  /\ item' = None
  /\ UNCHANGED <<queue, after, pending, workQ, timer, poll, submits, history>>

Main ==
  \/ QueueGet \/ Register \/ Recheck \/ Wait \/ Clear \/ Take \/ Handler
  \/ HandlerReturns

-----------------------------------------------------------------------------
Next ==
  \/ Main
  \/ \E t \in Callers :
       \/ \E w \in Works \ Delayed : SubmitTest(t, w)
       \/ SubmitPeek(t) \/ SubmitInsert(t)
       \/ \E w \in Delayed : SubmitDelayed(t, w) \/ SubmitNow(t, w) \/ CancelTest(t, w)
       \/ Cancel(t) \/ CancelFails(t)
  \/ \E w \in Delayed : TimerFires(w)

\* Threads are scheduled, handlers return, and timers that run expire.
Fairness ==
  /\ WF_vars(Main)
  /\ \A t \in Callers :
       WF_vars(SubmitPeek(t) \/ SubmitInsert(t) \/ Cancel(t) \/ CancelFails(t))
  /\ \A w \in Delayed : WF_vars(TimerFires(w))

Spec     == Init /\ [][Next]_vars
FairSpec == Spec /\ Fairness
-----------------------------------------------------------------------------
(* Properties *)

\* A work is in the queue once, only delayed works have timers, and the
\* work queue's thread is somewhere in its loop.
BleTypeOK ==
  /\ IsInjective(queue) /\ Range(queue) \subseteq pending
  /\ after \in [Works -> Works \cup {None}] /\ pending \subseteq Works
  /\ workQ \subseteq Delayed /\ timer \subseteq Delayed
  /\ \A b \in {event, ready, wait} : b \in BOOLEAN
  /\ sem \in 0..1
  /\ pc \in {"get", "register", "recheck", "wait", "clear", "take", "got", "handler"}
  /\ item \in Works \cup {None} /\ (item # None <=> pc \in {"got", "handler"})
  /\ at \in [Callers -> {"idle", "peek", "insert", "cancel"}]
  /\ arg \in [Callers -> Works \cup {None}] /\ prev \in [Callers -> Works \cup {None}]
  /\ owed \subseteq Works /\ lost \subseteq Works /\ unarmed \subseteq Delayed
  /\ count \in 0..MaxSubmit

\* t holds a work whose pending bit it has set.
Submits(t) == at[t] \in {"peek", "insert"}

\* "If the work item is already pending ..., this routine has no effect"
\* (zephyr.h:1474): the pending bit of a work that will not be handled would
\* keep it from ever being submitted again.  A pending work is in the queue,
\* about to be put there, or taken from it, unless it was linked behind a work
\* that had left the queue.  A pending delayed work has its work_q, through
\* which k_delayed_work_cancel, which tested it before it took the lock, finds
\* the queue.
PendingIsQueued ==
  /\ \A w \in pending \ lost :
       \/ w \in Range(queue) \/ (pc = "got" /\ item = w)
       \/ \E t \in Callers : Submits(t) /\ arg[t] = w
  /\ pending \cap Delayed \subseteq workQ

\* k_queue_append: "Append an element to the end of a queue" (zephyr.h:797),
\* and "Can be called by ISRs": no work submitted is lost to the queue.
NoneLost == lost = {}

\* The lost wake-up the comment in k_poll is about (poll.c:234): the thread
\* does not wait for the semaphore while there is a work in the queue.
WaitsOnEmpty == pc = "wait" /\ queue # <<>> => sem > 0

\* A handler begins at most once for each submission, and for none after
\* k_delayed_work_cancel returned 0, until the next, wherever the work queue's
\* thread, the timer and other threads are between the call's test of work_q
\* and its lock.  It says no more: zephyr.h:1650-1665 has the call return 0 only
\* before the work was processed and -EALREADY afterwards, but the code returns
\* 0 then, too, and never -EALREADY.  A 0 does not mean that the handler does
\* not run at that moment, or has not run.
RunsOnlyOwed == [][pc = "got" /\ pc' = "handler" => item \in owed]_vars

\* Every work submitted is handled or cancelled, and can be submitted again,
\* unless it is lost or its timer could not be armed.
WorkIsDone ==
  \A w \in Works : w \in owed ~> w \notin owed \/ w \in lost \cup unarmed
=============================================================================
