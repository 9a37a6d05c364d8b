------------------------------ MODULE SysCtrl ------------------------------
(***************************************************************************)
(* System control: a bounded queue of events, a looper thread that takes   *)
(* them one by one, and a publisher that triggers the observers of each.   *)
(* Other threads send events and attach and detach observers at any time;  *)
(* handlers and triggers run in the looper and may do the same, or call    *)
(* the network task, which sends events itself, and wait for it.           *)
(*                                                                         *)
(* The publisher's lock is held for the whole of a notification, so other  *)
(* threads attach and detach between notifications only; the looper, whose *)
(* lock is recursive, does so within them.                                 *)
(***************************************************************************)
EXTENDS Lists

CONSTANTS
  Observers,
  Events,
  Handler,   \* the event of sys_handler_send, CTRL_MSG_TYPE_HANDLER
  Watches,   \* the events an observer's type and subtype match (compare)
  Apps,      \* the application's threads
  Net,       \* the network task
  Looper,    \* the thread of main_looper
  None,      \* no observer, or no thread
  QueueLen,  \* PRJCONF_SYS_CTRL_QUEUE_LEN
  MaxSent    \* bound: the events sent

ASSUME SysAssumption ==
  /\ Watches \in [Observers -> SUBSET Events] /\ Handler \in Events
  /\ QueueLen \in Nat \ {0} /\ MaxSent \in Nat
  /\ None \notin Observers \cup Apps \cup {Net, Looper}
  /\ Net \notin Apps /\ Looper \notin Apps \cup {Net}

VARIABLES
  list,     \* publisher_base::head
  state,    \* observer_base::state
  queue,    \* the events sent, each with who waits for its end
  msg,      \* the event the looper handles
  pc,       \* where main_looper is
  cursor,   \* notify: itor, in either loop
  at,       \* what a thread waits for: "room", "finish", "callee" or nothing
  out,      \* the event a thread waits to send
  patient,  \* its wait_ms is OS_WAIT_FOREVER
  sent,     \* events sent, for the bound
  (* history *)
  asked,    \* what the application asked for an observer and was told it has
  due,      \* observers still to be told of msg
  told,     \* observers told of msg
  odd       \* observers detached in a trigger while not attached, or detached
            \* in their own trigger and touched again there

publisher == <<list, state, asked, odd>>
looper    == <<msg, pc, cursor, due, told>>
senders   == <<queue, at, out, patient, sent>>
vars      == <<publisher, looper, senders>>

Threads == Apps \cup {Net, Looper}
Modes   == {"attached", "once"}
NoMsg   == [event |-> None, from |-> None]

Init ==
  /\ list = <<>> /\ state = [o \in Observers |-> "idle"]
  /\ queue = <<>> /\ msg = NoMsg /\ pc = "recv" /\ cursor = 1
  /\ at = [t \in Threads |-> "-"] /\ out = [t \in Threads |-> NoMsg]
  /\ patient = [t \in Threads |-> FALSE] /\ sent = 0
  /\ asked = [o \in Observers |-> "no"] /\ due = {} /\ told = {} /\ odd = {}

\* base->state == PUBLISHER_WORKING: the looper holds the lock.
Working == pc \in {"walk", "trigger", "sweep"}

Linked(o) == o \in Range(list)

\* The observer whose trigger runs.
Current == IF pc = "trigger" THEN list[cursor] ELSE None

\* t runs code of the application, or of the network stack.
Runs(t) == at[t] = "-" /\ (t = Looper => pc \in {"execute", "trigger"})

\* t gets the publisher's lock.
CanLock(t) == Runs(t) /\ (t = Looper \/ ~Working)

-----------------------------------------------------------------------------
(* __attach, detach: sys_ctrl_attach, sys_ctrl_touch, sys_ctrl_detach *)

Attached(o, m) ==
  /\ state' = [state EXCEPT ![o] = m]
  /\ asked' = [asked EXCEPT ![o] = m]

\* An observer marked as detached is still linked.
AttachMarked(t, o, m) ==
  /\ CanLock(t) /\ state[o] = "detached"
  /\ Attached(o, m)
  /\ odd' = IF o = Current /\ m = "once" THEN odd \cup {o} ELSE odd
  /\ UNCHANGED <<list, looper, senders>>

\* Mutated: one attached already is linked again.
AttachNewUnchecked(t, o, m) ==
  /\ CanLock(t) /\ state[o] # "detached"
  /\ list' = Append(list, o)
  /\ Attached(o, m)
  /\ odd' = odd \ {o}
  /\ UNCHANGED <<looper, senders>>

\* One attached already is refused, which changes nothing.
AttachNew(t, o, m) ==
  /\ CanLock(t) /\ state[o] # "detached" /\ ~Linked(o)
  /\ list' = Append(list, o)
  /\ Attached(o, m)
  /\ odd' = odd \ {o}
  /\ UNCHANGED <<looper, senders>>

Detached(o) ==
  /\ asked' = [asked EXCEPT ![o] = "no"]
  /\ due' = due \ {o}
  /\ UNCHANGED <<msg, pc, cursor, told>>

DetachIdle(t, o) ==
  /\ CanLock(t) /\ ~Working
  /\ list' = Without(list, o)
  /\ state' = [state EXCEPT ![o] = "idle"]
  /\ Detached(o)
  /\ odd' = odd \ {o}
  /\ UNCHANGED senders

\* Mutated: an observer detached in a trigger is unlinked at once.
DetachWorkingAtOnce(t, o) ==
  /\ CanLock(t) /\ Working
  /\ list' = Without(list, o)
  /\ state' = [state EXCEPT ![o] = "idle"]
  /\ Detached(o)
  /\ odd' = odd \ {o}
  /\ UNCHANGED senders

\* Within a notification the observer is only marked.
DetachWorking(t, o) ==
  /\ CanLock(t) /\ Working
  /\ state' = [state EXCEPT ![o] = "detached"]
  /\ odd' = IF Linked(o) THEN odd \ {o} ELSE odd \cup {o}
  /\ Detached(o)
  /\ UNCHANGED <<list, senders>>

-----------------------------------------------------------------------------
(* sys_event_send, sys_handler_send, sys_handler_send_wait_finish *)

\* A message from t, which waits for its end if sync.
Message(t, e, sync) == [event |-> e, from |-> IF sync THEN t ELSE None]

\* OS_QueueSend with room in the queue.
Put(t, m) ==
  /\ Len(queue) < QueueLen
  /\ queue' = Append(queue, m)
  /\ at' = [at EXCEPT ![t] = IF m.from = t THEN "finish" ELSE "-"]

Send(t, e, sync) ==
  /\ Runs(t) /\ sent < MaxSent
  /\ Put(t, Message(t, e, sync))
  /\ sent' = sent + 1
  /\ UNCHANGED <<out, patient, publisher, looper>>

\* The queue is full: with wait_ms 0 the event is dropped.
SendBlocks(t, e, sync, forever) ==
  /\ Runs(t) /\ sent < MaxSent
  /\ Len(queue) = QueueLen
  /\ at' = [at EXCEPT ![t] = "room"]
  /\ out' = [out EXCEPT ![t] = Message(t, e, sync)]
  /\ patient' = [patient EXCEPT ![t] = forever]
  /\ sent' = sent + 1
  /\ UNCHANGED <<queue, publisher, looper>>

Room(t) ==
  /\ at[t] = "room"
  /\ Put(t, out[t])
  /\ out' = [out EXCEPT ![t] = NoMsg] /\ patient' = [patient EXCEPT ![t] = FALSE]
  /\ UNCHANGED <<sent, publisher, looper>>

\* Mutated: sys_event_handler_send_wait_finish waits although it sent nothing.
SendTimesOutWaiting(t) ==
  /\ at[t] = "room" /\ ~patient[t]
  /\ at' = [at EXCEPT ![t] = IF out[t].from = t THEN "finish" ELSE "-"]
  /\ out' = [out EXCEPT ![t] = NoMsg]
  /\ UNCHANGED <<queue, patient, sent, publisher, looper>>

SendTimesOut(t) ==
  /\ at[t] = "room" /\ ~patient[t]
  /\ at' = [at EXCEPT ![t] = "-"]
  /\ out' = [out EXCEPT ![t] = NoMsg]
  /\ UNCHANGED <<queue, patient, sent, publisher, looper>>

-----------------------------------------------------------------------------
(* main_looper *)

Go(from, to) == pc = from /\ pc' = to

Recv ==
  /\ pc = "recv" /\ queue # <<>>
  /\ msg' = Head(queue) /\ queue' = Tail(queue)
  /\ pc' = IF Head(queue).event = Handler THEN "execute" ELSE "notify"
  /\ UNCHANGED <<cursor, due, told, at, out, patient, sent, publisher>>

\* msg->execute(msg) returns.
Executed ==
  /\ Go("execute", "notify") /\ at[Looper] = "-"
  /\ UNCHANGED <<msg, cursor, due, told, senders, publisher>>

Notify ==
  /\ Go("notify", "walk")
  /\ cursor' = 1
  /\ due' = {o \in Observers : asked[o] # "no" /\ msg.event \in Watches[o]}
  /\ told' = {}
  /\ UNCHANGED <<msg, senders, publisher>>

\* Mutated: an observer marked as detached is triggered.
SeesMarked(o) ==
  msg.event \in Watches[o] /\ state[o] \in Modes \cup {"detached"}

\* Mutated: an observer attached once is not triggered.
SeesPermanent(o) == msg.event \in Watches[o] /\ state[o] = "attached"

Sees(o) == msg.event \in Watches[o] /\ state[o] \in Modes

\* Mutated: the walk stays at an observer that is not triggered.
PassStays ==
  /\ pc = "walk" /\ cursor <= Len(list) /\ ~Sees(list[cursor])
  /\ cursor' = cursor
  /\ UNCHANGED <<msg, pc, due, told, senders, publisher>>

Pass ==
  /\ pc = "walk" /\ cursor <= Len(list) /\ ~Sees(list[cursor])
  /\ cursor' = cursor + 1
  /\ UNCHANGED <<msg, pc, due, told, senders, publisher>>

\* obs->trigger is called.  For an observer attached once that is it.
Trigger ==
  LET o == list[cursor]
  IN  /\ pc = "walk" /\ cursor <= Len(list) /\ Sees(o)
      /\ pc' = "trigger"
      /\ due' = due \ {o} /\ told' = told \cup {o}
      /\ asked' = [asked EXCEPT ![o] = IF @ = "once" THEN "no" ELSE @]
      /\ UNCHANGED <<msg, cursor, list, state, odd, senders>>

\* Mutated: an observer attached once stays attached.
TriggeredForGood ==
  /\ Go("trigger", "walk") /\ at[Looper] = "-"
  /\ cursor' = cursor + 1
  /\ UNCHANGED <<msg, due, told, publisher, senders>>

\* It returns.  An observer still attached once is detached.
Triggered ==
  /\ Go("trigger", "walk") /\ at[Looper] = "-"
  /\ state' = [state EXCEPT ![list[cursor]] = IF @ = "once" THEN "detached" ELSE @]
  /\ cursor' = cursor + 1
  /\ UNCHANGED <<msg, due, told, list, asked, odd, senders>>

\* Behind the last observer those marked as detached are looked for.
WalkEnds ==
  /\ Go("walk", "sweep") /\ cursor > Len(list)
  /\ cursor' = 1
  /\ UNCHANGED <<msg, due, told, senders, publisher>>

Keep ==
  /\ pc = "sweep" /\ cursor <= Len(list) /\ state[list[cursor]] # "detached"
  /\ cursor' = cursor + 1
  /\ UNCHANGED <<msg, pc, due, told, senders, publisher>>

\* One marked is unlinked; safe, the next one, takes its place.
Unlink ==
  LET o == list[cursor]
  IN  /\ pc = "sweep" /\ cursor <= Len(list) /\ state[o] = "detached"
      /\ list' = Without(list, o)
      /\ state' = [state EXCEPT ![o] = "idle"]
      /\ UNCHANGED <<asked, odd, looper, senders>>

\* The lock is given back.
NotifyEnds ==
  /\ Go("sweep", "finish") /\ cursor > Len(list)
  /\ cursor' = 1
  /\ UNCHANGED <<msg, due, told, senders, publisher>>

\* msg->destruct(msg), sys_handler_finish: the sender's semaphore is released.
Finish ==
  /\ Go("finish", "recv")
  /\ at' = [t \in Threads |-> IF t = msg.from THEN "-" ELSE at[t]]
  /\ msg' = NoMsg /\ due' = {} /\ told' = {}
  /\ UNCHANGED <<cursor, queue, out, patient, sent, publisher>>

-----------------------------------------------------------------------------
(* net_ctrl_msg_process, in a trigger, calls the network task and waits; its *)
(* netif_status_callback sends the event that the network is up or down.     *)

NetCall ==
  /\ pc = "trigger" /\ at[Looper] = "-" /\ at[Net] = "-"
  /\ at' = [at EXCEPT ![Looper] = "callee"]
  /\ UNCHANGED <<queue, out, patient, sent, publisher, looper>>

NetReturn ==
  /\ at[Looper] = "callee" /\ at[Net] = "-"
  /\ at' = [at EXCEPT ![Looper] = "-"]
  /\ UNCHANGED <<queue, out, patient, sent, publisher, looper>>

\* The network task waits as long as it takes and never for the end.
Sends(t) ==
  \E e \in Events, sync, forever \in BOOLEAN :
    /\ sync => e = Handler
    /\ t = Net => e # Handler /\ forever
    /\ Send(t, e, sync) \/ SendBlocks(t, e, sync, forever)

LooperStep ==
  \/ Recv \/ Executed \/ Notify \/ Pass \/ Trigger \/ Triggered
  \/ WalkEnds \/ Keep \/ Unlink \/ NotifyEnds \/ Finish \/ NetReturn

Next ==
  \/ \E t \in Apps \cup {Looper}, o \in Observers :
       \/ \E m \in Modes : AttachMarked(t, o, m) \/ AttachNew(t, o, m)
       \/ DetachIdle(t, o) \/ DetachWorking(t, o)
  \/ \E t \in Threads : Sends(t) \/ Room(t) \/ SendTimesOut(t)
  \/ NetCall
  \/ LooperStep

\* Handlers and triggers return, the looper is scheduled, and a thread that
\* waits for room gets it when there is some.
Fairness ==
  /\ WF_vars(LooperStep) /\ SF_vars(Executed \/ Triggered)
  /\ \A t \in Threads : SF_vars(Room(t)) /\ WF_vars(SendTimesOut(t))

Spec     == Init /\ [][Next]_vars
FairSpec == Spec /\ Fairness
-----------------------------------------------------------------------------
(* Properties *)

SysTypeOK ==
  /\ list \in Seq(Observers) /\ state \in [Observers -> Modes \cup {"idle", "detached"}]
  /\ Len(queue) <= QueueLen
  /\ pc \in {"recv", "execute", "notify", "walk", "trigger", "sweep", "finish"}
  /\ cursor \in Nat \ {0} /\ (pc = "trigger" => cursor <= Len(list))
  /\ at \in [Threads -> {"-", "room", "finish", "callee"}]
  /\ asked \in [Observers -> Modes \cup {"no"}]
  /\ due \subseteq Observers /\ told \subseteq Observers /\ odd \subseteq Observers

\* sys_ctrl_attach and sys_ctrl_touch: an observer for which they returned 0
\* is linked and observes until it is detached or, if touched, triggered; no
\* other does.  Not one that was detached in a trigger while it was not
\* attached, or that detached itself in its trigger and was touched again,
\* until it is linked anew or detached.
ObservesAsAsked ==
  \A o \in Observers \ (odd \cup {Current}) :
    /\ asked[o] # "no" => Linked(o) /\ state[o] = asked[o]
    /\ asked[o] = "no" => state[o] \notin Modes

\* A walk ends when every observer that was attached when it began and was not
\* detached since has been told, but for the two kinds that ObservesAsAsked
\* leaves out; and no observer at all is told twice in one notification,
\* however the triggers detach, attach and touch observers.
EveryObserverTold ==
  [][/\ pc = "walk" /\ pc' = "sweep" => due \subseteq odd
     /\ pc # "trigger" /\ pc' = "trigger" => list[cursor] \notin told]_vars

\* No observer is triggered after sys_ctrl_detach returned for it, nor one
\* that was touched a second time.
NoneToldUnasked ==
  [][pc # "trigger" /\ pc' = "trigger" => asked[list[cursor]] # "no"]_vars

\* An observer that observer_destroy would free is not on the list, nor on it
\* twice, nor in its trigger, whoever detached it and when.
FreeUnlinked ==
  /\ IsInjective(list)
  /\ \A o \in Observers : state[o] = "idle" => ~Linked(o) /\ o # Current

\* The semaphore on the stack of sys_event_handler_send_wait_finish is there
\* when sys_handler_finish releases it: a message names it only while its
\* sender waits, and a sender waits only while a message names it.
FinishHasWaiter ==
  \A t \in Threads :
    at[t] = "finish" <=> \/ \E i \in 1 .. Len(queue) : queue[i].from = t
                         \/ msg.from = t

\* The looper waits for room in its own queue, for the end of a message only
\* it can handle, or for a network task that waits for room.
Jam ==
  \/ at[Looper] \in {"room", "finish"}
  \/ at[Looper] = "callee" /\ at[Net] = "room"

\* What was sent is handled and its senders go on, but for a jam.
SentIsServed ==
  (queue # <<>> \/ \E t \in Threads : at[t] \in {"room", "finish"})
    ~> \/ queue = <<>> /\ \A t \in Threads : at[t] \notin {"room", "finish"}
       \/ Jam
=============================================================================
