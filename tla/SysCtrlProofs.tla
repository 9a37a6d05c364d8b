--------------------------- MODULE SysCtrlProofs ---------------------------
(***************************************************************************)
(* Whose semaphore sys_handler_finish releases, and which observers a      *)
(* notification tells, for any threads, events, observers and lengths of   *)
(* the queue.                                                              *)
(***************************************************************************)
EXTENDS SysCtrl, ListLemmas

(* The events sent, and who waits for them *)

Messages == [event : Events \cup {None}, from : Threads \cup {None}]

\* The events on their way; a thread only ever sends for itself or nobody.
MInv ==
  /\ queue \in Seq(Messages) /\ msg \in Messages
  /\ at \in [Threads -> {"-", "room", "finish", "callee"}]
  /\ out \in [Threads -> Messages]
  /\ \A t \in Threads : out[t].from \in {None, t}
  /\ pc = "recv" => msg.from = None

\* A thread waits for one event at most: it is in the queue once, or handled.
OnceInv ==
  /\ \A i, j \in 1 .. Len(queue) :
       queue[i].from # None /\ queue[i].from = queue[j].from => i = j
  /\ \A i \in 1 .. Len(queue) : msg.from # None => queue[i].from # msg.from

WInv == MInv /\ OnceInv /\ FinishHasWaiter

LEMMA NoneIsNoThread == None \notin Threads
BY SysAssumption DEF Threads

LEMMA InitWInv == Init => WInv
<1> SUFFICES ASSUME Init PROVE WInv
  OBVIOUS
<1>1. queue = <<>> /\ Len(queue) = 0 /\ msg = NoMsg /\ NoMsg \in Messages
  BY DEF Init, NoMsg, Messages
<1>2. MInv
  BY <1>1 DEF Init, MInv, NoMsg
<1>3. OnceInv
  BY <1>1 DEF OnceInv
<1>4. FinishHasWaiter
  BY <1>1, NoneIsNoThread DEF Init, FinishHasWaiter, NoMsg
<1> QED BY <1>2, <1>3, <1>4 DEF WInv

-----------------------------------------------------------------------------
\* An event is put in the queue by a thread that waits for no other.
LEMMA PutStep ==
  ASSUME WInv, NEW t \in Threads, at[t] # "finish", NEW m \in Messages,
         m.from \in {None, t}, Put(t, m), UNCHANGED <<msg, pc>>,
         out' \in [Threads -> Messages], \A u \in Threads : out'[u].from \in {None, u}
  PROVE  WInv'
<1>1. Len(queue) \in Nat /\ queue \in Seq(Messages)
  BY DEF WInv, MInv
<1>2. /\ queue' \in Seq(Messages) /\ Len(queue') = Len(queue) + 1
      /\ \A i \in 1 .. Len(queue) : queue'[i] = queue[i]
      /\ queue'[Len(queue) + 1] = m
  BY <1>1, AppendProperties DEF Put
<1>3. at' = [at EXCEPT ![t] = IF m.from = t THEN "finish" ELSE "-"]
  BY DEF Put
<1>4. \A i \in 1 .. Len(queue) : queue[i].from # t
  BY DEF WInv, FinishHasWaiter
<1>5. msg.from # t
  BY DEF WInv, FinishHasWaiter
<1>6. MInv'
  BY <1>2, <1>3 DEF WInv, MInv
<1>7. OnceInv'
  BY <1>1, <1>2, <1>4, <1>5 DEF WInv, OnceInv
<1>8. FinishHasWaiter'
  <2> SUFFICES ASSUME NEW u \in Threads
               PROVE  at'[u] = "finish" <=> \/ \E i \in 1 .. Len(queue') : queue'[i].from = u
                                            \/ msg.from = u
    BY DEF FinishHasWaiter
  <2>1. (\E i \in 1 .. Len(queue') : queue'[i].from = u)
          <=> (\E i \in 1 .. Len(queue) : queue[i].from = u) \/ m.from = u
    BY <1>1, <1>2
  <2>2. CASE u = t
    BY <1>3, <1>4, <1>5, <2>1, <2>2 DEF WInv, MInv
  <2>3. CASE u # t
    <3>1. at'[u] = at[u] /\ m.from # u
      BY <1>3, <2>3, NoneIsNoThread DEF WInv, MInv
    <3> QED BY <2>1, <3>1 DEF WInv, FinishHasWaiter
  <2> QED BY <2>2, <2>3
<1> QED BY <1>6, <1>7, <1>8 DEF WInv

\* What a thread waits for changes, but not whether it waits for an end.
LEMMA WaitStep ==
  ASSUME WInv, UNCHANGED <<queue, msg, pc>>, NEW t \in Threads, at[t] # "finish",
         NEW what \in {"-", "room", "callee"}, at' = [at EXCEPT ![t] = what],
         out' \in [Threads -> Messages], \A u \in Threads : out'[u].from \in {None, u}
  PROVE  WInv'
<1>1. MInv'
  BY DEF WInv, MInv
<1>2. OnceInv'
  BY DEF WInv, OnceInv
<1>3. FinishHasWaiter'
  <2>1. \A u \in Threads : at'[u] = "finish" <=> at[u] = "finish"
    BY DEF WInv, MInv
  <2> QED BY <2>1 DEF WInv, FinishHasWaiter
<1> QED BY <1>1, <1>2, <1>3 DEF WInv

LEMMA SenderStep ==
  ASSUME WInv, NEW t \in Threads, Sends(t) \/ Room(t) \/ SendTimesOut(t)
  PROVE  WInv'
<1>o. out \in [Threads -> Messages] /\ \A u \in Threads : out[u].from \in {None, u}
  BY DEF WInv, MInv
<1>n. NoMsg \in Messages /\ NoMsg.from = None
  BY DEF NoMsg, Messages
<1>1. ASSUME NEW e \in Events, NEW sync \in BOOLEAN, NEW forever \in BOOLEAN,
             Send(t, e, sync) \/ SendBlocks(t, e, sync, forever)
      PROVE  WInv'
  <2> DEFINE m == Message(t, e, sync)
  <2>1. m \in Messages /\ m.from \in {None, t}
    BY DEF Message, Messages
  <2>2. at[t] # "finish"
    BY <1>1 DEF Send, SendBlocks, Runs
  <2> HIDE DEF m
  <2>3. CASE Send(t, e, sync)
    <3>1. Put(t, m) /\ UNCHANGED <<msg, pc, out>>
      BY <2>3 DEF Send, looper, m
    <3> QED BY <1>o, <2>1, <2>2, <3>1, PutStep
  <2>4. CASE SendBlocks(t, e, sync, forever)
    <3>1. /\ at' = [at EXCEPT ![t] = "room"] /\ out' = [out EXCEPT ![t] = m]
          /\ UNCHANGED <<queue, msg, pc>>
      BY <2>4 DEF SendBlocks, looper, m
    <3>2. out' \in [Threads -> Messages] /\ \A u \in Threads : out'[u].from \in {None, u}
      BY <1>o, <2>1, <3>1
    <3> QED BY <2>2, <3>1, <3>2, WaitStep
  <2> QED BY <1>1, <2>3, <2>4
<1>2. CASE Room(t)
  <2>1. /\ at[t] # "finish" /\ Put(t, out[t]) /\ out' = [out EXCEPT ![t] = NoMsg]
        /\ UNCHANGED <<msg, pc>>
    BY <1>2 DEF Room, looper
  <2>2. out' \in [Threads -> Messages] /\ \A u \in Threads : out'[u].from \in {None, u}
    BY <1>o, <1>n, <2>1
  <2> QED BY <1>o, <2>1, <2>2, PutStep
<1>3. CASE SendTimesOut(t)
  <2>1. /\ at[t] # "finish" /\ at' = [at EXCEPT ![t] = "-"]
        /\ out' = [out EXCEPT ![t] = NoMsg] /\ UNCHANGED <<queue, msg, pc>>
    BY <1>3 DEF SendTimesOut, looper
  <2>2. out' \in [Threads -> Messages] /\ \A u \in Threads : out'[u].from \in {None, u}
    BY <1>o, <1>n, <2>1
  <2> QED BY <2>1, <2>2, WaitStep
<1> QED BY <1>1, <1>2, <1>3 DEF Sends

-----------------------------------------------------------------------------
\* The looper takes an event, and the thread that waits with it.
LEMMA RecvStep == WInv /\ Recv => WInv'
<1> SUFFICES ASSUME WInv, Recv PROVE WInv'
  OBVIOUS
<1>1. /\ queue # <<>> /\ msg' = Head(queue) /\ queue' = Tail(queue)
      /\ pc' # "recv" /\ UNCHANGED <<at, out>> /\ msg.from = None
  BY DEF Recv, WInv, MInv
<1>2. /\ Len(queue) \in Nat /\ Len(queue) > 0 /\ Head(queue) = queue[1]
      /\ queue' \in Seq(Messages) /\ Len(queue') = Len(queue) - 1
      /\ \A i \in 1 .. Len(queue') : queue'[i] = queue[i + 1]
  BY <1>1, HeadTailProperties DEF WInv, MInv
<1>3. msg' \in Messages
  BY <1>1, <1>2 DEF WInv, MInv
<1>4. MInv'
  BY <1>1, <1>2, <1>3 DEF WInv, MInv
<1>5. OnceInv'
  <2>1. \A i \in 1 .. Len(queue') : i + 1 \in 1 .. Len(queue) /\ i + 1 # 1
    BY <1>2
  <2> QED BY <1>1, <1>2, <2>1 DEF WInv, OnceInv
<1>6. FinishHasWaiter'
  <2> SUFFICES ASSUME NEW t \in Threads
               PROVE  at[t] = "finish" <=> \/ \E i \in 1 .. Len(queue') : queue'[i].from = t
                                           \/ msg'.from = t
    BY <1>1 DEF FinishHasWaiter
  <2>1. (\E i \in 1 .. Len(queue) : queue[i].from = t)
          <=> (\E i \in 1 .. Len(queue') : queue'[i].from = t) \/ msg'.from = t
    <3>1. ASSUME NEW i \in 1 .. Len(queue), queue[i].from = t
          PROVE  (\E j \in 1 .. Len(queue') : queue'[j].from = t) \/ msg'.from = t
      <4>1. CASE i = 1
        BY <1>1, <1>2, <3>1, <4>1
      <4>2. CASE i # 1
        <5>1. i - 1 \in 1 .. Len(queue') /\ queue'[i - 1] = queue[i]
          BY <1>2, <4>2
        <5> QED BY <3>1, <5>1
      <4> QED BY <4>1, <4>2
    <3>2. ASSUME NEW j \in 1 .. Len(queue'), queue'[j].from = t
          PROVE  \E i \in 1 .. Len(queue) : queue[i].from = t
      <4>1. j + 1 \in 1 .. Len(queue) /\ queue[j + 1] = queue'[j]
        BY <1>2
      <4> QED BY <3>2, <4>1
    <3>3. 1 \in 1 .. Len(queue) /\ msg' = queue[1]
      BY <1>1, <1>2
    <3> QED BY <3>1, <3>2, <3>3
  <2>2. msg.from # t
    BY <1>1, NoneIsNoThread
  <2> QED BY <2>1, <2>2 DEF WInv, FinishHasWaiter
<1> QED BY <1>4, <1>5, <1>6 DEF WInv

\* The event's sender, and no other thread, goes on.
LEMMA FinishStep == WInv /\ Finish => WInv'
<1> SUFFICES ASSUME WInv, Finish PROVE WInv'
  OBVIOUS
<1>1. /\ at' = [t \in Threads |-> IF t = msg.from THEN "-" ELSE at[t]]
      /\ msg' = NoMsg /\ UNCHANGED <<queue, out>>
  BY DEF Finish
<1>2. NoMsg \in Messages /\ NoMsg.from = None
  BY DEF NoMsg, Messages
<1>3. MInv'
  BY <1>1, <1>2 DEF WInv, MInv
<1>4. OnceInv'
  BY <1>1, <1>2 DEF WInv, OnceInv
<1>5. FinishHasWaiter'
  <2> SUFFICES ASSUME NEW t \in Threads
               PROVE  at'[t] = "finish" <=> \E i \in 1 .. Len(queue) : queue[i].from = t
    BY <1>1, <1>2, NoneIsNoThread DEF FinishHasWaiter
  <2>1. CASE t = msg.from
    BY <1>1, <2>1, NoneIsNoThread DEF WInv, OnceInv
  <2>2. CASE t # msg.from
    BY <1>1, <2>2 DEF WInv, FinishHasWaiter
  <2> QED BY <2>1, <2>2
<1> QED BY <1>3, <1>4, <1>5 DEF WInv

\* Steps that touch neither the queue nor who waits.
LEMMA QuietStep ==
  ASSUME WInv, UNCHANGED <<queue, msg, at, out>>, pc' = "recv" => pc = "recv"
  PROVE  WInv'
BY DEF WInv, MInv, OnceInv, FinishHasWaiter

LEMMA NextWInv == WInv /\ [Next]_vars => WInv'
<1> SUFFICES ASSUME WInv, [Next]_vars PROVE WInv'
  OBVIOUS
<1>1. ASSUME NEW t \in Apps \cup {Looper}, NEW o \in Observers,
             \/ \E m \in Modes : AttachMarked(t, o, m) \/ AttachNew(t, o, m)
             \/ DetachIdle(t, o) \/ DetachWorking(t, o)
      PROVE  WInv'
  <2>1. UNCHANGED <<queue, msg, at, out, pc>>
    BY <1>1 DEF AttachMarked, AttachNew, DetachIdle, DetachWorking, Detached, looper,
                senders
  <2> QED BY <2>1, QuietStep
<1>2. ASSUME NEW t \in Threads, Sends(t) \/ Room(t) \/ SendTimesOut(t)
      PROVE  WInv'
  BY <1>2, SenderStep
<1>3. CASE NetCall \/ NetReturn
  <2>1. PICK what \in {"-", "callee"} : at' = [at EXCEPT ![Looper] = what]
    BY <1>3 DEF NetCall, NetReturn
  <2>2. at[Looper] # "finish" /\ UNCHANGED <<queue, msg, pc, out>>
    BY <1>3 DEF NetCall, NetReturn, looper
  <2>3. Looper \in Threads /\ what \in {"-", "room", "callee"}
    BY <2>1 DEF Threads
  <2>4. out' \in [Threads -> Messages] /\ \A u \in Threads : out'[u].from \in {None, u}
    BY <2>2 DEF WInv, MInv
  <2> QED BY <2>1, <2>2, <2>3, <2>4, WaitStep
<1>4. CASE \/ Executed \/ Notify \/ Pass \/ Trigger \/ Triggered
           \/ WalkEnds \/ Keep \/ Unlink \/ NotifyEnds
  <2>1. UNCHANGED <<queue, msg, at, out>> /\ (pc' = "recv" => pc = "recv")
    BY <1>4 DEF Executed, Notify, Pass, Trigger, Triggered, WalkEnds, Keep, Unlink,
                NotifyEnds, Go, senders, looper
  <2> QED BY <2>1, QuietStep
<1>5. CASE UNCHANGED vars
  BY <1>5, QuietStep DEF vars, looper, senders
<1> QED
  BY <1>1, <1>2, <1>3, <1>4, <1>5, RecvStep, FinishStep DEF Next, LooperStep

\* The semaphore sys_handler_finish releases lies on the stack of a thread
\* that still waits for it, and no thread waits for an event that is neither
\* in the queue nor handled, whoever sends, times out or blocks meanwhile.
THEOREM FinishHasWaiterAlways == Spec => []FinishHasWaiter
<1>1. WInv => FinishHasWaiter
  BY DEF WInv
<1> QED BY InitWInv, NextWInv, <1>1, PTL DEF Spec

-----------------------------------------------------------------------------
(* The list of observers *)

\* SysTypeOK without the list, the queue and what the threads wait for.
TInv ==
  /\ state \in [Observers -> Modes \cup {"idle", "detached"}]
  /\ asked \in [Observers -> Modes \cup {"no"}]
  /\ pc \in {"recv", "execute", "notify", "walk", "trigger", "sweep", "finish"}
  /\ cursor \in Nat \ {0} /\ (pc = "trigger" => cursor <= Len(list))
  /\ due \subseteq Observers /\ told \subseteq Observers /\ odd \subseteq Observers

\* An observer is on the list once.  One marked as detached is there for the
\* rest of a notification, and behind the sweep for no longer.
ListInv ==
  /\ OnceIn(Observers, list)
  /\ \A o \in Range(list) : state[o] # "idle"
  /\ ~Working => \A o \in Range(list) : state[o] \in Modes
  /\ pc = "sweep" => \A i \in 1 .. Len(list) :
                       i < cursor => state[list[i]] \in Modes

\* An observer observes as it was last asked to; one attached once is told so
\* before it is marked, and is marked when its trigger returns.  What is odd
\* of one observer is nothing to the others.
AskInv ==
  /\ \A o \in Observers : state[o] = "attached" => asked[o] = "attached"
  /\ \A o \in Observers : state[o] = "once" =>
       asked[o] = "once" \/ (asked[o] = "no" /\ o = Current)
  /\ \A o \in Observers \ odd :
       /\ asked[o] # "no" => Linked(o) /\ state[o] = asked[o]
       /\ state[o] = "detached" => Linked(o)
       /\ o = Current => asked[o] # "once"

\* What the walk still has to tell lies before it, what it has told behind it.
DueInv ==
  pc \in {"walk", "trigger"} =>
    /\ \A o \in due : msg.event \in Watches[o]
    /\ \A o \in due \ odd :
         /\ asked[o] # "no"
         /\ \A i \in 1 .. Len(list) : list[i] = o =>
              i >= cursor /\ (pc = "trigger" => i # cursor)
    /\ \A o \in told : \E i \in 1 .. Len(list) :
         list[i] = o /\ i <= cursor /\ (pc = "walk" => i # cursor)

PInv == TInv /\ ListInv /\ AskInv /\ DueInv /\ Len(queue) <= QueueLen

LEMMA InitPInv == Init => PInv
<1> SUFFICES ASSUME Init PROVE PInv
  OBVIOUS
<1>1. TInv
  BY DEF Init, TInv
<1>2. ListInv
  BY EmptyList DEF Init, ListInv, Working
<1>3. AskInv
  BY DEF Init, AskInv, Modes
<1>4. DueInv
  BY DEF Init, DueInv
<1>5. Len(queue) <= QueueLen
  BY SysAssumption DEF Init
<1> QED BY <1>1, <1>2, <1>3, <1>4, <1>5 DEF PInv

\* The list and the observer whose trigger runs.
LEMMA ListFacts ==
  ASSUME PInv
  PROVE  /\ list \in Seq(Observers) /\ Len(list) \in Nat
         /\ Range(list) \subseteq Observers /\ None \notin Observers
         /\ Range(list) = {list[i] : i \in 1 .. Len(list)}
         /\ \A i, j \in 1 .. Len(list) : list[i] = list[j] => i = j
         /\ IF pc = "trigger"
            THEN cursor \in 1 .. Len(list) /\ Current = list[cursor]
            ELSE Current = None
<1>1. /\ list \in Seq(Observers) /\ Len(list) \in Nat /\ DOMAIN list = 1 .. Len(list)
      /\ Range(list) \subseteq Observers /\ IsInjective(list)
  BY OnceFacts DEF PInv, ListInv, OnceIn
<1>2. Range(list) = {list[i] : i \in 1 .. Len(list)}
  BY <1>1 DEF Range
<1>3. \A i, j \in 1 .. Len(list) : list[i] = list[j] => i = j
  BY <1>1 DEF IsInjective
<1>4. /\ None \notin Observers
      /\ IF pc = "trigger"
         THEN cursor \in 1 .. Len(list) /\ Current = list[cursor]
         ELSE Current = None
  BY <1>1, SysAssumption DEF PInv, TInv, Current
<1> QED BY <1>1, <1>2, <1>3, <1>4

\* Who has the lock is not in the middle of a walk or a sweep.
LEMMA LockPc ==
  ASSUME NEW t, CanLock(t)
  PROVE  pc \notin {"walk", "sweep"}
BY DEF CanLock, Runs, Working

-----------------------------------------------------------------------------
(* Attaching and detaching *)

LEMMA AttachMarkedStep ==
  ASSUME PInv, NEW t, NEW o \in Observers, NEW m \in Modes, AttachMarked(t, o, m)
  PROVE  PInv'
<1> USE DEF AttachMarked, Attached, looper, senders
<1>1. pc \notin {"walk", "sweep"} /\ m \in {"attached", "once"}
  BY LockPc DEF Modes
<1>2. TInv'
  BY <1>1 DEF PInv, TInv, Modes
<1>3. ListInv'
  BY <1>1, ListFacts DEF PInv, TInv, ListInv, Modes, Working
<1>4. Current' = Current
  BY DEF Current
<1>5. AskInv'
  <2>1. /\ state' = [state EXCEPT ![o] = m] /\ asked' = [asked EXCEPT ![o] = m]
        /\ state \in [Observers -> Modes \cup {"idle", "detached"}]
        /\ asked \in [Observers -> Modes \cup {"no"}] /\ state[o] = "detached"
        /\ odd' = IF o = Current /\ m = "once" THEN odd \cup {o} ELSE odd
        /\ list' = list
    BY DEF PInv, TInv
  <2>2. /\ \A q \in Observers : /\ state'[q] = IF q = o THEN m ELSE state[q]
                               /\ asked'[q] = IF q = o THEN m ELSE asked[q]
        /\ AskInv
    BY ONLY PInv, <2>1 DEF PInv
  <2>3. m \in {"attached", "once"}
    BY <1>1
  <2> QED BY ONLY <1>4, <2>1, <2>2, <2>3 DEF AskInv, Linked
<1>6. DueInv'
  <2>1. odd \subseteq odd'
    OBVIOUS
  <2> QED BY <1>1, <2>1 DEF PInv, TInv, DueInv
<1> QED BY <1>2, <1>3, <1>5, <1>6 DEF PInv

LEMMA AttachNewStep ==
  ASSUME PInv, NEW t, NEW o \in Observers, NEW m \in Modes, AttachNew(t, o, m)
  PROVE  PInv'
<1> USE DEF AttachNew, Attached, looper, senders
<1>1. pc \notin {"walk", "sweep"} /\ m \in {"attached", "once"} /\ o \notin Range(list)
  BY LockPc DEF Modes, Linked
<1>2. /\ OnceIn(Observers, list') /\ Range(list') = Range(list) \cup {o}
      /\ Len(list') = Len(list) + 1 /\ Len(list) \in Nat
      /\ \A i \in 1 .. Len(list) : list'[i] = list[i]
      /\ list'[Len(list) + 1] = o
  <2>1. OnceIn(Observers, list) /\ list \in Seq(Observers) /\ Len(list) \in Nat
    BY ListFacts DEF PInv, ListInv
  <2>2. OnceIn(Observers, Append(list, o)) /\ Range(Append(list, o)) = Range(list) \cup {o}
    BY <1>1, <2>1, AppendList
  <2> QED BY <2>1, <2>2, AppendProperties
<1>3. TInv'
  BY <1>1, <1>2 DEF PInv, TInv, Modes
<1>4. ListInv'
  BY <1>1, <1>2, ListFacts DEF PInv, TInv, ListInv, Modes, Working
<1>5. Current' = Current /\ (pc = "trigger" => Current \in Range(list))
  BY <1>2, ListFacts DEF Current
<1>6. AskInv'
  <2>1. /\ state' = [state EXCEPT ![o] = m] /\ asked' = [asked EXCEPT ![o] = m]
        /\ state \in [Observers -> Modes \cup {"idle", "detached"}]
        /\ asked \in [Observers -> Modes \cup {"no"}] /\ odd' = odd \ {o} /\ o # Current
    BY <1>1, <1>5, ListFacts DEF PInv, TInv
  <2> QED BY <1>1, <1>2, <1>5, <2>1 DEF PInv, AskInv, Linked
<1>7. DueInv'
  <2> SUFFICES ASSUME pc = "trigger" PROVE DueInv'
    BY <1>1 DEF DueInv
  <2>1. /\ cursor \in 1 .. Len(list) /\ UNCHANGED <<pc, cursor, due, told, msg>>
        /\ odd' = odd \ {o} /\ asked' = [asked EXCEPT ![o] = m]
        /\ asked \in [Observers -> Modes \cup {"no"}]
    BY ListFacts DEF PInv, TInv
  <2>2. ASSUME NEW p \in due \ odd', NEW i \in 1 .. Len(list'), list'[i] = p
        PROVE  i >= cursor /\ i # cursor
    <3>1. CASE i = Len(list) + 1
      BY <1>2, <2>1, <3>1
    <3>2. CASE i # Len(list) + 1
      <4>1. i \in 1 .. Len(list) /\ list[i] = p
        BY <1>2, <2>2, <3>2
      <4>2. p \in due \ odd
        BY <1>1, <2>1, <4>1, ListFacts
      <4> QED BY <4>1, <4>2 DEF PInv, DueInv
    <3> QED BY <3>1, <3>2
  <2>3. \A p \in due \ odd' : asked'[p] # "no"
    BY <1>1, <2>1 DEF PInv, TInv, DueInv
  <2>4. \A p \in told : \E i \in 1 .. Len(list') : list'[i] = p /\ i <= cursor
    BY <1>2 DEF PInv, DueInv
  <2> QED BY <2>1, <2>2, <2>3, <2>4 DEF PInv, DueInv
<1> QED BY <1>3, <1>4, <1>6, <1>7 DEF PInv

LEMMA DetachIdleStep ==
  ASSUME PInv, NEW t, NEW o \in Observers, DetachIdle(t, o)
  PROVE  PInv'
<1> USE DEF DetachIdle, Detached, senders
<1>1. ~Working /\ pc \notin {"walk", "trigger", "sweep"} /\ pc' = pc
  BY DEF Working
<1>2. OnceIn(Observers, list') /\ Range(list') = Range(list) \ {o}
  BY WithoutList DEF PInv, ListInv
<1>3. TInv'
  BY <1>1 DEF PInv, TInv
<1>4. ListInv'
  BY <1>1, <1>2, ListFacts DEF PInv, TInv, ListInv, Working
<1>5. AskInv'
  <2>1. Current' = None /\ Current = None
    BY <1>1 DEF Current
  <2> QED BY <1>1, <1>2, <2>1, ListFacts DEF PInv, TInv, AskInv, Linked
<1>6. DueInv'
  BY <1>1 DEF PInv, DueInv
<1> QED BY <1>3, <1>4, <1>5, <1>6 DEF PInv

LEMMA DetachWorkingStep ==
  ASSUME PInv, NEW t, NEW o \in Observers, DetachWorking(t, o)
  PROVE  PInv'
<1> USE DEF DetachWorking, Detached, senders
<1>1. pc = "trigger" /\ pc' = pc
  BY LockPc DEF Working
<1>2. TInv'
  BY <1>1 DEF PInv, TInv
<1>3. ListInv'
  BY <1>1, ListFacts DEF PInv, TInv, ListInv, Working
<1>4. AskInv'
  <2>1. Current' = Current /\ odd' = IF Linked(o) THEN odd \ {o} ELSE odd \cup {o}
    BY DEF Current
  <2> QED BY <1>1, <2>1 DEF PInv, TInv, AskInv, Linked
<1>5. DueInv'
  BY <1>1, ListFacts DEF PInv, TInv, DueInv
<1> QED BY <1>2, <1>3, <1>4, <1>5 DEF PInv

-----------------------------------------------------------------------------
(* The notification *)

LEMMA NotifyStep == PInv /\ Notify => PInv'
<1> SUFFICES ASSUME PInv, Notify PROVE PInv'
  OBVIOUS
<1> USE DEF Notify, Go, senders, publisher
<1>1. TInv'
  BY DEF PInv, TInv
<1>2. ListInv' /\ AskInv'
  BY DEF PInv, ListInv, AskInv, Working, Current, Linked
<1>3. DueInv'
  BY ListFacts DEF DueInv
<1> QED BY <1>1, <1>2, <1>3 DEF PInv

\* One passed over is not among those still to be told.
LEMMA PassStep == PInv /\ Pass => PInv'
<1> SUFFICES ASSUME PInv, Pass PROVE PInv'
  OBVIOUS
<1> USE DEF Pass, senders, publisher
<1>1. TInv'
  BY DEF PInv, TInv
<1>2. ListInv' /\ AskInv'
  BY DEF PInv, ListInv, AskInv, Working, Current, Linked
<1>3. DueInv'
  <2>0. \A o \in told : \E i \in 1 .. Len(list) : list[i] = o /\ i < cursor + 1
    BY ListFacts DEF PInv, TInv, DueInv
  <2> SUFFICES ASSUME NEW o \in due \ odd, NEW i \in 1 .. Len(list), list[i] = o
               PROVE  i >= cursor + 1
    BY <2>0, ListFacts DEF PInv, TInv, DueInv
  <2>1. asked[o] # "no" /\ msg.event \in Watches[o] /\ i >= cursor
    BY DEF PInv, DueInv
  <2>2. state[o] \in Modes
    BY <2>1 DEF PInv, TInv, AskInv
  <2>3. i # cursor
    BY <2>1, <2>2 DEF Sees
  <2> QED BY <2>1, <2>3, ListFacts DEF PInv, TInv
<1> QED BY <1>1, <1>2, <1>3 DEF PInv

LEMMA TriggerStep == PInv /\ Trigger => PInv'
<1> SUFFICES ASSUME PInv, Trigger PROVE PInv'
  OBVIOUS
<1> DEFINE o == list[cursor]
<1>1. /\ pc = "walk" /\ pc' = "trigger" /\ cursor \in 1 .. Len(list)
      /\ msg.event \in Watches[o] /\ state[o] \in Modes
      /\ due' = due \ {o} /\ told' = told \cup {o}
      /\ asked' = [asked EXCEPT ![o] = IF @ = "once" THEN "no" ELSE @]
      /\ UNCHANGED <<msg, cursor, list, state, odd, queue>>
  BY ListFacts DEF Trigger, Sees, senders, PInv, TInv
<1>2. o \in Range(list) /\ o \in Observers /\ Current' = o /\ Current = None
  BY <1>1, ListFacts DEF Current
<1> HIDE DEF o
<1>3. TInv'
  BY <1>1, <1>2 DEF PInv, TInv, Modes
<1>4. ListInv'
  BY <1>1 DEF PInv, ListInv, Working
<1>5. AskInv'
  <2>1. /\ asked \in [Observers -> Modes \cup {"no"}] /\ Linked(o) /\ o # None
        /\ asked[o] = state[o]
    BY <1>1, <1>2, ListFacts DEF PInv, TInv, AskInv, Modes, Linked
  <2> QED BY <1>1, <1>2, <2>1, ListFacts DEF PInv, AskInv, Linked
<1>6. DueInv'
  <2>0. \A p \in told' : \E i \in 1 .. Len(list) : list[i] = p /\ i <= cursor
    BY <1>1 DEF PInv, DueInv, o
  <2> SUFFICES ASSUME NEW p \in due, p # o
               PROVE  /\ msg.event \in Watches[p]
                      /\ p \notin odd =>
                           /\ asked'[p] # "no"
                           /\ \A i \in 1 .. Len(list) :
                                list[i] = p => i >= cursor /\ i # cursor
    BY <1>1, <2>0 DEF DueInv
  <2>1. asked'[p] = asked[p]
    BY <1>1 DEF PInv, TInv
  <2> QED BY <1>1, <2>1 DEF PInv, DueInv, o
<1> QED BY <1>1, <1>3, <1>4, <1>5, <1>6 DEF PInv

LEMMA TriggeredStep == PInv /\ Triggered => PInv'
<1> SUFFICES ASSUME PInv, Triggered PROVE PInv'
  OBVIOUS
<1> DEFINE o == list[cursor]
<1>1. /\ pc = "trigger" /\ pc' = "walk" /\ cursor \in 1 .. Len(list) /\ cursor' = cursor + 1
      /\ state' = [state EXCEPT ![o] = IF @ = "once" THEN "detached" ELSE @]
      /\ UNCHANGED <<msg, due, told, list, asked, odd, queue>>
  BY ListFacts DEF Triggered, Go, senders
<1>2. o \in Range(list) /\ o \in Observers /\ Current = o /\ Current' = None
  BY <1>1, ListFacts DEF Current
<1> HIDE DEF o
<1>3. TInv'
  BY <1>1, <1>2, ListFacts DEF PInv, TInv
<1>4. ListInv'
  BY <1>1, <1>2, ListFacts DEF PInv, TInv, ListInv, Working
<1>5. AskInv'
  <2>1. /\ state \in [Observers -> Modes \cup {"idle", "detached"}]
        /\ asked \in [Observers -> Modes \cup {"no"}] /\ None \notin Observers /\ Linked(o)
    BY <1>2, ListFacts DEF PInv, TInv, Linked
  <2> QED BY <1>1, <1>2, <2>1 DEF PInv, AskInv, Linked
<1>6. DueInv'
  <2>1. \A p \in told : \E i \in 1 .. Len(list) : list[i] = p /\ i < cursor + 1
    BY <1>1 DEF PInv, DueInv
  <2>2. \A p \in due \ odd : /\ asked[p] # "no"
                           /\ \A i \in 1 .. Len(list) : list[i] = p => i >= cursor + 1
    BY <1>1 DEF PInv, DueInv
  <2> QED BY <1>1, <2>1, <2>2 DEF PInv, DueInv
<1> QED BY <1>1, <1>3, <1>4, <1>5, <1>6 DEF PInv

\* Behind the last observer nobody is left to be told.
LEMMA WalkIsWhole == PInv /\ WalkEnds => due \subseteq odd
<1> SUFFICES ASSUME PInv, WalkEnds, NEW o \in due \ odd PROVE FALSE
  OBVIOUS
<1>1. pc = "walk" /\ cursor > Len(list) /\ o \in Range(list)
  BY DEF WalkEnds, Go, PInv, TInv, DueInv, AskInv, Linked
<1>2. PICK i \in 1 .. Len(list) : list[i] = o
  BY <1>1, ListFacts
<1>3. i >= cursor
  BY <1>1, <1>2 DEF PInv, DueInv
<1> QED BY <1>1, <1>3, ListFacts DEF PInv, TInv

\* One told lies behind the walk, and is not met again.
LEMMA TriggerIsFirst == PInv /\ Trigger => list[cursor] \notin told
<1> SUFFICES ASSUME PInv, Trigger, list[cursor] \in told PROVE FALSE
  OBVIOUS
<1>1. pc = "walk" /\ cursor \in 1 .. Len(list)
  BY ListFacts DEF Trigger, PInv, TInv
<1>2. PICK i \in 1 .. Len(list) : list[i] = list[cursor] /\ i # cursor
  BY <1>1 DEF PInv, DueInv
<1> QED BY <1>1, <1>2, ListFacts

LEMMA WalkEndsStep == PInv /\ WalkEnds => PInv'
<1> SUFFICES ASSUME PInv, WalkEnds PROVE PInv'
  OBVIOUS
<1> USE DEF WalkEnds, Go, senders, publisher
<1>1. TInv' /\ ListInv'
  BY ListFacts DEF PInv, TInv, ListInv, Working
<1>2. AskInv'
  BY DEF PInv, AskInv, Current, Linked
<1>3. DueInv'
  BY DEF DueInv
<1> QED BY <1>1, <1>2, <1>3 DEF PInv

LEMMA KeepStep == PInv /\ Keep => PInv'
<1> SUFFICES ASSUME PInv, Keep PROVE PInv'
  OBVIOUS
<1> USE DEF Keep, senders, publisher
<1>1. cursor \in 1 .. Len(list) /\ list[cursor] \in Range(list) /\ list[cursor] \in Observers
  BY ListFacts DEF PInv, TInv
<1>2. TInv'
  BY DEF PInv, TInv
<1>3. ListInv'
  <2>1. state[list[cursor]] \in Modes
    BY <1>1 DEF PInv, TInv, ListInv
  <2> QED BY <1>1, <2>1, ListFacts DEF PInv, ListInv, Working
<1>4. AskInv' /\ DueInv'
  BY DEF PInv, AskInv, DueInv, Current, Linked
<1> QED BY <1>2, <1>3, <1>4 DEF PInv

\* Those behind the one unlinked move up, those before it do not.
LEMMA UnlinkStep == PInv /\ Unlink => PInv'
<1> SUFFICES ASSUME PInv, Unlink PROVE PInv'
  OBVIOUS
<1> DEFINE o == list[cursor]
<1>1. /\ pc = "sweep" /\ cursor \in 1 .. Len(list) /\ state[o] = "detached"
      /\ list' = Without(list, o) /\ state' = [state EXCEPT ![o] = "idle"]
      /\ UNCHANGED <<asked, odd, msg, pc, cursor, due, told, queue>>
  BY ListFacts DEF Unlink, looper, senders, PInv, TInv
<1>2. o \in Range(list) /\ o \in Observers /\ OnceIn(Observers, list)
  BY <1>1, ListFacts DEF PInv, ListInv
<1> HIDE DEF o
<1>3. OnceIn(Observers, list') /\ Range(list') = Range(list) \ {o}
  BY <1>1, <1>2, WithoutList
<1>4. Len(list') = Len(list) - 1 /\ \A i \in 1 .. Len(list') : i < cursor => list'[i] = list[i]
  <2>1. PICK k \in 1 .. Len(list) :
          /\ list[k] = o /\ Len(list') = Len(list) - 1
          /\ \A i \in 1 .. Len(list) - 1 :
               list'[i] = IF i < k THEN list[i] ELSE list[i + 1]
    BY <1>1, <1>2, WithoutIndex
  <2>2. k = cursor
    BY <1>1, <2>1, ListFacts DEF o
  <2> QED BY <2>1, <2>2, ListFacts
<1>5. TInv'
  BY <1>1, <1>2 DEF PInv, TInv
<1>6. ListInv'
  <2>1. \A p \in Range(list') : state'[p] # "idle"
    BY <1>1, <1>2, <1>3, ListFacts DEF PInv, TInv, ListInv
  <2>2. ASSUME NEW i \in 1 .. Len(list'), i < cursor PROVE state'[list'[i]] \in Modes
    <3>1. i \in 1 .. Len(list) /\ list'[i] = list[i] /\ i # cursor
      BY <1>1, <1>4, <2>2, ListFacts
    <3>2. list[i] # o /\ list[i] \in Observers /\ state[list[i]] \in Modes
      BY <1>1, <2>2, <3>1, ListFacts DEF PInv, ListInv, o
    <3> QED BY <1>1, <3>1, <3>2 DEF PInv, TInv
  <2> QED BY <1>1, <1>3, <2>1, <2>2 DEF ListInv, Working
<1>7. AskInv'
  <2>1. o \notin odd => asked[o] = "no"
    BY <1>1, <1>2 DEF PInv, TInv, AskInv, Modes
  <2>2. Current = None /\ Current' = None
    BY <1>1 DEF Current
  <2> QED BY <1>1, <1>2, <1>3, <2>1, <2>2, ListFacts DEF PInv, TInv, AskInv, Linked
<1>8. DueInv'
  BY <1>1 DEF PInv, DueInv
<1> QED BY <1>1, <1>5, <1>6, <1>7, <1>8 DEF PInv

LEMMA NotifyEndsStep == PInv /\ NotifyEnds => PInv'
<1> SUFFICES ASSUME PInv, NotifyEnds PROVE PInv'
  OBVIOUS
<1> USE DEF NotifyEnds, Go, senders, publisher
<1>1. TInv'
  BY DEF PInv, TInv
<1>2. ListInv'
  <2>1. ASSUME NEW o \in Range(list) PROVE state[o] \in Modes
    <3>1. PICK i \in 1 .. Len(list) : list[i] = o
      BY ListFacts
    <3>2. i < cursor
      BY ListFacts DEF PInv, TInv
    <3> QED BY <3>1, <3>2 DEF PInv, ListInv
  <2> QED BY <2>1 DEF PInv, ListInv
<1>3. AskInv' /\ DueInv'
  BY DEF PInv, AskInv, DueInv, Current, Linked
<1> QED BY <1>1, <1>2, <1>3 DEF PInv

-----------------------------------------------------------------------------
\* The steps that do not touch the list.
LEMMA LooperStepElse ==
  ASSUME PInv, WInv, Recv \/ Executed \/ Finish \/ NetCall \/ NetReturn
  PROVE  PInv'
<1> USE DEF publisher, senders, looper, Go
<1>1. CASE Recv
  <2>1. /\ pc = "recv" /\ pc' \in {"execute", "notify"} /\ queue # <<>>
        /\ queue' = Tail(queue) /\ UNCHANGED <<list, state, asked, odd, cursor, due, told>>
    BY <1>1 DEF Recv
  <2>2. Len(queue') <= QueueLen
    <3>1. queue \in Seq(Messages)
      BY DEF WInv, MInv
    <3>2. Len(queue') = Len(queue) - 1 /\ Len(queue) \in Nat
      BY <2>1, <3>1, HeadTailProperties
    <3> QED BY <3>2, SysAssumption DEF PInv
  <2> QED BY <2>1, <2>2
          DEF PInv, TInv, ListInv, AskInv, DueInv, Working, Current, Linked
<1>2. CASE Executed
  BY <1>2 DEF Executed, PInv, TInv, ListInv, AskInv, DueInv, Working, Current, Linked
<1>3. CASE Finish
  BY <1>3 DEF Finish, PInv, TInv, ListInv, AskInv, DueInv, Working, Current, Linked
<1>4. CASE NetCall \/ NetReturn
  BY <1>4 DEF NetCall, NetReturn, PInv, TInv, ListInv, AskInv, DueInv, Working,
              Current, Linked
<1> QED BY <1>1, <1>2, <1>3, <1>4

LEMMA SenderPStep ==
  ASSUME PInv, WInv, NEW t \in Threads, Sends(t) \/ Room(t) \/ SendTimesOut(t)
  PROVE  PInv'
<1>1. UNCHANGED <<publisher, looper>>
  BY DEF Sends, Send, SendBlocks, Room, SendTimesOut
<1>2. Len(queue') <= QueueLen
  <2>1. (\E m : Put(t, m)) \/ queue' = queue
    BY DEF Sends, Send, SendBlocks, Room, SendTimesOut
  <2>2. ASSUME NEW m, Put(t, m) PROVE Len(queue') <= QueueLen
    <3>1. queue \in Seq(Messages) /\ Len(queue) \in Nat /\ Len(queue) < QueueLen
      BY <2>2 DEF WInv, MInv, Put
    <3>2. Len(queue') = Len(queue) + 1
      BY <2>2, <3>1 DEF Put
    <3> QED BY <3>1, <3>2, SysAssumption
  <2> QED BY <2>1, <2>2 DEF PInv
<1> QED BY <1>1, <1>2
        DEF PInv, TInv, ListInv, AskInv, DueInv, Working, Current, Linked,
            publisher, looper

LEMMA NextPInv == WInv /\ PInv /\ [Next]_vars => PInv'
<1> SUFFICES ASSUME WInv, PInv, [Next]_vars PROVE PInv'
  OBVIOUS
<1>1. ASSUME NEW t \in Apps \cup {Looper}, NEW o \in Observers,
             \/ \E m \in Modes : AttachMarked(t, o, m) \/ AttachNew(t, o, m)
             \/ DetachIdle(t, o) \/ DetachWorking(t, o)
      PROVE  PInv'
  BY <1>1, AttachMarkedStep, AttachNewStep, DetachIdleStep, DetachWorkingStep
<1>2. CASE UNCHANGED vars
  BY <1>2 DEF vars, publisher, looper, senders, PInv, TInv, ListInv, AskInv, DueInv,
              Working, Current, Linked
<1>3. CASE LooperStep
  BY <1>3, NotifyStep, PassStep, TriggerStep, TriggeredStep, WalkEndsStep, KeepStep,
     UnlinkStep, NotifyEndsStep, LooperStepElse DEF LooperStep
<1> QED BY <1>1, <1>2, <1>3, SenderPStep, LooperStepElse DEF Next

LEMMA SysInvariant == Spec => [](WInv /\ PInv)
BY InitWInv, NextWInv, InitPInv, NextPInv, PTL DEF Spec

-----------------------------------------------------------------------------
\* What the variables of the publisher, the looper and the senders hold.
THEOREM SysTypeOKAlways == Spec => []SysTypeOK
<1>1. WInv /\ PInv => SysTypeOK
  BY DEF WInv, MInv, PInv, TInv, ListInv, OnceIn, SysTypeOK
<1> QED BY SysInvariant, <1>1, PTL

\* An observer for which sys_ctrl_attach or sys_ctrl_touch returned 0 observes
\* until it is detached or, if touched, triggered; this is so for each observer
\* but those detached in a trigger while not attached and those that detached
\* themselves in their own and were touched again, whatever came of others.
THEOREM ObservesAsAskedAlways == Spec => []ObservesAsAsked
<1>1. PInv => ObservesAsAsked
  BY DEF PInv, TInv, AskInv, ObservesAsAsked, Modes
<1> QED BY SysInvariant, <1>1, PTL

\* The steps that begin a trigger, and the one that ends a walk.
LEMMA TriggerBegins == Next /\ pc # "trigger" /\ pc' = "trigger" => Trigger
BY DEF Next, LooperStep, AttachMarked, AttachNew, DetachIdle, DetachWorking,
       Detached, Sends, Send, SendBlocks, Room, SendTimesOut, NetCall, NetReturn,
       Recv, Executed, Notify, Pass, Triggered, WalkEnds, Keep, Unlink,
       NotifyEnds, Finish, Go, looper

LEMMA WalkEnded == Next /\ pc = "walk" /\ pc' = "sweep" => WalkEnds
BY DEF Next, LooperStep, AttachMarked, AttachNew, DetachIdle, DetachWorking,
       Detached, Sends, Send, SendBlocks, Room, SendTimesOut, NetCall, NetReturn,
       Recv, Executed, Notify, Pass, Trigger, Triggered, Keep, Unlink,
       NotifyEnds, Finish, Go, looper

\* A notification tells every observer attached when it began and not detached
\* since, but for the two kinds that ObservesAsAsked leaves out, and none at
\* all twice, whatever its triggers attach, detach and touch.
THEOREM EveryObserverToldAlways == Spec => EveryObserverTold
<1>1. PInv /\ [Next]_vars =>
        [/\ pc = "walk" /\ pc' = "sweep" => due \subseteq odd
         /\ pc # "trigger" /\ pc' = "trigger" => list[cursor] \notin told]_vars
  BY WalkEnded, WalkIsWhole, TriggerBegins, TriggerIsFirst
<1> QED BY SysInvariant, <1>1, PTL DEF Spec, EveryObserverTold

\* observer_destroy never frees one that is still linked or in its trigger.
THEOREM FreeUnlinkedAlways == Spec => []FreeUnlinked
<1>1. PInv => FreeUnlinked
  <2> SUFFICES ASSUME PInv PROVE FreeUnlinked
    OBVIOUS
  <2>1. IsInjective(list)
    BY DEF PInv, ListInv, OnceIn
  <2>2. ASSUME NEW o \in Observers, state[o] = "idle" PROVE ~Linked(o) /\ o # Current
    <3>1. o \notin Range(list)
      BY <2>2 DEF PInv, ListInv
    <3> QED BY <3>1, ListFacts DEF Linked
  <2> QED BY <2>1, <2>2 DEF FreeUnlinked
<1> QED BY SysInvariant, <1>1, PTL

\* No trigger of an observer that was not attached runs, nor a second one of
\* one attached once, the observers left out above among them.
THEOREM NoneToldUnaskedAlways == Spec => NoneToldUnasked
<1>1. PInv /\ [Next]_vars =>
        [pc # "trigger" /\ pc' = "trigger" => asked[list[cursor]] # "no"]_vars
  <2> SUFFICES ASSUME PInv, Next, pc # "trigger", pc' = "trigger"
               PROVE  asked[list[cursor]] # "no"
    OBVIOUS
  <2>1. Trigger
    BY TriggerBegins
  <2>2. state[list[cursor]] \in Modes /\ Current = None
    BY <2>1 DEF Trigger, Sees, Current
  <2>3. list[cursor] \in Observers /\ None \notin Observers
    BY <2>1, ListFacts DEF Trigger, PInv, TInv
  <2> QED BY <2>2, <2>3 DEF PInv, AskInv, Modes
<1> QED BY SysInvariant, <1>1, PTL DEF Spec, NoneToldUnasked
=============================================================================
