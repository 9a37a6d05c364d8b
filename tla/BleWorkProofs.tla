--------------------------- MODULE BleWorkProofs ---------------------------
(***************************************************************************)
(* The work queue, for any works, threads and submissions: no wake-up is   *)
(* lost to its thread, a pending work is where the thread will find it,    *)
(* and a handler runs only for a submission.                               *)
(***************************************************************************)
EXTENDS BleWork, ListLemmas

(* The inductive invariant *)

\* BleTypeOK without the queue and the poller.
TInv ==
  /\ after \in [Works -> Works \cup {None}] /\ pending \subseteq Works
  /\ workQ \subseteq Delayed /\ timer \subseteq Delayed
  /\ pc \in {"get", "register", "recheck", "wait", "clear", "take", "got", "handler"}
  /\ item \in Works \cup {None} /\ (item # None <=> pc \in {"got", "handler"})
  /\ at \in [Callers -> {"idle", "peek", "insert", "cancel"}]
  /\ arg \in [Callers -> Works \cup {None}] /\ prev \in [Callers -> Works \cup {None}]
  /\ owed \subseteq Works /\ lost \subseteq Works /\ unarmed \subseteq Delayed
  /\ count \in 0 .. MaxSubmit

\* An event that is registered stands for an empty queue; one that is not was
\* made ready, and the semaphore given if the thread waits for it.
PollInv ==
  /\ event \in BOOLEAN /\ ready \in BOOLEAN /\ wait \in BOOLEAN /\ sem \in 0 .. 1
  /\ wait <=> pc = "wait"
  /\ pc = "recheck" => ready \/ (event /\ queue = <<>>)
  /\ pc = "wait" => IF event THEN sem = 0 /\ queue = <<>> ELSE sem = 1

\* A pending work is in one place: the queue, the hand of the work queue's
\* thread, or that of one submitter.  One that is cancelled has been submitted
\* by delay, and may be anywhere.
QInv ==
  /\ OnceIn(Works, queue) /\ Range(queue) \subseteq pending
  /\ pc = "got" => item \in pending \ Range(queue)
  /\ \A t \in Callers : at[t] = "idle" <=> arg[t] = None
  /\ \A t \in Callers : at[t] = "cancel" => arg[t] \in Delayed
  /\ \A t \in Callers : Submits(t) =>
       /\ arg[t] \in pending \ (Delayed \cup Range(queue))
       /\ pc = "got" => item # arg[t]
  /\ \A t, u \in Callers :
       Submits(t) /\ Submits(u) /\ arg[t] = arg[u] => t = u
  /\ PendingIsQueued

\* What counts down or is pending was submitted, and is not both at once.
OwedInv ==
  /\ pending \cup timer \subseteq owed /\ pending \cap timer = {}
  /\ (pending \cap Delayed) \cup timer \subseteq workQ

BInv == TInv /\ PollInv /\ QInv /\ OwedInv

LEMMA InitBInv == Init => BInv
<1> SUFFICES ASSUME Init PROVE BInv
  OBVIOUS
<1>1. TInv
  BY BleAssumption DEF Init, TInv
<1>2. PollInv
  <2>1. event \in BOOLEAN /\ ready \in BOOLEAN /\ wait \in BOOLEAN
    BY DEF Init
  <2>2. sem \in 0 .. 1 /\ ~wait /\ pc = "get"
    BY DEF Init
  <2> QED BY <2>1, <2>2 DEF PollInv
<1>3. QInv
  <2>1. OnceIn(Works, <<>>)
    BY DEF OnceIn, IsInjective
  <2> QED BY <2>1, EmptyList DEF Init, QInv, PendingIsQueued, Submits
<1>4. OwedInv
  BY DEF Init, OwedInv
<1> QED BY <1>1, <1>2, <1>3, <1>4 DEF BInv

-----------------------------------------------------------------------------
(* What the parts of the actions do *)

LEMMA IndexOfWork ==
  ASSUME NEW w \in Range(queue)
  PROVE  IndexOf(w) \in DOMAIN queue /\ queue[IndexOf(w)] = w
BY DEF IndexOf, Range

LEMMA WithoutQueue ==
  ASSUME OnceIn(Works, queue), NEW w
  PROVE  /\ OnceIn(Works, WithoutWork(w)) /\ Range(WithoutWork(w)) = Range(queue) \ {w}
         /\ queue = <<>> => WithoutWork(w) = <<>>
BY WithoutList, EmptyList DEF WithoutWork

LEMMA LastOfQueue == OnceIn(Works, queue) => LastWork \in Works \cup {None}
BY DEF LastWork, OnceIn, Last

\* A work is linked into the queue, or behind a work that had left it.
LEMMA InsertQueue ==
  ASSUME OnceIn(Works, queue), after \in [Works -> Works \cup {None}],
         NEW p \in Works \cup {None}, NEW w \in Works, w \notin Range(queue),
         Insert(p, w)
  PROVE  /\ OnceIn(Works, queue') /\ after' \in [Works -> Works \cup {None}]
         /\ \/ Range(queue') = Range(queue) \cup {w} /\ lost' = lost
            \/ queue' = queue /\ lost' = lost \cup {w}
<1>1. Len(queue) \in Nat /\ DOMAIN queue = 1 .. Len(queue)
  BY DEF OnceIn
<1>2. CASE p = None
  <2>1. <<w>> \o queue = InsertAt(queue, 1, w)
    <3>1. SubSeq(queue, 1, 1 - 1) = <<>>
      BY SubSeqEmpty
    <3>2. SubSeq(queue, 1, Len(queue)) = queue
      BY SubSeqFull DEF OnceIn
    <3> QED BY <3>1, <3>2 DEF InsertAt, OnceIn
  <2>2. /\ queue' = InsertAt(queue, 1, w) /\ lost' = lost
        /\ after' = [after EXCEPT ![w] = None]
    BY <1>2, <2>1 DEF Insert
  <2> QED BY <1>1, <2>2, InsertList
<1>3. CASE p # None /\ p \in Range(queue)
  <2>1. /\ queue' = InsertAt(queue, 1 + IndexOf(p), w) /\ lost' = lost
        /\ after' = [after EXCEPT ![w] = None]
    BY <1>3 DEF Insert
  <2>2. 1 + IndexOf(p) \in 1 .. Len(queue) + 1
    BY <1>1, <1>3, IndexOfWork
  <2> QED BY <2>1, <2>2, InsertList
<1>4. CASE p # None /\ p \notin Range(queue) /\ after[p] = None
  <2>1. /\ queue' = Append(queue, w) /\ lost' = lost
        /\ after' = [after EXCEPT ![w] = None]
    BY <1>4 DEF Insert
  <2> QED BY <2>1, AppendList
<1>5. CASE p # None /\ p \notin Range(queue) /\ after[p] # None
  <2>1. /\ queue' = queue /\ lost' = lost \cup {w}
        /\ after' = [after EXCEPT ![p] = w, ![w] = after[p]]
    BY <1>5 DEF Insert
  <2>2. after[p] \in Works
    BY <1>5
  <2> QED BY <2>1, <2>2
<1> QED BY <1>2, <1>3, <1>4, <1>5

\* Whatever an append does to the queue, it makes the event ready.
LEMMA SignalPoll ==
  ASSUME PollInv, Signal, pc' = pc
  PROVE  PollInv'
<1>1. wait' = wait /\ event' = FALSE
  BY DEF Signal
<1>2. CASE event
  <2>1. ready' = TRUE
    BY <1>2 DEF Signal
  <2>2. sem' \in 0 .. 1 /\ (pc = "wait" => sem' = 1)
    BY <1>2 DEF PollInv, Signal
  <2> QED BY <1>1, <2>1, <2>2 DEF PollInv
<1>3. CASE ~event
  <2>1. ready' = ready /\ sem' = sem
    BY <1>3 DEF PollInv, Signal
  <2> QED BY <1>1, <1>3, <2>1 DEF PollInv
<1> QED BY <1>2, <1>3

\* To take a work off keeps an empty queue empty.
LEMMA QuietPoll ==
  ASSUME PollInv, UNCHANGED <<poll, pc>>, queue = <<>> => queue' = <<>>
  PROVE  PollInv'
BY DEF PollInv, poll

\* Those that submit other works hold them.
SameHands ==
  /\ \A t \in Callers : at'[t] = "idle" <=> arg'[t] = None
  /\ \A t \in Callers : at'[t] = "cancel" => arg'[t] \in Delayed
  /\ \A t \in Callers : Submits(t)' <=> Submits(t)
  /\ \A t \in Callers : Submits(t) => arg'[t] = arg[t]

LEMMA HandsIdle == QInv /\ UNCHANGED submits => SameHands
BY DEF QInv, SameHands, Submits, submits

\* Nothing has changed but who calls what, and what the work queue's thread
\* does while it holds no work.
LEMMA HandsOnly ==
  ASSUME QInv, UNCHANGED <<queue, pending, workQ, item, lost>>, SameHands,
         pc' = pc \/ (pc # "got" /\ pc' # "got")
  PROVE  QInv'
<1>1. PendingIsQueued'
  BY DEF QInv, PendingIsQueued, SameHands
<1> QED BY <1>1 DEF QInv, SameHands

-----------------------------------------------------------------------------
(* k_work_submit_to_queue *)

LEMMA SubmitStep ==
  ASSUME BInv, NEW t \in Callers,
         \/ \E w \in Works \ Delayed : SubmitTest(t, w)
         \/ SubmitPeek(t) \/ SubmitInsert(t)
  PROVE  BInv'
<1> USE DEF BInv
<1>1. ASSUME NEW w \in Works \ Delayed, SubmitTest(t, w)
      PROVE  BInv'
  <2> USE <1>1 DEF SubmitTest, Calls
  <2>1. arg[t] = None /\ w # None
    BY BleAssumption DEF TInv, QInv
  <2>2. TInv'
    BY BleAssumption DEF TInv
  <2>3. PollInv'
    BY QuietPoll
  <2>4. QInv'
    <3>1. \A u \in Callers : arg'[u] = IF u = t THEN w ELSE arg[u]
      BY DEF TInv
    <3>2. \A u \in Callers : at'[u] = IF u = t THEN "peek" ELSE at[u]
      BY DEF TInv
    <3>3. w \notin Range(queue) /\ (pc = "got" => item # w)
      BY DEF QInv
    <3>4. \A u \in Callers \ {t} : Submits(u)' <=> Submits(u)
      BY <3>2 DEF Submits
    <3>5. Submits(t)' /\ ~Submits(t)
      BY <3>2 DEF Submits
    <3>6. PendingIsQueued'
      <4>1. ASSUME NEW v \in pending' \ lost'
            PROVE  \/ v \in Range(queue) \/ (pc = "got" /\ item = v)
                   \/ \E u \in Callers : Submits(u)' /\ arg'[u] = v
        <5>1. CASE v = w
          BY <3>1, <3>5, <5>1
        <5>2. CASE v # w
          <6>1. \/ v \in Range(queue) \/ (pc = "got" /\ item = v)
                \/ \E u \in Callers : Submits(u) /\ arg[u] = v
            BY <5>2 DEF QInv, PendingIsQueued
          <6> QED BY <3>1, <3>4, <3>5, <6>1
        <5> QED BY <5>1, <5>2
      <4>2. pending' \cap Delayed \subseteq workQ'
        BY DEF QInv, PendingIsQueued
      <4> QED BY <4>1, <4>2 DEF PendingIsQueued
    <3>7. \A u \in Callers : Submits(u) => arg[u] # w
      BY DEF QInv
    <3> QED BY <2>1, <3>1, <3>2, <3>3, <3>4, <3>5, <3>6, <3>7 DEF QInv
  <2>5. OwedInv'
    BY DEF OwedInv, TInv
  <2> QED BY <2>2, <2>3, <2>4, <2>5
<1>2. CASE SubmitPeek(t)
  <2> USE <1>2 DEF SubmitPeek
  <2>1. LastWork \in Works \cup {None}
    BY LastOfQueue DEF QInv
  <2>2. TInv'
    BY <2>1 DEF TInv, history
  <2>3. PollInv'
    BY QuietPoll
  <2>4. \A u \in Callers : at'[u] = IF u = t THEN "insert" ELSE at[u]
    BY DEF TInv
  <2>5. QInv'
    <3>1. SameHands
      BY <2>4 DEF QInv, SameHands, Submits
    <3> QED BY <3>1, HandsOnly DEF history
  <2>6. OwedInv'
    BY DEF OwedInv, history
  <2> QED BY <2>2, <2>3, <2>5, <2>6
<1>3. CASE SubmitInsert(t)
  <2> DEFINE w == arg[t]
  <2> USE <1>3 DEF SubmitInsert
  <2>1. w \in Works \ (Delayed \cup Range(queue)) /\ w \in pending /\ (pc = "got" => item # w)
    BY DEF TInv, QInv, Submits
  <2>2. /\ OnceIn(Works, queue') /\ after' \in [Works -> Works \cup {None}]
        /\ \/ Range(queue') = Range(queue) \cup {w} /\ lost' = lost
           \/ queue' = queue /\ lost' = lost \cup {w}
    BY <2>1, InsertQueue DEF TInv, QInv
  <2>3. TInv'
    BY <2>1, <2>2 DEF TInv
  <2>4. PollInv'
    BY SignalPoll
  <2>5. QInv'
    <3>1. \A u \in Callers : arg'[u] = IF u = t THEN None ELSE arg[u]
      BY DEF TInv
    <3>2. \A u \in Callers : at'[u] = IF u = t THEN "idle" ELSE at[u]
      BY DEF TInv
    <3>3. /\ \A u \in Callers \ {t} : Submits(u)' <=> Submits(u)
          /\ Submits(t) /\ ~Submits(t)'
      BY <3>2 DEF Submits
    <3>4. \A u \in Callers \ {t} : Submits(u) => arg[u] # w
      BY <3>3 DEF QInv
    <3>5. PendingIsQueued'
      BY <2>1, <2>2, <3>1, <3>3 DEF QInv, PendingIsQueued
    <3> QED BY <2>1, <2>2, <3>1, <3>2, <3>3, <3>4, <3>5 DEF QInv
  <2>6. OwedInv'
    BY DEF OwedInv
  <2> QED BY <2>3, <2>4, <2>5, <2>6
<1> QED BY <1>1, <1>2, <1>3

-----------------------------------------------------------------------------
(* Delayed works *)

\* A delayed work that is not pending, or is in the queue, is not in the hand
\* of the work queue's thread.
LEMMA FreeToCancel ==
  ASSUME BInv, NEW w \in Delayed, w \in workQ => Cancels(w)
  PROVE  pc = "got" => item # w
BY DEF BInv, QInv, OwedInv, Cancels

\* k_delayed_work_cancel takes up and drops delayed works only.
LEMMA HandsCancel ==
  ASSUME QInv, TInv, NEW t \in Callers,
         \/ \E w \in Delayed : CancelTest(t, w)
         \/ Cancel(t) \/ CancelFails(t)
  PROVE  SameHands
<1>1. CASE \E w \in Delayed : CancelTest(t, w)
  <2>1. PICK w \in Delayed : CancelTest(t, w)
    BY <1>1
  <2>2. /\ at[t] = "idle" /\ w # None
        /\ \A u \in Callers : /\ at'[u] = IF u = t THEN "cancel" ELSE at[u]
                              /\ arg'[u] = IF u = t THEN w ELSE arg[u]
    BY <2>1, BleAssumption DEF CancelTest, Calls, TInv
  <2> QED BY <2>2 DEF QInv, SameHands, Submits
<1>2. CASE Cancel(t) \/ CancelFails(t)
  <2>1. /\ at[t] = "cancel"
        /\ \A u \in Callers : /\ at'[u] = IF u = t THEN "idle" ELSE at[u]
                              /\ arg'[u] = IF u = t THEN None ELSE arg[u]
    BY <1>2 DEF Cancel, CancelFails, TInv
  <2> QED BY <2>1 DEF QInv, SameHands, Submits
<1> QED BY <1>1, <1>2

\* The queue and the pending works lose w, or get it at the tail.
LEMMA DelayedQueue ==
  ASSUME QInv, NEW w \in Delayed,
         pc = "got" => item # w,
         UNCHANGED <<pc, item, lost>>, SameHands,
         \/ Range(queue') = Range(queue) \ {w} /\ pending' = pending \ {w}
         \/ Range(queue') = Range(queue) \cup {w} /\ pending' = pending \cup {w},
         pending' \cap Delayed \subseteq workQ',
         OnceIn(Works, queue')
  PROVE  QInv'
<1>1. \A t \in Callers : Submits(t) => arg[t] # w
  BY DEF QInv
<1>2. PendingIsQueued'
  BY <1>1 DEF QInv, PendingIsQueued, SameHands
<1> QED BY <1>1, <1>2 DEF QInv, SameHands

LEMMA DelayedStep ==
  ASSUME BInv, NEW w \in Delayed,
         \/ \E t \in Callers : SubmitDelayed(t, w) \/ SubmitNow(t, w)
         \/ TimerFires(w)
  PROVE  BInv'
<1> USE DEF BInv
<1>0. w \in Works
  BY BleAssumption
<1>q. /\ OnceIn(Works, WithoutWork(w)) /\ Range(WithoutWork(w)) = Range(queue) \ {w}
      /\ queue = <<>> => WithoutWork(w) = <<>>
  BY WithoutQueue DEF QInv
<1>p. OnceIn(Works, queue) /\ Range(queue) \subseteq pending
  BY DEF QInv
<1>a. /\ OnceIn(Works, Append(WithoutWork(w), w))
      /\ Range(Append(WithoutWork(w), w)) = Range(queue) \cup {w}
  <2>1. w \notin Range(WithoutWork(w))
    BY <1>q
  <2>2. Range(Append(WithoutWork(w), w)) = Range(WithoutWork(w)) \cup {w}
    BY <1>0, <1>q, <2>1, AppendList
  <2> QED BY <1>0, <1>q, <2>1, <2>2, AppendList
<1>1. ASSUME NEW t \in Callers, SubmitDelayed(t, w)
      PROVE  BInv'
  <2> USE <1>1 DEF SubmitDelayed, AddTimeout
  <2>1. pc = "got" => item # w
    BY FreeToCancel
  <2>2. /\ OnceIn(Works, queue') /\ Range(queue') = Range(queue) \ {w}
        /\ pending' = pending \ {w} /\ (queue = <<>> => queue' = <<>>)
    <3>1. CASE w \in workQ
      BY <1>q, <3>1
    <3>2. CASE w \notin workQ
      <4>1. w \notin pending
        BY <3>2 DEF OwedInv
      <4> QED BY <1>p, <3>2, <4>1
    <3> QED BY <3>1, <3>2
  <2>3. TInv'
    BY <1>0, <2>2, BleAssumption DEF TInv, submits, history
  <2>4. PollInv'
    BY <2>2, QuietPoll
  <2>5. QInv'
    BY <2>1, <2>2, HandsIdle, DelayedQueue DEF OwedInv
  <2>6. OwedInv'
    BY <2>2 DEF OwedInv
  <2> QED BY <2>3, <2>4, <2>5, <2>6
<1>2. ASSUME NEW t \in Callers, SubmitNow(t, w)
      PROVE  BInv'
  <2> USE <1>2 DEF SubmitNow
  <2>1. pc = "got" => item # w
    BY FreeToCancel
  <2>2. TInv'
    BY <1>0, BleAssumption DEF TInv, submits, history
  <2>3. PollInv'
    BY SignalPoll
  <2>4. QInv'
    BY <1>a, <2>1, HandsIdle, DelayedQueue DEF OwedInv
  <2>5. OwedInv'
    BY DEF OwedInv
  <2> QED BY <2>2, <2>3, <2>4, <2>5
<1>3. CASE TimerFires(w)
  <2> USE <1>3 DEF TimerFires
  <2>1. w \notin pending /\ w \in workQ /\ w \in owed
    BY DEF OwedInv
  <2>2. pc = "got" => item # w
    BY <2>1 DEF QInv
  <2>3. /\ OnceIn(Works, queue') /\ Range(queue') = Range(queue) \cup {w}
    <3>1. w \notin Range(queue) /\ queue' = Append(queue, w)
      BY <1>p, <2>1
    <3> QED BY <1>0, <1>p, <3>1, AppendList
  <2>4. TInv'
    BY <1>0, <2>1, BleAssumption DEF TInv, submits, history
  <2>5. PollInv'
    BY <2>1, SignalPoll
  <2>6. QInv'
    BY <2>1, <2>2, <2>3, HandsIdle, DelayedQueue DEF OwedInv, history
  <2>7. OwedInv'
    BY <2>1 DEF OwedInv, history
  <2> QED BY <2>4, <2>5, <2>6, <2>7
<1> QED BY <1>1, <1>2, <1>3

\* k_delayed_work_cancel, whatever has happened to the work since it tested it.
LEMMA CancelStep ==
  ASSUME BInv, NEW t \in Callers,
         \/ \E w \in Delayed : CancelTest(t, w)
         \/ Cancel(t) \/ CancelFails(t)
  PROVE  BInv'
<1> USE DEF BInv
<1>h. SameHands
  BY HandsCancel
<1>1. CASE \/ \E w \in Delayed : CancelTest(t, w)
           \/ CancelFails(t)
  <2>1. /\ UNCHANGED <<queue, after, pending, workQ, timer, poll, pc, item, prev, history>>
        /\ \E v \in Delayed \cup {None}, a \in {"idle", "cancel"} :
             at' = [at EXCEPT ![t] = a] /\ arg' = [arg EXCEPT ![t] = v]
    BY <1>1 DEF CancelTest, CancelFails
  <2>2. TInv'
    BY <2>1, BleAssumption DEF TInv, history
  <2>3. PollInv'
    BY <2>1, QuietPoll
  <2>4. QInv'
    BY <1>h, <2>1, HandsOnly DEF history
  <2>5. OwedInv'
    BY <2>1 DEF OwedInv, history
  <2> QED BY <2>2, <2>3, <2>4, <2>5
<1>2. CASE Cancel(t)
  <2> DEFINE w == arg[t]
  <2> USE <1>2 DEF Cancel
  <2>1. w \in Delayed
    BY DEF QInv
  <2>2. /\ OnceIn(Works, WithoutWork(w)) /\ Range(WithoutWork(w)) = Range(queue) \ {w}
        /\ queue = <<>> => WithoutWork(w) = <<>>
    BY WithoutQueue DEF QInv
  <2>3. pc = "got" => item # w
    BY <2>1, FreeToCancel
  <2>4. TInv'
    BY DEF TInv
  <2>5. PollInv'
    BY <2>2, QuietPoll
  <2>6. QInv'
    BY <1>h, <2>1, <2>2, <2>3, DelayedQueue DEF OwedInv
  <2>7. OwedInv'
    BY DEF OwedInv
  <2> QED BY <2>4, <2>5, <2>6, <2>7
<1> QED BY <1>1, <1>2

-----------------------------------------------------------------------------
(* z_work_q_main *)

\* The first work of the queue goes to the thread's hand.
LEMMA GetStep ==
  ASSUME BInv, QueueGet \/ Take
  PROVE  BInv'
<1> USE DEF BInv
<1>0. /\ pc \in {"get", "take"} /\ item = None
      /\ UNCHANGED <<pending, workQ, timer, poll, submits, history>>
  BY DEF QueueGet, Take, Go, TInv
<1>1. CASE queue = <<>>
  <2>1. pc' = "register" /\ UNCHANGED <<queue, after, item>>
    BY <1>1 DEF QueueGet, Take, Go
  <2>2. TInv'
    BY <1>0, <2>1 DEF TInv, submits, history
  <2>3. PollInv'
    BY <1>0, <2>1 DEF PollInv, poll
  <2>4. QInv'
    BY <1>0, <2>1, HandsIdle, HandsOnly DEF history
  <2>5. OwedInv'
    BY <1>0 DEF OwedInv, history
  <2> QED BY <2>2, <2>3, <2>4, <2>5
<1>2. CASE queue # <<>>
  <2> DEFINE w == Head(queue)
  <2>1. pc' = "got" /\ Get
    BY <1>2 DEF QueueGet, Take, Go
  <2>2. item' = w /\ queue' = Tail(queue)
    BY <2>1 DEF Get
  <2>3. /\ OnceIn(Works, queue') /\ w \in Range(queue)
        /\ Range(queue') = Range(queue) \ {w}
    BY <1>2, <2>2, HeadList DEF QInv
  <2>4. w \in pending /\ w \in Works /\ w # None
    BY <2>3, BleAssumption DEF TInv, QInv
  <2>5. after' \in [Works -> Works \cup {None}]
    <3>1. queue' # <<>> => Head(queue') \in Works
      BY <2>3 DEF OnceIn
    <3> QED BY <2>1, <2>2, <3>1 DEF Get, TInv
  <2>6. TInv'
    BY <1>0, <2>1, <2>2, <2>4, <2>5 DEF TInv, submits, history
  <2>7. PollInv'
    BY <1>0, <2>1 DEF PollInv, poll
  <2>8. QInv'
    <3>1. \A t \in Callers : Submits(t) => arg[t] # w
      BY <2>3, <2>4 DEF QInv
    <3>h. SameHands
      BY <1>0, HandsIdle
    <3>2. PendingIsQueued'
      BY <1>0, <2>1, <2>2, <2>3, <3>h
         DEF QInv, PendingIsQueued, SameHands, history
    <3> QED BY <1>0, <2>1, <2>2, <2>3, <2>4, <3>h, <3>1, <3>2 DEF QInv, SameHands
  <2>9. OwedInv'
    BY <1>0 DEF OwedInv, history
  <2> QED BY <2>6, <2>7, <2>8, <2>9
<1> QED BY <1>1, <1>2

\* While the thread polls only the poller changes.
LEMMA PollStep ==
  ASSUME BInv, Register \/ Recheck \/ Wait \/ Clear
  PROVE  BInv'
<1> USE DEF BInv
<1>1. /\ pc \in {"register", "recheck", "wait", "clear"}
      /\ pc' \in {"recheck", "wait", "clear", "take"}
      /\ UNCHANGED <<queue, after, pending, workQ, timer, item, submits, history>>
  BY DEF Register, Recheck, Wait, Clear, Go
<1>2. TInv'
  BY <1>1 DEF TInv, submits, history
<1>3. QInv'
  BY <1>1, HandsIdle, HandsOnly DEF history
<1>4. OwedInv'
  BY <1>1 DEF OwedInv, history
<1>5. CASE Register
  <2>1. pc' = "recheck" /\ wait' = FALSE /\ sem' = sem /\ queue' = queue
    BY <1>5 DEF Register, Go
  <2>2. event' = (queue = <<>>) /\ ready' = (queue # <<>>)
    BY <1>5 DEF Register
  <2>3. PollInv'
    BY <2>1, <2>2 DEF PollInv
  <2> QED BY <1>2, <1>3, <1>4, <2>3
<1>6. CASE Recheck
  <2>1. PollInv'
    <3>1. CASE ready
      <4>1. pc' = "take" /\ wait' = FALSE /\ sem' = 0 /\ event' = FALSE /\ ready' = ready
        BY <1>6, <3>1 DEF Recheck, Go
      <4>2. wait' \in BOOLEAN /\ event' \in BOOLEAN /\ ready' \in BOOLEAN
        BY <4>1 DEF PollInv
      <4>3. ~wait' /\ sem' \in 0 .. 1
        BY <4>1
      <4> QED BY <4>1, <4>2, <4>3 DEF PollInv
    <3>2. CASE ~ready
      <4>1. /\ pc' = "wait" /\ wait' = TRUE /\ sem' = 0 /\ ready' = ready /\ queue' = queue
            /\ event' = event
        BY <1>6, <3>2 DEF Recheck, Go, PollInv
      <4>2. event /\ queue = <<>>
        BY <1>6, <3>2 DEF PollInv, Recheck, Go
      <4> QED BY <4>1, <4>2 DEF PollInv
    <3> QED BY <3>1, <3>2
  <2> QED BY <1>2, <1>3, <1>4, <2>1
<1>7. CASE Wait
  <2>1. PollInv'
    <3>1. pc' = "clear" /\ wait' = FALSE /\ sem' = 0 /\ event' = event /\ ready' = ready
      BY <1>7 DEF Wait, Go
    <3>2. wait' \in BOOLEAN /\ event' \in BOOLEAN /\ ready' \in BOOLEAN
      BY <3>1 DEF PollInv
    <3>3. ~wait' /\ sem' \in 0 .. 1
      BY <3>1
    <3> QED BY <3>1, <3>2, <3>3 DEF PollInv
  <2> QED BY <1>2, <1>3, <1>4, <2>1
<1>8. CASE Clear
  <2>1. PollInv'
    BY <1>8 DEF Clear, Go, PollInv
  <2> QED BY <1>2, <1>3, <1>4, <2>1
<1> QED BY <1>5, <1>6, <1>7, <1>8

LEMMA HandlerStep ==
  ASSUME BInv, Handler \/ HandlerReturns
  PROVE  BInv'
<1> USE DEF BInv
<1>1. CASE Handler
  <2>1. /\ item \in pending \ Range(queue) /\ pc = "got" /\ pc' = "handler"
        /\ item' = item /\ pending' = pending \ {item} /\ owed' = owed \ {item}
        /\ UNCHANGED <<queue, after, workQ, timer, poll, submits, lost, unarmed, count>>
    BY <1>1 DEF Handler, Go, QInv
  <2>2. TInv'
    BY <2>1 DEF TInv, submits, history
  <2>3. PollInv'
    BY <2>1 DEF PollInv, poll
  <2>4. QInv'
    BY <2>1 DEF QInv, PendingIsQueued, Submits, submits, history
  <2>5. OwedInv'
    BY <2>1 DEF OwedInv, history
  <2> QED BY <2>2, <2>3, <2>4, <2>5
<1>2. CASE HandlerReturns
  <2>1. /\ pc = "handler" /\ pc' = "get" /\ item' = None
        /\ UNCHANGED <<queue, after, pending, workQ, timer, poll, submits, history>>
    BY <1>2 DEF HandlerReturns, Go
  <2>2. TInv'
    BY <2>1 DEF TInv, submits, history
  <2>3. PollInv'
    BY <2>1 DEF PollInv, poll
  <2>4. SameHands
    BY <2>1, HandsIdle
  <2>5. QInv'
    BY <2>1, <2>4 DEF QInv, PendingIsQueued, SameHands, history
  <2>6. OwedInv'
    BY <2>1 DEF OwedInv, history
  <2> QED BY <2>2, <2>3, <2>5, <2>6
<1> QED BY <1>1, <1>2

LEMMA NextBInv == BInv /\ [Next]_vars => BInv'
<1>1. BInv /\ Next => BInv'
  BY SubmitStep, DelayedStep, CancelStep, GetStep, PollStep, HandlerStep DEF Next, Main
<1>2. BInv /\ UNCHANGED vars => BInv'
  BY DEF BInv, TInv, PollInv, QInv, PendingIsQueued, Submits, OwedInv, vars, poll,
         submits, history
<1> QED BY <1>1, <1>2

LEMMA Invariant == Spec => []BInv
BY InitBInv, NextBInv, PTL DEF Spec

-----------------------------------------------------------------------------
(* What the work queue promises *)

\* The work queue's variables stay in range; above all a work is in the queue
\* once, however submissions, cancellations and timers interleave.
THEOREM TypeCorrect == Spec => []BleTypeOK
<1>1. BInv => BleTypeOK
  BY DEF BInv, TInv, PollInv, QInv, OnceIn, BleTypeOK
<1> QED BY Invariant, <1>1, PTL

\* No work stays pending where the work queue's thread does not find it,
\* except those linked behind a work that had left the queue.
THEOREM PendingIsQueuedAlways == Spec => []PendingIsQueued
<1>1. BInv => PendingIsQueued
  BY DEF BInv, QInv
<1> QED BY Invariant, <1>1, PTL

\* The thread never waits without a wake-up while there is a work for it,
\* whenever the append comes between its look at the queue and its wait.
THEOREM WaitsOnEmptyAlways == Spec => []WaitsOnEmpty
<1>1. BInv => WaitsOnEmpty
  BY DEF BInv, PollInv, WaitsOnEmpty
<1> QED BY Invariant, <1>1, PTL

\* A handler begins at most once for a submission, and for none that was
\* cancelled with a result of 0 before it began.
THEOREM RunsOnlyOwedAlways == Spec => RunsOnlyOwed
<1>1. BInv => (pc = "got" => item \in owed)
  BY DEF BInv, QInv, OwedInv
<1>2. BInv /\ [Next]_vars => [pc = "got" /\ pc' = "handler" => item \in owed]_vars
  BY <1>1
<1> QED BY Invariant, <1>2, PTL DEF Spec, RunsOnlyOwed
=============================================================================
