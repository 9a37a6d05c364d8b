--------------------------- MODULE SuspendProofs ---------------------------
(***************************************************************************)
(* The suspend core, for any devices, kinds of callbacks and modes: what   *)
(* is down when the system sleeps, that all is up and in order when the    *)
(* call returns, and the order in which devices are resumed.               *)
(***************************************************************************)
EXTENDS Suspend, ListLemmas

\* ConsList, for the lists of devices.
LEMMA ConsDevice ==
  ASSUME NEW s, OnceIn(Devices, s), NEW d \in Devices, d \notin Range(s)
  PROVE  OnceIn(Devices, <<d>> \o s) /\ Range(<<d>> \o s) = Range(s) \cup {d}
BY ConsList

\* WithoutCons, for the lists of devices.
LEMMA WithoutDevice ==
  ASSUME NEW s, OnceIn(Devices, s), NEW c \in Devices, c \notin Range(s), NEW d
  PROVE  /\ d = c => Without(<<c>> \o s, d) = s
         /\ d # c => Without(<<c>> \o s, d) = <<c>> \o Without(s, d)
BY WithoutCons

\* b is the list s, turned round, with the list l behind it.
Restored(b, s, l) ==
  /\ Len(b) = Len(s) + Len(l)
  /\ \A i \in 1 .. Len(b) :
       b[i] = IF i <= Len(s) THEN s[Len(s) + 1 - i] ELSE l[i - Len(s)]

LEMMA RestoredNone ==
  ASSUME NEW b \in Seq(Devices), NEW l, OnceIn(Devices, l)
  PROVE  Restored(b, <<>>, l) <=> b = l
<1>1. l \in Seq(Devices) /\ Len(l) \in Nat /\ Len(b) \in Nat
  BY DEF OnceIn
<1>2. ASSUME Restored(b, <<>>, l) PROVE b = l
  <2>1. Len(b) = Len(l) /\ \A i \in 1 .. Len(b) : b[i] = l[i]
    BY <1>1, <1>2 DEF Restored
  <2> QED BY <1>1, <2>1, SeqEqual
<1>3. ASSUME b = l PROVE Restored(b, <<>>, l)
  BY <1>1, <1>3 DEF Restored
<1> QED BY <1>2, <1>3

\* A device moved from the head of l to the head of s, or back.
LEMMA RestoredMove ==
  ASSUME NEW b \in Seq(Devices), NEW s, OnceIn(Devices, s), NEW l, OnceIn(Devices, l),
         NEW d \in Devices, d \notin Range(s), d \notin Range(l)
  PROVE  Restored(b, s, <<d>> \o l) <=> Restored(b, <<d>> \o s, l)
<1> DEFINE t == <<d>> \o s
           m == <<d>> \o l
           x(i) == IF i <= Len(s) THEN s[Len(s) + 1 - i] ELSE m[i - Len(s)]
           y(i) == IF i <= Len(t) THEN t[Len(t) + 1 - i] ELSE l[i - Len(t)]
<1>1. Len(s) \in Nat /\ Len(l) \in Nat /\ Len(b) \in Nat
  BY OnceFacts
<1>2. /\ Len(t) = Len(s) + 1 /\ t[1] = d
      /\ \A i \in 2 .. Len(s) + 1 : t[i] = s[i - 1]
  BY ConsList
<1>3. /\ Len(m) = Len(l) + 1 /\ m[1] = d
      /\ \A i \in 2 .. Len(l) + 1 : m[i] = l[i - 1]
  BY ConsList
<1> HIDE DEF t, m
<1>4. Len(s) + Len(m) = Len(t) + Len(l)
  BY <1>1, <1>2, <1>3
<1>5. ASSUME NEW i \in 1 .. Len(s) + Len(m) PROVE x(i) = y(i)
  <2>1. CASE i <= Len(s)
    <3>1. Len(t) + 1 - i \in 2 .. Len(s) + 1 /\ (Len(t) + 1 - i) - 1 = Len(s) + 1 - i
      BY <1>1, <1>2, <2>1
    <3>2. t[Len(t) + 1 - i] = s[(Len(t) + 1 - i) - 1]
      BY <1>2, <3>1
    <3> QED BY <1>1, <1>2, <2>1, <3>1, <3>2
  <2>2. CASE i = Len(s) + 1
    <3>1. i - Len(s) = 1 /\ Len(t) + 1 - i = 1 /\ i <= Len(t) /\ ~(i <= Len(s))
      BY <1>1, <1>2, <2>2
    <3> QED BY <1>2, <1>3, <3>1
  <2>3. CASE i > Len(s) + 1
    <3>1. /\ i - Len(s) \in 2 .. Len(l) + 1 /\ (i - Len(s)) - 1 = i - Len(t)
          /\ ~(i <= Len(t)) /\ ~(i <= Len(s))
      BY <1>1, <1>2, <1>3, <2>3
    <3>2. m[i - Len(s)] = l[(i - Len(s)) - 1]
      BY <1>3, <3>1
    <3> QED BY <3>1, <3>2
  <2> QED BY <1>1, <2>1, <2>2, <2>3
<1>6. Restored(b, s, m) <=> Len(b) = Len(s) + Len(m) /\ \A i \in 1 .. Len(b) : b[i] = x(i)
  BY DEF Restored
<1>7. Restored(b, t, l) <=> Len(b) = Len(t) + Len(l) /\ \A i \in 1 .. Len(b) : b[i] = y(i)
  BY DEF Restored
<1> HIDE DEF x, y
<1>8. Restored(b, s, m) <=> Restored(b, t, l)
  BY <1>4, <1>5, <1>6, <1>7
<1> QED BY <1>8 DEF t, m

-----------------------------------------------------------------------------
(* The inductive invariant *)

\* Each list holds a device once, and no device is on both of a kind; every
\* registered device is on the lists of its kinds, and what is left suspended
\* has not been moved.
ListInv ==
  /\ OnceIn(Devices, list) /\ OnceIn(Devices, suspended)
  /\ OnceIn(Devices, early) /\ OnceIn(Devices, noirq)
  /\ Range(list) \cup Range(suspended) \subseteq Normal
  /\ Range(early) \cup Range(noirq) \subseteq Noirq
  /\ Range(list) \cap Range(suspended) = {} /\ Range(early) \cap Range(noirq) = {}
  /\ half # None => half \in Noirq /\ InNormal(half) /\ ~InNoirq(half)
  /\ \A d \in reg : /\ d \in Normal => InNormal(d)
                    /\ d \in Noirq => InNoirq(d)
  /\ left \subseteq Range(early)

\* What is down is on the lists of suspended devices, in the same order; a
\* device leaves dpm_suspended_list before its resume callback runs.
DownInv ==
  /\ downNoirq = noirq
  /\ \/ down = suspended
     \/ pc = "resume" /\ cb # None /\ down = <<cb>> \o suspended
  /\ cb \notin Range(suspended)

\* What each phase of the call may rely on.
PhaseInv ==
  /\ cb # None => pc \in {"suspend", "resume"}
  /\ running <=> pc \in {"idle", "suspend", "begun", "resume", "end"}
  /\ pc \in {"idle", "suspend", "begun", "prepare", "check", "resume", "end"} => irqs
  /\ pc \in {"idle", "end"} => suspended = <<>>
  /\ pc \notin {"noirq", "devices", "asleep", "wake", "resumeNoirq"} => noirq = <<>>
  /\ pc \in {"begun", "prepare", "check", "noirq", "devices", "asleep"}
       /\ "late" \notin odd => list = <<>>
  /\ pc \in {"devices", "asleep"} /\ "unmasked" \notin odd => early = <<>>
  /\ pc \in {"noirq", "devices", "asleep"} /\ "unmasked" \notin odd => ~irqs

\* Without a registration the devices still to be resumed are, turned round,
\* what is missing at the head of the lists.
OrderInv ==
  pc # "idle" /\ "mid" \notin odd =>
    /\ Restored(before[1], suspended, list) /\ Restored(before[2], noirq, early)
    /\ pc = "suspend" /\ cb # None => list # <<>> /\ cb = Head(list)

\* The rest of SuTypeOK.
TypeInv ==
  /\ half \in Devices \cup {None} /\ cb \in Normal \cup {None} /\ reg \subseteq Devices
  /\ test \in Tests \cup {"none"} /\ mode \in Modes \cup {"none"}
  /\ pc \in {"idle", "suspend", "begun", "prepare", "check", "noirq", "devices",
             "asleep", "wake", "resumeNoirq", "finish", "resume", "end"}
  /\ ret \in {"zero", "fail", "wake"} /\ error \in BOOLEAN /\ wakeup \in BOOLEAN
  /\ irqs \in BOOLEAN /\ running \in BOOLEAN /\ pending \in BOOLEAN
  /\ odd \subseteq {"mid", "late", "unmasked"}
  /\ before \in Seq(Devices) \X Seq(Devices)

SInv == ListInv /\ DownInv /\ PhaseInv /\ OrderInv /\ TypeInv

LEMMA DeviceKinds == /\ None \notin Devices /\ Normal \subseteq Devices
                     /\ Noirq \subseteq Devices
BY SuspendAssumption

LEMMA NothingBefore == <<<<>>, <<>>>> \in Seq(Devices) \X Seq(Devices)
<1>1. <<>> \in Seq(Devices)
  OBVIOUS
<1> QED BY <1>1

LEMMA InitSInv == Init => SInv
<1> SUFFICES ASSUME Init PROVE SInv
  OBVIOUS
<1>1. ListInv
  BY EmptyList DEF Init, Boot, ListInv
<1>2. DownInv
  BY EmptyList DEF Init, Boot, DownInv
<1>3. PhaseInv
  BY DEF Init, Boot, PhaseInv
<1>4. OrderInv
  BY DEF Init, Boot, OrderInv
<1>5. TypeInv
  <2>1. /\ error \in BOOLEAN /\ wakeup \in BOOLEAN
        /\ irqs \in BOOLEAN /\ running \in BOOLEAN /\ pending \in BOOLEAN
    BY DEF Init, Boot
  <2> QED BY <2>1, NothingBefore DEF Init, Boot, TypeInv
<1> QED BY <1>1, <1>2, <1>3, <1>4, <1>5 DEF SInv

LEMMA RebootSInv == Reboot => SInv'
<1> SUFFICES ASSUME Reboot PROVE SInv'
  OBVIOUS
<1>1. ListInv'
  BY EmptyList DEF Reboot, ListInv
<1>2. DownInv'
  BY EmptyList DEF Reboot, DownInv
<1>3. PhaseInv'
  BY DEF Reboot, PhaseInv
<1>4. OrderInv'
  BY DEF Reboot, OrderInv
<1>5. TypeInv'
  <2>1. /\ error' \in BOOLEAN /\ wakeup' \in BOOLEAN
        /\ irqs' \in BOOLEAN /\ running' \in BOOLEAN /\ pending' \in BOOLEAN
    BY DEF Reboot
  <2> QED BY <2>1, NothingBefore DEF Reboot, TypeInv
<1> QED BY <1>1, <1>2, <1>3, <1>4, <1>5 DEF SInv

\* Steps that leave the lists and what is registered alone.
LEMMA QuietLists ==
  ASSUME ListInv, UNCHANGED <<lists, half, reg, left>>
  PROVE  ListInv'
BY DEF ListInv, lists, InNormal, InNoirq

LEMMA QuietDown ==
  ASSUME DownInv, UNCHANGED <<lists, cb, down, downNoirq>>, cb = None \/ pc' = pc
  PROVE  DownInv'
BY DEF DownInv, lists

LEMMA QuietOrder ==
  ASSUME OrderInv, UNCHANGED <<lists, before>>, odd \subseteq odd', pc = "idle" => pc' = "idle",
         pc' = "suspend" => cb' = None \/ (cb' = cb /\ pc = "suspend")
  PROVE  OrderInv'
BY DEF OrderInv, lists

-----------------------------------------------------------------------------
(* Steps of the call that leave the lists alone *)

\* The parts of TypeInv one by one: what a step gives a variable.
LEMMA TypeParts ==
  ASSUME TypeInv,
         half' \in Devices \cup {None}, cb' \in Normal \cup {None}, reg' \subseteq Devices,
         test' \in Tests \cup {"none"}, mode' \in Modes \cup {"none"},
         pc' \in {"idle", "suspend", "begun", "prepare", "check", "noirq", "devices",
                  "asleep", "wake", "resumeNoirq", "finish", "resume", "end"},
         ret' \in {"zero", "fail", "wake"},
         error' \in BOOLEAN, wakeup' \in BOOLEAN,
         irqs' \in BOOLEAN, running' \in BOOLEAN, pending' \in BOOLEAN,
         odd' \subseteq {"mid", "late", "unmasked"},
         before' \in Seq(Devices) \X Seq(Devices)
  PROVE  TypeInv'
BY DEF TypeInv

\* Where the call is, and nothing else.
LEMMA GoSInv ==
  ASSUME SInv, UNCHANGED <<lists, test, call, system, drivers, history>>,
         \/ pc = "suspend" /\ cb = None /\ list = <<>> /\ pc' = "begun"
         \/ pc = "noirq" /\ early = <<>> /\ pc' = "devices"
         \/ pc = "asleep" /\ pc' = "wake"
         \/ pc = "wake" /\ pc' = "resumeNoirq"
         \/ pc = "resumeNoirq" /\ noirq = <<>> /\ pc' = "finish"
         \/ pc = "resume" /\ cb = None /\ suspended = <<>> /\ pc' = "end"
  PROVE  SInv'
<1> USE DEF lists, call, system, drivers, history
<1>1. ListInv'
  BY QuietLists DEF SInv
<1>2. cb = None
  BY DEF SInv, PhaseInv
<1>3. DownInv'
  BY <1>2, QuietDown DEF SInv
<1>4. PhaseInv'
  BY <1>2 DEF SInv, PhaseInv
<1>5. OrderInv'
  BY <1>2, QuietOrder DEF SInv
<1>6. TypeInv'
  BY TypeParts DEF SInv, TypeInv
<1> QED BY <1>1, <1>3, <1>4, <1>5, <1>6 DEF SInv

LEMMA SetTestLevelSInv ==
  ASSUME SInv, NEW l \in Tests, SetTestLevel(l)
  PROVE  SInv'
<1> USE DEF SetTestLevel, lists, call, system, drivers, history
<1>1. ListInv'
  BY QuietLists DEF SInv
<1>2. cb = None \/ pc' = pc
  BY DEF SInv, PhaseInv
<1>3. DownInv'
  BY <1>2, QuietDown DEF SInv
<1>4. PhaseInv'
  BY <1>2 DEF SInv, PhaseInv
<1>5. OrderInv'
  BY <1>2, QuietOrder DEF SInv
<1>6. TypeInv'
  BY TypeParts DEF SInv, TypeInv
<1> QED BY <1>1, <1>3, <1>4, <1>5, <1>6 DEF SInv

LEMMA ArrivesSInv ==
  ASSUME SInv, Arrives
  PROVE  SInv'
<1> USE DEF Arrives, lists, call, system, drivers, history
<1>1. ListInv'
  BY QuietLists DEF SInv
<1>2. cb = None \/ pc' = pc
  BY DEF SInv, PhaseInv
<1>3. DownInv'
  BY <1>2, QuietDown DEF SInv
<1>4. PhaseInv'
  BY <1>2 DEF SInv, PhaseInv
<1>5. OrderInv'
  BY <1>2, QuietOrder DEF SInv
<1>6. pending' \in BOOLEAN
  BY DEF SInv, TypeInv
<1>7. TypeInv'
  BY <1>6, TypeParts DEF SInv, TypeInv
<1> QED BY <1>1, <1>3, <1>4, <1>5, <1>7 DEF SInv

LEMMA HandledSInv ==
  ASSUME SInv, Handled
  PROVE  SInv'
<1> USE DEF Handled, lists, call, system, drivers, history
<1>1. ListInv'
  BY QuietLists DEF SInv
<1>2. cb = None \/ pc' = pc
  BY DEF SInv, PhaseInv
<1>3. DownInv'
  BY <1>2, QuietDown DEF SInv
<1>4. PhaseInv'
  BY <1>2 DEF SInv, PhaseInv
<1>5. OrderInv'
  BY <1>2, QuietOrder DEF SInv
<1>6. pending' \in BOOLEAN
  BY DEF SInv, TypeInv
<1>7. TypeInv'
  BY <1>6, TypeParts DEF SInv, TypeInv
<1> QED BY <1>1, <1>3, <1>4, <1>5, <1>7 DEF SInv

LEMMA SuspendSchedulerSInv ==
  ASSUME SInv, SuspendScheduler
  PROVE  SInv'
<1> USE DEF SuspendScheduler, lists, call, system, drivers, history, Go
<1>1. ListInv'
  BY QuietLists DEF SInv
<1>2. cb = None \/ pc' = pc
  BY DEF SInv, PhaseInv
<1>3. DownInv'
  BY <1>2, QuietDown DEF SInv
<1>4. PhaseInv'
  BY <1>2 DEF SInv, PhaseInv
<1>5. OrderInv'
  BY <1>2, QuietOrder DEF SInv
<1>6. running' \in BOOLEAN
  OBVIOUS
<1>7. TypeInv'
  BY <1>6, TypeParts DEF SInv, TypeInv
<1> QED BY <1>1, <1>3, <1>4, <1>5, <1>7 DEF SInv

LEMMA PrepareSInv ==
  ASSUME SInv, Prepare
  PROVE  SInv'
<1> USE DEF Prepare, lists, call, system, drivers, history
<1>1. ListInv'
  BY QuietLists DEF SInv
<1>2. cb = None \/ pc' = pc
  BY DEF SInv, PhaseInv
<1>3. DownInv'
  BY <1>2, QuietDown DEF SInv
<1>4. PhaseInv'
  BY <1>2 DEF SInv, PhaseInv
<1>5. OrderInv'
  BY <1>2, QuietOrder DEF SInv
<1>6. error' \in BOOLEAN
  BY DEF SInv, TypeInv
<1>7. TypeInv'
  BY <1>6, TypeParts DEF SInv, TypeInv
<1> QED BY <1>1, <1>3, <1>4, <1>5, <1>7 DEF SInv

LEMMA NoirqFailsSInv ==
  ASSUME SInv, NoirqFails
  PROVE  SInv'
<1> USE DEF NoirqFails, lists, call, system, drivers, history
<1>1. ListInv'
  BY QuietLists DEF SInv
<1>2. cb = None \/ pc' = pc
  BY DEF SInv, PhaseInv
<1>3. DownInv'
  BY <1>2, QuietDown DEF SInv
<1>4. PhaseInv'
  BY <1>2 DEF SInv, PhaseInv
<1>5. OrderInv'
  BY <1>2, QuietOrder DEF SInv
<1>6. TypeInv'
  BY TypeParts DEF SInv, TypeInv
<1> QED BY <1>1, <1>3, <1>4, <1>5, <1>6 DEF SInv

LEMMA NoirqUnmasksSInv ==
  ASSUME SInv, NoirqUnmasks
  PROVE  SInv'
<1> USE DEF NoirqUnmasks, lists, call, system, drivers, history
<1>1. ListInv'
  <2>1. OnceIn(Devices, early) /\ early # <<>>
    BY DEF SInv, ListInv
  <2>2. Head(early) \in Range(early)
    BY <2>1, HeadList
  <2> QED BY <2>2 DEF SInv, ListInv, InNormal, InNoirq
<1>2. cb = None \/ pc' = pc
  BY DEF SInv, PhaseInv
<1>3. DownInv'
  BY <1>2, QuietDown DEF SInv
<1>4. PhaseInv'
  BY <1>2 DEF SInv, PhaseInv
<1>5. OrderInv'
  BY <1>2, QuietOrder DEF SInv
<1>6. TypeInv'
  BY TypeParts DEF SInv, TypeInv
<1> QED BY <1>1, <1>3, <1>4, <1>5, <1>6 DEF SInv

LEMMA EnterSInv ==
  ASSUME SInv, Enter
  PROVE  SInv'
<1> USE DEF Enter, lists, call, system, drivers, history
<1>1. ListInv'
  BY QuietLists DEF SInv
<1>2. cb = None \/ pc' = pc
  BY DEF SInv, PhaseInv
<1>3. DownInv'
  BY <1>2, QuietDown DEF SInv
<1>4. PhaseInv'
  BY <1>2 DEF SInv, PhaseInv
<1>5. OrderInv'
  BY <1>2, QuietOrder DEF SInv
<1>6. TypeInv'
  BY TypeParts DEF SInv, TypeInv
<1> QED BY <1>1, <1>3, <1>4, <1>5, <1>6 DEF SInv

LEMMA FinishSInv ==
  ASSUME SInv, Finish
  PROVE  SInv'
<1> USE DEF Finish, lists, call, system, drivers, history, Go
<1>1. ListInv'
  BY QuietLists DEF SInv
<1>2. cb = None \/ pc' = pc
  BY DEF SInv, PhaseInv
<1>3. DownInv'
  BY <1>2, QuietDown DEF SInv
<1>4. PhaseInv'
  BY <1>2 DEF SInv, PhaseInv
<1>5. OrderInv'
  BY <1>2, QuietOrder DEF SInv
<1>6. TypeInv'
  BY TypeParts DEF SInv, TypeInv
<1> QED BY <1>1, <1>3, <1>4, <1>5, <1>6 DEF SInv

\* What is remembered of the lists is what they are, and none is suspended.
LEMMA BeginSInv ==
  ASSUME SInv, NEW m \in Modes, Begin(m)
  PROVE  SInv'
<1> USE DEF Begin, lists, call, system, drivers
<1>1. ListInv'
  BY QuietLists DEF SInv
<1>2. cb = None /\ cb' = None
  BY DEF SInv, PhaseInv
<1>3. DownInv'
  BY <1>2, QuietDown DEF SInv
<1>4. PhaseInv'
  BY <1>2 DEF SInv, PhaseInv
<1>5. OrderInv'
  <2>1. list \in Seq(Devices) /\ early \in Seq(Devices) /\ OnceIn(Devices, list) /\ OnceIn(Devices, early)
    BY DEF SInv, ListInv, OnceIn
  <2>2. Restored(list, <<>>, list) /\ Restored(early, <<>>, early)
    BY <2>1, RestoredNone
  <2>3. suspended' = <<>> /\ noirq' = <<>>
    BY DEF SInv, PhaseInv
  <2>4. before'[1] = list /\ before'[2] = early /\ list' = list /\ early' = early
    OBVIOUS
  <2> QED BY <1>2, <2>2, <2>3, <2>4 DEF OrderInv
<1>6. before' \in Seq(Devices) \X Seq(Devices)
  BY DEF SInv, ListInv, OnceIn
<1>7. TypeInv'
  BY <1>6, TypeParts DEF SInv, TypeInv
<1> QED BY <1>1, <1>3, <1>4, <1>5, <1>7 DEF SInv

LEMMA SuspendDeviceSInv ==
  ASSUME SInv, SuspendDevice
  PROVE  SInv'
<1> USE DEF SuspendDevice, lists, call, system, drivers, history
<1>1. ListInv'
  BY QuietLists DEF SInv
<1>2. cb' \in Range(list) /\ cb' \in Normal
  BY HeadList DEF SInv, ListInv
<1>3. DownInv'
  BY <1>2 DEF SInv, DownInv, ListInv
<1>4. PhaseInv'
  BY DEF SInv, PhaseInv
<1>5. OrderInv'
  BY DEF SInv, OrderInv
<1>6. TypeInv'
  BY <1>2, TypeParts DEF SInv, TypeInv
<1> QED BY <1>1, <1>3, <1>4, <1>5, <1>6 DEF SInv

LEMMA DisableIrqsSInv ==
  ASSUME SInv, DisableIrqs
  PROVE  SInv'
<1>1. CASE pending /\ mode = "hibernation"
  BY <1>1, RebootSInv DEF DisableIrqs
<1>2. CASE ~(pending /\ mode = "hibernation")
  <2> USE <1>2 DEF DisableIrqs, lists, call, system, drivers, history
  <2>1. ListInv'
    BY QuietLists DEF SInv
  <2>2. cb = None
    BY DEF SInv, PhaseInv
  <2>3. DownInv'
    BY <2>2, QuietDown DEF SInv
  <2>4. PhaseInv'
    BY <2>2 DEF SInv, PhaseInv
  <2>5. OrderInv'
    BY <2>2, QuietOrder DEF SInv
  <2>6. irqs' \in BOOLEAN /\ wakeup' \in BOOLEAN /\ error' \in BOOLEAN
    BY DEF SInv, TypeInv
  <2>7. TypeInv'
    BY <2>6, TypeParts DEF SInv, TypeInv
  <2> QED BY <2>1, <2>3, <2>4, <2>5, <2>7 DEF SInv
<1> QED BY <1>1, <1>2

LEMMA WakeSInv ==
  ASSUME SInv, Wake
  PROVE  SInv'
<1>1. CASE mode = "hibernation" /\ pending
  BY <1>1, RebootSInv DEF Wake
<1>2. CASE ~(mode = "hibernation" /\ pending)
  BY <1>2, GoSInv DEF Wake
<1> QED BY <1>1, <1>2

LEMMA EndSInv ==
  ASSUME SInv, End
  PROVE  SInv'
<1> USE DEF End, Go, lists, call, system, drivers
<1>1. ListInv'
  BY QuietLists DEF SInv
<1>2. cb = None
  BY DEF SInv, PhaseInv
<1>3. DownInv'
  BY <1>2, QuietDown DEF SInv
<1>4. PhaseInv'
  BY <1>2 DEF SInv, PhaseInv
<1>5. OrderInv'
  BY DEF OrderInv
<1>6. before' \in Seq(Devices) \X Seq(Devices)
  BY NothingBefore
<1>7. TypeInv'
  BY <1>6, TypeParts DEF SInv, TypeInv
<1> QED BY <1>1, <1>3, <1>4, <1>5, <1>7 DEF SInv

-----------------------------------------------------------------------------
(* Steps of the call that move a device *)

\* The device may have been unregistered, and registered again, meanwhile.
LEMMA SuspendedSInv ==
  ASSUME SInv, Suspended
  PROVE  SInv'
<1> USE DEF Suspended, call, system, drivers
<1>1. CASE pc' = "resume" /\ ret' = "fail" /\ UNCHANGED <<lists, down>>
  <2> USE <1>1 DEF lists
  <2>1. ListInv'
    BY QuietLists DEF SInv
  <2>2. DownInv'
    BY DeviceKinds DEF SInv, DownInv, ListInv
  <2>3. PhaseInv'
    BY DEF SInv, PhaseInv
  <2>4. OrderInv'
    BY QuietOrder DEF SInv
  <2>5. TypeInv'
    BY TypeParts DEF SInv, TypeInv
  <2> QED BY <2>1, <2>2, <2>3, <2>4, <2>5 DEF SInv
<1>2. CASE /\ list' = Without(list, cb)
           /\ suspended' = <<cb>> \o Without(suspended, cb)
           /\ down' = <<cb>> \o down
           /\ UNCHANGED <<early, noirq, pc, ret>>
  <2> USE <1>2
  <2>1. /\ cb \in Normal /\ cb \in Devices /\ cb \notin Range(suspended)
        /\ OnceIn(Devices, list) /\ OnceIn(Devices, suspended)
    BY DeviceKinds DEF SInv, TypeInv, DownInv, ListInv
  <2>2. Without(suspended, cb) = suspended /\ suspended' = <<cb>> \o suspended
    BY <2>1, WithoutList
  <2>3. /\ OnceIn(Devices, list') /\ Range(list') = Range(list) \ {cb}
        /\ OnceIn(Devices, suspended') /\ Range(suspended') = Range(suspended) \cup {cb}
    BY <2>1, <2>2, WithoutList, ConsDevice
  <2>4. ListInv'
    BY <2>1, <2>3 DEF SInv, ListInv, InNormal, InNoirq
  <2>5. DownInv'
    BY <2>2, <2>3, DeviceKinds DEF SInv, DownInv, ListInv
  <2>6. PhaseInv'
    BY DEF SInv, PhaseInv
  <2>7. OrderInv'
    <3> SUFFICES ASSUME "mid" \notin odd PROVE OrderInv'
      BY DEF OrderInv
    <3>1. /\ Restored(before[1], suspended, list) /\ Restored(before[2], noirq, early)
          /\ list # <<>> /\ cb = Head(list) /\ before[1] \in Seq(Devices)
      BY DEF SInv, OrderInv, TypeInv
    <3>2. /\ list = <<cb>> \o Tail(list) /\ OnceIn(Devices, Tail(list))
          /\ cb \notin Range(Tail(list))
      BY <2>1, <3>1, HeadList
    <3>3. Without(<<cb>> \o Tail(list), cb) = Tail(list)
      BY <2>1, <3>2, WithoutCons
    <3>4. list' = Tail(list)
      BY <3>2, <3>3
    <3>5. Restored(before[1], suspended, <<cb>> \o Tail(list))
      BY <3>1, <3>2
    <3>6. Restored(before[1], <<cb>> \o suspended, Tail(list))
      BY <2>1, <3>1, <3>2, <3>5, RestoredMove
    <3>7. Restored(before[1], suspended', list')
      BY <2>2, <3>4, <3>6
    <3> QED BY <3>1, <3>7 DEF OrderInv
  <2>8. TypeInv'
    BY TypeParts DEF SInv, TypeInv
  <2> QED BY <2>4, <2>5, <2>6, <2>7, <2>8 DEF SInv
<1> QED BY <1>1, <1>2

LEMMA NoirqSuspendedSInv ==
  ASSUME SInv, NoirqSuspended
  PROVE  SInv'
<1>1. CASE pending /\ mode = "hibernation"
  BY <1>1, RebootSInv DEF NoirqSuspended
<1>2. CASE ~(pending /\ mode = "hibernation")
  <2> USE <1>2 DEF NoirqSuspended, system, drivers
  <2> DEFINE d == Head(early)
  <2>1. /\ OnceIn(Devices, early) /\ OnceIn(Devices, noirq) /\ early # <<>>
        /\ Range(early) \cap Range(noirq) = {}
    BY DEF SInv, ListInv
  <2>2. /\ OnceIn(Devices, early') /\ d \in Range(early) /\ d \in Devices /\ d \notin Range(early')
        /\ Range(early') = Range(early) \ {d} /\ early = <<d>> \o early'
    <3>1. early' = Tail(early)
      OBVIOUS
    <3> QED BY <2>1, <3>1, HeadList
  <2>3. d \notin Range(noirq) /\ noirq' = <<d>> \o noirq
    BY <2>1, <2>2
  <2> HIDE DEF d
  <2>4. OnceIn(Devices, noirq') /\ Range(noirq') = Range(noirq) \cup {d}
    BY <2>1, <2>2, <2>3, ConsDevice
  <2>5. ListInv'
    BY <2>2, <2>4 DEF SInv, ListInv, InNormal, InNoirq
  <2>6. cb = None
    BY DEF SInv, PhaseInv
  <2>7. DownInv'
    BY <2>6 DEF SInv, DownInv
  <2>8. PhaseInv'
    BY <2>6 DEF SInv, PhaseInv
  <2>9. OrderInv'
    <3> SUFFICES ASSUME "mid" \notin odd PROVE OrderInv'
      BY DEF OrderInv
    <3>1. /\ Restored(before[1], suspended, list) /\ Restored(before[2], noirq, early)
          /\ before[2] \in Seq(Devices)
      BY DEF SInv, OrderInv, TypeInv
    <3>2. Restored(before[2], noirq, <<d>> \o early')
      BY <2>2, <3>1
    <3>3. Restored(before[2], <<d>> \o noirq, early')
      BY <2>1, <2>2, <2>3, <3>1, <3>2, RestoredMove
    <3>4. Restored(before[2], noirq', early')
      BY <2>3, <3>3
    <3> QED BY <2>6, <3>1, <3>4 DEF OrderInv
  <2>10. error' \in BOOLEAN
    BY DEF SInv, TypeInv
  <2>11. TypeInv'
    BY <2>10, TypeParts DEF SInv, TypeInv
  <2> QED BY <2>5, <2>7, <2>8, <2>9, <2>11 DEF SInv
<1> QED BY <1>1, <1>2

LEMMA ResumeNoirqSInv ==
  ASSUME SInv, ResumeNoirq
  PROVE  SInv' /\ downNoirq = <<Head(noirq)>> \o downNoirq'
<1> USE DEF ResumeNoirq, call, system, drivers
<1> DEFINE d == Head(noirq)
<1>1. /\ OnceIn(Devices, early) /\ OnceIn(Devices, noirq) /\ noirq # <<>>
      /\ Range(early) \cap Range(noirq) = {}
  BY DEF SInv, ListInv
<1>2. /\ OnceIn(Devices, noirq') /\ d \in Range(noirq) /\ d \in Devices /\ d \notin Range(noirq')
      /\ Range(noirq') = Range(noirq) \ {d} /\ noirq = <<d>> \o noirq'
  BY <1>1, HeadList
<1>3. d \notin Range(early) /\ early' = <<d>> \o early
  BY <1>1, <1>2
<1>4. downNoirq = noirq /\ downNoirq' = noirq'
  <2>1. downNoirq = noirq /\ downNoirq' = Without(noirq, d)
    BY DEF SInv, DownInv
  <2>2. Without(<<d>> \o noirq', d) = noirq'
    BY <1>2, WithoutCons
  <2> QED BY <1>2, <2>1, <2>2
<1> HIDE DEF d
<1>5. OnceIn(Devices, early') /\ Range(early') = Range(early) \cup {d}
  BY <1>1, <1>2, <1>3, ConsDevice
<1>6. ListInv'
  BY <1>2, <1>5 DEF SInv, ListInv, InNormal, InNoirq
<1>7. cb = None
  BY DEF SInv, PhaseInv
<1>8. DownInv'
  BY <1>4, <1>7 DEF SInv, DownInv
<1>9. PhaseInv'
  BY <1>7 DEF SInv, PhaseInv
<1>10. OrderInv'
  <2> SUFFICES ASSUME "mid" \notin odd PROVE OrderInv'
    BY DEF OrderInv
  <2>1. /\ Restored(before[1], suspended, list) /\ Restored(before[2], noirq, early)
        /\ before[2] \in Seq(Devices)
    BY DEF SInv, OrderInv, TypeInv
  <2>2. Restored(before[2], <<d>> \o noirq', early)
    BY <1>2, <2>1
  <2>3. Restored(before[2], noirq', <<d>> \o early)
    BY <1>1, <1>2, <1>3, <2>1, <2>2, RestoredMove
  <2>4. Restored(before[2], noirq', early')
    BY <1>3, <2>3
  <2> QED BY <1>7, <2>1, <2>4 DEF OrderInv
<1>11. TypeInv'
  BY TypeParts DEF SInv, TypeInv
<1>12. downNoirq = <<Head(noirq)>> \o downNoirq'
  BY <1>2, <1>4 DEF d
<1> QED BY <1>6, <1>8, <1>9, <1>10, <1>11, <1>12 DEF SInv

LEMMA ResumeDeviceSInv ==
  ASSUME SInv, ResumeDevice
  PROVE  SInv'
<1> USE DEF ResumeDevice, system, drivers, history
<1> DEFINE d == Head(suspended)
<1>1. /\ OnceIn(Devices, list) /\ OnceIn(Devices, suspended) /\ suspended # <<>>
      /\ Range(list) \cap Range(suspended) = {}
  BY DEF SInv, ListInv
<1>2. /\ OnceIn(Devices, suspended') /\ d \in Range(suspended) /\ d \in Devices
      /\ d \notin Range(suspended') /\ Range(suspended') = Range(suspended) \ {d}
      /\ suspended = <<d>> \o suspended'
  BY <1>1, HeadList
<1>3. d \notin Range(list) /\ list' = <<d>> \o list /\ cb' = d
  BY <1>1, <1>2
<1>4. d \in Normal
  BY <1>2 DEF SInv, ListInv
<1> HIDE DEF d
<1>5. OnceIn(Devices, list') /\ Range(list') = Range(list) \cup {d}
  <2>1. OnceIn(Devices, <<d>> \o list) /\ Range(<<d>> \o list) = Range(list) \cup {d}
    BY <1>1, <1>2, <1>3, ConsDevice
  <2> QED BY <1>3, <2>1
<1>6. ListInv'
  BY <1>2, <1>4, <1>5 DEF SInv, ListInv, InNormal, InNoirq
<1>7. DownInv'
  BY <1>2, <1>3, <1>4, DeviceKinds DEF SInv, DownInv
<1>8. PhaseInv'
  BY DEF SInv, PhaseInv
<1>9. OrderInv'
  <2> SUFFICES ASSUME "mid" \notin odd PROVE OrderInv'
    BY DEF OrderInv
  <2>1. /\ Restored(before[1], suspended, list) /\ Restored(before[2], noirq, early)
        /\ before[1] \in Seq(Devices)
    BY DEF SInv, OrderInv, TypeInv
  <2>2. Restored(before[1], <<d>> \o suspended', list)
    BY <1>2, <2>1
  <2>3. Restored(before[1], suspended', <<d>> \o list)
    BY <1>1, <1>2, <1>3, <2>1, <2>2, RestoredMove
  <2>4. Restored(before[1], suspended', list')
    BY <1>3, <2>3
  <2> QED BY <2>1, <2>4 DEF OrderInv
<1>10. TypeInv'
  BY <1>3, <1>4, TypeParts DEF SInv, TypeInv
<1> QED BY <1>6, <1>7, <1>8, <1>9, <1>10 DEF SInv

\* If the device was unregistered meanwhile, it is not down any more.
LEMMA ResumedDown ==
  ASSUME SInv, Resumed
  PROVE  /\ down' = suspended /\ (down = suspended \/ down = <<cb>> \o suspended)
         /\ cb \in Devices /\ cb \notin Range(suspended) /\ OnceIn(Devices, suspended)
<1> USE DEF Resumed
<1>1. cb \in Devices /\ cb \notin Range(suspended) /\ OnceIn(Devices, suspended)
  BY DeviceKinds DEF SInv, TypeInv, DownInv, ListInv
<1>2. CASE down = suspended
  BY <1>1, <1>2, WithoutList
<1>3. CASE down = <<cb>> \o suspended
  BY <1>1, <1>3, WithoutCons
<1> QED BY <1>1, <1>2, <1>3 DEF SInv, DownInv

LEMMA ResumedSInv ==
  ASSUME SInv, Resumed
  PROVE  SInv'
<1> USE DEF Resumed, lists, system, drivers
<1>1. ListInv'
  BY QuietLists DEF SInv
<1>2. DownInv'
  BY ResumedDown, DeviceKinds DEF SInv, DownInv, ListInv
<1>3. PhaseInv'
  BY DEF SInv, PhaseInv
<1>4. OrderInv'
  BY QuietOrder DEF SInv
<1>5. TypeInv'
  BY TypeParts DEF SInv, TypeInv
<1> QED BY <1>1, <1>2, <1>3, <1>4, <1>5 DEF SInv

-----------------------------------------------------------------------------
(* Drivers register and unregister devices *)

\* list_del from what is down, which is the suspended list or that behind the
\* device whose resume callback runs.
LEMMA DownWithout ==
  ASSUME SInv, NEW d
  PROVE  \/ Without(down, d) = Without(suspended, d)
         \/ /\ pc = "resume" /\ cb # None /\ d # cb
            /\ Without(down, d) = <<cb>> \o Without(suspended, d)
<1>1. CASE down = suspended
  BY <1>1
<1>2. CASE pc = "resume" /\ cb # None /\ down = <<cb>> \o suspended
  <2>1. cb \in Devices /\ cb \notin Range(suspended) /\ OnceIn(Devices, suspended)
    BY <1>2, DeviceKinds DEF SInv, TypeInv, DownInv, ListInv
  <2>2. d = cb => Without(down, d) = suspended
    BY <1>2, <2>1, WithoutCons
  <2>3. d # cb => Without(down, d) = <<cb>> \o Without(suspended, d)
    BY <1>2, <2>1, WithoutDevice
  <2>4. d = cb => Without(suspended, d) = suspended
    BY <2>1, WithoutList
  <2> QED BY <1>2, <2>2, <2>3, <2>4
<1> QED BY <1>1, <1>2 DEF SInv, DownInv

LEMMA RegisterSInv ==
  ASSUME SInv, NEW d \in Devices, Register(d)
  PROVE  SInv'
<1> USE DEF Register, call, system
<1>1. /\ OnceIn(Devices, list) /\ OnceIn(Devices, early)
      /\ OnceIn(Devices, suspended) /\ OnceIn(Devices, noirq)
      /\ d \notin Range(list) /\ d \notin Range(suspended)
      /\ d \notin Range(early) /\ d \notin Range(noirq)
  BY DEF SInv, ListInv, InNormal, InNoirq
<1>2. /\ OnceIn(Devices, <<d>> \o list) /\ Range(<<d>> \o list) = Range(list) \cup {d}
      /\ OnceIn(Devices, <<d>> \o early) /\ Range(<<d>> \o early) = Range(early) \cup {d}
  BY <1>1, ConsDevice
<1>3. ListInv'
  <2>1. \/ d \in Normal /\ list' = <<d>> \o list
        \/ d \notin Normal /\ list' = list
    OBVIOUS
  <2>2. /\ OnceIn(Devices, list')
        /\ Range(list') = IF d \in Normal THEN Range(list) \cup {d} ELSE Range(list)
    BY <1>1, <1>2, <2>1
  <2>3. \/ /\ d \in Normal /\ d \in Noirq
           /\ half' = d /\ early' = early /\ reg' = reg
        \/ /\ half' = None /\ reg' = reg \cup {d} /\ d \notin Noirq /\ early' = early
        \/ /\ half' = None /\ reg' = reg \cup {d} /\ d \in Noirq
           /\ early' = <<d>> \o early
    OBVIOUS
  <2>4. /\ OnceIn(Devices, early') /\ suspended' = suspended /\ noirq' = noirq
        /\ half' = None /\ d \in Noirq => Range(early') = Range(early) \cup {d}
        /\ half' # None \/ d \notin Noirq => Range(early') = Range(early)
    BY <1>1, <1>2, <2>3, DeviceKinds
  <2> QED BY <1>1, <2>2, <2>3, <2>4, DeviceKinds DEF SInv, ListInv, InNormal, InNoirq
<1>4. DownInv'
  <2>1. Without(suspended, d) = suspended /\ Without(downNoirq, d) = noirq
    BY <1>1, WithoutList DEF SInv, DownInv
  <2> QED BY <2>1, DownWithout DEF SInv, DownInv
<1>5. PhaseInv'
  BY DEF SInv, PhaseInv, Note, Transition
<1>6. OrderInv'
  BY DEF OrderInv, Note, Transition
<1>7. odd' \subseteq {"mid", "late", "unmasked"}
  BY DEF SInv, TypeInv, Note
<1>8. half' \in Devices \cup {None} /\ reg' \subseteq Devices
  BY DEF SInv, TypeInv
<1>9. /\ UNCHANGED <<cb, test, mode, pc, ret, error, wakeup, irqs, running, pending>>
      /\ before' \in Seq(Devices) \X Seq(Devices)
  BY NothingBefore
<1>10. TypeInv'
  <2>1. TypeInv
    BY DEF SInv
  <2> QED BY ONLY <1>7, <1>8, <1>9, <2>1, TypeParts DEF TypeInv
<1> QED BY <1>3, <1>4, <1>5, <1>6, <1>10 DEF SInv

LEMMA RegisterNoirqSInv ==
  ASSUME SInv, RegisterNoirq
  PROVE  SInv'
<1> USE DEF RegisterNoirq, call, system
<1>1. /\ OnceIn(Devices, early) /\ half \in Noirq /\ half \in Devices
      /\ half \notin Range(early) /\ half \notin Range(noirq)
  BY DeviceKinds DEF SInv, ListInv, InNoirq
<1>2. OnceIn(Devices, early') /\ Range(early') = Range(early) \cup {half}
  BY <1>1, ConsDevice
<1>3. ListInv'
  BY <1>1, <1>2 DEF SInv, ListInv, InNormal, InNoirq
<1>4. DownInv'
  BY DEF SInv, DownInv
<1>5. PhaseInv'
  BY DEF SInv, PhaseInv, Note, Transition
<1>6. OrderInv'
  BY DEF OrderInv, Note, Transition
<1>7. odd' \subseteq {"mid", "late", "unmasked"}
  BY DEF SInv, TypeInv, Note
<1>8. TypeInv'
  BY <1>1, <1>7, NothingBefore, TypeParts DEF SInv, TypeInv
<1> QED BY <1>3, <1>4, <1>5, <1>6, <1>8 DEF SInv

LEMMA UnregisterSInv ==
  ASSUME SInv, NEW d \in Devices, Unregister(d)
  PROVE  SInv'
<1> USE DEF Unregister, call, system
<1>1. OnceIn(Devices, list) /\ OnceIn(Devices, suspended) /\ OnceIn(Devices, early) /\ OnceIn(Devices, noirq)
  BY DEF SInv, ListInv
<1>2. /\ OnceIn(Devices, list') /\ Range(list') = Range(list) \ {d}
      /\ OnceIn(Devices, suspended') /\ Range(suspended') = Range(suspended) \ {d}
      /\ OnceIn(Devices, early') /\ Range(early') = Range(early) \ {d}
      /\ OnceIn(Devices, noirq') /\ Range(noirq') = Range(noirq) \ {d}
  BY <1>1, WithoutList
<1>3. ListInv'
  BY <1>2 DEF SInv, ListInv, InNormal, InNoirq
<1>4. DownInv'
  <2>1. downNoirq' = noirq'
    BY DEF SInv, DownInv
  <2>2. cb \notin Range(suspended')
    BY <1>2 DEF SInv, DownInv
  <2> QED BY <2>1, <2>2, DownWithout DEF DownInv
<1>5. PhaseInv'
  <2>1. /\ list = <<>> => list' = <<>>
        /\ suspended = <<>> => suspended' = <<>>
        /\ early = <<>> => early' = <<>>
        /\ noirq = <<>> => noirq' = <<>>
    BY <1>1, <1>2, OnceFacts
  <2> QED BY <2>1 DEF SInv, PhaseInv, Note, Transition
<1>6. OrderInv'
  BY DEF OrderInv, Note, Transition
<1>7. odd' \subseteq {"mid", "late", "unmasked"}
  BY DEF SInv, TypeInv, Note
<1>8. TypeInv'
  BY <1>7, NothingBefore, TypeParts DEF SInv, TypeInv
<1> QED BY <1>3, <1>4, <1>5, <1>6, <1>8 DEF SInv

-----------------------------------------------------------------------------
(* The theorems *)

LEMMA StepSInv ==
  ASSUME SInv, Step \/ Wake
  PROVE  SInv'
<1>1. CASE SuspendDevice
  BY <1>1, SuspendDeviceSInv
<1>2. CASE Suspended
  BY <1>2, SuspendedSInv
<1>3. CASE DevicesSuspended \/ AllNoirqSuspended \/ Woken \/ NoirqResumed \/ DevicesResumed
  BY <1>3, GoSInv DEF DevicesSuspended, AllNoirqSuspended, Woken, NoirqResumed,
                      DevicesResumed, Go
<1>4. CASE SuspendScheduler
  BY <1>4, SuspendSchedulerSInv
<1>5. CASE Prepare
  BY <1>5, PrepareSInv
<1>6. CASE DisableIrqs
  BY <1>6, DisableIrqsSInv
<1>7. CASE NoirqFails
  BY <1>7, NoirqFailsSInv
<1>8. CASE NoirqUnmasks
  BY <1>8, NoirqUnmasksSInv
<1>9. CASE NoirqSuspended
  BY <1>9, NoirqSuspendedSInv
<1>10. CASE Enter
  BY <1>10, EnterSInv
<1>11. CASE EnterReboots
  BY <1>11, RebootSInv DEF EnterReboots
<1>12. CASE Wake
  BY <1>12, WakeSInv
<1>13. CASE ResumeNoirq
  BY <1>13, ResumeNoirqSInv
<1>14. CASE Finish
  BY <1>14, FinishSInv
<1>15. CASE ResumeDevice
  BY <1>15, ResumeDeviceSInv
<1>16. CASE Resumed
  BY <1>16, ResumedSInv
<1>17. CASE End
  BY <1>17, EndSInv
<1> QED BY <1>1, <1>2, <1>3, <1>4, <1>5, <1>6, <1>7, <1>8, <1>9, <1>10, <1>11, <1>12,
           <1>13, <1>14, <1>15, <1>16, <1>17 DEF Step

LEMMA NextSInv == SInv /\ [Next]_vars => SInv'
<1> SUFFICES ASSUME SInv, [Next]_vars PROVE SInv'
  OBVIOUS
<1>1. ASSUME NEW d \in Devices, Register(d) PROVE SInv'
  BY <1>1, RegisterSInv
<1>2. ASSUME NEW d \in Devices, Unregister(d) PROVE SInv'
  BY <1>2, UnregisterSInv
<1>3. CASE RegisterNoirq
  BY <1>3, RegisterNoirqSInv
<1>4. ASSUME NEW l \in Tests, SetTestLevel(l) PROVE SInv'
  BY <1>4, SetTestLevelSInv
<1>5. ASSUME NEW m \in Modes, Begin(m) PROVE SInv'
  BY <1>5, BeginSInv
<1>6. CASE Step \/ Wake
  BY <1>6, StepSInv
<1>7. CASE Arrives
  BY <1>7, ArrivesSInv
<1>8. CASE Handled
  BY <1>8, HandledSInv
<1>9. CASE UNCHANGED vars
  <2> USE <1>9 DEF vars, lists, call, system, drivers, history
  <2>1. ListInv'
    BY DEF SInv, ListInv, InNormal, InNoirq
  <2>2. DownInv'
    BY DEF SInv, DownInv
  <2>3. PhaseInv'
    BY DEF SInv, PhaseInv
  <2>4. OrderInv'
    BY DEF SInv, OrderInv
  <2>5. TypeInv'
    BY TypeParts DEF SInv, TypeInv
  <2> QED BY <2>1, <2>2, <2>3, <2>4, <2>5 DEF SInv
<1> QED BY <1>1, <1>2, <1>3, <1>4, <1>5, <1>6, <1>7, <1>8, <1>9 DEF Next

LEMMA Invariant == Spec => []SInv
BY InitSInv, NextSInv, PTL DEF Spec

\* A list holds a device once and no two of a kind hold it, whatever drivers
\* register and unregister while suspend_devices_and_enter moves the devices.
THEOREM TypeCorrect == Spec => []SuTypeOK
<1>1. SInv => SuTypeOK
  <2> SUFFICES ASSUME SInv PROVE SuTypeOK
    OBVIOUS
  <2>1. /\ IsInjective(down) /\ Range(down) \subseteq Normal
        /\ IsInjective(downNoirq) /\ Range(downNoirq) \subseteq Noirq
    <3>1. CASE down = suspended
      BY <3>1 DEF SInv, DownInv, ListInv, OnceIn
    <3>2. CASE cb # None /\ down = <<cb>> \o suspended
      <4>1. cb \in Normal /\ cb \in Devices
        BY <3>2, DeviceKinds DEF SInv, TypeInv
      <4>2. OnceIn(Devices, down) /\ Range(down) = Range(suspended) \cup {cb}
        BY <3>2, <4>1, ConsList DEF SInv, DownInv, ListInv
      <4> QED BY <4>1, <4>2 DEF SInv, DownInv, ListInv, OnceIn
    <3> QED BY <3>1, <3>2 DEF SInv, DownInv
  <2>2. /\ \A s \in {list, suspended, down} : IsInjective(s) /\ Range(s) \subseteq Normal
        /\ \A s \in {early, noirq, downNoirq} : IsInjective(s) /\ Range(s) \subseteq Noirq
        /\ Range(list) \cap Range(suspended) = {} /\ Range(early) \cap Range(noirq) = {}
        /\ left \subseteq Noirq
    BY <2>1 DEF SInv, ListInv, OnceIn
  <2> QED BY <2>2, Zenon DEF SInv, TypeInv, SuTypeOK
<1> QED BY <1>1, Invariant, PTL

\* With nothing on the lists of what is down, all is up but what is left.
LEMMA RestUp ==
  ASSUME down = <<>>, downNoirq = <<>>
  PROVE  \A d \in Devices \ left : Status(d) = "up"
BY EmptyList, SuspendAssumption DEF Status, Down

\* When every device has been called and interrupts were left alone, all is
\* down and nothing else runs.
LEMMA QuietDevices ==
  ASSUME SInv, pc \in {"devices", "asleep"}, ~Missed
  PROVE  ~irqs /\ ~running /\ \A d \in reg : Down(d)
<1>1. "late" \notin odd /\ "unmasked" \notin odd
  BY DEF Missed
<1>2. ~irqs
  BY <1>1 DEF SInv, PhaseInv
<1>3. ~running
  BY DEF SInv, PhaseInv
<1>4. list = <<>> /\ early = <<>> /\ cb = None
  BY <1>1 DEF SInv, PhaseInv
<1>5. down = suspended /\ downNoirq = noirq
  BY <1>4 DEF SInv, DownInv
<1> QED BY <1>2, <1>3, <1>4, <1>5, EmptyList DEF SInv, ListInv, InNormal, InNoirq, Down

\* suspend_enter enters the mode with all of the registered devices' callbacks
\* done (pm.c:428), interrupts disabled and the scheduler stopped.
THEOREM AsleepAllDownAlways == Spec => []AsleepAllDown
<1>1. SInv => AsleepAllDown
  BY QuietDevices DEF AsleepAllDown
<1> QED BY <1>1, Invariant, PTL

\* Whichever callback fails, suspend_devices_and_enter returns with all up but
\* a device that noirq-suspended with interrupts enabled, and that one is where
\* the next call finds it.
THEOREM UpWhenBackAlways == Spec => []UpWhenBack
<1>1. SInv => UpWhenBack
  <2> SUFFICES ASSUME SInv, pc = "idle"
               PROVE  /\ irqs /\ running
                      /\ suspended = <<>> /\ noirq = <<>>
                      /\ \A d \in Devices \ left : Status(d) = "up"
                      /\ left \subseteq Range(early)
    BY DEF UpWhenBack, Transition
  <2>1. irqs
    BY DEF SInv, PhaseInv
  <2>2. running
    BY DEF SInv, PhaseInv
  <2>3. suspended = <<>> /\ noirq = <<>> /\ down = <<>> /\ downNoirq = <<>>
    BY DEF SInv, PhaseInv, DownInv
  <2>4. \A d \in Devices \ left : Status(d) = "up"
    BY <2>3, RestUp
  <2>5. left \subseteq Range(early)
    BY DEF SInv, ListInv
  <2> QED BY <2>1, <2>2, <2>3, <2>4, <2>5
<1> QED BY <1>1, Invariant, PTL

\* dpm_suspend and dpm_resume, and their noirq pair, turn the lists round twice.
THEOREM ListsRestoredAlways == Spec => []ListsRestored
<1>1. SInv => ListsRestored
  <2> SUFFICES ASSUME SInv, pc = "end", "mid" \notin odd PROVE before = <<list, early>>
    BY DEF ListsRestored
  <2>1. suspended = <<>> /\ noirq = <<>> /\ OnceIn(Devices, list) /\ OnceIn(Devices, early)
    BY DEF SInv, PhaseInv, ListInv
  <2>2. /\ Restored(before[1], <<>>, list) /\ Restored(before[2], <<>>, early)
        /\ before[1] \in Seq(Devices) /\ before[2] \in Seq(Devices)
    BY <2>1 DEF SInv, OrderInv, TypeInv
  <2>3. before[1] = list /\ before[2] = early
    BY <2>1, <2>2, RestoredNone
  <2>4. before = <<before[1], before[2]>>
    BY DEF SInv, TypeInv
  <2> QED BY <2>3, <2>4
<1> QED BY <1>1, Invariant, PTL

\* A device is resumed before those that were suspended ahead of it, and after
\* the noirq callbacks of all but one left suspended (dpm_resume,
\* dpm_resume_noirq).
THEOREM ResumeReversesAlways == Spec => ResumeReverses
<1> DEFINE A == \A d \in reg \cap reg' :
                  /\ d \in Range(down) \ Range(down') => d = Head(down) /\ downNoirq = <<>>
                  /\ d \in Range(downNoirq) \ Range(downNoirq') => d = Head(downNoirq)
<1>1. SInv /\ [Next]_vars => [A]_vars
  <2> SUFFICES ASSUME SInv, [Next]_vars, NEW d \in reg, d \in reg'
               PROVE  /\ d \in Range(down) \ Range(down') => d = Head(down) /\ downNoirq = <<>>
                      /\ d \in Range(downNoirq) \ Range(downNoirq') => d = Head(downNoirq)
    OBVIOUS
  <2> DEFINE B == /\ d \in Range(down) \ Range(down') => d = Head(down) /\ downNoirq = <<>>
                  /\ d \in Range(downNoirq) \ Range(downNoirq') => d = Head(downNoirq)
  <2>0. /\ d \in Devices /\ d \in Normal \cup Noirq
        /\ OnceIn(Devices, suspended) /\ OnceIn(Devices, noirq) /\ downNoirq = noirq
    BY SuspendAssumption DEF SInv, TypeInv, ListInv, DownInv
  <2>1. ASSUME NEW e \in Devices, Register(e) PROVE B
    <3>1. e # d
      BY <2>0, <2>1 DEF SInv, ListInv, Register
    <3>2. OnceIn(Devices, down) /\ OnceIn(Devices, downNoirq)
      <4>1. CASE down = suspended
        BY <2>0, <4>1
      <4>2. CASE cb # None /\ down = <<cb>> \o suspended
        BY <2>0, <4>2, ConsList, DeviceKinds DEF SInv, TypeInv, DownInv
      <4> QED BY <2>0, <4>1, <4>2 DEF SInv, DownInv
    <3>3. /\ Range(down') = Range(down) \ {e}
          /\ Range(downNoirq') = Range(downNoirq) \ {e}
      BY <2>1, <3>2, WithoutList DEF Register
    <3> QED BY <3>1, <3>3
  <2>2. ASSUME NEW e \in Devices, Unregister(e) PROVE B
    <3>1. e # d
      BY <2>2 DEF Unregister
    <3>2. OnceIn(Devices, down) /\ OnceIn(Devices, downNoirq)
      <4>1. CASE down = suspended
        BY <2>0, <4>1
      <4>2. CASE cb # None /\ down = <<cb>> \o suspended
        BY <2>0, <4>2, ConsList, DeviceKinds DEF SInv, TypeInv, DownInv
      <4> QED BY <2>0, <4>1, <4>2 DEF SInv, DownInv
    <3>3. /\ Range(down') = Range(down) \ {e}
          /\ Range(downNoirq') = Range(downNoirq) \ {e}
      BY <2>2, <3>2, WithoutList DEF Unregister
    <3> QED BY <3>1, <3>3
  <2>3. CASE UNCHANGED <<down, downNoirq>>
    BY <2>3
  <2>4. CASE Suspended
    <3>1. downNoirq' = downNoirq /\ (down' = down \/ down' = <<cb>> \o down)
      BY <2>4 DEF Suspended
    <3>2. cb \in Devices /\ cb \notin Range(suspended) /\ down = suspended
      BY <2>4, DeviceKinds DEF SInv, TypeInv, DownInv, Suspended
    <3>3. Range(down) \subseteq Range(down')
      BY <2>0, <3>1, <3>2, ConsList
    <3> QED BY <3>1, <3>3
  <2>5. CASE NoirqSuspended
    <3>1. CASE Reboot
      BY <3>1 DEF Reboot
    <3>2. CASE ~Reboot
      <4> DEFINE h == Head(early)
      <4>1. down' = down /\ downNoirq' = <<h>> \o downNoirq
        BY <2>5, <3>2 DEF NoirqSuspended
      <4>2. h \in Range(early) /\ h \in Devices /\ h \notin Range(noirq)
        BY <2>5, HeadList DEF SInv, ListInv, NoirqSuspended
      <4> HIDE DEF h
      <4>3. Range(downNoirq) \subseteq Range(downNoirq')
        BY <2>0, <4>1, <4>2, ConsList
      <4> QED BY <4>1, <4>3
    <3> QED BY <3>1, <3>2
  <2>6. CASE ResumeNoirq
    <3> DEFINE h == Head(noirq)
    <3>1. downNoirq = <<h>> \o downNoirq' /\ down' = down
      BY <2>6, ResumeNoirqSInv DEF ResumeNoirq
    <3>2. OnceIn(Devices, downNoirq') /\ h \in Devices /\ h \notin Range(downNoirq')
      <4>1. /\ OnceIn(Devices, Tail(noirq)) /\ h \in Devices /\ h \notin Range(Tail(noirq))
        BY <2>0, <2>6, HeadList DEF ResumeNoirq
      <4>2. downNoirq' = Tail(noirq)
        BY <2>6, ResumeNoirqSInv DEF SInv, DownInv, ResumeNoirq
      <4> QED BY <4>1, <4>2
    <3> HIDE DEF h
    <3>3. Range(downNoirq) = Range(downNoirq') \cup {h} /\ Head(downNoirq) = h
      BY <3>1, <3>2, ConsList
    <3> QED BY <3>1, <3>3
  <2>7. CASE Resumed
    <3>1. downNoirq' = downNoirq /\ downNoirq = <<>>
      BY <2>7 DEF Resumed, SInv, DownInv, PhaseInv
    <3>2. /\ down' = suspended /\ (down = suspended \/ down = <<cb>> \o suspended)
          /\ cb \in Devices /\ cb \notin Range(suspended)
      BY <2>7, ResumedDown
    <3>3. down = <<cb>> \o suspended =>
            Range(down) = Range(suspended) \cup {cb} /\ Head(down) = cb
      BY <2>0, <3>2, ConsList
    <3> QED BY <3>1, <3>2, <3>3
  <2>8. CASE Reboot
    BY <2>8 DEF Reboot
  <2>9. CASE Step \/ Wake
    <3> USE DEF history
    <3>1. CASE \/ SuspendDevice \/ DevicesSuspended \/ SuspendScheduler \/ Prepare
               \/ NoirqFails \/ NoirqUnmasks \/ AllNoirqSuspended \/ Enter \/ Woken
               \/ NoirqResumed \/ Finish \/ ResumeDevice \/ DevicesResumed \/ End
      <4>1. UNCHANGED <<down, downNoirq>>
        BY <3>1 DEF SuspendDevice, DevicesSuspended, SuspendScheduler, Prepare, NoirqFails,
                    NoirqUnmasks, AllNoirqSuspended, Enter, Woken, NoirqResumed, Finish,
                    ResumeDevice, DevicesResumed, End
      <4> QED BY <2>3, <4>1
    <3>2. CASE DisableIrqs
      <4>1. Reboot \/ UNCHANGED <<down, downNoirq>>
        BY <3>2 DEF DisableIrqs
      <4> QED BY <2>3, <2>8, <4>1
    <3>3. CASE Wake
      <4>1. Reboot \/ UNCHANGED <<down, downNoirq>>
        BY <3>3 DEF Wake
      <4> QED BY <2>3, <2>8, <4>1
    <3>4. CASE EnterReboots
      BY <2>8, <3>4 DEF EnterReboots
    <3> QED BY <2>4, <2>5, <2>6, <2>7, <2>9, <3>1, <3>2, <3>3, <3>4 DEF Step
  <2>10. CASE \/ RegisterNoirq \/ Arrives \/ Handled \/ UNCHANGED vars
              \/ (\E l \in Tests : SetTestLevel(l)) \/ (\E m \in Modes : Begin(m))
    <3>1. UNCHANGED <<down, downNoirq>>
      BY <2>10 DEF RegisterNoirq, Arrives, Handled, vars, history, SetTestLevel, Begin
    <3> QED BY <2>3, <3>1
  <2>11. \/ \E e \in Devices : Register(e) \/ Unregister(e)
         \/ Step \/ Wake
         \/ RegisterNoirq \/ Arrives \/ Handled \/ UNCHANGED vars
         \/ (\E l \in Tests : SetTestLevel(l)) \/ (\E m \in Modes : Begin(m))
    BY DEF Next
  <2> QED BY ONLY <2>1, <2>2, <2>9, <2>10, <2>11
<1> QED BY <1>1, Invariant, PTL DEF Spec, ResumeReverses

-----------------------------------------------------------------------------
(* suspend_devices_and_enter implements SleepCall *)

Statuses == [d \in Devices |-> Status(d)]

LEMMA DownOnce ==
  ASSUME SInv
  PROVE  OnceIn(Devices, down) /\ OnceIn(Devices, downNoirq)
<1>1. OnceIn(Devices, suspended) /\ OnceIn(Devices, noirq)
  BY DEF SInv, ListInv
<1>2. ASSUME cb # None, down = <<cb>> \o suspended PROVE OnceIn(Devices, down)
  BY <1>1, <1>2, ConsList, DeviceKinds DEF SInv, TypeInv, DownInv
<1> QED BY <1>1, <1>2 DEF SInv, DownInv

\* What is seen of the devices is what is down.
LEMMA SameStatus ==
  ASSUME UNCHANGED <<down, downNoirq, left>>
  PROVE  Statuses' = Statuses
BY DEF Statuses, Status, Down

\* A device that is on neither list, nor left, is up.
LEMMA OneUp ==
  ASSUME SInv, NEW c \in Devices,
         down' = Without(down, c), downNoirq' = Without(downNoirq, c), left' = left \ {c}
  PROVE  Statuses' = [Statuses EXCEPT ![c] = "up"]
<1>1. /\ Range(down') = Range(down) \ {c}
      /\ Range(downNoirq') = Range(downNoirq) \ {c}
  BY DownOnce, WithoutList
<1>2. ASSUME NEW d \in Devices, d # c PROVE Status(d)' = Status(d)
  BY <1>1, <1>2 DEF Status, Down
<1>3. Status(c)' = "up"
  BY <1>1, SuspendAssumption DEF Status, Down
<1> QED BY <1>2, <1>3 DEF Statuses

\* One device goes down or comes up.
LEMMA OneMoves ==
  ASSUME NEW c \in Devices,
         Range(down') \ {c} = Range(down) \ {c},
         Range(downNoirq') \ {c} = Range(downNoirq) \ {c},
         left' \ {c} = left \ {c}
  PROVE  \E s \in {"up", "part", "down"} : Statuses' = [Statuses EXCEPT ![c] = s]
<1>1. ASSUME NEW d \in Devices, d # c PROVE Status(d)' = Status(d)
  BY <1>1 DEF Status, Down
<1>2. Status(c)' \in {"up", "part", "down"}
  BY DEF Status
<1>3. Statuses' = [Statuses EXCEPT ![c] = Status(c)']
  BY <1>1 DEF Statuses
<1> QED BY <1>2, <1>3

LEMMA CallInit == Init => Call!Init
<1> SUFFICES ASSUME Init PROVE Call!Init
  OBVIOUS
<1>1. Statuses = [d \in Devices |-> "up"]
  BY RestUp DEF Init, Boot, Statuses
<1>2. Phase = "out" /\ reg = {} /\ irqs /\ running /\ left = {}
  BY DEF Init, Boot, Phase
<1>3. ~Missed
  BY DEF Init, Boot, Missed
<1> QED BY <1>1, <1>2, <1>3 DEF Call!Init, Statuses

LEMMA CallReboot ==
  ASSUME Reboot, pc # "idle"
  PROVE  Call!Next
<1>1. Statuses' = [d \in Devices |-> "up"]
  <2>1. ASSUME NEW d \in Devices PROVE Status(d)' = "up"
    BY EmptyList, SuspendAssumption DEF Reboot, Status, Down
  <2> QED BY <2>1 DEF Statuses
<1>2. Phase # "out" /\ Phase' = "out" /\ reg' = {} /\ irqs' /\ running' /\ left' = {}
  BY DEF Reboot, Phase
<1>3. ~Missed'
  BY DEF Reboot, Missed
<1>4. Call!Reboot
  BY <1>1, <1>2, <1>3 DEF Call!Reboot, Statuses
<1> QED BY <1>4 DEF Call!Next

\* Drivers, in other threads.
LEMMA CallDriver ==
  ASSUME SInv, NEW d \in Devices, Register(d) \/ Unregister(d)
  PROVE  Call!Driver(d)
<1>1. /\ down' = Without(down, d) /\ downNoirq' = Without(downNoirq, d)
      /\ left' = left \ {d}
      /\ running /\ running' /\ UNCHANGED <<pc, irqs>>
  BY DEF Register, Unregister, system
<1>2. Statuses' = [Statuses EXCEPT ![d] = "up"]
  BY <1>1, OneUp
<1>3. reg' \in {reg, reg \cup {d}, reg \ {d}}
  BY DEF Register, Unregister
<1>4. Phase' = Phase
  BY <1>1 DEF Phase
<1>5. Missed' \in {Missed, Phase = "in"} /\ (Missed => Missed')
  <2>1. CASE Unregister(d) \/ pc # "begun"
    BY <2>1 DEF Register, Unregister, Note, Transition, Missed
  <2>2. CASE Register(d) /\ pc = "begun"
    <3>1. Phase = "in" /\ (Missed \in BOOLEAN) /\ (Missed' \in BOOLEAN)
      BY <2>2 DEF Phase, Missed
    <3>2. Missed => Missed'
      BY <2>2 DEF Register, Note, Transition, Missed
    <3> QED BY <3>1, <3>2
  <2> QED BY <2>1, <2>2
<1> QED BY <1>1, <1>2, <1>3, <1>4, <1>5 DEF Call!Driver, Statuses

LEMMA CallDriverNoirq ==
  ASSUME SInv, RegisterNoirq
  PROVE  Call!Driver(half)
<1>1. running /\ running' /\ UNCHANGED <<pc, irqs, down, downNoirq, left>>
  BY DEF RegisterNoirq, system
<1>2. Statuses' = Statuses
  BY <1>1, SameStatus
<1>3. reg' \in {reg, reg \cup {half}, reg \ {half}}
  BY DEF RegisterNoirq
<1>4. Phase' = Phase
  BY <1>1 DEF Phase
<1>5. Missed' = Missed
  BY DEF RegisterNoirq, Note, Transition, Missed
<1> QED BY <1>1, <1>2, <1>3, <1>4, <1>5 DEF Call!Driver, Statuses

\* The callback of a device returns, within the call.
LEMMA CallDevice ==
  ASSUME NEW c \in Devices,
         Range(down') \ {c} = Range(down) \ {c},
         Range(downNoirq') \ {c} = Range(downNoirq) \ {c},
         left' \in {left, left \ {c}},
         Phase = "in", Phase' = "in",
         UNCHANGED <<reg, irqs, running, odd>>
  PROVE  Call!Device(c)
<1>1. Missed' = Missed
  BY DEF Missed
<1>2. \E s \in {"up", "part", "down"} : Statuses' = [Statuses EXCEPT ![c] = s]
  BY OneMoves
<1> QED BY <1>1, <1>2 DEF Call!Device, Statuses

LEMMA CallSuspended ==
  ASSUME SInv, Suspended
  PROVE  Call!Device(cb)
<1>1. cb \in Devices /\ cb \notin Range(suspended) /\ down = suspended
  BY DeviceKinds DEF SInv, TypeInv, DownInv, Suspended
<1>2. Range(<<cb>> \o down) = Range(down) \cup {cb}
  BY <1>1, DownOnce, ConsDevice
<1>3. /\ Range(down') \ {cb} = Range(down) \ {cb}
      /\ Range(downNoirq') \ {cb} = Range(downNoirq) \ {cb} /\ left' = left
  BY <1>2 DEF Suspended
<1>4. Phase = "in" /\ Phase' = "in" /\ UNCHANGED <<reg, irqs, running, odd>>
  BY DEF Suspended, Phase, system, drivers
<1> QED BY <1>1, <1>3, <1>4, CallDevice

LEMMA CallResumed ==
  ASSUME SInv, Resumed
  PROVE  Call!Device(cb)
<1>1. cb \in Devices
  BY DeviceKinds DEF SInv, TypeInv, Resumed
<1>2. Range(Without(down, cb)) = Range(down) \ {cb}
  BY DownOnce, WithoutList
<1>3. /\ Range(down') \ {cb} = Range(down) \ {cb}
      /\ Range(downNoirq') \ {cb} = Range(downNoirq) \ {cb} /\ left' = left
  BY <1>2 DEF Resumed
<1>4. Phase = "in" /\ Phase' = "in" /\ UNCHANGED <<reg, irqs, running, odd>>
  BY DEF Resumed, Phase, system, drivers
<1> QED BY <1>1, <1>3, <1>4, CallDevice

LEMMA CallNoirqSuspended ==
  ASSUME SInv, NoirqSuspended
  PROVE  Call!Next
<1>1. CASE pending /\ mode = "hibernation"
  BY <1>1, CallReboot DEF NoirqSuspended
<1>2. CASE ~(pending /\ mode = "hibernation")
  <2> DEFINE c == Head(early)
  <2>1. c \in Devices /\ c \notin Range(downNoirq)
    BY HeadList DEF SInv, ListInv, DownInv, NoirqSuspended
  <2>2. downNoirq' = <<c>> \o downNoirq /\ down' = down /\ left' = left \ {c}
    BY <1>2 DEF NoirqSuspended
  <2>3. Phase = "in" /\ Phase' = "in" /\ UNCHANGED <<reg, irqs, running, odd>>
    BY <1>2 DEF NoirqSuspended, Phase, system, drivers
  <2> HIDE DEF c
  <2>4. Range(<<c>> \o downNoirq) = Range(downNoirq) \cup {c}
    BY <2>1, DownOnce, ConsDevice
  <2>5. Call!Device(c)
    BY <2>1, <2>2, <2>3, <2>4, CallDevice
  <2> QED BY <2>1, <2>5 DEF Call!Next
<1> QED BY <1>1, <1>2

LEMMA CallResumeNoirq ==
  ASSUME SInv, ResumeNoirq
  PROVE  Call!Device(Head(noirq))
<1> DEFINE c == Head(noirq)
<1>1. c \in Devices
  BY HeadList DEF SInv, ListInv, ResumeNoirq
<1>2. downNoirq' = Without(downNoirq, c) /\ down' = down /\ left' = left
  BY DEF ResumeNoirq
<1>3. Phase = "in" /\ Phase' = "in" /\ UNCHANGED <<reg, irqs, running, odd>>
  BY DEF ResumeNoirq, Phase, call, system, drivers
<1> HIDE DEF c
<1>4. Range(Without(downNoirq, c)) = Range(downNoirq) \ {c}
  BY DownOnce, WithoutList
<1>5. Call!Device(c)
  BY <1>1, <1>2, <1>3, <1>4, CallDevice
<1> QED BY <1>5 DEF c

\* Interrupts and the scheduler, from the last device that goes down to the
\* first that comes up.
LEMMA CallQuiet ==
  ASSUME SInv, SInv', UNCHANGED <<down, downNoirq, left, reg, odd>>,
         Phase = "in", Phase' = "in"
  PROVE  Call!Quiet
<1>1. Statuses' = Statuses
  BY SameStatus
<1>2. Missed' = Missed
  BY DEF Missed
<1>3. (~irqs)' \in BOOLEAN /\ (~running)' \in BOOLEAN
  OBVIOUS
<1> QED BY <1>1, <1>2, <1>3 DEF Call!Quiet, Statuses

\* A noirq callback enables interrupts and its device is left suspended.
LEMMA CallUnmasks ==
  ASSUME SInv, NoirqUnmasks
  PROVE  Call!Next
<1>0. Head(early) \in Devices /\ Head(early) \in Noirq
  BY HeadList DEF SInv, ListInv, NoirqUnmasks
<1>1. PICK c \in Devices : c \in Noirq /\ c = Head(early)
  BY <1>0
<1>2. /\ left' = left \cup {c} /\ irqs' /\ "unmasked" \in odd'
      /\ Phase = "in" /\ Phase' = "in" /\ UNCHANGED <<reg, running, down, downNoirq>>
  BY <1>1 DEF NoirqUnmasks, Phase, drivers
<1>3. Missed' = TRUE
  BY <1>2 DEF Missed
<1>4. Status(c)' \in {"part", "down"}
  BY <1>1, <1>2 DEF Status
<1>5. ASSUME NEW d \in Devices, d # c PROVE Status(d)' = Status(d)
  BY <1>2, <1>5 DEF Status, Down
<1>6. Statuses' = [Statuses EXCEPT ![c] = Status(c)']
  BY <1>5 DEF Statuses
<1>7. Call!Unmask(c)
  BY <1>2, <1>3, <1>4, <1>6 DEF Call!Unmask, Statuses
<1> QED BY <1>1, <1>7 DEF Call!Next

LEMMA CallStutter ==
  ASSUME UNCHANGED <<down, downNoirq, left, reg, irqs, running, odd>>, Phase' = Phase
  PROVE  UNCHANGED Call!vars
<1>1. Statuses' = Statuses
  BY SameStatus
<1>2. Missed' = Missed
  BY DEF Missed
<1> QED BY <1>1, <1>2 DEF Call!vars, Statuses

LEMMA CallEnter ==
  ASSUME SInv, Enter
  PROVE  Call!Sleep \/ UNCHANGED Call!vars
<1> USE DEF Enter, system, drivers
<1>1. CASE pc' # "asleep"
  <2>1. UNCHANGED <<down, downNoirq, left, reg, irqs, running, odd>> /\ Phase' = Phase
    BY <1>1 DEF Phase
  <2> QED BY <2>1, CallStutter
<1>2. CASE pc' = "asleep"
  <2>1. Phase = "in" /\ Phase' = "asleep"
    BY <1>2 DEF Phase
  <2>2. Statuses' = Statuses /\ Missed' = Missed
    BY SameStatus DEF Missed
  <2>3. ~running
    BY DEF SInv, PhaseInv
  <2>4. Missed \/ (~irqs /\ \A d \in reg : Down(d))
    BY QuietDevices
  <2>5. reg \subseteq Devices
    BY DEF SInv, TypeInv
  <2>6. Missed \/ (~irqs /\ \A d \in reg : Statuses[d] = "down")
    BY <2>4, <2>5 DEF Statuses, Status
  <2>7. Call!Sleep
    BY <2>1, <2>2, <2>3, <2>6 DEF Call!Sleep, Statuses
  <2> QED BY <2>7
<1> QED BY <1>1, <1>2

LEMMA CallWake ==
  ASSUME SInv, Wake
  PROVE  Call!Next
<1>1. CASE mode = "hibernation" /\ pending
  BY <1>1, CallReboot DEF Wake
<1>2. CASE ~(mode = "hibernation" /\ pending)
  <2> USE <1>2 DEF Wake, system, drivers, history
  <2>1. Phase = "asleep" /\ Phase' = "in" /\ Statuses' = Statuses /\ Missed' = Missed
    BY SameStatus DEF Phase, Missed
  <2>2. Call!Wake
    BY <2>1 DEF Call!Wake, Statuses
  <2> QED BY <2>2 DEF Call!Next
<1> QED BY <1>1, <1>2

LEMMA CallBegin ==
  ASSUME NEW m \in Modes, Begin(m)
  PROVE  Call!Call
<1> USE DEF Begin, system, drivers
<1>1. Phase = "out" /\ Phase' = "in" /\ Statuses' = Statuses /\ Missed' = Missed
  BY SameStatus DEF Phase, Missed
<1> QED BY <1>1 DEF Call!Call, Statuses

LEMMA CallReturn ==
  ASSUME SInv, End
  PROVE  Call!Return
<1> USE DEF End, Go, system, drivers
<1>1. Phase = "in" /\ Phase' = "out" /\ Statuses' = Statuses /\ ~Missed'
  BY SameStatus DEF Phase, Missed
<1>2. irqs /\ running
  BY DEF SInv, PhaseInv
<1>3. down = <<>> /\ downNoirq = <<>>
  BY DEF SInv, PhaseInv, DownInv
<1>4. \A d \in Devices \ left : Statuses[d] = "up"
  BY <1>3, RestUp DEF Statuses
<1> QED BY <1>1, <1>2, <1>4 DEF Call!Return, Statuses

LEMMA CallStep ==
  ASSUME SInv, SInv', Step \/ Wake
  PROVE  Call!Next \/ UNCHANGED Call!vars
<1> USE DEF call, system, drivers, history
<1>1. CASE Suspended
  BY <1>1, CallSuspended, DeviceKinds DEF Call!Next, SInv, TypeInv, Suspended
<1>2. CASE Resumed
  BY <1>2, CallResumed, DeviceKinds DEF Call!Next, SInv, TypeInv, Resumed
<1>3. CASE NoirqSuspended
  BY <1>3, CallNoirqSuspended
<1>4. CASE ResumeNoirq
  <2>1. Head(noirq) \in Devices
    BY <1>4, HeadList DEF SInv, ListInv, ResumeNoirq
  <2> QED BY <1>4, <2>1, CallResumeNoirq DEF Call!Next
<1>5. CASE Enter
  BY <1>5, CallEnter DEF Call!Next
<1>6. CASE Wake
  BY <1>6, CallWake
<1>7. CASE End
  BY <1>7, CallReturn DEF Call!Next
<1>8. CASE EnterReboots
  BY <1>8, CallReboot DEF Call!Next, EnterReboots
<1>9. CASE SuspendScheduler \/ NoirqFails \/ Finish
  <2>1. UNCHANGED <<down, downNoirq, left, reg, odd>>
    BY <1>9 DEF SuspendScheduler, NoirqFails, Finish
  <2>2. Phase = "in" /\ Phase' = "in"
    BY <1>9 DEF SuspendScheduler, NoirqFails, Finish, Go, Phase
  <2> QED BY <2>1, <2>2, CallQuiet DEF Call!Next
<1>10. CASE DisableIrqs
  <2>1. CASE pending /\ mode = "hibernation"
    BY <1>10, <2>1, CallReboot DEF DisableIrqs
  <2>2. CASE ~(pending /\ mode = "hibernation")
    <3>1. UNCHANGED <<down, downNoirq, left, reg, odd>>
      BY <1>10, <2>2 DEF DisableIrqs
    <3>2. Phase = "in" /\ Phase' = "in"
      BY <1>10, <2>2 DEF DisableIrqs, Phase
    <3> QED BY <3>1, <3>2, CallQuiet DEF Call!Next
  <2> QED BY <2>1, <2>2
<1>11. CASE \/ SuspendDevice \/ DevicesSuspended \/ Prepare \/ AllNoirqSuspended
            \/ Woken \/ NoirqResumed \/ ResumeDevice \/ DevicesResumed
  <2>1. UNCHANGED <<down, downNoirq, left, reg, irqs, running, odd>>
    BY <1>11 DEF SuspendDevice, DevicesSuspended, Prepare, AllNoirqSuspended, Woken,
                 NoirqResumed, ResumeDevice, DevicesResumed
  <2>2. Phase' = Phase
    BY <1>11 DEF SuspendDevice, DevicesSuspended, Prepare, AllNoirqSuspended, Woken,
                 NoirqResumed, ResumeDevice, DevicesResumed, Go, Phase
  <2> QED BY <2>1, <2>2, CallStutter
<1>12. CASE NoirqUnmasks
  BY <1>12, CallUnmasks
<1> QED BY <1>1, <1>2, <1>3, <1>4, <1>5, <1>6, <1>7, <1>8, <1>9, <1>10, <1>11, <1>12 DEF Step

\* suspend_devices_and_enter does what its callers take it for: nothing of the
\* devices or the interrupts changes in the sleep, which is entered with all
\* that is registered down unless something came too late for it, and it
\* returns with everything up but what unmasked interrupts.
THEOREM SleepCallImplemented == Spec => ImplementsSleepCall
<1>1. SInv /\ SInv' /\ [Next]_vars => [Call!Next]_Call!vars
  <2> SUFFICES ASSUME SInv, SInv', [Next]_vars
               PROVE  Call!Next \/ UNCHANGED Call!vars
    OBVIOUS
  <2>1. ASSUME NEW d \in Devices, Register(d) \/ Unregister(d) PROVE Call!Next
    BY <2>1, CallDriver DEF Call!Next
  <2>2. CASE RegisterNoirq
    <3>1. half \in Devices
      BY <2>2 DEF SInv, TypeInv, RegisterNoirq
    <3> QED BY <2>2, <3>1, CallDriverNoirq DEF Call!Next
  <2>3. ASSUME NEW m \in Modes, Begin(m) PROVE Call!Next
    BY <2>3, CallBegin DEF Call!Next
  <2>4. CASE Step \/ Wake
    BY <2>4, CallStep
  <2>5. CASE \/ Arrives \/ Handled \/ UNCHANGED vars \/ \E l \in Tests : SetTestLevel(l)
    <3>1. UNCHANGED <<down, downNoirq, left, reg, irqs, running, odd>> /\ pc' = pc
      BY <2>5 DEF Arrives, Handled, vars, SetTestLevel, history, drivers, system
    <3>2. Phase' = Phase
      BY <3>1 DEF Phase
    <3> QED BY <3>1, <3>2, CallStutter
  <2> QED BY <2>1, <2>2, <2>3, <2>4, <2>5 DEF Next
<1> QED BY <1>1, CallInit, Invariant, PTL DEF Spec, ImplementsSleepCall, Call!Spec
=============================================================================
