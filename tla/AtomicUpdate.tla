---------------------------- MODULE AtomicUpdate ----------------------------
(***************************************************************************)
(* What an update promises if nothing but power fails.  The version        *)
(* that the next boot starts changes in one step, made by a running        *)
(* application and to the version downloaded last.  Power may go at any    *)
(* time, and every boot starts that version, however often the last one    *)
(* was cut.                                                                *)
(***************************************************************************)
EXTENDS Naturals

VARIABLES
  on,         \* an application runs
  runs,       \* its version; 0 if none runs
  next,       \* the version that the next boot starts
  newest,     \* the last version downloaded
  committed,  \* the last one reported as verified
  broken      \* the flash failed, a verified image did not unpack, or an
              \* update was not waited for

vars == <<on, runs, next, newest, committed, broken>>

Init ==
  /\ ~on /\ runs = 0 /\ next = 0 /\ newest = 0 /\ committed = 0 /\ ~broken

Start ==
  /\ ~on /\ on' /\ runs' = next
  /\ UNCHANGED <<next, newest, committed>>

\* A download begins when no other version waits for a boot.
Download ==
  /\ on /\ runs = next
  /\ newest' = newest + 1
  /\ UNCHANGED <<on, runs, next, committed>>

\* It is verified, and may be reported so at once or later.
Switch ==
  /\ on /\ next' = newest
  /\ committed' \in {committed, newest}
  /\ UNCHANGED <<on, runs, newest>>

PowerOff ==
  /\ on /\ ~on' /\ runs' = 0
  /\ UNCHANGED <<next, newest, committed>>

\* Nothing is promised any more.
Break == broken'

Next == Break \/ (~broken /\ ~broken' /\ (Start \/ Download \/ Switch \/ PowerOff))

Spec == Init /\ [][Next]_vars
=============================================================================
