------------------------------- MODULE Lists -------------------------------
(***************************************************************************)
(* The doubly linked lists of sys/list.h, as sequences.  A node that is on *)
(* no list points to itself: taking it off once more changes nothing.      *)
(***************************************************************************)
EXTENDS Integers, Sequences, SequencesExt

\* list_del
Without(s, d) ==
  IF d \in Range(s) THEN RemoveAt(s, CHOOSE i \in DOMAIN s : s[i] = d) ELSE s
=============================================================================
