----------------------------- MODULE MCOtaPush -----------------------------
(***************************************************************************)
(* Blocks of 2, 4 and 8 bytes, every aligned area of a small flash, and    *)
(* with all block sizes, without the middle one and with the largest only. *)
(***************************************************************************)
EXTENDS OtaPush

MCAreas ==
  {r \in [addr : 0 .. FlashSize, size : 1 .. FlashSize] :
     /\ r.addr % 2 = 0 /\ r.addr + r.size <= FlashSize
     /\ r.size % 2 = 0 \/ r = [addr |-> 2, size |-> 3]}
MCChips == {{K4, K32, K64}, {K4, K64}, {K64}}
MCSkips == {0, 3}
=============================================================================
