----------------------------- MODULE FdcmProofs -----------------------------
(***************************************************************************)
(* The invariants of an FDCM area, for every geometry and record size.     *)
(***************************************************************************)
EXTENDS Fdcm, TLAPS

\* The area as it is between calls: n slots used, the others erased.
Log(n) ==
  /\ bitmap = 0 .. n - 1
  /\ n <= hdr.bm * ByteBits
  /\ SlotOffset(hdr.bm, hdr.ds, n) <= Size
  /\ \A i \in SlotIds : i >= n => slots[i] = Erased

HeaderLive == hdr.ok /\ hdr.bm # 0 /\ hdr.bm + HeaderSize < Size

\* The bit and the slot the call in progress has chosen are free and fit.
Chosen ==
  /\ HeaderValid(req.ds)
  /\ req.at < hdr.bm * ByteBits
  /\ SlotOffset(hdr.bm, hdr.ds, req.at + 1) <= Size

Quiet == HeaderLive => \E n \in Nat : Log(n)

IInv ==
  /\ TypeOK
  /\ hdr.ok => hdr.ds \in DataSizes
  /\ pc # "idle" => ret = "none" /\ req.ds \in DataSizes /\ req.val \in Values
  /\ pc \in {"idle", "erase"} => Quiet
  /\ pc \in {"erase", "header"} => req.at = 0 /\ req.ds <= Room(BitmapSize(req.ds))
  /\ pc = "header" => hdr = NoHeader /\ bitmap = {} /\ slots = Blank
  /\ pc = "bit" => Chosen /\ Log(req.at)
  /\ pc = "data" => /\ Chosen
                    /\ bitmap = 0 .. req.at
                    /\ \A i \in SlotIds : i >= req.at => slots[i] = Erased
  /\ ret = "ok" => /\ pc = "idle" /\ Chosen
                   /\ bitmap = 0 .. req.at
                   /\ slots[req.at] = req.val

-----------------------------------------------------------------------------
(* Lemmas about the geometry and the bit count *)

\* A bitmap size is a natural number, at least one byte and at most the area
\* behind the header (fdcm_rewrite's formula and its clamp).
LEMMA BitmapSizeRange ==
  ASSUME NEW ds \in Nat
  PROVE  BitmapSize(ds) \in 1 .. Size
<1> DEFINE T == Size - HeaderSize - 1
           M == ds * ByteBits + 1
<1>1. T \in Nat /\ T + 1 < FieldMod /\ T + 1 < Size
  BY SizesAssumption
<1>2. M \in Nat /\ M > 0
  BY SizesAssumption
<1>3. T \div M \in Nat /\ T \div M <= T
  <2> HIDE DEF T, M
  <2> QED BY <1>1, <1>2, SMT
<1>4. (T \div M + 1) % FieldMod = T \div M + 1
  <2> HIDE DEF T, M
  <2> QED BY <1>1, <1>3, SizesAssumption, SMT
<1>5. QED
  BY <1>1, <1>3, <1>4, SizesAssumption DEF BitmapSize

\* On a bitmap whose used bits are its first n, fdcm_bit_count returns n.
LEMMA BitCountOfPrefix ==
  ASSUME NEW b, NEW bm \in Nat, NEW n \in Nat, n <= bm * ByteBits,
         b = 0 .. n - 1
  PROVE  BitCount(b, bm) = n
<1>1. ByteBits \in Nat /\ ByteBits > 0
  BY SizesAssumption
<1>2. bm * ByteBits \in Nat
  BY <1>1
<1>3. ASSUME NEW m \in 0 .. bm * ByteBits, IsBitCount(b, bm, m)
      PROVE  m = n
  <2>1. PICK k \in 0 .. bm :
          /\ \A i \in 0 .. k * ByteBits - 1 : i \in b
          /\ \/ k = bm /\ m = k * ByteBits
             \/ /\ k < bm /\ ~FullByte(b, k)
                /\ m \in k * ByteBits .. (k + 1) * ByteBits
                /\ m > k * ByteBits => m - 1 \in b
                /\ \A i \in m .. (k + 1) * ByteBits - 1 : i \notin b
    BY <1>3 DEF IsBitCount
  <2> DEFINE lo == k * ByteBits
             hi == (k + 1) * ByteBits
  <2>2. lo \in Nat /\ hi \in Nat
    BY <1>1
  <2>3. lo <= n
    <3> HIDE DEF lo, hi
    <3>1. lo > 0 => lo - 1 \in b
      BY <2>1, <2>2 DEF lo
    <3> QED BY <3>1, <2>2
  <2>4. CASE k = bm /\ m = lo
    BY <2>3, <2>4, <1>2
  <2>5. CASE /\ k < bm /\ ~FullByte(b, k)
             /\ m \in lo .. hi
             /\ m > lo => m - 1 \in b
             /\ \A i \in m .. hi - 1 : i \notin b
    <3>1. PICK i \in lo .. hi - 1 : i \notin b
      BY <2>5 DEF FullByte
    <3> HIDE DEF lo, hi
    <3>2. n < hi
      BY <3>1, <2>2
    <3>3. m <= n
      BY <2>5, <2>2, <2>3
    <3>4. m < n => n - 1 \in m .. hi - 1
      BY <3>2, <2>2, <2>5
    <3> QED BY <3>3, <3>4, <2>5, <2>2
  <2> QED BY <2>1, <2>4, <2>5
<1>4. IsBitCount(b, bm, n)
  <2> DEFINE k == n \div ByteBits
  <2>1. /\ k \in Nat
        /\ k * ByteBits <= n
        /\ n < k * ByteBits + ByteBits
    BY <1>1, SMT
  <2> HIDE DEF k
  <2>2. (k + 1) * ByteBits = k * ByteBits + ByteBits
    BY <2>1, <1>1
  <2>3. k <= bm
    <3> SUFFICES ASSUME k >= bm + 1 PROVE FALSE
      BY <2>1
    <3>1. k * ByteBits >= (bm + 1) * ByteBits
      BY <2>1, <1>1
    <3>2. (bm + 1) * ByteBits = bm * ByteBits + ByteBits
      BY <1>1
    <3> QED BY <3>1, <3>2, <2>1, <1>1, <1>2
  <2>4. CASE k = bm
    <3>1. n = k * ByteBits
      BY <2>1, <2>4, <1>2
    <3> QED BY <3>1, <2>1, <2>4 DEF IsBitCount
  <2>5. CASE k < bm
    <3>1. ~FullByte(b, k)
      <4>1. n \in k * ByteBits .. (k + 1) * ByteBits - 1
        BY <2>1, <2>2, <1>1
      <4> QED BY <4>1 DEF FullByte
    <3>2. \A i \in 0 .. k * ByteBits - 1 : i \in b
      BY <2>1, <1>1
    <3>3. n \in k * ByteBits .. (k + 1) * ByteBits
      BY <2>1, <2>2, <1>1
    <3>4. n > k * ByteBits => n - 1 \in b
      BY <2>1, <1>1
    <3>5. \A i \in n .. (k + 1) * ByteBits - 1 : i \notin b
      OBVIOUS
    <3> QED BY <3>1, <3>2, <3>3, <3>4, <3>5, <2>5, <2>1 DEF IsBitCount
  <2> QED BY <2>3, <2>4, <2>5, <2>1
<1>5. n \in 0 .. bm * ByteBits
  BY <1>2
<1> QED BY <1>3, <1>4, <1>5 DEF BitCount

\* A slot inside the area has a number that TypeOK admits.
LEMMA SlotInRange ==
  ASSUME NEW bm \in Nat, NEW ds \in Nat \ {0}, NEW n \in Nat,
         SlotOffset(bm, ds, n) <= Size
  PROVE  n \in SlotIds
<1>1. ds * n >= n
  BY SMT
<1>2. ds * n \in Nat
  BY SMT
<1> QED BY <1>1, <1>2, SizesAssumption DEF SlotOffset, SlotIds

\* The code's count of used slots is the n of Log(n).
LEMMA LogCount ==
  ASSUME hdr.bm \in Nat, NEW n \in Nat, bitmap = 0 .. n - 1,
         n <= hdr.bm * ByteBits
  PROVE  Used = n
BY BitCountOfPrefix DEF Used

\* What the code reads off a live header and bitmap is the n of Log(n), so
\* that an append is decided on the true number of used slots.
LEMMA AppendChoice ==
  ASSUME TypeOK, Quiet, NEW ds \in DataSizes, Appends(ds)
  PROVE  /\ Log(Used)
         /\ Used \in SlotIds
         /\ Used < hdr.bm * ByteBits
         /\ SlotOffset(hdr.bm, hdr.ds, Used + 1) <= Size
<1>1. HeaderValid(ds) /\ HeaderLive
  BY DEF Appends, HeaderValid, HeaderLive
<1>2. PICK n \in Nat : Log(n)
  BY <1>1 DEF Quiet
<1>3. hdr.bm \in Nat /\ hdr.ds = ds /\ ds \in Nat \ {0}
  BY <1>1, SizesAssumption DEF TypeOK, HeaderValid
<1>4. Used = n
  BY <1>2, <1>3, LogCount DEF Log
<1>5. n \in SlotIds
  BY <1>2, <1>3, SlotInRange DEF Log
<1>6. n < hdr.bm * ByteBits /\ SlotOffset(hdr.bm, ds, n + 1) <= Size
  <2>1. ~(n >= ByteBits * hdr.bm) /\ ~(SlotOffset(hdr.bm, ds, n + 1) > Size)
    BY <1>4 DEF Appends, AreaFull
  <2>2. ByteBits * hdr.bm \in Nat /\ ds * (n + 1) \in Nat
    BY <1>3, SizesAssumption
  <2>3. SlotOffset(hdr.bm, ds, n + 1) \in Nat
    BY <2>2, <1>3, SizesAssumption DEF SlotOffset
  <2>4. ByteBits * hdr.bm = hdr.bm * ByteBits
    BY <1>3, SizesAssumption
  <2> QED BY <2>1, <2>2, <2>3, <2>4, SizesAssumption
<1> QED BY <1>2, <1>3, <1>4, <1>5, <1>6

\* An erase that stops early leaves either no header or the same log.
LEMMA EraseSomeQuiet ==
  ASSUME TypeOK, Quiet, EraseSome
  PROVE  /\ hdr' \in {hdr, NoHeader}
         /\ hdr' \in [ok : BOOLEAN, bm : 0 .. Size, ds : Nat]
         /\ bitmap' \in {bitmap, {}}
         /\ slots' \in [SlotIds -> Cell]
         /\ Quiet'
<1>1. PICK a, b \in SlotIds :
        slots' = [i \in SlotIds |-> IF i < a \/ i >= b THEN Erased ELSE slots[i]]
  BY DEF EraseSome
<1>2. slots' \in [SlotIds -> Cell]
  BY <1>1 DEF TypeOK, Cell
<1>3. CASE hdr' = NoHeader /\ bitmap' = {}
  BY <1>2, <1>3, SizesAssumption DEF Quiet, HeaderLive, NoHeader
<1>4. CASE UNCHANGED <<hdr, bitmap>>
  <2>1. ASSUME NEW n \in Nat, Log(n)
        PROVE  Log(n)'
    BY <2>1, <1>1, <1>4 DEF Log, SlotOffset
  <2> QED BY <2>1, <1>2, <1>4 DEF Quiet, HeaderLive, TypeOK
<1> QED BY <1>3, <1>4 DEF EraseSome

-----------------------------------------------------------------------------
(* The inductive invariant *)

\* A formatted or unformatted area before the first call satisfies it.
LEMMA InitIInv == Init => IInv
<1> SUFFICES ASSUME Init PROVE IInv
  OBVIOUS
<1>1. TypeOK
  BY SizesAssumption DEF Init, TypeOK, NoHeader, Blank, Cell, SlotIds
<1> QED
  BY <1>1 DEF Init, IInv, NoHeader, Quiet, HeaderLive

\* Every flash operation, and every cut, preserves it.
LEMMA NextIInv == IInv /\ [Next]_vars => IInv'
<1> SUFFICES ASSUME IInv, [Next]_vars PROVE IInv'
  OBVIOUS
<1>t. TypeOK
  BY DEF IInv
<1>1. ASSUME NEW ds \in DataSizes, WriteRefused(ds)
      PROVE  IInv'
  BY <1>1 DEF IInv, TypeOK, WriteRefused, flash, Quiet, HeaderLive, Log,
              SlotOffset, Chosen, HeaderValid
<1>2. ASSUME NEW ds \in DataSizes, NEW v \in Values, WriteAppend(ds, v)
      PROVE  IInv'
  <2> DEFINE n == Used
  <2>1. UNCHANGED <<hdr, bitmap, slots>>
    BY <1>2 DEF WriteAppend, flash
  <2>2. /\ pc' = "bit" /\ ret' = "none"
        /\ req' = [ds |-> ds, val |-> v, at |-> n]
        /\ Appends(ds) /\ pc = "idle"
    BY <1>2 DEF WriteAppend
  <2>3. /\ Log(n) /\ n \in SlotIds /\ n < hdr.bm * ByteBits
        /\ SlotOffset(hdr.bm, hdr.ds, n + 1) <= Size
    BY <2>2, <1>t, AppendChoice DEF IInv
  <2>4. HeaderValid(ds)
    BY <2>2 DEF Appends
  <2> HIDE DEF n
  <2>5. TypeOK'
    BY <1>t, <2>1, <2>2, <2>3, SizesAssumption DEF TypeOK
  <2>6. Chosen' /\ Log(req.at)'
    BY <2>1, <2>2, <2>3, <2>4 DEF Chosen, Log, HeaderValid, SlotOffset
  <2> QED
    BY <2>1, <2>2, <2>5, <2>6 DEF IInv
<1>3. ASSUME NEW ds \in DataSizes, NEW v \in Values, WriteRewrite(ds, v)
      PROVE  IInv'
  <2>1. /\ UNCHANGED <<hdr, bitmap, slots>>
        /\ pc = "idle" /\ pc' = "erase" /\ ret' = "none"
        /\ req' = [ds |-> ds, val |-> v, at |-> 0]
    BY <1>3 DEF WriteRewrite, flash
  <2>2. ds <= Room(BitmapSize(ds))
    <3>1. ~(ds > Room(BitmapSize(ds)))
      BY <1>3 DEF WriteRewrite, Refused
    <3>2. ds \in Nat /\ BitmapSize(ds) \in 1 .. Size
      BY SizesAssumption, BitmapSizeRange
    <3> QED BY <3>1, <3>2, SizesAssumption DEF Room
  <2>3. TypeOK'
    BY <1>t, <2>1, SizesAssumption DEF TypeOK, SlotIds
  <2>4. Quiet'
    BY <2>1 DEF IInv, Quiet, HeaderLive, Log, SlotOffset
  <2>5. Room(BitmapSize(ds))' = Room(BitmapSize(ds))
    BY DEF Room, BitmapSize
  <2> QED
    BY <2>1, <2>2, <2>3, <2>4, <2>5 DEF IInv
<1>4. ASSUME Erase
      PROVE  IInv'
  <2>1. /\ hdr' = NoHeader /\ bitmap' = {} /\ slots' = Blank
        /\ pc = "erase" /\ pc' = "header" /\ UNCHANGED <<req, ret>>
    BY <1>4 DEF Erase, EraseArea
  <2>2. TypeOK'
    BY <1>t, <2>1, SizesAssumption DEF TypeOK, NoHeader, Blank, Cell
  <2>3. (req.ds <= Room(BitmapSize(req.ds)))'
    BY <2>1 DEF IInv, Room, BitmapSize
  <2> QED
    BY <2>1, <2>2, <2>3 DEF IInv, NoHeader
<1>5. ASSUME ProgramHeader
      PROVE  IInv'
  <2> DEFINE bm == BitmapSize(req.ds)
  <2>1. /\ hdr' = [ok |-> TRUE, bm |-> bm, ds |-> req.ds]
        /\ pc = "header" /\ pc' = "bit"
        /\ UNCHANGED <<bitmap, slots, req, ret>>
    BY <1>5 DEF ProgramHeader
  <2>2. /\ req.at = 0 /\ req.ds <= Room(bm) /\ req.ds \in DataSizes
        /\ bitmap = {} /\ slots = Blank /\ ret = "none"
    BY <2>1 DEF IInv
  <2>3. req.ds \in Nat \ {0} /\ bm \in 1 .. Size
    BY <2>2, SizesAssumption, BitmapSizeRange
  <2> HIDE DEF bm
  <2>4. TypeOK'
    BY <1>t, <2>1, <2>3, SizesAssumption DEF TypeOK
  <2>5. Chosen'
    <3>1. 0 < bm * ByteBits
      BY <2>3, SizesAssumption
    <3>2. SlotOffset(bm, req.ds, 0 + 1) <= Size
      BY <2>2, <2>3, SizesAssumption DEF SlotOffset, Room
    <3>3. bm # 0 /\ bm + HeaderSize < Size
      BY <2>2, <2>3, SizesAssumption DEF Room
    <3> QED
      BY <2>1, <2>2, <3>1, <3>2, <3>3 DEF Chosen, HeaderValid, SlotOffset
  <2>6. Log(req.at)'
    <3>1. 0 <= bm * ByteBits
      BY <2>3, SizesAssumption
    <3>2. SlotOffset(bm, req.ds, 0) <= Size
      BY <2>2, <2>3, SizesAssumption DEF SlotOffset, Room
    <3> QED BY <2>1, <2>2, <3>1, <3>2 DEF Log, SlotOffset, Blank
  <2> QED
    BY <2>1, <2>2, <2>4, <2>5, <2>6 DEF IInv
<1>6. ASSUME ProgramBit
      PROVE  IInv'
  <2>1. /\ bitmap' = bitmap \cup {req.at}
        /\ pc = "bit" /\ pc' = "data"
        /\ UNCHANGED <<hdr, slots, req, ret>>
    BY <1>6 DEF ProgramBit
  <2>2. Chosen /\ Log(req.at) /\ req.at \in Nat /\ ret = "none"
    BY <1>t, <2>1, SizesAssumption DEF IInv, TypeOK, SlotIds
  <2>3. bitmap' = 0 .. req.at
    BY <2>1, <2>2 DEF Log
  <2>4. TypeOK'
    BY <1>t, <2>1, <2>2 DEF TypeOK
  <2>5. Chosen'
    BY <2>1, <2>2 DEF Chosen, HeaderValid, SlotOffset
  <2> QED
    BY <2>1, <2>2, <2>3, <2>4, <2>5 DEF IInv, Log
<1>7. ASSUME ProgramData
      PROVE  IInv'
  <2>1. /\ slots' = [slots EXCEPT ![req.at] = Program(slots[req.at], req.val)]
        /\ pc = "data" /\ pc' = "idle" /\ ret' = "ok"
        /\ UNCHANGED <<hdr, bitmap, req>>
    BY <1>7 DEF ProgramData
  <2>2. /\ Chosen /\ bitmap = 0 .. req.at
        /\ \A i \in SlotIds : i >= req.at => slots[i] = Erased
        /\ req.at \in SlotIds /\ req.val \in Values \cup {Erased}
    BY <1>t, <2>1 DEF IInv, TypeOK
  <2>3. Program(slots[req.at], req.val) = req.val
    BY <2>2, SizesAssumption DEF Program, SlotIds
  <2>4. slots' \in [SlotIds -> Cell] /\ slots'[req.at] = req.val
    BY <1>t, <2>1, <2>2, <2>3 DEF TypeOK, Cell
  <2>5. TypeOK'
    BY <1>t, <2>1, <2>4 DEF TypeOK
  <2>6. Quiet'
    <3>1. req.at + 1 \in Nat
      BY <2>2, SizesAssumption DEF SlotIds
    <3>2. req.at < hdr.bm * ByteBits /\ hdr.bm * ByteBits \in Nat
      BY <2>2, <1>t, SizesAssumption DEF Chosen, TypeOK
    <3>3. \A i \in SlotIds : i >= req.at + 1 => slots'[i] = Erased
      BY <2>1, <2>2, <1>t, SizesAssumption DEF TypeOK, SlotIds
    <3>4. Log(req.at + 1)'
      BY <2>1, <2>2, <3>1, <3>2, <3>3, SizesAssumption
         DEF Log, Chosen, SlotOffset, SlotIds
    <3> QED BY <2>1, <3>1, <3>4 DEF Quiet
  <2>7. Chosen'
    BY <2>1, <2>2 DEF Chosen, HeaderValid, SlotOffset
  <2>8. hdr'.ok => hdr'.ds \in DataSizes
    BY <2>1 DEF IInv
  <2> QED
    BY <2>1, <2>2, <2>4, <2>5, <2>6, <2>7, <2>8 DEF IInv
<1>8. ASSUME CutErase
      PROVE  IInv'
  <2>1. pc = "erase" /\ EraseSome /\ pc' = "idle" /\ ret' = "fail" /\ req' = req
    BY <1>8 DEF CutErase, Ends
  <2>2. /\ hdr' \in {hdr, NoHeader} /\ bitmap' \in {bitmap, {}}
        /\ hdr' \in [ok : BOOLEAN, bm : 0 .. Size, ds : Nat]
        /\ slots' \in [SlotIds -> Cell] /\ Quiet'
    BY <1>t, <2>1, EraseSomeQuiet DEF IInv
  <2>3. TypeOK'
    BY <1>t, <2>1, <2>2 DEF TypeOK
  <2> QED
    BY <2>1, <2>2, <2>3 DEF IInv, NoHeader
<1>9. ASSUME CutHeader
      PROVE  IInv'
  <2>1. /\ pc = "header" /\ pc' = "idle" /\ ret' = "fail"
        /\ UNCHANGED <<bitmap, slots, req>>
        /\ bitmap = {} /\ slots = Blank /\ req.ds \in DataSizes
        /\ hdr = NoHeader
    BY <1>9 DEF CutHeader, Ends, IInv
  <2>2. CASE hdr' = hdr
    BY <1>t, <2>1, <2>2 DEF IInv, TypeOK, Quiet, HeaderLive, NoHeader
  <2>3. CASE hdr' # hdr
    <3>1. PICK bm \in BitmapSize(req.ds) .. Size, ds \in DataSizes :
            hdr' = [ok |-> TRUE, bm |-> bm, ds |-> ds]
      BY <1>9, <2>3 DEF CutHeader
    <3>2. bm \in 1 .. Size /\ ds \in Nat \ {0}
      <4>1. BitmapSize(req.ds) \in 1 .. Size
        BY <2>1, SizesAssumption, BitmapSizeRange
      <4> QED BY <4>1, SizesAssumption
    <3>3. TypeOK'
      BY <1>t, <2>1, <3>1, <3>2, SizesAssumption DEF TypeOK
    <3>4. Quiet'
      <4> SUFFICES ASSUME HeaderLive' PROVE Log(0)'
        BY DEF Quiet
      <4>1. bm + HeaderSize < Size
        BY <3>1 DEF HeaderLive
      <4>2. SlotOffset(bm, ds, 0) <= Size
        BY <4>1, <3>2, SizesAssumption DEF SlotOffset
      <4>3. 0 <= bm * ByteBits
        BY <3>2, SizesAssumption
      <4> QED
        BY <2>1, <3>1, <4>2, <4>3 DEF Log, SlotOffset, Blank
    <3> QED
      BY <2>1, <3>1, <3>3, <3>4 DEF IInv
  <2> QED BY <2>2, <2>3
<1>10. ASSUME CutBit
       PROVE  IInv'
  <2>1. /\ bitmap' \in {bitmap, bitmap \cup {req.at}}
        /\ pc = "bit" /\ pc' = "idle" /\ ret' = "fail"
        /\ UNCHANGED <<hdr, slots, req>>
    BY <1>10 DEF CutBit, Ends
  <2>2. Chosen /\ Log(req.at) /\ req.at \in Nat
    BY <1>t, <2>1, SizesAssumption DEF IInv, TypeOK, SlotIds
  <2>3. TypeOK'
    BY <1>t, <2>1, <2>2 DEF TypeOK
  <2>4. CASE bitmap' = bitmap
    <3>1. Log(req.at)'
      BY <2>1, <2>2, <2>4 DEF Log, SlotOffset
    <3>2. Quiet'
      BY <3>1, <2>1, <2>2 DEF Quiet
    <3> QED BY <2>1, <2>3, <3>2 DEF IInv
  <2>5. CASE bitmap' = bitmap \cup {req.at}
    <3>1. hdr.bm * ByteBits \in Nat
      BY <1>t, SizesAssumption DEF TypeOK
    <3>2. bitmap' = 0 .. (req.at + 1) - 1
      BY <2>2, <2>5 DEF Log
    <3>3. \A i \in SlotIds : i >= req.at + 1 => slots[i] = Erased
      BY <2>2, SizesAssumption DEF Log, SlotIds
    <3>4. Log(req.at + 1)'
      BY <2>1, <2>2, <3>1, <3>2, <3>3 DEF Log, Chosen, SlotOffset
    <3>5. Quiet'
      BY <3>4, <2>1, <2>2 DEF Quiet
    <3> QED BY <2>1, <2>3, <3>5 DEF IInv
  <2> QED BY <2>1, <2>4, <2>5
<1>11. ASSUME CutData
       PROVE  IInv'
  <2>1. PICK c \in {slots[req.at], Torn, Program(slots[req.at], req.val)} :
          slots' = [slots EXCEPT ![req.at] = c]
    BY <1>11 DEF CutData
  <2>2. /\ pc = "data" /\ pc' = "idle" /\ ret' = "fail"
        /\ UNCHANGED <<hdr, bitmap, req>>
    BY <1>11 DEF CutData, Ends
  <2>3. /\ Chosen /\ bitmap = 0 .. req.at
        /\ \A i \in SlotIds : i >= req.at => slots[i] = Erased
        /\ req.at \in SlotIds /\ req.val \in Values \cup {Erased}
    BY <1>t, <2>2 DEF IInv, TypeOK
  <2>4. TypeOK'
    BY <1>t, <2>1, <2>2, <2>3 DEF TypeOK, Cell, Program
  <2>5. Quiet'
    <3>1. req.at + 1 \in Nat
      BY <2>3, SizesAssumption DEF SlotIds
    <3>2. req.at < hdr.bm * ByteBits /\ hdr.bm * ByteBits \in Nat
      BY <2>3, <1>t, SizesAssumption DEF Chosen, TypeOK
    <3>3. \A i \in SlotIds : i >= req.at + 1 => slots'[i] = Erased
      BY <2>1, <2>3, <1>t, SizesAssumption DEF TypeOK, SlotIds
    <3>4. Log(req.at + 1)'
      BY <2>2, <2>3, <3>1, <3>2, <3>3, SizesAssumption
         DEF Log, Chosen, SlotOffset, SlotIds
    <3> QED BY <2>2, <3>1, <3>4 DEF Quiet
  <2> QED
    BY <2>2, <2>4, <2>5 DEF IInv
<1>12. ASSUME FdcmErase
       PROVE  IInv'
  <2>1. pc = "idle" /\ pc' = "idle" /\ req' = req /\ ret' \in {"none", "fail"}
    BY <1>12 DEF FdcmErase
  <2>2. CASE EraseArea
    <3>1. TypeOK'
      BY <1>t, <2>1, <2>2, SizesAssumption DEF TypeOK, EraseArea, NoHeader, Blank, Cell
    <3> QED
      BY <2>1, <2>2, <3>1 DEF IInv, EraseArea, NoHeader, Quiet, HeaderLive
  <2>3. CASE EraseSome
    <3>1. /\ hdr' \in {hdr, NoHeader} /\ bitmap' \in {bitmap, {}}
          /\ hdr' \in [ok : BOOLEAN, bm : 0 .. Size, ds : Nat]
          /\ slots' \in [SlotIds -> Cell] /\ Quiet'
      BY <1>t, <2>1, <2>3, EraseSomeQuiet DEF IInv
    <3>2. TypeOK'
      BY <1>t, <2>1, <3>1 DEF TypeOK
    <3> QED
      BY <2>1, <3>1, <3>2 DEF IInv, NoHeader
  <2> QED BY <1>12, <2>2, <2>3 DEF FdcmErase
<1>u. ASSUME WriteUnread
      PROVE  IInv'
  BY <1>u DEF IInv, TypeOK, WriteUnread, flash, Quiet, HeaderLive, Log,
               SlotOffset, Chosen, HeaderValid
<1>13. CASE UNCHANGED vars
  BY <1>13 DEF IInv, TypeOK, vars, Quiet, HeaderLive, Log, SlotOffset, Chosen,
               HeaderValid, Room, BitmapSize
<1> QED
  BY <1>1, <1>2, <1>3, <1>4, <1>5, <1>6, <1>7, <1>8, <1>9, <1>10, <1>11, <1>12,
     <1>13, <1>u DEF Next

-----------------------------------------------------------------------------
(* The theorems *)

\* The inductive invariant holds throughout.
LEMMA Invariant == Spec => []IInv
<1> QED BY InitIInv, NextIInv, PTL DEF Spec

\* Type correctness: the header's bitmap size never exceeds the area and the
\* slot of a write is one of the area's (fdcm_rewrite, rom_fdcm_write).
THEOREM TypeCorrect == Spec => []TypeOK
<1>1. IInv => TypeOK
  BY DEF IInv
<1> QED BY <1>1, Invariant, PTL

\* rom_fdcm_read returns what the last successful rom_fdcm_write stored.
THEOREM CommittedReadableAlways == Spec => []CommittedReadable
<1>1. IInv => CommittedReadable
  <2> SUFFICES ASSUME IInv, ret = "ok"
               PROVE  ReadBack(req.ds) = req.val
    BY DEF CommittedReadable
  <2>1. /\ Chosen /\ bitmap = 0 .. req.at /\ slots[req.at] = req.val
        /\ TypeOK /\ req.at \in Nat
    BY SizesAssumption DEF IInv, TypeOK, SlotIds
  <2>2. bitmap = 0 .. (req.at + 1) - 1 /\ req.at + 1 \in Nat
    BY <2>1
  <2>3. req.at + 1 <= hdr.bm * ByteBits
    <3>1. hdr.bm * ByteBits \in Nat
      BY <2>1, SizesAssumption DEF TypeOK
    <3> QED BY <2>1, <3>1 DEF Chosen
  <2>4. Used = req.at + 1
    <3>1. hdr.bm \in Nat
      BY <2>1, SizesAssumption DEF TypeOK
    <3> QED BY <2>1, <2>2, <2>3, <3>1, LogCount
  <2> QED BY <2>1, <2>4 DEF ReadBack, Chosen
<1> QED BY <1>1, Invariant, PTL

\* Between calls every slot the bitmap does not count is erased.
THEOREM FreeSlotsErasedAlways == Spec => []FreeSlotsErased
<1>1. IInv => FreeSlotsErased
  <2> SUFFICES ASSUME IInv, pc = "idle", NEW ds \in DataSizes, HeaderValid(ds),
                      NEW i \in SlotIds, i >= Used
               PROVE  slots[i] = Erased
    BY DEF FreeSlotsErased
  <2>1. PICK n \in Nat : Log(n)
    BY DEF IInv, Quiet, HeaderLive, HeaderValid
  <2>2. Used = n
    <3>1. hdr.bm \in Nat
      BY SizesAssumption DEF IInv, TypeOK
    <3> QED BY <2>1, <3>1, LogCount DEF Log
  <2> QED BY <2>1, <2>2 DEF Log
<1> QED BY <1>1, Invariant, PTL

\* The used bits are always the first ones of the bitmap.
THEOREM BitmapIsPrefixAlways == Spec => []BitmapIsPrefix
<1>1. IInv => BitmapIsPrefix
  <2> SUFFICES ASSUME IInv, NEW ds \in DataSizes, HeaderValid(ds)
               PROVE  bitmap = 0 .. Used - 1
    BY DEF BitmapIsPrefix
  <2>t. TypeOK /\ req.at \in Nat /\ hdr.bm \in Nat /\ hdr.bm * ByteBits \in Nat
    BY SizesAssumption DEF IInv, TypeOK, SlotIds
  <2>1. \E n \in Nat : bitmap = 0 .. n - 1 /\ n <= hdr.bm * ByteBits
    <3>1. CASE pc \in {"idle", "erase"}
      BY <3>1 DEF IInv, Quiet, HeaderLive, HeaderValid, Log
    <3>2. CASE pc = "header"
      BY <3>2 DEF IInv, HeaderValid, NoHeader
    <3>3. CASE pc = "bit"
      BY <3>3, <2>t DEF IInv, Log
    <3>4. CASE pc = "data"
      <4>1. bitmap = 0 .. (req.at + 1) - 1 /\ req.at + 1 \in Nat
        BY <3>4, <2>t DEF IInv
      <4>2. req.at + 1 <= hdr.bm * ByteBits
        BY <3>4, <2>t DEF IInv, Chosen
      <4> QED BY <4>1, <4>2
    <3> QED BY <2>t, <3>1, <3>2, <3>3, <3>4 DEF TypeOK
  <2> QED BY <2>1, <2>t, LogCount
<1> QED BY <1>1, Invariant, PTL

\* Every byte rom_fdcm_write programs lies in the area it was given.
THEOREM WritesStayInAreaAlways == Spec => []WritesStayInArea
<1>1. IInv => WritesStayInArea
  <2> SUFFICES ASSUME IInv PROVE WritesStayInArea
    OBVIOUS
  <2>1. hdr.bm * ByteBits = ByteBits * hdr.bm
    BY SizesAssumption DEF IInv, TypeOK
  <2> QED
    BY <2>1 DEF IInv, WritesStayInArea, Chosen, HeaderValid
<1> QED BY <1>1, Invariant, PTL

-----------------------------------------------------------------------------
(* Refinement: the area implements the register of RecordStore *)

\* What a read gives when the header or the bitmap yields no stored value.
LEMMA ViewBad ==
  ASSUME NEW ds
  PROVE  /\ ~HeaderValid(ds) => View(ds) = "nothing"
         /\ HeaderValid(ds) /\ Used = 0 => View(ds) = "garbage"
         /\ (HeaderValid(ds) /\ Used # 0 /\ slots[Used - 1] \in {Erased, Torn}) =>
              View(ds) \in {"nothing", "garbage"}
BY CellAssumption DEF View, ReadBack

\* The same, of the state after a step.
LEMMA ViewBadNext ==
  ASSUME NEW ds
  PROVE  /\ ~HeaderValid(ds)' => View(ds)' = "nothing"
         /\ HeaderValid(ds)' /\ Used' = 0 => View(ds)' = "garbage"
         /\ (HeaderValid(ds)' /\ Used' # 0 /\ slots'[Used' - 1] \in {Erased, Torn}) =>
              View(ds)' \in {"nothing", "garbage"}
BY CellAssumption DEF View, ReadBack, HeaderValid

\* A step that leaves the flash alone leaves every read alone.
LEMMA ViewSame ==
  ASSUME UNCHANGED <<hdr, bitmap, slots>>
  PROVE  \A d \in DataSizes : View(d)' = View(d)
BY DEF View, ReadBack, HeaderValid, Used, BitCount, IsBitCount, FullByte

\* When the used slots end with slot n, a read of the record size in the
\* header gives that slot and a read of any other size nothing.
LEMMA ViewOfLast ==
  ASSUME NEW n \in Nat, (hdr.bm)' \in Nat, bitmap' = 0 .. n,
         (n + 1 <= hdr.bm * ByteBits)',
         NEW d \in DataSizes
  PROVE  /\ Used' = n + 1
         /\ View(d)' \in {"nothing", "garbage", slots'[n]}
         /\ (HeaderValid(d)' /\ slots'[n] \in Values) => View(d)' = slots'[n]
         /\ (slots'[n] \notin Values) => View(d)' \in {"nothing", "garbage"}
<1>1. bitmap' = 0 .. (n + 1) - 1 /\ n + 1 \in Nat
  OBVIOUS
<1>2. BitCount(bitmap', hdr'.bm) = n + 1
  BY <1>1, BitCountOfPrefix
<1>3. Used' = n + 1
  BY <1>2 DEF Used
<1>4. (n + 1) - 1 = n /\ n + 1 # 0
  OBVIOUS
<1> QED
  BY <1>3, <1>4 DEF View, ReadBack, HeaderValid

\* An erase that stops early spoils what is read or leaves it.
LEMMA EraseSomeView ==
  ASSUME TypeOK, Quiet, EraseSome, hdr.ok => hdr.ds \in DataSizes,
         NEW d \in DataSizes
  PROVE  View(d)' \in {View(d), "nothing", "garbage"}
<1>1. CASE hdr' = NoHeader
  BY <1>1, ViewBadNext DEF HeaderValid, NoHeader
<1>2. CASE UNCHANGED <<hdr, bitmap>>
  <2>1. Used' = Used /\ (HeaderValid(d)' <=> HeaderValid(d))
    BY <1>2 DEF Used, HeaderValid
  <2>2. CASE ~HeaderValid(d)
    BY <2>1, <2>2, ViewBadNext
  <2>3. CASE HeaderValid(d)
    <3>1. PICK n \in Nat : Log(n)
      BY <2>3 DEF Quiet, HeaderLive, HeaderValid
    <3>2. hdr.bm \in Nat /\ hdr.ds \in Nat \ {0}
      BY <2>3, SizesAssumption DEF TypeOK, HeaderValid
    <3>3. Used = n
      BY <3>1, <3>2, LogCount DEF Log
    <3>4. CASE n = 0
      BY <2>1, <2>3, <3>3, <3>4, ViewBadNext
    <3>5. CASE n # 0
      <4>1. n \in SlotIds
        BY <3>1, <3>2, SlotInRange DEF Log
      <4>2. n - 1 \in SlotIds
        BY <4>1, <3>5, SizesAssumption DEF SlotIds
      <4>3. slots'[n - 1] \in {slots[n - 1], Erased}
        BY <4>2 DEF EraseSome
      <4>4. CASE slots'[n - 1] = Erased
        BY <2>1, <2>3, <3>3, <3>5, <4>4, ViewBadNext
      <4>5. CASE slots'[n - 1] = slots[n - 1]
        BY <2>1, <2>3, <3>3, <3>5, <4>5 DEF View, ReadBack
      <4> QED BY <4>3, <4>4, <4>5
    <3> QED BY <3>4, <3>5
  <2> QED BY <2>2, <2>3
<1> QED BY <1>1, <1>2 DEF EraseSome

\* The first state of the area is an empty store.
LEMMA InitRefines == Init => Store!Init
BY ViewBad DEF Init, Store!Init, HeaderValid, NoHeader

\* Each flash operation, cut and refusal is a step of the store or none.
LEMMA NextRefines == IInv /\ IInv' /\ [Next]_vars => [Store!Next]_(Store!vars)
<1> SUFFICES ASSUME IInv, IInv', [Next]_vars
             PROVE  [Store!Next]_(Store!vars)
  OBVIOUS
<1> DEFINE view == [d \in DataSizes |-> View(d)]
           call == IF pc = "idle" THEN {} ELSE {<<req.ds, req.val>>}
<1>t. /\ TypeOK /\ TypeOK' /\ req.at \in Nat
      /\ hdr.bm \in Nat /\ (hdr.bm)' \in Nat
  BY SizesAssumption DEF IInv, TypeOK, SlotIds
<1>v. (\A d \in DataSizes : View(d)' = View(d)) => view' = view
  OBVIOUS
<1>1. ASSUME NEW ds \in DataSizes, WriteRefused(ds)
      PROVE  Store!Reject
  <2>1. view' = view
    BY <1>1, <1>v, ViewSame DEF WriteRefused, flash
  <2> QED BY <1>1, <2>1 DEF WriteRefused, Store!Reject
<1>2. ASSUME NEW ds \in DataSizes, NEW v \in Values,
             WriteAppend(ds, v) \/ WriteRewrite(ds, v)
      PROVE  Store!Begin(ds, v)
  <2>1. view' = view
    BY <1>2, <1>v, ViewSame DEF WriteAppend, WriteRewrite, flash
  <2>2. call = {} /\ call' = {<<ds, v>>} /\ ret' = "none"
    BY <1>2 DEF WriteAppend, WriteRewrite
  <2> QED BY <2>1, <2>2 DEF Store!Begin
<1>3. ASSUME pc # "idle", pc' # "idle", req' = req, ret' = ret,
             \A d \in DataSizes : View(d)' \in {View(d), "nothing", "garbage"}
      PROVE  Store!Progress
  <2>1. call # {} /\ call' = call
    BY <1>3
  <2> QED BY <1>3, <2>1 DEF Store!Progress, Store!Disturb
<1>4. ASSUME pc # "idle", pc' = "idle", ret' = "fail",
             \A d \in DataSizes :
               \/ View(d)' \in {View(d), "nothing", "garbage"}
               \/ d = req.ds /\ View(d)' = req.val
      PROVE  Store!Abort
  <2>1. call = {<<req.ds, req.val>>} /\ call' = {}
    BY <1>4
  <2> HIDE DEF call
  <2>2. ASSUME NEW d \in DataSizes
        PROVE  View(d)' \in {View(d), "nothing", "garbage"}
                   \cup {w[2] : w \in {t \in call : t[1] = d}}
    <3>1. CASE View(d)' \in {View(d), "nothing", "garbage"}
      BY <3>1
    <3>2. CASE d = req.ds /\ View(d)' = req.val
      <4> DEFINE w == <<req.ds, req.val>>
      <4>1. w[1] = d /\ w[2] = View(d)' /\ w \in call
        BY <2>1, <3>2
      <4> QED BY <4>1
    <3> QED BY <1>4, <3>1, <3>2
  <2> QED BY <1>4, <2>1, <2>2 DEF Store!Abort, Store!Disturb, call
<1>5. CASE Erase
  <2>1. /\ pc = "erase" /\ pc' = "header" /\ UNCHANGED <<req, ret>>
        /\ hdr' = NoHeader
    BY <1>5 DEF Erase, EraseArea
  <2>2. \A d \in DataSizes : View(d)' = "nothing"
    BY <2>1, ViewBadNext DEF HeaderValid, NoHeader
  <2> QED BY <2>1, <2>2, <1>3 DEF Store!Next
<1>h. ASSUME pc \in {"header", "bit"}, Used' = 0, NEW d \in DataSizes
      PROVE  View(d)' \in {"nothing", "garbage"}
  BY <1>h, ViewBadNext
<1>z. ASSUME bitmap' = {}
      PROVE  Used' = 0
  <2>1. bitmap' = 0 .. 0 - 1
    BY <1>z
  <2>2. 0 <= hdr'.bm * ByteBits
    BY <1>t, SizesAssumption
  <2> QED BY <1>t, <2>1, <2>2, BitCountOfPrefix DEF Used
<1>6. CASE ProgramHeader
  <2>1. pc = "header" /\ bitmap' = {} /\ pc' = "bit" /\ UNCHANGED <<req, ret>>
    BY <1>6 DEF ProgramHeader, IInv
  <2> QED BY <2>1, <1>z, <1>h, <1>3 DEF Store!Next
<1>b. ASSUME pc = "bit", bitmap' = bitmap \cup {req.at}, UNCHANGED <<hdr, slots, req>>,
             NEW d \in DataSizes
      PROVE  View(d)' \in {"nothing", "garbage"}
  <2>1. /\ Chosen /\ Log(req.at) /\ req.at \in SlotIds
        /\ req.at < hdr.bm * ByteBits
    BY <1>b DEF IInv, TypeOK, Chosen
  <2>2. bitmap' = 0 .. req.at
    BY <1>b, <1>t, <2>1 DEF Log
  <2>3. slots'[req.at] = Erased
    BY <1>b, <1>t, <2>1 DEF Log
  <2>4. (req.at + 1 <= hdr.bm * ByteBits)'
    <3>1. hdr.bm * ByteBits \in Nat
      BY <1>t, SizesAssumption
    <3> QED BY <1>b, <1>t, <2>1, <3>1
  <2>5. slots'[req.at] \notin Values
    BY <2>3, CellAssumption
  <2> DEFINE n == req.at
  <2>6. n \in Nat /\ bitmap' = 0 .. n /\ n + 1 <= hdr'.bm * ByteBits
        /\ slots'[n] \notin Values
    BY <1>b, <1>t, <2>2, <2>4, <2>5
  <2> HIDE DEF n
  <2> QED BY <1>t, <2>6, ViewOfLast
<1>7. CASE ProgramBit
  <2>1. pc = "bit" /\ bitmap' = bitmap \cup {req.at} /\ UNCHANGED <<hdr, slots, req>>
        /\ ret' = ret /\ pc' = "data"
    BY <1>7 DEF ProgramBit
  <2>2. \A d \in DataSizes : View(d)' \in {"nothing", "garbage"}
    BY <2>1, <1>b
  <2> QED BY <2>1, <2>2, <1>3 DEF Store!Next
<1>d. ASSUME pc = "data", UNCHANGED <<hdr, bitmap, req>>,
             slots'[req.at] \in {Erased, Torn, req.val},
             NEW d \in DataSizes
      PROVE  /\ View(d)' \in {"nothing", "garbage"} \/ (d = req.ds /\ View(d)' = req.val)
             /\ (slots'[req.at] = req.val) =>
                  View(d)' = IF d = req.ds THEN req.val ELSE "nothing"
  <2>1. /\ Chosen /\ bitmap' = 0 .. req.at /\ req.val \in Values
        /\ req.at < hdr.bm * ByteBits
    BY <1>d DEF IInv, Chosen
  <2>2. (HeaderValid(d)' => d = req.ds) /\ (d = req.ds => HeaderValid(d)')
    BY <1>d, <2>1 DEF Chosen, HeaderValid
  <2>3. CASE d # req.ds
    BY <2>2, <2>3, ViewBadNext
  <2>4. CASE d = req.ds
    <3> DEFINE n == req.at
    <3>1. n \in Nat /\ bitmap' = 0 .. n /\ n + 1 <= hdr'.bm * ByteBits
      <4>1. hdr.bm * ByteBits \in Nat
        BY <1>t, SizesAssumption
      <4> QED BY <1>d, <1>t, <2>1, <4>1
    <3>2. HeaderValid(d)' /\ slots'[n] \in {Erased, Torn, req.val}
      BY <1>d, <2>2, <2>4
    <3> HIDE DEF n
    <3>3. /\ (slots'[n] \in Values) => View(d)' = slots'[n]
          /\ (slots'[n] \notin Values) => View(d)' \in {"nothing", "garbage"}
      BY <1>t, <3>1, <3>2, ViewOfLast
    <3> QED BY <2>1, <2>4, <3>2, <3>3, CellAssumption DEF n
  <2> QED BY <2>3, <2>4
<1>p. ASSUME pc = "data"
      PROVE  /\ slots \in [SlotIds -> Cell] /\ req.at \in SlotIds
             /\ slots[req.at] = Erased
             /\ Program(slots[req.at], req.val) = req.val
  BY <1>p, <1>t DEF IInv, TypeOK, Program
<1>8. CASE ProgramData
  <2>1. /\ pc = "data" /\ pc' = "idle" /\ ret' = "ok"
        /\ UNCHANGED <<hdr, bitmap, req>>
        /\ slots'[req.at] = req.val
    BY <1>8, <1>p DEF ProgramData
  <2>2. \A d \in DataSizes : View(d)' = IF d = req.ds THEN req.val ELSE "nothing"
    BY <2>1, <1>d
  <2> DEFINE w == <<req.ds, req.val>>
  <2>3. w \in call /\ call' = {} /\ w[1] = req.ds /\ w[2] = req.val
    BY <2>1
  <2>4. view' = [d \in DataSizes |-> IF d = w[1] THEN w[2] ELSE "nothing"]
    BY <2>2
  <2>5. Store!Commit
    BY <2>1, <2>3, <2>4 DEF Store!Commit
  <2> QED BY <2>5 DEF Store!Next
<1>9. CASE CutErase
  <2>1. pc = "erase" /\ EraseSome /\ pc' = "idle" /\ ret' = "fail" /\ Quiet
    BY <1>9 DEF CutErase, Ends, IInv
  <2>2. \A d \in DataSizes : View(d)' \in {View(d), "nothing", "garbage"}
    BY <2>1, <1>t, EraseSomeView DEF IInv
  <2> QED BY <2>1, <2>2, <1>4 DEF Store!Next
<1>10. CASE CutHeader
  <2>1. pc = "header" /\ bitmap' = {} /\ pc' = "idle" /\ ret' = "fail"
    BY <1>10 DEF CutHeader, Ends, IInv
  <2> QED BY <2>1, <1>z, <1>h, <1>4 DEF Store!Next
<1>11. CASE CutBit
  <2>1. /\ pc = "bit" /\ pc' = "idle" /\ ret' = "fail"
        /\ UNCHANGED <<hdr, slots, req>>
        /\ bitmap' \in {bitmap, bitmap \cup {req.at}}
    BY <1>11 DEF CutBit, Ends
  <2>2. \A d \in DataSizes : View(d)' \in {View(d), "nothing", "garbage"}
    <3>1. CASE bitmap' = bitmap
      BY <2>1, <3>1, ViewSame
    <3>2. CASE bitmap' = bitmap \cup {req.at}
      BY <2>1, <3>2, <1>b
    <3> QED BY <2>1, <3>1, <3>2
  <2> QED BY <2>1, <2>2, <1>4 DEF Store!Next
<1>12. CASE CutData
  <2>1. /\ pc = "data" /\ pc' = "idle" /\ ret' = "fail"
        /\ UNCHANGED <<hdr, bitmap, req>>
        /\ slots'[req.at] \in {Erased, Torn, req.val}
    BY <1>12, <1>p DEF CutData, Ends
  <2> QED BY <2>1, <1>d, <1>4 DEF Store!Next
<1>13. CASE FdcmErase
  <2>1. pc = "idle" /\ call = {} /\ call' = {}
    BY <1>13 DEF FdcmErase
  <2>2. CASE EraseArea /\ ret' = "none"
    <3>1. \A d \in DataSizes : View(d)' = "nothing"
      BY <2>2, ViewBadNext DEF EraseArea, HeaderValid, NoHeader
    <3> QED BY <2>1, <2>2, <3>1 DEF Store!Clear, Store!Next
  <2>3. CASE EraseSome /\ ret' = "fail"
    <3>1. \A d \in DataSizes : View(d)' \in {View(d), "nothing", "garbage"}
      BY <2>1, <2>3, <1>t, EraseSomeView DEF IInv
    <3> QED BY <2>1, <2>3, <3>1 DEF Store!Clear, Store!Disturb, Store!Next
  <2> QED BY <1>13, <2>2, <2>3 DEF FdcmErase
<1>14. CASE UNCHANGED vars
  <2>1. view' = view
    BY <1>14, <1>v, ViewSame DEF vars
  <2> QED BY <1>14, <2>1 DEF vars, Store!vars
<1>15. ASSUME NEW ds \in DataSizes, WriteRefused(ds)
       PROVE  Store!Next
  BY <1>15, <1>1 DEF Store!Next
<1>17. CASE WriteUnread
  <2>1. view' = view
    BY <1>17, <1>v, ViewSame DEF WriteUnread, flash
  <2> QED BY <1>17, <2>1 DEF WriteUnread, Store!Reject, Store!Next
<1>16. ASSUME NEW ds \in DataSizes, NEW v \in Values,
              WriteAppend(ds, v) \/ WriteRewrite(ds, v)
       PROVE  Store!Next
  BY <1>16, <1>2 DEF Store!Next
<1> QED
  BY <1>5, <1>6, <1>7, <1>8, <1>9, <1>10, <1>11, <1>12, <1>13, <1>14, <1>15,
     <1>16, <1>17 DEF Next

\* An FDCM area implements the store: a successful write replaces the record,
\* a write or an erase cut short leaves the old record, the new one or none,
\* and no other call changes what is read (rom_fdcm_write, rom_fdcm_read).
THEOREM AreaImplementsStore == Spec => ImplementsStore
<1> QED BY InitRefines, NextRefines, Invariant, PTL DEF Spec, ImplementsStore, Store!Spec
=============================================================================
