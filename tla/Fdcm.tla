-------------------------------- MODULE Fdcm --------------------------------
(***************************************************************************)
(* The flash data circular manager (FDCM): one flash area that holds a     *)
(* header, a bitmap of used slots (a cleared bit means used) and slots of  *)
(* data_size bytes.  A write takes the next slot; when the slots or the    *)
(* bits run out the area is erased and started again.                      *)
(*                                                                         *)
(* Every flash operation of a call is one step.  A step may be cut short   *)
(* by a power failure or by a flash error: both end the call, because FDCM *)
(* keeps no state in RAM between calls, and leave in flash what the cut    *)
(* operation had reached.  Calls on one handle are serialised here.        *)
(***************************************************************************)
EXTENDS Integers

CONSTANTS
  Size,        \* fdcm_handle_t::size, bytes of the area
  HeaderSize,  \* FDCM_HEADER_SIZE, 8 in the source
  ByteBits,    \* FDCM_BYTE_BITS, 8 in the source
  IndexMax,    \* FDCM_INDEX_MAX, 1024 in the source
  FieldMod,    \* 2^16: the header's sizes are uint16_t
  DataSizes,   \* the record sizes callers pass (a new firmware may change it)
  Values,      \* what callers store
  Erased,      \* a slot whose bits are all ones
  Torn         \* a slot holding neither an erased nor a stored value

ASSUME SizesAssumption ==
  /\ Size \in Nat /\ HeaderSize \in Nat \ {0} /\ ByteBits \in Nat \ {0}
  /\ IndexMax \in Nat \ {0} /\ FieldMod \in Nat
  /\ HeaderSize + 1 < Size     \* an area is at least one 4 KB erase block
  /\ Size <= FieldMod          \* the areas of the source are 4 KB to 64 KB
  /\ DataSizes \subseteq Nat \ {0}

ASSUME CellAssumption == Values \cap {Erased, Torn, "nothing", "stray"} = {}

VARIABLES
  hdr,     \* the header in flash; ok: its id_code is FDCM_ID_CODE
  bitmap,  \* the cleared (used) bits, numbered from 0
  slots,   \* the contents of the slots, in the header's geometry
  pc,      \* the flash operation the call in progress does next
  req,     \* its data size, its data and the slot it goes to
  ret      \* what the last call returned: "none" while it runs

flash == <<hdr, bitmap, slots>>
vars  == <<hdr, bitmap, slots, pc, req, ret>>

Cell     == Values \cup {Erased, Torn}
SlotIds  == 0 .. Size
Blank    == [i \in SlotIds |-> Erased]
NoHeader == [ok |-> FALSE, bm |-> 0, ds |-> 0]

-----------------------------------------------------------------------------
(* Geometry *)

\* The bitmap size the code gives a fresh area; the u16 field wraps before
\* it is clamped.
BitmapSize(ds) ==
  LET n == ((Size - HeaderSize - 1) \div (ds * ByteBits + 1) + 1) % FieldMod
  IN  IF n > IndexMax THEN IndexMax ELSE n

\* Bytes left for slots behind a bitmap of bm bytes.
Room(bm) == Size - HeaderSize - bm

\* First byte of slot i, from the start of the area.
SlotOffset(bm, ds, i) == HeaderSize + bm + ds * i

\* Mutated: the record size is not compared.
HeaderValidAnySize(ds) == hdr.ok /\ hdr.bm # 0 /\ hdr.bm + HeaderSize < Size

\* The check both the read and the write do on the header.
HeaderValid(ds) ==
  hdr.ok /\ hdr.ds = ds /\ hdr.bm # 0 /\ hdr.bm + HeaderSize < Size

\* Byte k of the bitmap with used bits b reads zero.
FullByte(b, k) == \A i \in k * ByteBits .. (k + 1) * ByteBits - 1 : i \in b

\* n is what fdcm_bit_count returns: the bits of the leading zero bytes,
\* then in the first other byte those up to its highest used bit.
IsBitCount(b, bm, n) ==
  \E k \in 0 .. bm :
    /\ \A i \in 0 .. k * ByteBits - 1 : i \in b
    /\ \/ k = bm /\ n = k * ByteBits
       \/ /\ k < bm /\ ~FullByte(b, k)
          /\ n \in k * ByteBits .. (k + 1) * ByteBits
          /\ n > k * ByteBits => n - 1 \in b
          /\ \A i \in n .. (k + 1) * ByteBits - 1 : i \notin b

\* Mutated: the bits of the last, partly used byte are not counted.
BitCountOfFullBytes(b, bm) ==
  ByteBits * (CHOOSE k \in 0 .. bm :
                /\ \A j \in 0 .. k - 1 : FullByte(b, j)
                /\ k < bm => ~FullByte(b, k))

BitCount(b, bm) == CHOOSE n \in 0 .. bm * ByteBits : IsBitCount(b, bm, n)

\* The slots in use, of the flash as it is now.
Used == BitCount(bitmap, hdr.bm)

\* Mutated: the end of the last used slot is compared, not of the next one.
AreaFullTooLate(ds) ==
  \/ Used >= ByteBits * hdr.bm
  \/ SlotOffset(hdr.bm, ds, Used) > Size

\* No bit or no room for one more slot: the write starts the area again.
AreaFull(ds) ==
  \/ Used >= ByteBits * hdr.bm
  \/ SlotOffset(hdr.bm, ds, Used + 1) > Size

-----------------------------------------------------------------------------
(* Flash: programming only clears bits *)

Program(old, v) ==
  IF old = Erased THEN v ELSE IF v \in {old, Erased} THEN old ELSE Torn

-----------------------------------------------------------------------------
(* rom_fdcm_read, of the flash as it is now *)

\* With an empty bitmap the slot index is -1 and what is read lies before
\* the first slot.
ReadBack(ds) ==
  IF ~HeaderValid(ds) THEN "nothing"
  ELSE IF Used = 0 THEN "stray"
  ELSE slots[Used - 1]

-----------------------------------------------------------------------------
Init ==
  /\ hdr = NoHeader
  /\ bitmap = {}
  /\ slots \in {Blank, [i \in SlotIds |-> Torn]}
  /\ pc = "idle"
  /\ req = [ds |-> 0, val |-> Erased, at |-> 0]
  /\ ret = "none"

\* rom_fdcm_write: what the call decides from the header and the bitmap.
Appends(ds) == HeaderValid(ds) /\ ~AreaFull(ds)

Refused(ds) ==
  \/ HeaderValid(ds) /\ ds > Room(hdr.bm)
  \/ ~Appends(ds) /\ ds > Room(BitmapSize(ds))

WriteRefused(ds) ==
  /\ pc = "idle"
  /\ Refused(ds)
  /\ ret' = "fail"
  /\ UNCHANGED <<flash, pc, req>>

\* A flash read or the allocation of the bitmap's copy fails.
WriteUnread ==
  /\ pc = "idle"
  /\ ret' = "fail"
  /\ UNCHANGED <<flash, pc, req>>

\* Mutated: the record goes where the reader looks, to the last used slot.
AppendToLastSlot(ds, v) ==
  /\ pc = "idle"
  /\ ~Refused(ds) /\ Appends(ds)
  /\ req' = [ds |-> ds, val |-> v, at |-> Used - 1]
  /\ pc' = "bit"
  /\ ret' = "none"
  /\ UNCHANGED flash

WriteAppend(ds, v) ==
  /\ pc = "idle"
  /\ ~Refused(ds) /\ Appends(ds)
  /\ req' = [ds |-> ds, val |-> v, at |-> Used]
  /\ pc' = "bit"
  /\ ret' = "none"
  /\ UNCHANGED flash

\* Mutated: the old records are not erased.
RewriteWithoutErase(ds, v) ==
  /\ pc = "idle"
  /\ ~Refused(ds) /\ ~Appends(ds)
  /\ req' = [ds |-> ds, val |-> v, at |-> 0]
  /\ pc' = "header"
  /\ ret' = "none"
  /\ UNCHANGED flash

\* fdcm_rewrite up to its first flash operation.
WriteRewrite(ds, v) ==
  /\ pc = "idle"
  /\ ~Refused(ds) /\ ~Appends(ds)
  /\ req' = [ds |-> ds, val |-> v, at |-> 0]
  /\ pc' = "erase"
  /\ ret' = "none"
  /\ UNCHANGED flash

EraseArea == hdr' = NoHeader /\ bitmap' = {} /\ slots' = Blank

\* An erase runs block by block, the blocks at the ends of the area before
\* those in the middle: the header's block and some slots at either end may
\* already be erased.
EraseSome ==
  /\ \/ hdr' = NoHeader /\ bitmap' = {}
     \/ UNCHANGED <<hdr, bitmap>>
  /\ slots' \in {[i \in SlotIds |-> IF i < a \/ i >= b THEN Erased ELSE slots[i]] :
                   a, b \in SlotIds}

Erase ==
  /\ pc = "erase"
  /\ EraseArea
  /\ pc' = "header"
  /\ UNCHANGED <<req, ret>>

ProgramHeader ==
  /\ pc = "header"
  /\ hdr' = [ok |-> TRUE, bm |-> BitmapSize(req.ds), ds |-> req.ds]
  /\ pc' = "bit"
  /\ UNCHANGED <<bitmap, slots, req, ret>>

\* Mutated: the highest unused bit of the byte is cleared, not the lowest.
ProgramHighBit ==
  LET k == req.at \div ByteBits
  IN  /\ pc = "bit"
      /\ bitmap' = bitmap \cup {(k + 1) * ByteBits - 1 - (req.at % ByteBits)}
      /\ pc' = "data"
      /\ UNCHANGED <<hdr, slots, req, ret>>

\* The bit is cleared before the data is there: in a fresh area the byte
\* 0xFE, in an append the byte read with one more bit cleared.
ProgramBit ==
  /\ pc = "bit"
  /\ bitmap' = bitmap \cup {req.at}
  /\ pc' = "data"
  /\ UNCHANGED <<hdr, slots, req, ret>>

ProgramData ==
  /\ pc = "data"
  /\ slots' = [slots EXCEPT ![req.at] = Program(@, req.val)]
  /\ pc' = "idle"
  /\ ret' = "ok"
  /\ UNCHANGED <<hdr, bitmap, req>>

-----------------------------------------------------------------------------
(* The call in progress ends early: power failure, or HAL_Flash_* failing *)

Ends == pc' = "idle" /\ ret' = "fail" /\ UNCHANGED req

CutErase == pc = "erase" /\ EraseSome /\ Ends

\* A field not fully programmed reads at least its value: it has ones where
\* bits are still to clear.  Bitmap sizes from Size up are all invalid.
CutHeader ==
  /\ pc = "header"
  /\ \/ UNCHANGED hdr
     \/ \E bm \in BitmapSize(req.ds) .. Size, ds \in {d \in DataSizes : d >= req.ds} :
          hdr' = [ok |-> TRUE, bm |-> bm, ds |-> ds]
  /\ Ends
  /\ UNCHANGED <<bitmap, slots>>

CutBit ==
  /\ pc = "bit"
  /\ bitmap' \in {bitmap, bitmap \cup {req.at}}
  /\ Ends
  /\ UNCHANGED <<hdr, slots>>

CutData ==
  /\ pc = "data"
  /\ \E c \in {slots[req.at], Torn, Program(slots[req.at], req.val)} :
       slots' = [slots EXCEPT ![req.at] = c]
  /\ Ends
  /\ UNCHANGED <<hdr, bitmap>>

-----------------------------------------------------------------------------
\* fdcm_erase, complete or not.
FdcmErase ==
  /\ pc = "idle"
  /\ \/ EraseArea /\ ret' = "none"
     \/ EraseSome /\ ret' = "fail"
  /\ UNCHANGED <<pc, req>>

Next ==
  \/ \E ds \in DataSizes : WriteRefused(ds)
  \/ \E ds \in DataSizes, v \in Values : WriteAppend(ds, v)
  \/ \E ds \in DataSizes, v \in Values : WriteRewrite(ds, v)
  \/ WriteUnread
  \/ Erase \/ ProgramHeader \/ ProgramBit \/ ProgramData
  \/ CutErase \/ CutHeader \/ CutBit \/ CutData
  \/ FdcmErase

Spec == Init /\ [][Next]_vars
-----------------------------------------------------------------------------
(* Properties *)

\* The shape of the state: one header, a bitmap inside its own bytes, cells.
TypeOK ==
  /\ hdr \in [ok : BOOLEAN, bm : 0 .. Size, ds : Nat]
  /\ bitmap \subseteq Nat
  /\ slots \in [SlotIds -> Cell]
  /\ pc \in {"idle", "erase", "header", "bit", "data"}
  /\ req \in [ds : Nat, val : Values \cup {Erased}, at : SlotIds]
  /\ ret \in {"none", "ok", "fail"}

\* A record for which rom_fdcm_write returned data_size is what
\* rom_fdcm_read returns from then on, until the next call that writes or
\* erases, whatever power failures the calls before it suffered.
CommittedReadable == ret = "ok" => ReadBack(req.ds) = req.val

\* Behind the slots the bitmap counts as used, the area is erased: the data
\* of the next append is programmed over ones only.  That is what setting
\* the bit before writing the data buys, at every point where power may go.
FreeSlotsErased ==
  pc = "idle" =>
    \A ds \in DataSizes : HeaderValid(ds) =>
      \A i \in SlotIds : i >= Used => slots[i] = Erased

\* The used bits are the first ones of the bitmap, so that fdcm_bit_count,
\* which looks at one partly used byte only, counts all of them.
BitmapIsPrefix ==
  \A ds \in DataSizes : HeaderValid(ds) => bitmap = 0 .. Used - 1

\* rom_fdcm_write programs inside hdl->addr .. hdl->addr + hdl->size: the
\* byte of the bit lies in the bitmap and the data in the slots behind it.
WritesStayInArea ==
  /\ pc = "bit" => req.at < ByteBits * hdr.bm
  /\ pc \in {"bit", "data"} =>
       hdr.ds = req.ds /\ SlotOffset(hdr.bm, hdr.ds, req.at + 1) <= Size

View(ds) ==
  LET r == ReadBack(ds)
  IN  IF r \in Values \cup {"nothing"} THEN r ELSE "garbage"

\* The area implements the register its users rely on.
Store == INSTANCE RecordStore WITH
  Nothing <- "nothing",
  Garbage <- "garbage",
  stored  <- [d \in DataSizes |-> View(d)],
  target  <- IF pc = "idle" THEN {} ELSE {<<req.ds, req.val>>},
  result  <- ret

ImplementsStore == Store!Spec
=============================================================================
