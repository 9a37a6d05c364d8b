------------------------------ MODULE OtaPush ------------------------------
(***************************************************************************)
(* The stream of an update: an image area is erased, then the bytes of the *)
(* image file come in chunks of any length and are written behind one      *)
(* another, without the bootloader at its start.  An application pushes    *)
(* chunks (ota_push_init, _start, _data, _stop) or ota_get_image asks a    *)
(* protocol client for them.                                               *)
(*                                                                         *)
(* A byte of flash holds the number of the stream's byte written to it.    *)
(* The sizes of the code are unsigned: they wrap at Word.                  *)
(***************************************************************************)
EXTENDS FlashErase

CONSTANTS
  Areas,      \* the image areas, each [addr, size]
  Chips,      \* the sets of block sizes chips support
  BlSize,     \* iop->bl_size, or 0 in a build for compressed images
  Skips,      \* what ota_set_skip_size is called with
  MaxChunk,   \* bound: the length of a chunk
  Word        \* 2^32

ASSUME PushAssumption ==
  /\ Areas \subseteq [addr : Nat, size : Nat]
  /\ \A r \in Areas : r.size # 0 /\ r.addr + r.size <= FlashSize
  /\ \A c \in Chips : c \subseteq {K4, K32, K64}
  /\ BlSize \in Nat /\ Skips \subseteq Int /\ MaxChunk \in Nat \ {0}
  /\ Word \in Nat \ {0}
  /\ \A r \in Areas : \A k \in Skips \cup {BlSize} : FlashSize + r.size + k < Word

VARIABLES
  skip,    \* ota_skip_size
  get,     \* ota_priv.get_size
  via,     \* who delivers: "push", "get"
  skipLeft, imgLeft, at,  \* locals of ota_update_image_process
  pos,     \* the bytes of the stream delivered so far
  pc       \* where the update is

ota  == <<skip, get, via, skipLeft, imgLeft, at, pos, pc>>
vars == <<eraseVars, ota>>

Old    == -2   \* a byte of an earlier image, or of something else
Spoilt == -3   \* a byte programmed twice

\* Any area of flash may hold an older image.
Init ==
  /\ flash = [a \in Addrs |-> Old]
  /\ chip \in Chips /\ area \in Areas
  /\ piece = 0 /\ eaddr = 0 /\ reErase = 0 /\ halRet = "error" /\ givenUp = FALSE
  /\ skip = -1 /\ get = 0 /\ via = "push"
  /\ skipLeft = 0 /\ imgLeft = 0 /\ at = 0
  /\ pos = 0 /\ pc = "idle"

Go(from, to) == pc = from /\ pc' = to

\* ota_set_skip_size
SetSkip(s) ==
  /\ pc = "idle"
  /\ skip' = s
  /\ UNCHANGED <<eraseVars, get, via, skipLeft, imgLeft, at, pos, pc>>

\* ota_push_init and ota_push_start, or ota_get_image, up to the erase.  What
\* was written before is now old.
StartUpdate(v) ==
  /\ Go("idle", "erase")
  /\ via' = v /\ get' = 0 /\ pos' = 0
  /\ skip' = IF skip < 0 THEN BlSize ELSE skip
  /\ flash' = [a \in Addrs |-> IF flash[a] = Blank THEN Blank ELSE Old]
  /\ EraseBegin
  /\ UNCHANGED <<chip, area, skipLeft, imgLeft, at>>

\* rom_flash_erase refuses an area that is not aligned.
EraseUnaligned ==
  /\ Go("erase", "failed")
  /\ piece = 1 /\ ~Aligned
  /\ UNCHANGED <<eraseVars, skip, get, via, skipLeft, imgLeft, at, pos>>

Erasing ==
  /\ pc = "erase" /\ Aligned
  /\ EraseStep
  /\ UNCHANGED ota

EraseReturns ==
  /\ piece \in {0, Done}
  /\ Go("erase", IF piece = 0 THEN "failed" ELSE IF via = "get" THEN "skip" ELSE "stream")
  /\ skipLeft' = skip /\ imgLeft' = area.size /\ at' = area.addr
  /\ UNCHANGED <<eraseVars, skip, get, via, pos>>

-----------------------------------------------------------------------------
(* Writing *)

\* n bytes of the stream from its byte first on are written at address a.
\* What is not blank is spoilt.
Written(a, n, first) ==
  [b \in Addrs |-> IF b \notin a .. a + n - 1 THEN flash[b]
                   ELSE IF flash[b] = Blank THEN first + (b - a) ELSE Spoilt]

\* HAL_Flash_Write writes all of it, or fails after a part.
Write(a, n, first) == a + n <= FlashSize /\ flash' = Written(a, n, first)

WriteFails(a, n, first) == \E k \in 0 .. n : Write(a, k, first) \/ UNCHANGED flash

-----------------------------------------------------------------------------
(* ota_push_data *)

Dropped   == IF get < skip THEN skip - get ELSE 0
Remaining == (area.size + skip - (get + Dropped)) % Word

\* Mutated: a chunk that straddles the end of what is skipped is dropped.
PushSkippedWhole(n) ==
  /\ pc = "stream" /\ get < skip
  /\ get' = get + n /\ pos' = pos + n
  /\ UNCHANGED <<eraseVars, skip, via, skipLeft, imgLeft, at, pc>>

\* The chunk lies in what is skipped.
PushSkipped(n) ==
  /\ pc = "stream" /\ get < skip /\ Dropped >= n
  /\ get' = get + n /\ pos' = pos + n
  /\ UNCHANGED <<eraseVars, skip, via, skipLeft, imgLeft, at, pc>>

PushOverflow(n) ==
  /\ Go("stream", "failed")
  /\ ~(get < skip /\ Dropped >= n)
  /\ n - Dropped > Remaining
  /\ get' = get + Dropped /\ pos' = pos + n
  /\ UNCHANGED <<eraseVars, skip, via, skipLeft, imgLeft, at>>

\* What follows the skipped bytes is written behind what was.
PushWritten(n) ==
  /\ pc = "stream"
  /\ ~(get < skip /\ Dropped >= n)
  /\ n - Dropped <= Remaining
  /\ Write(area.addr + get + Dropped - skip, n - Dropped, pos + Dropped)
  /\ get' = get + n /\ pos' = pos + n
  /\ UNCHANGED <<chip, area, piece, eaddr, reErase, halRet, givenUp>>
  /\ UNCHANGED <<skip, via, skipLeft, imgLeft, at, pc>>

PushFails(n) ==
  /\ Go("stream", "failed")
  /\ ~(get < skip /\ Dropped >= n)
  /\ n - Dropped <= Remaining
  /\ WriteFails(area.addr + get + Dropped - skip, n - Dropped, pos + Dropped)
  /\ get' = get + Dropped /\ pos' = pos + n
  /\ UNCHANGED <<chip, area, piece, eaddr, reErase, halRet, givenUp>>
  /\ UNCHANGED <<skip, via, skipLeft, imgLeft, at>>

-----------------------------------------------------------------------------
(* ota_update_image_process *)

\* The client delivers n bytes, at most what is asked for, of what is skipped.
GetSkipped(n) ==
  /\ pc = "skip" /\ n <= skipLeft
  /\ skipLeft' = (skipLeft - n) % Word
  /\ get' = get + n /\ pos' = pos + n
  /\ UNCHANGED <<eraseVars, skip, via, imgLeft, at, pc>>

SkipDone ==
  /\ Go("skip", "data")
  /\ skipLeft = 0
  /\ UNCHANGED <<eraseVars, skip, get, via, skipLeft, imgLeft, at, pos>>

GetWritten(n) ==
  /\ pc = "data" /\ imgLeft > 0 /\ n <= imgLeft
  /\ Write(at, n, pos)
  /\ imgLeft' = (imgLeft - n) % Word /\ at' = at + n
  /\ get' = get + n /\ pos' = pos + n
  /\ UNCHANGED <<chip, area, piece, eaddr, reErase, halRet, givenUp>>
  /\ UNCHANGED <<skip, via, skipLeft, pc>>

\* HAL_Flash_Write fails.
GetUnwritten(n) ==
  /\ Go("data", "failed")
  /\ imgLeft > 0 /\ n <= imgLeft
  /\ WriteFails(at, n, pos)
  /\ imgLeft' = (imgLeft - n) % Word
  /\ get' = get + n /\ pos' = pos + n
  /\ UNCHANGED <<chip, area, piece, eaddr, reErase, halRet, givenUp>>
  /\ UNCHANGED <<skip, via, skipLeft, at>>

\* The client fails, or the stream ends within what is skipped.
GetFails ==
  /\ pc \in {"skip", "data"} /\ pc' = "failed"
  /\ UNCHANGED <<eraseVars, skip, get, via, skipLeft, imgLeft, at, pos>>

-----------------------------------------------------------------------------
\* The stream ends, or the area is full: the image is checked
\* (ota_push_finish, or the end of ota_update_image_process).
StreamEnds ==
  /\ pc \in {"stream", "data"} /\ pc' = "check"
  /\ UNCHANGED <<eraseVars, skip, get, via, skipLeft, imgLeft, at, pos>>

\* ota_push_stop, which clears ota_priv, or the return of ota_get_image.
Stop ==
  /\ pc \in {"stream", "check", "failed"} /\ pc' = "idle"
  /\ get' = IF via = "push" THEN 0 ELSE get
  /\ skipLeft' = 0 /\ imgLeft' = 0 /\ at' = 0 /\ pos' = 0 /\ via' = "push"
  /\ Enter(0) /\ givenUp' = FALSE
  /\ UNCHANGED <<flash, chip, area, skip>>

\* Power is cut: what is in RAM is lost.
Reset ==
  /\ Enter(0) /\ givenUp' = FALSE
  /\ skip' = -1 /\ get' = 0 /\ via' = "push"
  /\ skipLeft' = 0 /\ imgLeft' = 0 /\ at' = 0 /\ pos' = 0
  /\ pc # "idle" /\ pc' = "idle"
  /\ UNCHANGED <<flash, chip, area>>

Chunk(n) ==
  \/ PushSkipped(n) \/ PushOverflow(n) \/ PushWritten(n) \/ PushFails(n)
  \/ GetSkipped(n) \/ GetWritten(n) \/ GetUnwritten(n)

Next ==
  \/ \E s \in Skips : SetSkip(s)
  \/ \E v \in {"push", "get"} : StartUpdate(v)
  \/ EraseUnaligned \/ Erasing \/ EraseReturns
  \/ \E n \in 1 .. MaxChunk : Chunk(n)
  \/ SkipDone \/ GetFails \/ StreamEnds \/ Stop \/ Reset

\* An erase that was begun goes on.
Fairness ==
  WF_vars(Erasing) /\ WF_vars(EraseUnaligned) /\ WF_vars(EraseReturns)

Spec     == Init /\ [][Next]_vars
FairSpec == Spec /\ Fairness
-----------------------------------------------------------------------------
(* Properties *)

\* Flash, the erase and the stream's counters.
PushTypeOK ==
  /\ flash \in [Addrs -> Nat \cup {Old, Blank, Spoilt}]
  /\ chip \in Chips /\ area \in Areas
  /\ piece \in 0 .. Done /\ eaddr \in Nat /\ reErase \in 0 .. 2
  /\ halRet \in {"ok", "error"} /\ givenUp \in BOOLEAN
  /\ skip \in Skips \cup {BlSize, -1} /\ get \in Nat /\ pos \in Nat
  /\ via \in {"push", "get"}
  /\ skipLeft \in Nat /\ imgLeft \in Nat /\ at \in Nat
  /\ pc \in {"idle", "erase", "skip", "data", "stream", "check", "failed"}

\* ota_push_data, ota_update_image_process and rom_flash_erase touch no byte
\* outside the image area: the application that runs, the bootloader and the
\* configuration lie there.
OutsideKept == \A a \in Addrs \ Area : flash[a] = Old

Streaming == pc \in {"skip", "data", "stream"}

\* rom_flash_erase: "@return 0 on success, -1 on failure" (flash.c:127): what
\* it reports erased is blank, whatever the chip's block sizes and the
\* alignment of the area, if no block was given up and the chip has a block
\* size that fits the area.
EraseComplete ==
  piece = Done /\ pc = "erase" /\ ~givenUp /\ Erasable =>
    \A a \in Area : flash[a] = Blank

\* An erase ends, however often blocks fail: the attempts at the blocks of a
\* piece are counted together.
EraseEnds == pc = "erase" ~> pc # "erase"

\* However the stream is cut into chunks, each byte behind the skipped ones
\* is at its place in the area, over a blank byte, and nothing is behind it.
EveryByteInPlace ==
  Streaming /\ ~givenUp /\ Erasable =>
    \A i \in 0 .. area.size - 1 :
      flash[area.addr + i] = IF skip + i < pos THEN skip + i ELSE Blank
=============================================================================
