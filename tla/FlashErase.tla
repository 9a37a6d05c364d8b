----------------------------- MODULE FlashErase -----------------------------
(***************************************************************************)
(* Erasing a range of flash.  rom_flash_erase splits the range into blocks *)
(* of 64K in the middle, of 32K around them and of 4K at both ends, and    *)
(* erases piece by piece, both ends first.  HAL_Flash_Erase erases a piece *)
(* block by block; a block that does not become blank in time is tried     *)
(* again.  A chip may lack some of the block sizes.                        *)
(***************************************************************************)
EXTENDS Integers

CONSTANTS
  K4, K32, K64,  \* the block sizes, in bytes
  FlashSize      \* chip->cfg.mSize

ASSUME EraseAssumption ==
  /\ K4 \in Nat \ {0} /\ K32 \in Nat \ {0} /\ K64 \in Nat \ {0}
  /\ \E m \in 1 .. K32 : K32 = m * K4
  /\ \E m \in 1 .. K64 : K64 = m * K32
  /\ FlashSize \in Nat

VARIABLES
  flash,    \* the bytes
  chip,     \* the block sizes the chip supports
  area,     \* the range to erase
  piece,    \* which of the five pieces is being erased, or Done
  eaddr,    \* HAL_Flash_Erase: the block it is at
  reErase,  \* HAL_Flash_Erase: reErase_cnt
  halRet,   \* HAL_Flash_Erase: ret
  givenUp   \* some block was given up in this erase

eraseVars == <<flash, chip, area, piece, eaddr, reErase, halRet, givenUp>>

Addrs == 0 .. FlashSize - 1
Done  == 6
Blank == -1     \* an erased byte

Up(a, b)   == ((a + b - 1) \div b) * b
Down(a, b) == (a \div b) * b

End == area.addr + area.size
Area == area.addr .. End - 1

\* Mutated: an area of less than 64K is cut as if it had a 64K boundary.
CutsUnsized ==
  IF K64 \in chip
  THEN <<area.addr, Up(area.addr, K32), Up(area.addr, K64),
         Down(End, K64), Down(End, K32), End>>
  ELSE IF area.size >= K32 /\ K32 \in chip
  THEN <<area.addr, Up(area.addr, K32), Down(End, K32),
         Down(End, K32), Down(End, K32), End>>
  ELSE IF area.size >= K4 /\ K4 \in chip
  THEN <<area.addr, End, End, End, End, End>>
  ELSE [i \in 1 .. 6 |-> area.addr]

\* Where the pieces begin and end, from the lowest address to the highest:
\* 4K, 32K, 64K, 32K and 4K blocks.  Without a block size that fits, all
\* pieces are empty.
Cuts ==
  IF area.size >= K64 /\ K64 \in chip
  THEN <<area.addr, Up(area.addr, K32), Up(area.addr, K64),
         Down(End, K64), Down(End, K32), End>>
  ELSE IF area.size >= K32 /\ K32 \in chip
  THEN <<area.addr, Up(area.addr, K32), Down(End, K32),
         Down(End, K32), Down(End, K32), End>>
  ELSE IF area.size >= K4 /\ K4 \in chip
  THEN <<area.addr, End, End, End, End, End>>
  ELSE [i \in 1 .. 6 |-> area.addr]

\* The pieces in the order they are erased: 4K ahead and behind, 32K ahead
\* and behind, 64K.
From(p) == Cuts[CASE p = 1 -> 1 [] p = 2 -> 5 [] p = 3 -> 2 [] p = 4 -> 4 [] p = 5 -> 3]
To(p)   == Cuts[CASE p = 1 -> 2 [] p = 2 -> 6 [] p = 3 -> 3 [] p = 4 -> 5 [] p = 5 -> 4]
Mode(p) == CASE p \in {1, 2} -> K4 [] p \in {3, 4} -> K32 [] p = 5 -> K64

\* The range and the chip as rom_flash_erase takes them.
Aligned == area.addr % K4 = 0 /\ area.size % K4 = 0

\* Some block size of the chip is no longer than the range.
Erasable == \E k \in {K4, K32, K64} : k \in chip /\ area.size >= k

-----------------------------------------------------------------------------
Piece == piece \in 1 .. 5 /\ From(piece) < To(piece)
Block == eaddr .. eaddr + Mode(piece) - 1

\* HAL_Flash_Erase is called for the next piece.
Enter(p) ==
  /\ piece' = p
  /\ eaddr' = IF p \in 1 .. 5 THEN From(p) ELSE 0
  /\ reErase' = 0
  /\ halRet' = "error"

EraseBegin == Enter(1) /\ givenUp' = FALSE

\* The chip knows the command and the piece is aligned and in the chip.
Accepted ==
  /\ Mode(piece) \in chip
  /\ From(piece) % Mode(piece) = 0 /\ To(piece) <= FlashSize

\* HAL_Flash_Erase does not accept the piece, or the chip a block's command.
EraseRefused ==
  /\ Piece /\ eaddr < To(piece)
  /\ Enter(0)
  /\ UNCHANGED <<flash, chip, area, givenUp>>

\* More blocks: blk_cnt-- > 0.
More == Piece /\ eaddr + Mode(piece) <= To(piece) /\ Accepted

EraseBlock ==
  /\ More
  /\ flash' = [a \in Addrs |-> IF a \in Block THEN Blank ELSE flash[a]]
  /\ eaddr' = eaddr + Mode(piece)
  /\ halRet' = "ok"
  /\ UNCHANGED <<chip, area, piece, reErase, givenUp>>

\* Mutated: after three attempts the count starts again at the same block.
EraseAgainForever ==
  /\ More
  /\ reErase' = (reErase + 1) % 3
  /\ UNCHANGED <<flash, chip, area, piece, eaddr, halRet, givenUp>>

\* Mutated: the block is counted as done before it is tried again.
EraseAgainNext ==
  /\ More
  /\ eaddr' = eaddr + Mode(piece) /\ halRet' = "error"
  /\ reErase' = IF reErase < 2 THEN reErase + 1 ELSE reErase
  /\ givenUp' = (reErase = 2)
  /\ UNCHANGED <<flash, chip, area, piece>>

\* The block is still busy after the timeout, or does not read blank.  After
\* the third time the next block is erased, whose ret replaces this one.
\* What is blank of the block then stands for any part of it.
EraseAgain ==
  /\ More
  /\ \E b \in {eaddr, eaddr + 1, eaddr + Mode(piece)} :
       flash' = [a \in Addrs |-> IF a \in Block /\ a >= b THEN Blank ELSE flash[a]]
  /\ IF reErase < 2
     THEN UNCHANGED <<eaddr, givenUp, halRet>>
     ELSE eaddr' = eaddr + Mode(piece) /\ givenUp' = TRUE /\ halRet' = "error"
  /\ reErase' = IF reErase < 2 THEN reErase + 1 ELSE reErase
  /\ UNCHANGED <<chip, area, piece>>

\* The piece was empty, or HAL_Flash_Erase returned HAL_OK.
EraseNext ==
  /\ piece \in 1 .. 5
  /\ From(piece) < To(piece) => eaddr + Mode(piece) > To(piece) /\ halRet = "ok"
  /\ Enter(piece + 1)
  /\ UNCHANGED <<flash, chip, area, givenUp>>

\* HAL_Flash_Erase returned the error of its last block.
EraseFailed ==
  /\ Piece /\ eaddr + Mode(piece) > To(piece) /\ halRet # "ok"
  /\ Enter(0)
  /\ UNCHANGED <<flash, chip, area, givenUp>>

EraseStep ==
  EraseRefused \/ EraseBlock \/ EraseAgain \/ EraseNext \/ EraseFailed
=============================================================================
