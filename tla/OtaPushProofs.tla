--------------------------- MODULE OtaPushProofs ---------------------------
(***************************************************************************)
(* Erase and stream of an update, for every flash, area, chip, skip size   *)
(* and cutting of the stream into chunks.                                  *)
(***************************************************************************)
EXTENDS OtaPush, TLAPS

\* x is a number of whole blocks of m bytes.
Blocks(x, m) == \E q \in Nat : x = q * m

BlankIn(f, a, b) == \A i \in Addrs : a <= i /\ i < b => f[i] = Blank

\* The erase is at a block of its piece; the pieces before it, and its own
\* blocks before that block, are blank unless a block was given up.
EraseInv ==
  /\ \A p \in 1 .. 5 : piece = p =>
       /\ From(p) <= eaddr /\ eaddr <= To(p)
       /\ Blocks(eaddr - From(p), Mode(p))
       /\ ~givenUp => BlankIn(flash, From(p), eaddr)
  /\ ~givenUp => \A p \in 1 .. 5 : p < piece => BlankIn(flash, From(p), To(p))

\* The counters of both ways to deliver the stream agree with its position.
StreamInv ==
  /\ pc # "idle" => skip >= 0
  /\ pc = "stream" => get = pos /\ pos <= skip + area.size
  /\ pc = "skip" => /\ pos <= skip /\ skipLeft = skip - pos
                    /\ at = area.addr /\ imgLeft = area.size
  /\ pc = "data" => /\ pos >= skip /\ pos <= skip + area.size
                    /\ at = area.addr + (pos - skip)
                    /\ imgLeft = area.size - (pos - skip)

IInv ==
  /\ PushTypeOK
  /\ OutsideKept
  /\ pc = "erase" => EraseInv /\ pos = 0 /\ get = 0
  /\ StreamInv
  /\ EveryByteInPlace

-----------------------------------------------------------------------------
(* Whole blocks *)

\* A number is a quotient times a divisor and a rest below it.
LEMMA Division ==
  ASSUME NEW a \in Nat, NEW b \in Nat \ {0}
  PROVE  /\ a \div b \in Nat /\ a % b \in 0 .. b - 1
         /\ a = (a \div b) * b + (a % b)
BY SMT

\* What is below the modulus does not wrap.
LEMMA NoWrap ==
  ASSUME NEW a \in Nat, NEW b \in Nat \ {0}, a < b
  PROVE  a % b = a
BY SMT

\* Aligning up and down gives the block borders next to an address.
LEMMA Borders ==
  ASSUME NEW a \in Nat, NEW b \in Nat \ {0}
  PROVE  /\ Up(a, b) \in Nat /\ a <= Up(a, b) /\ Up(a, b) < a + b
         /\ Blocks(Up(a, b), b)
         /\ Down(a, b) \in Nat /\ Down(a, b) <= a /\ a < Down(a, b) + b
         /\ Blocks(Down(a, b), b)
<1>1. a + b - 1 \in Nat
  OBVIOUS
<1> DEFINE q == (a + b - 1) \div b
           r == (a + b - 1) % b
           s == a \div b
           t == a % b
<1>2. /\ q \in Nat /\ r \in 0 .. b - 1 /\ a + b - 1 = q * b + r
      /\ s \in Nat /\ t \in 0 .. b - 1 /\ a = s * b + t
  BY <1>1, Division
<1>3. q * b \in Nat /\ s * b \in Nat
  <2> HIDE DEF q, s
  <2> QED BY <1>2
<1>4. Up(a, b) = q * b /\ Down(a, b) = s * b
  BY DEF Up, Down
<1> HIDE DEF q, r, s, t
<1>5. Blocks(q * b, b) /\ Blocks(s * b, b)
  BY <1>2 DEF Blocks
<1> QED BY <1>1, <1>2, <1>3, <1>4, <1>5

\* Differences of whole blocks are whole blocks.
LEMMA BlocksMinus ==
  ASSUME NEW m \in Nat \ {0}, NEW a \in Nat, NEW b \in Nat, a <= b,
         Blocks(a, m), Blocks(b, m)
  PROVE  Blocks(b - a, m)
<1>1. PICK q \in Nat : a = q * m
  BY DEF Blocks
<1>2. PICK r \in Nat : b = r * m
  BY DEF Blocks
<1>3. b - a = (r - q) * m
  BY <1>1, <1>2
<1>4. r >= q
  <2> SUFFICES ASSUME q >= r + 1 PROVE FALSE
    BY <1>1, <1>2
  <2>1. q * m = r * m + (q - r) * m /\ (q - r) * m >= 1 * m
    BY <1>1, <1>2
  <2> QED BY <2>1, <1>1, <1>2
<1>5. r - q \in Nat
  BY <1>1, <1>2, <1>4
<1> QED BY <1>3, <1>5 DEF Blocks

LEMMA BlocksPlus ==
  ASSUME NEW m \in Nat \ {0}, NEW a \in Nat, NEW b \in Nat,
         Blocks(a, m), Blocks(b, m)
  PROVE  Blocks(a + b, m)
<1>1. PICK q \in Nat : a = q * m
  BY DEF Blocks
<1>2. PICK r \in Nat : b = r * m
  BY DEF Blocks
<1>3. a + b = (r + q) * m
  BY <1>1, <1>2
<1>4. r + q \in Nat
  BY <1>1, <1>2
<1> QED BY <1>3, <1>4 DEF Blocks

LEMMA NextBlock ==
  ASSUME NEW m \in Nat \ {0}, NEW a \in Nat, Blocks(a, m)
  PROVE  Blocks(a + m, m)
<1>1. m = 1 * m
  OBVIOUS
<1>2. Blocks(m, m)
  BY <1>1 DEF Blocks
<1> QED BY <1>2, BlocksPlus

\* Blocks of a larger size are blocks of a size that divides it.
LEMMA BlocksOfBlocks ==
  ASSUME NEW m \in Nat \ {0}, NEW k \in Nat, NEW c \in Nat, c = k * m,
         NEW a \in Nat, Blocks(a, c)
  PROVE  Blocks(a, m)
<1>1. PICK q \in Nat : a = q * c
  BY DEF Blocks
<1>2. a = (q * k) * m
  BY <1>1
<1>3. q * k \in Nat
  BY <1>1
<1> QED BY <1>2, <1>3 DEF Blocks

\* Counting in whole blocks, a bound of whole blocks is met exactly.
LEMMA LastBlock ==
  ASSUME NEW m \in Nat \ {0}, NEW a \in Nat, NEW b \in Nat, a <= b, b < a + m,
         Blocks(a, m), Blocks(b, m)
  PROVE  a = b
<1>1. PICK q \in Nat : b - a = q * m
  BY BlocksMinus DEF Blocks
<1>2. q = 0
  <2> SUFFICES ASSUME q >= 1 PROVE FALSE
    BY <1>1
  <2>1. q * m = m + (q - 1) * m /\ (q - 1) * m >= 0
    BY <1>1
  <2> QED BY <2>1, <1>1
<1> QED BY <1>1, <1>2

\* A block border below the end of a block is not above its start.
LEMMA BorderBelow ==
  ASSUME NEW m \in Nat \ {0}, NEW a \in Nat, NEW b \in Nat, a < b + m,
         Blocks(a, m), Blocks(b, m)
  PROVE  a <= b
<1> SUFFICES ASSUME b < a PROVE FALSE
  OBVIOUS
<1>1. b = a
  BY LastBlock
<1> QED BY <1>1

-----------------------------------------------------------------------------
(* The pieces of an area *)

\* The sizes of an area and of the blocks.
LEMMA AreaFacts ==
  ASSUME area \in Areas
  PROVE  /\ area.addr \in Nat /\ area.size \in Nat /\ area.size # 0
         /\ End \in Nat /\ End = area.addr + area.size /\ End <= FlashSize
         /\ FlashSize \in Nat /\ Word \in Nat \ {0}
         /\ Area \subseteq Addrs
         /\ \A k \in Skips \cup {BlSize} : k \in Int /\ FlashSize + area.size + k < Word
         /\ K4 \in Nat \ {0} /\ K32 \in Nat \ {0} /\ K64 \in Nat \ {0}
BY PushAssumption, EraseAssumption DEF End, Area, Addrs

\* Borders of a larger block size are borders of the smaller ones.
LEMMA BlockSizes ==
  ASSUME NEW a \in Nat
  PROVE  /\ Blocks(a, K64) => Blocks(a, K32)
         /\ Blocks(a, K32) => Blocks(a, K4)
<1>1. PICK k \in 1 .. K32 : K32 = k * K4
  BY EraseAssumption
<1>2. PICK j \in 1 .. K64 : K64 = j * K32
  BY EraseAssumption
<1>3. /\ K4 \in Nat \ {0} /\ K32 \in Nat \ {0} /\ K64 \in Nat \ {0}
      /\ k \in Nat /\ j \in Nat
  BY EraseAssumption
<1>4. Blocks(a, K64) => Blocks(a, K32)
  BY <1>2, <1>3, BlocksOfBlocks
<1>5. Blocks(a, K32) => Blocks(a, K4)
  BY <1>1, <1>3, BlocksOfBlocks
<1> QED BY <1>4, <1>5

\* No block is a number of blocks.
LEMMA NoBlocks ==
  ASSUME NEW m \in Nat \ {0}
  PROVE  Blocks(0, m)
<1>1. 0 = 0 * m
  OBVIOUS
<1> QED BY <1>1 DEF Blocks

\* An aligned area begins and ends at borders of 4K blocks.
LEMMA AlignedBorders ==
  ASSUME area \in Areas, Aligned
  PROVE  Blocks(area.addr, K4) /\ Blocks(End, K4)
<1> DEFINE a == area.addr
           z == area.size
<1>1. a \in Nat /\ z \in Nat /\ K4 \in Nat \ {0} /\ End = a + z
  BY AreaFacts
<1>2. a % K4 = 0 /\ z % K4 = 0
  BY DEF Aligned
<1>3. /\ a = (a \div K4) * K4 + (a % K4) /\ a \div K4 \in Nat
      /\ z = (z \div K4) * K4 + (z % K4) /\ z \div K4 \in Nat
  <2> HIDE DEF a, z
  <2> QED BY <1>1, Division
<1> HIDE DEF a, z
<1> DEFINE q == a \div K4
           r == z \div K4
<1>4. /\ q \in Nat /\ a = q * K4 + 0
      /\ r \in Nat /\ z = r * K4 + 0
  BY <1>2, <1>3
<1> HIDE DEF q, r
<1>5. a = q * K4 /\ z = r * K4
  BY <1>1, <1>4
<1>6. Blocks(a, K4) /\ Blocks(z, K4)
  BY <1>4, <1>5 DEF Blocks
<1>7. Blocks(a + z, K4)
  BY <1>1, <1>6, BlocksPlus
<1> QED BY <1>1, <1>6, <1>7 DEF a

\* The cuts are in order, within the area, and cover it when some block size
\* fits; the pieces of an aligned area are whole blocks of their size.
LEMMA Cutting ==
  ASSUME area \in Areas, NEW c, c = Cuts
  PROVE  /\ \A i \in 1 .. 6 : c[i] \in Nat
         /\ area.addr <= c[1] /\ c[1] <= c[2] /\ c[2] <= c[3] /\ c[3] <= c[4]
         /\ c[4] <= c[5] /\ c[5] <= c[6] /\ c[6] <= End
         /\ Erasable => c[1] = area.addr /\ c[6] = End
         /\ Aligned => /\ Blocks(c[2] - c[1], K4) /\ Blocks(c[6] - c[5], K4)
                       /\ Blocks(c[3] - c[2], K32) /\ Blocks(c[5] - c[4], K32)
                       /\ Blocks(c[4] - c[3], K64)
<1> DEFINE a == area.addr
           e == End
<1>1. /\ a \in Nat /\ e \in Nat /\ a + area.size = e /\ area.size \in Nat
      /\ K4 \in Nat \ {0} /\ K32 \in Nat \ {0} /\ K64 \in Nat \ {0}
  BY AreaFacts
<1>2. /\ Aligned => Blocks(a, K4) /\ Blocks(e, K4)
      /\ Blocks(0, K4) /\ Blocks(0, K32) /\ Blocks(0, K64)
  BY AlignedBorders, NoBlocks, <1>1
<1> HIDE DEF e
<1> DEFINE u == Up(a, K32)
           v == Up(a, K64)
           w == Down(e, K64)
           x == Down(e, K32)
<1>3. /\ u \in Nat /\ a <= u /\ u < a + K32 /\ Blocks(u, K32)
      /\ v \in Nat /\ a <= v /\ v < a + K64 /\ Blocks(v, K64)
      /\ w \in Nat /\ w <= e /\ e < w + K64 /\ Blocks(w, K64)
      /\ x \in Nat /\ x <= e /\ e < x + K32 /\ Blocks(x, K32)
  <2> HIDE DEF a
  <2> QED BY <1>1, Borders
<1>4. CASE area.size >= K64 /\ K64 \in chip
  <2>1. c = <<a, u, v, w, x, e>>
    BY <1>4 DEF Cuts, e
  <2> HIDE DEF a, u, v, w, x
  <2>2. Blocks(v, K32) /\ Blocks(w, K32) /\ Blocks(u, K4) /\ Blocks(x, K4)
    BY <1>3, BlockSizes
  <2>3. u <= v
    BY <1>1, <1>3, <2>2, BorderBelow
  <2>4. v <= w
    BY <1>1, <1>3, <1>4, BorderBelow
  <2>5. w <= x
    BY <1>1, <1>3, <2>2, BorderBelow
  <2>6. Blocks(v - u, K32) /\ Blocks(x - w, K32) /\ Blocks(w - v, K64)
    BY <1>1, <1>3, <2>2, <2>3, <2>4, <2>5, BlocksMinus
  <2>7. Aligned => Blocks(u - a, K4) /\ Blocks(e - x, K4)
    BY <1>1, <1>2, <1>3, <2>2, BlocksMinus
  <2> QED BY <1>1, <1>3, <2>1, <2>3, <2>4, <2>5, <2>6, <2>7 DEF a, e
<1>5. CASE /\ ~(area.size >= K64 /\ K64 \in chip)
           /\ area.size >= K32 /\ K32 \in chip
  <2>1. c = <<a, u, x, x, x, e>>
    BY <1>5 DEF Cuts, e
  <2> HIDE DEF a, u, v, w, x
  <2>2. u <= x
    BY <1>1, <1>3, <1>5, BorderBelow
  <2>3. Blocks(u, K4) /\ Blocks(x, K4)
    BY <1>3, BlockSizes
  <2>4. Blocks(x - u, K32) /\ x - x = 0
    BY <1>1, <1>3, <2>2, BlocksMinus
  <2>5. Aligned => Blocks(u - a, K4) /\ Blocks(e - x, K4)
    BY <1>1, <1>2, <1>3, <2>3, BlocksMinus
  <2> QED BY <1>1, <1>2, <1>3, <2>1, <2>2, <2>4, <2>5 DEF a, e
<1>6. CASE /\ ~(area.size >= K64 /\ K64 \in chip)
           /\ ~(area.size >= K32 /\ K32 \in chip)
           /\ area.size >= K4 /\ K4 \in chip
  <2>1. c = <<a, e, e, e, e, e>>
    BY <1>6 DEF Cuts, e
  <2> HIDE DEF a, u, v, w, x
  <2>2. Aligned => Blocks(e - a, K4)
    BY <1>1, <1>2, BlocksMinus
  <2>3. e - e = 0 /\ a <= e
    BY <1>1
  <2> QED BY <1>1, <1>2, <2>1, <2>2, <2>3 DEF a, e
<1>7. CASE \A k \in {K4, K32, K64} : ~(area.size >= k /\ k \in chip)
  <2>1. c = [i \in 1 .. 6 |-> a]
    BY <1>7 DEF Cuts
  <2>2. ~Erasable
    BY <1>1, <1>7 DEF Erasable
  <2>3. a - a = 0 /\ a <= e
    BY <1>1
  <2> QED BY <1>1, <1>2, <2>1, <2>2, <2>3 DEF a, e
<1> QED BY <1>4, <1>5, <1>6, <1>7

\* The same by pieces.
LEMMA Pieces ==
  ASSUME area \in Areas
  PROVE  /\ \A p \in 1 .. 5 :
              /\ From(p) \in Nat /\ To(p) \in Nat /\ Mode(p) \in Nat \ {0}
              /\ area.addr <= From(p) /\ From(p) <= To(p) /\ To(p) <= End
              /\ Aligned => Blocks(To(p) - From(p), Mode(p))
         /\ Erasable => /\ From(1) = area.addr /\ To(1) = From(3)
                        /\ To(3) = From(5) /\ To(5) = From(4)
                        /\ To(4) = From(2) /\ To(2) = End
<1> DEFINE c == Cuts
<1>1. /\ area.addr \in Nat /\ End \in Nat
      /\ K4 \in Nat \ {0} /\ K32 \in Nat \ {0} /\ K64 \in Nat \ {0}
  BY AreaFacts
<1>2. /\ From(1) = c[1] /\ To(1) = c[2] /\ Mode(1) = K4
      /\ From(2) = c[5] /\ To(2) = c[6] /\ Mode(2) = K4
      /\ From(3) = c[2] /\ To(3) = c[3] /\ Mode(3) = K32
      /\ From(4) = c[4] /\ To(4) = c[5] /\ Mode(4) = K32
      /\ From(5) = c[3] /\ To(5) = c[4] /\ Mode(5) = K64
  <2> HIDE DEF c
  <2>1. \A p \in 1 .. 5 :
          /\ From(p) = c[CASE p = 1 -> 1 [] p = 2 -> 5 [] p = 3 -> 2 [] p = 4 -> 4 [] p = 5 -> 3]
          /\ To(p) = c[CASE p = 1 -> 2 [] p = 2 -> 6 [] p = 3 -> 3 [] p = 4 -> 5 [] p = 5 -> 4]
    BY DEF From, To, c
  <2> QED BY <2>1 DEF Mode
<1> HIDE DEF c
<1>3. /\ \A i \in 1 .. 6 : c[i] \in Nat
      /\ area.addr <= c[1] /\ c[1] <= c[2] /\ c[2] <= c[3] /\ c[3] <= c[4]
      /\ c[4] <= c[5] /\ c[5] <= c[6] /\ c[6] <= End
      /\ Erasable => c[1] = area.addr /\ c[6] = End
      /\ Aligned => /\ Blocks(c[2] - c[1], K4) /\ Blocks(c[6] - c[5], K4)
                    /\ Blocks(c[3] - c[2], K32) /\ Blocks(c[5] - c[4], K32)
                    /\ Blocks(c[4] - c[3], K64)
  BY Cutting DEF c
<1>4. ASSUME NEW p \in 1 .. 5
      PROVE  /\ From(p) \in Nat /\ To(p) \in Nat /\ Mode(p) \in Nat \ {0}
             /\ area.addr <= From(p) /\ From(p) <= To(p) /\ To(p) <= End
             /\ Aligned => Blocks(To(p) - From(p), Mode(p))
  <2>1. p = 1 \/ p = 2 \/ p = 3 \/ p = 4 \/ p = 5
    OBVIOUS
  <2>2. /\ c[1] \in Nat /\ c[2] \in Nat /\ c[3] \in Nat /\ c[4] \in Nat
        /\ c[5] \in Nat /\ c[6] \in Nat
    BY <1>3
  <2>3. CASE p = 1  BY <1>1, <1>2, <1>3, <2>2, <2>3
  <2>4. CASE p = 2  BY <1>1, <1>2, <1>3, <2>2, <2>4
  <2>5. CASE p = 3  BY <1>1, <1>2, <1>3, <2>2, <2>5
  <2>6. CASE p = 4  BY <1>1, <1>2, <1>3, <2>2, <2>6
  <2>7. CASE p = 5  BY <1>1, <1>2, <1>3, <2>2, <2>7
  <2> QED BY <2>1, <2>3, <2>4, <2>5, <2>6, <2>7
<1> QED BY <1>2, <1>3, <1>4

-----------------------------------------------------------------------------
(* Writing *)

\* The stream's bytes before p are in place, and nothing is behind them.
InPlace(f, p) ==
  \A i \in 0 .. area.size - 1 :
    f[area.addr + i] = IF skip + i < p THEN skip + i ELSE Blank

\* A write within the area leaves the rest of flash alone.
LEMMA WriteInside ==
  ASSUME area \in Areas, flash \in [Addrs -> Nat \cup {Old, Blank, Spoilt}],
         OutsideKept, NEW a \in Nat, NEW n \in Nat, NEW q \in Nat,
         area.addr <= a, a + n <= End
  PROVE  /\ Written(a, n, q) \in [Addrs -> Nat \cup {Old, Blank, Spoilt}]
         /\ \A b \in Addrs \ Area : Written(a, n, q)[b] = Old
<1>1. /\ area.addr \in Nat /\ End \in Nat /\ FlashSize \in Nat
  BY AreaFacts
<1>2. Written(a, n, q) \in [Addrs -> Nat \cup {Old, Blank, Spoilt}]
  BY <1>1 DEF Written, Addrs
<1>3. ASSUME NEW b \in Addrs \ Area
      PROVE  Written(a, n, q)[b] = Old
  <2>1. b \in Nat /\ ~(area.addr <= b /\ b <= End - 1)
    BY <1>1 DEF Addrs, Area
  <2>2. b \notin a .. a + n - 1
    BY <1>1, <2>1
  <2> QED BY <2>2 DEF Written, OutsideKept
<1> QED BY <1>2, <1>3

\* The bytes from p up to q, written behind those before p, are in place.
LEMMA WriteInPlace ==
  ASSUME area \in Areas, NEW p \in Nat, NEW q \in Nat, skip \in Nat,
         skip <= p, p <= q, q <= skip + area.size, InPlace(flash, p)
  PROVE  InPlace(Written(area.addr + p - skip, q - p, p), q)
<1>1. /\ area.addr \in Nat /\ area.size \in Nat /\ End = area.addr + area.size
      /\ FlashSize \in Nat /\ Area \subseteq Addrs
  BY AreaFacts
<1> SUFFICES ASSUME NEW i \in 0 .. area.size - 1
             PROVE  Written(area.addr + p - skip, q - p, p)[area.addr + i]
                      = IF skip + i < q THEN skip + i ELSE Blank
  BY DEF InPlace
<1> DEFINE b == area.addr + i
           from == area.addr + p - skip
<1>2. b \in Addrs /\ b \in Int
  BY <1>1 DEF Area
<1>3. flash[b] = IF skip + i < p THEN skip + i ELSE Blank
  BY DEF InPlace
<1>4. b \in from .. from + (q - p) - 1 <=> ~(skip + i < p) /\ skip + i < q
  BY <1>1
<1>5. p + (b - from) = skip + i
  BY <1>1
<1>6. Written(from, q - p, p)[b] =
        IF b \notin from .. from + (q - p) - 1 THEN flash[b]
        ELSE IF flash[b] = Blank THEN p + (b - from) ELSE Spoilt
  BY <1>2 DEF Written
<1>7. skip + i < p => skip + i < q
  BY <1>1
<1> HIDE DEF b, from
<1> QED BY <1>3, <1>4, <1>5, <1>6, <1>7 DEF b, from

\* EveryByteInPlace by the position.
LEMMA Placed ==
  EveryByteInPlace <=> (Streaming /\ ~givenUp /\ Erasable => InPlace(flash, pos))
BY DEF EveryByteInPlace, InPlace

-----------------------------------------------------------------------------
(* The inductive invariant *)

LEMMA InitIInv == Init => IInv
<1> SUFFICES ASSUME Init PROVE IInv
  OBVIOUS
<1> USE DEF Init
<1>1. PushTypeOK
  <2>1. flash \in [Addrs -> Nat \cup {Old, Blank, Spoilt}]
    OBVIOUS
  <2>2. /\ piece \in 0 .. Done /\ eaddr \in Nat /\ reErase \in 0 .. 2
        /\ skipLeft \in Nat /\ imgLeft \in Nat /\ at \in Nat
        /\ get \in Nat /\ pos \in Nat
    BY DEF Done
  <2>3. skip \in Skips \cup {BlSize, -1} /\ givenUp \in BOOLEAN
    OBVIOUS
  <2>4. halRet \in {"ok", "error"} /\ via \in {"push", "get"}
    OBVIOUS
  <2>5. pc \in {"idle", "erase", "skip", "data", "stream", "check", "failed"}
    OBVIOUS
  <2>6. chip \in Chips /\ area \in Areas
    OBVIOUS
  <2> QED BY <2>1, <2>2, <2>3, <2>4, <2>5, <2>6 DEF PushTypeOK
<1>2. OutsideKept
  BY DEF OutsideKept
<1>3. pc = "idle" /\ StreamInv /\ EveryByteInPlace
  BY DEF StreamInv, EveryByteInPlace, Streaming
<1> QED BY <1>1, <1>2, <1>3 DEF IInv

\* The pieces stay where they are while the area and the chip do.
LEMMA SamePieces ==
  ASSUME area' = area, chip' = chip
  PROVE  /\ \A p : From(p)' = From(p) /\ To(p)' = To(p)
         /\ End' = End /\ Area' = Area /\ Aligned' = Aligned
         /\ Erasable' = Erasable
BY DEF From, To, Cuts, End, Area, Aligned, Erasable

\* Erasing a part of a block of the piece keeps what is blank, touches
\* nothing else and keeps the types.
LEMMA ErasePart ==
  ASSUME IInv, pc = "erase", piece \in 1 .. 5, More, area' = area, chip' = chip,
         NEW b \in Nat,
         flash' = [a \in Addrs |-> IF a \in Block /\ a >= b THEN Blank ELSE flash[a]]
  PROVE  /\ flash' \in [Addrs -> Nat \cup {Old, Blank, Spoilt}]
         /\ OutsideKept'
         /\ \A x, y : BlankIn(flash, x, y) => BlankIn(flash', x, y)
<1>1. /\ area \in Areas /\ flash \in [Addrs -> Nat \cup {Old, Blank, Spoilt}]
      /\ OutsideKept /\ EraseInv /\ eaddr \in Nat
  BY DEF IInv, PushTypeOK
<1>2. /\ From(piece) \in Nat /\ To(piece) \in Nat /\ Mode(piece) \in Nat \ {0}
      /\ area.addr <= From(piece) /\ To(piece) <= End
      /\ area.addr \in Nat /\ End \in Nat
  BY <1>1, Pieces, AreaFacts
<1>3. From(piece) <= eaddr /\ eaddr + Mode(piece) <= To(piece)
  BY <1>1 DEF EraseInv, More
<1>4. \A a \in Addrs \ Area : a \notin Block
  BY <1>1, <1>2, <1>3 DEF Addrs, Area, Block
<1>5. flash' \in [Addrs -> Nat \cup {Old, Blank, Spoilt}]
  BY <1>1
<1>6. OutsideKept'
  BY <1>1, <1>4, SamePieces DEF OutsideKept
<1>7. \A x, y : BlankIn(flash, x, y) => BlankIn(flash', x, y)
  BY DEF BlankIn
<1> QED BY <1>5, <1>6, <1>7

\* A step of the erase.
LEMMA ErasingIInv == IInv /\ Erasing => IInv'
<1> SUFFICES ASSUME IInv, Erasing PROVE IInv'
  OBVIOUS
<1>1. /\ pc = "erase" /\ pc' = "erase" /\ Aligned
      /\ skip' = skip /\ get' = get /\ via' = via /\ pos' = pos
      /\ skipLeft' = skipLeft /\ imgLeft' = imgLeft /\ at' = at
  BY DEF Erasing, ota
<1>2. PushTypeOK /\ OutsideKept /\ EraseInv /\ pos = 0 /\ get = 0 /\ StreamInv
  BY <1>1 DEF IInv
<1>3. area' = area /\ chip' = chip
  BY DEF Erasing, EraseStep, EraseRefused, EraseBlock, EraseAgain, EraseNext, EraseFailed
<1>4. /\ \A p : From(p)' = From(p) /\ To(p)' = To(p)
      /\ Area' = Area /\ Aligned'
  BY <1>1, <1>3, SamePieces
<1>5. StreamInv' /\ EveryByteInPlace'
  BY <1>1, <1>2, <1>3 DEF StreamInv, EveryByteInPlace, Streaming
<1>6. /\ area \in Areas /\ eaddr \in Nat /\ reErase \in 0 .. 2
      /\ piece \in 0 .. 6 /\ givenUp \in BOOLEAN
  BY <1>2 DEF PushTypeOK, Done
<1>7. \A p \in 1 .. 5 : /\ From(p) \in Nat /\ To(p) \in Nat /\ Mode(p) \in Nat \ {0}
                        /\ From(p) <= To(p) /\ Blocks(To(p) - From(p), Mode(p))
  BY <1>1, <1>6, Pieces
<1>8. SUFFICES /\ flash' \in [Addrs -> Nat \cup {Old, Blank, Spoilt}]
               /\ piece' \in 0 .. Done /\ eaddr' \in Nat /\ reErase' \in 0 .. 2
               /\ halRet' \in {"ok", "error"} /\ givenUp' \in BOOLEAN
               /\ OutsideKept' /\ EraseInv'
  BY <1>1, <1>2, <1>3, <1>5 DEF IInv, PushTypeOK, Addrs
<1>9. ASSUME piece' = 0, eaddr' = 0, reErase' = 0, halRet' = "error",
             flash' = flash, givenUp' = givenUp
      PROVE  /\ flash' \in [Addrs -> Nat \cup {Old, Blank, Spoilt}]
             /\ piece' \in 0 .. Done /\ eaddr' \in Nat /\ reErase' \in 0 .. 2
             /\ halRet' \in {"ok", "error"} /\ givenUp' \in BOOLEAN
             /\ OutsideKept' /\ EraseInv'
  BY <1>2, <1>4, <1>9 DEF PushTypeOK, OutsideKept, EraseInv, Done
<1>10. CASE EraseRefused \/ EraseFailed
  BY <1>9, <1>10 DEF EraseRefused, EraseFailed, Enter
<1>11. CASE EraseBlock
  <2>1. /\ More /\ piece \in 1 .. 5 /\ piece' = piece /\ givenUp' = givenUp
        /\ reErase' = reErase /\ halRet' = "ok"
        /\ eaddr' = eaddr + Mode(piece) /\ eaddr + Mode(piece) <= To(piece)
        /\ flash' = [a \in Addrs |-> IF a \in Block THEN Blank ELSE flash[a]]
    BY <1>11 DEF EraseBlock, More, Piece
  <2>2. \A a \in Addrs : a >= 0
    BY AreaFacts, <1>6 DEF Addrs
  <2>3. flash' = [a \in Addrs |-> IF a \in Block /\ a >= 0 THEN Blank ELSE flash[a]]
    BY <2>1, <2>2
  <2>4. /\ flash' \in [Addrs -> Nat \cup {Old, Blank, Spoilt}]
        /\ OutsideKept'
        /\ \A x, y : BlankIn(flash, x, y) => BlankIn(flash', x, y)
    <3> HIDE DEF More
    <3> QED BY <1>1, <1>3, <2>1, <2>3, ErasePart
  <2>5. eaddr' \in Nat /\ From(piece) <= eaddr' /\ eaddr' <= To(piece)
    BY <1>2, <1>6, <1>7, <2>1 DEF EraseInv
  <2>6. Blocks(eaddr' - From(piece), Mode(piece))
    <3> DEFINE d == eaddr - From(piece)
               m == Mode(piece)
    <3>1. d \in Nat /\ Blocks(d, m) /\ m \in Nat \ {0}
      BY <1>2, <1>6, <1>7, <2>1 DEF EraseInv
    <3>2. d + m = eaddr' - From(piece)
      BY <1>6, <1>7, <2>1
    <3> HIDE DEF d, m
    <3>3. Blocks(d + m, m)
      BY <3>1, NextBlock
    <3> QED BY <3>2, <3>3 DEF m
  <2>7. ~givenUp => \A p \in 1 .. 5 : p < piece => BlankIn(flash', From(p), To(p))
    BY <1>2, <2>4 DEF EraseInv
  <2>8. ASSUME ~givenUp PROVE BlankIn(flash', From(piece), eaddr')
    <3> SUFFICES ASSUME NEW i \in Addrs, From(piece) <= i, i < eaddr'
                 PROVE  flash'[i] = Blank
      BY DEF BlankIn
    <3>1. i \in Int
      BY AreaFacts, <1>6 DEF Addrs
    <3>2. CASE i < eaddr
      BY <1>2, <2>1, <2>4, <2>8, <3>2 DEF EraseInv, BlankIn
    <3>3. CASE i >= eaddr
      BY <1>6, <1>7, <2>1, <3>1, <3>3 DEF Block
    <3> QED BY <1>6, <3>1, <3>2, <3>3
  <2>9. EraseInv'
    BY <1>4, <2>1, <2>5, <2>6, <2>7, <2>8 DEF EraseInv, Mode
  <2> QED BY <1>6, <2>1, <2>4, <2>5, <2>9 DEF Done
<1>12. CASE EraseAgain
  <2>1. /\ More /\ piece \in 1 .. 5 /\ piece' = piece
        /\ eaddr + Mode(piece) <= To(piece)
        /\ reErase' = IF reErase < 2 THEN reErase + 1 ELSE reErase
    BY <1>12 DEF EraseAgain, More, Piece
  <2>2. \/ eaddr' = eaddr /\ givenUp' = givenUp /\ halRet' = halRet
        \/ eaddr' = eaddr + Mode(piece) /\ givenUp' = TRUE /\ halRet' = "error"
    BY <1>12 DEF EraseAgain
  <2>3. PICK b \in {eaddr, eaddr + 1, eaddr + Mode(piece)} :
          flash' = [a \in Addrs |-> IF a \in Block /\ a >= b THEN Blank ELSE flash[a]]
    BY <1>12 DEF EraseAgain
  <2>4. b \in Nat
    BY <1>6, <1>7, <2>1
  <2>5. /\ flash' \in [Addrs -> Nat \cup {Old, Blank, Spoilt}]
        /\ OutsideKept'
        /\ \A x, y : BlankIn(flash, x, y) => BlankIn(flash', x, y)
    <3> HIDE DEF More
    <3> QED BY <1>1, <1>3, <2>1, <2>3, <2>4, ErasePart
  <2>6. /\ eaddr' \in Nat /\ reErase' \in 0 .. 2 /\ givenUp' \in BOOLEAN
        /\ halRet' \in {"ok", "error"}
    <3>1. reErase' \in 0 .. 2
      BY <1>6, <2>1
    <3>2. eaddr' \in Nat
      BY <1>6, <1>7, <2>1, <2>2
    <3>3. givenUp' \in BOOLEAN /\ halRet' \in {"ok", "error"}
      <4>1. halRet \in {"ok", "error"}
        BY <1>2 DEF PushTypeOK
      <4> QED BY <1>6, <2>2, <4>1
    <3> QED BY <3>1, <3>2, <3>3
  <2>7. CASE eaddr' = eaddr /\ givenUp' = givenUp
    <3>1. EraseInv'
      BY <1>2, <1>4, <2>1, <2>5, <2>7 DEF EraseInv, Mode
    <3> QED BY <1>6, <2>1, <2>5, <2>6, <3>1 DEF Done
  <2>8. CASE eaddr' = eaddr + Mode(piece) /\ givenUp' = TRUE
    <3>1. From(piece) <= eaddr' /\ eaddr' <= To(piece)
      BY <1>2, <1>6, <1>7, <2>1, <2>8 DEF EraseInv
    <3>2. Blocks(eaddr' - From(piece), Mode(piece))
      <4> DEFINE d == eaddr - From(piece)
                 m == Mode(piece)
      <4>1. d \in Nat /\ Blocks(d, m) /\ m \in Nat \ {0}
        BY <1>2, <1>6, <1>7, <2>1 DEF EraseInv
      <4>2. d + m = eaddr' - From(piece)
        BY <1>6, <1>7, <2>1, <2>8
      <4> HIDE DEF d, m
      <4>3. Blocks(d + m, m)
        BY <4>1, NextBlock
      <4> QED BY <4>2, <4>3 DEF m
    <3>3. EraseInv'
      BY <1>4, <2>1, <2>8, <3>1, <3>2 DEF EraseInv, Mode
    <3> QED BY <1>6, <2>1, <2>5, <2>6, <3>3 DEF Done
  <2> QED BY <2>2, <2>7, <2>8
<1>13. CASE EraseNext
  <2>1. /\ piece \in 1 .. 5 /\ piece' = piece + 1 /\ flash' = flash
        /\ givenUp' = givenUp /\ reErase' = 0 /\ halRet' = "error"
        /\ eaddr' = IF piece + 1 \in 1 .. 5 THEN From(piece + 1) ELSE 0
        /\ From(piece) < To(piece) => eaddr + Mode(piece) > To(piece)
    BY <1>13 DEF EraseNext, Enter
  <2>2. /\ flash' \in [Addrs -> Nat \cup {Old, Blank, Spoilt}]
        /\ piece' \in 0 .. Done /\ eaddr' \in Nat /\ reErase' \in 0 .. 2
        /\ halRet' \in {"ok", "error"} /\ givenUp' \in BOOLEAN /\ OutsideKept'
    BY <1>2, <1>4, <1>6, <1>7, <2>1 DEF PushTypeOK, OutsideKept, Done
  <2>3. eaddr = To(piece)
    <3> DEFINE d == eaddr - From(piece)
               t == To(piece) - From(piece)
               m == Mode(piece)
    <3>1. /\ d \in Nat /\ t \in Nat /\ m \in Nat \ {0} /\ d <= t /\ t < d + m
          /\ Blocks(d, m) /\ Blocks(t, m)
      BY <1>2, <1>6, <1>7, <2>1 DEF EraseInv
    <3>2. d = t
      <4> HIDE DEF d, t, m
      <4> QED BY <3>1, LastBlock
    <3> QED BY <1>6, <1>7, <2>1, <3>2
  <2>4. ~givenUp => \A p \in 1 .. 5 : p < piece + 1 => BlankIn(flash, From(p), To(p))
    BY <1>2, <1>6, <2>1, <2>3 DEF EraseInv
  <2>5. \A p \in 1 .. 5 : BlankIn(flash, From(p), From(p))
    <3>1. \A i \in Addrs : i \in Int
      BY AreaFacts, <1>6 DEF Addrs
    <3> QED BY <1>7, <3>1 DEF BlankIn
  <2>6. \A p \in 1 .. 5 : Blocks(From(p) - From(p), Mode(p))
    BY <1>7, NoBlocks
  <2>7. \A p \in 1 .. 5 : piece' = p => eaddr' = From(p)
    BY <2>1
  <2>8. EraseInv'
    BY <1>4, <1>7, <2>1, <2>4, <2>5, <2>6, <2>7 DEF EraseInv, Mode
  <2> QED BY <2>2, <2>8
<1> QED BY <1>10, <1>11, <1>12, <1>13 DEF Erasing, EraseStep

\* The sizes never wrap: what is left of the area is at least 0.
LEMMA RoomLeft ==
  ASSUME IInv, pc = "stream"
  PROVE  /\ skip \in Nat /\ get = pos /\ pos <= skip + area.size
         /\ Dropped \in Nat /\ get + Dropped >= skip
         /\ Dropped > 0 => get < skip /\ get + Dropped = skip
         /\ Remaining = area.size + skip - (get + Dropped)
         /\ Remaining \in Nat
<1>1. /\ area \in Areas /\ skip \in Skips \cup {BlSize, -1} /\ skip >= 0
      /\ get \in Nat /\ get = pos /\ pos <= skip + area.size
  BY DEF IInv, PushTypeOK, StreamInv
<1>2. /\ area.size \in Nat /\ Word \in Nat \ {0} /\ FlashSize \in Nat
      /\ skip \in Nat /\ FlashSize + area.size + skip < Word
  BY <1>1, AreaFacts
<1>3. /\ Dropped \in Nat /\ get + Dropped >= skip
      /\ Dropped > 0 => get < skip /\ get + Dropped = skip
      /\ get + Dropped <= skip + area.size
  BY <1>1, <1>2 DEF Dropped
<1> DEFINE x == area.size + skip - (get + Dropped)
<1>4. x \in Nat /\ x < Word
  BY <1>1, <1>2, <1>3
<1>5. x % Word = x
  <2> HIDE DEF x
  <2> QED BY <1>2, <1>4, NoWrap
<1>6. Remaining = x
  BY <1>5 DEF Remaining
<1> QED BY <1>1, <1>2, <1>3, <1>4, <1>6

\* Bytes of the stream are written, or a part of them.
LEMMA WritingIInv ==
  ASSUME IInv, area' = area, chip' = chip, skip' = skip, givenUp' = givenUp,
         NEW p \in Nat, NEW n \in Nat, skip \in Nat, skip <= p,
         p + n <= skip + area.size, Streaming, pos <= p, pos = p \/ p = skip,
         Write(area.addr + p - skip, n, p)
  PROVE  /\ flash' \in [Addrs -> Nat \cup {Old, Blank, Spoilt}]
         /\ OutsideKept'
         /\ ~givenUp /\ Erasable => InPlace(flash', p + n)
<1>1. /\ area \in Areas /\ flash \in [Addrs -> Nat \cup {Old, Blank, Spoilt}]
      /\ OutsideKept /\ EveryByteInPlace /\ pos \in Nat
  BY DEF IInv, PushTypeOK
<1>2. /\ area.addr \in Nat /\ area.size \in Nat /\ End = area.addr + area.size
  BY <1>1, AreaFacts
<1> DEFINE a == area.addr + p - skip
<1>3. /\ a \in Nat /\ area.addr <= a /\ a + n <= End
  BY <1>2
<1>4. flash' = Written(a, n, p)
  BY DEF Write
<1> HIDE DEF a
<1>5. /\ flash' \in [Addrs -> Nat \cup {Old, Blank, Spoilt}]
      /\ \A b \in Addrs \ Area : flash'[b] = Old
  BY <1>1, <1>3, <1>4, WriteInside
<1>6. OutsideKept'
  BY <1>5, SamePieces DEF OutsideKept
<1>7. ASSUME ~givenUp, Erasable PROVE InPlace(flash', p + n)
  <2>1. InPlace(flash, pos)
    BY <1>1, <1>7, Placed
  <2>2. InPlace(flash, p)
    BY <1>1, <1>2, <2>1 DEF InPlace
  <2>3. p + n \in Nat /\ p <= p + n /\ p + n - p = n
    OBVIOUS
  <2>4. InPlace(Written(area.addr + p - skip, p + n - p, p), p + n)
    BY <1>1, <2>2, <2>3, WriteInPlace
  <2> QED BY <1>4, <2>3, <2>4 DEF a
<1> QED BY <1>5, <1>6, <1>7

\* A chunk of the stream, however it is delivered.
LEMMA ChunkIInv ==
  ASSUME IInv, NEW n \in 1 .. MaxChunk, Chunk(n)
  PROVE  IInv'
<1>1. /\ PushTypeOK /\ OutsideKept /\ StreamInv /\ EveryByteInPlace
      /\ area \in Areas /\ n \in Nat /\ n > 0
      /\ flash \in [Addrs -> Nat \cup {Old, Blank, Spoilt}]
      /\ get \in Nat /\ pos \in Nat /\ skipLeft \in Nat /\ imgLeft \in Nat /\ at \in Nat
  BY PushAssumption DEF IInv, PushTypeOK
<1>2. /\ area.addr \in Nat /\ area.size \in Nat /\ End = area.addr + area.size
      /\ FlashSize \in Nat /\ Word \in Nat \ {0}
      /\ \A k \in Skips \cup {BlSize} : k \in Int /\ FlashSize + area.size + k < Word
  BY <1>1, AreaFacts
<1>3. /\ chip' = chip /\ area' = area /\ piece' = piece /\ eaddr' = eaddr
      /\ reErase' = reErase /\ halRet' = halRet /\ givenUp' = givenUp
      /\ skip' = skip /\ via' = via
      /\ pc \in {"stream", "skip", "data"}
      /\ pc' \in {"stream", "skip", "data", "failed"}
      /\ pos' = pos + n
  BY DEF Chunk, PushSkipped, PushOverflow, PushWritten, PushFails, GetSkipped,
         GetWritten, GetUnwritten, eraseVars, Go
<1>4. skip \in Nat
  BY <1>1, <1>2, <1>3 DEF PushTypeOK, StreamInv
<1>5. Erasable' = Erasable
  BY <1>3, SamePieces
<1>6. ASSUME flash' \in [Addrs -> Nat \cup {Old, Blank, Spoilt}], OutsideKept',
             get' \in Nat, skipLeft' \in Nat, imgLeft' \in Nat, at' \in Nat,
             StreamInv', EveryByteInPlace'
      PROVE  IInv'
  <2>1. pos' \in Nat /\ pc' # "erase"
    BY <1>1, <1>3
  <2>2. PushTypeOK'
    BY <1>1, <1>3, <1>6, <2>1 DEF PushTypeOK, Addrs
  <2> QED BY <1>6, <2>1, <2>2 DEF IInv
<1>7. ASSUME flash' = flash
      PROVE  flash' \in [Addrs -> Nat \cup {Old, Blank, Spoilt}] /\ OutsideKept'
  BY <1>1, <1>3, <1>7, SamePieces DEF OutsideKept
<1>8. CASE PushSkipped(n)
  <2>1. /\ pc = "stream" /\ pc' = pc /\ get < skip /\ get + n <= skip
        /\ flash' = flash
        /\ get' = get + n /\ skipLeft' = skipLeft /\ imgLeft' = imgLeft /\ at' = at
    BY <1>1, <1>4, <1>8 DEF PushSkipped, Dropped, eraseVars
  <2>2. StreamInv'
    BY <1>1, <1>2, <1>3, <1>4, <2>1 DEF StreamInv
  <2>3. EveryByteInPlace'
    BY <1>1, <1>2, <1>3, <1>4, <1>5, <2>1 DEF EveryByteInPlace, Streaming, StreamInv
  <2> QED BY <1>1, <1>6, <1>7, <2>1, <2>2, <2>3
<1>9. CASE PushOverflow(n) \/ PushFails(n)
  <2>1. /\ pc = "stream" /\ pc' = "failed" /\ get' = get + Dropped
        /\ skipLeft' = skipLeft /\ imgLeft' = imgLeft /\ at' = at
    BY <1>9 DEF PushOverflow, PushFails, Go
  <2>2. /\ Dropped \in Nat /\ Remaining = area.size + skip - (get + Dropped)
        /\ Remaining \in Nat /\ get = pos /\ get + Dropped >= skip
        /\ Dropped > 0 => get < skip /\ get + Dropped = skip
    BY <2>1, RoomLeft
  <2>3. StreamInv' /\ EveryByteInPlace'
    BY <1>3, <1>4, <2>1 DEF StreamInv, EveryByteInPlace, Streaming
  <2>4. flash' \in [Addrs -> Nat \cup {Old, Blank, Spoilt}] /\ OutsideKept'
    <3>1. CASE flash' = flash
      BY <1>7, <3>1
    <3>2. CASE flash' # flash
      <4>1. /\ ~(get < skip /\ Dropped >= n) /\ n - Dropped <= Remaining
            /\ WriteFails(area.addr + get + Dropped - skip, n - Dropped, pos + Dropped)
        BY <1>9, <3>2 DEF PushOverflow, PushFails, eraseVars
      <4>2. PICK k \in 0 .. n - Dropped :
              Write(area.addr + get + Dropped - skip, k, pos + Dropped)
        BY <3>2, <4>1 DEF WriteFails
      <4> DEFINE p == pos + Dropped
      <4>3. /\ p \in Nat /\ k \in Nat /\ skip <= p /\ pos <= p
            /\ pos = p \/ p = skip
            /\ area.addr + get + Dropped - skip = area.addr + p - skip
        BY <1>1, <1>2, <1>4, <2>2, <4>1
      <4>4. p + k <= skip + area.size
        BY <1>1, <1>2, <1>4, <2>2, <4>1
      <4>5. Write(area.addr + p - skip, k, p)
        BY <4>2, <4>3
      <4> HIDE DEF p
      <4> QED BY <1>3, <1>4, <2>1, <4>3, <4>4, <4>5, WritingIInv DEF Streaming
    <3> QED BY <3>1, <3>2
  <2> QED BY <1>1, <1>6, <2>1, <2>2, <2>3, <2>4
<1>10. CASE PushWritten(n)
  <2> DEFINE p == pos + Dropped
             k == n - Dropped
  <2>1. /\ pc = "stream" /\ pc' = pc /\ get' = get + n
        /\ skipLeft' = skipLeft /\ imgLeft' = imgLeft /\ at' = at
        /\ ~(get < skip /\ Dropped >= n) /\ k <= Remaining
        /\ Write(area.addr + get + Dropped - skip, k, p)
    BY <1>10 DEF PushWritten
  <2>2. /\ Dropped \in Nat /\ Remaining = area.size + skip - (get + Dropped)
        /\ Remaining \in Nat /\ get = pos /\ get + Dropped >= skip
        /\ Dropped > 0 => get < skip /\ get + Dropped = skip
    BY <2>1, RoomLeft
  <2>3. /\ p \in Nat /\ k \in Nat /\ skip <= p /\ pos <= p
        /\ pos = p \/ p = skip
        /\ p + k <= skip + area.size /\ p + k = pos + n
        /\ area.addr + get + Dropped - skip = area.addr + p - skip
    BY <1>1, <1>2, <1>4, <2>1, <2>2
  <2>4. Write(area.addr + p - skip, k, p)
    BY <2>1, <2>3
  <2> HIDE DEF p, k
  <2>5. /\ flash' \in [Addrs -> Nat \cup {Old, Blank, Spoilt}] /\ OutsideKept'
        /\ ~givenUp /\ Erasable => InPlace(flash', p + k)
    BY <1>3, <1>4, <2>1, <2>3, <2>4, WritingIInv DEF Streaming
  <2>6. EveryByteInPlace'
    BY <1>3, <1>5, <2>3, <2>5 DEF EveryByteInPlace, InPlace
  <2>7. StreamInv'
    BY <1>1, <1>2, <1>3, <1>4, <2>1, <2>2, <2>3 DEF StreamInv
  <2> QED BY <1>1, <1>6, <2>1, <2>5, <2>6, <2>7
<1>11. CASE GetSkipped(n)
  <2>1. /\ pc = "skip" /\ pc' = pc /\ n <= skipLeft /\ flash' = flash
        /\ skipLeft' = (skipLeft - n) % Word
        /\ get' = get + n /\ imgLeft' = imgLeft /\ at' = at
    BY <1>11 DEF GetSkipped, eraseVars
  <2>2. /\ skipLeft = skip - pos /\ skip \in Skips \cup {BlSize}
        /\ at = area.addr /\ imgLeft = area.size
    BY <1>1, <1>4, <2>1 DEF StreamInv, PushTypeOK
  <2>3. skipLeft - n \in Nat /\ skipLeft - n < Word
    BY <1>1, <1>2, <1>4, <2>1, <2>2
  <2>4. skipLeft' = skipLeft - n
    BY <1>2, <2>1, <2>3, NoWrap
  <2>5. pos' <= skip /\ skipLeft' = skip - pos'
    BY <1>1, <1>3, <1>4, <2>1, <2>2, <2>4
  <2>6. StreamInv'
    BY <1>3, <1>4, <2>1, <2>2, <2>5 DEF StreamInv
  <2>7. EveryByteInPlace'
    BY <1>1, <1>2, <1>3, <1>4, <1>5, <2>1, <2>5 DEF EveryByteInPlace, Streaming
  <2> QED BY <1>1, <1>6, <1>7, <2>1, <2>3, <2>4, <2>6, <2>7
<1>12. CASE GetWritten(n) \/ GetUnwritten(n)
  <2>1. /\ pc = "data" /\ n <= imgLeft /\ imgLeft' = (imgLeft - n) % Word
        /\ get' = get + n /\ skipLeft' = skipLeft
        /\ at' = at \/ at' = at + n
    BY <1>12 DEF GetWritten, GetUnwritten, Go
  <2>2. /\ imgLeft = area.size - (pos - skip) /\ at = area.addr + (pos - skip)
        /\ skip <= pos /\ pos <= skip + area.size
    BY <1>1, <2>1 DEF StreamInv
  <2>3. imgLeft - n \in Nat /\ imgLeft - n < Word
    <3>1. area.size < Word
      BY <1>2, PushAssumption
    <3> QED BY <1>1, <1>2, <1>4, <2>1, <2>2, <3>1
  <2>4. imgLeft' = imgLeft - n
    BY <1>2, <2>1, <2>3, NoWrap
  <2>5. /\ at = area.addr + pos - skip /\ pos + n <= skip + area.size
        /\ at' \in Nat
    BY <1>1, <1>2, <1>4, <2>1, <2>2
  <2>6. CASE GetWritten(n)
    <3>1. Write(area.addr + pos - skip, n, pos) /\ pc' = pc /\ at' = at + n
      BY <2>5, <2>6 DEF GetWritten
    <3>2. /\ flash' \in [Addrs -> Nat \cup {Old, Blank, Spoilt}] /\ OutsideKept'
          /\ ~givenUp /\ Erasable => InPlace(flash', pos + n)
      BY <1>1, <1>3, <1>4, <2>1, <2>2, <2>5, <3>1, WritingIInv DEF Streaming
    <3>3. EveryByteInPlace'
      BY <1>3, <1>5, <3>2 DEF EveryByteInPlace, InPlace
    <3>4. /\ pos' >= skip /\ pos' <= skip + area.size
          /\ at' = area.addr + (pos' - skip) /\ imgLeft' = area.size - (pos' - skip)
      BY <1>1, <1>2, <1>3, <1>4, <2>1, <2>2, <2>4, <2>5, <3>1
    <3>5. StreamInv'
      BY <1>3, <1>4, <2>1, <3>1, <3>4 DEF StreamInv
    <3> QED BY <1>1, <1>6, <2>1, <2>3, <2>4, <2>5, <3>2, <3>3, <3>5
  <2>7. CASE GetUnwritten(n)
    <3>1. WriteFails(at, n, pos) /\ pc' = "failed"
      BY <2>7 DEF GetUnwritten, Go
    <3>2. flash' \in [Addrs -> Nat \cup {Old, Blank, Spoilt}] /\ OutsideKept'
      <4>1. CASE flash' = flash
        BY <1>7, <4>1
      <4>2. CASE flash' # flash
        <5>1. PICK k \in 0 .. n : Write(area.addr + pos - skip, k, pos)
          BY <2>5, <3>1, <4>2 DEF WriteFails
        <5>2. k \in Nat /\ pos + k <= skip + area.size
          BY <1>1, <1>2, <1>4, <2>5
        <5> QED BY <1>1, <1>3, <1>4, <2>1, <2>2, <5>1, <5>2, WritingIInv DEF Streaming
      <4> QED BY <4>1, <4>2
    <3>3. StreamInv' /\ EveryByteInPlace'
      BY <1>3, <1>4, <3>1 DEF StreamInv, EveryByteInPlace, Streaming
    <3> QED BY <1>1, <1>6, <2>1, <2>3, <2>4, <2>5, <3>2, <3>3
  <2> QED BY <1>12, <2>6, <2>7
<1> QED BY <1>8, <1>9, <1>10, <1>11, <1>12 DEF Chunk

\* When the erase is done, the pieces make the area blank.
LEMMA AllBlank ==
  ASSUME IInv, pc = "erase", piece = Done, ~givenUp, Erasable
  PROVE  \A a \in Area : flash[a] = Blank
<1>1. area \in Areas /\ EraseInv
  BY DEF IInv, PushTypeOK
<1>2. /\ \A p \in 1 .. 5 : BlankIn(flash, From(p), To(p)) /\ From(p) \in Nat /\ To(p) \in Nat
      /\ From(1) = area.addr /\ To(1) = From(3) /\ To(3) = From(5)
      /\ To(5) = From(4) /\ To(4) = From(2) /\ To(2) = End
      /\ area.addr \in Nat /\ End \in Nat /\ Area \subseteq Addrs
  BY <1>1, Pieces, AreaFacts DEF EraseInv, Done
<1> SUFFICES ASSUME NEW a \in Area PROVE flash[a] = Blank
  OBVIOUS
<1>3. a \in Addrs /\ a \in Int /\ From(1) <= a /\ a < To(2)
  BY <1>2 DEF Area
<1>4. CASE a < To(1)  BY <1>2, <1>3, <1>4 DEF BlankIn
<1>5. CASE From(3) <= a /\ a < To(3)  BY <1>2, <1>3, <1>5 DEF BlankIn
<1>6. CASE From(5) <= a /\ a < To(5)  BY <1>2, <1>3, <1>6 DEF BlankIn
<1>7. CASE From(4) <= a /\ a < To(4)  BY <1>2, <1>3, <1>7 DEF BlankIn
<1>8. CASE From(2) <= a  BY <1>2, <1>3, <1>8 DEF BlankIn
<1> QED BY <1>2, <1>3, <1>4, <1>5, <1>6, <1>7, <1>8

LEMMA StartIInv ==
  ASSUME IInv, NEW v \in {"push", "get"}, StartUpdate(v)
  PROVE  IInv'
<1>1. /\ area \in Areas /\ flash \in [Addrs -> Nat \cup {Old, Blank, Spoilt}]
      /\ skip \in Skips \cup {BlSize, -1} /\ BlSize \in Nat /\ Skips \subseteq Int
      /\ OutsideKept /\ PushTypeOK
  BY PushAssumption DEF IInv, PushTypeOK
<1>2. /\ pc' = "erase" /\ via' = v /\ get' = 0 /\ pos' = 0
      /\ skip' = IF skip < 0 THEN BlSize ELSE skip
      /\ flash' = [a \in Addrs |-> IF flash[a] = Blank THEN Blank ELSE Old]
      /\ piece' = 1 /\ eaddr' = From(1) /\ reErase' = 0 /\ halRet' = "error"
      /\ givenUp' = FALSE /\ chip' = chip /\ area' = area
      /\ skipLeft' = skipLeft /\ imgLeft' = imgLeft /\ at' = at
  BY DEF StartUpdate, Go, EraseBegin, Enter
<1>3. /\ From(1) \in Nat /\ From(1) <= To(1) /\ To(1) \in Nat /\ Mode(1) \in Nat \ {0}
      /\ \A i \in Addrs : i \in Int
  BY <1>1, Pieces, AreaFacts DEF Addrs
<1>4. skip' \in Nat /\ skip' \in Skips \cup {BlSize, -1}
  BY <1>1, <1>2
<1>5. PushTypeOK'
  <2>1. flash' \in [Addrs -> Nat \cup {Old, Blank, Spoilt}]
    BY <1>2
  <2>2. /\ chip' \in Chips /\ area' \in Areas
        /\ skipLeft' \in Nat /\ imgLeft' \in Nat /\ at' \in Nat
    BY <1>1, <1>2 DEF PushTypeOK
  <2>3. /\ piece' \in 0 .. Done /\ eaddr' \in Nat /\ reErase' \in 0 .. 2
        /\ get' \in Nat /\ pos' \in Nat
    BY <1>2, <1>3 DEF Done
  <2>4. /\ halRet' \in {"ok", "error"} /\ givenUp' \in BOOLEAN
        /\ via' \in {"push", "get"}
        /\ pc' \in {"idle", "erase", "skip", "data", "stream", "check", "failed"}
    BY <1>2
  <2> QED BY <1>4, <2>1, <2>2, <2>3, <2>4 DEF PushTypeOK, Addrs
<1>6. OutsideKept'
  <2>1. Area' = Area
    BY <1>2, SamePieces
  <2> QED BY <1>1, <1>2, <2>1 DEF OutsideKept, Old, Blank
<1>7. EraseInv'
  <2>1. /\ \A p : From(p)' = From(p) /\ To(p)' = To(p)
    BY <1>2, SamePieces
  <2>2. Blocks(From(1) - From(1), Mode(1)) /\ BlankIn(flash', From(1), From(1))
    BY <1>3, NoBlocks DEF BlankIn
  <2> QED BY <1>2, <1>3, <2>1, <2>2 DEF EraseInv, Mode
<1>8. StreamInv' /\ EveryByteInPlace'
  BY <1>2, <1>4 DEF StreamInv, EveryByteInPlace, Streaming
<1> QED BY <1>2, <1>5, <1>6, <1>7, <1>8 DEF IInv

LEMMA NextIInv == IInv /\ [Next]_vars => IInv'
<1> SUFFICES ASSUME IInv, [Next]_vars PROVE IInv'
  OBVIOUS
<1>1. /\ PushTypeOK /\ OutsideKept /\ StreamInv /\ EveryByteInPlace
      /\ area \in Areas /\ skip \in Skips \cup {BlSize, -1}
  BY DEF IInv, PushTypeOK
<1>2. CASE UNCHANGED vars
  <2>1. /\ \A p : From(p)' = From(p) /\ To(p)' = To(p)
        /\ Area' = Area /\ Erasable' = Erasable
    BY <1>2, SamePieces DEF vars, eraseVars
  <2>2. PushTypeOK' /\ OutsideKept'
    BY <1>1, <1>2, <2>1 DEF vars, eraseVars, ota, PushTypeOK, OutsideKept, Addrs
  <2>3. StreamInv' /\ EveryByteInPlace'
    BY <1>1, <1>2, <2>1 DEF vars, eraseVars, ota, StreamInv, EveryByteInPlace, Streaming
  <2>4. pc = "erase" => EraseInv'
    BY <1>2, <2>1 DEF IInv, vars, eraseVars, ota, EraseInv, Mode
  <2> QED BY <1>2, <2>2, <2>3, <2>4 DEF IInv, vars, ota
\* Flash, area and chip stay, and the erase is not under way afterwards.
<1>3. ASSUME flash' = flash, area' = area, chip' = chip, pc' # "erase",
             piece' \in 0 .. Done /\ eaddr' \in Nat /\ reErase' \in 0 .. 2,
             halRet' \in {"ok", "error"} /\ givenUp' \in BOOLEAN,
             skip' \in Skips \cup {BlSize, -1} /\ get' \in Nat /\ pos' \in Nat,
             via' \in {"push", "get"},
             skipLeft' \in Nat /\ imgLeft' \in Nat /\ at' \in Nat,
             pc' \in {"idle", "skip", "data", "stream", "check", "failed"},
             StreamInv', EveryByteInPlace'
      PROVE  IInv'
  <2>1. Area' = Area
    BY <1>3, SamePieces
  <2>2. PushTypeOK' /\ OutsideKept'
    BY <1>1, <1>3, <2>1 DEF PushTypeOK, OutsideKept, Addrs
  <2> QED BY <1>3, <2>2 DEF IInv
<1>4. /\ piece \in 0 .. Done /\ eaddr \in Nat /\ reErase \in 0 .. 2
      /\ halRet \in {"ok", "error"} /\ givenUp \in BOOLEAN
      /\ get \in Nat /\ pos \in Nat /\ via \in {"push", "get"}
      /\ skipLeft \in Nat /\ imgLeft \in Nat /\ at \in Nat
  BY <1>1 DEF PushTypeOK
<1>5. 0 \in Nat /\ 0 \in 0 .. Done /\ 0 \in 0 .. 2
  BY DEF Done
<1>6. ASSUME NEW s \in Skips, SetSkip(s) PROVE IInv'
  BY <1>3, <1>4, <1>6 DEF SetSkip, eraseVars, StreamInv, EveryByteInPlace, Streaming
<1>7. ASSUME NEW v \in {"push", "get"}, StartUpdate(v) PROVE IInv'
  BY <1>7, StartIInv
<1>8. CASE EraseUnaligned
  BY <1>1, <1>3, <1>4, <1>8
     DEF EraseUnaligned, Go, eraseVars, StreamInv, EveryByteInPlace, Streaming
<1>9. CASE Erasing
  BY <1>9, ErasingIInv
<1>10. CASE EraseReturns
  <2>1. /\ pc = "erase" /\ pc' \in {"failed", "skip", "stream"} /\ piece \in {0, Done}
        /\ pc' \in {"skip", "stream"} => piece = Done
        /\ skipLeft' = skip /\ imgLeft' = area.size /\ at' = area.addr
        /\ flash' = flash /\ area' = area /\ chip' = chip /\ piece' = piece
        /\ eaddr' = eaddr /\ reErase' = reErase /\ halRet' = halRet
        /\ givenUp' = givenUp /\ skip' = skip /\ get' = get /\ via' = via /\ pos' = pos
    BY <1>10 DEF EraseReturns, Go, eraseVars, Done
  <2>2. /\ pos = 0 /\ get = 0 /\ skip \in Nat
        /\ area.addr \in Nat /\ area.size \in Nat /\ End = area.addr + area.size
    BY <1>1, <2>1, AreaFacts DEF IInv, StreamInv
  <2>3. StreamInv'
    BY <2>1, <2>2 DEF StreamInv
  <2>4. EveryByteInPlace'
    <3> SUFFICES ASSUME Streaming', ~givenUp', Erasable',
                        NEW i \in 0 .. area'.size - 1
                 PROVE  flash'[area'.addr + i] = IF skip' + i < pos' THEN skip' + i ELSE Blank
      BY DEF EveryByteInPlace
    <3>1. piece = Done /\ ~givenUp /\ Erasable
      BY <2>1, SamePieces DEF Streaming
    <3>2. \A a \in Area : flash[a] = Blank
      BY <2>1, <3>1, AllBlank
    <3>3. area.addr + i \in Area
      BY <2>1, <2>2 DEF Area
    <3> QED BY <2>1, <2>2, <3>2, <3>3
  <2> QED BY <1>1, <1>3, <1>4, <2>1, <2>2, <2>3, <2>4
<1>11. ASSUME NEW n \in 1 .. MaxChunk, Chunk(n) PROVE IInv'
  BY <1>11, ChunkIInv
<1>12. CASE SkipDone
  <2>1. /\ pc = "skip" /\ pc' = "data" /\ skipLeft = 0
        /\ UNCHANGED <<eraseVars, skip, get, via, skipLeft, imgLeft, at, pos>>
    BY <1>12 DEF SkipDone, Go
  <2>2. /\ area.addr \in Nat /\ area.size \in Nat /\ skip \in Int
    BY <1>1, AreaFacts, PushAssumption
  <2>3. pos = skip
    BY <1>1, <1>4, <2>1, <2>2 DEF StreamInv
  <2>4. StreamInv'
    BY <1>1, <1>4, <2>1, <2>2, <2>3 DEF StreamInv, eraseVars
  <2>5. EveryByteInPlace'
    BY <1>1, <2>1, SamePieces DEF EveryByteInPlace, Streaming, eraseVars
  <2> QED BY <1>1, <1>3, <1>4, <2>1, <2>4, <2>5 DEF eraseVars
<1>13. CASE GetFails \/ StreamEnds
  BY <1>1, <1>3, <1>4, <1>13
     DEF GetFails, StreamEnds, eraseVars, StreamInv, EveryByteInPlace, Streaming
<1>14. CASE Stop \/ Reset
  <2>1. /\ piece' = 0 /\ eaddr' = 0 /\ reErase' = 0 /\ halRet' = "error"
        /\ givenUp' = FALSE /\ pc' = "idle" /\ via' = "push"
        /\ skip' \in {skip, -1} /\ get' \in {get, 0} /\ pos' = 0
        /\ skipLeft' = 0 /\ imgLeft' = 0 /\ at' = 0
        /\ flash' = flash /\ chip' = chip /\ area' = area
    BY <1>14 DEF Stop, Reset, Enter
  <2>2. StreamInv' /\ EveryByteInPlace'
    BY <2>1 DEF StreamInv, EveryByteInPlace, Streaming
  <2> QED BY <1>1, <1>3, <1>4, <1>5, <2>1, <2>2
<1> QED BY <1>2, <1>6, <1>7, <1>8, <1>9, <1>10, <1>11, <1>12, <1>13, <1>14 DEF Next

\* The inductive invariant holds in every state.
THEOREM Invariant == Spec => []IInv
<1>1. Init => IInv
  BY InitIInv
<1>2. IInv /\ [Next]_vars => IInv'
  BY NextIInv
<1> QED BY <1>1, <1>2, PTL DEF Spec

-----------------------------------------------------------------------------
(* The theorems *)

\* rom_flash_erase, HAL_Flash_Erase, ota_push_data and
\* ota_update_image_process keep their variables in their ranges.
THEOREM TypeCorrect == Spec => []PushTypeOK
<1>1. IInv => PushTypeOK
  BY DEF IInv
<1> QED BY <1>1, Invariant, PTL

\* For every area, chip and skip size, an update changes no byte outside the
\* image area.
THEOREM OutsideKeptAlways == Spec => []OutsideKept
<1>1. IInv => OutsideKept
  BY DEF IInv
<1> QED BY <1>1, Invariant, PTL

\* The pieces rom_flash_erase cuts an area into leave no byte of it out.
THEOREM EraseCompleteAlways == Spec => []EraseComplete
<1>1. IInv => EraseComplete
  BY AllBlank DEF EraseComplete
<1> QED BY <1>1, Invariant, PTL

\* However the stream is cut into chunks, each byte is written once, at its
\* place, over a blank byte.
THEOREM EveryByteInPlaceAlways == Spec => []EveryByteInPlace
<1>1. IInv => EveryByteInPlace
  BY DEF IInv
<1> QED BY <1>1, Invariant, PTL
=============================================================================
