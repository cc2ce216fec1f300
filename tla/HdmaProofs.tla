----------------------------- MODULE HdmaProofs -----------------------------
(***************************************************************************)
(* The types of Hdma, that the pointers of the channels point where their  *)
(* registers do, that a DMA's register counts its bytes, and that a        *)
(* channel left alone follows its table, for every bank, block size and    *)
(* table.                                                                  *)
(***************************************************************************)
EXTENDS Hdma, FiniteSetTheorems, TLAPS

(* Arithmetic: a block holds whole addresses, and the bank whole blocks.    *)

LEMMA DivMod ==
    ASSUME NEW a \in Nat, NEW b \in Nat \ {0}
    PROVE  /\ a \div b \in Nat
           /\ a % b \in 0..(b - 1)
           /\ a = b * (a \div b) + (a % b)
BY SMT

LEMMA LessTimes ==
    ASSUME NEW b \in Nat \ {0}, NEW p \in Nat, NEW q \in Nat, b * p < b * q + b
    PROVE  p <= q
<1> SUFFICES ASSUME p >= q + 1 PROVE FALSE
  OBVIOUS
<1>1. PICK m \in Nat : p = q + 1 + m
  <2>1. p - q - 1 \in Nat
    OBVIOUS
  <2> QED
    BY <2>1
<1>2. b * p = b * q + b + b * m
  BY <1>1
<1>3. b * m >= 0 /\ b * m \in Int /\ b * q \in Int
  OBVIOUS
<1> QED
  BY <1>2, <1>3

LEMMA Quotient ==
    ASSUME NEW b \in Nat \ {0}, NEW a \in Nat, NEW q \in Nat, b * q <= a, a < b * q + b
    PROVE  a \div b = q
<1>1. a \div b \in Nat /\ a % b \in 0..(b - 1) /\ a = b * (a \div b) + (a % b)
  BY DivMod
<1>2. PICK d \in Nat : d = a \div b
  BY <1>1
<1>3. PICK r \in 0..(b - 1) : r = a % b
  BY <1>1
<1>4. a = b * d + r /\ b * d \in Nat /\ b * q \in Nat
  BY <1>1, <1>2, <1>3
<1>5. d <= q
  BY <1>4, LessTimes
<1>6. q <= d
  BY <1>4, LessTimes
<1> QED
  BY <1>2, <1>5, <1>6

\* Bytes that lie in one block follow each other in the bank.
LEMMA StaysInBlock ==
    ASSUME NEW a \in Place, NEW n \in Nat, (a % Block) + n < Block
    PROVE  /\ Add(a, n) = a + n
           /\ (a + n) \div Block = a \div Block
           /\ a + n \in Place
<1>1. Block \in Nat \ {0} /\ Space \in Nat \ {0} /\ Space % Block = 0 /\ a \in Nat
  BY HdmaAssumption DEF Place
<1>2. PICK q \in Nat : q = a \div Block
  BY <1>1, DivMod
<1>3. PICK r \in 0..(Block - 1) : r = a % Block
  BY <1>1, DivMod
<1>4. a = Block * q + r /\ Block * q \in Nat
  BY <1>1, <1>2, <1>3, DivMod
<1>5. PICK k \in Nat : Space = Block * k
  <2>1. Space \div Block \in Nat /\ Space = Block * (Space \div Block) + (Space % Block)
    BY <1>1, DivMod
  <2>2. PICK k \in Nat : k = Space \div Block
    BY <2>1
  <2>3. Block * k \in Nat
    BY <1>1
  <2> QED
    BY <1>1, <2>1, <2>2, <2>3
<1>6. a + n < Block * q + Block
  BY <1>1, <1>3, <1>4
<1>7. a < Space
  BY HdmaAssumption DEF Place
<1>8. q + 1 <= k
  <2>1. Block * k \in Nat
    BY <1>1
  <2>2. Block * q < Block * k
    BY <1>1, <1>4, <1>5, <1>7
  <2>3. k >= 1
    BY <1>1, <1>5
  <2>4. PICK j \in Nat : k = j + 1
    <3>1. k - 1 \in Nat
      BY <2>3
    <3> QED
      BY <3>1
  <2>5. Block * k = Block * j + Block /\ Block * j \in Nat
    BY <1>1, <2>4
  <2>6. Block * q < Block * j + Block
    BY <2>2, <2>5
  <2> QED
    BY <1>1, <2>4, <2>6, LessTimes
<1>9. Block * q + Block <= Space
  <2>1. PICK m \in Nat : k = q + 1 + m
    <3>1. k - q - 1 \in Nat
      BY <1>8
    <3> QED
      BY <3>1
  <2>2. Block * k = Block * q + Block + Block * m /\ Block * m \in Nat
    BY <1>1, <2>1
  <2> QED
    BY <1>1, <1>4, <1>5, <2>2
<1>10. a + n \in Place
  BY <1>1, <1>4, <1>6, <1>9 DEF Place
<1>11. (a + n) % Space = a + n
  BY <1>1, <1>10 DEF Place
<1>12. (a + n) \div Block = q
  <2>1. a + n \in Nat /\ Block * q <= a + n
    BY <1>1, <1>3, <1>4
  <2>2. PICK x \in Nat : x = a + n
    BY <2>1
  <2>3. x \div Block = q
    BY <1>1, <1>6, <2>1, <2>2, Quotient
  <2> QED
    BY <2>2, <2>3
<1> QED
  BY <1>2, <1>10, <1>11, <1>12 DEF Add
-----------------------------------------------------------------------------
(* What is read from memory.                                                *)

Memory == table \in [1..TableLength -> Bytes]

LEMMA AddInBank ==
    ASSUME NEW a \in Place, NEW n \in Nat
    PROVE  Add(a, n) \in Place
<1>1. Space \in Nat \ {0} /\ a + n \in Nat
  BY HdmaAssumption DEF Place
<1>2. (a + n) % Space \in 0..(Space - 1)
  BY <1>1, DivMod
<1> QED
  BY <1>2 DEF Add, Place

LEMMA ByteIsByte ==
    ASSUME Memory, NEW a \in Place
    PROVE  S9xGetByte(a) \in 0..(2 * Flag - 1)
<1>1. a \in Nat /\ Flag \in Nat \ {0} /\ TableLength \in Nat /\ Bytes \subseteq 0..(2 * Flag - 1)
  BY HdmaAssumption DEF Place
<1>2. CASE a < TableLength
  <2>1. table[a + 1] \in Bytes
    BY <1>1, <1>2 DEF Memory
  <2> QED
    BY <1>1, <1>2, <2>1 DEF S9xGetByte
<1>3. CASE ~(a < TableLength)
  BY <1>1, <1>3 DEF S9xGetByte
<1> QED
  BY <1>2, <1>3

LEMMA WordIsPlace ==
    ASSUME Memory, NEW a \in Place
    PROVE  S9xGetWord(a) \in Place
<1>1. Flag \in Nat \ {0} /\ Space \in Nat \ {0}
  BY HdmaAssumption
<1>2. PICK lo \in 0..(2 * Flag - 1) : lo = S9xGetByte(a)
  BY ByteIsByte
<1>3. Add(a, 1) \in Place
  BY AddInBank
<1>4. PICK hi \in 0..(2 * Flag - 1) : hi = S9xGetByte(Add(a, 1))
  BY <1>3, ByteIsByte
<1>5. lo + 2 * Flag * hi \in Nat
  BY <1>1
<1>6. (lo + 2 * Flag * hi) % Space \in 0..(Space - 1)
  BY <1>1, <1>5, DivMod
<1> QED
  BY <1>2, <1>4, <1>6 DEF S9xGetWord, Place

-----------------------------------------------------------------------------
(* One channel.                                                             *)

\* What PointerFollows says of a channel.
PointerRight(c) ==
    c.ptr # NULL => c.ptr = Source(c) /\ c.ptr \div Block \in Mapped

LEMMA NullIsNoPlace == NULL \notin Nat /\ Place \subseteq Nat
BY HdmaAssumption DEF NULL, Place

LEMMA MemPointer ==
    ASSUME NEW a \in Place
    PROVE  /\ S9xGetMemPointer(a) \in {a, NULL}
           /\ S9xGetMemPointer(a) # NULL =>
                S9xGetMemPointer(a) = a /\ a \div Block \in Mapped
BY DEF S9xGetMemPointer

\* The registers that HDMAReadLineCount leaves are registers, however it came to
\* read the table, and its pointer is right.
LEMMA ReadLineCountRight ==
    ASSUME Memory, NEW c \in Registers(0..Flag), NEW more \in BOOLEAN
    PROVE  /\ ReadLineCount(c, more) \in Registers(1..Flag)
           /\ PointerRight(ReadLineCount(c, more))
<1> DEFINE line == S9xGetByte(c.address)
           a == Add(c.address, 1)
           word == IF more THEN a ELSE c.address
           over == [c EXCEPT !.repeat = FALSE, !.count = Flag,
                       !.iaddr = IF c.indirect THEN S9xGetWord(word) ELSE c.iaddr,
                       !.address = IF c.indirect THEN Add(word, 2) ELSE a,
                       !.ptr = NULL]
           lines == IF line % Flag = 0 THEN Flag ELSE line % Flag
           src == IF c.indirect THEN S9xGetWord(a) ELSE a
           begun == [c EXCEPT !.repeat = line <= Flag,
                       !.count = lines,
                       !.go = TRUE,
                       !.iaddr = IF c.indirect THEN S9xGetWord(a) ELSE c.iaddr,
                       !.address = IF c.indirect THEN Add(a, 2) ELSE a,
                       !.ptr = S9xGetMemPointer(src)]
<1>1. /\ c.address \in Place /\ c.iaddr \in Place /\ c.indirect \in BOOLEAN
      /\ Flag \in Nat \ {0}
  BY HdmaAssumption DEF Registers
<1>2. a \in Place /\ word \in Place
  BY <1>1, AddInBank
<1>3. Add(a, 2) \in Place /\ Add(word, 2) \in Place
  BY <1>2, AddInBank
<1>4. S9xGetWord(a) \in Place /\ S9xGetWord(word) \in Place
  BY <1>2, WordIsPlace
<1>5. lines \in 1..Flag
  <2>1. line \in Nat
    BY <1>1, ByteIsByte
  <2>2. line % Flag \in 0..(Flag - 1)
    BY <1>1, <2>1, DivMod
  <2> QED
    BY <1>1, <2>2
<1>6. src \in Place
  BY <1>2, <1>4
<1>7. S9xGetMemPointer(src) \in Nat \cup {NULL}
  BY <1>6, MemPointer, NullIsNoPlace
<1>8. ReadLineCount(c, more) = IF line = 0 THEN over ELSE begun
  BY DEF ReadLineCount
<1>9. (line <= Flag) \in BOOLEAN
  OBVIOUS
<1> HIDE DEF line, a, word, lines, src
<1>10. over \in Registers(1..Flag) /\ PointerRight(over)
  <2>1. FALSE \in BOOLEAN /\ Flag \in 1..Flag
    BY <1>1
  <2>2. over \in Registers(1..Flag)
    BY <1>1, <1>2, <1>3, <1>4, <2>1 DEF Registers
  <2>3. over.ptr = NULL
    BY DEF Registers
  <2> QED
    BY <2>2, <2>3 DEF PointerRight
<1>11. begun \in Registers(1..Flag)
  BY <1>1, <1>2, <1>3, <1>4, <1>5, <1>7, <1>9 DEF Registers
<1>12. begun.ptr = S9xGetMemPointer(src) /\ Source(begun) = src
  BY DEF Registers, Source, src
<1>13. PointerRight(begun)
  BY <1>6, <1>12, MemPointer DEF PointerRight
<1> HIDE DEF over, begun
<1> QED
  BY <1>8, <1>10, <1>11, <1>13

LEMMA TransferredRight ==
    ASSUME NEW c \in Registers(1..Flag)
    PROVE  /\ Transferred(c) \in Registers(0..Flag)
           /\ PointerRight(c) => PointerRight(Transferred(c))
<1> DEFINE p == IF c.ptr = NULL THEN S9xGetMemPointer(Source(c)) ELSE c.ptr
           t == Transferred(c)
<1>1. /\ c.address \in Place /\ c.iaddr \in Place /\ c.indirect \in BOOLEAN
      /\ c.size \in Nat \ {0} /\ c.count \in 1..Flag /\ c.go \in BOOLEAN
      /\ c.ptr \in Nat \cup {NULL} /\ c.repeat \in BOOLEAN /\ Flag \in Nat \ {0}
  BY HdmaAssumption DEF Registers
<1>2. Source(c) \in Place
  BY <1>1 DEF Source
<1>3. p \in Nat \cup {NULL}
  BY <1>1, <1>2, MemPointer, NullIsNoPlace
<1>4. Add(c.address, c.size) \in Place /\ Add(c.iaddr, c.size) \in Place
  BY <1>1, AddInBank
<1>5. c.count - 1 \in 0..Flag
  BY <1>1
<1>6. Source(t) = IF c.go THEN Add(Source(c), c.size) ELSE Source(c)
  BY <1>1 DEF Transferred, Source, Registers
<1>7. t.ptr = PointerAfter(c)
  BY DEF Transferred, Registers
<1>8. ASSUME c.go, p # NULL, PointerAfter(c) # NULL
      PROVE  (Source(c) % Block) + c.size < Block /\ PointerAfter(c) = p + c.size
  <2>1. ~((Source(c) % Block) + c.size >= Block)
    BY <1>8 DEF PointerAfter
  <2>2. PointerAfter(c) = p + c.size
    BY <1>8, <2>1 DEF PointerAfter
  <2>3. Source(c) \in Nat /\ Block \in Nat \ {0}
    BY <1>2, HdmaAssumption DEF Place
  <2>4. PICK r \in 0..(Block - 1) : r = Source(c) % Block
    BY <2>3, DivMod
  <2>5. ~(r + c.size >= Block)
    BY <2>1, <2>4
  <2>6. r + c.size < Block
    BY <1>1, <2>3, <2>5
  <2> QED
    BY <2>2, <2>4, <2>6
<1>9. t.ptr \in Nat \cup {NULL}
  <2>1. CASE ~c.go \/ p = NULL \/ PointerAfter(c) = NULL
    BY <1>3, <1>7, <2>1 DEF PointerAfter
  <2>2. CASE c.go /\ p # NULL /\ PointerAfter(c) # NULL
    <3>1. p \in Nat
      BY <1>3, <2>2
    <3>2. p + c.size \in Nat
      BY <1>1, <3>1
    <3> QED
      BY <1>7, <1>8, <2>2, <3>2
  <2> QED
    BY <2>1, <2>2
<1>10. t \in Registers(0..Flag)
  <2>1. (~c.repeat) \in BOOLEAN
    OBVIOUS
  <2>2. t.ptr = PointerAfter(c)
    BY <1>7
  <2> HIDE DEF p
  <2> QED
    BY <1>1, <1>4, <1>5, <1>7, <1>9, <2>1 DEF Transferred, Registers
<1>11. ASSUME PointerRight(c)
       PROVE  PointerRight(t)
  <2>1. CASE t.ptr = NULL
    BY <2>1 DEF PointerRight
  <2>2. CASE t.ptr # NULL /\ ~c.go
    <3>1. t.ptr = p
      BY <1>7, <2>2 DEF PointerAfter
    <3>2. p = Source(c) /\ Source(c) \div Block \in Mapped
      BY <1>2, <1>11, <2>2, <3>1, MemPointer DEF PointerRight
    <3> QED
      BY <1>6, <2>2, <3>1, <3>2 DEF PointerRight
  <2>3. CASE t.ptr # NULL /\ c.go
    <3>1. p # NULL /\ PointerAfter(c) # NULL
      BY <1>7, <2>3 DEF PointerAfter
    <3>2. (Source(c) % Block) + c.size < Block /\ t.ptr = p + c.size
      BY <1>7, <1>8, <2>3, <3>1
    <3>3. p = Source(c) /\ Source(c) \div Block \in Mapped
      BY <1>2, <1>11, <3>1, MemPointer DEF PointerRight
    <3>4. /\ Add(Source(c), c.size) = Source(c) + c.size
          /\ (Source(c) + c.size) \div Block = Source(c) \div Block
      BY <1>1, <1>2, <3>2, StaysInBlock
    <3> QED
      BY <1>6, <2>3, <3>2, <3>3, <3>4 DEF PointerRight
  <2> QED
    BY <2>1, <2>2, <2>3
<1> QED
  BY <1>10, <1>11
-----------------------------------------------------------------------------
(* The inductive invariant: with the types and the pointers, that a DMA not *)
(* yet accounted for has bytes left.                                        *)

DMAHasBytes == dma # None => moved \/ left >= 1

HdmaInv == TypeOK /\ PointerFollows /\ DMAHasBytes

LEMMA PointersRight ==
    PointerFollows <=> \A d \in Channels \ astray : PointerRight(ch[d])
BY DEF PointerFollows, PointerRight

LEMMA PointersRightNext ==
    PointerFollows' <=> \A d \in Channels \ astray' : PointerRight(ch'[d])
BY DEF PointerFollows, PointerRight, Source

LEMMA InitHdmaInv == Init => HdmaInv
<1> SUFFICES ASSUME Init PROVE HdmaInv
  OBVIOUS
<1>1. PICK a \in [Channels -> Starts], i \in [Channels -> BOOLEAN], n \in [Channels -> Sizes] :
        ch = [d \in Channels |-> Reset(a[d], i[d], n[d])]
  BY DEF Init
<1>2. /\ Space - 1 \in Place /\ Flag - 1 \in 1..Flag /\ NULL \in Nat \cup {NULL}
      /\ Starts \subseteq Place /\ ScreenHeight \in Nat /\ MaxWrites \in Nat /\ Space \in Nat
  BY HdmaAssumption DEF Place
<1>3. ASSUME NEW d \in Channels
      PROVE  ch[d] \in Registers(1..Flag) /\ ch[d].ptr = NULL
  <2>1. /\ ch[d] = Reset(a[d], i[d], n[d]) /\ a[d] \in Place
        /\ i[d] \in BOOLEAN /\ n[d] \in Sizes
    BY <1>1, <1>2, <1>3
  <2> QED
    BY <1>2, <2>1 DEF Reset, Registers
<1>4. ch \in [Channels -> Registers(1..Flag)]
  BY <1>1, <1>3
<1>5. TypeOK
  <2>1. /\ table \in [1..TableLength -> Bytes]
        /\ hdma = {} /\ ended = {} /\ hdmaen \in SUBSET Channels
        /\ v = 0 /\ pc = "init"
        /\ dma = None /\ left = 0 /\ moved = FALSE /\ ran = {}
        /\ own = {} /\ astray = {} /\ writes = 0
    BY DEF Init
  <2>2. v \in 0..(ScreenHeight + 1) /\ left \in 0..Space /\ writes \in 0..MaxWrites
    BY <1>2, <2>1
  <2> QED
    BY <1>4, <2>1, <2>2 DEF TypeOK
<1>6. PointerFollows
  BY <1>3, PointersRight DEF PointerRight
<1> QED
  BY <1>5, <1>6 DEF Init, HdmaInv, DMAHasBytes

LEMMA StartHDMAInv == HdmaInv /\ S9xStartHDMA => HdmaInv'
<1> SUFFICES ASSUME HdmaInv, S9xStartHDMA PROVE HdmaInv'
  OBVIOUS
<1> DEFINE started == [d \in Channels |-> [ch[d] EXCEPT !.address = ch[d].start]]
           over == {d \in hdmaen : TableEnds(started[d])}
<1>1. /\ ch' = [d \in Channels |->
                  IF d \in hdmaen THEN ReadLineCount(started[d], Later(hdmaen, d))
                  ELSE [ch[d] EXCEPT !.go = FALSE]]
      /\ hdma' = hdmaen \ over /\ ended' = over /\ ran' = InDMA(hdmaen \ over)
  BY DEF S9xStartHDMA
<1>2. /\ own' = hdmaen /\ astray' = astray \ hdmaen /\ pc' = "line"
      /\ UNCHANGED <<table, hdmaen, v, dma, left, moved, writes>>
  BY DEF S9xStartHDMA
<1>3. /\ Memory /\ ch \in [Channels -> Registers(1..Flag)] /\ hdmaen \subseteq Channels
  BY DEF HdmaInv, TypeOK, Memory
<1>4. ASSUME NEW d \in Channels, d \in hdmaen
      PROVE  ch'[d] \in Registers(1..Flag) /\ PointerRight(ch'[d])
  <2>1. started[d] \in Registers(0..Flag)
    <3>1. ch[d] \in Registers(1..Flag)
      BY <1>3
    <3>2. started[d] = [ch[d] EXCEPT !.address = ch[d].start]
      OBVIOUS
    <3> QED
      BY <3>1, <3>2, HdmaAssumption DEF Registers
  <2>2. PICK c \in Registers(0..Flag) : c = started[d]
    BY <2>1
  <2>3. PICK m \in BOOLEAN : m = Later(hdmaen, d)
    BY DEF Later
  <2>4. ch'[d] = ReadLineCount(c, m)
    BY <1>1, <1>4, <2>2, <2>3
  <2> QED
    BY <1>3, <2>4, ReadLineCountRight
<1>5. ASSUME NEW d \in Channels, d \notin hdmaen
      PROVE  /\ ch'[d] \in Registers(1..Flag)
             /\ PointerRight(ch[d]) => PointerRight(ch'[d])
  <2>1. ch[d] \in Registers(1..Flag)
    BY <1>3
  <2>2. ch'[d] = [ch[d] EXCEPT !.go = FALSE]
    BY <1>1, <1>5
  <2> QED
    BY <2>1, <2>2 DEF Registers, PointerRight, Source
<1>6. ch' \in [Channels -> Registers(1..Flag)]
  BY <1>1, <1>4, <1>5
<1>7. over \subseteq Channels /\ ran' \subseteq Channels /\ astray' \subseteq Channels
  BY <1>1, <1>2, <1>3 DEF InDMA, HdmaInv, TypeOK
<1>8. TypeOK'
  BY <1>1, <1>2, <1>3, <1>6, <1>7 DEF HdmaInv, TypeOK
<1>9. PointerFollows'
  BY <1>2, <1>4, <1>5, PointersRight, PointersRightNext DEF HdmaInv
<1> QED
  BY <1>2, <1>8, <1>9 DEF HdmaInv, DMAHasBytes

LEMMA NextLineType ==
    ASSUME v \in 0..(ScreenHeight + 1), pc = "line", NextLine
    PROVE  v' \in 0..(ScreenHeight + 1) /\ pc' \in {"init", "line"}
BY HdmaAssumption DEF NextLine

LEMMA DoHDMAInv == HdmaInv /\ S9xDoHDMA => HdmaInv'
<1> SUFFICES ASSUME HdmaInv, S9xDoHDMA PROVE HdmaInv'
  OBVIOUS
<1> DEFINE done == [d \in hdma |-> Transferred(ch[d])]
           read == {d \in hdma : done[d].count = 0}
           over == {d \in read : TableEnds(done[d])}
<1>1. ch' = [d \in Channels |->
               IF d \notin hdma THEN ch[d]
               ELSE IF d \notin read THEN done[d]
               ELSE IF d \notin over THEN ReadLineCount(done[d], Later(hdma, d))
               ELSE [ReadLineCount(done[d], Later(hdma, d)) EXCEPT !.go = FALSE]]
  BY DEF S9xDoHDMA
<1>2. /\ hdma' = StillActive(hdma \ over) /\ ended' = ended \cup over
      /\ astray' = astray \ {d \in hdma : ch'[d].ptr = NULL \/ d \in read}
      /\ ran' = InDMA(hdma) /\ NextLine /\ pc = "line"
      /\ UNCHANGED <<table, hdmaen, dma, left, moved, own, writes>>
  BY DEF S9xDoHDMA
<1>3. /\ Memory /\ ch \in [Channels -> Registers(1..Flag)] /\ hdma \subseteq Channels
      /\ ended \subseteq Channels /\ hdma \cap ended = {} /\ Flag \in Nat
  BY <1>2, HdmaAssumption DEF HdmaInv, TypeOK, Memory
<1>4. ASSUME NEW d \in hdma
      PROVE  /\ done[d] \in Registers(0..Flag)
             /\ PointerRight(ch[d]) => PointerRight(done[d])
  BY <1>3, TransferredRight
<1> HIDE DEF done
<1>5. ASSUME NEW d \in read
      PROVE  ch'[d] \in Registers(1..Flag) /\ PointerRight(ch'[d])
  <2>1. PICK c \in Registers(0..Flag) : c = done[d]
    BY <1>4
  <2>2. PICK m \in BOOLEAN : m = Later(hdma, d)
    BY DEF Later
  <2>3. PICK r \in Registers(1..Flag) : r = ReadLineCount(c, m) /\ PointerRight(r)
    BY <1>3, ReadLineCountRight
  <2>4. ch'[d] = r \/ ch'[d] = [r EXCEPT !.go = FALSE]
    BY <1>1, <1>3, <2>1, <2>2, <2>3
  <2>5. [r EXCEPT !.go = FALSE] \in Registers(1..Flag) /\ PointerRight([r EXCEPT !.go = FALSE])
    BY <2>3 DEF Registers, PointerRight, Source
  <2> QED
    BY <2>3, <2>4, <2>5
<1>6. ASSUME NEW d \in hdma, d \notin read
      PROVE  ch'[d] = done[d] /\ ch'[d] \in Registers(1..Flag)
  <2>1. ch'[d] = done[d]
    BY <1>1, <1>3, <1>6
  <2>2. done[d] \in Registers(0..Flag) /\ done[d].count # 0
    BY <1>4, <1>6
  <2> QED
    BY <1>3, <2>1, <2>2 DEF Registers
<1>7. ASSUME NEW d \in Channels, d \notin hdma
      PROVE  ch'[d] = ch[d]
  BY <1>1, <1>7
<1>8. ch' \in [Channels -> Registers(1..Flag)]
  <2>1. ASSUME NEW d \in Channels
        PROVE  ch'[d] \in Registers(1..Flag)
    BY <1>3, <1>5, <1>6, <1>7
  <2> QED
    BY <1>1, <2>1
<1>9. PointerFollows'
  <2>1. ASSUME NEW d \in Channels \ astray'
        PROVE  PointerRight(ch'[d])
    <3>1. CASE d \notin hdma
      BY <1>2, <1>7, <2>1, <3>1, PointersRight DEF HdmaInv
    <3>2. CASE d \in hdma /\ (ch'[d].ptr = NULL \/ d \in read)
      BY <1>5, <3>2 DEF PointerRight
    <3>3. CASE d \in hdma /\ ~(ch'[d].ptr = NULL \/ d \in read)
      <4>1. d \notin astray
        BY <1>2, <2>1, <3>3
      <4>2. PointerRight(ch[d])
        BY <2>1, <4>1, PointersRight DEF HdmaInv
      <4> QED
        BY <1>4, <1>6, <3>3, <4>2
    <3> QED
      BY <3>1, <3>2, <3>3
  <2> QED
    BY <2>1, PointersRightNext
<1>10. v' \in 0..(ScreenHeight + 1) /\ pc' \in {"init", "line"}
  BY <1>2, NextLineType DEF HdmaInv, TypeOK
<1>11. over \subseteq hdma
  OBVIOUS
<1> HIDE DEF over
<1>12. hdma' \subseteq hdma \ over /\ ran' \subseteq Channels /\ astray' \subseteq Channels
  BY <1>2, <1>3 DEF StillActive, InDMA, HdmaInv, TypeOK
<1>13. TypeOK'
  BY <1>2, <1>3, <1>8, <1>10, <1>11, <1>12 DEF HdmaInv, TypeOK
<1> QED
  BY <1>2, <1>9, <1>13 DEF HdmaInv, DMAHasBytes

LEMMA IdleLineInv == HdmaInv /\ IdleLine => HdmaInv'
<1> SUFFICES ASSUME HdmaInv, IdleLine PROVE HdmaInv'
  OBVIOUS
<1>1. /\ v' \in 0..(ScreenHeight + 1) /\ pc' \in {"init", "line"}
  BY NextLineType DEF IdleLine, HdmaInv, TypeOK
<1>2. hdma' \subseteq hdma
  BY DEF IdleLine, StillActive
<1>3. TypeOK'
  BY <1>1, <1>2 DEF IdleLine, HdmaInv, TypeOK
<1>4. PointerFollows'
  BY PointersRight, PointersRightNext DEF IdleLine, HdmaInv
<1> QED
  BY <1>3, <1>4 DEF IdleLine, HdmaInv, DMAHasBytes

\* A channel one of whose registers, other than those that say where it reads,
\* is written. changed is what becomes of it.
LEMMA ChannelChanged ==
    ASSUME HdmaInv, NEW d \in Channels, NEW changed,
           ch' = [ch EXCEPT ![d] = changed],
           changed \in Registers(1..Flag),
           astray' \subseteq Channels,
           \A e \in Channels \ {d} : e \in astray => e \in astray',
           d \notin astray' => PointerRight(changed)
    PROVE  ch' \in [Channels -> Registers(1..Flag)] /\ PointerFollows'
<1>1. ch \in [Channels -> Registers(1..Flag)]
  BY DEF HdmaInv, TypeOK
<1>2. ASSUME NEW e \in Channels \ astray'
      PROVE  PointerRight(ch'[e])
  <2>1. CASE e = d
    BY <1>1, <1>2, <2>1
  <2>2. CASE e # d
    BY <1>1, <1>2, <2>2, PointersRight DEF HdmaInv
  <2> QED
    BY <2>1, <2>2
<1> QED
  BY <1>1, <1>2, PointersRightNext

LEMMA StartDMAInv ==
    ASSUME HdmaInv, NEW d \in Channels, StartDMA(d)
    PROVE  HdmaInv'
<1>1. ch[d] \in Registers(1..Flag) /\ Space \in Nat \ {0}
  BY HdmaAssumption DEF HdmaInv, TypeOK
<1>2. left' \in 0..Space /\ left' >= 1
  BY <1>1 DEF StartDMA, Registers, Place
<1>3. writes' \in 0..MaxWrites
  BY HdmaAssumption DEF StartDMA, HdmaInv, TypeOK
<1>4. TypeOK'
  BY <1>2, <1>3 DEF StartDMA, HdmaInv, TypeOK
<1>5. PointerFollows'
  BY PointersRight, PointersRightNext DEF StartDMA, HdmaInv
<1> QED
  BY <1>2, <1>4, <1>5 DEF HdmaInv, DMAHasBytes

LEMMA DMAByteInv == HdmaInv /\ DMAByte => HdmaInv'
<1> SUFFICES ASSUME HdmaInv, DMAByte PROVE HdmaInv'
  OBVIOUS
<1> DEFINE changed == [ch[dma] EXCEPT !.iaddr = Add(@, Space - 1), !.start = Add(@, 1)]
<1>1. dma \in Channels /\ ~moved /\ ch \in [Channels -> Registers(1..Flag)]
  BY DEF DMAByte, HdmaInv, TypeOK
<1>2. ch' = [ch EXCEPT ![dma] = changed]
  BY <1>1 DEF DMAByte, Registers
<1>3. ch[dma] \in Registers(1..Flag)
  BY <1>1
<1>4. Add(ch[dma].iaddr, Space - 1) \in Place /\ Add(ch[dma].start, 1) \in Place
  BY <1>3, AddInBank, HdmaAssumption DEF Registers
<1>5. changed \in Registers(1..Flag) /\ changed.ptr = ch[dma].ptr
  BY <1>3, <1>4 DEF Registers
<1>6. /\ astray \subseteq Channels
      /\ astray' = IF ch[dma].ptr # NULL THEN astray \cup {dma} ELSE astray
  BY DEF DMAByte, HdmaInv, TypeOK
<1>7. dma \notin astray' => PointerRight(changed)
  BY <1>5, <1>6 DEF PointerRight
<1> HIDE DEF changed
<1>8. ch' \in [Channels -> Registers(1..Flag)] /\ PointerFollows'
  BY <1>1, <1>2, <1>5, <1>6, <1>7, ChannelChanged
<1>9. left' \in 0..Space
  BY <1>1, HdmaAssumption DEF DMAByte, HdmaInv, TypeOK, DMAHasBytes
<1>10. TypeOK'
  BY <1>1, <1>6, <1>8, <1>9 DEF DMAByte, HdmaInv, TypeOK
<1> QED
  BY <1>8, <1>10 DEF DMAByte, HdmaInv, DMAHasBytes

LEMMA AfterByteInv == HdmaInv /\ AfterByte => HdmaInv'
<1> SUFFICES ASSUME HdmaInv, AfterByte PROVE HdmaInv'
  OBVIOUS
<1>1. TypeOK'
  BY DEF AfterByte, HdmaInv, TypeOK
<1>2. PointerFollows'
  BY PointersRight, PointersRightNext DEF AfterByte, HdmaInv
<1>3. DMAHasBytes'
  <2>1. left \in Nat
    BY HdmaAssumption DEF HdmaInv, TypeOK
  <2> QED
    BY <2>1 DEF AfterByte, DMAHasBytes
<1> QED
  BY <1>1, <1>2, <1>3 DEF HdmaInv

\* A write to a register of channel d: what it leaves to show is that the
\* registers are registers, and the pointer right unless it is known astray.
LEMMA WriteInv ==
    ASSUME HdmaInv, NEW d \in Channels, Write(d), NEW changed,
           ch' = [ch EXCEPT ![d] = changed],
           changed \in Registers(1..Flag),
           astray' \subseteq Channels,
           \A e \in Channels \ {d} : e \in astray => e \in astray',
           d \notin astray' => PointerRight(changed)
    PROVE  HdmaInv'
<1>1. ch' \in [Channels -> Registers(1..Flag)] /\ PointerFollows'
  BY ChannelChanged
<1>2. writes' \in 0..MaxWrites
  BY HdmaAssumption DEF Write, HdmaInv, TypeOK
<1>3. TypeOK'
  BY <1>1, <1>2 DEF Write, HdmaInv, TypeOK
<1> QED
  BY <1>1, <1>3 DEF Write, HdmaInv, DMAHasBytes

LEMMA WriteDMAPInv ==
    ASSUME HdmaInv, NEW d \in Channels, NEW i \in BOOLEAN, NEW n \in Sizes, WriteDMAP(d, i, n)
    PROVE  HdmaInv'
<1> DEFINE changed == [ch[d] EXCEPT !.indirect = i, !.size = n]
<1>1. ch[d] \in Registers(1..Flag) /\ astray \subseteq Channels
  BY DEF HdmaInv, TypeOK
<1>2. Write(d) /\ ch' = [ch EXCEPT ![d] = changed]
  BY DEF WriteDMAP, HdmaInv, TypeOK, Registers
<1>3. astray' = IF ch[d].ptr # NULL /\ i # ch[d].indirect THEN astray \cup {d} ELSE astray
  BY DEF WriteDMAP
<1>4. changed \in Registers(1..Flag)
  BY <1>1 DEF Registers
<1>5. /\ changed.ptr = ch[d].ptr /\ changed.indirect = i
      /\ changed.iaddr = ch[d].iaddr /\ changed.address = ch[d].address
  BY <1>1 DEF Registers
<1>6. d \notin astray' => PointerRight(changed)
  BY <1>1, <1>3, <1>5, PointersRight DEF PointerRight, Source, HdmaInv
<1> HIDE DEF changed
<1> QED
  BY <1>1, <1>2, <1>3, <1>4, <1>6, WriteInv

LEMMA WriteA1TInv ==
    ASSUME HdmaInv, NEW d \in Channels, NEW a \in Starts, WriteA1T(d, a)
    PROVE  HdmaInv'
<1> DEFINE changed == [ch[d] EXCEPT !.start = a]
<1>1. ch[d] \in Registers(1..Flag) /\ astray \subseteq Channels /\ a \in Place
  BY HdmaAssumption DEF HdmaInv, TypeOK, Place
<1>2. Write(d) /\ ch' = [ch EXCEPT ![d] = changed] /\ astray' = astray
  BY DEF WriteA1T
<1>3. changed \in Registers(1..Flag) /\ changed.ptr = ch[d].ptr /\ Source(changed) = Source(ch[d])
  BY <1>1 DEF Registers, Source
<1>4. d \notin astray' => PointerRight(changed)
  BY <1>2, <1>3, PointersRight DEF PointerRight, HdmaInv
<1> HIDE DEF changed
<1> QED
  BY <1>1, <1>2, <1>3, <1>4, WriteInv

LEMMA WriteDASInv ==
    ASSUME HdmaInv, NEW d \in Channels, NEW w \in Words, WriteDAS(d, w)
    PROVE  HdmaInv'
<1> DEFINE changed == [ch[d] EXCEPT !.iaddr = w, !.ptr = NULL]
<1>1. ch[d] \in Registers(1..Flag) /\ astray \subseteq Channels /\ w \in Place
  BY HdmaAssumption DEF HdmaInv, TypeOK, Place
<1>2. Write(d) /\ ch' = [ch EXCEPT ![d] = changed] /\ astray' = astray \ {d}
  BY DEF WriteDAS
<1>3. changed \in Registers(1..Flag) /\ PointerRight(changed)
  BY <1>1 DEF Registers, PointerRight
<1> HIDE DEF changed
<1> QED
  BY <1>1, <1>2, <1>3, WriteInv

LEMMA WriteA2AInv ==
    ASSUME HdmaInv, NEW d \in Channels, NEW a \in Addresses, WriteA2A(d, a)
    PROVE  HdmaInv'
<1> DEFINE changed == [ch[d] EXCEPT !.address = a, !.ptr = NULL]
<1>1. ch[d] \in Registers(1..Flag) /\ astray \subseteq Channels /\ a \in Place
  BY HdmaAssumption DEF HdmaInv, TypeOK, Place
<1>2. Write(d) /\ ch' = [ch EXCEPT ![d] = changed] /\ astray' = astray \ {d}
  BY DEF WriteA2A
<1>3. changed \in Registers(1..Flag) /\ PointerRight(changed)
  BY <1>1 DEF Registers, PointerRight
<1> HIDE DEF changed
<1> QED
  BY <1>1, <1>2, <1>3, WriteInv

LEMMA WriteNLTRInv ==
    ASSUME HdmaInv, NEW d \in Channels, NEW n \in Counts, WriteNLTR(d, n)
    PROVE  HdmaInv'
<1> DEFINE lines == IF n % Flag = 0 THEN Flag ELSE n % Flag
           each == IF n % Flag = 0 THEN n # 0 ELSE n < Flag
           changed == [ch[d] EXCEPT !.count = lines, !.repeat = each]
<1>1. ch[d] \in Registers(1..Flag) /\ astray \subseteq Channels
  BY DEF HdmaInv, TypeOK
<1>2. Write(d) /\ ch' = [ch EXCEPT ![d] = changed] /\ astray' = astray
  BY DEF WriteNLTR
<1>3. lines \in 1..Flag
  <2>1. n \in Nat /\ Flag \in Nat \ {0}
    BY HdmaAssumption
  <2>2. n % Flag \in 0..(Flag - 1)
    BY <2>1, DivMod
  <2> QED
    BY <2>1, <2>2
<1>4. each \in BOOLEAN
  <2>1. (n # 0) \in BOOLEAN /\ (n < Flag) \in BOOLEAN
    OBVIOUS
  <2> QED
    BY <2>1, Zenon
<1> HIDE DEF lines, each
<1>5. /\ changed \in Registers(1..Flag) /\ changed.ptr = ch[d].ptr
      /\ Source(changed) = Source(ch[d])
  BY <1>1, <1>3, <1>4 DEF Registers, Source
<1>6. d \notin astray' => PointerRight(changed)
  BY <1>2, <1>5, PointersRight DEF PointerRight, HdmaInv
<1> HIDE DEF changed
<1> QED
  BY <1>1, <1>2, <1>5, <1>6, WriteInv

LEMMA WriteHDMAENInv ==
    ASSUME HdmaInv, NEW s \in SUBSET Channels, WriteHDMAEN(s)
    PROVE  HdmaInv'
<1>1. writes' \in 0..MaxWrites
  BY HdmaAssumption DEF WriteHDMAEN, HdmaInv, TypeOK
<1>2. TypeOK'
  BY <1>1 DEF WriteHDMAEN, HdmaInv, TypeOK
<1>3. PointerFollows'
  BY PointersRight, PointersRightNext DEF WriteHDMAEN, HdmaInv
<1> QED
  BY <1>2, <1>3 DEF WriteHDMAEN, HdmaInv, DMAHasBytes

LEMMA StepHdmaInv == HdmaInv /\ [Next]_vars => HdmaInv'
<1> SUFFICES ASSUME HdmaInv, [Next]_vars PROVE HdmaInv'
  OBVIOUS
<1>1. CASE S9xStartHDMA
  BY <1>1, StartHDMAInv
<1>2. CASE S9xDoHDMA
  BY <1>2, DoHDMAInv
<1>3. CASE IdleLine
  BY <1>3, IdleLineInv
<1>4. CASE DMAByte
  BY <1>4, DMAByteInv
<1>5. CASE AfterByte
  BY <1>5, AfterByteInv
<1>6. CASE \E d \in Channels : StartDMA(d)
  BY <1>6, StartDMAInv
<1>7. CASE \E d \in Channels, i \in BOOLEAN, n \in Sizes : WriteDMAP(d, i, n)
  BY <1>7, WriteDMAPInv
<1>8. CASE \E d \in Channels, a \in Starts : WriteA1T(d, a)
  BY <1>8, WriteA1TInv
<1>9. CASE \E d \in Channels, w \in Words : WriteDAS(d, w)
  BY <1>9, WriteDASInv
<1>10. CASE \E d \in Channels, a \in Addresses : WriteA2A(d, a)
  BY <1>10, WriteA2AInv
<1>11. CASE \E d \in Channels, n \in Counts : WriteNLTR(d, n)
  BY <1>11, WriteNLTRInv
<1>12. CASE \E s \in SUBSET Channels : WriteHDMAEN(s)
  BY <1>12, WriteHDMAENInv
<1>13. CASE UNCHANGED vars
  <2>1. TypeOK' /\ DMAHasBytes'
    BY <1>13 DEF vars, HdmaInv, TypeOK, DMAHasBytes
  <2>2. PointerFollows'
    BY <1>13, PointersRight, PointersRightNext DEF vars, HdmaInv
  <2> QED
    BY <2>1, <2>2 DEF HdmaInv
<1> QED
  BY <1>1, <1>2, <1>3, <1>4, <1>5, <1>6, <1>7, <1>8, <1>9, <1>10, <1>11, <1>12, <1>13
  DEF Next

THEOREM HdmaInvariant == Spec => []HdmaInv
<1>1. Init => HdmaInv
  BY InitHdmaInv
<1>2. HdmaInv /\ [Next]_vars => HdmaInv'
  BY StepHdmaInv
<1> QED
  BY <1>1, <1>2, PTL DEF Spec

\* The registers keep their widths, no count of lines is zero, and no channel is
\* active after its table ended: whatever tables, writes and DMAs there are.
THEOREM TypeCorrect == Spec => []TypeOK
<1>1. HdmaInv => TypeOK
  BY DEF HdmaInv
<1> QED
  BY <1>1, HdmaInvariant, PTL

\* The pointer of a channel that neither a write to $43x0 nor a DMA moved under
\* it points at the byte the registers address, for every size of block and
\* bank, since a line whose bytes end a block gives it up.
THEOREM PointerFollowsInv == Spec => []PointerFollows
<1>1. HdmaInv => PointerFollows
  BY DEF HdmaInv
<1> QED
  BY <1>1, HdmaInvariant, PTL

-----------------------------------------------------------------------------
(* A DMA and the HDMA of its channel.                                       *)

\* Where the register of the channel in DMA does not count its bytes, an HDMA
\* of that channel has loaded it since the last byte, and will end the DMA, or
\* has ended its own table. hdmaen does not change during a DMA, so that the
\* next frame reads that channel's table again.
Overtaken == dma \in hdmaen /\ (dma \in ended \/ dma \in ran)

Counting ==
    /\ hdma \subseteq hdmaen
    /\ dma = None => ~moved
    /\ ~moved => ran = {}
    /\ dma # None => ch[dma].iaddr = left % Space \/ Overtaken
    /\ hdma # {} => ran \subseteq hdma \cup ended

\* What is left of an address in the bank, and of one in the next.
LEMMA Wrapped ==
    ASSUME NEW a \in Nat, a < Space
    PROVE  a % Space = a /\ (a + Space) % Space = a
<1>1. Space \in Nat \ {0} /\ Space * 0 = 0 /\ Space * 1 = Space
  BY HdmaAssumption
<1>2. ASSUME NEW q \in {0, 1}, NEW b \in Nat, b = Space * q + a
      PROVE  b % Space = a
  <2>1. b \div Space = q
    BY <1>1, <1>2, Quotient
  <2>2. PICK r \in 0..(Space - 1) : r = b % Space
    BY <1>1, DivMod
  <2>3. PICK p \in Nat : p = b \div Space
    BY <1>1, DivMod
  <2>4. b = Space * p + r
    BY <1>1, <2>2, <2>3, DivMod
  <2>5. b = Space * q + r
    BY <2>1, <2>3, <2>4
  <2>6. Space * q \in Nat
    BY <1>1
  <2> QED
    BY <1>1, <1>2, <2>2, <2>5, <2>6
<1>3. a % Space = a
  BY <1>1, <1>2
<1>4. PICK b \in Nat : b = a + Space
  BY <1>1
<1>5. b % Space = a
  BY <1>1, <1>2, <1>4
<1> QED
  BY <1>3, <1>4, <1>5

\* One byte less, in the register and in the count.
LEMMA OneLess ==
    ASSUME NEW l \in 1..Space
    PROVE  Add(l % Space, Space - 1) = (l - 1) % Space
<1>1. Space \in Nat \ {0} /\ l - 1 \in Nat /\ l - 1 < Space
  BY HdmaAssumption
<1>2. (l - 1) % Space = l - 1
  BY <1>1, Wrapped
<1>3. CASE l = Space
  <2>1. (0 + Space) % Space = 0
    BY <1>1, Wrapped
  <2>2. l % Space = 0
    BY <1>1, <1>3, <2>1
  <2>3. Add(l % Space, Space - 1) = (l - 1) % Space
    BY <1>1, <1>3, <2>2 DEF Add
  <2> QED
    BY <2>3
<1>4. CASE l < Space
  <2>1. l % Space = l
    BY <1>1, <1>4, Wrapped
  <2>2. l + (Space - 1) = (l - 1) + Space
    BY <1>1
  <2>3. ((l - 1) + Space) % Space = l - 1
    BY <1>1, Wrapped
  <2> QED
    BY <1>2, <2>1, <2>2, <2>3 DEF Add
<1> QED
  BY <1>1, <1>3, <1>4

LEMMA StartHDMACounts == HdmaInv /\ Counting /\ S9xStartHDMA => Counting'
<1> SUFFICES ASSUME HdmaInv, Counting, S9xStartHDMA PROVE Counting'
  OBVIOUS
<1>1. PICK over \in SUBSET hdmaen :
        hdma' = hdmaen \ over /\ ended' = over /\ ran' = InDMA(hdmaen \ over)
  BY DEF S9xStartHDMA
<1>2. /\ UNCHANGED <<hdmaen, dma, left, moved>>
      /\ dma = None \/ moved
  BY DEF S9xStartHDMA, Quiet
<1>3. ASSUME dma # None, dma \notin hdmaen
      PROVE  ch'[dma].iaddr = left' % Space
  <2>1. dma \in Channels /\ ch[dma] \in Registers(1..Flag)
    BY <1>3 DEF HdmaInv, TypeOK
  <2>2. ch'[dma] = [ch[dma] EXCEPT !.go = FALSE]
    BY <1>3, <2>1 DEF S9xStartHDMA
  <2>3. ch'[dma].iaddr = ch[dma].iaddr
    BY <2>1, <2>2 DEF Registers
  <2> QED
    BY <1>2, <1>3, <2>3 DEF Counting, Overtaken
<1>4. dma # None /\ dma \in hdmaen => dma \in ended' \/ dma \in ran'
  BY <1>1 DEF InDMA
<1> QED
  BY <1>1, <1>2, <1>3, <1>4 DEF Counting, Overtaken, InDMA

LEMMA DoHDMACounts == HdmaInv /\ Counting /\ S9xDoHDMA => Counting'
<1> SUFFICES ASSUME HdmaInv, Counting, S9xDoHDMA PROVE Counting'
  OBVIOUS
<1>1. PICK over \in SUBSET hdma :
        hdma' = StillActive(hdma \ over) /\ ended' = ended \cup over
  BY DEF S9xDoHDMA
<1>2. /\ ran' = InDMA(hdma) /\ hdma # {}
      /\ UNCHANGED <<hdmaen, dma, left, moved>>
      /\ dma = None \/ moved
  BY DEF S9xDoHDMA, Quiet
<1>3. ASSUME dma # None, dma \notin hdma
      PROVE  ch'[dma].iaddr = left' % Space \/ Overtaken'
  <2>1. dma \in Channels
    BY <1>3 DEF HdmaInv, TypeOK
  <2>2. ch'[dma] = ch[dma]
    BY <1>3, <2>1 DEF S9xDoHDMA
  <2> QED
    BY <1>1, <1>2, <1>3, <2>2 DEF Counting, Overtaken
<1>4. dma # None /\ dma \in hdma => Overtaken'
  BY <1>2 DEF Counting, Overtaken, InDMA
<1> QED
  BY <1>1, <1>2, <1>3, <1>4 DEF Counting, InDMA, StillActive

LEMMA DMAByteCounts == HdmaInv /\ Counting /\ DMAByte => Counting'
<1> SUFFICES ASSUME HdmaInv, Counting, DMAByte PROVE Counting'
  OBVIOUS
<1>1. /\ dma # None /\ ~moved /\ left' = left - 1 /\ moved'
      /\ UNCHANGED <<hdma, ended, hdmaen, dma, ran>>
      /\ dma \in Channels /\ ch[dma] \in Registers(1..Flag) /\ left \in 1..Space
  BY HdmaAssumption DEF DMAByte, HdmaInv, TypeOK, DMAHasBytes
<1>2. ch'[dma].iaddr = Add(ch[dma].iaddr, Space - 1)
  BY <1>1 DEF DMAByte, HdmaInv, TypeOK, Registers
<1>3. ch[dma].iaddr = left % Space => ch'[dma].iaddr = left' % Space
  BY <1>1, <1>2, OneLess
<1> QED
  BY <1>1, <1>3 DEF Counting, Overtaken

LEMMA StartDMACounts ==
    ASSUME HdmaInv, Counting, NEW d \in Channels, StartDMA(d)
    PROVE  Counting'
<1>1. ch[d].iaddr \in 0..(Space - 1) /\ Space \in Nat \ {0}
  BY HdmaAssumption DEF HdmaInv, TypeOK, Registers, Place
<1>2. ch[d].iaddr = left' % Space
  <2>1. left' = IF ch[d].iaddr = 0 THEN Space ELSE ch[d].iaddr
    BY DEF StartDMA
  <2>2. PICK a \in 0..(Space - 1) : a = ch[d].iaddr
    BY <1>1
  <2>3. a % Space = a /\ (0 + Space) % Space = 0
    BY <1>1, Wrapped
  <2>4. Space % Space = 0
    BY <1>1, <2>3
  <2> QED
    BY <2>1, <2>2, <2>3, <2>4
<1>3. dma' = d /\ UNCHANGED <<ch, hdma, ended, hdmaen, moved, ran>> /\ dma = None
  BY DEF StartDMA
<1>4. d # None
  BY HdmaAssumption DEF None
<1> QED
  BY <1>2, <1>3, <1>4 DEF Counting

\* The registers are written while there is no DMA.
LEMMA WriteCounts ==
    ASSUME HdmaInv, Counting, dma = None,
           hdma' \subseteq hdmaen', UNCHANGED <<dma, moved, ran>>
    PROVE  Counting'
BY DEF Counting

LEMMA StepCounts == HdmaInv /\ Counting /\ [Next]_vars => Counting'
<1> SUFFICES ASSUME HdmaInv, Counting, [Next]_vars PROVE Counting'
  OBVIOUS
<1>1. CASE S9xStartHDMA
  BY <1>1, StartHDMACounts
<1>2. CASE S9xDoHDMA
  BY <1>2, DoHDMACounts
<1>3. CASE IdleLine
  BY <1>3 DEF IdleLine, StillActive, Counting, Overtaken
<1>4. CASE DMAByte
  BY <1>4, DMAByteCounts
<1>5. CASE AfterByte
  BY <1>5 DEF AfterByte, Counting, Overtaken
<1>6. CASE \E d \in Channels : StartDMA(d)
  BY <1>6, StartDMACounts
<1>7. CASE \E d \in Channels :
             \/ \E i \in BOOLEAN, n \in Sizes : WriteDMAP(d, i, n)
             \/ \E a \in Starts : WriteA1T(d, a)
             \/ \E w \in Words : WriteDAS(d, w)
             \/ \E a \in Addresses : WriteA2A(d, a)
             \/ \E n \in Counts : WriteNLTR(d, n)
  <2>1. PICK d \in Channels : Write(d)
    BY <1>7 DEF WriteDMAP, WriteA1T, WriteDAS, WriteA2A, WriteNLTR
  <2> QED
    BY <2>1, WriteCounts DEF Write, Counting
<1>8. CASE \E s \in SUBSET Channels : WriteHDMAEN(s)
  BY <1>8, WriteCounts DEF WriteHDMAEN
<1>9. CASE UNCHANGED vars
  BY <1>9 DEF vars, Counting, Overtaken
<1> QED
  BY <1>1, <1>2, <1>3, <1>4, <1>5, <1>6, <1>7, <1>8, <1>9 DEF Next

\* While a DMA goes on, its channel's register counts its bytes, unless that
\* channel's table has ended: whatever HDMA runs between them, for every bank,
\* because addCyclesInDMA ends the DMA of a channel in HDMARanInDMA.
THEOREM DMAAloneInv == Spec => []DMAAlone
<1>1. Init => Counting
  BY DEF Init, Counting
<1>2. HdmaInv /\ Counting /\ [Next]_vars => Counting'
  BY StepCounts
<1>3. Counting => DMAAlone
  BY DEF Counting, Overtaken, DMAAlone
<1>4. Spec => []HdmaInv
  BY HdmaInvariant
<1> QED
  BY <1>1, <1>2, <1>3, <1>4, PTL DEF Spec
-----------------------------------------------------------------------------
(* The table of a channel, read a line at a time. Reading is a recursive    *)
(* function: that there is a function that its equation defines, and what it *)
(* is at each line, is shown by induction. A set that holds 0 and with every *)
(* number the next holds them all: else to take 1 off would map the missing  *)
(* numbers up to the greatest one into themselves, one to one and not onto.  *)

LEMMA NatSetInduction ==
    ASSUME NEW S, 0 \in S, \A n \in Nat : n \in S => n + 1 \in S
    PROVE  Nat \subseteq S
<1>1. SUFFICES ASSUME NEW x \in Nat, x \notin S PROVE FALSE
  OBVIOUS
<1> DEFINE B == {n \in 0 .. x : n \notin S}
           f == [n \in B |-> n - 1]
<1>2. IsFiniteSet(B)
  <2>1. IsFiniteSet(0 .. x) /\ B \in SUBSET (0 .. x)
    BY FS_Interval
  <2> HIDE DEF B
  <2> QED
    BY <2>1, FS_Subset
<1>3. x \in B /\ B \subseteq 0 .. x
  BY <1>1
<1>4. \A n \in B : n - 1 \in B
  <2>1. TAKE n \in B
  <2>2. n # 0 /\ n - 1 \in Nat /\ n - 1 + 1 = n
    OBVIOUS
  <2>3. n - 1 \notin S
    BY <2>2
  <2> QED
    BY <2>2, <2>3
<1>5. f \in Injection(B, B)
  <2> HIDE DEF B
  <2> QED
    BY <1>3, <1>4 DEF Injection, IsInjective
<1>6. f \in Surjection(B, B)
  <2> HIDE DEF B, f
  <2> QED
    BY <1>2, <1>5, FS_Injection
<1>7. PICK n \in B : f[n] = x
  <2> HIDE DEF B, f
  <2> QED
    BY <1>3, <1>6 DEF Surjection
<1> HIDE DEF B
<1> QED
  BY <1>3, <1>7

\* A function repeated from a first value.
CanIterate(S, first, step, last) ==
    \E g \in [0 .. last -> S] : g[0] = first /\ \A n \in 1 .. last : g[n] = step[g[n - 1]]

LEMMA Iterated ==
    ASSUME NEW S, NEW first \in S, NEW step \in [S -> S], NEW last \in Nat
    PROVE  CanIterate(S, first, step, last)
<1> DEFINE Up(g, m) == /\ g \in [0 .. m -> S] /\ g[0] = first
                       /\ \A n \in 1 .. m : g[n] = step[g[n - 1]]
           T == {m \in Nat : \E g \in [0 .. m -> S] : Up(g, m)}
<1>1. 0 \in T
  <2> DEFINE g0 == [n \in 0 .. 0 |-> first]
  <2>1. g0 \in [0 .. 0 -> S] /\ g0[0] = first
    OBVIOUS
  <2>2. \A n \in 1 .. 0 : g0[n] = step[g0[n - 1]]
    OBVIOUS
  <2> HIDE DEF g0
  <2>3. Up(g0, 0)
    BY <2>1, <2>2
  <2> QED
    BY <2>1, <2>3
<1>2. ASSUME NEW m \in Nat, m \in T
      PROVE  m + 1 \in T
  <2>1. PICK g \in [0 .. m -> S] : Up(g, m)
    BY <1>2
  <2> DEFINE h == [n \in 0 .. (m + 1) |-> IF n = m + 1 THEN step[g[m]] ELSE g[n]]
  <2>2. h \in [0 .. (m + 1) -> S]
    BY <2>1
  <2>3. h[0] = first
    BY <2>1
  <2>4. ASSUME NEW n \in 1 .. (m + 1)
        PROVE  h[n] = step[h[n - 1]]
    <3>1. n - 1 \in 0 .. m /\ n - 1 # m + 1
      OBVIOUS
    <3>2. h[n - 1] = g[n - 1]
      BY <3>1
    <3>3. CASE n = m + 1
      <4>1. h[n] = step[g[m]] /\ n - 1 = m
        BY <3>3
      <4> QED
        BY <3>2, <4>1
    <3>4. CASE n # m + 1
      <4>1. n \in 1 .. m
        BY <3>4
      <4> QED
        BY <2>1, <3>2, <3>4, <4>1
    <3> QED
      BY <3>3, <3>4
  <2> HIDE DEF h
  <2> QED
    BY <2>2, <2>3, <2>4
<1> HIDE DEF T
<1>3. last \in T
  BY <1>1, <1>2, NatSetInduction
<1> QED
  BY <1>3 DEF T, CanIterate

\* Reading, of any memory t and any start, kind and size of entries.
ByteOf(t, a) == IF a < TableLength THEN t[a + 1] ELSE 0
LinesOf(t, a) == IF ByteOf(t, a) % Flag = 0 THEN Flag ELSE ByteOf(t, a) % Flag
LengthOf(t, a, indirect, size) ==
    IF indirect THEN 3 ELSE 1 + size * (IF ByteOf(t, a) > Flag THEN LinesOf(t, a) ELSE 1)

NextRead(t, r, indirect, size) ==
    IF ByteOf(t, r.entry) = 0 THEN r
    ELSE IF r.line + 1 < LinesOf(t, r.entry) THEN [r EXCEPT !.line = @ + 1]
    ELSE [entry |-> Add(r.entry, LengthOf(t, r.entry, indirect, size)), line |-> 0]

ReadingOf(t, start, indirect, size) ==
    LET at[n \in 0..ScreenHeight] ==
          IF n = 0 THEN [entry |-> start, line |-> 0]
          ELSE NextRead(t, at[n - 1], indirect, size)
    IN  at

LEMMA ReadingIs ==
    \A d : Reading(d) = ReadingOf(table, ch[d].start, ch[d].indirect, ch[d].size)
BY DEF Reading, ReadingOf, NextRead, ByteOf, LinesOf, LengthOf,
       S9xGetByte, Lines, Each, EntryLength

LEMMA ReadingIsNext ==
    \A d : Reading(d)' = ReadingOf(table', ch'[d].start, ch'[d].indirect, ch'[d].size)
BY DEF Reading, ReadingOf, NextRead, ByteOf, LinesOf, LengthOf,
       S9xGetByte, Lines, Each, EntryLength

Reads == [entry : Place, line : Nat]

LEMMA ReadingStep ==
    ASSUME NEW t \in [1..TableLength -> Bytes], NEW start \in Place,
           NEW indirect \in BOOLEAN, NEW size \in Sizes
    PROVE  LET r == ReadingOf(t, start, indirect, size)
           IN  /\ r \in [0..ScreenHeight -> Reads]
               /\ r[0] = [entry |-> start, line |-> 0]
               /\ \A n \in 1..ScreenHeight : r[n] = NextRead(t, r[n - 1], indirect, size)
<1> DEFINE first == [entry |-> start, line |-> 0]
           step == [r \in Reads |-> NextRead(t, r, indirect, size)]
           Eq(at) == at = [n \in 0..ScreenHeight |->
                             IF n = 0 THEN first ELSE NextRead(t, at[n - 1], indirect, size)]
<1>1. ScreenHeight \in Nat
  BY HdmaAssumption
<1>2. first \in Reads
  BY DEF Reads
<1>3. step \in [Reads -> Reads]
  <2>1. ASSUME NEW r \in Reads
        PROVE  NextRead(t, r, indirect, size) \in Reads
    <3>1. r.entry \in Place /\ r.line + 1 \in Nat
      BY DEF Reads
    <3>2. ByteOf(t, r.entry) \in Nat
      <4>1. r.entry \in Nat /\ Flag \in Nat /\ TableLength \in Nat
        BY <3>1, HdmaAssumption DEF Place
      <4>2. r.entry < TableLength => t[r.entry + 1] \in Bytes
        BY <4>1
      <4>3. Bytes \subseteq 0..(2 * Flag - 1)
        BY HdmaAssumption
      <4>4. CASE r.entry < TableLength
        <5>1. ByteOf(t, r.entry) = t[r.entry + 1]
          BY <4>4 DEF ByteOf
        <5>2. t[r.entry + 1] \in 0..(2 * Flag - 1)
          BY <4>2, <4>3, <4>4
        <5> QED
          BY <4>1, <5>1, <5>2
      <4>5. CASE ~(r.entry < TableLength)
        BY <4>5 DEF ByteOf
      <4> QED
        BY <4>4, <4>5
    <3>3. LinesOf(t, r.entry) \in Nat
      <4>1. Flag \in Nat \ {0}
        BY HdmaAssumption
      <4>2. ByteOf(t, r.entry) % Flag \in 0..(Flag - 1)
        BY <3>2, <4>1, DivMod
      <4> QED
        BY <4>1, <4>2 DEF LinesOf
    <3>4. LengthOf(t, r.entry, indirect, size) \in Nat
      <4>1. size \in Nat
        BY HdmaAssumption
      <4>2. size * LinesOf(t, r.entry) \in Nat /\ size * 1 \in Nat
        BY <3>3, <4>1
      <4> QED
        BY <4>2 DEF LengthOf
    <3>5. Add(r.entry, LengthOf(t, r.entry, indirect, size)) \in Place
      BY <3>1, <3>4, AddInBank
    <3> QED
      BY <3>1, <3>5 DEF NextRead, Reads
  <2> QED
    BY <2>1
<1>4. PICK g \in [0..ScreenHeight -> Reads] :
        g[0] = first /\ \A n \in 1..ScreenHeight : g[n] = step[g[n - 1]]
  <2> HIDE DEF first, step
  <2>1. CanIterate(Reads, first, step, ScreenHeight)
    BY <1>1, <1>2, <1>3, Iterated
  <2> QED
    BY <2>1 DEF CanIterate
<1>5. Eq(g)
  <2>1. ASSUME NEW n \in 0..ScreenHeight, n # 0
        PROVE  g[n] = NextRead(t, g[n - 1], indirect, size)
    <3>1. n \in 1..ScreenHeight /\ n - 1 \in 0..ScreenHeight
      BY <1>1, <2>1
    <3> QED
      BY <1>4, <3>1
  <2> HIDE DEF first, step
  <2> QED
    BY <1>4, <2>1
<1> DEFINE at == ReadingOf(t, start, indirect, size)
<1>6. at = CHOOSE h : Eq(h)
  BY DEF ReadingOf
<1>7. Eq(at)
  <2> HIDE DEF Eq, at
  <2> QED
    BY <1>5, <1>6
<1> HIDE DEF at
<1>8. /\ at[0] = first
      /\ \A n \in 1..ScreenHeight : at[n] = NextRead(t, at[n - 1], indirect, size)
  BY <1>1, <1>7
<1>9. \A n \in 0..ScreenHeight : at[n] \in Reads
  <2> DEFINE T == {n \in Nat : n <= ScreenHeight => at[n] \in Reads}
  <2>1. 0 \in T
    BY <1>2, <1>8
  <2>2. ASSUME NEW n \in Nat, n \in T
        PROVE  n + 1 \in T
    <3>1. CASE n + 1 <= ScreenHeight
      <4>1. n + 1 \in 1..ScreenHeight /\ n + 1 - 1 = n /\ n <= ScreenHeight
        BY <1>1, <3>1
      <4>2. at[n + 1] = NextRead(t, at[n], indirect, size)
        BY <1>8, <4>1
      <4>3. at[n + 1] = step[at[n]]
        BY <2>2, <4>1, <4>2
      <4> QED
        BY <1>3, <2>2, <4>1, <4>3
    <3> QED
      BY <3>1
  <2> HIDE DEF T
  <2>3. Nat \subseteq T
    BY <2>1, <2>2, NatSetInduction
  <2> QED
    BY <1>1, <2>3 DEF T
<1>10. at \in [0..ScreenHeight -> Reads]
  BY <1>7, <1>9
<1> QED
  BY <1>8, <1>10 DEF at

-----------------------------------------------------------------------------
(* A channel that is left alone is where its table says.                    *)

WordOf(t, a) == (ByteOf(t, a) + 2 * Flag * ByteOf(t, Add(a, 1))) % Space

EachOf(t, a) == ByteOf(t, a) > Flag

\* The bytes of the entry moved before the line of r.
DoneOf(t, r, size) ==
    IF EachOf(t, r.entry) THEN r.line * size ELSE IF r.line = 0 THEN 0 ELSE size

OnLine(t, c, r) ==
    /\ r.line < LinesOf(t, r.entry)
    /\ c.count = LinesOf(t, r.entry) - r.line
    /\ c.repeat <=> ~EachOf(t, r.entry)
    /\ c.go <=> r.line = 0 \/ EachOf(t, r.entry)
    /\ c.address = Add(Add(r.entry, 1), IF c.indirect THEN 2 ELSE DoneOf(t, r, c.size))
    /\ c.indirect => c.iaddr = Add(WordOf(t, Add(r.entry, 1)), DoneOf(t, r, c.size))

LEMMA AddTwice ==
    ASSUME NEW a \in Place, NEW m \in Nat, NEW n \in Nat
    PROVE  Add(Add(a, m), n) = Add(a, m + n)
<1>1. Space \in Nat \ {0} /\ a \in Nat
  BY HdmaAssumption DEF Place
<1>2. PICK x \in Nat : x = a + m
  BY <1>1
<1>3. PICK q \in Nat, r \in 0..(Space - 1) : x = Space * q + r /\ r = x % Space
  <2>1. x \div Space \in Nat /\ x % Space \in 0..(Space - 1)
        /\ x = Space * (x \div Space) + (x % Space)
    BY <1>1, DivMod
  <2> QED
    BY <2>1
<1>4. PICK y \in Nat : y = r + n
  BY <1>1
<1>5. PICK p \in Nat, s \in 0..(Space - 1) : y = Space * p + s /\ s = y % Space
  <2>1. y \div Space \in Nat /\ y % Space \in 0..(Space - 1)
        /\ y = Space * (y \div Space) + (y % Space)
    BY <1>1, DivMod
  <2> QED
    BY <2>1
<1>6. PICK z \in Nat : z = a + (m + n)
  BY <1>1
<1>7. PICK k \in Nat : k = q + p
  OBVIOUS
<1>8. Space * k = Space * q + Space * p /\ Space * k \in Nat
      /\ Space * q \in Nat /\ Space * p \in Nat
  BY <1>1, <1>7
<1>9. z = Space * k + s
  BY <1>1, <1>2, <1>3, <1>4, <1>5, <1>6, <1>8
<1>10. z \div Space = k
  <2>1. Space * k <= z /\ z < Space * k + Space
    BY <1>1, <1>5, <1>8, <1>9
  <2> QED
    BY <1>1, <2>1, Quotient
<1>11. z % Space = s
  <2>1. z = Space * (z \div Space) + (z % Space) /\ z % Space \in Int
    BY <1>1, DivMod
  <2>2. z = Space * k + (z % Space)
    BY <1>10, <2>1
  <2> QED
    BY <1>5, <1>8, <1>9, <2>1, <2>2
<1> QED
  BY <1>2, <1>3, <1>4, <1>5, <1>6, <1>11 DEF Add

LEMMA AddNothing ==
    ASSUME NEW a \in Place
    PROVE  Add(a, 0) = a
<1>1. Space \in Nat \ {0} /\ a \in 0..(Space - 1)
  BY HdmaAssumption DEF Place
<1>2. a \div Space = 0
  BY <1>1, Quotient
<1>3. a = Space * (a \div Space) + (a % Space)
  BY <1>1, DivMod
<1>4. a % Space = a
  BY <1>1, <1>2, <1>3
<1> QED
  BY <1>1, <1>4 DEF Add

LEMMA SameBytes ==
    /\ \A a : S9xGetByte(a) = ByteOf(table, a)
    /\ \A a : S9xGetWord(a) = WordOf(table, a)
BY DEF S9xGetByte, S9xGetWord, ByteOf, WordOf

\* HDMAReadLineCount puts a channel on the first line of the entry.
LEMMA Begins ==
    ASSUME Memory, NEW c \in Registers(0..Flag), NEW more, ByteOf(table, c.address) # 0
    PROVE  LET n == ReadLineCount(c, more)
           IN  /\ n.start = c.start /\ n.indirect = c.indirect /\ n.size = c.size
               /\ OnLine(table, n, [entry |-> c.address, line |-> 0])
<1> DEFINE n == ReadLineCount(c, more)
           a == Add(c.address, 1)
           r == [entry |-> c.address, line |-> 0]
<1>1. c.address \in Place /\ c.size \in Nat /\ c.indirect \in BOOLEAN
  BY HdmaAssumption DEF Registers
<1>2. a \in Place
  BY <1>1, AddInBank
<1>3. n = [c EXCEPT !.repeat = ByteOf(table, c.address) <= Flag,
                    !.count = LinesOf(table, c.address),
                    !.go = TRUE,
                    !.iaddr = IF c.indirect THEN WordOf(table, a) ELSE c.iaddr,
                    !.address = IF c.indirect THEN Add(a, 2) ELSE a,
                    !.ptr = S9xGetMemPointer(IF c.indirect THEN WordOf(table, a) ELSE a)]
  BY SameBytes DEF ReadLineCount, LinesOf
<1>4. /\ n.start = c.start /\ n.indirect = c.indirect /\ n.size = c.size
      /\ n.repeat = (ByteOf(table, c.address) <= Flag)
      /\ n.count = LinesOf(table, c.address) /\ n.go = TRUE
      /\ n.iaddr = IF c.indirect THEN WordOf(table, a) ELSE c.iaddr
      /\ n.address = IF c.indirect THEN Add(a, 2) ELSE a
  BY <1>3 DEF Registers
<1>5. DoneOf(table, r, c.size) = 0
  BY <1>1 DEF DoneOf
<1>6. ByteOf(table, c.address) \in Nat
  BY <1>1, ByteIsByte, SameBytes, HdmaAssumption
<1>7. LinesOf(table, c.address) \in Nat \ {0}
  <2>1. Flag \in Nat \ {0}
    BY HdmaAssumption
  <2>2. ByteOf(table, c.address) % Flag \in 0..(Flag - 1)
    BY <1>6, <2>1, DivMod
  <2> QED
    BY <2>1, <2>2 DEF LinesOf
<1>8. WordOf(table, a) \in Place
  BY <1>2, WordIsPlace, SameBytes
<1>9. Add(a, 0) = a /\ Add(WordOf(table, a), 0) = WordOf(table, a)
  BY <1>2, <1>8, AddNothing
<1> HIDE DEF n, a
<1>10. n.repeat <=> ~EachOf(table, c.address)
  <2>1. Flag \in Nat
    BY HdmaAssumption
  <2>2. ByteOf(table, c.address) <= Flag <=> ~(ByteOf(table, c.address) > Flag)
    BY <1>6, <2>1
  <2> QED
    BY <1>4, <2>2, Zenon DEF EachOf
<1>11. OnLine(table, n, r)
  BY <1>1, <1>4, <1>5, <1>7, <1>9, <1>10 DEF OnLine, a
<1> QED
  BY <1>4, <1>11 DEF n

\* A transfer puts it on the next line of the entry, or has its table read on
\* from the entry's end.
LEMMA GoesOn ==
    ASSUME Memory, NEW c \in Registers(1..Flag), NEW r \in Reads,
           ByteOf(table, r.entry) # 0, OnLine(table, c, r)
    PROVE  LET n == Transferred(c)
           IN  /\ n.start = c.start /\ n.indirect = c.indirect /\ n.size = c.size
               /\ r.line + 1 < LinesOf(table, r.entry) =>
                    n.count # 0 /\ OnLine(table, n, [r EXCEPT !.line = @ + 1])
               /\ ~(r.line + 1 < LinesOf(table, r.entry)) =>
                    /\ n.count = 0
                    /\ n.address = Add(r.entry, LengthOf(table, r.entry, c.indirect, c.size))
<1> DEFINE n == Transferred(c)
           L == LinesOf(table, r.entry)
           each == EachOf(table, r.entry)
           s == [r EXCEPT !.line = @ + 1]
           e == Add(r.entry, 1)
<1>1. /\ c.address \in Place /\ c.iaddr \in Place /\ c.size \in Nat \ {0}
      /\ c.indirect \in BOOLEAN /\ c.go \in BOOLEAN /\ c.repeat \in BOOLEAN
      /\ c.count \in 1..Flag /\ r.entry \in Place /\ r.line \in Nat /\ Flag \in Nat \ {0}
  BY HdmaAssumption DEF Registers, Reads
<1>2. /\ n.start = c.start /\ n.indirect = c.indirect /\ n.size = c.size
      /\ n.repeat = c.repeat /\ n.count = c.count - 1 /\ n.go = ~c.repeat
      /\ n.iaddr = IF c.go /\ c.indirect THEN Add(c.iaddr, c.size) ELSE c.iaddr
      /\ n.address = IF c.go /\ ~c.indirect THEN Add(c.address, c.size) ELSE c.address
  BY DEF Transferred, Registers
<1>3. /\ r.line < L /\ c.count = L - r.line
      /\ c.repeat <=> ~each
      /\ c.go <=> r.line = 0 \/ each
      /\ c.address = Add(e, IF c.indirect THEN 2 ELSE DoneOf(table, r, c.size))
      /\ c.indirect => c.iaddr = Add(WordOf(table, e), DoneOf(table, r, c.size))
  BY DEF OnLine
<1>4. ByteOf(table, r.entry) \in Nat
  BY <1>1, ByteIsByte, SameBytes
<1>5. L \in Nat \ {0}
  <2>1. ByteOf(table, r.entry) % Flag \in 0..(Flag - 1)
    BY <1>1, <1>4, DivMod
  <2> QED
    BY <1>1, <2>1 DEF LinesOf
<1>6. s.entry = r.entry /\ s.line = r.line + 1
  BY <1>1 DEF Reads
<1>7. e \in Place /\ WordOf(table, e) \in Place
  BY <1>1, AddInBank, WordIsPlace, SameBytes
<1>8. PICK more \in Nat : more = DoneOf(table, r, c.size)
  <2>1. r.line * c.size \in Nat
    BY <1>1
  <2> QED
    BY <1>1, <2>1 DEF DoneOf
<1>9. DoneOf(table, s, c.size) = IF c.go THEN more + c.size ELSE more
  <2>1. (r.line + 1) * c.size = r.line * c.size + c.size
    BY <1>1
  <2> QED
    BY <1>1, <1>3, <1>6, <1>8, <2>1 DEF DoneOf
<1>10. /\ Add(Add(e, more), c.size) = Add(e, more + c.size)
       /\ Add(Add(WordOf(table, e), more), c.size) = Add(WordOf(table, e), more + c.size)
  BY <1>1, <1>7, AddTwice
<1>11. /\ n.address = Add(e, IF n.indirect THEN 2 ELSE DoneOf(table, s, n.size))
       /\ n.indirect => n.iaddr = Add(WordOf(table, e), DoneOf(table, s, n.size))
  <2> HIDE DEF n, s, e
  <2>1. CASE c.go
    BY <1>1, <1>2, <1>3, <1>8, <1>9, <1>10, <2>1
  <2>2. CASE ~c.go
    BY <1>1, <1>2, <1>3, <1>8, <1>9, <2>2
  <2> QED
    BY <1>1, <2>1, <2>2
<1>12. ASSUME r.line + 1 < L
       PROVE  n.count # 0 /\ OnLine(table, n, s)
  <2>1. n.count = L - s.line /\ n.count # 0 /\ s.line < L /\ s.line # 0
    BY <1>1, <1>2, <1>3, <1>5, <1>6, <1>12
  <2>2. n.go <=> s.line = 0 \/ each
    BY <1>2, <1>3, <2>1
  <2> HIDE DEF n, s
  <2> QED
    BY <1>2, <1>3, <1>6, <1>11, <2>1, <2>2 DEF OnLine
<1>13. ASSUME ~(r.line + 1 < L)
       PROVE  /\ n.count = 0
              /\ n.address = Add(r.entry, LengthOf(table, r.entry, c.indirect, c.size))
  <2>1. L = r.line + 1
    BY <1>1, <1>3, <1>5, <1>13
  <2>2. n.count = 0
    BY <1>1, <1>2, <1>3, <2>1
  <2>3. CASE c.indirect
    <3>1. n.address = Add(e, 2)
      BY <1>2, <1>3, <2>3
    <3>2. Add(e, 2) = Add(r.entry, 1 + 2)
      BY <1>1, AddTwice
    <3>3. LengthOf(table, r.entry, c.indirect, c.size) = 3
      BY <2>3 DEF LengthOf
    <3> QED
      BY <2>2, <3>1, <3>2, <3>3
  <2>4. CASE ~c.indirect
    <3>1. n.address = Add(e, DoneOf(table, s, c.size))
      BY <1>2, <1>11, <2>4
    <3>2. DoneOf(table, s, c.size) = c.size * (IF each THEN L ELSE 1)
      <4>1. s.line = L /\ s.entry = r.entry /\ L # 0
        BY <1>5, <1>6, <2>1
      <4>2. L * c.size = c.size * L /\ c.size * 1 = c.size
        BY <1>1, <1>5
      <4> QED
        BY <4>1, <4>2 DEF DoneOf
    <3>3. PICK k \in Nat : k = c.size * (IF each THEN L ELSE 1)
      <4>1. c.size * L \in Nat /\ c.size * 1 \in Nat
        BY <1>1, <1>5
      <4> QED
        BY <4>1
    <3>4. Add(e, k) = Add(r.entry, 1 + k)
      BY <1>1, AddTwice
    <3>5. LengthOf(table, r.entry, c.indirect, c.size) = 1 + k
      BY <2>4, <3>3 DEF LengthOf, EachOf
    <3> QED
      BY <2>2, <3>1, <3>2, <3>3, <3>4, <3>5
  <2> QED
    BY <1>1, <2>3, <2>4
<1> HIDE DEF n, L, s
<1> QED
  BY <1>2, <1>12, <1>13 DEF n, L, s

\* What FollowsTable says of a channel, and all of its registers with it; one
\* whose table is over has ended.
OnTable(d) ==
    LET r == ReadingOf(table, ch[d].start, ch[d].indirect, ch[d].size)[v]
    IN  IF ByteOf(table, r.entry) = 0 THEN d \in ended /\ d \notin hdma
        ELSE d \in hdma /\ OnLine(table, ch[d], r)

OnTables ==
    /\ pc = "init" => v = 0
    /\ pc = "line" /\ v <= ScreenHeight => \A d \in own : OnTable(d)

\* A channel whose registers, place in the frame and activity stay.
LEMMA StaysOnTable ==
    ASSUME NEW d, OnTable(d), UNCHANGED <<table, v, ended>>,
           ch'[d] = ch[d], d \in hdma' <=> d \in hdma
    PROVE  OnTable(d)'
BY DEF OnTable

LEMMA StartHDMAFollows == HdmaInv /\ OnTables /\ S9xStartHDMA => OnTables'
<1> SUFFICES ASSUME HdmaInv, OnTables, S9xStartHDMA PROVE OnTables'
  OBVIOUS
<1> DEFINE started == [d \in Channels |-> [ch[d] EXCEPT !.address = ch[d].start]]
           over == {d \in hdmaen : TableEnds(started[d])}
<1>1. /\ ch' = [d \in Channels |->
                  IF d \in hdmaen THEN ReadLineCount(started[d], Later(hdmaen, d))
                  ELSE [ch[d] EXCEPT !.go = FALSE]]
      /\ hdma' = hdmaen \ over /\ ended' = over /\ own' = hdmaen /\ pc' = "line"
      /\ UNCHANGED <<table, v>> /\ v = 0
  BY DEF S9xStartHDMA, OnTables
<1>2. /\ Memory /\ table \in [1..TableLength -> Bytes]
      /\ ch \in [Channels -> Registers(1..Flag)] /\ hdmaen \subseteq Channels
  BY DEF HdmaInv, TypeOK, Memory
<1>3. ASSUME NEW d \in hdmaen
      PROVE  OnTable(d)'
  <2>1. /\ ch[d] \in Registers(1..Flag) /\ d \in Channels
        /\ started[d] = [ch[d] EXCEPT !.address = ch[d].start]
    BY <1>2
  <2>2. /\ started[d] \in Registers(0..Flag) /\ started[d].address = ch[d].start
        /\ started[d].start = ch[d].start /\ ch[d].start \in Place
        /\ started[d].indirect = ch[d].indirect /\ started[d].size = ch[d].size
        /\ ch[d].indirect \in BOOLEAN /\ ch[d].size \in Sizes
    BY <2>1, HdmaAssumption DEF Registers
  <2>3. d \in over <=> ByteOf(table, ch[d].start) = 0
    BY <2>2, SameBytes DEF TableEnds
  <2> HIDE DEF started, over
  <2>4. ch'[d] = ReadLineCount(started[d], Later(hdmaen, d))
    BY <1>1, <2>1
  <2>5. ReadingOf(table, ch[d].start, ch[d].indirect, ch[d].size)[0]
          = [entry |-> ch[d].start, line |-> 0]
    BY <1>2, <2>2, ReadingStep
  <2>6. /\ ch'[d].start = ch[d].start /\ ch'[d].indirect = ch[d].indirect
        /\ ch'[d].size = ch[d].size
    BY <2>2, <2>4 DEF ReadLineCount, Registers
  <2>7. CASE d \in over
    BY <1>1, <2>3, <2>5, <2>6, <2>7 DEF OnTable
  <2>8. CASE d \notin over
    <3>1. OnLine(table, ch'[d], [entry |-> ch[d].start, line |-> 0])
      BY <1>2, <2>2, <2>3, <2>4, <2>8, Begins
    <3> QED
      BY <1>1, <2>3, <2>5, <2>6, <2>8, <3>1 DEF OnTable
  <2> QED
    BY <2>7, <2>8
<1> QED
  BY <1>1, <1>3 DEF OnTables

LEMMA DoHDMAFollows == HdmaInv /\ OnTables /\ S9xDoHDMA => OnTables'
<1> SUFFICES ASSUME HdmaInv, OnTables, S9xDoHDMA PROVE OnTables'
  OBVIOUS
<1> DEFINE done == [d \in hdma |-> Transferred(ch[d])]
           read == {d \in hdma : done[d].count = 0}
           over == {d \in read : TableEnds(done[d])}
<1>1. ch' = [d \in Channels |->
               IF d \notin hdma THEN ch[d]
               ELSE IF d \notin read THEN done[d]
               ELSE IF d \notin over THEN ReadLineCount(done[d], Later(hdma, d))
               ELSE [ReadLineCount(done[d], Later(hdma, d)) EXCEPT !.go = FALSE]]
  BY DEF S9xDoHDMA
<1>2. /\ hdma' = StillActive(hdma \ over) /\ ended' = ended \cup over
      /\ NextLine /\ pc = "line" /\ v <= ScreenHeight
      /\ UNCHANGED <<table, own>>
  BY DEF S9xDoHDMA
<1>3. /\ Memory /\ table \in [1..TableLength -> Bytes]
      /\ ch \in [Channels -> Registers(1..Flag)] /\ hdma \subseteq Channels
      /\ own \subseteq Channels /\ ScreenHeight \in Nat /\ v \in Nat
  BY HdmaAssumption DEF HdmaInv, TypeOK, Memory
<1>4. v' = v + 1 /\ pc' = "line"
  BY <1>2, <1>3 DEF NextLine
<1>5. ASSUME NEW d \in own, v + 1 <= ScreenHeight
      PROVE  OnTable(d)'
  <2> DEFINE at == ReadingOf(table, ch[d].start, ch[d].indirect, ch[d].size)
             r == at[v]
  <2>1. /\ ch[d] \in Registers(1..Flag) /\ ch[d].start \in Place
        /\ ch[d].indirect \in BOOLEAN /\ ch[d].size \in Sizes /\ d \in Channels
    BY <1>3 DEF Registers
  <2>2. /\ at \in [0..ScreenHeight -> Reads]
        /\ \A n \in 1..ScreenHeight :
             at[n] = NextRead(table, at[n - 1], ch[d].indirect, ch[d].size)
    BY <1>3, <2>1, ReadingStep
  <2>3. PICK n \in 1..ScreenHeight : n = v + 1 /\ n - 1 = v
    BY <1>3, <1>5
  <2>4. r \in Reads /\ at[v + 1] = NextRead(table, r, ch[d].indirect, ch[d].size)
    <3>1. v \in 0..ScreenHeight
      BY <1>3, <1>5
    <3>2. at[n] = NextRead(table, at[n - 1], ch[d].indirect, ch[d].size)
      BY <2>2
    <3> HIDE DEF at
    <3> QED
      BY <2>2, <2>3, <3>1, <3>2
  <2>5. OnTable(d)
    BY <1>2 DEF OnTables
  <2>6. hdma' = hdma \ over
    BY <1>2, <1>3, <1>5 DEF StillActive
  <2> HIDE DEF done, read, over, at
  <2>7. CASE ByteOf(table, r.entry) = 0
    <3>1. d \in ended /\ d \notin hdma /\ at[v + 1] = r
      BY <2>4, <2>5, <2>7 DEF OnTable, NextRead, at
    <3>2. ch'[d] = ch[d] /\ d \in ended' /\ d \notin hdma'
      BY <1>1, <1>2, <2>1, <2>6, <3>1
    <3> QED
      BY <1>2, <1>4, <2>7, <3>1, <3>2 DEF OnTable, at
  <2>8. CASE ByteOf(table, r.entry) # 0
    <3>1. d \in hdma /\ OnLine(table, ch[d], r)
      BY <2>5, <2>8 DEF OnTable, at
    <3>2. done[d] = Transferred(ch[d]) /\ done[d] \in Registers(0..Flag)
      BY <2>1, <3>1, TransferredRight DEF done
    <3>3. /\ done[d].start = ch[d].start /\ done[d].indirect = ch[d].indirect
          /\ done[d].size = ch[d].size
          /\ r.line + 1 < LinesOf(table, r.entry) =>
               done[d].count # 0 /\ OnLine(table, done[d], [r EXCEPT !.line = @ + 1])
          /\ ~(r.line + 1 < LinesOf(table, r.entry)) =>
               /\ done[d].count = 0
               /\ done[d].address = Add(r.entry, LengthOf(table, r.entry, ch[d].indirect, ch[d].size))
      BY <1>3, <2>1, <2>4, <2>8, <3>1, <3>2, GoesOn
    <3>4. CASE r.line + 1 < LinesOf(table, r.entry)
      <4>1. d \notin read /\ d \notin over
        BY <3>3, <3>4 DEF read, over
      <4>2. ch'[d] = done[d] /\ d \in hdma'
        BY <1>1, <2>1, <2>6, <3>1, <4>1
      <4>3. at[v + 1] = [r EXCEPT !.line = @ + 1] /\ at[v + 1].entry = r.entry
        BY <2>4, <2>8, <3>4 DEF NextRead, Reads
      <4> QED
        BY <1>2, <1>4, <2>8, <3>3, <3>4, <4>2, <4>3 DEF OnTable, at
    <3>5. CASE ~(r.line + 1 < LinesOf(table, r.entry))
      <4>1. d \in read /\ (d \in over <=> ByteOf(table, done[d].address) = 0)
        BY <3>1, <3>3, <3>5, SameBytes DEF read, over, TableEnds
      <4>2. at[v + 1] = [entry |-> done[d].address, line |-> 0]
        BY <2>4, <2>8, <3>3, <3>5 DEF NextRead
      <4> DEFINE counted == ReadLineCount(done[d], Later(hdma, d))
      <4>3. counted.start = ch[d].start /\ counted.indirect = ch[d].indirect /\ counted.size = ch[d].size
        BY <3>2, <3>3 DEF ReadLineCount, Registers
      <4>4. CASE d \in over
        <5>1. ch'[d] = [counted EXCEPT !.go = FALSE]
          BY <1>1, <2>1, <3>1, <4>1, <4>4
        <5>2. ch'[d].start = ch[d].start /\ ch'[d].indirect = ch[d].indirect
              /\ ch'[d].size = ch[d].size
          <6>1. counted \in Registers(1..Flag)
            <7>1. Later(hdma, d) \in BOOLEAN
              BY DEF Later
            <7> QED
              BY <1>3, <3>2, <7>1, ReadLineCountRight
          <6> HIDE DEF counted
          <6> QED
            BY <4>3, <5>1, <6>1 DEF Registers
        <5>3. d \in ended' /\ d \notin hdma'
          BY <1>2, <2>6, <4>4
        <5> QED
          BY <1>2, <1>4, <4>1, <4>2, <4>4, <5>2, <5>3 DEF OnTable, at
      <4>5. CASE d \notin over
        <5>1. ch'[d] = counted
          BY <1>1, <2>1, <3>1, <4>1, <4>5
        <5>2. OnLine(table, counted, [entry |-> done[d].address, line |-> 0])
          BY <1>3, <3>2, <4>1, <4>5, Begins
        <5>3. d \in hdma'
          BY <2>6, <3>1, <4>5
        <5> HIDE DEF counted
        <5> QED
          BY <1>2, <1>4, <4>1, <4>2, <4>3, <4>5, <5>1, <5>2, <5>3 DEF OnTable, at
      <4> QED
        BY <4>4, <4>5
    <3> QED
      BY <3>4, <3>5
  <2> QED
    BY <2>7, <2>8
<1> QED
  BY <1>2, <1>4, <1>5 DEF OnTables

LEMMA IdleLineFollows == HdmaInv /\ OnTables /\ IdleLine => OnTables'
<1> SUFFICES ASSUME HdmaInv, OnTables, IdleLine PROVE OnTables'
  OBVIOUS
<1>1. /\ pc = "line" /\ (hdma = {} \/ v > ScreenHeight) /\ NextLine
      /\ hdma' = StillActive(hdma)
      /\ UNCHANGED <<table, ch, ended, own>>
  BY DEF IdleLine
<1>2. /\ table \in [1..TableLength -> Bytes]
      /\ ch \in [Channels -> Registers(1..Flag)]
      /\ own \subseteq Channels /\ ScreenHeight \in Nat /\ v \in Nat
  BY HdmaAssumption DEF HdmaInv, TypeOK
<1>3. CASE v > ScreenHeight
  BY <1>1, <1>2, <1>3 DEF NextLine, OnTables
<1>4. CASE ~(v > ScreenHeight)
  <2>1. v' = v + 1 /\ pc' = "line" /\ hdma = {} /\ hdma' = {}
    BY <1>1, <1>2, <1>4 DEF NextLine, StillActive
  <2>2. ASSUME NEW d \in own, v + 1 <= ScreenHeight
        PROVE  OnTable(d)'
    <3> DEFINE at == ReadingOf(table, ch[d].start, ch[d].indirect, ch[d].size)
    <3>1. /\ ch[d].start \in Place
          /\ ch[d].indirect \in BOOLEAN /\ ch[d].size \in Sizes
      BY <1>2 DEF Registers
    <3>2. \A n \in 1..ScreenHeight :
             at[n] = NextRead(table, at[n - 1], ch[d].indirect, ch[d].size)
      BY <1>2, <3>1, ReadingStep
    <3> HIDE DEF at
    <3>3. PICK n \in 1..ScreenHeight : n = v + 1 /\ n - 1 = v
      BY <1>2, <2>2
    <3>4. at[n] = NextRead(table, at[n - 1], ch[d].indirect, ch[d].size)
      BY <3>2
    <3>5. at[v + 1] = NextRead(table, at[v], ch[d].indirect, ch[d].size)
      BY <3>3, <3>4
    <3>6. OnTable(d)
      BY <1>1, <1>2, <1>4 DEF OnTables
    <3>7. ByteOf(table, at[v].entry) = 0 /\ d \in ended /\ d \notin hdma
      BY <2>1, <3>6 DEF OnTable, at
    <3>8. at[v + 1] = at[v]
      BY <3>5, <3>7 DEF NextRead
    <3> QED
      BY <1>1, <2>1, <3>7, <3>8 DEF OnTable, at
  <2> QED
    BY <1>1, <2>1, <2>2 DEF OnTables
<1> QED
  BY <1>3, <1>4

\* The other steps leave a channel alone or are no longer asked about it.
LEMMA OthersFollow ==
    ASSUME OnTables, UNCHANGED <<table, v, pc, ended>>, own' \subseteq own,
           \A d \in own' : ch'[d] = ch[d] /\ (pc = "line" => (d \in hdma' <=> d \in hdma))
    PROVE  OnTables'
<1>1. CASE pc = "line" /\ v <= ScreenHeight
  <2>1. \A d \in own' : OnTable(d)'
    BY <1>1, StaysOnTable DEF OnTables
  <2> QED
    BY <1>1, <2>1 DEF OnTables
<1>2. CASE ~(pc = "line" /\ v <= ScreenHeight)
  BY <1>2 DEF OnTables
<1> QED
  BY <1>1, <1>2

LEMMA WriteHDMAENFollows ==
    ASSUME HdmaInv, OnTables, NEW s \in SUBSET Channels, WriteHDMAEN(s)
    PROVE  OnTables'
<1>1. /\ hdma' = s \ ended /\ own' = own \ (hdma \ s)
      /\ UNCHANGED <<table, v, pc, ended, ch>>
  BY DEF WriteHDMAEN
<1>2. pc = "line" => hdma \cap ended = {}
  BY DEF HdmaInv, TypeOK
<1>3. CASE pc = "line" /\ v <= ScreenHeight
  <2>1. ASSUME NEW d \in own'
        PROVE  OnTable(d)'
    <3>1. d \in own /\ OnTable(d)
      BY <1>1, <1>3 DEF OnTables
    <3>2. d \in ended \/ d \in hdma
      BY <3>1 DEF OnTable
    <3>3. d \in hdma' <=> d \in hdma
      BY <1>1, <1>2, <1>3, <3>1, <3>2
    <3> QED
      BY <1>1, <3>1, <3>3, StaysOnTable
  <2> QED
    BY <1>1, <2>1 DEF OnTables
<1>4. CASE ~(pc = "line" /\ v <= ScreenHeight)
  BY <1>1, <1>4 DEF OnTables
<1> QED
  BY <1>3, <1>4

LEMMA StepFollows == HdmaInv /\ OnTables /\ [Next]_vars => OnTables'
<1> SUFFICES ASSUME HdmaInv, OnTables, [Next]_vars PROVE OnTables'
  OBVIOUS
<1>0. ch \in [Channels -> Registers(1..Flag)] /\ own \subseteq Channels
  BY DEF HdmaInv, TypeOK
<1>1. CASE S9xStartHDMA
  BY <1>1, StartHDMAFollows
<1>2. CASE S9xDoHDMA
  BY <1>2, DoHDMAFollows
<1>3. CASE IdleLine
  BY <1>3, IdleLineFollows
<1>4. CASE DMAByte
  <2>1. \A d \in own' : ch'[d] = ch[d] /\ d \in own
    BY <1>0, <1>4 DEF DMAByte
  <2> QED
    BY <1>4, <2>1, OthersFollow DEF DMAByte
<1>5. CASE AfterByte
  BY <1>5, OthersFollow DEF AfterByte
<1>6. CASE \E d \in Channels : StartDMA(d)
  BY <1>6, OthersFollow DEF StartDMA
<1>7. CASE \E d \in Channels :
             \/ \E i \in BOOLEAN, n \in Sizes : WriteDMAP(d, i, n)
             \/ \E a \in Starts : WriteA1T(d, a)
             \/ \E w \in Words : WriteDAS(d, w)
             \/ \E a \in Addresses : WriteA2A(d, a)
             \/ \E n \in Counts : WriteNLTR(d, n)
  <2>1. PICK d \in Channels : Write(d) /\ \A e \in Channels \ {d} : ch'[e] = ch[e]
    BY <1>0, <1>7 DEF WriteDMAP, WriteA1T, WriteDAS, WriteA2A, WriteNLTR
  <2>2. own' = own \ {d} /\ UNCHANGED <<table, hdma, ended, v, pc>>
    BY <2>1 DEF Write
  <2> QED
    BY <1>0, <2>1, <2>2, OthersFollow
<1>8. CASE \E s \in SUBSET Channels : WriteHDMAEN(s)
  BY <1>8, WriteHDMAENFollows
<1>9. CASE UNCHANGED vars
  BY <1>9, OthersFollow DEF vars
<1> QED
  BY <1>1, <1>2, <1>3, <1>4, <1>5, <1>6, <1>7, <1>8, <1>9 DEF Next

LEMMA OnTablesFollow == HdmaInv /\ OnTables => FollowsTable
<1> SUFFICES ASSUME HdmaInv, OnTables, NEW d \in own, pc = "line", v <= ScreenHeight
             PROVE  LET r == Reading(d)[v]
                        over == S9xGetByte(r.entry) = 0
                        go == r.line = 0 \/ Each(r.entry)
                        data == IF ch[d].indirect THEN S9xGetWord(Add(r.entry, 1))
                                ELSE Add(r.entry, 1)
                        done == IF Each(r.entry) THEN r.line * ch[d].size ELSE 0
                    IN  /\ d \in hdma <=> ~over
                        /\ ~over => /\ ch[d].go <=> go
                                    /\ go => Source(ch[d]) = Add(data, done)
  BY DEF FollowsTable
<1> DEFINE r == Reading(d)[v]
<1>1. r = ReadingOf(table, ch[d].start, ch[d].indirect, ch[d].size)[v]
  BY ReadingIs
<1>2. OnTable(d)
  BY DEF OnTables
<1>3. ch[d].indirect \in BOOLEAN
  BY DEF HdmaInv, TypeOK, Registers
<1>4. Each(r.entry) <=> EachOf(table, r.entry)
  BY SameBytes DEF Each, EachOf
<1> HIDE DEF r
<1>5. CASE ByteOf(table, r.entry) = 0
  BY <1>1, <1>2, <1>5, SameBytes DEF OnTable, r
<1>6. CASE ByteOf(table, r.entry) # 0
  <2>1. d \in hdma /\ OnLine(table, ch[d], r)
    BY <1>1, <1>2, <1>6 DEF OnTable
  <2>2. ch[d].go <=> r.line = 0 \/ Each(r.entry)
    BY <1>4, <2>1 DEF OnLine
  <2>3. ASSUME r.line = 0 \/ Each(r.entry)
        PROVE  DoneOf(table, r, ch[d].size) = IF Each(r.entry) THEN r.line * ch[d].size ELSE 0
    BY <1>4, <2>3 DEF DoneOf
  <2>4. ASSUME r.line = 0 \/ Each(r.entry)
        PROVE  Source(ch[d]) = Add(IF ch[d].indirect THEN S9xGetWord(Add(r.entry, 1))
                                   ELSE Add(r.entry, 1),
                                   IF Each(r.entry) THEN r.line * ch[d].size ELSE 0)
    BY <1>3, <2>1, <2>3, <2>4, SameBytes DEF OnLine, Source
  <2> QED
    BY <1>6, <2>1, <2>2, <2>4, SameBytes DEF r
<1> QED
  BY <1>5, <1>6

\* A channel left alone follows its table line by line, for every table, any
\* number of channels, lines and sizes of a unit, and any bank: entries of 0 and
\* of Flag lines, entries that wrap around the bank, direct and indirect, DMAs
\* and other channels' writes at any time.
THEOREM FollowsTableInv == Spec => []FollowsTable
<1>1. Init => OnTables
  BY DEF Init, OnTables
<1>2. HdmaInv /\ OnTables /\ [Next]_vars => OnTables'
  BY StepFollows
<1>3. HdmaInv /\ OnTables => FollowsTable
  BY OnTablesFollow
<1>4. Spec => []HdmaInv
  BY HdmaInvariant
<1> QED
  BY <1>1, <1>2, <1>3, <1>4, PTL DEF Spec
=============================================================================
