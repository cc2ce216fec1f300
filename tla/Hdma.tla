-------------------------------- MODULE Hdma --------------------------------
(***************************************************************************)
(* The transfers made for each scan line from tables in memory (HDMA), and *)
(* the DMA they may interrupt: dma.cpp, and the registers that steer them  *)
(* in ppu.cpp. Where in memory a byte is read is modelled, not which PPU   *)
(* register it goes to. A byte of a table is a count of lines, and Flag is *)
(* the bit that asks for a transfer on each of them.                       *)
(***************************************************************************)
EXTENDS Integers

CONSTANTS
    Channels,      \* 0..7
    Space,         \* addresses of a bank, 2^16
    Block,         \* MEMMAP_BLOCK_SIZE
    Mapped,        \* numbers of the blocks that S9xGetMemPointer can point into
    Flag,          \* 0x80
    TableLength, Bytes,  \* the memory from address 0 on; it is 0 behind
    Sizes,         \* HDMA_ModeByteCounts
    Starts, Addresses, Words, Counts,  \* what a game writes to the registers
    ScreenHeight,  \* HDMA runs on lines 0..ScreenHeight
    MaxWrites      \* registers written in a behaviour

ASSUME HdmaAssumption ==
    /\ Channels \subseteq Nat
    /\ Space \in Nat \ {0} /\ Block \in Nat \ {0} /\ Space % Block = 0
    /\ Flag \in Nat \ {0, 1}
    /\ TableLength \in Nat /\ Bytes \subseteq 0..(2 * Flag - 1)
    /\ Sizes \subseteq Nat \ {0}
    /\ Starts \subseteq 0..(Space - 1) /\ Addresses \subseteq 0..(Space - 1)
    /\ Words \subseteq 0..(Space - 1) /\ Counts \subseteq 0..(2 * Flag - 1)
    /\ ScreenHeight \in Nat /\ MaxWrites \in Nat

VARIABLES
    table,            \* the memory
    ch,               \* DMA[d] and HDMAMemPointers[d]
    hdma, ended,      \* PPU.HDMA, PPU.HDMAEnded
    hdmaen,           \* $420C
    v, pc,            \* the line, and which of its HDMA events comes next
    dma, left,        \* the channel whose DMA is in progress, its count
    moved, ran,       \* a byte was just moved, HDMARanInDMA
    own, astray,      \* channels left alone since the frame began, channels
                      \* whose pointer was forgotten
    writes

vars == <<table, ch, hdma, ended, hdmaen, v, pc, dma, left, moved, ran, own, astray, writes>>

NULL == -1
None == -1

Add(a, n) == (a + n) % Space

S9xGetByte(a) == IF a < TableLength THEN table[a + 1] ELSE 0

S9xGetWord(a) == (S9xGetByte(a) + 2 * Flag * S9xGetByte(Add(a, 1))) % Space

S9xGetMemPointer(a) == IF a \div Block \in Mapped THEN a ELSE NULL

-----------------------------------------------------------------------------
(* One channel. *)

\* HDMAReadLineCount: more says whether a later channel is active. The channel
\* ends on a count of zero.
TableEnds(c) == S9xGetByte(c.address) = 0

ReadLineCountFirst(c, more) ==
    LET line == S9xGetByte(c.address)
        a == Add(c.address, 1)
        word == IF more THEN a ELSE c.address
    IN  IF line = 0 THEN
          [c EXCEPT !.repeat = FALSE, !.count = Flag,
                    !.iaddr = IF c.indirect THEN S9xGetWord(word) ELSE c.iaddr,
                    !.address = IF c.indirect THEN Add(word, 2) ELSE a,
                    !.ptr = NULL]
        ELSE
          [c EXCEPT !.repeat = line <= Flag,
                    !.count = line % Flag,
                    !.go = TRUE,
                    !.iaddr = IF c.indirect THEN S9xGetWord(a) ELSE c.iaddr,
                    !.address = IF c.indirect THEN Add(a, 2) ELSE a,
                    !.ptr = S9xGetMemPointer(IF c.indirect THEN S9xGetWord(a) ELSE a)]

ReadLineCount(c, more) ==
    LET line == S9xGetByte(c.address)
        a == Add(c.address, 1)
        word == IF more THEN a ELSE c.address
    IN  IF line = 0 THEN
          [c EXCEPT !.repeat = FALSE, !.count = Flag,
                    !.iaddr = IF c.indirect THEN S9xGetWord(word) ELSE c.iaddr,
                    !.address = IF c.indirect THEN Add(word, 2) ELSE a,
                    !.ptr = NULL]
        ELSE
          [c EXCEPT !.repeat = line <= Flag,
                    !.count = IF line % Flag = 0 THEN Flag ELSE line % Flag,
                    !.go = TRUE,
                    !.iaddr = IF c.indirect THEN S9xGetWord(a) ELSE c.iaddr,
                    !.address = IF c.indirect THEN Add(a, 2) ELSE a,
                    !.ptr = S9xGetMemPointer(IF c.indirect THEN S9xGetWord(a) ELSE a)]

Source(c) == IF c.indirect THEN c.iaddr ELSE c.address

\* The pointer is taken when there is none; at the end of a block the bytes are
\* read one by one, and the pointer is given up.
PointerAfter(c) ==
    LET p == IF c.ptr = NULL THEN S9xGetMemPointer(Source(c)) ELSE c.ptr
    IN  IF ~c.go \/ p = NULL THEN p
        ELSE IF (Source(c) % Block) + c.size >= Block THEN NULL
        ELSE p + c.size

TransferredAlways(c) ==
    [c EXCEPT !.ptr = PointerAfter(c),
              !.iaddr = IF c.go /\ c.indirect THEN Add(@, c.size) ELSE @,
              !.address = IF ~c.indirect THEN Add(@, c.size) ELSE @,
              !.go = ~c.repeat,
              !.count = @ - 1]

\* The line is done: the address moves on, and the count is one less.
Transferred(c) ==
    [c EXCEPT !.ptr = PointerAfter(c),
              !.iaddr = IF c.go /\ c.indirect THEN Add(@, c.size) ELSE @,
              !.address = IF c.go /\ ~c.indirect THEN Add(@, c.size) ELSE @,
              !.go = ~c.repeat,
              !.count = @ - 1]

Later(s, d) == \E e \in s : e > d

-----------------------------------------------------------------------------
(* The events of a line that concern HDMA. In a DMA they come while a byte is *)
(* accounted for.                                                             *)

Quiet == dma = None \/ moved

InDMA(s) == IF dma = None THEN {} ELSE s

\* HC_HDMA_INIT_EVENT of line 0.
S9xStartHDMA ==
    /\ Quiet /\ pc = "init"
    /\ LET started == [d \in Channels |-> [ch[d] EXCEPT !.address = ch[d].start]]
           over == {d \in hdmaen : TableEnds(started[d])}
       IN  /\ ch' = [d \in Channels |->
                       IF d \in hdmaen THEN ReadLineCount(started[d], Later(hdmaen, d))
                       ELSE [ch[d] EXCEPT !.go = FALSE]]
           /\ hdma' = hdmaen \ over /\ ended' = over
           /\ ran' = InDMA(hdmaen \ over)
    /\ own' = hdmaen
    /\ astray' = astray \ hdmaen
    /\ pc' = "line"
    /\ UNCHANGED <<table, hdmaen, v, dma, left, moved, writes>>

\* HC_HCOUNTER_MAX_EVENT: no channel is active in the blanking.
NextLine ==
    IF v > ScreenHeight THEN v' = 0 /\ pc' = "init"
    ELSE v' = v + 1 /\ pc' = pc

StillActive(s) == IF v = ScreenHeight THEN {} ELSE s

\* HC_HDMA_START_EVENT of a line with active channels, to the end of the line.
S9xDoHDMA ==
    /\ Quiet /\ pc = "line" /\ hdma # {} /\ v <= ScreenHeight
    /\ LET done == [d \in hdma |-> Transferred(ch[d])]
           read == {d \in hdma : done[d].count = 0}
           over == {d \in read : TableEnds(done[d])}
       IN  /\ ch' = [d \in Channels |->
                       IF d \notin hdma THEN ch[d]
                       ELSE IF d \notin read THEN done[d]
                       ELSE IF d \notin over THEN ReadLineCount(done[d], Later(hdma, d))
                       ELSE [ReadLineCount(done[d], Later(hdma, d)) EXCEPT !.go = FALSE]]
           /\ hdma' = StillActive(hdma \ over)
           /\ ended' = ended \cup over
           /\ astray' = astray \ {d \in hdma : ch'[d].ptr = NULL \/ d \in read}
    /\ ran' = InDMA(hdma)
    /\ NextLine
    /\ UNCHANGED <<table, hdmaen, dma, left, moved, own, writes>>

IdleLine ==
    /\ Quiet /\ pc = "line" /\ (hdma = {} \/ v > ScreenHeight)
    /\ hdma' = StillActive(hdma)
    /\ NextLine
    /\ UNCHANGED <<table, ch, ended, hdmaen, dma, left, moved, ran, own, astray, writes>>

-----------------------------------------------------------------------------
(* S9xDoDMA, a byte at a time, with addresses that count up. The channel's *)
(* registers follow the transfer.                                          *)

StartDMA(d) ==
    /\ dma = None /\ writes < MaxWrites /\ writes' = writes + 1
    /\ dma' = d
    /\ left' = IF ch[d].iaddr = 0 THEN Space ELSE ch[d].iaddr
    /\ UNCHANGED <<table, ch, hdma, ended, hdmaen, v, pc, moved, ran, own, astray>>

DMAByte ==
    /\ dma # None /\ ~moved
    /\ left' = left - 1
    /\ ch' = [ch EXCEPT ![dma].iaddr = Add(@, Space - 1), ![dma].start = Add(@, 1)]
    /\ moved' = TRUE
    /\ own' = own \ {dma}
    /\ astray' = IF ch[dma].ptr # NULL THEN astray \cup {dma} ELSE astray
    /\ UNCHANGED <<table, hdma, ended, hdmaen, v, pc, dma, ran, writes>>

\* addCyclesInDMA, after its events: an HDMA of the same channel ends the DMA.
AfterByteKeepsRan ==
    /\ dma # None /\ moved
    /\ dma' = IF left = 0 THEN None ELSE dma
    /\ moved' = FALSE
    /\ ran' = {}
    /\ UNCHANGED <<table, ch, hdma, ended, hdmaen, v, pc, left, own, astray, writes>>

AfterByte ==
    /\ dma # None /\ moved
    /\ dma' = IF dma \in ran \/ left = 0 THEN None ELSE dma
    /\ moved' = FALSE
    /\ ran' = {}
    /\ UNCHANGED <<table, ch, hdma, ended, hdmaen, v, pc, left, own, astray, writes>>

-----------------------------------------------------------------------------
(* The registers. The CPU writes none while a DMA runs. *)

Write(d) ==
    /\ dma = None /\ writes < MaxWrites /\ writes' = writes + 1
    /\ own' = own \ {d}
    /\ UNCHANGED <<table, hdma, ended, hdmaen, v, pc, dma, left, moved, ran>>

\* $43x0. The pointer is not given up.
WriteDMAP(d, indirect, size) ==
    /\ Write(d)
    /\ ch' = [ch EXCEPT ![d].indirect = indirect, ![d].size = size]
    /\ astray' = IF ch[d].ptr # NULL /\ indirect # ch[d].indirect
                 THEN astray \cup {d} ELSE astray

\* $43x2 and $43x3.
WriteA1T(d, a) ==
    /\ Write(d)
    /\ ch' = [ch EXCEPT ![d].start = a]
    /\ UNCHANGED astray

\* $43x5 and $43x6.
WriteDAS(d, w) ==
    /\ Write(d)
    /\ ch' = [ch EXCEPT ![d].iaddr = w, ![d].ptr = NULL]
    /\ astray' = astray \ {d}

\* $43x8 and $43x9.
WriteA2AKeeps(d, a) ==
    /\ Write(d)
    /\ ch' = [ch EXCEPT ![d].address = a]
    /\ UNCHANGED astray

WriteA2A(d, a) ==
    /\ Write(d)
    /\ ch' = [ch EXCEPT ![d].address = a, ![d].ptr = NULL]
    /\ astray' = astray \ {d}

\* $43xA.
WriteNLTR(d, n) ==
    /\ Write(d)
    /\ ch' = [ch EXCEPT ![d].count = IF n % Flag = 0 THEN Flag ELSE n % Flag,
                        ![d].repeat = IF n % Flag = 0 THEN n # 0 ELSE n < Flag]
    /\ UNCHANGED astray

\* $420C. A channel whose table has ended stays out until the next frame.
WriteHDMAEN(s) ==
    /\ dma = None /\ writes < MaxWrites /\ writes' = writes + 1
    /\ hdmaen' = s
    /\ hdma' = s \ ended
    /\ own' = own \ (hdma \ s)
    /\ UNCHANGED <<table, ch, ended, v, pc, dma, left, moved, ran, astray>>

-----------------------------------------------------------------------------
\* A channel as a game sets it up after a reset.
Reset(a, indirect, size) ==
    [start |-> a, indirect |-> indirect, size |-> size,
     address |-> Space - 1, iaddr |-> Space - 1, repeat |-> FALSE,
     count |-> Flag - 1, go |-> FALSE, ptr |-> NULL]

Init ==
    /\ table \in [1..TableLength -> Bytes]
    /\ \E a \in [Channels -> Starts], i \in [Channels -> BOOLEAN], n \in [Channels -> Sizes] :
          ch = [d \in Channels |-> Reset(a[d], i[d], n[d])]
    /\ hdma = {} /\ ended = {} /\ hdmaen \in SUBSET Channels
    /\ v = 0 /\ pc = "init"
    /\ dma = None /\ left = 0 /\ moved = FALSE /\ ran = {}
    /\ own = {} /\ astray = {} /\ writes = 0

Next ==
    \/ S9xStartHDMA \/ S9xDoHDMA \/ IdleLine
    \/ DMAByte \/ AfterByte
    \/ \E d \in Channels :
          \/ StartDMA(d)
          \/ \E i \in BOOLEAN, n \in Sizes : WriteDMAP(d, i, n)
          \/ \E a \in Starts : WriteA1T(d, a)
          \/ \E w \in Words : WriteDAS(d, w)
          \/ \E a \in Addresses : WriteA2A(d, a)
          \/ \E n \in Counts : WriteNLTR(d, n)
    \/ \E s \in SUBSET Channels : WriteHDMAEN(s)

Spec == Init /\ [][Next]_vars

-----------------------------------------------------------------------------
(* Properties. *)

Place == 0..(Space - 1)

\* DMA[d] and its pointer, with n as the values of LineCount. A pointer gone
\* astray is not kept in its block.
Registers(n) ==
    [start : Place, indirect : BOOLEAN, size : Sizes, address : Place, iaddr : Place,
     repeat : BOOLEAN, count : n, go : BOOLEAN, ptr : Nat \cup {NULL}]

\* The channels' registers keep their widths; no count of lines is left at zero,
\* from which it would run 256 lines, and no channel is active in a frame after
\* its table ended.
TypeOK ==
    /\ table \in [1..TableLength -> Bytes]
    /\ ch \in [Channels -> Registers(1..Flag)]
    /\ hdma \subseteq Channels /\ ended \subseteq Channels /\ hdmaen \subseteq Channels
    /\ v \in 0..(ScreenHeight + 1) /\ pc \in {"init", "line"}
    /\ dma \in Channels \cup {None} /\ left \in 0..Space
    /\ moved \in BOOLEAN /\ ran \subseteq Channels
    /\ own \subseteq Channels /\ astray \subseteq Channels /\ writes \in 0..MaxWrites
    /\ pc = "line" => hdma \cap ended = {}

\* The table of channel d read from its start, a line at a time, with no
\* registers: the entry that line n belongs to and which of its lines it is.
Lines(a) == IF S9xGetByte(a) % Flag = 0 THEN Flag ELSE S9xGetByte(a) % Flag
Each(a) == S9xGetByte(a) > Flag
EntryLength(c, a) ==
    IF c.indirect THEN 3 ELSE 1 + c.size * (IF Each(a) THEN Lines(a) ELSE 1)

Reading(d) ==
    LET at[n \in 0..ScreenHeight] ==
          IF n = 0 THEN [entry |-> ch[d].start, line |-> 0]
          ELSE LET r == at[n - 1]
               IN  IF S9xGetByte(r.entry) = 0 THEN r
                   ELSE IF r.line + 1 < Lines(r.entry) THEN [r EXCEPT !.line = @ + 1]
                   ELSE [entry |-> Add(r.entry, EntryLength(ch[d], r.entry)), line |-> 0]
    IN  at

\* However the registers of the others are written and DMAs interleave, a
\* channel left alone transfers on each line what its table says of that line,
\* from the place the table says, and stays out once the table ended, whatever
\* is written to HDMAEN (S9xStartHDMA, S9xDoHDMA, HDMAReadLineCount).
FollowsTable ==
    \A d \in own : pc = "line" /\ v <= ScreenHeight =>
        LET r == Reading(d)[v]
            over == S9xGetByte(r.entry) = 0
            go == r.line = 0 \/ Each(r.entry)
            data == IF ch[d].indirect THEN S9xGetWord(Add(r.entry, 1)) ELSE Add(r.entry, 1)
            done == IF Each(r.entry) THEN r.line * ch[d].size ELSE 0
        IN  /\ d \in hdma <=> ~over
            /\ ~over => /\ ch[d].go <=> go
                        /\ go => Source(ch[d]) = Add(data, done)

\* The pointer that spares S9xDoHDMA the memory map points at the byte that the
\* registers address, at the ends of blocks and of the bank too, unless a write
\* to $43x0 or a DMA moved the channel under it (HDMAMemPointers).
PointerFollows ==
    \A d \in Channels \ astray :
        ch[d].ptr # NULL => ch[d].ptr = Source(ch[d]) /\ ch[d].ptr \div Block \in Mapped

\* While a DMA goes on, the registers of its channel count its bytes: an HDMA of
\* that channel, which loads other values there, ends the DMA first. When the
\* frame begins that is not so for a channel whose table is empty
\* (addCyclesInDMA, HDMARanInDMA).
DMAAlone == dma # None /\ ~moved => ch[dma].iaddr = left % Space \/ dma \in ended
=============================================================================
