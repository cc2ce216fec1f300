------------------------- MODULE StateManagerProofs -------------------------
(***************************************************************************)
(* What is proved of the rewind buffer for every size of the ring, every   *)
(* size of a state and any garbage in a new ring: where its bottom is, that *)
(* the scans for it end, and that it implements a stack of states.         *)
(***************************************************************************)
EXTENDS StateManagerStack, FiniteSetTheorems, SequenceTheorems, WellFoundedInduction, TLAPS

-----------------------------------------------------------------------------
(* Indices and sets. *)

\* A set of numbers that is not empty has a least one.
LEMMA LeastNumber ==
    ASSUME NEW S \in SUBSET Nat, S # {}
    PROVE  \E m \in S : \A n \in S : m <= n
<1>1. PICK m \in S : \A n \in S : ~(<<n, m>> \in OpToRel(<, Nat))
  BY NatLessThanWellFounded, WFMin
<1>2. \A n \in S : ~(n < m)
  BY <1>1 DEF OpToRel
<1>3. m \in Nat /\ \A n \in S : n \in Nat
  OBVIOUS
<1>4. \A n \in S : m <= n
  BY <1>2, <1>3
<1> QED
  BY <1>4

\* Masking an index of one lap more or less.
LEMMA Masked ==
    /\ \A i \in Int : At(i) \in Ring
    /\ \A i \in Ring : At(i) = i /\ At(i + BufSize) = i /\ At(i - BufSize) = i
  BY StateManagerAssumption DEF At, Ring

\* Every cell is reached within a lap, upwards and downwards.
LEMMA LapUp ==
    ASSUME NEW a \in Ring, NEW b \in Ring
    PROVE  \E d \in 1 .. BufSize : At(a + d) = b
<1> USE StateManagerAssumption
<1>1. CASE a < b
  <2>1. b - a \in 1 .. BufSize /\ At(a + (b - a)) = b
    BY <1>1, Masked DEF Ring
  <2> QED
    BY <2>1
<1>2. CASE b <= a
  <2>1. b + BufSize - a \in 1 .. BufSize /\ a + (b + BufSize - a) = b + BufSize
    BY <1>2 DEF Ring
  <2>2. At(a + (b + BufSize - a)) = b
    BY <2>1, Masked
  <2> QED
    BY <2>1, <2>2
<1> QED
  BY <1>1, <1>2 DEF Ring

LEMMA LapDown ==
    ASSUME NEW a \in Ring, NEW b \in Ring
    PROVE  \E d \in 0 .. BufSize - 1 : At(a - 1 - d) = b
<1> USE StateManagerAssumption
<1>1. CASE b < a
  <2>1. a - 1 - b \in 0 .. BufSize - 1 /\ a - 1 - (a - 1 - b) = b
    BY <1>1 DEF Ring
  <2>2. At(a - 1 - (a - 1 - b)) = b
    BY <2>1, Masked
  <2> QED
    BY <2>1, <2>2
<1>2. CASE a <= b
  <2>1. /\ a - 1 - b + BufSize \in 0 .. BufSize - 1
        /\ a - 1 - (a - 1 - b + BufSize) = b - BufSize
    BY <1>2 DEF Ring
  <2>2. At(a - 1 - (a - 1 - b + BufSize)) = b
    BY <2>1, Masked
  <2> QED
    BY <2>1, <2>2
<1> QED
  BY <1>1, <1>2 DEF Ring

\* A run that is not longer than the ring comes to no cell twice.
LEMMA NoSecondLap ==
    ASSUME NEW t \in Ring, NEW j \in 0 .. BufSize - 1, NEW k \in 0 .. BufSize - 1,
           At(t + j) = At(t + k)
    PROVE  j = k
<1> USE StateManagerAssumption
<1>1. \A i \in 0 .. BufSize - 1 :
        At(t + i) = IF t + i < BufSize THEN t + i ELSE t + i - BufSize
  <2> TAKE i \in 0 .. BufSize - 1
  <2>1. CASE t + i < BufSize
    BY <2>1, Masked DEF Ring
  <2>2. CASE ~(t + i < BufSize)
    <3>1. t + i - BufSize \in Ring /\ t + i = (t + i - BufSize) + BufSize
      BY <2>2 DEF Ring
    <3> QED
      BY <2>2, <3>1, Masked
  <2> QED
    BY <2>1, <2>2
<1> QED
  BY <1>1 DEF Ring

-----------------------------------------------------------------------------
(* The cells of a delta. *)

\* A delta begins with its boundary and has at most a cell for every word.
LEMMA DeltaShape ==
    ASSUME NEW old, NEW new
    PROVE  /\ Len(DeltaCells(old, new)) \in 1 .. StateSize + 1
           /\ DeltaCells(old, new)[1] = Boundary
<1> DEFINE count == Cardinality(Changed(old, new))
           words == DeltaWords(old, new)
<1>1. IsFiniteSet(Words) /\ Cardinality(Words) = StateSize
  BY FS_Interval, StateManagerAssumption DEF Words
<1>2. Changed(old, new) \subseteq Words
  BY DEF Changed
<1>3. count \in Nat /\ count <= StateSize
  BY <1>1, <1>2, FS_Subset, FS_CardinalityType
<1>4. words \in Seq({words[n] : n \in 1 .. count}) /\ Len(words) = count
  <2>1. words = [n \in 1 .. count |-> words[n]]
    BY DEF DeltaWords
  <2> QED
    BY <1>3, <2>1
<1> HIDE DEF count, words
<1>5. /\ Len(<<Boundary>> \o words) = 1 + Len(words)
      /\ (<<Boundary>> \o words)[1] = Boundary
  BY <1>4
<1> QED
  BY <1>3, <1>4, <1>5, StateManagerAssumption DEF DeltaCells, words

\* A delta that fits into the ring leaves its boundary where it begins ...
LEMMA WrittenFirst ==
    ASSUME NEW t \in Ring, NEW cells, Len(cells) \in 1 .. BufSize
    PROVE  Written(t, cells)[t] = cells[1]
<1> DEFINE hits == {j \in 1 .. Len(cells) : At(t + j - 1) = t}
<1>1. \A j \in 1 .. Len(cells) : At(t + j - 1) = t => j = 1
  <2> SUFFICES ASSUME NEW j \in 1 .. Len(cells), At(t + j - 1) = t PROVE j = 1
    OBVIOUS
  <2>1. j - 1 \in 0 .. BufSize - 1 /\ 0 \in 0 .. BufSize - 1 /\ t + (j - 1) = t + j - 1
    BY StateManagerAssumption DEF Ring
  <2>2. At(t + 0) = t
    BY Masked DEF Ring
  <2>3. j - 1 = 0
    BY <2>1, <2>2, NoSecondLap
  <2> QED
    BY <2>3
<1>2. At(t + 1 - 1) = t /\ 1 \in 1 .. Len(cells)
  BY Masked, StateManagerAssumption DEF Ring
<1>3. hits = {1}
  BY <1>1, <1>2
<1>4. (CHOOSE j \in {1} : \A k \in {1} : k <= j) = 1
  OBVIOUS
<1> QED
  BY <1>3, <1>4 DEF Written

\* ... and a cell it does not come to keeps what it held.
LEMMA WrittenElsewhere ==
    ASSUME NEW t, NEW cells, NEW p \in Ring,
           \A j \in 1 .. Len(cells) : At(t + j - 1) # p
    PROVE  Written(t, cells)[p] = buffer[p]
  BY DEF Written

\* The scan of reassign_bottom ends at a boundary, if there is one.
LEMMA ScanFindsBoundary ==
    ASSUME NEW buf, NEW t \in Ring, BoundaryDistance(buf, t) # {}
    PROVE  FirstBoundary(buf, t) \in Ring /\ buf[FirstBoundary(buf, t)] = Boundary
<1> DEFINE S == BoundaryDistance(buf, t)
<1>1. S \in SUBSET Nat /\ S # {}
  BY StateManagerAssumption DEF BoundaryDistance
<1>2. PICK d \in S : \A e \in S : d <= e
  BY <1>1, LeastNumber
<1> DEFINE first == CHOOSE x \in S : \A e \in S : x <= e
<1>3. first \in S
  BY <1>2
<1>4. first \in Nat /\ buf[At(t + first)] = Boundary
  BY <1>1, <1>3 DEF BoundaryDistance
<1> HIDE DEF first
<1>5. At(t + first) \in Ring
  BY <1>4, Masked DEF Ring
<1> QED
  BY <1>4, <1>5 DEF FirstBoundary, first

-----------------------------------------------------------------------------
(* The invariant. *)

RewindInv ==
    /\ top_ptr \in Ring /\ bottom_ptr \in Ring
    /\ ~hung => BottomIsBoundary

LEMMA InitRewindInv == Init => RewindInv
  BY StateManagerAssumption DEF Init, RewindInv, BottomIsBoundary, Ring

\* A push that does not reach the bottom ends below it.
LEMMA UncrossedIsShort ==
    ASSUME NEW n \in Nat, bottom_ptr \in Ring, top_ptr \in Ring,
           \A j \in 1 .. n : At(top_ptr + j) # bottom_ptr
    PROVE  n < BufSize
<1>1. PICK d \in 1 .. BufSize : At(top_ptr + d) = bottom_ptr
  BY LapUp
<1> QED
  BY <1>1, StateManagerAssumption

\* It comes to the bottom's cell only to put a boundary there.
LEMMA UncrossedKeepsBottom ==
    ASSUME NEW cells, Len(cells) \in Nat \ {0}, cells[1] = Boundary,
           bottom_ptr \in Ring, top_ptr \in Ring, BottomIsBoundary,
           \A j \in 1 .. Len(cells) : At(top_ptr + j) # bottom_ptr
    PROVE  \/ Written(top_ptr, cells)[bottom_ptr] = Boundary
           \/ bottom_ptr = 0 /\ Written(top_ptr, cells)[1] = Boundary
<1> USE StateManagerAssumption
<1> DEFINE buf == Written(top_ptr, cells)
<1>1. Len(cells) < BufSize
  BY UncrossedIsShort
<1>2. buf[top_ptr] = Boundary
  BY <1>1, WrittenFirst
<1>3. ASSUME NEW j \in 1 .. Len(cells), At(top_ptr + j - 1) = bottom_ptr
      PROVE  bottom_ptr = top_ptr
  <2>1. CASE j = 1
    BY <1>3, <2>1, Masked DEF Ring
  <2>2. CASE j # 1
    <3>1. j - 1 \in 1 .. Len(cells) /\ top_ptr + (j - 1) = top_ptr + j - 1
      BY <2>2 DEF Ring
    <3> QED
      BY <1>3, <3>1
  <2> QED
    BY <2>1, <2>2
<1>4. CASE bottom_ptr = top_ptr
  BY <1>2, <1>4
<1>5. CASE bottom_ptr # top_ptr
  <2>1. buf[bottom_ptr] = buffer[bottom_ptr]
    BY <1>3, <1>5, WrittenElsewhere
  <2>2. CASE buffer[bottom_ptr] = Boundary
    BY <2>1, <2>2
  <2>3. CASE bottom_ptr = 0 /\ top_ptr = 1
    BY <1>2, <2>3
  <2>4. CASE bottom_ptr = 0 /\ top_ptr # 1 /\ buffer[1] = Boundary
    <3>1. ASSUME NEW j \in 1 .. Len(cells), At(top_ptr + j - 1) = 1
          PROVE  FALSE
      <4>1. j # 1
        BY <2>4, <3>1, Masked DEF Ring
      <4>2. top_ptr \in 2 .. BufSize - 1 /\ j \in 2 .. BufSize - 1
        BY <1>1, <1>5, <2>4, <4>1 DEF Ring
      <4>3. top_ptr + j - 1 = 1 + BufSize
        <5>1. CASE top_ptr + j - 1 \in Ring
          <6>1. At(top_ptr + j - 1) = top_ptr + j - 1
            BY <5>1, Masked
          <6> QED
            BY <3>1, <4>2, <6>1
        <5>2. CASE top_ptr + j - 1 \notin Ring
          <6>1. /\ top_ptr + j - 1 - BufSize \in Ring
                /\ top_ptr + j - 1 = (top_ptr + j - 1 - BufSize) + BufSize
            BY <4>2, <5>2 DEF Ring
          <6>2. At(top_ptr + j - 1) = top_ptr + j - 1 - BufSize
            BY <6>1, Masked
          <6> QED
            BY <3>1, <6>2, <4>2
        <5> QED
          BY <5>1, <5>2
      <4>4. j - 2 \in 1 .. Len(cells) /\ top_ptr + (j - 2) = 0 + BufSize
        BY <4>2, <4>3
      <4>5. At(0 + BufSize) = 0
        BY Masked DEF Ring
      <4> QED
        BY <2>4, <4>4, <4>5
    <3>2. 1 \in Ring
      BY DEF Ring
    <3>3. buf[1] = buffer[1]
      BY <3>1, <3>2, WrittenElsewhere
    <3> QED
      BY <2>4, <3>3
  <2> QED
    BY <2>2, <2>3, <2>4 DEF BottomIsBoundary
<1> QED
  BY <1>4, <1>5

LEMMA PushInv ==
    ASSUME RewindInv, NEW new, Push(new)
    PROVE  RewindInv'
<1> USE StateManagerAssumption
<1> DEFINE cells   == DeltaCells(tmp_state, new)
           top     == At(top_ptr + Len(cells))
           buf     == Written(top_ptr, cells)
           crossed == \E j \in 1 .. Len(cells) : At(top_ptr + j) = bottom_ptr
<1>1. Len(cells) \in 1 .. StateSize + 1 /\ cells[1] = Boundary
  BY DeltaShape
<1>2. ~hung /\ buffer' = buf /\ top_ptr' = top
  BY DEF Push
<1>3. IF crossed /\ BoundaryDistance(buf, top) = {}
        THEN hung' = TRUE /\ bottom_ptr' = bottom_ptr
        ELSE bottom_ptr' = IF crossed THEN FirstBoundary(buf, top) ELSE bottom_ptr
  BY DEF Push
<1> HIDE DEF cells, buf
<1>4. top_ptr' \in Ring
  BY <1>1, <1>2, Masked DEF RewindInv, Ring
<1>5. CASE crossed /\ BoundaryDistance(buf, top) = {}
  BY <1>3, <1>4, <1>5 DEF RewindInv
<1>6. CASE crossed /\ BoundaryDistance(buf, top) # {}
  <2>1. bottom_ptr' \in Ring /\ buf[bottom_ptr'] = Boundary
    BY <1>2, <1>3, <1>4, <1>6, ScanFindsBoundary
  <2> QED
    BY <1>2, <1>4, <2>1 DEF RewindInv, BottomIsBoundary
<1>7. CASE ~crossed
  <2>1. \/ buf[bottom_ptr] = Boundary
        \/ bottom_ptr = 0 /\ buf[1] = Boundary
    BY <1>1, <1>2, <1>7, UncrossedKeepsBottom DEF RewindInv, buf
  <2> QED
    BY <1>2, <1>3, <1>4, <1>7, <2>1 DEF RewindInv, BottomIsBoundary
<1> QED
  BY <1>5, <1>6, <1>7

\* A walk of pop ends in the ring.
LEMMA WalkInRing ==
    ASSUME NEW t \in Int, NEW state, BelowDistance(t) # {}
    PROVE  Undo(t, state).at \in Ring
<1> DEFINE S == BelowDistance(t)
<1>1. S \in SUBSET Nat /\ S # {}
  BY StateManagerAssumption DEF BelowDistance
<1>2. PICK d \in S : \A e \in S : d <= e
  BY <1>1, LeastNumber
<1> DEFINE dist == CHOOSE x \in S : \A e \in S : x <= e
<1>3. dist \in Nat
  BY <1>1, <1>2
<1>4. Undo(t, state).at = At(t - dist)
  BY DEF Undo
<1> HIDE DEF dist
<1> QED
  BY <1>3, <1>4, Masked

LEMMA PopInv ==
    ASSUME RewindInv, Pop
    PROVE  RewindInv'
<1> USE StateManagerAssumption
<1>1. CASE PopFirst
  BY <1>1 DEF PopFirst, RewindInv, BottomIsBoundary
<1>2. CASE PopEmpty
  BY <1>2 DEF PopEmpty, RewindInv, BottomIsBoundary
<1>3. CASE PopDelta
  <2>1. UNCHANGED <<buffer, bottom_ptr>> /\ ~hung
    BY <1>3 DEF PopDelta
  <2>2. top_ptr \in Int /\ top_ptr - 1 \in Int
    BY DEF RewindInv, Ring
  <2>3. top_ptr' \in Ring
    <3>1. CASE BelowDistance(top_ptr - 1) = {}
      BY <1>3, <3>1 DEF PopDelta, RewindInv
    <3>2. CASE BelowDistance(top_ptr - 1) # {}
      <4> DEFINE at == Undo(top_ptr - 1, tmp_state).at
      <4>1. at \in Ring
        BY <2>2, <3>2, WalkInRing
      <4>2. top_ptr' = Settled(at)
        BY <1>3, <3>2 DEF PopDelta
      <4> HIDE DEF at
      <4> QED
        BY <4>1, <4>2, Masked DEF Settled, Ring
    <3> QED
      BY <3>1, <3>2
  <2>4. At(top_ptr - 1) # bottom_ptr
    BY <1>3 DEF PopDelta
  <2>5. ~(bottom_ptr = 0 /\ top_ptr = 1)
    BY <2>4, Masked DEF Ring
  <2> QED
    BY <2>1, <2>3, <2>5 DEF RewindInv, BottomIsBoundary
<1> QED
  BY <1>1, <1>2, <1>3 DEF Pop

LEMMA RewindNext == RewindInv /\ [Next]_vars => RewindInv'
<1>1. ASSUME RewindInv, UNCHANGED vars PROVE RewindInv'
  BY <1>1 DEF RewindInv, BottomIsBoundary, vars
<1> QED
  BY <1>1, PushInv, PopInv DEF Next

LEMMA RewindAlways == Spec => []RewindInv
  BY InitRewindInv, RewindNext, PTL DEF Spec

\* The bottom of the stack is a boundary, for rings and states of any size,
\* as long as no scan has run away (statemanager.cpp, generate_delta and
\* reassign_bottom).
THEOREM BottomIsBoundaryInv == Spec => [](~hung => BottomIsBoundary)
<1>1. RewindInv => (~hung => BottomIsBoundary)
  BY DEF RewindInv
<1> QED
  BY <1>1, RewindAlways, PTL

-----------------------------------------------------------------------------
(* In a ring of more cells than a state has words no scan runs away. *)

LEMMA PushEnds ==
    ASSUME StateSize < BufSize, RewindInv, NEW new, Push(new)
    PROVE  ~hung'
<1> USE StateManagerAssumption
<1> DEFINE cells   == DeltaCells(tmp_state, new)
           top     == At(top_ptr + Len(cells))
           buf     == Written(top_ptr, cells)
<1>1. Len(cells) \in 1 .. BufSize /\ cells[1] = Boundary
  BY DeltaShape
<1>2. buf[top_ptr] = Boundary
  BY <1>1, WrittenFirst DEF RewindInv
<1>3. top \in Ring
  BY <1>1, Masked, SMTT(20) DEF RewindInv, Ring
<1>4. \E d \in 1 .. BufSize : At(top + d) = top_ptr
  BY <1>3, LapUp DEF RewindInv
<1>5. BoundaryDistance(buf, top) # {}
  BY <1>2, <1>4 DEF BoundaryDistance
<1> QED
  BY <1>5 DEF Push

LEMMA PopEnds ==
    ASSUME RewindInv, ~hung, Pop
    PROVE  ~hung'
<1> USE StateManagerAssumption
<1>1. CASE PopFirst \/ PopEmpty
  BY <1>1 DEF PopFirst, PopEmpty
<1>2. CASE PopDelta
  <2>1. ~(bottom_ptr = 0 /\ top_ptr = 1)
    BY <1>2, Masked DEF PopDelta, Ring
  <2>2. PICK p \in Ring : buffer[p] = Boundary
    BY <2>1 DEF RewindInv, BottomIsBoundary, Ring
  <2>3. PICK d \in 0 .. BufSize - 1 : At(top_ptr - 1 - d) = p
    BY LapDown DEF RewindInv
  <2>4. BelowDistance(top_ptr - 1) # {}
    BY <2>2, <2>3 DEF BelowDistance
  <2> QED
    BY <1>2, <2>4 DEF PopDelta
<1> QED
  BY <1>1, <1>2 DEF Pop

\* With a ring of more cells than a state has words neither the scan of
\* reassign_bottom nor the walk of pop runs round the ring for ever: the cell
\* that stops it is the boundary of the newest delta or the bottom
\* (statemanager.cpp, init: "Need a sufficient buffer size").
THEOREM ScanEndsInv == StateSize < BufSize => (Spec => []ScanEnds)
<1> SUFFICES ASSUME StateSize < BufSize PROVE Spec => []ScanEnds
  OBVIOUS
<1>1. Init => ScanEnds
  BY DEF Init, ScanEnds
<1>2. RewindInv /\ ScanEnds /\ [Next]_vars => ScanEnds'
  BY PushEnds, PopEnds DEF ScanEnds, Next, vars
<1> QED
  BY <1>1, <1>2, RewindAlways, PTL DEF Spec

-----------------------------------------------------------------------------
(* The ring as a stack. Positions are told by how far they are below one.   *)

\* A set with 0 and with every number the next holds all natural numbers.
LEMMA NatSetInduction ==
    ASSUME NEW S, 0 \in S, \A n \in Nat : n \in S => n + 1 \in S
    PROVE  Nat \subseteq S
<1>1. SUFFICES ASSUME Nat \ S # {} PROVE FALSE
  OBVIOUS
<1>2. Nat \ S \in SUBSET Nat
  OBVIOUS
<1>3. PICK m \in Nat \ S : \A n \in Nat \ S : m <= n
  <2> DEFINE T == Nat \ S
  <2>1. T \in SUBSET Nat /\ T # {}
    BY <1>1
  <2> HIDE DEF T
  <2>2. \E m \in T : \A n \in T : m <= n
    BY <2>1, LeastNumber
  <2> QED
    BY <2>2 DEF T
<1>4. m # 0 /\ m - 1 \in Nat /\ m - 1 + 1 = m
  BY <1>3
<1>5. m - 1 \in S
  BY <1>3, <1>4
<1> QED
  BY <1>3, <1>4, <1>5

LEMMA AtIs ==
    \A i \in -BufSize .. 2 * BufSize - 1 :
       At(i) = IF i < 0 THEN i + BufSize ELSE IF i < BufSize THEN i ELSE i - BufSize
<1> USE StateManagerAssumption
<1> TAKE i \in -BufSize .. 2 * BufSize - 1
<1>1. CASE i < 0
  <2>1. i + BufSize \in Ring /\ (i + BufSize) - BufSize = i
    BY <1>1 DEF Ring
  <2> QED
    BY <1>1, <2>1, Masked
<1>2. CASE i \in 0 .. BufSize - 1
  BY <1>2, Masked DEF Ring
<1>3. CASE i >= BufSize
  <2>1. i - BufSize \in Ring /\ (i - BufSize) + BufSize = i
    BY <1>3 DEF Ring
  <2> QED
    BY <1>3, <2>1, Masked
<1> QED
  BY <1>1, <1>2, <1>3

\* The cell k below t.
Down(t, k) == IF k <= t THEN t - k ELSE t - k + BufSize

LEMMA DownInRing ==
    ASSUME NEW t \in Ring, NEW k \in 0 .. BufSize
    PROVE  Down(t, k) \in Ring
BY StateManagerAssumption DEF Down, Ring

LEMMA DownOnce ==
    ASSUME NEW t \in Ring, NEW j \in 1 .. BufSize, NEW k \in 1 .. BufSize,
           Down(t, j) = Down(t, k)
    PROVE  j = k
BY StateManagerAssumption DEF Down, Ring

LEMMA DownTwice ==
    ASSUME NEW t \in Ring, NEW j \in 0 .. BufSize, NEW k \in 0 .. BufSize, j + k <= BufSize
    PROVE  Down(Down(t, j), k) = Down(t, j + k)
BY StateManagerAssumption DEF Down, Ring

LEMMA EveryDown ==
    ASSUME NEW t \in Ring, NEW p \in Ring
    PROVE  \E k \in 1 .. BufSize : p = Down(t, k)
<1> USE StateManagerAssumption
<1>1. CASE p < t
  <2>1. t - p \in 1 .. BufSize /\ p = Down(t, t - p)
    BY <1>1 DEF Down, Ring
  <2> QED
    BY <2>1
<1>2. CASE ~(p < t)
  <2>1. t - p + BufSize \in 1 .. BufSize /\ p = Down(t, t - p + BufSize)
    BY <1>2 DEF Down, Ring
  <2> QED
    BY <2>1
<1> QED
  BY <1>1, <1>2

LEMMA AtDown ==
    ASSUME NEW t \in Ring, NEW k \in 0 .. BufSize
    PROVE  /\ At(t - k) = Down(t, k)
           /\ k # 0 => At(t - 1 - (k - 1)) = Down(t, k)
           /\ k # 0 => At(Down(t, k) + 1) = Down(t, k - 1)
BY StateManagerAssumption, AtIs DEF Down, Ring

-----------------------------------------------------------------------------
(* The walk of pop, in any ring.                                            *)

Nearest(S) == CHOOSE d \in S : \A e \in S : d <= e

BelowIn(buf, t) == {d \in 0 .. BufSize - 1 : buf[At(t - d)] = Boundary}

UndoIn(buf, t, state) ==
    LET dist == Nearest(BelowIn(buf, t))
    IN  [at    |-> At(t - dist),
         state |-> Patched([n \in 1 .. dist |-> buf[At(t - n + 1)]], state)]

EndIn(buf, bot, t) == At(t - 1) = bot \/ BelowIn(buf, t - 1) = {}

SettledIn(bot, at) == IF at = bot THEN At(at + 1) ELSE at

RewindIn(buf, bot) ==
    [r \in Position |->
        IF EndIn(buf, bot, r.at) THEN r
        ELSE LET u == UndoIn(buf, r.at - 1, Head(r.states))
             IN  [at |-> SettledIn(bot, u.at), states |-> <<u.state>> \o r.states]]

RewoundIn(buf, bot, top, state) ==
    LET f[n \in 0 .. BufSize] ==
          IF n = 0 THEN [at |-> top, states |-> <<state>>] ELSE RewindIn(buf, bot)[f[n - 1]]
    IN  f

LEMMA UndoIs ==
    \A t, state : Undo(t, state) = UndoIn(buffer, t, state)
BY DEF Undo, UndoIn, BelowDistance, BelowIn, Nearest

LEMMA ReachableIs ==
    Reachable = RewoundIn(buffer, bottom_ptr, top_ptr, tmp_state)[BufSize].states
BY DEF Reachable, Rewound, Rewind, Position, AtBottom, Undo, Settled, RewoundIn, RewindIn, EndIn, UndoIn,
       SettledIn, BelowDistance, BelowIn, Nearest

LEMMA ReachableIsNext ==
    Reachable' = RewoundIn(buffer', bottom_ptr', top_ptr', tmp_state')[BufSize].states
BY DEF Reachable, Rewound, Rewind, Position, AtBottom, Undo, Settled, RewoundIn, RewindIn, EndIn, UndoIn,
       SettledIn, BelowDistance, BelowIn, Nearest

\* The rewinds that can be made from a top: where each comes to, and what it loads.
IsWalk(buf, bot, top, state, last, at, loads) ==
    /\ last \in 0 .. BufSize - 1
    /\ at \in [0 .. last -> Ring] /\ loads \in [0 .. last -> State]
    /\ at[0] = top /\ loads[0] = state
    /\ \A n \in 1 .. last :
          /\ ~EndIn(buf, bot, at[n - 1])
          /\ at[n] = SettledIn(bot, UndoIn(buf, at[n - 1] - 1, loads[n - 1]).at)
          /\ loads[n] = UndoIn(buf, at[n - 1] - 1, loads[n - 1]).state
    /\ EndIn(buf, bot, at[last])

StackOf(last, loads) == [i \in 1 .. last + 1 |-> loads[last + 1 - i]]

LEMMA StackGrows ==
    ASSUME NEW n \in Nat, NEW loads, \A i \in 0 .. n + 1 : loads[i] \in State
    PROVE  /\ StackOf(n, loads) \in Seq(State) /\ Head(StackOf(n, loads)) = loads[n]
           /\ <<loads[n + 1]>> \o StackOf(n, loads) = StackOf(n + 1, loads)
<1> DEFINE s == StackOf(n, loads)
           q == <<loads[n + 1]>> \o s
           g == StackOf(n + 1, loads)
<1>1. s \in Seq(State) /\ Len(s) = n + 1
  <2>1. \A i \in 1 .. n + 1 : loads[n + 1 - i] \in State
    OBVIOUS
  <2> QED
    BY <2>1 DEF StackOf
<1>2. Head(s) = loads[n]
  <2>1. Head(s) = s[1]
    BY <1>1
  <2>2. s[1] = loads[n + 1 - 1]
    BY DEF StackOf
  <2> QED
    BY <2>1, <2>2
<1>3. g \in Seq(State) /\ Len(g) = n + 2
  <2>1. \A i \in 1 .. n + 2 : loads[n + 2 - i] \in State
    OBVIOUS
  <2>2. g = [i \in 1 .. n + 2 |-> loads[n + 2 - i]]
    BY DEF StackOf
  <2> QED
    BY <2>1, <2>2
<1>4. q \in Seq(State) /\ Len(q) = n + 2
  <2>1. loads[n + 1] \in State
    OBVIOUS
  <2> HIDE DEF s
  <2> QED
    BY <1>1, <2>1
<1>5. ASSUME NEW i \in 1 .. n + 2
      PROVE  q[i] = g[i]
  <2>1. g[i] = loads[n + 2 - i]
    BY DEF StackOf
  <2>2. CASE i = 1
    <3> HIDE DEF s
    <3> QED
      BY <1>1, <2>1, <2>2
  <2>3. CASE i # 1
    <3>1. q[i] = s[i - 1]
      <4> HIDE DEF s
      <4> QED
        BY <1>1, <2>3
    <3>2. s[i - 1] = loads[n + 1 - (i - 1)] /\ n + 1 - (i - 1) = n + 2 - i
      BY <2>3 DEF StackOf
    <3> QED
      BY <2>1, <3>1, <3>2
  <2> QED
    BY <2>2, <2>3
<1> HIDE DEF s, q, g
<1>6. q = g
  BY <1>3, <1>4, <1>5
<1> QED
  BY <1>1, <1>2, <1>6 DEF s, q, g

LEMMA WalkIsStack ==
    ASSUME NEW buf, NEW bot, NEW top, NEW state, NEW last, NEW at, NEW loads,
           IsWalk(buf, bot, top, state, last, at, loads)
    PROVE  RewoundIn(buf, bot, top, state)[BufSize].states = StackOf(last, loads)
<1> USE StateManagerAssumption
<1> DEFINE first == [at |-> top, states |-> <<state>>]
           g == [n \in 0 .. BufSize |->
                   IF n <= last THEN [at |-> at[n], states |-> StackOf(n, loads)]
                   ELSE [at |-> at[last], states |-> StackOf(last, loads)]]
           Eq(f) == f = [n \in 0 .. BufSize |->
                           IF n = 0 THEN first ELSE RewindIn(buf, bot)[f[n - 1]]]
           f == RewoundIn(buf, bot, top, state)
           Recs == Position
<1>1. /\ last \in Nat /\ last < BufSize
      /\ at \in [0 .. last -> Ring] /\ loads \in [0 .. last -> State]
      /\ at[0] = top /\ loads[0] = state
  BY DEF IsWalk
<1>2. \A n \in 0 .. last : [at |-> at[n], states |-> StackOf(n, loads)] \in Recs
  <2> TAKE n \in 0 .. last
  <2>1. StackOf(n, loads) \in Seq(State)
    <3>1. \A i \in 1 .. n + 1 : loads[n + 1 - i] \in State
      BY <1>1
    <3> QED
      BY <3>1 DEF StackOf
  <2> QED
    BY <1>1, <2>1 DEF Position
<1>3. g[0] = first
  <2>1. StackOf(0, loads) = <<state>>
    BY <1>1 DEF StackOf
  <2> QED
    BY <1>1, <2>1
<1>4. ASSUME NEW n \in 1 .. BufSize
      PROVE  g[n] = RewindIn(buf, bot)[g[n - 1]]
  <2>1. CASE n <= last
    <3> DEFINE r == [at |-> at[n - 1], states |-> StackOf(n - 1, loads)]
    <3>1. g[n - 1] = r /\ r \in Recs /\ n - 1 \in 0 .. last /\ n - 1 + 1 = n
      BY <1>1, <1>2, <2>1
    <3>2. \A i \in 0 .. n - 1 + 1 : loads[i] \in State
      BY <1>1, <2>1
    <3>3. /\ Head(StackOf(n - 1, loads)) = loads[n - 1]
          /\ <<loads[n - 1 + 1]>> \o StackOf(n - 1, loads) = StackOf(n - 1 + 1, loads)
      BY <3>1, <3>2, StackGrows
    <3>4. /\ ~EndIn(buf, bot, at[n - 1])
          /\ at[n] = SettledIn(bot, UndoIn(buf, at[n - 1] - 1, loads[n - 1]).at)
          /\ loads[n] = UndoIn(buf, at[n - 1] - 1, loads[n - 1]).state
      BY <1>1, <2>1 DEF IsWalk
    <3>5. r.at = at[n - 1] /\ Head(r.states) = loads[n - 1]
          /\ <<loads[n]>> \o r.states = StackOf(n, loads)
      BY <3>1, <3>3
    <3>6. g[n] = [at |-> at[n], states |-> StackOf(n, loads)]
      BY <1>1, <2>1
    <3> HIDE DEF g, r
    <3>7. RewindIn(buf, bot)[r]
            = [at |-> SettledIn(bot, UndoIn(buf, r.at - 1, Head(r.states)).at),
               states |-> <<UndoIn(buf, r.at - 1, Head(r.states)).state>> \o r.states]
      BY <3>1, <3>4, <3>5 DEF RewindIn
    <3> QED
      BY <3>1, <3>4, <3>5, <3>6, <3>7
  <2>2. CASE ~(n <= last)
    <3> DEFINE r == [at |-> at[last], states |-> StackOf(last, loads)]
    <3>1. g[n] = r /\ g[n - 1] = r
      BY <1>1, <2>2
    <3>2. r \in Recs /\ EndIn(buf, bot, r.at)
      BY <1>1, <1>2 DEF IsWalk
    <3> HIDE DEF g, r
    <3>3. RewindIn(buf, bot)[r] = r
      BY <3>2 DEF RewindIn
    <3> QED
      BY <3>1, <3>3
  <2> QED
    BY <2>1, <2>2
<1>5. Eq(g)
  <2>1. \A n \in 0 .. BufSize : n # 0 => n \in 1 .. BufSize
    OBVIOUS
  <2> HIDE DEF first
  <2>2. g = [n \in 0 .. BufSize |-> g[n]]
    OBVIOUS
  <2> HIDE DEF g
  <2> QED
    BY <1>3, <1>4, <2>1, <2>2
<1>6. f = CHOOSE h : Eq(h)
  BY DEF RewoundIn
<1>7. Eq(f)
  <2> HIDE DEF Eq, f
  <2> QED
    BY <1>5, <1>6
<1> HIDE DEF f, g, first
<1>8. f[0] = first /\ \A n \in 1 .. BufSize : f[n] = RewindIn(buf, bot)[f[n - 1]]
  BY <1>7
<1>9. \A n \in Nat : n <= BufSize => f[n] = g[n]
  <2> DEFINE T == {n \in Nat : n <= BufSize => f[n] = g[n]}
  <2>1. 0 \in T
    BY <1>3, <1>8
  <2>2. ASSUME NEW n \in Nat, n \in T
        PROVE  n + 1 \in T
    <3>1. CASE n + 1 <= BufSize
      <4>1. PICK m \in 1 .. BufSize : m = n + 1 /\ m - 1 = n
        BY <3>1
      <4>2. f[m] = RewindIn(buf, bot)[f[m - 1]] /\ g[m] = RewindIn(buf, bot)[g[m - 1]]
        BY <1>4, <1>8
      <4>3. f[n] = g[n]
        BY <2>2, <3>1
      <4> QED
        BY <4>1, <4>2, <4>3
    <3> QED
      BY <3>1
  <2> HIDE DEF T
  <2>3. Nat \subseteq T
    BY <2>1, <2>2, NatSetInduction
  <2> QED
    BY <2>3 DEF T
<1>10. f[BufSize] = g[BufSize]
  BY <1>9
<1>11. g[BufSize].states = StackOf(last, loads)
  BY <1>1 DEF g
<1> QED
  BY <1>10, <1>11 DEF f

-----------------------------------------------------------------------------
(* What the xors of a walk make of a state.                                 *)

PatchOne(s, c) == [s EXCEPT ![c[1]] = Xor(@, c[2])]

LEMMA PatchedIs ==
    ASSUME NEW cells, NEW state, NEW g, Len(cells) \in Nat, g[0] = state,
           \A n \in 1 .. Len(cells) : g[n] = PatchOne(g[n - 1], cells[n])
    PROVE  Patched(cells, state) = g[Len(cells)]
<1> DEFINE m == Len(cells)
           Eq(f) == f = [n \in 0 .. m |->
                           IF n = 0 THEN state
                           ELSE LET c == cells[n] IN [f[n - 1] EXCEPT ![c[1]] = Xor(@, c[2])]]
           h == [n \in 0 .. m |-> g[n]]
           f == CHOOSE x : Eq(x)
<1>1. Patched(cells, state) = f[m]
  BY DEF Patched
<1>2. Eq(h)
  <2>1. ASSUME NEW n \in 0 .. m, n # 0
        PROVE  h[n] = PatchOne(h[n - 1], cells[n])
    <3>1. n \in 1 .. m /\ n - 1 \in 0 .. m
      BY <2>1
    <3> QED
      BY <3>1
  <2>2. h[0] = state
    OBVIOUS
  <2>3. h = [n \in 0 .. m |-> h[n]]
    OBVIOUS
  <2> HIDE DEF h
  <2>4. h = [n \in 0 .. m |-> IF n = 0 THEN state ELSE PatchOne(h[n - 1], cells[n])]
    BY <2>1, <2>2, <2>3
  <2> QED
    BY <2>4 DEF PatchOne
<1>3. Eq(f)
  <2> HIDE DEF Eq, h
  <2> QED
    BY <1>2
<1> HIDE DEF f
<1>4. f = [n \in 0 .. m |-> IF n = 0 THEN state ELSE PatchOne(f[n - 1], cells[n])]
  BY <1>3 DEF PatchOne
<1>5. f[0] = state /\ \A n \in 1 .. m : f[n] = PatchOne(f[n - 1], cells[n])
  BY <1>4
<1>6. \A n \in Nat : n <= m => f[n] = g[n]
  <2> DEFINE T == {n \in Nat : n <= m => f[n] = g[n]}
  <2>1. 0 \in T
    BY <1>5
  <2>2. ASSUME NEW n \in Nat, n \in T
        PROVE  n + 1 \in T
    <3>1. CASE n + 1 <= m
      <4>1. PICK k \in 1 .. m : k = n + 1 /\ k - 1 = n
        BY <3>1
      <4>2. f[k] = PatchOne(f[k - 1], cells[k]) /\ g[k] = PatchOne(g[k - 1], cells[k])
        BY <1>5, <4>1
      <4>3. f[n] = g[n]
        BY <2>2, <3>1
      <4> QED
        BY <4>1, <4>2, <4>3
    <3> QED
      BY <3>1
  <2> HIDE DEF T
  <2>3. Nat \subseteq T
    BY <2>1, <2>2, NatSetInduction
  <2> QED
    BY <2>3 DEF T
<1> QED
  BY <1>1, <1>6

LEMMA PatchOneIsState ==
    ASSUME NEW s \in State, NEW c \in Words \X Word
    PROVE  PatchOne(s, c) \in State
<1>1. c[1] \in Words /\ c[2] \in Word /\ s[c[1]] \in Word
  BY DEF State
<1>2. Xor(s[c[1]], c[2]) \in Word
  BY <1>1 DEF Xor, Word
<1> QED
  BY <1>1, <1>2 DEF PatchOne, State

LEMMA PatchedIsState ==
    ASSUME NEW cells, NEW state \in State, Len(cells) \in Nat,
           \A n \in 1 .. Len(cells) : cells[n] \in Words \X Word
    PROVE  Patched(cells, state) \in State
<1> DEFINE m == Len(cells)
           Up(g, k) == /\ g \in [0 .. k -> State] /\ g[0] = state
                       /\ \A n \in 1 .. k : g[n] = PatchOne(g[n - 1], cells[n])
           T == {k \in Nat : k <= m => \E g : Up(g, k)}
<1>1. 0 \in T
  <2> DEFINE g0 == [n \in 0 .. 0 |-> state]
  <2>1. g0 \in [0 .. 0 -> State] /\ g0[0] = state /\ 1 .. 0 = {}
    OBVIOUS
  <2> HIDE DEF g0
  <2>2. Up(g0, 0)
    BY <2>1
  <2> QED
    BY <2>2
<1>2. ASSUME NEW k \in Nat, k \in T
      PROVE  k + 1 \in T
  <2>1. CASE k + 1 <= m
    <3>1. PICK g : Up(g, k)
      BY <1>2, <2>1
    <3> DEFINE h == [n \in 0 .. k + 1 |-> IF n = k + 1 THEN PatchOne(g[k], cells[k + 1]) ELSE g[n]]
    <3>2. PatchOne(g[k], cells[k + 1]) \in State
      <4>1. g[k] \in State
        BY <3>1
      <4>2. cells[k + 1] \in Words \X Word
        BY <2>1
      <4> QED
        BY <4>1, <4>2, PatchOneIsState
    <3>3. h \in [0 .. k + 1 -> State] /\ h[0] = state
      BY <3>1, <3>2
    <3>4. ASSUME NEW n \in 1 .. k + 1
          PROVE  h[n] = PatchOne(h[n - 1], cells[n])
      <4>1. h[n - 1] = g[n - 1]
        OBVIOUS
      <4>2. CASE n = k + 1
        <5>1. h[n] = PatchOne(g[k], cells[k + 1]) /\ n - 1 = k
          BY <4>2
        <5> QED
          BY <4>1, <4>2, <5>1
      <4>3. CASE n # k + 1
        <5>1. h[n] = g[n] /\ n \in 1 .. k
          BY <4>3
        <5> QED
          BY <3>1, <4>1, <5>1
      <4> QED
        BY <4>2, <4>3
    <3> HIDE DEF h
    <3>5. Up(h, k + 1)
      BY <3>3, <3>4
    <3> QED
      BY <3>5
  <2> QED
    BY <2>1
<1> HIDE DEF T
<1>3. m \in T
  BY <1>1, <1>2, NatSetInduction
<1>4. PICK g : Up(g, m)
  BY <1>3 DEF T
<1>5. Patched(cells, state) = g[m]
  BY <1>4, PatchedIs
<1> QED
  BY <1>4, <1>5

\* The words that changed, in the order of their indices: each of them once.
LEMMA EachOnce ==
    ASSUME NEW S \in SUBSET Words
    PROVE  /\ IsFiniteSet(S) /\ Cardinality(S) \in Nat
           /\ \A n \in 1 .. Cardinality(S) : NthOf(S, n) \in S
           /\ \A w \in S : \E n \in 1 .. Cardinality(S) : NthOf(S, n) = w
           /\ \A m, n \in 1 .. Cardinality(S) : NthOf(S, m) = NthOf(S, n) => m = n
<1> DEFINE c == Cardinality(S)
           Less(w) == {v \in S : v < w}
           rank == [w \in S |-> Cardinality(Less(w)) + 1]
<1>1. IsFiniteSet(S) /\ c \in Nat
  <2>1. IsFiniteSet(Words)
    BY FS_Interval, StateManagerAssumption DEF Words
  <2> QED
    BY <2>1, FS_Subset, FS_CardinalityType
<1>2. \A w \in S : w \in Int
  BY DEF Words
<1>3. ASSUME NEW w \in S
      PROVE  /\ IsFiniteSet(Less(w)) /\ Cardinality(Less(w)) \in Nat
             /\ Cardinality(Less(w)) < c
  <2>1. Less(w) \in SUBSET S /\ w \notin Less(w)
    BY <1>2
  <2> HIDE DEF Less
  <2>2. /\ IsFiniteSet(Less(w)) /\ Cardinality(Less(w)) <= c
        /\ c = Cardinality(Less(w)) => S = Less(w)
    BY <1>1, <2>1, FS_Subset
  <2>3. Cardinality(Less(w)) \in Nat
    BY <2>2, FS_CardinalityType
  <2> QED
    BY <1>1, <1>3, <2>1, <2>2, <2>3
<1>4. rank \in [S -> 1 .. c]
  <2> DEFINE below(w) == Cardinality(Less(w))
  <2>1. \A w \in S : below(w) \in Nat /\ below(w) < c
    BY <1>3
  <2> HIDE DEF below, c
  <2>2. \A w \in S : below(w) + 1 \in 1 .. c
    BY <1>1, <2>1
  <2>3. rank = [w \in S |-> below(w) + 1]
    BY DEF below
  <2> HIDE DEF rank
  <2> QED
    BY <2>2, <2>3
<1>5. ASSUME NEW v \in S, NEW w \in S, v < w
      PROVE  Cardinality(Less(v)) < Cardinality(Less(w))
  <2>1. Less(v) \in SUBSET Less(w) /\ v \in Less(w) /\ v \notin Less(v)
    BY <1>2, <1>5
  <2>2. /\ IsFiniteSet(Less(w)) /\ Cardinality(Less(w)) \in Nat /\ Cardinality(Less(v)) \in Nat
    BY <1>3
  <2> HIDE DEF Less
  <2>3. /\ Cardinality(Less(v)) <= Cardinality(Less(w))
        /\ Cardinality(Less(w)) = Cardinality(Less(v)) => Less(w) = Less(v)
    BY <2>1, <2>2, FS_Subset
  <2> QED
    BY <2>1, <2>2, <2>3
<1>6. rank \in Injection(S, 1 .. c)
  <2>1. ASSUME NEW v \in S, NEW w \in S, rank[v] = rank[w]
        PROVE  v = w
    <3>1. Cardinality(Less(v)) = Cardinality(Less(w))
      <4>1. rank[v] = Cardinality(Less(v)) + 1 /\ rank[w] = Cardinality(Less(w)) + 1
        OBVIOUS
      <4>2. Cardinality(Less(v)) \in Nat /\ Cardinality(Less(w)) \in Nat
        BY <1>3
      <4>3. \A i, j \in Nat : i + 1 = j + 1 => i = j
        OBVIOUS
      <4>4. Cardinality(Less(v)) + 1 = Cardinality(Less(w)) + 1
        BY <2>1, <4>1, Zenon
      <4> QED
        BY <4>2, <4>3, <4>4, Zenon
    <3>2. Cardinality(Less(v)) \in Nat /\ Cardinality(Less(w)) \in Nat
      BY <1>3
    <3>3. ~(v < w) /\ ~(w < v)
      <4> HIDE DEF Less
      <4> QED
        BY <1>5, <3>1, <3>2
    <3> QED
      BY <1>2, <3>3
  <2> HIDE DEF rank
  <2> QED
    BY <1>4, <2>1 DEF Injection, IsInjective
<1>7. rank \in Surjection(S, 1 .. c)
  <2>1. IsFiniteSet(1 .. c) /\ Cardinality(1 .. c) = c
    BY <1>1, FS_Interval
  <2> HIDE DEF rank
  <2> QED
    BY <1>1, <1>6, <2>1, FS_Injection
<1>8. ASSUME NEW n \in 1 .. c
      PROVE  NthOf(S, n) \in S /\ rank[NthOf(S, n)] = n
  <2>1. PICK w \in S : rank[w] = n
    <3> HIDE DEF rank
    <3> QED
      BY <1>7 DEF Surjection
  <2>2. Cardinality(Less(w)) = n - 1
    <3>1. rank[w] = Cardinality(Less(w)) + 1 /\ Cardinality(Less(w)) \in Nat
      BY <1>3
    <3> HIDE DEF rank, Less
    <3> QED
      BY <2>1, <3>1
  <2>3. NthOf(S, n) \in S /\ Cardinality(Less(NthOf(S, n))) = n - 1
    <3>1. NthOf(S, n) = CHOOSE x \in S : Cardinality(Less(x)) = n - 1
      BY DEF NthOf
    <3> HIDE DEF Less
    <3> QED
      BY <2>2, <3>1
  <2>4. rank[NthOf(S, n)] = Cardinality(Less(NthOf(S, n))) + 1
    BY <2>3
  <2> HIDE DEF rank, Less
  <2> QED
    BY <2>3, <2>4
<1> HIDE DEF rank
<1>9. ASSUME NEW w \in S
      PROVE  \E n \in 1 .. c : NthOf(S, n) = w
  <2>1. rank[w] \in 1 .. c
    BY <1>4
  <2>2. NthOf(S, rank[w]) \in S /\ rank[NthOf(S, rank[w])] = rank[w]
    BY <1>8, <2>1
  <2>3. NthOf(S, rank[w]) = w
    BY <1>6, <2>2 DEF Injection, IsInjective
  <2> QED
    BY <2>1, <2>3
<1> QED
  BY <1>1, <1>8, <1>9

LEMMA DeltaWordsAre ==
    ASSUME NEW old \in State, NEW new \in State
    PROVE  LET W == DeltaWords(old, new)
               c == Cardinality(Changed(old, new))
           IN  /\ c \in Nat /\ W = [n \in 1 .. c |-> W[n]] /\ Len(W) = c /\ W \in Seq(Cell)
               /\ \A n \in 1 .. c :
                     /\ W[n] \in Words \X (Word \ {{}}) /\ W[n] # Boundary
                     /\ W[n][2] = Xor(old[W[n][1]], new[W[n][1]])
               /\ \A w \in Words : old[w] # new[w] <=> \E n \in 1 .. c : W[n][1] = w
               /\ \A m, n \in 1 .. c : W[m][1] = W[n][1] => m = n
<1> DEFINE S == Changed(old, new)
           c == Cardinality(S)
           W == DeltaWords(old, new)
<1>1. S \in SUBSET Words
  BY DEF Changed
<1>2. /\ c \in Nat
      /\ \A n \in 1 .. c : NthOf(S, n) \in S
      /\ \A w \in S : \E n \in 1 .. c : NthOf(S, n) = w
      /\ \A m, n \in 1 .. c : NthOf(S, m) = NthOf(S, n) => m = n
  <2> HIDE DEF S
  <2> QED
    BY <1>1, EachOnce
<1>3. /\ W = [n \in 1 .. c |-> W[n]]
      /\ \A n \in 1 .. c : W[n] = <<NthOf(S, n), Xor(old[NthOf(S, n)], new[NthOf(S, n)])>>
  BY DEF DeltaWords
<1> HIDE DEF W
<1>4. ASSUME NEW n \in 1 .. c
      PROVE  /\ W[n][1] = NthOf(S, n) /\ W[n] \in Words \X (Word \ {{}}) /\ W[n] # Boundary
             /\ W[n][2] = Xor(old[W[n][1]], new[W[n][1]])
  <2>1. PICK w \in Words : w = NthOf(S, n) /\ old[w] # new[w]
    BY <1>2 DEF Changed
  <2>2. old[w] \in Word /\ new[w] \in Word
    BY DEF State
  <2>3. Xor(old[w], new[w]) \in Word \ {{}}
    BY <2>1, <2>2 DEF Xor, Word
  <2>4. W[n] = <<w, Xor(old[w], new[w])>>
    BY <1>3, <2>1
  <2> QED
    BY <2>1, <2>3, <2>4 DEF Boundary
<1>5. Len(W) = c /\ W \in Seq(Cell)
  <2>1. \A n \in 1 .. c : W[n] \in Cell
    BY <1>4 DEF Cell
  <2> HIDE DEF c
  <2> QED
    BY <1>2, <1>3, <2>1
<1>6. \A w \in Words : old[w] # new[w] <=> \E n \in 1 .. c : W[n][1] = w
  <2>1. \A w \in Words : old[w] # new[w] <=> w \in S
    BY DEF Changed
  <2> HIDE DEF S
  <2> QED
    BY <1>2, <1>4, <2>1
<1>7. \A m, n \in 1 .. c : W[m][1] = W[n][1] => m = n
  BY <1>2, <1>4
<1> QED
  BY <1>2, <1>3, <1>4, <1>5, <1>6, <1>7 DEF W

\* A delta, walked from its top, turns the new state into the old one.
LEMMA DeltaUndone ==
    ASSUME NEW old \in State, NEW new \in State, NEW c, c = Len(DeltaWords(old, new))
    PROVE  Patched([n \in 1 .. c |-> DeltaWords(old, new)[c + 1 - n]], new) = old
<1> DEFINE W == DeltaWords(old, new)
           cells == [n \in 1 .. c |-> W[c + 1 - n]]
           word(n) == W[c + 1 - n][1]
           g == [n \in 0 .. c |->
                   [w \in Words |-> IF \E k \in 1 .. n : word(k) = w THEN old[w] ELSE new[w]]]
<1>1. /\ c \in Nat
      /\ \A n \in 1 .. c : /\ W[n] \in Words \X (Word \ {{}})
                           /\ W[n][2] = Xor(old[W[n][1]], new[W[n][1]])
      /\ \A w \in Words : old[w] # new[w] <=> \E n \in 1 .. c : W[n][1] = w
      /\ \A m, n \in 1 .. c : W[m][1] = W[n][1] => m = n
  BY DeltaWordsAre
<1> HIDE DEF W
<1>2. /\ \A n \in 1 .. c : /\ cells[n] = W[c + 1 - n] /\ word(n) \in Words
                           /\ cells[n][1] = word(n)
                           /\ cells[n][2] = Xor(old[word(n)], new[word(n)])
      /\ \A w \in Words : old[w] # new[w] <=> \E n \in 1 .. c : word(n) = w
      /\ \A m, n \in 1 .. c : word(m) = word(n) => m = n
  <2>1. \A n \in 1 .. c : c + 1 - n \in 1 .. c /\ c + 1 - (c + 1 - n) = n
    BY <1>1
  <2>2. ASSUME NEW n \in 1 .. c
        PROVE  /\ cells[n] = W[c + 1 - n] /\ word(n) \in Words /\ cells[n][1] = word(n)
               /\ cells[n][2] = Xor(old[word(n)], new[word(n)])
    BY <1>1, <2>1
  <2>3. ASSUME NEW w \in Words, NEW n \in 1 .. c, W[n][1] = w
        PROVE  \E k \in 1 .. c : word(k) = w
    <3>1. word(c + 1 - n) = w
      BY <2>1, <2>3
    <3> QED
      BY <2>1, <3>1
  <2>4. \A m, n \in 1 .. c : word(m) = word(n) => m = n
    <3>1. TAKE m, n \in 1 .. c
    <3>2. HAVE word(m) = word(n)
    <3>3. c + 1 - m = c + 1 - n
      BY <1>1, <2>1, <3>2
    <3> QED
      BY <1>1, <3>3
  <2> QED
    BY <1>1, <2>1, <2>2, <2>3, <2>4
<1>3. cells = [n \in 1 .. c |-> cells[n]] /\ Len(cells) = c
  BY <1>1
<1> HIDE DEF cells, word
<1>4. g[0] = new
  <2>1. g[0] = [w \in Words |-> new[w]]
    BY <1>1
  <2> QED
    BY <2>1 DEF State
<1>5. ASSUME NEW n \in 1 .. c
      PROVE  g[n] = PatchOne(g[n - 1], cells[n])
  <2> DEFINE a == word(n)
             s == g[n - 1]
  <2>1. n - 1 \in 0 .. c /\ n \in 0 .. c /\ c \in Nat
    BY <1>1
  <2>2. s = [w \in Words |-> IF \E k \in 1 .. n - 1 : word(k) = w THEN old[w] ELSE new[w]]
    BY <2>1
  <2>3. g[n] = [w \in Words |-> IF \E k \in 1 .. n : word(k) = w THEN old[w] ELSE new[w]]
    BY <2>1
  <2>4. a \in Words /\ cells[n][1] = a /\ cells[n][2] = Xor(old[a], new[a])
    BY <1>2
  <2> HIDE DEF g, s
  <2>5. s[a] = new[a]
    <3>1. ~\E k \in 1 .. n - 1 : word(k) = a
      BY <1>2, <2>1
    <3> QED
      BY <2>2, <2>4, <3>1
  <2>6. PatchOne(s, cells[n]) = [w \in Words |-> IF w = a THEN Xor(s[a], Xor(old[a], new[a])) ELSE s[w]]
    BY <2>2, <2>4 DEF PatchOne
  <2>7. Xor(new[a], Xor(old[a], new[a])) = old[a]
    BY DEF Xor
  <2>8. ASSUME NEW w \in Words
        PROVE  (IF w = a THEN old[a] ELSE s[w])
                 = IF \E k \in 1 .. n : word(k) = w THEN old[w] ELSE new[w]
    <3>1. CASE w = a
      BY <3>1 DEF a
    <3>2. CASE w # a
      <4>1. (\E k \in 1 .. n : word(k) = w) <=> \E k \in 1 .. n - 1 : word(k) = w
        <5>1. \A k \in 1 .. n : k = n \/ k \in 1 .. n - 1
          BY <2>1
        <5>2. \A k \in 1 .. n - 1 : k \in 1 .. n
          BY <2>1
        <5> QED
          BY <3>2, <5>1, <5>2 DEF a
      <4> QED
        BY <2>2, <3>2, <4>1
    <3> QED
      BY <3>1, <3>2
  <2> HIDE DEF a
  <2> QED
    BY <2>3, <2>5, <2>6, <2>7, <2>8 DEF s
<1>6. Patched(cells, new) = g[c]
  <2> HIDE DEF g
  <2> QED
    BY <1>1, <1>3, <1>4, <1>5, PatchedIs
<1>7. g[c] = old
  <2>1. g[c] = [w \in Words |-> IF \E k \in 1 .. c : word(k) = w THEN old[w] ELSE new[w]]
    BY <1>1
  <2>2. g[c] = [w \in Words |-> old[w]]
    <3> HIDE DEF g
    <3> QED
      BY <1>2, <2>1
  <2> QED
    BY <2>2 DEF State
<1> QED
  BY <1>6, <1>7 DEF cells, W

-----------------------------------------------------------------------------
(* Walks, one rewind at a time.                                             *)

\* A rewind stops at the nearest boundary below.
IsNearest(buf, t, k) ==
    /\ k \in 1 .. BufSize /\ buf[Down(t, k)] = Boundary
    /\ \A i \in 1 .. k - 1 : buf[Down(t, i)] # Boundary

\* The cells it comes by.
RunOf(buf, t, k) == [n \in 1 .. k - 1 |-> buf[Down(t, n)]]

LEMMA StepIs ==
    ASSUME NEW buf, NEW t, NEW state, NEW k, t \in Ring, IsNearest(buf, t, k)
    PROVE  /\ BelowIn(buf, t - 1) # {}
           /\ UndoIn(buf, t - 1, state).at = Down(t, k)
           /\ UndoIn(buf, t - 1, state).state = Patched(RunOf(buf, t, k), state)
<1> USE StateManagerAssumption
<1> DEFINE S == BelowIn(buf, t - 1)
<1>0. /\ k \in 1 .. BufSize /\ buf[Down(t, k)] = Boundary
      /\ \A i \in 1 .. k - 1 : buf[Down(t, i)] # Boundary
  BY DEF IsNearest
<1>1. \A d \in 0 .. BufSize - 1 : At(t - 1 - d) = Down(t, d + 1)
  <2> TAKE d \in 0 .. BufSize - 1
  <2>1. d + 1 \in 0 .. BufSize /\ d + 1 # 0 /\ d + 1 - 1 = d
    OBVIOUS
  <2> QED
    BY <2>1, AtDown
<1>2. \A d \in 0 .. BufSize - 1 : d \in S <=> buf[Down(t, d + 1)] = Boundary
  BY <1>1 DEF BelowIn
<1>3. S \in SUBSET (0 .. BufSize - 1)
  BY DEF BelowIn
<1> HIDE DEF S
<1>4. k - 1 \in S
  <2>1. k - 1 \in 0 .. BufSize - 1 /\ k - 1 + 1 = k
    BY <1>0
  <2> QED
    BY <1>0, <1>2, <2>1
<1>5. ASSUME NEW e \in S
      PROVE  k - 1 <= e
  <2>1. e \in 0 .. BufSize - 1 /\ buf[Down(t, e + 1)] = Boundary
    BY <1>2, <1>3
  <2>2. e + 1 \notin 1 .. k - 1
    BY <1>0, <2>1
  <2> QED
    BY <1>0, <2>1, <2>2
<1>6. Nearest(S) = k - 1
  <2>1. \A d \in S : (\A e \in S : d <= e) => d = k - 1
    <3> TAKE d \in S
    <3>1. HAVE \A e \in S : d <= e
    <3>2. d <= k - 1 /\ k - 1 <= d /\ d \in Int /\ k - 1 \in Int
      BY <1>0, <1>3, <1>4, <1>5, <3>1
    <3> QED
      BY <3>2
  <2> QED
    BY <1>4, <1>5, <2>1 DEF Nearest
<1>7. At(t - 1 - (k - 1)) = Down(t, k)
  BY <1>0, AtDown
<1>8. [n \in 1 .. k - 1 |-> buf[At(t - 1 - n + 1)]] = [n \in 1 .. k - 1 |-> buf[Down(t, n)]]
  <2>1. ASSUME NEW n \in 1 .. k - 1
        PROVE  At(t - 1 - n + 1) = Down(t, n)
    <3>1. n \in 0 .. BufSize /\ t - 1 - n + 1 = t - n
      BY <1>0 DEF Ring
    <3> QED
      BY <3>1, AtDown
  <2> QED
    BY <2>1
<1> QED
  BY <1>4, <1>6, <1>7, <1>8 DEF UndoIn, S, RunOf

LEMMA NearestBoundary ==
    ASSUME NEW buf, NEW t \in Ring, NEW j \in 1 .. BufSize, buf[Down(t, j)] = Boundary
    PROVE  \E k \in 1 .. j : IsNearest(buf, t, k)
<1> DEFINE S == {i \in 1 .. BufSize : buf[Down(t, i)] = Boundary}
<1>1. S \in SUBSET Nat /\ S # {}
  OBVIOUS
<1>2. PICK k \in S : \A i \in S : k <= i
  <2> HIDE DEF S
  <2> QED
    BY <1>1, LeastNumber
<1>3. k \in 1 .. j /\ buf[Down(t, k)] = Boundary
  BY <1>2
<1>4. ASSUME NEW i \in 1 .. k - 1
      PROVE  buf[Down(t, i)] # Boundary
  <2>1. i \in 1 .. BufSize /\ ~(k <= i)
    BY <1>3, StateManagerAssumption
  <2> QED
    BY <1>2, <2>1
<1> QED
  BY <1>2, <1>3, <1>4 DEF IsNearest

\* The walk cannot pass the bottom.
Ends(buf, bot) == buf[bot] = Boundary \/ (bot = 0 /\ buf[1] = Boundary)

LEMMA EndsBelow ==
    ASSUME NEW buf, NEW t \in Ring, NEW x \in 2 .. BufSize, Ends(buf, Down(t, x))
    PROVE  \E k \in 1 .. x : IsNearest(buf, t, k)
<1> USE StateManagerAssumption
<1>1. CASE buf[Down(t, x)] = Boundary
  BY <1>1, NearestBoundary
<1>2. CASE Down(t, x) = 0 /\ buf[1] = Boundary
  <2>1. Down(t, x - 1) = 1
    BY <1>2 DEF Down, Ring
  <2>2. x - 1 \in 1 .. BufSize
    OBVIOUS
  <2>3. PICK k \in 1 .. x - 1 : IsNearest(buf, t, k)
    BY <1>2, <2>1, <2>2, NearestBoundary
  <2> QED
    BY <2>3
<1> QED
  BY <1>1, <1>2 DEF Ends

\* Where no walk can begin.
LEMMA NoWalk ==
    ASSUME NEW buf, NEW bot, NEW t \in Ring, NEW state \in State, Down(t, 1) = bot
    PROVE  IsWalk(buf, bot, t, state, 0, [n \in 0 .. 0 |-> t], [n \in 0 .. 0 |-> state])
<1>1. At(t - 1) = Down(t, 1)
  BY AtDown, StateManagerAssumption
<1> QED
  BY <1>1, StateManagerAssumption DEF IsWalk, EndIn

\* A walk and the rewind before it.
Ahead(x, last, f) == [n \in 0 .. last + 1 |-> IF n = 0 THEN x ELSE f[n - 1]]

LEMMA WalkPrepend ==
    ASSUME NEW buf, NEW bot, NEW top \in Ring, NEW state \in State, NEW last, NEW at, NEW loads,
           NEW under, NEW before, IsWalk(buf, bot, under, before, last, at, loads),
           last + 1 < BufSize, ~EndIn(buf, bot, top),
           under = SettledIn(bot, UndoIn(buf, top - 1, state).at),
           before = UndoIn(buf, top - 1, state).state
    PROVE  IsWalk(buf, bot, top, state, last + 1, Ahead(top, last, at), Ahead(state, last, loads))
<1> USE StateManagerAssumption
<1> DEFINE a == Ahead(top, last, at)
           s == Ahead(state, last, loads)
<1>1. /\ last \in Nat /\ at \in [0 .. last -> Ring] /\ loads \in [0 .. last -> State]
      /\ at[0] = under /\ loads[0] = before
      /\ EndIn(buf, bot, at[last])
  BY DEF IsWalk
<1>2. \A n \in 1 .. last + 1 : n - 1 \in 0 .. last /\ a[n] = at[n - 1] /\ s[n] = loads[n - 1]
  BY <1>1 DEF Ahead
<1>3. a[0] = top /\ s[0] = state
  BY <1>1 DEF Ahead
<1>4. a \in [0 .. last + 1 -> Ring] /\ s \in [0 .. last + 1 -> State]
  <2>1. \A n \in 0 .. last + 1 : n = 0 \/ n - 1 \in 0 .. last
    BY <1>1
  <2> QED
    BY <1>1, <2>1 DEF Ahead
<1> HIDE DEF a, s
<1>5. ASSUME NEW n \in 1 .. last + 1
      PROVE  /\ ~EndIn(buf, bot, a[n - 1])
             /\ a[n] = SettledIn(bot, UndoIn(buf, a[n - 1] - 1, s[n - 1]).at)
             /\ s[n] = UndoIn(buf, a[n - 1] - 1, s[n - 1]).state
  <2>1. CASE n = 1
    <3>1. a[n] = under /\ s[n] = before /\ a[n - 1] = top /\ s[n - 1] = state
      BY <1>1, <1>2, <1>3, <2>1
    <3> QED
      BY <3>1
  <2>2. CASE n # 1
    <3>1. PICK m \in 1 .. last : n = m + 1 /\ n - 1 = m
      BY <1>1, <2>2
    <3>2. a[n] = at[m] /\ s[n] = loads[m] /\ a[n - 1] = at[m - 1] /\ s[n - 1] = loads[m - 1]
      <4>1. m \in 1 .. last + 1 /\ n - 1 = m
        BY <1>1, <3>1
      <4>2. a[m] = at[m - 1] /\ s[m] = loads[m - 1] /\ a[n] = at[n - 1] /\ s[n] = loads[n - 1]
        BY <1>2, <4>1
      <4> QED
        BY <4>1, <4>2, Zenon
    <3>3. /\ ~EndIn(buf, bot, at[m - 1])
          /\ at[m] = SettledIn(bot, UndoIn(buf, at[m - 1] - 1, loads[m - 1]).at)
          /\ loads[m] = UndoIn(buf, at[m - 1] - 1, loads[m - 1]).state
      BY DEF IsWalk
    <3> QED
      BY <3>2, <3>3
  <2> QED
    BY <2>1, <2>2
<1>6. EndIn(buf, bot, a[last + 1])
  <2>1. last + 1 \in 1 .. last + 1 /\ last + 1 - 1 = last
    BY <1>1
  <2> QED
    BY <1>1, <1>2, <2>1
<1>7. last + 1 \in 0 .. BufSize - 1
  BY <1>1
<1> QED
  BY <1>3, <1>4, <1>5, <1>6, <1>7 DEF IsWalk, a, s

\* A walk without its first rewind.
Behind(last, f) == [n \in 0 .. last - 1 |-> f[n + 1]]

LEMMA WalkShift ==
    ASSUME NEW buf, NEW bot, NEW top, NEW state, NEW last, NEW at, NEW loads,
           IsWalk(buf, bot, top, state, last, at, loads), last # 0
    PROVE  /\ IsWalk(buf, bot, at[1], loads[1], last - 1, Behind(last, at), Behind(last, loads))
           /\ ~EndIn(buf, bot, top) /\ last >= 1
           /\ at[1] = SettledIn(bot, UndoIn(buf, top - 1, state).at)
           /\ loads[1] = UndoIn(buf, top - 1, state).state
<1> USE StateManagerAssumption
<1> DEFINE a == Behind(last, at)
           s == Behind(last, loads)
<1>1. /\ last \in 1 .. BufSize - 1 /\ at \in [0 .. last -> Ring] /\ loads \in [0 .. last -> State]
      /\ at[0] = top /\ loads[0] = state
      /\ EndIn(buf, bot, at[last])
  BY DEF IsWalk
<1>2. \A n \in 0 .. last - 1 : n + 1 \in 0 .. last /\ a[n] = at[n + 1] /\ s[n] = loads[n + 1]
  BY <1>1 DEF Behind
<1>3. a \in [0 .. last - 1 -> Ring] /\ s \in [0 .. last - 1 -> State]
  <2>1. \A n \in 0 .. last - 1 : n + 1 \in 0 .. last
    BY <1>1
  <2> QED
    BY <1>1, <2>1 DEF Behind
<1>4. \A n \in 1 .. last :
         /\ ~EndIn(buf, bot, at[n - 1])
         /\ at[n] = SettledIn(bot, UndoIn(buf, at[n - 1] - 1, loads[n - 1]).at)
         /\ loads[n] = UndoIn(buf, at[n - 1] - 1, loads[n - 1]).state
  BY DEF IsWalk
<1> HIDE DEF a, s
<1>5. ASSUME NEW n \in 1 .. last - 1
      PROVE  /\ ~EndIn(buf, bot, a[n - 1])
             /\ a[n] = SettledIn(bot, UndoIn(buf, a[n - 1] - 1, s[n - 1]).at)
             /\ s[n] = UndoIn(buf, a[n - 1] - 1, s[n - 1]).state
  <2>1. PICK m \in 1 .. last : m = n + 1 /\ m - 1 = n
    BY <1>1
  <2>2. n - 1 \in 0 .. last - 1 /\ n \in 0 .. last - 1 /\ n - 1 + 1 = n
    BY <1>1
  <2>3. a[n] = at[m] /\ s[n] = loads[m] /\ a[n - 1] = at[m - 1] /\ s[n - 1] = loads[m - 1]
    BY <1>2, <2>1, <2>2
  <2> QED
    BY <1>4, <2>3
<1>6. a[0] = at[1] /\ s[0] = loads[1] /\ a[last - 1] = at[last]
  <2>1. 0 \in 0 .. last - 1 /\ last - 1 \in 0 .. last - 1 /\ last - 1 + 1 = last /\ 0 + 1 = 1
    BY <1>1
  <2> QED
    BY <1>2, <2>1
<1>7. last - 1 \in 0 .. BufSize - 1
  BY <1>1
<1>8. /\ ~EndIn(buf, bot, top)
      /\ at[1] = SettledIn(bot, UndoIn(buf, top - 1, state).at)
      /\ loads[1] = UndoIn(buf, top - 1, state).state
  <2>1. 1 \in 1 .. last /\ 1 - 1 = 0
    BY <1>1
  <2> QED
    BY <1>1, <1>4, <2>1
<1>9. EndIn(buf, bot, a[last - 1])
  BY <1>1, <1>6
<1> QED
  BY <1>1, <1>3, <1>5, <1>6, <1>7, <1>8, <1>9 DEF IsWalk, a, s

-----------------------------------------------------------------------------
(* The walk of a ring whose oldest deltas were cut off.                     *)

\* It loads what the walk of the longer ring loads, as far as it goes.
Shorter(buf, bot, under, state, last, loads, x) ==
    \E n, a, s :
       /\ n \in 0 .. last
       /\ IsWalk(buf, bot, under, state, n, a, s)
       /\ n = 0 \/ n < x
       /\ \A i \in 0 .. n : s[i] = loads[i]

\* bot is y below top and the new bottom x below it, with the same cells on the way.
IsCut(old, bot, buf, bottom, top, x, y) ==
    /\ y \in 0 .. BufSize /\ x \in 0 .. y /\ x < BufSize
    /\ bot = Down(top, y) /\ bottom = Down(top, x)
    /\ \A j \in 1 .. x : buf[Down(top, j)] = old[Down(top, j)]

Cuts(old, bot, buf, bottom, last) ==
    \A top \in Ring, state \in State : \A at, loads, x, y :
       IsWalk(old, bot, top, state, last, at, loads) /\ IsCut(old, bot, buf, bottom, top, x, y)
         => Shorter(buf, bottom, SettledIn(bottom, top), state, last, loads, x)

\* The bottom is so near that there is nothing to rewind.
LEMMA CutNow ==
    ASSUME NEW old, NEW bot, NEW buf, NEW bottom \in Ring, NEW top \in Ring, NEW state \in State,
           NEW last \in Nat, NEW loads, loads[0] = state, NEW x, NEW y,
           IsCut(old, bot, buf, bottom, top, x, y), x \in {0, 1}
    PROVE  Shorter(buf, bottom, SettledIn(bottom, top), state, last, loads, x)
<1> USE StateManagerAssumption
<1> DEFINE t == SettledIn(bottom, top)
<1>1. t \in Ring /\ Down(t, 1) = bottom
  <2>1. CASE x = 0
    <3>1. bottom = top
      BY <2>1 DEF IsCut, Down, Ring
    <3>2. At(top + 1) = IF top + 1 < BufSize THEN top + 1 ELSE top + 1 - BufSize
      BY AtIs DEF Ring
    <3>3. t = At(top + 1)
      BY <3>1 DEF SettledIn
    <3> QED
      BY <3>1, <3>2, <3>3 DEF Down, Ring
  <2>2. CASE x = 1
    <3>1. bottom = Down(top, 1)
      BY <2>2 DEF IsCut
    <3>2. bottom # top
      BY <3>1 DEF Down, Ring
    <3> QED
      BY <3>1, <3>2 DEF SettledIn
  <2> QED
    BY <2>1, <2>2
<1> DEFINE a == [n \in 0 .. 0 |-> t]
           s == [n \in 0 .. 0 |-> state]
<1>2. IsWalk(buf, bottom, t, state, 0, a, s)
  BY <1>1, NoWalk
<1>3. \A i \in 0 .. 0 : s[i] = loads[i]
  <2>1. \A i \in 0 .. 0 : i = 0
    OBVIOUS
  <2> QED
    BY <2>1
<1>4. 0 \in 0 .. last
  OBVIOUS
<1> HIDE DEF t, a, s
<1> QED
  BY <1>2, <1>3, <1>4 DEF Shorter, t

LEMMA CutLater ==
    ASSUME NEW old, NEW bot \in Ring, NEW buf, NEW bottom \in Ring, Ends(buf, bottom),
           NEW last \in Nat, last # 0 => Cuts(old, bot, buf, bottom, last - 1),
           NEW top \in Ring, NEW state \in State, NEW at, NEW loads, NEW x, NEW y,
           IsWalk(old, bot, top, state, last, at, loads),
           IsCut(old, bot, buf, bottom, top, x, y), x \notin {0, 1}
    PROVE  Shorter(buf, bottom, SettledIn(bottom, top), state, last, loads, x)
<1> USE StateManagerAssumption
<1>1. /\ x \in 2 .. BufSize - 1 /\ y \in x .. BufSize /\ y \in 2 .. BufSize
      /\ bot = Down(top, y) /\ bottom = Down(top, x)
      /\ \A j \in 1 .. x : buf[Down(top, j)] = old[Down(top, j)]
  BY DEF IsCut
<1>2. top # bottom /\ SettledIn(bottom, top) = top
  BY <1>1 DEF SettledIn, Down, Ring
<1>3. PICK k \in 1 .. x : IsNearest(buf, top, k)
  BY <1>1, EndsBelow
<1>4. /\ IsNearest(old, top, k)
      /\ \A i \in 1 .. k - 1 : old[Down(top, i)] = buf[Down(top, i)]
  <2>1. k \in 1 .. x /\ \A i \in 1 .. k - 1 : i \in 1 .. x
    BY <1>1
  <2> QED
    BY <1>1, <1>3, <2>1 DEF IsNearest
<1> DEFINE s1 == Patched(RunOf(buf, top, k), state)
           fall == IF k = y THEN y - 1 ELSE k
           onto == Down(top, fall)
<1>5. k \in 1 .. BufSize
  BY <1>1
<1>6. /\ BelowIn(buf, top - 1) # {}
      /\ UndoIn(buf, top - 1, state).at = Down(top, k) /\ UndoIn(buf, top - 1, state).state = s1
  BY <1>3, StepIs
<1>7. /\ BelowIn(old, top - 1) # {}
      /\ UndoIn(old, top - 1, state).at = Down(top, k) /\ UndoIn(old, top - 1, state).state = s1
  <2>1. RunOf(buf, top, k) = RunOf(old, top, k)
    BY <1>4 DEF RunOf
  <2>2. IsNearest(old, top, k)
    BY <1>4
  <2> QED
    BY <2>1, <2>2, StepIs
<1>8. At(top - 1) = Down(top, 1) /\ Down(top, 1) # bot /\ Down(top, 1) # bottom
  <2>1. At(top - 1) = Down(top, 1)
    BY AtDown
  <2> QED
    BY <1>1, <2>1 DEF Down, Ring
<1>9. ~EndIn(old, bot, top) /\ ~EndIn(buf, bottom, top)
  BY <1>6, <1>7, <1>8 DEF EndIn
<1>10. last # 0
  BY <1>9 DEF IsWalk
<1>11. /\ IsWalk(old, bot, at[1], loads[1], last - 1, Behind(last, at), Behind(last, loads))
       /\ at[1] = SettledIn(bot, Down(top, k)) /\ loads[1] = s1 /\ loads[0] = state
       /\ at[1] \in Ring /\ loads[1] \in State /\ last \in 1 .. BufSize - 1
  <2>1. /\ IsWalk(old, bot, at[1], loads[1], last - 1, Behind(last, at), Behind(last, loads))
        /\ at[1] = SettledIn(bot, UndoIn(old, top - 1, state).at)
        /\ loads[1] = UndoIn(old, top - 1, state).state
    BY <1>10, WalkShift
  <2>2. /\ last \in 0 .. BufSize - 1 /\ at \in [0 .. last -> Ring]
        /\ loads \in [0 .. last -> State] /\ loads[0] = state
    BY DEF IsWalk
  <2>3. last \in 1 .. BufSize - 1 /\ 1 \in 0 .. last
    BY <1>10, <2>2
  <2> QED
    BY <1>7, <2>1, <2>2, <2>3
<1> HIDE DEF s1
<1>12. at[1] = onto /\ fall \in 1 .. x /\ fall \in 1 .. BufSize - 1
  <2>1. CASE k = y
    <3>1. Down(top, k) = bot /\ At(Down(top, k) + 1) = Down(top, k - 1)
      BY <1>1, <1>5, <2>1, AtDown
    <3> QED
      BY <1>1, <1>11, <2>1, <3>1 DEF SettledIn
  <2>2. CASE k # y
    <3>1. Down(top, k) # bot
      BY <1>1, <1>5, <2>2, DownOnce
    <3> QED
      BY <1>1, <1>11, <2>2, <3>1 DEF SettledIn
  <2> QED
    BY <2>1, <2>2
<1>13. SettledIn(bottom, onto) = SettledIn(bottom, Down(top, k))
  <2>1. CASE k = y
    <3>1. k = x /\ Down(top, k) = bottom /\ At(Down(top, k) + 1) = Down(top, k - 1)
      BY <1>1, <1>5, <2>1, AtDown
    <3>2. onto = Down(top, k - 1) /\ onto # bottom
      BY <1>1, <2>1, <3>1 DEF Down, Ring
    <3> QED
      BY <3>1, <3>2 DEF SettledIn
  <2>2. CASE k # y
    BY <2>2
  <2> QED
    BY <2>1, <2>2
<1>14. onto \in Ring
  BY <1>11, <1>12
<1>15. IsCut(old, bot, buf, bottom, onto, x - fall, y - fall)
  <2>1. y - fall \in 0 .. BufSize /\ x - fall \in 0 .. y - fall /\ x - fall < BufSize
    BY <1>1, <1>12
  <2>2. \A i \in 0 .. BufSize : fall + i <= BufSize => Down(onto, i) = Down(top, fall + i)
    <3> HIDE DEF fall
    <3>1. \A i \in 0 .. BufSize : fall + i <= BufSize => Down(Down(top, fall), i) = Down(top, fall + i)
      <4> TAKE i \in 0 .. BufSize
      <4>1. HAVE fall + i <= BufSize
      <4>2. fall \in 0 .. BufSize
        BY <1>12
      <4> QED
        BY <4>1, <4>2, DownTwice
    <3> QED
      BY <3>1
  <2> HIDE DEF fall, onto
  <2>3. bot = Down(onto, y - fall) /\ bottom = Down(onto, x - fall)
    <3>1. /\ y - fall \in 0 .. BufSize /\ fall + (y - fall) = y
          /\ x - fall \in 0 .. BufSize /\ fall + (x - fall) = x
      BY <1>1, <1>12, <2>1
    <3> QED
      BY <1>1, <2>2, <3>1
  <2>4. ASSUME NEW i \in 1 .. x - fall
        PROVE  buf[Down(onto, i)] = old[Down(onto, i)]
    <3>1. i \in 0 .. BufSize /\ fall + i <= BufSize /\ fall + i \in 1 .. x
      BY <1>1, <1>12
    <3> QED
      BY <1>1, <2>2, <3>1
  <2> QED
    BY <2>1, <2>3, <2>4 DEF IsCut
<1> HIDE DEF fall, onto
<1>16. Shorter(buf, bottom, SettledIn(bottom, onto), s1, last - 1, Behind(last, loads), x - fall)
  BY <1>10, <1>11, <1>12, <1>14, <1>15 DEF Cuts
<1>17. PICK n, a, s :
          /\ n \in 0 .. last - 1
          /\ IsWalk(buf, bottom, SettledIn(bottom, onto), s1, n, a, s)
          /\ n = 0 \/ n < x - fall
          /\ \A i \in 0 .. n : s[i] = Behind(last, loads)[i]
  BY <1>16 DEF Shorter
<1>18. n + 1 < x /\ n + 1 < BufSize /\ n + 1 \in 0 .. last
  BY <1>1, <1>11, <1>12, <1>17
<1>19. IsWalk(buf, bottom, top, state, n + 1, Ahead(top, n, a), Ahead(state, n, s))
  BY <1>6, <1>9, <1>13, <1>17, <1>18, WalkPrepend
<1>20. \A i \in 0 .. n + 1 : Ahead(state, n, s)[i] = loads[i]
  <2> TAKE i \in 0 .. n + 1
  <2>1. CASE i = 0
    BY <1>11, <2>1 DEF Ahead
  <2>2. CASE i # 0
    <3>1. i - 1 \in 0 .. n /\ i - 1 \in 0 .. last - 1 /\ i - 1 + 1 = i
      BY <1>11, <1>17, <2>2
    <3>2. Ahead(state, n, s)[i] = s[i - 1]
      BY <2>2 DEF Ahead
    <3>3. Behind(last, loads)[i - 1] = loads[i]
      BY <3>1 DEF Behind
    <3> QED
      BY <1>17, <3>1, <3>2, <3>3
  <2> QED
    BY <2>1, <2>2
<1> QED
  BY <1>2, <1>18, <1>19, <1>20 DEF Shorter

LEMMA CutWalk ==
    ASSUME NEW old, NEW bot \in Ring, NEW buf, NEW bottom \in Ring, Ends(buf, bottom)
    PROVE  \A last \in Nat : Cuts(old, bot, buf, bottom, last)
<1> DEFINE T == {last \in Nat : Cuts(old, bot, buf, bottom, last)}
<1>1. ASSUME NEW last \in Nat, last # 0 => Cuts(old, bot, buf, bottom, last - 1)
      PROVE  Cuts(old, bot, buf, bottom, last)
  <2> SUFFICES ASSUME NEW top \in Ring, NEW state \in State, NEW at, NEW loads, NEW x, NEW y,
                      IsWalk(old, bot, top, state, last, at, loads),
                      IsCut(old, bot, buf, bottom, top, x, y)
               PROVE  Shorter(buf, bottom, SettledIn(bottom, top), state, last, loads, x)
    BY DEF Cuts
  <2>1. CASE x \in {0, 1}
    <3>1. loads[0] = state
      BY DEF IsWalk
    <3> QED
      BY <2>1, <3>1, CutNow
  <2>2. CASE x \notin {0, 1}
    BY <1>1, <2>2, CutLater
  <2> QED
    BY <2>1, <2>2
<1>2. 0 \in T
  BY <1>1
<1>3. ASSUME NEW last \in Nat, last \in T
      PROVE  last + 1 \in T
  <2>1. last + 1 - 1 = last /\ last + 1 \in Nat
    OBVIOUS
  <2> QED
    BY <1>1, <1>3, <2>1
<1> HIDE DEF T
<1>4. Nat \subseteq T
  BY <1>2, <1>3, NatSetInduction
<1> QED
  BY <1>4 DEF T

-----------------------------------------------------------------------------
(* What a push leaves in the ring.                                          *)

LEMMA WrittenAt ==
    ASSUME NEW t \in Ring, NEW cells, Len(cells) \in 1 .. BufSize, NEW j \in 1 .. Len(cells)
    PROVE  Written(t, cells)[At(t + j - 1)] = cells[j]
<1> USE StateManagerAssumption
<1> DEFINE p == At(t + j - 1)
           hits == {i \in 1 .. Len(cells) : At(t + i - 1) = p}
<1>1. \A i \in 1 .. Len(cells) : At(t + i - 1) = p => i = j
  <2> SUFFICES ASSUME NEW i \in 1 .. Len(cells), At(t + i - 1) = p PROVE i = j
    OBVIOUS
  <2>1. /\ i - 1 \in 0 .. BufSize - 1 /\ j - 1 \in 0 .. BufSize - 1
        /\ t + (i - 1) = t + i - 1 /\ t + (j - 1) = t + j - 1
    BY DEF Ring
  <2>2. i - 1 = j - 1
    BY <2>1, NoSecondLap
  <2> QED
    BY <2>2
<1>2. hits = {j}
  BY <1>1
<1>3. p \in Ring
  BY Masked DEF Ring
<1>4. (CHOOSE i \in {j} : \A k \in {j} : k <= i) = j
  OBVIOUS
<1> HIDE DEF p
<1>5. Written(t, cells)[p] = IF hits = {} THEN buffer[p]
                             ELSE cells[CHOOSE i \in hits : \A k \in hits : k <= i]
  BY <1>3 DEF Written
<1> HIDE DEF hits
<1> QED
  BY <1>2, <1>4, <1>5 DEF p

LEMMA DownUp ==
    ASSUME NEW t \in Ring, NEW len \in 1 .. BufSize
    PROVE  /\ At(t + len) \in Ring /\ Down(At(t + len), len) = t
           /\ \A i \in 1 .. len : Down(At(t + len), i) = At(t + len - i)
<1> USE StateManagerAssumption
<1>1. At(t + len) = IF t + len < BufSize THEN t + len ELSE t + len - BufSize
  BY AtIs DEF Ring
<1>2. At(t + len) \in Ring /\ Down(At(t + len), len) = t
  BY <1>1 DEF Down, Ring
<1>3. ASSUME NEW i \in 1 .. len
      PROVE  Down(At(t + len), i) = At(t + len - i)
  <2>1. At(t + len - i) = IF t + len - i < BufSize THEN t + len - i ELSE t + len - i - BufSize
    BY AtIs DEF Ring
  <2> QED
    BY <1>1, <2>1 DEF Down, Ring
<1> QED
  BY <1>2, <1>3

\* Below the new top: the delta from its end to its boundary, then what was there.
LEMMA Pushed ==
    ASSUME StateSize < BufSize, top_ptr \in Ring, tmp_state \in State, NEW new \in State,
           NEW cells, cells = DeltaCells(tmp_state, new), NEW len, len = Len(cells),
           NEW buf, buf = Written(top_ptr, cells), NEW top, top = At(top_ptr + len)
    PROVE  /\ len \in 1 .. BufSize /\ top \in Ring /\ Down(top, len) = top_ptr
           /\ IsNearest(buf, top, len)
           /\ BelowIn(buf, top - 1) # {}
           /\ UndoIn(buf, top - 1, new).at = top_ptr /\ UndoIn(buf, top - 1, new).state = tmp_state
           /\ \A i \in 1 .. BufSize - len : buf[Down(top_ptr, i)] = buffer[Down(top_ptr, i)]
<1> USE StateManagerAssumption
<1> DEFINE W == DeltaWords(tmp_state, new)
           c == Len(W)
<1>1. len \in 1 .. BufSize /\ cells[1] = Boundary
  BY DeltaShape
<1>2. /\ c \in Nat /\ W \in Seq(Cell)
      /\ \A n \in 1 .. c : W[n] # Boundary
  BY DeltaWordsAre
<1>3. len = c + 1 /\ \A j \in 1 .. c : cells[j + 1] = W[j]
  <2>1. <<Boundary>> \in Seq(Cell) /\ Len(<<Boundary>>) = 1
    BY DEF Cell
  <2>2. cells = <<Boundary>> \o W
    BY DEF DeltaCells
  <2> HIDE DEF W
  <2>3. /\ Len(<<Boundary>> \o W) = Len(<<Boundary>>) + Len(W)
        /\ \A i \in 1 .. Len(<<Boundary>>) + Len(W) :
              (<<Boundary>> \o W)[i] = IF i <= Len(<<Boundary>>) THEN <<Boundary>>[i]
                                       ELSE W[i - Len(<<Boundary>>)]
    BY <1>2, <2>1, ConcatProperties
  <2>4. Len(cells) = 1 + c
    BY <2>1, <2>2, <2>3
  <2>5. ASSUME NEW j \in 1 .. c
        PROVE  cells[j + 1] = W[j]
    <3>1. j + 1 \in 1 .. 1 + c /\ ~(j + 1 <= 1) /\ j + 1 - 1 = j
      BY <1>2
    <3> QED
      BY <2>1, <2>2, <2>3, <3>1
  <2> QED
    BY <1>2, <2>4, <2>5
<1> HIDE DEF W, c
<1>4. /\ top \in Ring /\ Down(top, len) = top_ptr
      /\ \A i \in 1 .. len : Down(top, i) = At(top_ptr + len - i)
  BY <1>1, DownUp
<1>5. ASSUME NEW i \in 1 .. len
      PROVE  buf[Down(top, i)] = cells[len + 1 - i]
  <2>1. len + 1 - i \in 1 .. len /\ top_ptr + (len + 1 - i) - 1 = top_ptr + len - i
    BY <1>1 DEF Ring
  <2>2. buf[At(top_ptr + (len + 1 - i) - 1)] = cells[len + 1 - i]
    BY <1>1, <2>1, WrittenAt
  <2> QED
    BY <1>4, <2>1, <2>2
<1>6. \A i \in 1 .. c : i \in 1 .. len /\ buf[Down(top, i)] = W[c + 1 - i]
  <2> TAKE i \in 1 .. c
  <2>1. i \in 1 .. len /\ c + 1 - i \in 1 .. c /\ len + 1 - i = c + 1 - i + 1
    BY <1>2, <1>3
  <2> QED
    BY <1>3, <1>5, <2>1
<1>7. IsNearest(buf, top, len)
  <2>1. buf[Down(top, len)] = Boundary
    <3>1. len \in 1 .. len /\ len + 1 - len = 1
      BY <1>1
    <3> QED
      BY <1>1, <1>5, <3>1
  <2>2. ASSUME NEW i \in 1 .. len - 1
        PROVE  buf[Down(top, i)] # Boundary
    <3>1. i \in 1 .. c /\ c + 1 - i \in 1 .. c
      BY <1>2, <1>3
    <3> QED
      BY <1>2, <1>6, <3>1
  <2> QED
    BY <1>1, <2>1, <2>2 DEF IsNearest
<1>8. /\ BelowIn(buf, top - 1) # {}
      /\ UndoIn(buf, top - 1, new).at = Down(top, len)
      /\ UndoIn(buf, top - 1, new).state = Patched(RunOf(buf, top, len), new)
  <2>1. top \in Ring
    BY <1>4
  <2> QED
    BY <1>7, <2>1, StepIs
<1>9. Patched(RunOf(buf, top, len), new) = tmp_state
  <2>1. RunOf(buf, top, len) = [n \in 1 .. c |-> W[c + 1 - n]]
    <3>1. len - 1 = c
      BY <1>2, <1>3
    <3> QED
      BY <1>6, <3>1 DEF RunOf
  <2>2. Patched([n \in 1 .. c |-> W[c + 1 - n]], new) = tmp_state
    BY DeltaUndone DEF W, c
  <2> QED
    BY <2>1, <2>2
<1>10. ASSUME NEW i \in 1 .. BufSize - len
       PROVE  buf[Down(top_ptr, i)] = buffer[Down(top_ptr, i)]
  <2>1. Down(top_ptr, i) \in Ring
    BY <1>1, DownInRing
  <2>2. ASSUME NEW j \in 1 .. len
        PROVE  At(top_ptr + j - 1) # Down(top_ptr, i)
    <3>1. At(top_ptr + j - 1)
            = IF top_ptr + j - 1 < BufSize THEN top_ptr + j - 1 ELSE top_ptr + j - 1 - BufSize
      BY <1>1, AtIs DEF Ring
    <3> QED
      BY <1>1, <3>1 DEF Down, Ring
  <2> QED
    BY <2>1, <2>2, WrittenElsewhere
<1> QED
  BY <1>1, <1>4, <1>7, <1>8, <1>9, <1>10

\* The bottom after a push: not inside the new delta, and not below the old bottom.
LEMMA PushCuts ==
    ASSUME StateSize < BufSize, RewindInv, tmp_state \in State, NEW new \in State, Push(new),
           NEW cells, cells = DeltaCells(tmp_state, new), NEW len, len = Len(cells)
    PROVE  /\ Ends(buffer', bottom_ptr')
           /\ \E y \in len .. BufSize, z \in 1 .. BufSize :
                 /\ bottom_ptr' = Down(top_ptr', y)
                 /\ IsCut(buffer, bottom_ptr, buffer', bottom_ptr', top_ptr, y - len, z)
<1> USE StateManagerAssumption
<1> DEFINE crossed == \E j \in 1 .. len : At(top_ptr + j) = bottom_ptr
<1>1. /\ buffer' = Written(top_ptr, cells) /\ top_ptr' = At(top_ptr + len)
      /\ ~hung /\ ~hung' /\ RewindInv' /\ top_ptr \in Ring /\ bottom_ptr \in Ring
      /\ bottom_ptr' = IF crossed THEN FirstBoundary(buffer', top_ptr') ELSE bottom_ptr
      /\ crossed => BoundaryDistance(buffer', top_ptr') # {}
  <2>1. /\ buffer' = Written(top_ptr, cells) /\ top_ptr' = At(top_ptr + len) /\ ~hung
    BY DEF Push
  <2>2. IF crossed /\ BoundaryDistance(buffer', top_ptr') = {}
          THEN hung' = TRUE
          ELSE bottom_ptr' = IF crossed THEN FirstBoundary(buffer', top_ptr') ELSE bottom_ptr
    BY DEF Push
  <2>3. ~hung' /\ RewindInv'
    BY PushEnds, PushInv
  <2> QED
    BY <2>1, <2>2, <2>3 DEF RewindInv
<1>2. /\ len \in 1 .. BufSize /\ top_ptr' \in Ring /\ Down(top_ptr', len) = top_ptr
      /\ IsNearest(buffer', top_ptr', len)
      /\ \A i \in 1 .. BufSize - len : buffer'[Down(top_ptr, i)] = buffer[Down(top_ptr, i)]
  BY <1>1, Pushed
<1>3. bottom_ptr' \in Ring
  BY <1>1 DEF RewindInv
<1>4. PICK y \in 1 .. BufSize : bottom_ptr' = Down(top_ptr', y)
  BY <1>2, <1>3, EveryDown
<1>5. PICK z \in 1 .. BufSize : bottom_ptr = Down(top_ptr, z)
  BY <1>1, EveryDown
<1>6. \A j \in 1 .. len : At(top_ptr + j) = IF top_ptr + j < BufSize THEN top_ptr + j
                                           ELSE top_ptr + j - BufSize
  <2> TAKE j \in 1 .. len
  <2>1. top_ptr + j \in -BufSize .. 2 * BufSize - 1
    BY <1>1, <1>2 DEF Ring
  <2> QED
    BY <1>1, <2>1, AtIs DEF Ring
<1> HIDE DEF crossed
<1>7. /\ Ends(buffer', bottom_ptr') /\ y >= len /\ y - len <= z
      /\ y - len # 0 => bottom_ptr' = Down(top_ptr, y - len)
  <2>1. y >= len => Down(top_ptr', y) = Down(top_ptr, y - len)
    <3> SUFFICES ASSUME y >= len PROVE Down(top_ptr', y) = Down(top_ptr, y - len)
      OBVIOUS
    <3>1. y - len \in 0 .. BufSize /\ len \in 0 .. BufSize /\ len + (y - len) = y
      BY <1>2
    <3> QED
      BY <1>2, <3>1, DownTwice
  <2>2. CASE crossed
    <3>1. buffer'[bottom_ptr'] = Boundary
      BY <1>1, <1>2, <2>2, ScanFindsBoundary
    <3>2. y >= len
      <4>1. y \notin 1 .. len - 1
        BY <1>2, <1>4, <3>1 DEF IsNearest
      <4> QED
        BY <1>2, <4>1
    <3>3. z >= BufSize - len
      <4>1. PICK j \in 1 .. len : At(top_ptr + j) = bottom_ptr
        BY <2>2 DEF crossed
      <4> QED
        BY <1>1, <1>2, <1>5, <1>6, <4>1 DEF Down, Ring
    <3> QED
      BY <1>2, <1>4, <2>1, <3>1, <3>2, <3>3 DEF Ends
  <2>3. CASE ~crossed
    <3>1. bottom_ptr' = bottom_ptr
      BY <1>1, <2>3
    <3>2. Ends(buffer', bottom_ptr')
      <4>1. Len(cells) \in Nat \ {0} /\ cells[1] = Boundary
        BY DeltaShape
      <4>2. BottomIsBoundary
        BY <1>1 DEF RewindInv
      <4>3. \A j \in 1 .. Len(cells) : At(top_ptr + j) # bottom_ptr
        BY <2>3 DEF crossed
      <4>4. \/ Written(top_ptr, cells)[bottom_ptr] = Boundary
            \/ bottom_ptr = 0 /\ Written(top_ptr, cells)[1] = Boundary
        BY <1>1, <4>1, <4>2, <4>3, UncrossedKeepsBottom
      <4> QED
        BY <1>1, <3>1, <4>4 DEF Ends
    <3>3. y >= len
      <4> SUFFICES ASSUME y < len PROVE FALSE
        BY <1>2
      <4>1. len - y \in 1 .. len /\ y \in 1 .. len /\ top_ptr + len - y = top_ptr + (len - y)
        BY <1>1, <1>2 DEF Ring
      <4>2. Down(top_ptr', y) = At(top_ptr + len - y)
        BY <1>1, <1>2, <4>1, DownUp
      <4> QED
        BY <1>4, <2>3, <3>1, <4>1, <4>2 DEF crossed
    <3>4. y - len # 0 => y - len = z
      <4> SUFFICES ASSUME y - len # 0 PROVE y - len = z
        OBVIOUS
      <4>1. y - len \in 1 .. BufSize /\ Down(top_ptr, y - len) = Down(top_ptr, z)
        BY <1>2, <1>4, <1>5, <2>1, <3>1, <3>3
      <4> QED
        BY <1>1, <4>1, DownOnce
    <3> QED
      BY <1>2, <1>4, <2>1, <3>2, <3>3, <3>4
  <2> QED
    BY <2>2, <2>3
<1>8. bottom_ptr' = Down(top_ptr, y - len)
  <2>1. CASE y = len
    BY <1>1, <1>2, <1>4, <2>1 DEF Down, Ring
  <2>2. CASE y # len
    BY <1>2, <1>7, <2>2
  <2> QED
    BY <2>1, <2>2
<1>9. IsCut(buffer, bottom_ptr, buffer', bottom_ptr', top_ptr, y - len, z)
  <2>1. z \in 0 .. BufSize /\ y - len \in 0 .. z /\ y - len < BufSize
    BY <1>2, <1>7
  <2>2. ASSUME NEW i \in 1 .. y - len
        PROVE  buffer'[Down(top_ptr, i)] = buffer[Down(top_ptr, i)]
    <3>1. i \in 1 .. BufSize - len
      BY <1>2
    <3> QED
      BY <1>2, <3>1
  <2> QED
    BY <1>5, <1>8, <2>1, <2>2 DEF IsCut
<1>10. y \in len .. BufSize
  BY <1>2, <1>7
<1> QED
  BY <1>4, <1>7, <1>9, <1>10

-----------------------------------------------------------------------------
(* The ring implements the stack.                                           *)

\* There is always an end to the rewinding, and its states are machine states.
HasWalk == \E last, at, loads :
              IsWalk(buffer, bottom_ptr, top_ptr, tmp_state, last, at, loads)

StackInv == RewindInv /\ ~hung /\ first_pop \in BOOLEAN /\ HasWalk

\* What a push makes of the walk: a new beginning, and as much as was kept.
Grown(last, loads, new, n, s) ==
    /\ n \in 0 .. last + 1 /\ s \in [0 .. n -> State] /\ s[0] = new
    /\ \A i \in 1 .. n : s[i] = loads[i - 1]

LEMMA PushGrows ==
    ASSUME StateSize < BufSize, RewindInv, NEW new \in State, Push(new), NEW last, NEW at, NEW loads,
           IsWalk(buffer, bottom_ptr, top_ptr, tmp_state, last, at, loads)
    PROVE  \E n, a, s : /\ IsWalk(buffer', bottom_ptr', top_ptr', tmp_state', n, a, s)
                        /\ Grown(last, loads, new, n, s)
<1> USE StateManagerAssumption
<1> DEFINE cells == DeltaCells(tmp_state, new)
           len == Len(cells)
<1>1. /\ top_ptr \in Ring /\ bottom_ptr \in Ring /\ last \in 0 .. BufSize - 1
      /\ loads \in [0 .. last -> State] /\ loads[0] = tmp_state /\ tmp_state \in State
  BY DEF RewindInv, IsWalk
<1>2. /\ buffer' = Written(top_ptr, cells) /\ top_ptr' = At(top_ptr + len) /\ tmp_state' = new
      /\ top_ptr' \in Ring /\ bottom_ptr' \in Ring
  <2>1. ~hung'
    BY PushEnds
  <2>2. RewindInv'
    BY PushInv
  <2> QED
    BY <2>1, <2>2 DEF Push, RewindInv
<1> HIDE DEF cells, len
<1>3. /\ len \in 1 .. BufSize /\ Down(top_ptr', len) = top_ptr
      /\ BelowIn(buffer', top_ptr' - 1) # {}
      /\ UndoIn(buffer', top_ptr' - 1, new).at = top_ptr
      /\ UndoIn(buffer', top_ptr' - 1, new).state = tmp_state
  BY <1>1, <1>2, Pushed DEF cells, len
<1>4. PICK y \in len .. BufSize, z \in 1 .. BufSize :
         /\ bottom_ptr' = Down(top_ptr', y)
         /\ IsCut(buffer, bottom_ptr, buffer', bottom_ptr', top_ptr, y - len, z)
  BY <1>1, PushCuts DEF cells, len
<1>5. Ends(buffer', bottom_ptr')
  BY <1>1, PushCuts DEF cells, len
<1>6. y \in 1 .. BufSize /\ At(top_ptr' - 1) = Down(top_ptr', 1)
  <2>1. 1 \in 0 .. BufSize
    OBVIOUS
  <2> QED
    BY <1>2, <1>3, <2>1, AtDown
<1>7. CASE y = 1
  <2> DEFINE a == [n \in 0 .. 0 |-> top_ptr']
             s == [n \in 0 .. 0 |-> new]
  <2>1. IsWalk(buffer', bottom_ptr', top_ptr', new, 0, a, s)
    BY <1>2, <1>4, <1>7, NoWalk
  <2>2. Grown(last, loads, new, 0, s)
    BY <1>1 DEF Grown
  <2> HIDE DEF a, s
  <2> QED
    BY <1>2, <2>1, <2>2
<1>8. CASE y # 1
  <2>1. ~EndIn(buffer', bottom_ptr', top_ptr')
    <3>1. Down(top_ptr', 1) # bottom_ptr'
      BY <1>2, <1>4, <1>6, <1>8, DownOnce
    <3> QED
      BY <1>3, <1>6, <3>1 DEF EndIn
  <2>2. Cuts(buffer, bottom_ptr, buffer', bottom_ptr', last)
    BY <1>1, <1>2, <1>5, CutWalk
  <2>3. Shorter(buffer', bottom_ptr', SettledIn(bottom_ptr', top_ptr), tmp_state, last, loads, y - len)
    BY <1>1, <1>4, <2>2 DEF Cuts
  <2>4. PICK n, a, s :
           /\ n \in 0 .. last
           /\ IsWalk(buffer', bottom_ptr', SettledIn(bottom_ptr', top_ptr), tmp_state, n, a, s)
           /\ n = 0 \/ n < y - len
           /\ \A i \in 0 .. n : s[i] = loads[i]
    BY <2>3 DEF Shorter
  <2> DEFINE b == Ahead(top_ptr', n, a)
             r == Ahead(new, n, s)
  <2>5. n + 1 < BufSize /\ n + 1 \in 0 .. last + 1 /\ n \in Nat
    BY <1>1, <1>3, <2>4
  <2>6. IsWalk(buffer', bottom_ptr', top_ptr', new, n + 1, b, r)
    BY <1>2, <1>3, <2>1, <2>4, <2>5, WalkPrepend
  <2>7. Grown(last, loads, new, n + 1, r)
    <3>1. r \in [0 .. n + 1 -> State]
      BY <2>6 DEF IsWalk
    <3>2. r[0] = new
      BY <2>5 DEF Ahead
    <3>3. ASSUME NEW i \in 1 .. n + 1
          PROVE  r[i] = loads[i - 1]
      <4>1. i - 1 \in 0 .. n
        BY <2>5
      <4>2. r[i] = s[i - 1]
        BY <2>5 DEF Ahead
      <4> QED
        BY <2>4, <4>1, <4>2
    <3> HIDE DEF r
    <3> QED
      BY <2>5, <3>1, <3>2, <3>3 DEF Grown
  <2> HIDE DEF b, r
  <2> QED
    BY <1>2, <2>6, <2>7
<1> QED
  BY <1>7, <1>8

\* The states a walk loads.
Loads(last, loads) == last \in Nat /\ loads \in [0 .. last -> State]

LEMMA StackIs ==
    ASSUME NEW last, NEW loads, Loads(last, loads)
    PROVE  /\ StackOf(last, loads) \in Seq(State) /\ Len(StackOf(last, loads)) = last + 1
           /\ \A i \in 1 .. last + 1 : StackOf(last, loads)[i] = loads[last + 1 - i]
<1>1. last \in Nat /\ \A i \in 1 .. last + 1 : loads[last + 1 - i] \in State
  <2>1. last \in Nat /\ loads \in [0 .. last -> State]
    BY DEF Loads
  <2>2. \A i \in 1 .. last + 1 : last + 1 - i \in 0 .. last
    BY <2>1
  <2> QED
    BY <2>1, <2>2
<1> QED
  BY <1>1 DEF StackOf

LEMMA StackPushed ==
    ASSUME NEW last, NEW loads, NEW new, NEW n, NEW s, Grown(last, loads, new, n, s),
           Loads(last, loads), new \in State
    PROVE  LET old == StackOf(last, loads)
           IN  \E dropped \in 0 .. Len(old) :
                  StackOf(n, s) = Append(SubSeq(old, dropped + 1, Len(old)), new)
<1> DEFINE old == StackOf(last, loads)
           now == StackOf(n, s)
           dropped == last + 1 - n
           kept == SubSeq(old, dropped + 1, last + 1)
           app == Append(kept, new)
<1>1. /\ n \in 0 .. last + 1 /\ n \in Nat /\ s \in [0 .. n -> State] /\ s[0] = new
      /\ \A i \in 1 .. n : s[i] = loads[i - 1]
      /\ last \in Nat /\ Loads(n, s)
  BY DEF Grown, Loads
<1>2. /\ old \in Seq(State) /\ Len(old) = last + 1
      /\ \A i \in 1 .. last + 1 : old[i] = loads[last + 1 - i]
  BY StackIs
<1>3. /\ now \in Seq(State) /\ Len(now) = n + 1
      /\ \A i \in 1 .. n + 1 : now[i] = s[n + 1 - i]
  BY <1>1, StackIs
<1> HIDE DEF old, now
<1>4. /\ kept \in Seq(State) /\ Len(kept) = n
      /\ \A i \in 1 .. n : kept[i] = old[dropped + i]
  <2> DEFINE m == dropped + 1
             k == last + 1
  <2>1. m \in Int /\ k \in Int /\ \A i \in m .. k : old[i] \in State
    BY <1>1, <1>2
  <2>2. /\ m <= k => k - m + 1 = n
        /\ ~(m <= k) => n = 0
        /\ k - m + 1 = n /\ \A i \in 1 .. n : m + i - 1 = dropped + i
    BY <1>1
  <2>3. kept = SubSeq(old, m, k)
    OBVIOUS
  <2> HIDE DEF m, k, kept, dropped
  <2>4. /\ SubSeq(old, m, k) \in Seq(State)
        /\ Len(SubSeq(old, m, k)) = IF m <= k THEN k - m + 1 ELSE 0
        /\ \A i \in 1 .. k - m + 1 : SubSeq(old, m, k)[i] = old[m + i - 1]
    BY <2>1, SubSeqProperties
  <2>5. Len(kept) = n
    BY <2>2, <2>3, <2>4
  <2>6. \A i \in 1 .. n : kept[i] = old[dropped + i]
    BY <2>2, <2>3, <2>4
  <2> QED
    BY <2>3, <2>4, <2>5, <2>6
<1> HIDE DEF kept
<1>5. /\ app \in Seq(State) /\ Len(app) = n + 1 /\ app[n + 1] = new
      /\ \A i \in 1 .. n : app[i] = kept[i]
  BY <1>4, AppendProperties
<1> HIDE DEF app
<1>6. ASSUME NEW i \in 1 .. n + 1
      PROVE  now[i] = app[i]
  <2>1. CASE i = n + 1
    <3>1. n + 1 - i = 0
      BY <1>1, <2>1
    <3> QED
      BY <1>1, <1>3, <1>5, <2>1, <3>1
  <2>2. CASE i # n + 1
    <3>1. /\ i \in 1 .. n /\ n + 1 - i \in 1 .. n /\ dropped + i \in 1 .. last + 1
          /\ last + 1 - (dropped + i) = n + 1 - i - 1
      BY <1>1, <2>2
    <3>2. app[i] = loads[n + 1 - i - 1]
      BY <1>2, <1>4, <1>5, <3>1
    <3> QED
      BY <1>1, <1>3, <3>1, <3>2
  <2> QED
    BY <2>1, <2>2
<1>7. now = app
  BY <1>3, <1>5, <1>6, SeqEqual
<1>8. dropped \in 0 .. Len(old)
  BY <1>1, <1>2
<1>9. now = Append(SubSeq(old, dropped + 1, Len(old)), new)
  BY <1>2, <1>7 DEF app, kept
<1> HIDE DEF dropped
<1> QED
  BY <1>8, <1>9 DEF old, now

LEMMA StackPopped ==
    ASSUME NEW last, NEW loads, Loads(last, loads), last # 0
    PROVE  StackOf(last - 1, Behind(last, loads)) = SubSeq(StackOf(last, loads), 1, last)
<1> DEFINE old == StackOf(last, loads)
           b == Behind(last, loads)
           now == StackOf(last - 1, b)
           sub == SubSeq(old, 1, last)
<1>0. last \in Nat \ {0} /\ loads \in [0 .. last -> State]
  BY DEF Loads
<1>1. /\ old \in Seq(State) /\ Len(old) = last + 1
      /\ \A i \in 1 .. last + 1 : old[i] = loads[last + 1 - i]
  BY StackIs
<1>2. b \in [0 .. last - 1 -> State] /\ \A i \in 0 .. last - 1 : b[i] = loads[i + 1]
  <2>1. \A i \in 0 .. last - 1 : i + 1 \in 0 .. last
    BY <1>0
  <2> QED
    BY <1>0, <2>1 DEF Behind
<1> HIDE DEF b
<1>3. /\ now \in Seq(State) /\ Len(now) = last
      /\ \A i \in 1 .. last : now[i] = b[last - i]
  <2>1. last - 1 \in Nat /\ last - 1 + 1 = last /\ Loads(last - 1, b)
    BY <1>0, <1>2 DEF Loads
  <2> QED
    BY <2>1, StackIs
<1> HIDE DEF old, now
<1>4. /\ sub \in Seq(State) /\ Len(sub) = last
      /\ \A i \in 1 .. last : sub[i] = old[i]
  <2>1. last \in Int /\ \A i \in 1 .. last : old[i] \in State
    BY <1>0, <1>1
  <2>2. /\ sub \in Seq(State) /\ Len(sub) = IF 1 <= last THEN last - 1 + 1 ELSE 0
        /\ \A i \in 1 .. last - 1 + 1 : sub[i] = old[1 + i - 1]
    BY <2>1, SubSeqProperties
  <2> HIDE DEF sub
  <2> QED
    BY <1>0, <2>2
<1> HIDE DEF sub
<1>5. ASSUME NEW i \in 1 .. last
      PROVE  now[i] = sub[i]
  <2>1. last - i \in 0 .. last - 1 /\ last - i + 1 = last + 1 - i /\ i \in 1 .. last + 1
    BY <1>0
  <2> QED
    BY <1>1, <1>2, <1>3, <1>4, <2>1
<1>6. now = sub
  BY <1>3, <1>4, <1>5, SeqEqual
<1> QED
  BY <1>6 DEF now, sub, old, b

\* What the stack of a walk is, before and after a step.
LEMMA WalkStack ==
    ASSUME NEW last, NEW at, NEW loads,
           IsWalk(buffer, bottom_ptr, top_ptr, tmp_state, last, at, loads)
    PROVE  Reachable = StackOf(last, loads)
  BY WalkIsStack, ReachableIs

LEMMA WalkStackNext ==
    ASSUME NEW last, NEW at, NEW loads,
           IsWalk(buffer', bottom_ptr', top_ptr', tmp_state', last, at, loads)
    PROVE  Reachable' = StackOf(last, loads)
<1>1. RewoundIn(buffer', bottom_ptr', top_ptr', tmp_state')[BufSize].states = StackOf(last, loads)
  BY WalkIsStack
<1> QED
  BY <1>1, ReachableIsNext

LEMMA PushSaves ==
    ASSUME StateSize < BufSize, StackInv, NEW new \in State, Push(new)
    PROVE  Stack!Save(new) /\ StackInv'
<1>1. PICK last, at, loads : IsWalk(buffer, bottom_ptr, top_ptr, tmp_state, last, at, loads)
  BY DEF StackInv, HasWalk
<1>2. PICK n, a, s : /\ IsWalk(buffer', bottom_ptr', top_ptr', tmp_state', n, a, s)
                     /\ Grown(last, loads, new, n, s)
  BY <1>1, PushGrows DEF StackInv
<1>3. Reachable = StackOf(last, loads) /\ Reachable' = StackOf(n, s)
  BY <1>1, <1>2, WalkStack, WalkStackNext
<1>4. Loads(last, loads)
  BY <1>1 DEF IsWalk, Loads
<1>5. \E dropped \in 0 .. Len(Reachable) :
         Reachable' = Append(SubSeq(Reachable, dropped + 1, Len(Reachable)), new)
  <2>1. \E dropped \in 0 .. Len(StackOf(last, loads)) :
           StackOf(n, s) = Append(SubSeq(StackOf(last, loads), dropped + 1,
                                         Len(StackOf(last, loads))), new)
    BY <1>2, <1>4, StackPushed
  <2> QED
    BY <1>3, <2>1, Zenon
<1>6. ~hung' /\ RewindInv'
  BY PushEnds, PushInv DEF StackInv
<1>7. first_pop' = TRUE /\ UNCHANGED loaded
  BY <1>6 DEF Push
<1>8. Stack!Save(new)
  BY <1>5, <1>7 DEF Stack!Save
<1>9. HasWalk'
  BY <1>2 DEF HasWalk
<1> QED
  BY <1>6, <1>7, <1>8, <1>9 DEF StackInv

LEMMA PopFirstReloads ==
    ASSUME StackInv, PopFirst
    PROVE  Stack!Reload /\ StackInv'
<1>1. PICK last, at, loads : IsWalk(buffer, bottom_ptr, top_ptr, tmp_state, last, at, loads)
  BY DEF StackInv, HasWalk
<1>2. /\ first_pop /\ first_pop' = FALSE /\ loaded' = tmp_state
      /\ buffer' = buffer /\ top_ptr' = top_ptr /\ bottom_ptr' = bottom_ptr
      /\ tmp_state' = tmp_state /\ hung' = hung
  BY DEF PopFirst
<1>3. IsWalk(buffer', bottom_ptr', top_ptr', tmp_state', last, at, loads)
  BY <1>1, <1>2
<1>4. Reachable = StackOf(last, loads) /\ Reachable' = StackOf(last, loads)
  BY <1>1, <1>3, WalkStack, WalkStackNext
<1>5. last \in Nat /\ Loads(last, loads) /\ loads[0] = tmp_state
  BY <1>1 DEF IsWalk, Loads
<1>6. Len(Reachable) = last + 1 /\ Reachable[last + 1] = tmp_state
  <2>1. last + 1 \in 1 .. last + 1 /\ last + 1 - (last + 1) = 0
    BY <1>5
  <2> QED
    BY <1>4, <1>5, <2>1, StackIs
<1>7. Stack!Reload
  BY <1>2, <1>4, <1>6 DEF Stack!Reload
<1>8. HasWalk'
  BY <1>3 DEF HasWalk
<1>9. RewindInv'
  BY PopInv DEF StackInv, Pop
<1> QED
  BY <1>2, <1>7, <1>8, <1>9 DEF StackInv

LEMMA PopEmptyExhausts ==
    ASSUME StackInv, PopEmpty
    PROVE  Stack!Exhausted /\ StackInv'
<1>1. PICK last, at, loads : IsWalk(buffer, bottom_ptr, top_ptr, tmp_state, last, at, loads)
  BY DEF StackInv, HasWalk
<1>2. /\ ~first_pop /\ At(top_ptr - 1) = bottom_ptr /\ loaded' = NoState
      /\ buffer' = buffer /\ top_ptr' = top_ptr /\ bottom_ptr' = bottom_ptr
      /\ tmp_state' = tmp_state /\ first_pop' = first_pop /\ hung' = hung
  BY DEF PopEmpty
<1>3. IsWalk(buffer', bottom_ptr', top_ptr', tmp_state', last, at, loads)
  BY <1>1, <1>2
<1>4. Reachable = StackOf(last, loads) /\ Reachable' = StackOf(last, loads)
  BY <1>1, <1>3, WalkStack, WalkStackNext
<1>5. last \in Nat /\ Loads(last, loads)
  BY <1>1 DEF IsWalk, Loads
<1>6. last = 0
  <2>1. EndIn(buffer, bottom_ptr, top_ptr)
    BY <1>2 DEF EndIn
  <2>2. last # 0 => ~EndIn(buffer, bottom_ptr, top_ptr)
    BY <1>1, WalkShift
  <2> QED
    BY <2>1, <2>2
<1>7. Len(Reachable) = 1
  <2>1. Len(StackOf(last, loads)) = last + 1
    BY <1>5, StackIs
  <2> QED
    BY <1>4, <1>6, <2>1
<1>8. Stack!Exhausted
  BY <1>2, <1>4, <1>7 DEF Stack!Exhausted
<1>9. HasWalk'
  BY <1>3 DEF HasWalk
<1>10. RewindInv'
  BY PopInv DEF StackInv, Pop
<1> QED
  BY <1>2, <1>8, <1>9, <1>10 DEF StackInv

LEMMA PopDeltaBacks ==
    ASSUME StackInv, PopDelta
    PROVE  Stack!Back /\ StackInv'
<1>1. PICK last, at, loads : IsWalk(buffer, bottom_ptr, top_ptr, tmp_state, last, at, loads)
  BY DEF StackInv, HasWalk
<1>2. /\ ~first_pop /\ At(top_ptr - 1) # bottom_ptr
      /\ buffer' = buffer /\ bottom_ptr' = bottom_ptr /\ first_pop' = first_pop
  BY DEF PopDelta
<1>3. ~hung' /\ RewindInv'
  BY PopEnds, PopInv DEF StackInv, Pop
<1>4. /\ BelowDistance(top_ptr - 1) # {}
      /\ top_ptr' = Settled(Undo(top_ptr - 1, tmp_state).at)
      /\ tmp_state' = Undo(top_ptr - 1, tmp_state).state /\ loaded' = tmp_state'
  BY <1>3 DEF PopDelta
<1>5. /\ BelowIn(buffer, top_ptr - 1) # {}
      /\ top_ptr' = SettledIn(bottom_ptr, UndoIn(buffer, top_ptr - 1, tmp_state).at)
      /\ tmp_state' = UndoIn(buffer, top_ptr - 1, tmp_state).state
  BY <1>4, UndoIs DEF Settled, SettledIn, BelowDistance, BelowIn
<1>6. last # 0
  <2>1. ~EndIn(buffer, bottom_ptr, top_ptr)
    BY <1>2, <1>5 DEF EndIn
  <2>2. at[0] = top_ptr /\ EndIn(buffer, bottom_ptr, at[last])
    BY <1>1 DEF IsWalk
  <2> QED
    BY <2>1, <2>2
<1>7. last \in Nat /\ Loads(last, loads)
  BY <1>1 DEF IsWalk, Loads
<1>8. /\ IsWalk(buffer, bottom_ptr, at[1], loads[1], last - 1, Behind(last, at), Behind(last, loads))
      /\ at[1] = top_ptr' /\ loads[1] = tmp_state'
  BY <1>1, <1>5, <1>6, WalkShift
<1>9. IsWalk(buffer', bottom_ptr', top_ptr', tmp_state', last - 1, Behind(last, at), Behind(last, loads))
  BY <1>2, <1>8
<1>10. Reachable = StackOf(last, loads) /\ Reachable' = StackOf(last - 1, Behind(last, loads))
  BY <1>1, <1>9, WalkStack, WalkStackNext
<1>11. Len(Reachable) = last + 1 /\ last + 1 > 1 /\ last + 1 - 1 = last
  <2>1. Len(StackOf(last, loads)) = last + 1
    BY <1>7, StackIs
  <2> QED
    BY <1>6, <1>7, <1>10, <2>1
<1>12. Reachable' = SubSeq(Reachable, 1, Len(Reachable) - 1)
  <2>1. StackOf(last - 1, Behind(last, loads)) = SubSeq(StackOf(last, loads), 1, last)
    BY <1>6, <1>7, StackPopped
  <2>2. Len(Reachable) - 1 = last
    BY <1>7, <1>11
  <2> QED
    BY <1>10, <2>1, <2>2, Zenon
<1>13. loaded' = Reachable'[Len(Reachable')]
  <2>1. Loads(last - 1, Behind(last, loads))
    BY <1>8 DEF IsWalk, Loads
  <2>2. last - 1 \in Nat /\ last - 1 + 1 = last /\ last \in 1 .. last /\ last - last = 0
    BY <1>6, <1>7
  <2>3. /\ Len(Reachable') = last
        /\ Reachable'[last] = Behind(last, loads)[0]
    <3>1. /\ Len(StackOf(last - 1, Behind(last, loads))) = last - 1 + 1
          /\ \A i \in 1 .. last - 1 + 1 :
                StackOf(last - 1, Behind(last, loads))[i] = Behind(last, loads)[last - 1 + 1 - i]
      BY <2>1, StackIs
    <3>2. last - 1 + 1 - last = 0 /\ last \in 1 .. last - 1 + 1
      BY <2>2
    <3>3. StackOf(last - 1, Behind(last, loads))[last] = Behind(last, loads)[0]
      BY <3>1, <3>2
    <3> QED
      BY <1>10, <2>2, <3>1, <3>3, Zenon
  <2>4. Behind(last, loads)[0] = tmp_state'
    BY <1>8, <1>9 DEF IsWalk
  <2> QED
    BY <1>4, <2>3, <2>4
<1>14. Stack!Back
  BY <1>2, <1>11, <1>12, <1>13 DEF Stack!Back
<1>15. HasWalk'
  BY <1>9 DEF HasWalk
<1>16. first_pop' \in BOOLEAN
  BY <1>2 DEF StackInv
<1> QED
  BY <1>3, <1>14, <1>15, <1>16 DEF StackInv

LEMMA InitStack == Init => StackInv /\ Stack!Init
<1> USE StateManagerAssumption
<1> SUFFICES ASSUME Init PROVE StackInv /\ Stack!Init
  OBVIOUS
<1>1. /\ top_ptr = 1 /\ bottom_ptr = 0 /\ tmp_state = Blank /\ ~hung /\ first_pop = FALSE
      /\ loaded = NoState
  BY DEF Init
<1>2. tmp_state \in State
  BY <1>1 DEF Blank, State, Word
<1>3. Down(top_ptr, 1) = bottom_ptr /\ top_ptr \in Ring
  BY <1>1 DEF Down, Ring
<1> DEFINE a == [n \in 0 .. 0 |-> top_ptr]
           s == [n \in 0 .. 0 |-> tmp_state]
<1>4. IsWalk(buffer, bottom_ptr, top_ptr, tmp_state, 0, a, s)
  BY <1>2, <1>3, NoWalk
<1>5. Reachable = <<tmp_state>>
  <2>1. StackOf(0, s) = <<tmp_state>>
    BY DEF StackOf
  <2> HIDE DEF a, s
  <2> QED
    BY <1>4, <2>1, WalkStack
<1>6. HasWalk
  <2> HIDE DEF a, s
  <2> QED
    BY <1>4 DEF HasWalk
<1>7. Stack!Init
  BY <1>1, <1>2, <1>5 DEF Stack!Init
<1> QED
  BY <1>1, <1>6, <1>7, InitRewindInv DEF StackInv

\* The walk and the stack when nothing happens.
LEMMA StackStutters ==
    ASSUME StackInv, UNCHANGED vars
    PROVE  UNCHANGED Stack!vars /\ StackInv'
<1>1. /\ buffer' = buffer /\ top_ptr' = top_ptr /\ bottom_ptr' = bottom_ptr
      /\ tmp_state' = tmp_state /\ first_pop' = first_pop /\ loaded' = loaded /\ hung' = hung
  BY DEF vars
<1>2. PICK last, at, loads : IsWalk(buffer, bottom_ptr, top_ptr, tmp_state, last, at, loads)
  BY DEF StackInv, HasWalk
<1>3. IsWalk(buffer', bottom_ptr', top_ptr', tmp_state', last, at, loads)
  BY <1>1, <1>2
<1>4. Reachable' = Reachable
  BY <1>2, <1>3, WalkStack, WalkStackNext
<1>5. HasWalk'
  BY <1>3 DEF HasWalk
<1>6. RewindInv'
  BY RewindNext DEF StackInv
<1> QED
  BY <1>1, <1>4, <1>5, <1>6 DEF StackInv, Stack!vars

LEMMA StackNext ==
    StateSize < BufSize /\ StackInv /\ [Next]_vars => [Stack!Next]_(Stack!vars) /\ StackInv'
<1> SUFFICES ASSUME StateSize < BufSize, StackInv, [Next]_vars
             PROVE  [Stack!Next]_(Stack!vars) /\ StackInv'
  OBVIOUS
<1>1. ASSUME NEW new \in State, Push(new)
      PROVE  Stack!Next /\ StackInv'
  BY <1>1, PushSaves DEF Stack!Next
<1>2. CASE PopFirst
  BY <1>2, PopFirstReloads DEF Stack!Next
<1>3. CASE PopEmpty
  BY <1>3, PopEmptyExhausts DEF Stack!Next
<1>4. CASE PopDelta
  BY <1>4, PopDeltaBacks DEF Stack!Next
<1>5. CASE UNCHANGED vars
  BY <1>5, StackStutters
<1> QED
  BY <1>1, <1>2, <1>3, <1>4, <1>5 DEF Next, Pop

\* A ring of more cells than a state has words is a stack of saved states:
\* each rewind (StateManager::pop) loads the states in the reverse order of
\* the saves (push), each exactly as it was saved, however often the ring
\* wrapped and cut off the oldest of them (generate_delta, reassign_bottom).
THEOREM RingImplementsStack == StateSize < BufSize => (Spec => ImplementsStack)
<1> SUFFICES ASSUME StateSize < BufSize PROVE Spec => ImplementsStack
  OBVIOUS
<1>1. Init => StackInv /\ Stack!Init
  BY InitStack
<1>2. StackInv /\ [Next]_vars => [Stack!Next]_(Stack!vars) /\ StackInv'
  BY StackNext
<1> QED
  BY <1>1, <1>2, PTL DEF Spec, ImplementsStack, Stack!Spec
=============================================================================
