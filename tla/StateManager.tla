---------------------------- MODULE StateManager ----------------------------
(***************************************************************************)
(* The rewind buffer (statemanager.cpp).  A ring of 64-bit cells holds, for *)
(* every saved state, a boundary cell (0) followed by the words that       *)
(* differ from the state before, each as (index, xor).  Rewinding walks    *)
(* down from top_ptr and re-applies the xors to tmp_state until it meets a *)
(* boundary.                                                               *)
(*                                                                         *)
(* A machine state is a function from word indices to words and a word is  *)
(* a set of bits, so that xor is symmetric difference and a word is        *)
(* unchanged exactly when the xor is empty.  A call of the emulation       *)
(* thread is one action: nothing else touches the object.                  *)
(***************************************************************************)
EXTENDS Integers, Sequences, FiniteSets

CONSTANTS BufSize,      \* buf_size: cells of the ring, a power of two
          StateSize,    \* state_size: words of a machine state
          Bits          \* the bits of a word

ASSUME StateManagerAssumption ==
    BufSize \in Nat \ {0, 1} /\ StateSize \in Nat \ {0}

VARIABLES buffer,       \* the ring
          top_ptr, bottom_ptr,
          tmp_state,    \* the newest state reached
          first_pop,
          loaded,       \* what pop() handed to S9xUnfreezeGameMem last
          hung          \* a scan for a boundary that cannot end

vars == <<buffer, top_ptr, bottom_ptr, tmp_state, first_pop, loaded, hung>>

Words    == 0 .. StateSize - 1
Word     == SUBSET Bits
State    == [Words -> Word]
Boundary == <<>>
Cell     == {Boundary} \cup (Words \X (Word \ {{}}))
Ring     == 0 .. BufSize - 1
NoState  == <<>>
Blank    == [w \in Words |-> {}]

Xor(a, b) == (a \ b) \cup (b \ a)

\* Indices are masked with buf_size_mask.
At(i) == i % BufSize

-----------------------------------------------------------------------------
\* After the first init(): the object is a global, so bottom_ptr and
\* first_pop start as zero; new uint64_t[] leaves any cells in the ring.
Init ==
    /\ buffer \in [Ring -> Cell]
    /\ top_ptr = 1 /\ bottom_ptr = 0
    /\ tmp_state = Blank
    /\ first_pop = FALSE
    /\ loaded = NoState /\ hung = FALSE

\* init() for the next game, or for another buffer size: it allocates a new
\* ring and resets top_ptr and tmp_state, and nothing else.
Reinit ==
    /\ ~hung
    /\ buffer' \in [Ring -> Cell]
    /\ top_ptr' = 1
    /\ tmp_state' = Blank
    /\ UNCHANGED <<bottom_ptr, first_pop, loaded, hung>>

\* The words that differ, in the order of their indices.
Changed(old, new) == {w \in Words : old[w] # new[w]}
NthOf(S, n) == CHOOSE w \in S : Cardinality({v \in S : v < w}) = n - 1

DeltaWords(old, new) ==
    [n \in 1 .. Cardinality(Changed(old, new)) |->
        LET w == NthOf(Changed(old, new), n) IN <<w, Xor(old[w], new[w])>>]

\* Mutant: no sentinel between the deltas.
DeltaUnseparated(old, new) == DeltaWords(old, new)

\* The cells generate_delta appends: a boundary, then the changed words.
DeltaCells(old, new) == <<Boundary>> \o DeltaWords(old, new)

\* The ring after writing cells from position t on; a run longer than the
\* ring overwrites its own beginning.
Written(t, cells) ==
    [p \in Ring |->
        LET hits == {j \in 1 .. Len(cells) : At(t + j - 1) = p}
        IN  IF hits = {} THEN buffer[p]
            ELSE cells[CHOOSE j \in hits : \A k \in hits : k <= j]]

\* reassign_bottom: the first boundary above top_ptr.
BoundaryDistance(buf, t) == {d \in 1 .. BufSize : buf[At(t + d)] = Boundary}

\* Mutant: the scan does not skip a delta.
NextCell(buf, t) == At(t + 1)

FirstBoundary(buf, t) ==
    At(t + CHOOSE d \in BoundaryDistance(buf, t) :
               \A e \in BoundaryDistance(buf, t) : d <= e)

Push(new) ==
    LET cells   == DeltaCells(tmp_state, new)
        top     == At(top_ptr + Len(cells))
        buf     == Written(top_ptr, cells)
        crossed == \E j \in 1 .. Len(cells) : At(top_ptr + j) = bottom_ptr
    IN  /\ ~hung
        /\ buffer' = buf
        /\ top_ptr' = top
        /\ IF crossed /\ BoundaryDistance(buf, top) = {}
             THEN hung' = TRUE /\ UNCHANGED <<bottom_ptr, tmp_state, first_pop>>
             ELSE /\ hung' = FALSE
                  /\ bottom_ptr' = IF crossed THEN FirstBoundary(buf, top)
                                              ELSE bottom_ptr
                  /\ tmp_state' = new
                  /\ first_pop' = TRUE
        /\ UNCHANGED loaded

\* The walk of pop(): the distances from t down to the boundaries below it, the
\* state after the xors of some cells, and where the walk ends with which state.
BelowDistance(t) == {d \in 0 .. BufSize - 1 : buffer[At(t - d)] = Boundary}

Patched(cells, state) ==
    LET after[n \in 0 .. Len(cells)] ==
          IF n = 0 THEN state
          ELSE LET c == cells[n] IN [after[n - 1] EXCEPT ![c[1]] = Xor(@, c[2])]
    IN  after[Len(cells)]

Undo(t, state) ==
    LET dist == CHOOSE d \in BelowDistance(t) : \A e \in BelowDistance(t) : d <= e
    IN  [at    |-> At(t - dist),
         state |-> Patched([n \in 1 .. dist |-> buffer[At(t - n + 1)]], state)]

\* Mutant: the last delta is popped a second time.
NotSettled(at) == at

\* top_ptr after a walk: one above the boundary when that is the bottom.
Settled(at) == IF at = bottom_ptr THEN At(at + 1) ELSE at

PopFirst ==
    /\ ~hung /\ first_pop
    /\ first_pop' = FALSE
    /\ loaded' = tmp_state
    /\ UNCHANGED <<buffer, top_ptr, bottom_ptr, tmp_state, hung>>

PopEmpty ==
    /\ ~hung /\ ~first_pop /\ At(top_ptr - 1) = bottom_ptr
    /\ loaded' = NoState
    /\ UNCHANGED <<buffer, top_ptr, bottom_ptr, tmp_state, first_pop, hung>>

PopDelta ==
    /\ ~hung /\ ~first_pop /\ At(top_ptr - 1) # bottom_ptr
    /\ IF BelowDistance(top_ptr - 1) = {}
         THEN hung' = TRUE /\ UNCHANGED <<top_ptr, tmp_state, loaded>>
         ELSE LET u == Undo(top_ptr - 1, tmp_state)
              IN  /\ top_ptr' = Settled(u.at)
                  /\ tmp_state' = u.state
                  /\ loaded' = u.state
                  /\ UNCHANGED hung
    /\ UNCHANGED <<buffer, bottom_ptr, first_pop>>

Pop == PopFirst \/ PopEmpty \/ PopDelta

Next == (\E s \in State : Push(s)) \/ Pop

Spec == Init /\ [][Next]_vars

\* The same object used for a second game, as the Qt front-end does.
SpecReinit == Init /\ [][Next \/ Reinit]_vars

-----------------------------------------------------------------------------
\* No scan of generate_delta or pop runs round the ring for ever: there is
\* always a boundary to stop at ("Need a sufficient buffer size", init()).
ScanEnds == ~hung

\* A game starts with nothing to rewind to: init() leaves an empty stack, the
\* one pop() recognises by top_ptr - 1 = bottom_ptr.
NewGameStartsEmpty ==
    [][Reinit => ~first_pop' /\ At(top_ptr' - 1) = bottom_ptr']_vars

\* bottom_ptr never lies inside a delta: the cell it names ends the walk of
\* pop(), unless it is still the never-written cell of a young ring.
BottomIsBoundary ==
    buffer[bottom_ptr] = Boundary \/ (bottom_ptr = 0 /\ buffer[1] = Boundary)
        \/ (bottom_ptr = 0 /\ top_ptr = 1)
=============================================================================
