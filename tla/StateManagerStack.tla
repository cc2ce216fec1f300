-------------------------- MODULE StateManagerStack --------------------------
(***************************************************************************)
(* The rewind buffer implements a stack of states (RewindStack): what a    *)
(* ring of deltas, read from top_ptr down to bottom_ptr, stands for.       *)
(***************************************************************************)
EXTENDS StateManager

\* pop() has nothing to load below t.
AtBottom(t) == At(t - 1) = bottom_ptr \/ BelowDistance(t - 1) = {}

\* Where rewinds have come to: top_ptr, and the states on the way, oldest first.
Position == [at : Ring, states : Seq(State)]

\* One more rewind.
Rewind[r \in Position] ==
    IF AtBottom(r.at) THEN r
    ELSE LET u == Undo(r.at - 1, Head(r.states))
         IN  [at |-> Settled(u.at), states |-> <<u.state>> \o r.states]

Rewound[n \in 0 .. BufSize] ==
    IF n = 0 THEN [at |-> top_ptr, states |-> <<tmp_state>>] ELSE Rewind[Rewound[n - 1]]

\* Every state that can still be reached: a ring has no more than it has cells.
Reachable == Rewound[BufSize].states

Stack == INSTANCE RewindStack
            WITH stack <- Reachable,
                 fresh <- first_pop

\* The ring of deltas is a stack of saved states: a rewind (pop) loads the
\* states in the reverse order of the saves (push), each exactly as saved,
\* however often the ring wrapped and cut off the oldest ones.
ImplementsStack == Stack!Spec
=============================================================================
