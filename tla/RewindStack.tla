---------------------------- MODULE RewindStack ----------------------------
(***************************************************************************)
(* What the rewind buffer promises: a stack of machine states.  Saving a   *)
(* state pushes it and may forget any number of the oldest ones; rewinding *)
(* hands back the newest state once more after a save, and from then on    *)
(* one older state per call, exactly as it was saved.                      *)
(***************************************************************************)
EXTENDS Naturals, Sequences

CONSTANTS State,     \* the machine states
          NoState    \* "nothing was loaded"

VARIABLES stack,     \* the states that can still be reached, newest last
          fresh,     \* a state was saved since the last rewind
          loaded     \* what the last rewind loaded, NoState when it failed

vars == <<stack, fresh, loaded>>

Init == stack \in {<<s>> : s \in State} /\ fresh = FALSE /\ loaded = NoState

Save(s) ==
    /\ \E dropped \in 0 .. Len(stack) :
          stack' = Append(SubSeq(stack, dropped + 1, Len(stack)), s)
    /\ fresh' = TRUE
    /\ UNCHANGED loaded

\* The state saved last is loaded again: nothing older is touched.
Reload ==
    /\ fresh
    /\ fresh' = FALSE
    /\ loaded' = stack[Len(stack)]
    /\ UNCHANGED stack

Back ==
    /\ ~fresh /\ Len(stack) > 1
    /\ stack' = SubSeq(stack, 1, Len(stack) - 1)
    /\ loaded' = stack'[Len(stack')]
    /\ UNCHANGED fresh

Exhausted ==
    /\ ~fresh /\ Len(stack) = 1
    /\ loaded' = NoState
    /\ UNCHANGED <<stack, fresh>>

Next == (\E s \in State : Save(s)) \/ Reload \/ Back \/ Exhausted

Spec == Init /\ [][Next]_vars
=============================================================================
