------------------------------ MODULE CheatsMC ------------------------------
(* Instances of Cheats. *)
EXTENDS Cheats

Plain(a, b) == [address |-> a, byte |-> b, conditional |-> FALSE, cond_byte |-> 0]
If(a, x, b) == [address |-> a, byte |-> b, conditional |-> TRUE, cond_byte |-> x]

\* A plain code, a conditional one, and one that asks for the byte it puts. Two
\* groups may have codes for the one address; addresses do not affect each other.
MCCodeLists == {<<Plain(1, 1)>>, <<If(1, 0, 2)>>, <<If(1, 1, 1)>>}
\* Two codes for one address.
TwoAtOne == {<<Plain(1, 1)>>, <<Plain(1, 2)>>}

=============================================================================
