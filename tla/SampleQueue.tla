---------------------------- MODULE SampleQueue ----------------------------
(***************************************************************************)
(* What the ring between the emulation thread and the sound device         *)
(* promises: a bounded queue of samples. A block that is offered is kept   *)
(* whole, or what is taken of its buffer leaves at least half of the room; *)
(* what is handed over is the head of the queue. A sample is told by its   *)
(* place in the buffer of its block, from 0.                               *)
(***************************************************************************)
EXTENDS Naturals, Sequences

CONSTANTS Capacity, Blocks

VARIABLES
    queue,    \* the samples that wait for the device
    played    \* what the device has been handed and the queue still holds

vars == <<queue, played>>

Init == /\ queue = <<>>
        /\ played = <<>>

Offer(n) ==
    \E k \in 0..(Capacity - Len(queue)) :
        /\ k = n \/ 2 * k <= Capacity - Len(queue)
        /\ queue' = queue \o [i \in 1..k |-> i - 1]
        /\ UNCHANGED played

\* What the device is handed is the head of the queue, which then loses it.
Play(k) ==
    /\ played' = SubSeq(queue, 1, k)
    /\ UNCHANGED queue

Forget ==
    /\ queue' = SubSeq(queue, Len(played) + 1, Len(queue))
    /\ played' = <<>>

Next == \/ \E n \in Blocks : Offer(n)
        \/ \E k \in 1..Len(queue) : Play(k)
        \/ Forget

Spec == Init /\ [][Next]_vars
=============================================================================
