----------------------------- MODULE SoundRing -----------------------------
(***************************************************************************)
(* The lock-free ring between the emulation thread, which mixes a block of *)
(* samples a frame, and the thread on which the sound device calls back    *)
(* (common/audio/atomic_ring_buffer.hpp), with the two drivers that use it *)
(* (cubeb and SDL3) and EmuApplication::writeSamples above them. Every     *)
(* load of the other thread's index is a step, with the copy that may      *)
(* follow it, and so is every store.                                       *)
(***************************************************************************)
EXTENDS Integers, Sequences

CONSTANTS
    Size,      \* buffer.size(), even because of resize
    Blocks,    \* sizes of the blocks that are mixed
    Requests,  \* samples a callback may ask for
    MaxPolls   \* 500 in writeSamples

ASSUME RingAssumption ==
    /\ Size \in Nat /\ Size >= 2 /\ Size % 2 = 0
    /\ Blocks \subseteq Nat /\ Requests \subseteq Nat
    /\ MaxPolls \in Nat

VARIABLES
    start, end, buffer,                       \* atomic_ring_buffer
    wpc, samples, amount,                     \* the emulation thread
    polls, roomy,                             \* its wait for room
    driver, rpc, pulled, dst                  \* the device's thread

ring == <<start, end, buffer>>
writer == <<wpc, samples, amount, polls, roomy>>
reader == <<rpc, pulled, dst>>
vars == <<ring, writer, driver, reader>>

Cells == 0..(Size - 1)

\* i % buffer.size(), for an i below twice the size.
Wrap(i) == IF i >= Size THEN i - Size ELSE i

space_filled == IF end < start THEN end - start + Size ELSE end - start

space_empty_whole == Size - space_filled

space_empty == Size - 2 - space_filled

Init ==
    /\ start = 0 /\ end = 0 /\ buffer = [i \in Cells |-> 0]
    /\ wpc = "idle" /\ samples = 0 /\ amount = 0
    /\ polls = 0 /\ roomy = FALSE
    /\ driver \in {"cubeb", "sdl"}
    /\ rpc = "idle" /\ pulled = 0 /\ dst = <<>>

-----------------------------------------------------------------------------
(* The emulation thread: writeSamples, then write_samples of the driver.   *)

\* The wait is made only with eSoundSync at normal speed.
WriteSamples(n, sync) ==
    /\ wpc = "idle"
    /\ samples' = n
    /\ amount' = n
    /\ wpc' = IF sync THEN "poll" ELSE "push"
    /\ UNCHANGED <<ring, polls, roomy, driver, reader>>

AwaitRoomWhole ==
    /\ wpc = "poll"
    /\ roomy' = (Size - space_filled >= samples)
    /\ IF Size - space_filled < samples /\ polls < MaxPolls
       THEN polls' = polls + 1 /\ UNCHANGED wpc
       ELSE wpc' = "push" /\ UNCHANGED polls
    /\ UNCHANGED <<ring, samples, amount, driver, reader>>

\* One look of the loop that sleeps until there is room, but not for ever.
AwaitRoom ==
    /\ wpc = "poll"
    /\ roomy' = (space_empty >= samples)
    /\ IF space_empty < samples /\ polls < MaxPolls
       THEN polls' = polls + 1 /\ UNCHANGED wpc
       ELSE wpc' = "push" /\ UNCHANGED polls
    /\ UNCHANGED <<ring, samples, amount, driver, reader>>

WriterReturns ==
    /\ wpc' = "idle"
    /\ samples' = 0 /\ amount' = 0 /\ polls' = 0 /\ roomy' = FALSE

CopiedOnce(n) == [i \in Cells |-> IF i >= end /\ i < end + n THEN i - end ELSE buffer[i]]

Copied(n) == [i \in Cells |-> IF \E k \in 0..(n - 1) : i = Wrap(end + k)
                              THEN IF i < end THEN i - end + Size ELSE i - end
                              ELSE buffer[i]]

\* The check at the head of push and its one or two memcpy: of the whole
\* block, or of what is tried after that.
PushCopy ==
    /\ wpc \in {"push", "retry"}
    /\ IF space_empty < amount \/ amount = 0
       THEN /\ UNCHANGED ring
            /\ IF wpc = "push" /\ amount > 0
               THEN wpc' = "half" /\ UNCHANGED <<samples, amount, polls, roomy>>
               ELSE WriterReturns
       ELSE /\ buffer' = Copied(amount)
            /\ wpc' = "publish"
            /\ UNCHANGED <<start, end, samples, amount, polls, roomy>>
    /\ UNCHANGED <<driver, reader>>

\* A block that does not fit is cut to half of the room there is.
HalfTheRoom ==
    /\ wpc = "half"
    /\ amount' = space_empty \div 2
    /\ wpc' = "retry"
    /\ UNCHANGED <<ring, samples, polls, roomy, driver, reader>>

PushPublish ==
    /\ wpc = "publish"
    /\ end' = Wrap(end + amount)
    /\ WriterReturns
    /\ UNCHANGED <<start, buffer, driver, reader>>

Writer == AwaitRoom \/ PushCopy \/ HalfTheRoom \/ PushPublish

-----------------------------------------------------------------------------
(* The device's thread: data_callback of cubeb, mix of SDL3.               *)

CallbackAll(n) ==
    /\ rpc = "idle"
    /\ IF driver = "sdl" /\ space_filled < n
       THEN rpc' = "again" /\ UNCHANGED pulled
       ELSE /\ rpc' = "pull"
            /\ pulled' = IF space_filled < n THEN 0 ELSE n
    /\ UNCHANGED <<ring, writer, driver, dst>>

\* The device asks for n samples. cubeb looks at the ring once, SDL3 again
\* when there was too little.
Callback(n) ==
    /\ rpc = "idle"
    /\ IF driver = "sdl" /\ space_filled < n
       THEN rpc' = "again" /\ UNCHANGED pulled
       ELSE /\ rpc' = "pull"
            /\ pulled' = IF space_filled < n THEN space_filled ELSE n
    /\ UNCHANGED <<ring, writer, driver, dst>>

LookAgain ==
    /\ rpc = "again"
    /\ pulled' = space_filled
    /\ rpc' = "pull"
    /\ UNCHANGED <<ring, writer, driver, dst>>

ReaderReturns == rpc' = "idle" /\ pulled' = 0 /\ dst' = <<>>

\* The check at the head of pull and its one or two memcpy.
PullCopy ==
    /\ rpc = "pull"
    /\ IF space_filled < pulled \/ pulled = 0
       THEN ReaderReturns
       ELSE /\ dst' = [k \in 1..pulled |-> buffer[Wrap(start + k - 1)]]
            /\ rpc' = "publish"
            /\ UNCHANGED pulled
    /\ UNCHANGED <<ring, writer, driver>>

PullPublish ==
    /\ rpc = "publish"
    /\ start' = Wrap(start + pulled)
    /\ ReaderReturns
    /\ UNCHANGED <<end, buffer, writer, driver>>

Reader == LookAgain \/ PullCopy \/ PullPublish

-----------------------------------------------------------------------------
Next == \/ \E n \in Blocks, sync \in BOOLEAN : WriteSamples(n, sync)
        \/ Writer
        \/ \E n \in Requests : Callback(n)
        \/ Reader

\* Two operating system threads; the device calls back as long as it plays.
Fairness == /\ WF_vars(Writer)
            /\ WF_vars(Reader)
            /\ WF_vars(\E n \in Requests : Callback(n))

Spec == Init /\ [][Next]_vars /\ Fairness

-----------------------------------------------------------------------------
TypeOK ==
    /\ start \in Cells /\ end \in Cells
    /\ buffer \in [Cells -> Nat]
    /\ wpc \in {"idle", "poll", "push", "half", "retry", "publish"}
    /\ samples \in Blocks \cup {0} /\ amount \in Nat
    /\ polls \in 0..MaxPolls /\ roomy \in BOOLEAN
    /\ driver \in {"cubeb", "sdl"}
    /\ rpc \in {"idle", "again", "pull", "publish"}
    /\ pulled \in Nat
    /\ dst \in Seq(Nat)

Filled == {Wrap(start + i) : i \in 0..(space_filled - 1)}
BeingWritten == IF wpc = "publish" THEN {Wrap(end + i) : i \in 0..(amount - 1)} ELSE {}

\* The two threads never touch the same cell: what push fills is not yet in
\* the ring, at any point between the check of either thread and its store.
CellsApart ==
    /\ space_filled <= Size - 2
    /\ BeingWritten \cap Filled = {}
    /\ rpc = "publish" => pulled <= space_filled

\* Room that the wait of writeSamples has seen is still there when push
\* checks, so that a block the emulation waited for is never cut.
WaitedBlockFits == roomy => wpc \in {"push", "publish"} /\ samples <= space_empty

\* The samples of the ring in the order they will be pulled.
Queue == [i \in 1..space_filled |-> buffer[Wrap(start + i - 1)]]

Abstract == INSTANCE SampleQueue WITH
    Capacity <- Size - 2,
    queue <- Queue,
    played <- dst

\* What is put in the ring has been mixed: "the single place all mixed audio
\* passes through before reaching the sound driver" (EmuApplication.cpp:135).
\* Half of the room may be more than the block, for between the two looks of
\* write_samples the device can have taken any number of samples.
OnlyMixedSamples == wpc = "publish" => amount <= samples

\* The ring is a bounded queue of samples: none is lost in it, doubled, put
\* out of order or read before it is written.
ImplementsQueue == Abstract!Spec

\* What is in the ring reaches the device, also when the emulation has
\* stopped mixing and less is left than a callback asks for.
Drains == \A i \in Cells : (i \in Filled) ~> (i \notin Filled)
=============================================================================
