--------------------------- MODULE FrontEndProofs ---------------------------
(***************************************************************************)
(* What is proved of the threads of the Qt front-end.                      *)
(*                                                                         *)
(* A stop of the emulation thread takes effect after at most one frame,    *)
(* and its bits follow the two counts of the user interface, for any       *)
(* number and order of the user's actions.                                 *)
(*                                                                         *)
(* For sound rings, blocks and requests of every size, the emulation       *)
(* thread and the device's stay out of each other's cells, and the ring is *)
(* the bounded queue of SampleQueue.                                       *)
(***************************************************************************)
EXTENDS EmuThread, SoundRing, SequenceTheorems, TLAPS

\* Once a frame has been begun under a stopping bit, the thread is on its way
\* back to the test of the bits; not even a function that mainLoop's own
\* processEvents has called returns to before a frame.
OnTheWayBack ==
    /\ status \cap Stops # {}
    /\ pc # "loop"
    /\ ~(pc \in {"advLoop", "advFrame"} /\ back = "loop")

OverrunInv == overrun = 0 \/ (overrun = 1 /\ OnTheWayBack)

\* The invariant holds at the start of the thread.
LEMMA OverrunInit == EmuInit => OverrunInv
  BY DEF EmuInit, OverrunInv

\* The steps of the emulation thread preserve it.
LEMMA OverrunEmuStep == OverrunInv /\ EmuStep => OverrunInv'
<1> SUFFICES ASSUME OverrunInv, EmuStep PROVE OverrunInv'
  OBVIOUS
<1>1. CASE RunFunction
  <2>1. CASE status' \cap Stops = {}
    BY <1>1, <2>1 DEF RunFunction, OverrunInv
  <2>2. CASE status' \cap Stops # {} /\ overrun = 0
    BY <1>1, <2>2 DEF RunFunction, OverrunInv
  <2>3. CASE status' \cap Stops # {} /\ overrun = 1 /\ OnTheWayBack
    <3>1. overrun' = 1
      BY <1>1, <2>3 DEF RunFunction
    <3>2. \/ pc' = pc /\ back' = back
          \/ pc' = "advLoop" /\ back' = pc
      BY <1>1 DEF RunFunction
    <3> QED
      BY <2>3, <3>1, <3>2 DEF OverrunInv, OnTheWayBack
  <2> QED
    BY <2>1, <2>2, <2>3 DEF OverrunInv
<1>2. CASE EventsDone \/ IdleDone \/ EndFrame \/ BeginAdvance \/ EndAdvance
  BY <1>2 DEF EventsDone, IdleDone, EndFrame, BeginAdvance, EndAdvance, OverrunInv, OnTheWayBack
<1>3. CASE Check
  BY <1>3 DEF Check, Place, OverrunInv, OnTheWayBack
<1>4. CASE BeginFrame
  BY <1>4 DEF BeginFrame, OverrunInv, OnTheWayBack
<1> QED
  BY <1>1, <1>2, <1>3, <1>4 DEF EmuStep

\* The calls of the user interface do: the only bit it sets itself is eQuit.
LEMMA OverrunUI == OverrunInv /\ (UIContinues \/ User) => OverrunInv'
<1> SUFFICES ASSUME OverrunInv, UIContinues \/ User PROVE OverrunInv'
  OBVIOUS
<1>1. /\ pc' = pc /\ back' = back /\ overrun' = overrun
      /\ status \subseteq status'
  <2>1. CASE UIContinues
    BY <2>1 DEF UIContinues, SuspendThread, UnsuspendThread, Pause, SettingsPaused, Unpause,
       UseCore, CoreUsed, RunOnThread, StopThread, ThreadFinished
  <2>2. CASE User
    BY <2>2 DEF User, Hold, LetGo, FrameAdvance, ResetGame, OpenFile, Close, SaveState,
       PressButton, DumpSpc, Quit, UserActs
  <2> QED
    BY <2>1, <2>2
<1> QED
  BY <1>1 DEF OverrunInv, OnTheWayBack

\* Once a pause or a suspension has taken effect at most one more frame is
\* begun until it is lifted (EmuThread::run and EmuApplication::mainLoop).
THEOREM OneMoreFrameInv == EmuSpec => []OneMoreFrame
<1>1. OverrunInv /\ [EmuNext]_emuVars => OverrunInv'
  <2>1. CASE UNCHANGED emuVars
    BY <2>1 DEF emuVars, uiVars, OverrunInv, OnTheWayBack
  <2> QED
    BY <2>1, OverrunEmuStep, OverrunUI DEF EmuNext
<1>2. OverrunInv => OneMoreFrame
  BY DEF OverrunInv, OneMoreFrame
<1> QED
  BY <1>1, <1>2, OverrunInit, PTL DEF EmuSpec

-----------------------------------------------------------------------------
\* The user interface posts one function at a time and waits for it, unless it
\* is a "post": the last function of the queue is the only one that matters.
Pending == IF queue = <<>> THEN "post" ELSE queue[Len(queue)]

InAdvance == pc \in {"advLoop", "advFrame"}

QueueOK ==
    /\ queue \in Seq(Functions)
    /\ \A i \in 1 .. Len(queue) : i < Len(queue) => queue[i] = "post"
    /\ waiting \in BOOLEAN /\ active \in BOOLEAN /\ back \in {"events", "loop"}
    /\ ~waiting => Pending = "post"
    /\ InAdvance => waiting /\ Pending = "post"

\* eQuit is set by the last call that is ever made.
QuitOK ==
    /\ \/ todo \in Seq(Calls \ {"quit"})
       \/ todo \in {<<"suspend", "quit">>, <<"quit">>}
    /\ pc = "dead" => "quit" \in status
    /\ "quit" \in status => todo = <<>> /\ Pending = "post"

\* What the bits are once the pending function has run.
SuspendedSoon == Pending = "setSuspended" \/ (Pending # "clearSuspended" /\ "suspended" \in status)
PausedSoon == Pending = "setPaused" \/ (Pending # "clearPaused" /\ "paused" \in status)

Started == acts > 0 \/ todo = <<>>

CountsOK ==
    /\ suspendCount \in Int /\ pauseCount \in Nat /\ acts \in Nat
    /\ ~Started => todo = StartThread /\ Pending = "post" /\ pauseCount = 0
    /\ SuspendedSoon <=> suspendCount > 0
    /\ Started => (PausedSoon <=> pauseCount > 0)

BitsInv == QueueOK /\ QuitOK /\ CountsOK

\* An empty queue is a queue of nothing but posts.
LEMMA EmptyQueue ==
    /\ <<>> \in Seq(Functions)
    /\ \A i \in 1 .. Len(<<>>) : i < Len(<<>>) => <<>>[i] = "post"
<1>1. Len(<<>>) = 0
  OBVIOUS
<1> QED
  BY <1>1

\* The invariant holds at the start of the thread.
LEMMA BitsInit == EmuInit => BitsInv
<1> SUFFICES ASSUME EmuInit PROVE BitsInv
  OBVIOUS
<1>1. Pending = "post" /\ ~Started
  BY DEF EmuInit, Pending, Started, StartThread
<1>2. todo \in Seq(Calls \ {"quit"})
  BY DEF EmuInit, StartThread, Calls
<1>3. QueueOK
  <2>1. queue \in Seq(Functions) /\ \A i \in 1 .. Len(queue) : i < Len(queue) => queue[i] = "post"
    BY EmptyQueue DEF EmuInit
  <2>2. waiting \in BOOLEAN /\ active \in BOOLEAN /\ back = "events" /\ ~InAdvance
    BY DEF EmuInit, InAdvance
  <2> QED
    BY <1>1, <2>1, <2>2 DEF QueueOK
<1>4. QuitOK
  BY <1>1, <1>2 DEF EmuInit, QuitOK
<1>5. CountsOK
  BY <1>1 DEF EmuInit, CountsOK, SuspendedSoon
<1> QED
  BY <1>3, <1>4, <1>5 DEF BitsInv

\* Handling a posted function: unless it is the pending one it is a "post".
LEMMA BitsRunFunction == BitsInv /\ RunFunction => BitsInv'
<1> SUFFICES ASSUME BitsInv, RunFunction PROVE BitsInv'
  OBVIOUS
<1> USE DEF BitsInv, QueueOK
<1> DEFINE f == Head(queue)
<1>1. /\ queue \in Seq(Functions) /\ queue # <<>> /\ queue' = Tail(queue)
      /\ f = queue[1] /\ f \in Functions
      /\ Len(queue') = Len(queue) - 1
      /\ \A i \in 1 .. Len(queue') : queue'[i] = queue[i + 1]
      /\ queue' \in Seq(Functions)
  <2>1. queue \in Seq(Functions) /\ queue # <<>> /\ queue' = Tail(queue)
    BY DEF RunFunction
  <2> QED
    BY <2>1
<1>2. UNCHANGED <<todo, pauseCount, suspendCount, acts>>
  BY DEF RunFunction
<1>3. CASE Len(queue) > 1
  <2>1. f = "post"
    BY <1>1, <1>3
  <2>2. UNCHANGED <<status, waiting, pc, back>>
    BY <2>1 DEF RunFunction, Return
  <2>3. Pending' = Pending
    <3>0. Len(queue') > 0 /\ Len(queue') \in Nat /\ Len(<<>>) = 0
      BY <1>1, <1>3
    <3>1. Len(queue') \in 1 .. Len(queue') /\ queue' # <<>>
      BY <3>0
    <3>2. queue'[Len(queue')] = queue[Len(queue)]
      BY <1>1, <1>3, <3>1
    <3> QED
      BY <1>1, <3>1, <3>2 DEF Pending
  <2>4. active' = active
    BY DEF RunFunction
  <2>5. QueueOK'
    BY <1>1, <1>3, <2>2, <2>3, <2>4 DEF InAdvance
  <2>6. QuitOK' /\ CountsOK'
    BY <1>2, <2>2, <2>3 DEF QuitOK, CountsOK, SuspendedSoon, PausedSoon, Started
  <2> QED
    BY <2>5, <2>6
<1>4. CASE Len(queue) = 1
  <2>1. Pending = f /\ Pending' = "post" /\ queue' = <<>>
    BY <1>1, <1>4 DEF Pending
  <2>2. CASE f = "advance"
    <3>1. ~InAdvance /\ "quit" \notin status /\ waiting
      BY <2>1, <2>2 DEF QuitOK
    <3>2. /\ status' = status /\ waiting' = active
          /\ \/ active /\ pc' = "advLoop" /\ back' = pc
             \/ ~active /\ pc' = pc /\ back' = back
      BY <2>2 DEF RunFunction
    <3>3. pc \in {"events", "loop"} /\ active' = active
      BY <3>1 DEF RunFunction, InAdvance
    <3>4. QueueOK'
      BY <1>1, <2>1, <3>1, <3>2, <3>3 DEF InAdvance
    <3>5. QuitOK'
      BY <1>2, <2>1, <3>1, <3>2, <3>3 DEF QuitOK
    <3>6. CountsOK'
      BY <1>2, <2>1, <2>2, <3>2 DEF CountsOK, SuspendedSoon, PausedSoon, Started
    <3> QED
      BY <3>4, <3>5, <3>6
  <2>3. CASE f # "advance"
    <3>1. UNCHANGED <<pc, back>> /\ waiting' = IF f = "post" THEN waiting ELSE FALSE
      BY <2>3 DEF RunFunction, Return
    <3>2. status' = CASE f = "setSuspended"   -> status \cup {"suspended"}
                      [] f = "clearSuspended" -> status \ {"suspended"}
                      [] f = "setPaused"      -> status \cup {"paused"}
                      [] f = "clearPaused"    -> status \ {"paused"}
                      [] OTHER -> status
      BY <2>3 DEF RunFunction
    <3>3. /\ "quit" \in status' <=> "quit" \in status
          /\ "suspended" \in status' <=> SuspendedSoon
          /\ "paused" \in status' <=> PausedSoon
      BY <2>1, <3>2 DEF SuspendedSoon, PausedSoon
    <3>4. InAdvance => f = "post"
      BY <2>1
    <3>5. QueueOK'
      <4>1. active' = active
        BY DEF RunFunction
      <4> QED
        BY EmptyQueue, <2>1, <3>1, <3>4, <4>1 DEF InAdvance
    <3>6. QuitOK'
      BY <1>2, <2>1, <3>1, <3>3 DEF QuitOK
    <3>7. CountsOK'
      BY <1>2, <2>1, <3>3 DEF CountsOK, SuspendedSoon, PausedSoon, Started
    <3> QED
      BY <3>5, <3>6, <3>7
  <2> QED
    BY <2>2, <2>3
<1> QED
  <2>1. Len(queue) >= 1
    BY <1>1
  <2> QED
    BY <2>1, <1>1, <1>3, <1>4

\* The other steps of the emulation thread change neither bits nor queue.
LEMMA BitsEmuStep == BitsInv /\ EmuStep => BitsInv'
<1> SUFFICES ASSUME BitsInv, EmuStep, ~RunFunction PROVE BitsInv'
  BY BitsRunFunction
<1>1. UNCHANGED <<status, queue, back, active, todo, pauseCount, suspendCount, acts>>
  BY DEF EmuStep, EventsDone, Check, IdleDone, BeginFrame, EndFrame, BeginAdvance, EndAdvance,
     uiVars
<1>2. /\ pc' = "dead" => "quit" \in status
      /\ InAdvance' => InAdvance /\ waiting' = waiting
      /\ waiting' = waiting \/ (waiting' = FALSE /\ Pending = "post")
  <2>1. CASE Check
    BY <2>1 DEF Check, Place, InAdvance, uiVars
  <2>2. CASE EventsDone \/ IdleDone \/ BeginFrame \/ EndFrame \/ BeginAdvance
    BY <2>2 DEF EventsDone, IdleDone, BeginFrame, EndFrame, BeginAdvance, InAdvance, uiVars
  <2>3. CASE EndAdvance
    BY <2>3 DEF EndAdvance, InAdvance, BitsInv, QueueOK
  <2> QED
    BY <2>1, <2>2, <2>3 DEF EmuStep
<1>3. Pending' = Pending
  BY <1>1 DEF Pending
<1>4. QueueOK'
  <2>1. waiting' \in BOOLEAN
    BY <1>2 DEF BitsInv, QueueOK
  <2>2. ~waiting' => Pending' = "post"
    BY <1>2, <1>3 DEF BitsInv, QueueOK
  <2>3. InAdvance' => waiting' /\ Pending' = "post"
    BY <1>2, <1>3 DEF BitsInv, QueueOK
  <2> QED
    BY <1>1, <2>1, <2>2, <2>3 DEF BitsInv, QueueOK
<1>5. QuitOK'
  BY <1>1, <1>2, <1>3 DEF BitsInv, QuitOK
<1>6. CountsOK'
  BY <1>1, <1>3 DEF BitsInv, CountsOK, SuspendedSoon, PausedSoon, Started
<1> QED
  BY <1>4, <1>5, <1>6 DEF BitsInv

\* Posting a function makes it the pending one.
LEMMA Posting ==
  ASSUME QueueOK, Pending = "post", NEW f \in Functions, queue' = Append(queue, f)
  PROVE  /\ queue' \in Seq(Functions) /\ Pending' = f
         /\ \A i \in 1 .. Len(queue') : i < Len(queue') => queue'[i] = "post"
<1>1. queue \in Seq(Functions) /\ Len(queue) \in Nat
  BY DEF QueueOK
<1>2. \A i \in 1 .. Len(queue) : queue[i] = "post"
  <2>1. CASE queue = <<>>
    BY <2>1
  <2>2. CASE queue # <<>>
    BY <1>1, <2>2 DEF QueueOK, Pending
  <2> QED
    BY <2>1, <2>2
<1>3. /\ queue' \in Seq(Functions) /\ Len(queue') = Len(queue) + 1 /\ queue'[Len(queue')] = f
      /\ \A i \in 1 .. Len(queue) : queue'[i] = queue[i]
  BY <1>1
<1>4. queue' # <<>>
  <2>1. Len(queue') > 0 /\ Len(<<>>) = 0
    BY <1>1, <1>3
  <2> QED
    BY <2>1
<1>5. Pending' = f
  BY <1>3, <1>4 DEF Pending
<1> QED
  BY <1>1, <1>2, <1>3, <1>5

\* What holds when the user interface is about to make a call.
LEMMA Calling ==
  ASSUME BitsInv, ~waiting, todo # <<>>
  PROVE  /\ Pending = "post" /\ ~InAdvance /\ "quit" \notin status /\ pc # "dead"
         /\ \/ Tail(todo) \in Seq(Calls \ {"quit"})
            \/ Tail(todo) \in {<<"suspend", "quit">>, <<"quit">>}
         /\ Head(todo) = "quit" => Tail(todo) = <<>>
         /\ Head(todo) = "pause" => todo \in Seq(Calls \ {"quit"})
         /\ Tail(todo) = <<>> \/ acts > 0
         /\ Head(todo) # "unpause" => acts > 0
<1>1. Pending = "post" /\ ~InAdvance /\ "quit" \notin status /\ pc # "dead"
  BY DEF BitsInv, QueueOK, QuitOK
<1>2. \/ Tail(todo) \in Seq(Calls \ {"quit"})
      \/ Tail(todo) \in {<<"suspend", "quit">>, <<"quit">>}
  <2>1. CASE todo \in Seq(Calls \ {"quit"})
    BY <2>1
  <2>2. CASE todo = <<"suspend", "quit">>
    BY <2>2
  <2>3. CASE todo = <<"quit">>
    <3>1. Tail(todo) = <<>> /\ <<>> \in Seq(Calls \ {"quit"})
      BY <2>3
    <3> QED
      BY <3>1
  <2> QED
    BY <2>1, <2>2, <2>3 DEF BitsInv, QuitOK
<1>3. Head(todo) = "quit" => Tail(todo) = <<>>
  <2>1. CASE todo \in Seq(Calls \ {"quit"})
    BY <2>1
  <2>2. CASE todo = <<"suspend", "quit">>
    BY <2>2
  <2>3. CASE todo = <<"quit">>
    BY <2>3
  <2> QED
    BY <2>1, <2>2, <2>3 DEF BitsInv, QuitOK
<1>4. Head(todo) = "pause" => todo \in Seq(Calls \ {"quit"})
  <2>1. CASE todo \in {<<"suspend", "quit">>, <<"quit">>}
    BY <2>1
  <2> QED
    BY <2>1 DEF BitsInv, QuitOK
<1>5. ~Started => Tail(todo) = <<>> /\ Head(todo) = "unpause"
  <2>1. ~Started => todo = <<"unpause">>
    BY DEF BitsInv, CountsOK, StartThread
  <2>2. todo = <<"unpause">> => Tail(todo) = <<>>
    OBVIOUS
  <2>3. todo = <<"unpause">> => Head(todo) = "unpause"
    OBVIOUS
  <2> QED
    BY <2>1, <2>2, <2>3
<1> QED
  BY <1>1, <1>2, <1>3, <1>4, <1>5 DEF Started

\* A call that posts nothing, or posts f (and waits, unless f is a "post").
Posts(f) == queue' = Append(queue, f) /\ (waiting' = TRUE \/ (f = "post" /\ waiting' = waiting))
PostsNothing == queue' = queue /\ waiting' = waiting

\* Whatever is posted, the queue stays in order.
LEMMA QueueStep ==
  ASSUME BitsInv, ~waiting, pc' = pc, back' = back, active' \in BOOLEAN
  PROVE  /\ PostsNothing => QueueOK' /\ Pending' = Pending
         /\ \A f \in Functions : Posts(f) => QueueOK' /\ Pending' = f
<1>1. QueueOK /\ Pending = "post" /\ ~InAdvance /\ ~InAdvance'
  BY DEF BitsInv, QueueOK, InAdvance
<1>2. ASSUME PostsNothing PROVE QueueOK' /\ Pending' = Pending
  <2>1. Pending' = Pending
    BY <1>2 DEF PostsNothing, Pending
  <2> QED
    BY <1>1, <1>2, <2>1 DEF PostsNothing, QueueOK
<1>3. ASSUME NEW f \in Functions, Posts(f) PROVE QueueOK' /\ Pending' = f
  <2>1. /\ queue' \in Seq(Functions) /\ Pending' = f
        /\ \A i \in 1 .. Len(queue') : i < Len(queue') => queue'[i] = "post"
    BY <1>1, <1>3, Posting DEF Posts
  <2>2. waiting' \in BOOLEAN /\ (waiting' \/ f = "post")
    BY <1>1, <1>3 DEF Posts, QueueOK
  <2> QED
    BY <1>1, <2>1, <2>2 DEF QueueOK
<1> QED
  BY <1>2, <1>3

\* Every call of the user interface preserves the invariant.
LEMMA BitsUI == BitsInv /\ UIContinues => BitsInv'
<1> SUFFICES ASSUME BitsInv, UIContinues PROVE BitsInv'
  OBVIOUS
<1> USE DEF BitsInv
<1>0. suspendCount \in Int /\ pauseCount \in Nat /\ acts \in Nat /\ active \in BOOLEAN
  BY DEF QueueOK, CountsOK
<1>1. CASE ThreadFinished
  <2>1. UNCHANGED <<status, pc, back, queue, active, todo, pauseCount, suspendCount, acts>>
    BY <1>1 DEF ThreadFinished
  <2>2. Pending = "post" /\ Pending' = Pending /\ InAdvance' = InAdvance /\ ~InAdvance
    BY <1>1, <2>1 DEF ThreadFinished, QuitOK, Pending, InAdvance
  <2>3. waiting' = FALSE
    BY <1>1 DEF ThreadFinished
  <2>4. QueueOK'
    BY <2>1, <2>2, <2>3 DEF QueueOK
  <2>5. QuitOK' /\ CountsOK'
    BY <2>1, <2>2 DEF QuitOK, CountsOK, SuspendedSoon, PausedSoon, Started
  <2> QED
    BY <2>4, <2>5
<1>2. CASE ~ThreadFinished
  <2>1. /\ ~waiting /\ todo # <<>> /\ pc' = pc /\ back' = back /\ acts' = acts
        /\ active' \in BOOLEAN
    BY <1>0, <1>2 DEF UIContinues, SuspendThread, UnsuspendThread, Pause, SettingsPaused,
       Unpause, UseCore, CoreUsed, RunOnThread, StopThread, Call
  <2>2. /\ Pending = "post" /\ "quit" \notin status /\ pc # "dead"
        /\ \/ Tail(todo) \in Seq(Calls \ {"quit"})
           \/ Tail(todo) \in {<<"suspend", "quit">>, <<"quit">>}
        /\ Tail(todo) = <<>> \/ acts > 0
        /\ Head(todo) # "unpause" => acts > 0
    BY <2>1, Calling
  <2>3. /\ PostsNothing => QueueOK' /\ Pending' = Pending
        /\ \A f \in Functions : Posts(f) => QueueOK' /\ Pending' = f
    BY <2>1, QueueStep
  <2>4. ASSUME todo' = Tail(todo), status' = status PROVE QuitOK' /\ Started'
    BY <2>1, <2>2, <2>4 DEF QuitOK, Started
  <2>5. CASE SuspendThread
    <3>1. /\ Head(todo) = "suspend" /\ todo' = Tail(todo)
          /\ UNCHANGED <<status, pauseCount>> /\ suspendCount' = suspendCount + 1
      BY <2>5 DEF SuspendThread, Call, Done
    <3>2. CASE suspendCount = 0
      <4>1. Posts("setSuspended")
        BY <1>0, <2>5, <3>2 DEF SuspendThread, RunBlocking, Posts
      <4>2. QueueOK' /\ Pending' = "setSuspended"
        BY <2>3, <4>1 DEF Functions
      <4>3. CountsOK'
        BY <1>0, <2>1, <2>2, <2>4, <3>1, <3>2, <4>2 DEF CountsOK, SuspendedSoon, PausedSoon, Started
      <4> QED
        BY <2>4, <3>1, <4>2, <4>3
    <3>3. CASE suspendCount # 0
      <4>1. PostsNothing
        BY <1>0, <2>5, <3>3 DEF SuspendThread, NoRun, PostsNothing
      <4>2. QueueOK' /\ Pending' = "post"
        BY <2>2, <2>3, <4>1
      <4>3. CountsOK'
        BY <1>0, <2>1, <2>2, <2>4, <3>1, <3>3, <4>2 DEF CountsOK, SuspendedSoon, PausedSoon, Started
      <4> QED
        BY <2>4, <3>1, <4>2, <4>3
    <3> QED
      BY <3>2, <3>3
  <2>6. CASE UnsuspendThread
    <3>1. /\ Head(todo) = "unsuspend" /\ todo' = Tail(todo)
          /\ UNCHANGED <<status, pauseCount>> /\ suspendCount' = suspendCount - 1
      BY <2>6 DEF UnsuspendThread, Call, Done
    <3>2. CASE suspendCount = 1
      <4>1. Posts("clearSuspended")
        BY <1>0, <2>6, <3>1, <3>2 DEF UnsuspendThread, Outermost, RunBlocking, Posts
      <4>2. QueueOK' /\ Pending' = "clearSuspended"
        BY <2>3, <4>1 DEF Functions
      <4>3. CountsOK'
        BY <1>0, <2>1, <2>2, <2>4, <3>1, <3>2, <4>2 DEF CountsOK, SuspendedSoon, PausedSoon, Started
      <4> QED
        BY <2>4, <3>1, <4>2, <4>3
    <3>3. CASE suspendCount # 1
      <4>1. PostsNothing
        BY <1>0, <2>6, <3>1, <3>3 DEF UnsuspendThread, Outermost, NoRun, PostsNothing
      <4>2. QueueOK' /\ Pending' = "post"
        BY <2>2, <2>3, <4>1
      <4>3. CountsOK'
        BY <1>0, <2>1, <2>2, <2>4, <3>1, <3>3, <4>2 DEF CountsOK, SuspendedSoon, PausedSoon, Started
      <4> QED
        BY <2>4, <3>1, <4>2, <4>3
    <3> QED
      BY <3>2, <3>3
  <2>7. CASE Pause
    <3>1. /\ Head(todo) = "pause" /\ todo' = <<"settingsPaused">> \o Tail(todo)
          /\ UNCHANGED <<status, suspendCount>> /\ pauseCount' = pauseCount + 1
      BY <2>7 DEF Pause, Call
    <3>2. Posts("setPaused")
      BY <2>7 DEF Pause, RunBlocking, Posts
    <3>3. QueueOK' /\ Pending' = "setPaused"
      BY <2>3, <3>2 DEF Functions
    <3>4. todo' \in Seq(Calls \ {"quit"})
      <4>1. todo \in Seq(Calls \ {"quit"})
        BY <2>1, <3>1, Calling
      <4>2. Tail(todo) \in Seq(Calls \ {"quit"}) /\ <<"settingsPaused">> \in Seq(Calls \ {"quit"})
        BY <2>1, <4>1 DEF Calls
      <4> QED
        BY <3>1, <4>2
    <3>5. QuitOK'
      BY <2>1, <2>2, <3>1, <3>4 DEF QuitOK
    <3>6. CountsOK'
      BY <1>0, <2>1, <2>2, <3>1, <3>3 DEF CountsOK, SuspendedSoon, PausedSoon, Started
    <3> QED
      BY <3>3, <3>5, <3>6
  <2>8. CASE Unpause
    <3>1. /\ todo' = Tail(todo) /\ UNCHANGED <<status, suspendCount>>
          /\ pauseCount' = Lowered(pauseCount)
      BY <2>8 DEF Unpause, Call, Done
    <3>2. CASE pauseCount > 1
      <4>1. pauseCount' = pauseCount - 1
        BY <1>0, <3>1, <3>2 DEF Lowered
      <4>2. PostsNothing /\ Started
        BY <1>0, <2>8, <3>2, <4>1 DEF Unpause, NoRun, PostsNothing, CountsOK
      <4>3. QueueOK' /\ Pending' = "post"
        BY <2>2, <2>3, <4>2
      <4>4. CountsOK'
        BY <1>0, <2>1, <2>2, <2>4, <3>1, <3>2, <4>1, <4>2, <4>3 DEF CountsOK,
           SuspendedSoon, PausedSoon
      <4> QED
        BY <2>4, <3>1, <4>3, <4>4
    <3>3. CASE pauseCount \in {0, 1}
      <4>1. pauseCount' = 0
        BY <1>0, <3>1, <3>3 DEF Lowered
      <4>2. Posts("clearPaused")
        BY <2>8, <4>1 DEF Unpause, RunBlocking, Posts
      <4>3. QueueOK' /\ Pending' = "clearPaused"
        BY <2>3, <4>2 DEF Functions
      <4>4. CountsOK'
        BY <1>0, <2>1, <2>2, <2>4, <3>1, <4>1, <4>3 DEF CountsOK, SuspendedSoon, PausedSoon, Started
      <4> QED
        BY <2>4, <3>1, <4>3, <4>4
    <3> QED
      BY <1>0, <3>2, <3>3
  <2>9. CASE SettingsPaused \/ UseCore \/ CoreUsed
    <3>1. /\ todo' = Tail(todo) /\ UNCHANGED <<status, suspendCount, pauseCount>>
          /\ Head(todo) # "unpause" /\ PostsNothing
      BY <2>9 DEF SettingsPaused, UseCore, CoreUsed, Call, Done, PostsNothing
    <3>2. CountsOK'
      BY <1>0, <2>1, <2>2, <2>3, <2>4, <3>1 DEF CountsOK, SuspendedSoon, PausedSoon, Started
    <3> QED
      BY <2>3, <2>4, <3>1, <3>2
  <2>10. CASE RunOnThread
    <3>1. PICK f \in {"saveState", "advance", "post"} :
             /\ todo' = Tail(todo) /\ UNCHANGED <<status, suspendCount, pauseCount>>
             /\ Head(todo) = f /\ Posts(f)
      BY <2>10 DEF RunOnThread, Call, Done, RunBlocking, Posts
    <3>2. QueueOK' /\ Pending' = f
      BY <2>3, <3>1 DEF Functions
    <3>3. CountsOK'
      BY <1>0, <2>1, <2>2, <2>4, <3>1, <3>2 DEF CountsOK, SuspendedSoon, PausedSoon, Started
    <3> QED
      BY <2>4, <3>1, <3>2, <3>3
  <2>11. CASE StopThread
    <3>1. /\ todo' = <<>> /\ queue' = queue /\ waiting' = TRUE /\ status' = status \cup {"quit"}
          /\ UNCHANGED <<suspendCount, pauseCount>> /\ Head(todo) = "quit"
      BY <2>1, <2>11, Calling DEF StopThread, Call, Done
    <3>2. Pending' = "post"
      BY <2>2, <3>1 DEF Pending
    <3>3. QueueOK'
      BY <2>1, <3>1, <3>2 DEF QueueOK, InAdvance
    <3>4. QuitOK'
      <4>1. <<>> \in Seq(Calls \ {"quit"})
        OBVIOUS
      <4> QED
        BY <2>1, <3>1, <3>2, <4>1 DEF QuitOK
    <3>5. CountsOK'
      BY <1>0, <2>1, <2>2, <3>1, <3>2 DEF CountsOK, SuspendedSoon, PausedSoon, Started
    <3> QED
      BY <3>3, <3>4, <3>5
  <2> QED
    BY <1>2, <2>5, <2>6, <2>7, <2>8, <2>9, <2>10, <2>11 DEF UIContinues
<1> QED
  BY <1>1, <1>2

\* What a handler of the window does is a sequence of calls, and eQuit at the
\* end of the last one.
LEMMA HandlersCall ==
  ASSUME User
  PROVE  \E calls : /\ UserActs(calls)
                    /\ calls \in Seq(Calls \ {"quit"}) \/ calls = <<"suspend", "quit">>
<1> DEFINE S == Seq(Calls \ {"quit"})
<1>1. /\ <<>> \in S /\ <<"pause">> \in S /\ <<"unpause">> \in S /\ <<"suspend">> \in S
      /\ <<"unsuspend">> \in S /\ <<"advance">> \in S /\ <<"post">> \in S
      /\ <<"saveState">> \in S
  BY DEF Calls
<1>2. /\ <<"open", "opened">> \in S /\ <<"use", "used">> \in S /\ <<"open", "closed">> \in S
      /\ <<"use", "closed">> \in S
  BY DEF Calls
<1>3. ASSUME NEW s \in S, NEW t \in S PROVE s \o t \in S
  OBVIOUS
<1> HIDE DEF S
<1>4. ASSUME NEW s \in S PROVE Wrapped(s) \in S
  <2>1. <<"suspend">> \o s \in S
    BY <1>1, <1>3
  <2> QED
    BY <1>1, <1>3, <2>1 DEF Wrapped
<1>5. ASSUME NEW loads \in BOOLEAN PROVE OpenGame(loads) \in S
  <2>1. Wrapped(<<"open", "opened">>) \o Wrapped(<<"use", "used">>) \in S
    BY <1>2, <1>3, <1>4
  <2>2. Wrapped(<<"open", "opened">>) \o Wrapped(<<"use", "used">>) \o <<"unpause">> \in S
    BY <1>1, <1>3, <2>1
  <2>3. Wrapped(<<"open", "closed">>) \in S
    BY <1>2, <1>4
  <2>4. CASE loads
    BY <1>4, <2>2, <2>4 DEF OpenGame
  <2>5. CASE ~loads
    BY <1>4, <2>3, <2>5 DEF OpenGame
  <2> QED
    BY <2>4, <2>5
<1>6. ASSUME NEW loads \in BOOLEAN PROVE <<"pause">> \o OpenGame(loads) \o <<"unpause">> \in S
  <2>1. <<"pause">> \o OpenGame(loads) \in S
    BY <1>1, <1>3, <1>5
  <2> QED
    BY <1>1, <1>3, <2>1
<1>7. CloseGame \in S
  <2>1. <<"pause">> \o Wrapped(<<"use", "closed">>) \in S
    BY <1>1, <1>2, <1>3, <1>4
  <2> QED
    BY <1>4, <2>1 DEF CloseGame
<1>8. \E calls : UserActs(calls) /\ (calls \in S \/ calls = <<"suspend", "quit">>)
  <2>1. CASE \E h \in Holders : Hold(h) \/ LetGo(h)
    BY <1>1, <2>1 DEF Hold, LetGo
  <2>2. CASE FrameAdvance
    <3>1. PICK allowed \in BOOLEAN :
             UserActs((IF "manual" \in held THEN <<>> ELSE <<"pause">>)
                         \o (IF active /\ allowed THEN <<"advance">> ELSE <<>>))
      BY <2>2 DEF FrameAdvance
    <3>2. /\ (IF "manual" \in held THEN <<>> ELSE <<"pause">>) \in S
          /\ (IF active /\ allowed THEN <<"advance">> ELSE <<>>) \in S
      BY <1>1
    <3> QED
      BY <1>3, <3>1, <3>2
  <2>3. CASE ResetGame
    <3>1. (IF "manual" \in held THEN <<"unpause">> ELSE <<>>) \in S
      BY <1>1
    <3> QED
      BY <1>1, <1>3, <2>3, <3>1 DEF ResetGame
  <2>4. CASE OpenFile
    <3>1. PICK loads \in BOOLEAN, dialog \in BOOLEAN :
             UserActs(IF dialog THEN <<"pause">> \o OpenGame(loads) \o <<"unpause">>
                                ELSE OpenGame(loads))
      BY <2>4 DEF OpenFile
    <3> QED
      BY <1>5, <1>6, <3>1
  <2>5. CASE Close
    BY <1>7, <2>5 DEF Close
  <2>6. CASE SaveState \/ PressButton
    BY <1>1, <2>6 DEF SaveState, PressButton
  <2>7. CASE DumpSpc
    BY <1>2, <1>4, <2>7 DEF DumpSpc
  <2>8. CASE Quit
    BY <2>8 DEF Quit
  <2> QED
    BY <2>1, <2>2, <2>3, <2>4, <2>5, <2>6, <2>7, <2>8 DEF User
<1> QED
  BY <1>8 DEF S

\* Starting a handler preserves the invariant.
LEMMA BitsUser == BitsInv /\ User => BitsInv'
<1> SUFFICES ASSUME BitsInv, User PROVE BitsInv'
  OBVIOUS
<1>1. PICK calls : /\ UserActs(calls)
                   /\ calls \in Seq(Calls \ {"quit"}) \/ calls = <<"suspend", "quit">>
  BY HandlersCall
<1>2. /\ UNCHANGED <<status, pc, back, queue, waiting, pauseCount, suspendCount, active>>
      /\ todo = <<>> /\ todo' = calls /\ "quit" \notin status /\ acts' = acts + 1
  BY <1>1 DEF UserActs
<1>3. Pending' = Pending /\ InAdvance' = InAdvance
  BY <1>2 DEF Pending, InAdvance
<1>4. QueueOK' /\ QuitOK'
  BY <1>1, <1>2, <1>3 DEF BitsInv, QueueOK, QuitOK
<1>5. CountsOK'
  BY <1>2, <1>3 DEF BitsInv, CountsOK, Started, SuspendedSoon, PausedSoon
<1> QED
  BY <1>4, <1>5 DEF BitsInv

\* Between two calls the thread's bits are what the two counts say
\* (suspendThread, unsuspendThread, pause and unpause of EmuApplication).
THEOREM BitsFollowCountsInv == EmuSpec => []BitsFollowCounts
<1>1. BitsInv /\ [EmuNext]_emuVars => BitsInv'
  <2>1. ASSUME BitsInv, UNCHANGED emuVars PROVE BitsInv'
    <3>1. UNCHANGED <<status, pc, back, queue, waiting, pauseCount, suspendCount, active, todo,
                    acts>>
      BY <2>1 DEF emuVars, uiVars
    <3>2. Pending' = Pending /\ InAdvance' = InAdvance
      BY <3>1 DEF Pending, InAdvance
    <3> QED
      BY <2>1, <3>1, <3>2 DEF BitsInv, QueueOK, QuitOK, CountsOK, Started, SuspendedSoon,
         PausedSoon
  <2> QED
    BY <2>1, BitsEmuStep, BitsUI, BitsUser DEF EmuNext
<1>2. BitsInv => BitsFollowCounts
  BY DEF BitsInv, QueueOK, CountsOK, BitsFollowCounts, Started, SuspendedSoon, PausedSoon
<1> QED
  BY <1>1, <1>2, BitsInit, PTL DEF EmuSpec
-----------------------------------------------------------------------------
\* What the writer knows between its looks at the ring: room never shrinks
\* under it.
WriterInv ==
    /\ wpc # "idle" => samples \in Blocks
    /\ wpc \in {"poll", "push"} => amount = samples
    /\ wpc = "retry" => 2 * amount <= space_empty
    /\ wpc = "publish" =>
         /\ amount > 0 /\ amount <= space_empty
         /\ amount = samples \/ 2 * amount <= space_empty
         /\ \A k \in 0..(amount - 1) : buffer[Wrap(end + k)] = k
    /\ roomy => wpc \in {"push", "publish"} /\ samples <= space_empty

\* What the reader knows: what it has seen in the ring stays there, in place.
ReaderInv ==
    /\ rpc = "pull" => pulled <= space_filled
    /\ rpc = "publish" => /\ pulled \in 1..space_filled
                          /\ dst = [k \in 1..pulled |-> buffer[Wrap(start + k - 1)]]
    /\ rpc # "publish" => dst = <<>>

RingInv ==
    /\ TypeOK
    /\ space_filled <= Size - 2
    /\ WriterInv
    /\ ReaderInv

-----------------------------------------------------------------------------
(* Arithmetic of the ring.                                                 *)

LEMMA WrapInCells == \A i \in 0..(2 * Size - 1) : Wrap(i) \in Cells
BY RingAssumption DEF Wrap, Cells

LEMMA FilledRange ==
    ASSUME start \in Cells, end \in Cells
    PROVE  /\ space_filled \in 0..(Size - 1)
           /\ space_empty \in Int
           /\ space_empty = Size - 2 - space_filled
           /\ end = Wrap(start + space_filled)
BY RingAssumption DEF space_filled, space_empty, Cells, Wrap

\* Less than a lap apart, two positions are two cells.
LEMMA CellsDistinct ==
    ASSUME NEW i \in Cells, NEW a \in 0..(Size - 1), NEW b \in 0..(Size - 1),
           Wrap(i + a) = Wrap(i + b)
    PROVE  a = b
BY RingAssumption DEF Wrap, Cells

LEMMA WrapWrap ==
    ASSUME NEW i \in Cells, NEW a \in 0..(Size - 1), NEW b \in 0..(Size - 1),
           a + b < Size
    PROVE  Wrap(Wrap(i + a) + b) = Wrap(i + a + b)
BY RingAssumption DEF Wrap, Cells

\* The cells push is about to fill are not in the ring.
LEMMA RoomIsApart ==
    ASSUME start \in Cells, end \in Cells,
           NEW n \in Nat, n <= space_empty,
           NEW k \in 0..(n - 1), NEW j \in 0..(space_filled - 1)
    PROVE  Wrap(end + k) # Wrap(start + j)
<1>1. /\ space_filled \in 0..(Size - 1) /\ space_empty = Size - 2 - space_filled
      /\ end = Wrap(start + space_filled)
  BY FilledRange
<1>2. space_filled + k < Size /\ space_filled + k # j /\ k \in 0..(Size - 1)
      /\ space_filled + k \in 0..(Size - 1) /\ j \in 0..(Size - 1)
  BY <1>1, RingAssumption
<1>3. Wrap(end + k) = Wrap(start + space_filled + k)
  BY <1>1, <1>2, WrapWrap
<1>4. start + space_filled + k = start + (space_filled + k)
  BY <1>1 DEF Cells
<1> DEFINE a == space_filled + k
<1>5. a \in 0..(Size - 1) /\ a # j /\ Wrap(end + k) = Wrap(start + a)
  BY <1>2, <1>3, <1>4
<1> HIDE DEF a
<1> QED
  BY <1>2, <1>5, CellsDistinct

\* A function on 1..n is a sequence of length n.
LEMMA FunIsSeq ==
    ASSUME NEW n \in Nat, NEW f \in [1..n -> Nat]
    PROVE  f \in Seq(Nat) /\ Len(f) = n
OBVIOUS

-----------------------------------------------------------------------------
(* The invariant.                                                          *)

LEMMA RingInit == Init => RingInv
<1> SUFFICES ASSUME Init PROVE RingInv
  OBVIOUS
<1>1. space_filled = 0 /\ space_empty = Size - 2
  BY RingAssumption DEF Init, space_filled, space_empty
<1>2. buffer \in [Cells -> Nat] /\ dst \in Seq(Nat) /\ start \in Cells /\ end \in Cells
  BY RingAssumption DEF Init, Cells
<1>3. TypeOK
  BY <1>2, RingAssumption DEF Init, TypeOK
<1> QED
  BY <1>1, <1>3, RingAssumption DEF Init, RingInv, WriterInv, ReaderInv

\* Steps that leave the ring alone leave what is seen of it alone.
LEMMA SameRing ==
    UNCHANGED ring => UNCHANGED <<space_filled, space_empty, Queue>>
BY DEF ring, space_filled, space_empty, Queue, Wrap

LEMMA WriteSamplesStep ==
    ASSUME RingInv, NEW n \in Blocks, NEW sync \in BOOLEAN, WriteSamples(n, sync)
    PROVE  RingInv'
<1>1. UNCHANGED <<space_filled, space_empty>>
  BY SameRing DEF WriteSamples
<1>2. TypeOK'
  BY RingAssumption DEF RingInv, TypeOK, WriteSamples, ring, reader
<1>3. WriterInv'
  BY <1>1, RingAssumption DEF RingInv, TypeOK, WriterInv, WriteSamples, ring
<1>4. ReaderInv'
  BY <1>1 DEF RingInv, ReaderInv, WriteSamples, ring, reader, Wrap
<1> QED
  BY <1>1, <1>2, <1>3, <1>4 DEF RingInv

LEMMA AwaitRoomStep == ASSUME RingInv, AwaitRoom PROVE RingInv'
<1>1. UNCHANGED <<space_filled, space_empty>>
  BY SameRing DEF AwaitRoom
<1>2. start \in Cells /\ end \in Cells /\ space_empty \in Int /\ samples \in Nat
  BY FilledRange, RingAssumption DEF RingInv, TypeOK
<1>3. TypeOK'
  BY <1>2, RingAssumption DEF RingInv, TypeOK, AwaitRoom, ring, reader
<1>4. WriterInv'
  BY <1>1, <1>2 DEF RingInv, TypeOK, WriterInv, AwaitRoom, ring
<1>5. ReaderInv'
  BY <1>1 DEF RingInv, ReaderInv, AwaitRoom, ring, reader, Wrap
<1> QED
  BY <1>1, <1>3, <1>4, <1>5 DEF RingInv

LEMMA HalfTheRoomStep == ASSUME RingInv, HalfTheRoom PROVE RingInv'
<1>1. UNCHANGED <<space_filled, space_empty>>
  BY SameRing DEF HalfTheRoom
<1>2. space_empty \in Nat
  BY FilledRange, RingAssumption DEF RingInv, TypeOK
<1>3. space_empty \div 2 \in Nat /\ 2 * (space_empty \div 2) <= space_empty
  BY <1>2
<1>4. TypeOK'
  BY <1>3 DEF RingInv, TypeOK, HalfTheRoom, ring, reader
<1>5. WriterInv'
  BY <1>1, <1>3 DEF RingInv, WriterInv, HalfTheRoom, ring
<1>6. ReaderInv'
  BY <1>1 DEF RingInv, ReaderInv, HalfTheRoom, ring, reader, Wrap
<1> QED
  BY <1>1, <1>4, <1>5, <1>6 DEF RingInv

\* The writer's return from a call that stored nothing, or after its store.
LEMMA WriterRests ==
    ASSUME WriterReturns
    PROVE  /\ WriterInv'
           /\ wpc' = "idle" /\ samples' \in Blocks \cup {0} /\ amount' \in Nat
           /\ polls' \in 0..MaxPolls /\ roomy' \in BOOLEAN
<1>1. WriterInv'
  BY DEF WriterReturns, WriterInv
<1>2. samples' \in Blocks \cup {0} /\ amount' \in Nat /\ roomy' \in BOOLEAN
  BY DEF WriterReturns
<1>3. polls' \in 0..MaxPolls
  BY RingAssumption DEF WriterReturns
<1> QED
  BY <1>1, <1>2, <1>3 DEF WriterReturns

\* What push copies lies outside the ring: the samples in it stay.
LEMMA CopyIsApart ==
    ASSUME RingInv, NEW n \in Nat, n <= space_empty, buffer' = Copied(n),
           UNCHANGED <<start, end>>
    PROVE  /\ buffer' \in [Cells -> Nat]
           /\ UNCHANGED <<space_filled, space_empty, Queue>>
           /\ \A k \in 0..(n - 1) : buffer'[Wrap(end + k)] = k
           /\ \A j \in 0..(space_filled - 1) :
                  buffer'[Wrap(start + j)] = buffer[Wrap(start + j)]
<1>1. /\ start \in Cells /\ end \in Cells /\ buffer \in [Cells -> Nat]
      /\ space_filled \in 0..(Size - 1) /\ space_empty = Size - 2 - space_filled
  BY FilledRange DEF RingInv, TypeOK
<1>2. UNCHANGED <<space_filled, space_empty>>
  BY DEF space_filled, space_empty
<1>3. ASSUME NEW i \in Cells
      PROVE  (IF i < end THEN i - end + Size ELSE i - end) \in Nat
  BY <1>1, RingAssumption DEF Cells
<1>4. buffer' \in [Cells -> Nat]
  BY <1>1, <1>3 DEF Copied
<1>5. ASSUME NEW k \in 0..(n - 1)
      PROVE  buffer'[Wrap(end + k)] = k
  <2>1. Wrap(end + k) \in Cells
    BY <1>1, WrapInCells, RingAssumption DEF Cells
  <2>2. (IF Wrap(end + k) < end THEN Wrap(end + k) - end + Size ELSE Wrap(end + k) - end) = k
    BY <1>1, RingAssumption DEF Wrap, Cells
  <2> QED
    BY <2>1, <2>2 DEF Copied
<1>6. ASSUME NEW j \in 0..(space_filled - 1)
      PROVE  buffer'[Wrap(start + j)] = buffer[Wrap(start + j)]
  <2>1. Wrap(start + j) \in Cells
    BY <1>1, WrapInCells, RingAssumption DEF Cells
  <2>2. \A k \in 0..(n - 1) : Wrap(start + j) # Wrap(end + k)
    BY <1>1, RoomIsApart
  <2> QED
    BY <2>1, <2>2 DEF Copied
<1>7. Queue' = Queue
  <2>1. \A i \in 1..space_filled : i - 1 \in 0..(space_filled - 1) /\ start + i - 1 = start + (i - 1)
    BY <1>1 DEF Cells
  <2>2. \A i \in 1..space_filled :
            buffer'[Wrap(start + i - 1)] = buffer[Wrap(start + i - 1)]
    BY <1>6, <2>1
  <2> QED
    BY <1>2, <2>2 DEF Queue, Wrap
<1> QED
  BY <1>2, <1>4, <1>5, <1>6, <1>7

LEMMA PushCopyStep == ASSUME RingInv, PushCopy PROVE RingInv'
<1>0. start \in Cells /\ end \in Cells /\ amount \in Nat /\ samples \in Nat
      /\ space_empty \in Int /\ space_filled \in Nat
  BY FilledRange, RingAssumption DEF RingInv, TypeOK
<1>1. CASE space_empty < amount \/ amount = 0
  <2>1. UNCHANGED <<space_filled, space_empty>> /\ UNCHANGED ring /\ UNCHANGED reader
        /\ UNCHANGED driver
    BY <1>1, SameRing DEF PushCopy
  <2>2. TypeOK'
    <3>1. CASE WriterReturns
      BY <2>1, <3>1, WriterRests DEF RingInv, TypeOK, ring, reader
    <3>2. CASE wpc' = "half" /\ UNCHANGED <<samples, amount, polls, roomy>>
      BY <2>1, <3>2 DEF RingInv, TypeOK, ring, reader
    <3> QED
      BY <1>0, <1>1, <3>1, <3>2 DEF PushCopy
  <2>3. WriterInv'
    <3>1. CASE WriterReturns
      BY <3>1, WriterRests
    <3>2. CASE wpc' = "half" /\ wpc = "push" /\ amount > 0
               /\ UNCHANGED <<samples, amount, polls, roomy>>
      BY <1>0, <1>1, <2>1, <3>2 DEF RingInv, TypeOK, WriterInv
    <3> QED
      BY <1>0, <1>1, <3>1, <3>2 DEF PushCopy
  <2>4. ReaderInv'
    BY <2>1 DEF RingInv, ReaderInv, ring, reader, Wrap
  <2> QED
    BY <2>1, <2>2, <2>3, <2>4 DEF RingInv
<1>2. CASE ~(space_empty < amount \/ amount = 0)
  <2>1. /\ wpc \in {"push", "retry"} /\ wpc' = "publish" /\ buffer' = Copied(amount)
        /\ UNCHANGED <<start, end, samples, amount, polls, roomy, driver, reader>>
        /\ amount <= space_empty /\ amount > 0
    BY <1>0, <1>2 DEF PushCopy
  <2>2. /\ buffer' \in [Cells -> Nat]
        /\ UNCHANGED <<space_filled, space_empty>>
        /\ \A k \in 0..(amount - 1) : buffer'[Wrap(end + k)] = k
        /\ \A j \in 0..(space_filled - 1) :
               buffer'[Wrap(start + j)] = buffer[Wrap(start + j)]
    BY <1>0, <2>1, CopyIsApart
  <2>3. TypeOK'
    BY <2>1, <2>2 DEF RingInv, TypeOK, reader
  <2>4. WriterInv'
    BY <1>0, <2>1, <2>2 DEF RingInv, WriterInv, Wrap
  <2>5. ReaderInv'
    <3>1. ASSUME rpc = "publish"
          PROVE  dst' = [k \in 1..pulled' |-> buffer'[Wrap(start + k - 1)]]
      <4>1. pulled \in 1..space_filled
        BY <3>1 DEF RingInv, ReaderInv
      <4>2. \A k \in 1..pulled : k - 1 \in 0..(space_filled - 1)
                                 /\ start + k - 1 = start + (k - 1)
        BY <1>0, <4>1 DEF Cells
      <4>3. \A k \in 1..pulled : buffer'[Wrap(start + k - 1)] = buffer[Wrap(start + k - 1)]
        BY <2>2, <4>2
      <4> QED
        BY <2>1, <3>1, <4>3 DEF RingInv, ReaderInv, reader
    <3> QED
      BY <2>1, <2>2, <3>1 DEF RingInv, ReaderInv, reader, Wrap
  <2> QED
    BY <2>2, <2>3, <2>4, <2>5 DEF RingInv
<1> QED
  BY <1>1, <1>2

\* The store of end moves what was copied into the ring.
LEMMA PublishRing ==
    ASSUME RingInv, PushPublish
    PROVE  /\ end' \in Cells
           /\ space_filled' = space_filled + amount
           /\ space_filled' <= Size - 2
<1>1. /\ start \in Cells /\ end \in Cells /\ amount \in Nat /\ amount <= space_empty
      /\ space_filled \in 0..(Size - 1) /\ space_empty = Size - 2 - space_filled
  BY FilledRange DEF RingInv, TypeOK, WriterInv, PushPublish
<1>2. end' = Wrap(end + amount) /\ start' = start
  BY DEF PushPublish
<1> QED
  BY <1>1, <1>2, RingAssumption DEF Wrap, Cells, space_filled

LEMMA PushPublishStep == ASSUME RingInv, PushPublish PROVE RingInv'
<1>1. /\ end' \in Cells /\ space_filled' = space_filled + amount
      /\ space_filled' <= Size - 2 /\ amount \in Nat /\ space_filled \in Nat
  BY PublishRing, FilledRange DEF RingInv, TypeOK
<1>2. TypeOK'
  BY <1>1, WriterRests DEF RingInv, TypeOK, PushPublish, reader
<1>3. WriterInv'
  BY WriterRests DEF PushPublish
<1>4. ReaderInv'
  BY <1>1 DEF RingInv, TypeOK, ReaderInv, PushPublish, reader, Wrap
<1> QED
  BY <1>1, <1>2, <1>3, <1>4 DEF RingInv

LEMMA CallbackStep ==
    ASSUME RingInv, NEW n \in Requests, Callback(n)
    PROVE  RingInv'
<1>1. UNCHANGED <<space_filled, space_empty>> /\ space_filled \in Nat /\ n \in Nat
  BY SameRing, FilledRange, RingAssumption DEF Callback, RingInv, TypeOK
<1>2. TypeOK'
  BY <1>1 DEF RingInv, TypeOK, Callback, ring, writer
<1>3. WriterInv'
  BY <1>1 DEF RingInv, WriterInv, Callback, ring, writer, Wrap
<1>4. ReaderInv'
  BY <1>1 DEF RingInv, TypeOK, ReaderInv, Callback
<1> QED
  BY <1>1, <1>2, <1>3, <1>4 DEF RingInv

LEMMA LookAgainStep == ASSUME RingInv, LookAgain PROVE RingInv'
<1>1. UNCHANGED <<space_filled, space_empty>> /\ space_filled \in Nat
  BY SameRing, FilledRange DEF LookAgain, RingInv, TypeOK
<1>2. TypeOK'
  BY <1>1 DEF RingInv, TypeOK, LookAgain, ring, writer
<1>3. WriterInv'
  BY <1>1 DEF RingInv, WriterInv, LookAgain, ring, writer, Wrap
<1>4. ReaderInv'
  BY <1>1 DEF RingInv, TypeOK, ReaderInv, LookAgain
<1> QED
  BY <1>1, <1>2, <1>3, <1>4 DEF RingInv

LEMMA PullCopyStep == ASSUME RingInv, PullCopy PROVE RingInv'
<1>1. /\ UNCHANGED <<space_filled, space_empty>> /\ space_filled \in 0..(Size - 1)
      /\ pulled \in Nat /\ start \in Cells /\ buffer \in [Cells -> Nat]
  BY SameRing, FilledRange DEF PullCopy, RingInv, TypeOK
<1>2. WriterInv'
  BY <1>1 DEF RingInv, WriterInv, PullCopy, ring, writer, Wrap
<1>3. CASE space_filled < pulled \/ pulled = 0
  <2>1. TypeOK'
    <3>1. dst' \in Seq(Nat) /\ pulled' \in Nat
      <4>1. ReaderReturns
        BY <1>3 DEF PullCopy
      <4>2. <<>> \in Seq(Nat)
        OBVIOUS
      <4> QED
        BY <4>1, <4>2 DEF ReaderReturns
    <3> QED
      BY <1>1, <1>3, <3>1 DEF RingInv, TypeOK, PullCopy, ReaderReturns, ring, writer
  <2>2. ReaderInv'
    BY <1>1, <1>3 DEF RingInv, TypeOK, ReaderInv, PullCopy, ReaderReturns
  <2> QED
    BY <1>1, <1>2, <2>1, <2>2 DEF RingInv
<1>4. CASE ~(space_filled < pulled \/ pulled = 0)
  <2>1. /\ rpc' = "publish" /\ pulled \in 1..space_filled
        /\ dst' = [k \in 1..pulled |-> buffer[Wrap(start + k - 1)]]
        /\ UNCHANGED <<ring, writer, driver, pulled>>
    BY <1>1, <1>4 DEF PullCopy
  <2>2. \A k \in 1..pulled : Wrap(start + k - 1) \in Cells
    BY <1>1, <2>1, WrapInCells, RingAssumption DEF Cells
  <2>3. dst' \in [1..pulled -> Nat]
    BY <1>1, <2>1, <2>2
  <2>4. dst' \in Seq(Nat)
    BY <1>1, <2>3, FunIsSeq
  <2>5. TypeOK'
    BY <2>1, <2>4 DEF RingInv, TypeOK, ring, writer
  <2>6. ReaderInv'
    BY <1>1, <2>1 DEF RingInv, ReaderInv, PullCopy, ring, Wrap
  <2> QED
    BY <1>1, <1>2, <2>5, <2>6 DEF RingInv
<1> QED
  BY <1>3, <1>4

\* The store of start takes what was copied out of the ring.
LEMMA PullRing ==
    ASSUME RingInv, PullPublish
    PROVE  /\ start' \in Cells
           /\ space_filled' = space_filled - pulled
           /\ space_empty' = space_empty + pulled
           /\ pulled \in 1..space_filled
<1>1. /\ start \in Cells /\ end \in Cells /\ pulled \in 1..space_filled
      /\ space_filled \in 0..(Size - 1) /\ space_empty = Size - 2 - space_filled
  BY FilledRange DEF RingInv, TypeOK, ReaderInv, PullPublish
<1>2. start' = Wrap(start + pulled) /\ end' = end
  BY DEF PullPublish
<1>3. start' \in Cells /\ space_filled' = space_filled - pulled
  BY <1>1, <1>2, RingAssumption DEF Wrap, Cells, space_filled
<1>4. space_empty' = Size - 2 - space_filled'
  BY DEF space_empty
<1> QED
  BY <1>1, <1>3, <1>4, RingAssumption

LEMMA PullPublishStep == ASSUME RingInv, PullPublish PROVE RingInv'
<1>1. /\ start' \in Cells /\ pulled \in 1..space_filled
      /\ space_filled' = space_filled - pulled /\ space_empty' = space_empty + pulled
      /\ space_filled \in Nat /\ space_empty \in Int /\ amount \in Nat /\ samples \in Nat
  BY PullRing, FilledRange, RingAssumption DEF RingInv, TypeOK
<1>2. TypeOK'
  BY <1>1 DEF RingInv, TypeOK, PullPublish, ReaderReturns, writer
<1>3. WriterInv'
  BY <1>1 DEF RingInv, WriterInv, PullPublish, writer, Wrap
<1>4. ReaderInv'
  BY DEF RingInv, TypeOK, ReaderInv, PullPublish, ReaderReturns
<1>5. space_filled' <= Size - 2
  BY <1>1, RingAssumption DEF RingInv
<1> QED
  BY <1>2, <1>3, <1>4, <1>5 DEF RingInv

-----------------------------------------------------------------------------
(* Theorems.                                                               *)

LEMMA RingStep == RingInv /\ [Next]_vars => RingInv'
<1> SUFFICES ASSUME RingInv, [Next]_vars PROVE RingInv'
  OBVIOUS
<1>1. CASE UNCHANGED vars
  BY <1>1, SameRing
    DEF RingInv, TypeOK, WriterInv, ReaderInv, vars, ring, writer, reader, Wrap
<1>2. CASE \E n \in Blocks, sync \in BOOLEAN : WriteSamples(n, sync)
  BY <1>2, WriteSamplesStep
<1>3. CASE Writer
  BY <1>3, AwaitRoomStep, PushCopyStep, HalfTheRoomStep, PushPublishStep DEF Writer
<1>4. CASE \E n \in Requests : Callback(n)
  BY <1>4, CallbackStep
<1>5. CASE Reader
  BY <1>5, LookAgainStep, PullCopyStep, PullPublishStep DEF Reader
<1> QED
  BY <1>1, <1>2, <1>3, <1>4, <1>5 DEF Next

\* The invariant holds throughout.
LEMMA RingAlways == Spec => []RingInv
BY RingInit, RingStep, PTL DEF Spec

\* The types of push, pull and their callers are as declared.
THEOREM TypeCorrect == Spec => []TypeOK
<1>1. RingInv => TypeOK
  BY DEF RingInv
<1> QED
  BY <1>1, RingAlways, PTL

\* The two threads never touch the same cell of the ring, although neither
\* takes a lock: push writes outside of what pull can reach.
THEOREM CellsApartInv == Spec => []CellsApart
<1>1. ASSUME RingInv PROVE CellsApart
  <2>1. start \in Cells /\ end \in Cells /\ amount \in Nat
    BY <1>1 DEF RingInv, TypeOK
  <2>2. ASSUME wpc = "publish" PROVE BeingWritten \cap Filled = {}
    <3>1. amount <= space_empty
      BY <1>1, <2>2 DEF RingInv, WriterInv
    <3> QED
      BY <2>1, <2>2, <3>1, RoomIsApart DEF BeingWritten, Filled
  <2>3. rpc = "publish" => pulled <= space_filled
    <3>1. space_filled \in Nat
      BY <2>1, FilledRange
    <3> QED
      BY <1>1, <3>1 DEF RingInv, ReaderInv
  <2> QED
    BY <1>1, <2>2, <2>3 DEF CellsApart, BeingWritten, RingInv
<1> QED
  BY <1>1, RingAlways, PTL

\* A block the emulation has waited for is pushed whole.
THEOREM WaitedBlockFitsInv == Spec => []WaitedBlockFits
<1>1. RingInv => WaitedBlockFits
  BY DEF RingInv, WriterInv, WaitedBlockFits
<1> QED
  BY <1>1, RingAlways, PTL

-----------------------------------------------------------------------------
(* The refinement.                                                         *)

LEMMA QueueIsSeq ==
    ASSUME TypeOK
    PROVE  /\ Queue \in Seq(Nat) /\ Len(Queue) = space_filled
           /\ \A i \in 1..space_filled : Queue[i] = buffer[Wrap(start + i - 1)]
                                         /\ Queue[i] \in Nat
<1>1. /\ start \in Cells /\ end \in Cells /\ buffer \in [Cells -> Nat]
      /\ space_filled \in 0..(Size - 1)
  BY FilledRange DEF TypeOK
<1>2. \A i \in 1..space_filled : Wrap(start + i - 1) \in Cells
  BY <1>1, WrapInCells, RingAssumption DEF Cells
<1>3. Queue \in [1..space_filled -> Nat]
  BY <1>1, <1>2 DEF Queue
<1> QED
  BY <1>1, <1>3, FunIsSeq DEF Queue

\* The same after a step.
LEMMA QueueIsSeqNext ==
    ASSUME TypeOK', space_filled' \in 0..(Size - 1)
    PROVE  /\ Queue' \in Seq(Nat) /\ Len(Queue') = space_filled'
           /\ \A i \in 1..space_filled' : Queue'[i] = buffer'[Wrap(start' + i - 1)]
<1>1. start' \in Cells /\ buffer' \in [Cells -> Nat]
  BY DEF TypeOK, Cells
<1>2. \A i \in 1..space_filled' : Wrap(start' + i - 1) \in Cells
  BY <1>1, WrapInCells, RingAssumption DEF Cells
<1>3. Queue' = [i \in 1..space_filled' |-> buffer'[Wrap(start' + i - 1)]]
  BY DEF Queue, Wrap
<1>4. Queue' \in [1..space_filled' -> Nat]
  BY <1>1, <1>2, <1>3
<1>5. Queue' \in Seq(Nat) /\ Len(Queue') = space_filled'
  BY <1>4, FunIsSeq
<1> QED
  BY <1>3, <1>5

\* The store of end puts a block, or part of its buffer, behind the queue.
LEMMA PublishOffers ==
    ASSUME RingInv, RingInv', PushPublish
    PROVE  \E n \in Blocks : Abstract!Offer(n)
<1>1. /\ start \in Cells /\ end \in Cells /\ amount \in Nat \ {0}
      /\ space_filled \in 0..(Size - 1) /\ space_empty = Size - 2 - space_filled
      /\ amount <= space_empty /\ end = Wrap(start + space_filled)
      /\ amount = samples \/ 2 * amount <= space_empty
      /\ samples \in Blocks /\ samples \in Nat
      /\ \A k \in 0..(amount - 1) : buffer[Wrap(end + k)] = k
  BY FilledRange, RingAssumption DEF RingInv, TypeOK, WriterInv, PushPublish
<1>2. space_filled' = space_filled + amount /\ UNCHANGED <<start, buffer, dst>>
  BY PublishRing DEF PushPublish, reader
<1> DEFINE block == [i \in 1..amount |-> i - 1]
<1>3. block \in Seq(Nat) /\ Len(block) = amount /\ \A i \in 1..amount : block[i] = i - 1
  <2>1. block \in [1..amount -> Nat]
    BY <1>1
  <2> QED
    BY <1>1, <2>1, FunIsSeq
<1> HIDE DEF block
<1>4. /\ Queue \in Seq(Nat) /\ Len(Queue) = space_filled
      /\ \A i \in 1..space_filled : Queue[i] = buffer[Wrap(start + i - 1)]
  BY QueueIsSeq DEF RingInv
<1>5. /\ Queue' \in Seq(Nat) /\ Len(Queue') = space_filled + amount
      /\ \A i \in 1..(space_filled + amount) : Queue'[i] = buffer[Wrap(start + i - 1)]
  <2>1. /\ Queue' \in Seq(Nat) /\ Len(Queue') = space_filled'
        /\ \A i \in 1..space_filled' : Queue'[i] = buffer'[Wrap(start' + i - 1)]
    <3>1. space_filled' \in 0..(Size - 1)
      BY <1>1, <1>2, RingAssumption
    <3> QED
      BY <3>1, QueueIsSeqNext DEF RingInv
  <2> QED
    BY <1>2, <2>1
<1>6. /\ Queue \o block \in Seq(Nat) /\ Len(Queue \o block) = space_filled + amount
      /\ \A i \in 1..(space_filled + amount) : (Queue \o block)[i] =
             IF i <= space_filled THEN Queue[i] ELSE block[i - space_filled]
  BY <1>3, <1>4, ConcatProperties
<1>7. ASSUME NEW i \in 1..(space_filled + amount)
      PROVE  Queue'[i] = (Queue \o block)[i]
  <2>0. i \in Nat \ {0} /\ space_filled \in Nat
    BY <1>1
  <2>1. CASE i <= space_filled
    <3>1. i \in 1..space_filled
      BY <2>0, <2>1
    <3>2. (Queue \o block)[i] = Queue[i]
      BY <1>6, <2>1
    <3> QED
      BY <1>4, <1>5, <3>1, <3>2
  <2>2. CASE i > space_filled
    <3> DEFINE k == i - space_filled - 1
    <3>1. k \in 0..(amount - 1) /\ i - space_filled \in 1..amount
          /\ start + i - 1 = start + space_filled + k /\ i - space_filled - 1 = k
      BY <1>1, <2>2 DEF Cells
    <3>2. Wrap(start + space_filled + k) = Wrap(end + k)
      BY <1>1, <3>1, WrapWrap, RingAssumption
    <3>3. Queue'[i] = k
      BY <1>1, <1>5, <3>1, <3>2
    <3>4. (Queue \o block)[i] = k
      BY <1>1, <1>3, <1>6, <2>2, <3>1
    <3> QED
      BY <3>3, <3>4
  <2>3. i <= space_filled \/ i > space_filled
    BY <2>0
  <2> QED
    BY <2>1, <2>2, <2>3, Zenon
<1>8. Queue' = Queue \o block
  BY <1>5, <1>6, <1>7, SeqEqual
<1>9. /\ amount \in 0..((Size - 2) - Len(Queue))
      /\ amount = samples \/ 2 * amount <= (Size - 2) - Len(Queue)
  BY <1>1, <1>4, RingAssumption
<1> QED
  BY <1>1, <1>2, <1>8, <1>9 DEF Abstract!Offer, block

\* What pull copies is the head of the queue.
LEMMA PullPlays ==
    ASSUME RingInv, RingInv', PullCopy, rpc' = "publish"
    PROVE  \E k \in 1..Len(Queue) : Abstract!Play(k)
<1>1. /\ pulled \in 1..space_filled /\ UNCHANGED <<ring, pulled>>
      /\ dst' = [k \in 1..pulled |-> buffer[Wrap(start + k - 1)]]
      /\ space_filled \in 0..(Size - 1)
  <2>1. UNCHANGED <<ring, pulled>> /\ UNCHANGED space_filled
    BY SameRing DEF PullCopy, ReaderReturns
  <2>2. /\ pulled' \in 1..space_filled'
        /\ dst' = [k \in 1..pulled' |-> buffer'[Wrap(start' + k - 1)]]
    BY DEF RingInv, ReaderInv, Wrap
  <2> QED
    BY <2>1, <2>2, FilledRange DEF RingInv, TypeOK, ring
<1>2. /\ Queue \in Seq(Nat) /\ Len(Queue) = space_filled
      /\ \A i \in 1..space_filled : Queue[i] = buffer[Wrap(start + i - 1)]
  BY QueueIsSeq DEF RingInv
<1>3. Queue' = Queue
  BY <1>1, SameRing
<1>4. dst' \in Seq(Nat)
  BY DEF RingInv, TypeOK
<1>5. Len(dst') = pulled
  BY <1>1, <1>4
<1>6. /\ SubSeq(Queue, 1, pulled) \in Seq(Nat) /\ Len(SubSeq(Queue, 1, pulled)) = pulled
      /\ \A i \in 1..pulled : SubSeq(Queue, 1, pulled)[i] = Queue[i]
  <2>1. \A i \in 1..pulled : Queue[i] \in Nat
    BY <1>1, <1>2
  <2> QED
    BY <1>1, <2>1, SubSeqProperties
<1>7. \A i \in 1..pulled : dst'[i] = SubSeq(Queue, 1, pulled)[i]
  BY <1>1, <1>2, <1>6
<1>8. dst' = SubSeq(Queue, 1, pulled)
  BY <1>4, <1>5, <1>6, <1>7, SeqEqual
<1> QED
  BY <1>1, <1>2, <1>3, <1>8 DEF Abstract!Play

\* The store of start drops what has been copied.
LEMMA PullForgets ==
    ASSUME RingInv, RingInv', PullPublish
    PROVE  Abstract!Forget
<1>1. /\ start \in Cells /\ pulled \in 1..space_filled /\ space_filled \in 0..(Size - 1)
      /\ space_filled' = space_filled - pulled /\ UNCHANGED buffer
      /\ start' = Wrap(start + pulled) /\ dst' = <<>>
      /\ dst = [k \in 1..pulled |-> buffer[Wrap(start + k - 1)]] /\ dst \in Seq(Nat)
  BY PullRing, FilledRange DEF RingInv, TypeOK, ReaderInv, PullPublish, ReaderReturns
<1>2. Len(dst) = pulled
  BY <1>1
<1>3. /\ Queue \in Seq(Nat) /\ Len(Queue) = space_filled
      /\ \A i \in 1..space_filled : Queue[i] = buffer[Wrap(start + i - 1)]
  BY QueueIsSeq DEF RingInv
<1>4. /\ Queue' \in Seq(Nat) /\ Len(Queue') = space_filled - pulled
      /\ \A i \in 1..(space_filled - pulled) : Queue'[i] = buffer[Wrap(Wrap(start + pulled) + i - 1)]
  <2>1. /\ Queue' \in Seq(Nat) /\ Len(Queue') = space_filled'
        /\ \A i \in 1..space_filled' : Queue'[i] = buffer'[Wrap(start' + i - 1)]
    <3>1. space_filled' \in 0..(Size - 1)
      BY <1>1, RingAssumption
    <3> QED
      BY <3>1, QueueIsSeqNext DEF RingInv
  <2> QED
    BY <1>1, <2>1
<1> DEFINE rest == SubSeq(Queue, pulled + 1, Len(Queue))
<1>5. /\ rest \in Seq(Nat) /\ Len(rest) = space_filled - pulled
      /\ \A i \in 1..(space_filled - pulled) : rest[i] = Queue[pulled + i]
  <2>1. \A i \in (pulled + 1)..space_filled : Queue[i] \in Nat
    BY <1>1, <1>3
  <2>2. /\ SubSeq(Queue, pulled + 1, space_filled) \in Seq(Nat)
        /\ Len(SubSeq(Queue, pulled + 1, space_filled)) =
             IF pulled + 1 <= space_filled THEN space_filled - (pulled + 1) + 1 ELSE 0
        /\ \A i \in 1..(space_filled - (pulled + 1) + 1) :
             SubSeq(Queue, pulled + 1, space_filled)[i] = Queue[(pulled + 1) + i - 1]
    BY <1>1, <2>1, SubSeqProperties
  <2>3. /\ space_filled - (pulled + 1) + 1 = space_filled - pulled
        /\ \A i \in 1..(space_filled - pulled) : (pulled + 1) + i - 1 = pulled + i
    BY <1>1
  <2>4. rest = SubSeq(Queue, pulled + 1, space_filled)
    BY <1>3
  <2>5. Len(rest) = space_filled - pulled
    BY <1>1, <2>2, <2>4
  <2>6. ASSUME NEW i \in 1..(space_filled - pulled)
        PROVE  rest[i] = Queue[pulled + i]
    BY <2>2, <2>3, <2>4
  <2> QED
    BY <2>2, <2>4, <2>5, <2>6
<1> HIDE DEF rest
<1>6. ASSUME NEW i \in 1..(space_filled - pulled)
      PROVE  Queue'[i] = rest[i]
  <2>1. /\ pulled + i \in 1..space_filled /\ i - 1 \in 0..(Size - 1)
        /\ pulled \in 0..(Size - 1) /\ pulled + (i - 1) < Size
        /\ start + (pulled + i) - 1 = start + pulled + (i - 1)
        /\ Wrap(start + pulled) + i - 1 = Wrap(start + pulled) + (i - 1)
    BY <1>1, RingAssumption DEF Cells, Wrap
  <2>2. Wrap(Wrap(start + pulled) + (i - 1)) = Wrap(start + pulled + (i - 1))
    BY <1>1, <2>1, WrapWrap
  <2> QED
    BY <1>3, <1>4, <1>5, <2>1, <2>2, ZenonT(60)
<1>7. Queue' = rest
  BY <1>4, <1>5, <1>6, SeqEqual
<1> QED
  BY <1>1, <1>2, <1>7 DEF Abstract!Forget, rest

\* Every step of the two threads is a step of the queue, or changes nothing
\* of it.
LEMMA StepRefines == RingInv /\ RingInv' /\ [Next]_vars => [Abstract!Next]_(Abstract!vars)
<1> SUFFICES ASSUME RingInv, RingInv', [Next]_vars
             PROVE  Abstract!Next \/ UNCHANGED <<Queue, dst>>
  BY DEF Abstract!vars
<1>1. CASE PushPublish
  BY <1>1, PublishOffers DEF Abstract!Next
<1>2. CASE PullPublish
  BY <1>2, PullForgets DEF Abstract!Next
<1>3. CASE PullCopy
  <2>1. CASE rpc' = "publish"
    BY <1>3, <2>1, PullPlays DEF Abstract!Next
  <2>2. CASE rpc' # "publish"
    <3>1. dst = <<>> /\ dst' = <<>>
      BY <1>3, <2>2 DEF RingInv, ReaderInv, PullCopy
    <3> QED
      BY <1>3, <3>1, SameRing DEF PullCopy
  <2> QED
    BY <2>1, <2>2
<1>4. CASE PushCopy
  <2>1. CASE UNCHANGED ring
    BY <1>4, <2>1, SameRing DEF PushCopy, reader
  <2>2. CASE buffer' = Copied(amount) /\ amount <= space_empty /\ UNCHANGED <<start, end>>
    BY <1>4, <2>2, CopyIsApart DEF PushCopy, reader, RingInv, TypeOK
  <2>3. space_empty \in Int /\ amount \in Nat
    BY FilledRange DEF RingInv, TypeOK
  <2> QED
    BY <1>4, <2>1, <2>2, <2>3 DEF PushCopy
<1>5. CASE \/ \E n \in Blocks, sync \in BOOLEAN : WriteSamples(n, sync)
           \/ AwaitRoom \/ HalfTheRoom \/ LookAgain \/ \E n \in Requests : Callback(n)
  <2>1. UNCHANGED ring /\ UNCHANGED dst
    BY <1>5 DEF WriteSamples, AwaitRoom, HalfTheRoom, LookAgain, Callback, reader
  <2> QED
    BY <2>1, SameRing
<1>6. CASE UNCHANGED vars
  BY <1>6, SameRing DEF vars, reader
<1> QED
  BY <1>1, <1>2, <1>3, <1>4, <1>5, <1>6 DEF Next, Writer, Reader

\* The ring implements the bounded queue: what the device is handed is what
\* was pushed, in order, each sample once.
THEOREM RingImplementsQueue == Spec => ImplementsQueue
<1>1. Init => Abstract!Init
  <2>1. Init => space_filled = 0
    BY DEF Init, space_filled
  <2>2. Init => Queue = <<>>
    BY <2>1 DEF Queue
  <2> QED
    BY <2>2 DEF Init, Abstract!Init
<1> QED
  BY <1>1, StepRefines, RingAlways, PTL DEF Spec, ImplementsQueue, Abstract!Spec
=============================================================================
