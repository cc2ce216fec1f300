----------------------------- MODULE EmuThread -----------------------------
(***************************************************************************)
(* The emulation thread of the Qt front-end and how the user interface     *)
(* stops it (EmuApplication.cpp).  The thread handles the functions posted *)
(* to it, reads its status bits and, unless one of them stops it, runs the *)
(* main loop, which handles posted functions once more before it emulates  *)
(* a frame.  The user interface changes the status bits by functions it    *)
(* posts and waits for, counts its pauses and its suspensions, and touches *)
(* the emulated machine itself only between suspendThread and              *)
(* unsuspendThread.                                                        *)
(*                                                                         *)
(* What a user does is a sequence of these calls, as the handlers of       *)
(* EmuMainWindow and EmuApplication make them.                             *)
(***************************************************************************)
EXTENDS Integers, Sequences

CONSTANTS MaxActs    \* bound: what the user does

ASSUME ActsAssumption == MaxActs \in Nat

VARIABLES
    status,         \* EmuThread::status: the bits that are set
    pc,             \* the emulation thread
    back,           \* where advanceFrame's function was called
    queue,          \* functions posted to the thread
    todo,           \* the calls the user interface has still to make
    waiting,        \* ... and is it in one that waits for the thread?
    pauseCount, suspendCount,
    paused,         \* Settings.Paused
    active,         \* core->active: a game is loaded
    using,          \* the user interface is using the core
    held,           \* EmuMainWindow: manual_pause, focus_pause, minimized_pause
    acts,           \* user's actions so far
    overrun         \* history: frames begun while a stopping bit is set

uiVars == <<todo, waiting, pauseCount, suspendCount, paused, active, using, held, acts>>
emuVars == <<status, pc, back, queue, uiVars, overrun>>

Stops == {"paused", "suspended"}
Holders == {"manual", "focus", "minimized"}

\* "post" stands for the functions nobody waits for: reportBinding, reset, ...
Functions == {"setSuspended", "clearSuspended", "setPaused", "clearPaused",
              "saveState", "advance", "post"}
Calls == {"suspend", "unsuspend", "pause", "settingsPaused", "unpause", "use", "open",
          "opened", "used", "closed", "saveState", "advance", "post", "quit"}

\* startThread has waited for ePaused and set the main loop; left to do.
StartThread == <<"unpause">>

EmuInit ==
    /\ status = {"paused"} /\ pc = "events" /\ back = "events" /\ queue = <<>>
    /\ todo = StartThread /\ waiting = FALSE
    /\ pauseCount = 0 /\ suspendCount = 0 /\ paused = FALSE
    /\ active = FALSE /\ using = FALSE /\ held = {}
    /\ acts = 0 /\ overrun = 0

-----------------------------------------------------------------------------
\* The emulation thread.
Return(f) ==
    waiting' = IF f = "post" THEN waiting ELSE FALSE

\* processEvents, of the thread or of mainLoop: a posted function is run.
RunFunction ==
    /\ pc \in {"events", "loop", "advLoop"} /\ queue # <<>>
    /\ LET f == Head(queue)
       IN  IF f = "advance"
             THEN /\ pc' = IF active THEN "advLoop" ELSE pc
                  /\ back' = IF active THEN pc ELSE back
                  /\ paused' = ~active
                  /\ waiting' = active
                  /\ UNCHANGED status
             ELSE /\ status' = CASE f = "setSuspended"   -> status \cup {"suspended"}
                                 [] f = "clearSuspended" -> status \ {"suspended"}
                                 [] f = "setPaused"      -> status \cup {"paused"}
                                 [] f = "clearPaused"    -> status \ {"paused"}
                                 [] OTHER -> status
                  /\ Return(f)
                  /\ UNCHANGED <<pc, back, paused>>
    /\ queue' = Tail(queue)
    /\ overrun' = IF status' \cap Stops = {} THEN 0 ELSE overrun
    /\ UNCHANGED <<todo, pauseCount, suspendCount, active, using, held, acts>>

\* The events have been processed.
EventsDone ==
    /\ pc = "events" /\ queue = <<>>
    /\ pc' = "check"
    /\ UNCHANGED <<status, back, queue, uiVars, overrun>>

\* Mutants: a suspended thread runs on, or does not quit.
PlaceUnsuspended(bits) ==
    CASE "quit" \in bits -> "dead" [] "paused" \in bits -> "events"
      [] OTHER -> IF active THEN "loop" ELSE "idle"
PlaceQuitLast(bits) ==
    CASE bits \cap Stops # {} -> "events" [] "quit" \in bits -> "dead"
      [] OTHER -> IF active THEN "loop" ELSE "idle"

\* What EmuThread::run does next, and EmuApplication::mainLoop first.
Place(bits) ==
    CASE "quit" \in bits -> "dead"
      [] "quit" \notin bits /\ bits \cap Stops # {} -> "events"
      [] OTHER -> IF active THEN "loop" ELSE "idle"

Check ==
    /\ pc = "check"
    /\ pc' = Place(status)
    /\ UNCHANGED <<status, back, queue, uiVars, overrun>>

\* No game: the achievements are polled, and a sleep of 50 ms.
IdleDone ==
    /\ pc = "idle"
    /\ pc' = "events"
    /\ UNCHANGED <<status, back, queue, uiVars, overrun>>

\* mainLoop has processed the events and calls Snes9xController::mainLoop,
\* which returns when no game is loaded.
BeginFrame ==
    /\ pc = "loop" /\ queue = <<>>
    /\ pc' = IF active THEN "frame" ELSE "events"
    /\ overrun' = IF active /\ status \cap Stops # {} THEN overrun + 1 ELSE overrun
    /\ UNCHANGED <<status, back, queue, uiVars>>

EndFrame ==
    /\ pc = "frame"
    /\ pc' = "events"
    /\ UNCHANGED <<status, back, queue, uiVars, overrun>>

\* The same in the function of advanceFrame, which the user asked for.
BeginAdvance ==
    /\ pc = "advLoop" /\ queue = <<>>
    /\ pc' = "advFrame"
    /\ UNCHANGED <<status, back, queue, uiVars, overrun>>

EndAdvance ==
    /\ pc = "advFrame"
    /\ pc' = back
    /\ paused' = TRUE
    /\ waiting' = FALSE
    /\ UNCHANGED <<status, back, queue, todo, pauseCount, suspendCount, active, using,
                   held, acts, overrun>>

EmuStep ==
    RunFunction \/ EventsDone \/ Check \/ IdleDone \/ BeginFrame \/ EndFrame
        \/ BeginAdvance \/ EndAdvance

-----------------------------------------------------------------------------
\* The user interface: the calls.

Call(name) == ~waiting /\ todo # <<>> /\ Head(todo) = name
Done == todo' = Tail(todo)

\* EmuThread::runOnThread, and waiting for it.
RunBlocking(f) == queue' = Append(queue, f) /\ waiting' = TRUE
NoRun == UNCHANGED <<queue, waiting>>

SuspendThread ==
    /\ Call("suspend") /\ Done
    /\ suspendCount' = suspendCount + 1
    /\ IF suspendCount' = 1 THEN RunBlocking("setSuspended") ELSE NoRun
    /\ UNCHANGED <<status, pc, back, pauseCount, paused, active, using, held, acts, overrun>>

\* Mutants: every unsuspendThread lets the thread go on, or the inner one.
Unnested(count) == TRUE
OutermostOffByOne(count) == count = 1

Outermost(count) == count = 0

UnsuspendThread ==
    /\ Call("unsuspend") /\ Done
    /\ suspendCount' = suspendCount - 1
    /\ IF Outermost(suspendCount') THEN RunBlocking("clearSuspended") ELSE NoRun
    /\ UNCHANGED <<status, pc, back, pauseCount, paused, active, using, held, acts, overrun>>

\* pause: EmuThread::pause, and after it core->setPaused.
Pause ==
    /\ Call("pause")
    /\ todo' = <<"settingsPaused">> \o Tail(todo)
    /\ pauseCount' = pauseCount + 1
    /\ RunBlocking("setPaused")
    /\ UNCHANGED <<status, pc, back, suspendCount, paused, active, using, held, acts, overrun>>

SettingsPaused ==
    /\ Call("settingsPaused") /\ Done
    /\ paused' = TRUE
    /\ UNCHANGED <<status, pc, back, queue, waiting, pauseCount, suspendCount, active, using,
                   held, acts, overrun>>

\* A count below zero is raised to zero.
Lowered(count) == IF count > 0 THEN count - 1 ELSE 0

Unpause ==
    /\ Call("unpause") /\ Done
    /\ pauseCount' = Lowered(pauseCount)
    /\ IF pauseCount' > 0
         THEN NoRun /\ UNCHANGED paused
         ELSE RunBlocking("clearPaused") /\ paused' = FALSE
    /\ UNCHANGED <<status, pc, back, suspendCount, active, using, held, acts, overrun>>

\* The core is used by the user interface, for a while.
UseCore ==
    /\ ~waiting /\ todo # <<>> /\ Head(todo) \in {"use", "open"} /\ Done
    /\ using' = TRUE
    /\ active' = (active /\ Head(todo) = "use")
    /\ UNCHANGED <<status, pc, back, queue, waiting, pauseCount, suspendCount, paused,
                   held, acts, overrun>>

CoreUsed ==
    /\ ~waiting /\ todo # <<>> /\ Head(todo) \in {"used", "opened", "closed"} /\ Done
    /\ using' = FALSE
    /\ active' = IF Head(todo) = "used" THEN active ELSE Head(todo) = "opened"
    /\ UNCHANGED <<status, pc, back, queue, waiting, pauseCount, suspendCount, paused,
                   held, acts, overrun>>

\* A function posted to the thread.
RunOnThread ==
    /\ \E f \in {"saveState", "advance", "post"} :
         /\ Call(f) /\ Done
         /\ IF f = "post"
              THEN queue' = Append(queue, f) /\ UNCHANGED waiting
              ELSE RunBlocking(f)
    /\ UNCHANGED <<status, pc, back, pauseCount, suspendCount, paused, active, using, held,
                   acts, overrun>>

\* stopThread: eQuit is set from outside, and the end of run() awaited.
StopThread ==
    /\ Call("quit") /\ Done
    /\ status' = status \cup {"quit"}
    /\ waiting' = TRUE
    /\ UNCHANGED <<pc, back, queue, pauseCount, suspendCount, paused, active, using, held,
                   acts, overrun>>

ThreadFinished ==
    /\ waiting /\ pc = "dead"
    /\ waiting' = FALSE
    /\ UNCHANGED <<status, pc, back, queue, todo, pauseCount, suspendCount, paused, active,
                   using, held, acts, overrun>>

UIContinues ==
    SuspendThread \/ UnsuspendThread \/ Pause \/ SettingsPaused \/ Unpause \/ UseCore
        \/ CoreUsed \/ RunOnThread \/ StopThread \/ ThreadFinished

-----------------------------------------------------------------------------
\* What the user does: the calls its handler makes.

\* A call of EmuApplication that is wrapped (saving an SPC file, starting a movie, ...).
Wrapped(uses) == <<"suspend">> \o uses \o <<"unsuspend">>

\* openFile of the window: openFile of the application, then startGame.
OpenGame(loads) ==
    Wrapped(IF loads
              THEN Wrapped(<<"open", "opened">>) \o Wrapped(<<"use", "used">>) \o <<"unpause">>
              ELSE Wrapped(<<"open", "closed">>))

\* closeCurrentGame of the window, then of the application.
CloseGame == Wrapped(<<"pause">> \o Wrapped(<<"use", "closed">>))

UserActs(calls) ==
    /\ ~waiting /\ todo = <<>> /\ "quit" \notin status /\ acts < MaxActs
    /\ todo' = calls /\ acts' = acts + 1
    /\ UNCHANGED <<status, pc, back, queue, waiting, pauseCount, suspendCount, paused, active,
                   using, overrun>>

\* The three pauses of the window: by the key, without focus, minimized.
Hold(h) == h \notin held /\ UserActs(<<"pause">>) /\ held' = held \cup {h}
LetGo(h) == h \in held /\ UserActs(<<"unpause">>) /\ held' = held \ {h}

\* Not while the achievements are in hardcore mode: then only the pause.
FrameAdvance ==
    /\ \E allowed \in BOOLEAN :
         UserActs((IF "manual" \in held THEN <<>> ELSE <<"pause">>)
                     \o (IF active /\ allowed THEN <<"advance">> ELSE <<>>))
    /\ held' = held \cup {"manual"}

ResetGame ==
    /\ UserActs(<<"post">> \o (IF "manual" \in held THEN <<"unpause">> ELSE <<>>))
    /\ held' = held \ {"manual"}

OpenFile ==
    /\ \E loads, dialog \in BOOLEAN :
         UserActs(IF dialog THEN <<"pause">> \o OpenGame(loads) \o <<"unpause">>
                            ELSE OpenGame(loads))
    /\ UNCHANGED held

Close == UserActs(CloseGame) /\ held' = held \ {"manual"}
SaveState == UserActs(<<"saveState">>) /\ UNCHANGED held
PressButton == UserActs(<<"post">>) /\ UNCHANGED held
DumpSpc == UserActs(Wrapped(<<"use", "used">>)) /\ UNCHANGED held
Quit == UserActs(<<"suspend", "quit">>) /\ UNCHANGED held

User ==
    (\E h \in Holders : Hold(h) \/ LetGo(h)) \/ FrameAdvance \/ ResetGame \/ OpenFile
        \/ Close \/ SaveState \/ PressButton \/ DumpSpc \/ Quit

EmuNext == EmuStep \/ UIContinues \/ User

\* Both are threads of the operating system; the user need not do anything.
EmuSpec == EmuInit /\ [][EmuNext]_emuVars /\ WF_emuVars(EmuStep) /\ WF_emuVars(UIContinues)

-----------------------------------------------------------------------------
\* A stop takes effect: once a stopping bit is set, at most the frame that
\* mainLoop was about to emulate is still begun, whatever is posted.
OneMoreFrame == overrun <= 1

\* The bits are what the two counts say, between any two calls: a nested
\* suspension or pause ends with the outermost (EmuApplication.cpp,
\* suspendThread to unpause).
BitsFollowCounts ==
    ~waiting /\ (acts > 0 \/ todo = <<>>) =>
        /\ "suspended" \in status <=> suspendCount > 0
        /\ "paused" \in status <=> pauseCount > 0

\* The user interface never waits for ever: the thread handles what is posted
\* to it in every state, also paused, suspended and quitting.
CallsReturn == waiting ~> ~waiting

\* A game that nobody has paused or suspended is played.
Playing ==
    active /\ todo = <<>> /\ ~waiting /\ pauseCount = 0 /\ suspendCount = 0
        /\ "quit" \notin status
GameRuns == []<>(pc = "frame" \/ ~Playing)

\* While the user interface uses the core the emulation thread does not: every
\* call into the achievements runtime "is made from exactly one thread"
\* (AchievementsClient.hpp), and loading a game replaces the memory of the
\* machine.
UsesExclude == using => pc \notin {"idle", "frame", "advFrame"}
=============================================================================
