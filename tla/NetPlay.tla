------------------------------ MODULE NetPlay ------------------------------
(***************************************************************************)
(* A netplay session: the server thread, the client and the emulation      *)
(* thread of every machine, and the threads of the host's front-end that   *)
(* queue tasks (Snes9xController.cpp).  The session plays one game in lock *)
(* step: every machine emulates the frame of every heartbeat, from the     *)
(* same game and with the same inputs.                                     *)
(***************************************************************************)
EXTENDS NPClient, NPServer

CONSTANTS Resyncs,      \* tasks the user queues: SYNC_ALL, SEND_ROM_IMAGE
          MayPause,     \* machines whose user may pause the game
          MayLeave,     \* machines that may leave the session
          MayReturn,    \* bound: may machines join when a user has acted?
          Lag,          \* heartbeats that fit into the way to a machine and back
          MaxEvents     \* bound: users leaving, pausing, queueing

ASSUME NetPlayAssumption ==
    /\ Resyncs \subseteq {"SYNC_ALL", "SEND_ROM_IMAGE"}
    /\ MayPause \subseteq Clients /\ MayLeave \subseteq Remotes
    /\ MayReturn \in BOOLEAN /\ MaxEvents \in Nat /\ Lag \in Nat

VARIABLES
    uiTask,       \* what the user interface thread is queueing, or "none"
    announced,    \* netplay_client_was_connected
    events,       \* users' actions so far
    unnoticed     \* history: machines that fell too far behind and did not ask

hostVars == <<uiTask, announced, events>>
vars == <<wireVars, clientVars, serverVars, hostVars, unnoticed>>

\* What the steps of the session depend on: all but the contents of the games, the
\* rings and the messages, and the frame numbers.
Control ==
    <<toServer, [c \in Clients |-> [i \in 1 .. Len(toClient[c]) |-> toClient[c][i].type]],
      cpc, pc, sem, prev, pending, waiting, userPaused, flags, srvFrame, tasks, spc, job,
      sendROM, syncByReset, storing, call, overlap, hostVars>>

\* No task was lost: nothing is promised of a session in which one was (a CONSTRAINT).
Unlost == ~overlap

TypeOK ==
    /\ WireTypeOK /\ ClientTypeOK /\ ServerTypeOK
    /\ uiTask \in {"none"} \cup Resyncs /\ announced \subseteq Clients
    /\ events \in 0 .. MaxEvents /\ unnoticed \subseteq Clients

Init ==
    /\ toServer = [c \in Clients |-> <<>>] /\ toClient = [c \in Clients |-> <<>>]
    /\ ClientInit /\ ServerInit
    /\ uiTask = "none" /\ announced = {} /\ events = 0 /\ unnoticed = {}

\* No heartbeat is on its way to c, and the server, which sends one every
\* 16 ms when it may, cannot send one.
Quiet(c) ==
    /\ ~InFlight(c, {"JOYPAD"})
    /\ \/ srvPaused \/ spc = "wait" \/ userPaused[Host]
       \/ srvFrame = MaxFrames \/ c \notin saidHello

\* Mutant: nobody waits for the host's emulation.
HostNotWaited == TRUE

\* The condition of S9xNPWaitForEmulationToComplete is over: the host waits
\* for a heartbeat, or its user paused it.  PendingWait4Sync is up to date
\* once no heartbeat is on its way.
HostDone ==
    \/ userPaused[Host]
    \/ pending[Host] /\ (Timely => sem[Host] = 0 /\ ~InFlight(Host, {"JOYPAD"}))

\* What S9xFreezeGame finds in the host's memory.
HostGame == IF pc[Host] = "frame" THEN Torn ELSE game[Host]

\* The network is fast enough for the next heartbeat to be sent: no more than
\* Lag are under way to a machine, and a pause it asked for reaches the server
\* before it sends Lag more.
HeartbeatsTo(c) == Cardinality({i \in 1 .. Len(toClient[c]) : toClient[c][i].type = "JOYPAD"})

PauseUnderWay(c) ==
    cpc[c] = "pausing" \/ \E i \in 1 .. Len(toServer[c]) : toServer[c][i] = "PAUSE"

NetworkFast ==
    \A c \in saidHello : InSession(c) =>
        /\ HeartbeatsTo(c) < Lag
        /\ PauseUnderWay(c) => sem[c] + HeartbeatsTo(c) <= MaxBehind + Lag

\* A machine has more tokens than MaxBehindFrameCount, the one of a probe aside, and
\* does not wait: the count has passed the test for equality of S9xNPClientLoop.
Unasked(c) ==
    /\ InSession(c) /\ ~waiting[c]
    /\ sem[c] > MaxBehind + (IF pc[c] = "probe" THEN 1 ELSE 0)

\* Every step takes down who is in that state.
Noting == unnoticed' = unnoticed \cup {c \in Clients : Unasked(c)'}

ServerStep ==
    /\ ServerThread(userPaused[Host] \/ (Timely /\ ~NetworkFast), HostDone, HostGame)
    /\ UNCHANGED <<clientVars, hostVars>> /\ Noting

EmulationStep(c) ==
    EmulationThread(c, Quiet(c)) /\ UNCHANGED <<serverVars, hostVars>> /\ Noting

ClientStep(c) ==
    ClientThread(c) /\ UNCHANGED <<serverVars, hostVars>> /\ Noting

-----------------------------------------------------------------------------
Event == events < MaxEvents /\ events' = events + 1

\* netplayStartServer connects the host before anyone else can.
NewConnection(c) ==
    /\ c \notin connected /\ toServer[c] = <<>>
    /\ MayReturn \/ events = 0
    /\ c # Host => Host \in saidHello
    /\ Connect(c)
    /\ UNCHANGED <<serverVars, hostVars>> /\ Noting

LeaveSession(c) ==
    /\ c \in MayLeave /\ Leave(c) /\ Event
    /\ UNCHANGED <<serverVars, uiTask, announced>> /\ Noting

PauseGame(c) ==
    /\ c \in MayPause /\ InSession(c) /\ Event
    /\ SetPaused(c, TRUE)
    /\ UNCHANGED <<serverVars, uiTask, announced>> /\ Noting

ResumeGame(c) ==
    SetPaused(c, FALSE) /\ UNCHANGED <<serverVars, hostVars>> /\ Noting

\* netplayResyncClients and netplaySendRomToClients, on the thread of the user
\* interface: S9xNPServerQueueSyncAll, S9xNPServerQueueSendingROMImage.
UIQueueBegins ==
    /\ uiTask = "none" /\ InSession(Host) /\ Event
    /\ uiTask' \in Resyncs
    /\ QueueBegins("ui")
    /\ UNCHANGED <<wireVars, clientVars, announced>> /\ Noting

FrontEndStores ==
    /\ \E t \in FrontEnds : StorePause(t)
    /\ UNCHANGED <<wireVars, clientVars, hostVars>> /\ Noting

UIDiscard ==
    /\ call["ui"].at = "discard"
    /\ DiscardOne(Host)
    /\ UNCHANGED <<wireVars, cpc, pc, prev, pending, waiting, frameCount, ring, writeInd,
                   readInd, joypads, game, syncedAt, userPaused, serverVars, hostVars>>
    /\ Noting

DiscardOver == sem[Host] = 0 /\ (Timely => Quiet(Host))

\* The end of S9xNPDiscardHeartbeats.
ClearWaiting ==
    /\ DiscardOver
    /\ waiting' = [waiting EXCEPT ![Host] = FALSE]
    /\ UNCHANGED <<wireVars, cpc, pc, sem, prev, pending, frameCount, ring, writeInd,
                   readInd, joypads, game, syncedAt, userPaused>>

FrontEndDiscarded ==
    /\ \E t \in FrontEnds : AddBegins(t)
    /\ ClearWaiting
    /\ UNCHANGED hostVars /\ Noting

UIQueueEnds ==
    /\ QueueEnds("ui", uiTask)
    /\ uiTask' = "none"
    /\ UNCHANGED <<wireVars, clientVars, announced, events>> /\ Noting

\* mainLoop of the Qt host finds a client that was not connected the last time,
\* and calls S9xNPServerQueueSyncAll on the emulation thread.
AtLoopTop == InSession(Host) /\ pc[Host] = "top" /\ ~userPaused[Host]

Announce(c) ==
    /\ Qt /\ AtLoopTop /\ c \in connected \ (announced \cup {Host})
    /\ announced' = announced \cup {c}
    /\ pc' = [pc EXCEPT ![Host] = "drain"]
    /\ QueueBegins("loop")
    /\ UNCHANGED <<wireVars, cpc, sem, prev, pending, waiting, frameCount, ring, writeInd,
                   readInd, joypads, game, syncedAt, userPaused, uiTask, events>>
    /\ Noting

Unannounce(c) ==
    /\ AtLoopTop /\ c \in announced \ connected
    /\ announced' = announced \ {c}
    /\ UNCHANGED <<wireVars, clientVars, serverVars, uiTask, events>> /\ Noting

MainLoopDiscard ==
    /\ call["loop"].at = "discard"
    /\ DiscardOne(Host)
    /\ UNCHANGED <<wireVars, cpc, pc, prev, pending, waiting, frameCount, ring, writeInd,
                   readInd, joypads, game, syncedAt, userPaused, serverVars, hostVars>>
    /\ Noting

MainLoopQueueEnds ==
    /\ QueueEnds("loop", "SYNC_ALL")
    /\ pc' = [pc EXCEPT ![Host] = "top"]
    /\ UNCHANGED <<wireVars, cpc, sem, prev, pending, waiting, frameCount, ring, writeInd,
                   readInd, joypads, game, syncedAt, userPaused, hostVars>>
    /\ Noting

FrontEnd ==
    \/ UIDiscard \/ UIQueueEnds \/ MainLoopDiscard \/ MainLoopQueueEnds
    \/ FrontEndStores \/ FrontEndDiscarded
    \/ \E c \in Clients : Announce(c) \/ Unannounce(c)

Users ==
    \/ UIQueueBegins
    \/ \E c \in Clients :
         NewConnection(c) \/ LeaveSession(c) \/ PauseGame(c) \/ ResumeGame(c)

Next ==
    \/ ServerStep \/ FrontEnd \/ Users
    \/ \E c \in Clients : EmulationStep(c) \/ ClientStep(c)

\* Every thread that can run does; a user may do nothing, but one who paused
\* the game goes on playing.
Fairness ==
    /\ WF_vars(ServerStep) /\ WF_vars(FrontEnd)
    /\ \A c \in Clients : WF_vars(EmulationStep(c)) /\ WF_vars(ClientStep(c))
                            /\ WF_vars(ResumeGame(c))

Spec == Init /\ [][Next]_vars /\ Fairness

-----------------------------------------------------------------------------
\* c plays the session's game, and no message that replaces it is under way.
Settled(c) ==
    /\ InSession(c) /\ cpc[c] # "drain" /\ ~InFlight(c, SyncTypes)
    /\ game[c] # Foreign

\* The token of frame FrameCount is taken and the frame not yet emulated.
FrameAhead(c) == pc[c] = "frame" \/ (pc[c] \in {"top", "drain"} /\ ~pending[c])

\* Lock step (Snes9xController.cpp, netplayPush; netplay.cpp,
\* S9xNPClientSyncSpeed): FrameCount of a machine always tells how far the
\* game in its memory has been played, and it is the game of the last reset.
\* A machine that falls behind unnoticed loses this, with the heartbeats its
\* full semaphore refuses, and with it those that are sent its game.
GameInStep ==
    unnoticed = {} =>
        \A c \in Clients : Settled(c) =>
            game[c] = At(epoch, IF FrameAhead(c) THEN frameCount[c] - 1 ELSE frameCount[c])

\* A machine emulates a frame with the inputs of the heartbeat before it, so
\* that all machines use the same: the ring never slips, never overruns, but
\* on a machine that falls behind unnoticed.  The first frame after the game
\* was replaced is left out (see HostFirstInputs).
InputsInStep ==
    unnoticed = {} =>
        \A c \in Clients :
            Settled(c) /\ pc[c] = "frame" /\ frameCount[c] > syncedAt[c] + 1
                => joypads[c] = frameCount[c] - 1

\* The host plays every frame, the first of the session and the first after a
\* reset included, with the inputs of the heartbeat before it: a reset finds it
\* waiting for a heartbeat and discards none (server.cpp,
\* S9xNPWaitForEmulationToComplete; netplay.cpp, S9xNPDiscardHeartbeats,
\* S9xNPResetJoypadReadPos).
HostFirstInputs ==
    unnoticed = {} /\ Settled(Host) /\ pc[Host] = "frame"
        => joypads[Host] = frameCount[Host] - 1

\* A front-end thread is in S9xNPServerQueue..., or a task is queued.
Correcting == tasks # <<>> \/ \E t \in FrontEnds : call[t].at # "out"

\* Two threads may leave a value in Paused that the client table does not
\* justify, but only until the task is carried out that one of them queues
\* (server.cpp, S9xNPRecomputePause, S9xNPNoClientReady, S9xNPServerQueueSyncAll).
\* overlap: that task may have been lost.
PauseIsCorrected ==
    ~overlap /\ ~Correcting => srvPaused = MustPause(saidHello, ready, clientPaused)

\* Something is under way that makes c ready: a message of its own that says so, a
\* game or a ROM for it, or a task that sends it one.
Owed(c) ==
    \/ \E i \in 1 .. Len(toServer[c]) : toServer[c][i] \in {"READY", "RECEIVED_ROM_IMAGE", "EOF"}
    \/ InFlight(c, SyncTypes \ {"SRAM_DATA"})
    \/ \E i \in 1 .. Len(tasks) :
          \/ tasks[i].kind = "RESET_ALL" \/ tasks[i] = Work("SYNC_CLIENT", c)
          \/ c # Host /\ tasks[i].kind \in {"SYNC_ALL", "SEND_ROM_IMAGE"}
    \/ spc = "wait" /\ job = Work("JOIN", c)
    \/ c # Host /\ \E t \in FrontEnds : call[t].at # "out"

\* No client is left waiting for a game nobody sends it, which would hold up the
\* session for ever: not by a task for a client that left, not by a resync
\* that two threads ask for while it joins, not by an answer taken for another.
ReadyIsOwned == ~overlap => \A c \in saidHello \ ready : Owed(c)

\* NumClients counts the connections (server.cpp, S9xNPAcceptClient and
\* S9xNPShutdownClient), which alone can have said hello.
ClientsCounted == numClients = Cardinality(connected) /\ saidHello \subseteq connected

\* A client that is being sent a game gets no heartbeat before it has taken
\* it: the discard at its end would lose frames of the others.
NoHeartbeatBehindGame ==
    \A c \in Clients : \A i, j \in 1 .. Len(toClient[c]) :
        i < j /\ toClient[c][i].type \in SyncTypes => toClient[c][j].type # "JOYPAD"

\* A client takes heartbeats only once it has the session's game: the server
\* holds them back from the first READY of a client, which is sent before the
\* client has a game, until that client's tasks are done (server.cpp,
\* S9xNPProcessClient and S9xNPServerLoop).
HeartbeatFindsGame ==
    \A c \in Clients :
        cpc[c] = "loop" /\ toClient[c] # <<>> /\ Head(toClient[c]).type = "JOYPAD"
            => game[c] # Foreign


\* Somebody will lift every pause a machine has asked for: the machine knows
\* that it waits, or the answer is under way.
PauseIsOwned ==
    \A c \in clientPaused \cap saidHello :
        \/ waiting[c] \/ ~InSession(c)
        \/ \E i \in 1 .. Len(toServer[c]) :
              toServer[c][i] \in {"RESUME", "READY", "RECEIVED_ROM_IMAGE", "EOF"}
        \/ cpc[c] = "drain" \/ InFlight(c, SyncTypes)

\* No pause of the session lasts for ever: a client that fell behind resumes,
\* a client that is sent the game becomes ready.
PauseEnds == srvPaused ~> ~srvPaused

\* Every heartbeat is emulated by everyone in the session, in the end.
Caught(c) == frameCount[c] = MaxFrames /\ Settled(c)
EveryFramePlayed ==
    (Host \in saidHello) ~>
        (srvFrame = MaxFrames /\ \A c \in connected : Caught(c))
=============================================================================
