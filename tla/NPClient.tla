------------------------------ MODULE NPClient ------------------------------
(***************************************************************************)
(* A machine of a netplay session (netplay.cpp for Windows) with its       *)
(* front-end's part: that of Snes9xController.cpp, or that of win32.cpp    *)
(* and wsnes9x.cpp, whose steps are the same.  Two threads share it:       *)
(*   - the client thread (S9xNPClientLoop) reads the server's messages;    *)
(*     every heartbeat goes into a ring of joypad data and adds a token to *)
(*     a semaphore, and a message that replaces the game first discards    *)
(*     the tokens;                                                         *)
(*   - the emulation thread (mainLoop) takes one token per frame: at the   *)
(*     end of a frame in S9xNPClientSyncSpeed, or, when that wait timed    *)
(*     out (PendingWait4Sync), before the next frame in netplayPush.       *)
(* A machine that has more than MaxBehindFrameCount tokens asks the server *)
(* to pause and, once it has caught up, to go on.                          *)
(***************************************************************************)
EXTENDS NPWire

CONSTANTS HistSize,     \* NP_JOYPAD_HIST_SIZE: slots of the ring, and the
                        \* largest count of the semaphore
          MaxBehind,    \* MaxBehindFrameCount
          Qt,           \* the front-end: that of qt/, or that of win32/
          Timely        \* do the threads keep up with the frames (see README)?

ASSUME ClientAssumption ==
    /\ HistSize \in Nat \ {0, 1} /\ MaxBehind \in Nat
    /\ Qt \in BOOLEAN /\ Timely \in BOOLEAN

VARIABLES
    cpc,          \* client thread: off, hello, loop, pausing, drain
    pc,           \* emulation thread: top, frame, probe, wait, drain
    sem,          \* NP_CLIENT_SEMAPHORE: its count
    prev,         \* the count ReleaseSemaphore returned in S9xNPClientSyncSpeed
    pending,      \* PendingWait4Sync
    waiting,      \* Waiting4EmulationThread
    frameCount,   \* FrameCount
    ring,         \* Joypads: the heartbeat whose inputs a slot holds, 0: none
    writeInd, readInd,   \* JoypadWriteInd, JoypadReadInd
    joypads,      \* netplay_joypads: the inputs of the next frame
    game,         \* the game in the machine's memory
    syncedAt,     \* history: the frame at which the game was last replaced
    userPaused    \* Settings.Paused: the emulation thread is paused

clientVars == <<cpc, pc, sem, prev, pending, waiting, frameCount, ring, writeInd,
                readInd, joypads, game, syncedAt, userPaused>>

Slots  == 0 .. HistSize - 1

\* The next slot of the ring.
Next1(i) == (i + 1) % HistSize

ClientTypeOK ==
    /\ cpc \in [Clients -> {"off", "hello", "loop", "pausing", "drain"}]
    /\ pc \in [Clients -> {"top", "frame", "probe", "wait", "drain"}]
    /\ sem \in [Clients -> 0 .. HistSize] /\ prev \in [Clients -> 0 .. HistSize]
    /\ pending \in [Clients -> BOOLEAN] /\ waiting \in [Clients -> BOOLEAN]
    /\ frameCount \in [Clients -> Nat] /\ syncedAt \in [Clients -> Nat]
    /\ ring \in [Clients -> [Slots -> Nat]] /\ joypads \in [Clients -> Nat]
    /\ writeInd \in [Clients -> Slots] /\ readInd \in [Clients -> Slots]
    /\ game \in [Clients -> Games]
    /\ userPaused \in [Clients -> BOOLEAN]

\* S9xNPInitialise and the globals' initial values; ReadInd and WriteInd get
\* their values from S9xNPResetJoypadReadPos on connection.
ClientInit ==
    /\ cpc = [c \in Clients |-> "off"] /\ pc = [c \in Clients |-> "top"]
    /\ sem = [c \in Clients |-> 0] /\ prev = [c \in Clients |-> 0]
    /\ pending = [c \in Clients |-> FALSE] /\ waiting = [c \in Clients |-> FALSE]
    /\ frameCount = [c \in Clients |-> 0] /\ syncedAt = [c \in Clients |-> 0]
    /\ ring = [c \in Clients |-> [i \in Slots |-> 0]]
    /\ writeInd = [c \in Clients |-> 0] /\ readInd = [c \in Clients |-> 0]
    /\ joypads = [c \in Clients |-> 0]
    /\ game = [c \in Clients |-> Foreign]
    /\ userPaused = [c \in Clients |-> FALSE]

InSession(c) == cpc[c] \notin {"off", "hello"}       \* Settings.NetPlay

-----------------------------------------------------------------------------
\* The emulation thread.

\* A token was taken: FrameCount++ and S9xNPStepJoypadHistory.
TakeToken(c) ==
    /\ sem[c] > 0
    /\ sem' = [sem EXCEPT ![c] = @ - 1]
    /\ frameCount' = [frameCount EXCEPT ![c] = @ + 1]
    /\ readInd' = [readInd EXCEPT ![c] = IF Next1(@) # writeInd[c] THEN Next1(@) ELSE @]

\* netplayPush: the wait in the last S9xNPClientSyncSpeed failed, so the token
\* of the next frame is still to be taken.  When this wait fails too, mainLoop
\* returns and nothing has changed.
PushPending(c) ==
    /\ InSession(c) /\ pc[c] = "top" /\ ~userPaused[c] /\ pending[c]
    /\ Timely => cpc[c] # "pausing"
    /\ TakeToken(c)
    /\ pending' = [pending EXCEPT ![c] = FALSE]
    /\ pc' = [pc EXCEPT ![c] = "frame"]
    /\ UNCHANGED <<wireVars, cpc, prev, waiting, ring, writeInd, joypads, game,
                   syncedAt, userPaused>>

PushReady(c) ==
    /\ InSession(c) /\ pc[c] = "top" /\ ~userPaused[c] /\ ~pending[c]
    /\ Timely => cpc[c] # "pausing"
    /\ pc' = [pc EXCEPT ![c] = "frame"]
    /\ UNCHANGED <<wireVars, cpc, sem, prev, pending, waiting, frameCount, ring,
                   writeInd, readInd, joypads, game, syncedAt, userPaused>>

\* S9xMainLoop ran one frame with the inputs in netplay_joypads, and
\* S9xNPClientSyncSpeed reads the inputs of the next one and releases the
\* semaphore to learn its count.
EndFrame(c) ==
    /\ InSession(c) /\ pc[c] = "frame"
    /\ game' = [game EXCEPT ![c] = IF @.kind = "session"
                                   THEN At(@.epoch, @.frame + 1) ELSE @]
    /\ joypads' = [joypads EXCEPT ![c] = ring[c][readInd[c]]]
    /\ IF sem[c] < HistSize
         THEN /\ sem' = [sem EXCEPT ![c] = @ + 1]
              /\ prev' = [prev EXCEPT ![c] = sem[c]]
              /\ pc' = [pc EXCEPT ![c] = "probe"]
         ELSE pc' = [pc EXCEPT ![c] = "wait"] /\ UNCHANGED <<sem, prev>>
    /\ UNCHANGED <<wireVars, cpc, pending, waiting, frameCount, ring, writeInd,
                   readInd, syncedAt, userPaused>>

\* The counts at which a machine has caught up.
Resumes(n) == IF Qt THEN n # 0 /\ n <= MaxBehind \div 2 ELSE n = 4

\* Mutant: the test of win32.cpp in the Qt front-end.
CaughtUpAtFour(c) == prev[c] = 4 /\ waiting[c]

\* The released token is taken back, and a machine that has caught up lets
\* the server go on.
CaughtUp(c) == Resumes(prev[c]) /\ waiting[c]

TakeBack(c) ==
    /\ InSession(c) /\ pc[c] = "probe"
    /\ sem' = [sem EXCEPT ![c] = IF @ > 0 THEN @ - 1 ELSE 0]
    /\ prev' = [prev EXCEPT ![c] = 0]
    /\ pc' = [pc EXCEPT ![c] = "wait"]
    /\ IF CaughtUp(c)
         THEN /\ waiting' = [waiting EXCEPT ![c] = FALSE]
              /\ SendToServer(c, "RESUME")
         ELSE UNCHANGED <<waiting, toServer>>
    /\ UNCHANGED <<toClient, cpc, pending, frameCount, ring, writeInd, readInd,
                   joypads, game, syncedAt, userPaused>>

SyncSpeedToken(c) ==
    /\ InSession(c) /\ pc[c] = "wait"
    /\ TakeToken(c)
    /\ pending' = [pending EXCEPT ![c] = FALSE]
    /\ pc' = [pc EXCEPT ![c] = "top"]
    /\ UNCHANGED <<wireVars, cpc, prev, waiting, ring, writeInd, joypads, game,
                   syncedAt, userPaused>>

\* The wait of 100 or 200 ms failed.  quiet: no heartbeat is under way.
SyncSpeedTimeout(c, quiet) ==
    /\ InSession(c) /\ pc[c] = "wait" /\ sem[c] = 0
    /\ Timely => quiet
    /\ pending' = [pending EXCEPT ![c] = TRUE]
    /\ pc' = [pc EXCEPT ![c] = "top"]
    /\ UNCHANGED <<wireVars, cpc, sem, prev, waiting, frameCount, ring, writeInd,
                   readInd, joypads, game, syncedAt, userPaused>>

-----------------------------------------------------------------------------
\* S9xNPDiscardHeartbeats, called from a thread that then runs on: one token
\* at a time until a wait of 200 ms fails.
DiscardOne(c) == sem[c] > 0 /\ sem' = [sem EXCEPT ![c] = @ - 1]

\* No frame of c is being emulated, and none is about to be.
Idle(c) == pc[c] \in {"wait", "drain"} \/ (pc[c] = "top" /\ pending[c])

\* The client thread (S9xNPClientLoop).

\* S9xNPConnect up to the server's answer.  The semaphore outlives a session.
Connect(c) ==
    /\ cpc[c] = "off"
    /\ cpc' = [cpc EXCEPT ![c] = "hello"]
    /\ waiting' = [waiting EXCEPT ![c] = FALSE]
    /\ pending' = [pending EXCEPT ![c] = FALSE]
    /\ toServer' = [toServer EXCEPT ![c] = <<"HELLO">>]
    /\ toClient' = [toClient EXCEPT ![c] = <<>>]
    /\ UNCHANGED <<pc, sem, prev, frameCount, ring, writeInd, readInd, joypads,
                   game, syncedAt, userPaused>>

\* Mutant: reading starts at the slot that is written first.
ResetReadPosZero(c) ==
    /\ writeInd' = [writeInd EXCEPT ![c] = 0] /\ readInd' = [readInd EXCEPT ![c] = 0]
    /\ ring' = [ring EXCEPT ![c] = [i \in Slots |-> 0]]

\* S9xNPResetJoypadReadPos
ResetJoypadReadPos(c) ==
    /\ writeInd' = [writeInd EXCEPT ![c] = 0]
    /\ readInd' = [readInd EXCEPT ![c] = HistSize - 1]
    /\ ring' = [ring EXCEPT ![c] = [i \in Slots |-> 0]]

\* The rest of S9xNPConnect, and the S9xReset of netplayConnectInternal, which
\* waits at most 20 ms for Settings.NetPlay while the first message that
\* replaces the game is held up by the 200 ms of its discard.  The game after
\* that reset is the session's first game on the host and nothing anyone
\* shares on another machine.
RecvHello(c) ==
    /\ cpc[c] = "hello" /\ toClient[c] # <<>>
    /\ LET msg == Head(toClient[c])
       IN  IF msg.type \notin HelloTypes
             THEN /\ cpc' = [cpc EXCEPT ![c] = "off"]
                  /\ SendToServer(c, "EOF")
                  /\ UNCHANGED <<pc, pending, frameCount, ring, writeInd, readInd,
                                 game, syncedAt>>
             ELSE /\ cpc' = [cpc EXCEPT ![c] = "loop"]
                  /\ SendToServer(c, IF msg.type = "HELLO" THEN "READY"
                                     ELSE "WAITING_FOR_ROM_IMAGE")
                  /\ frameCount' = [frameCount EXCEPT ![c] = msg.frame]
                  /\ syncedAt' = [syncedAt EXCEPT ![c] = msg.frame]
                  /\ pending' = [pending EXCEPT ![c] = TRUE]
                  /\ ResetJoypadReadPos(c)
                  /\ game' = [game EXCEPT ![c] = IF c = Host THEN At(0, msg.frame)
                                                 ELSE Foreign]
                  /\ pc' = [pc EXCEPT ![c] = "top"]
    /\ toClient' = [toClient EXCEPT ![c] = Tail(@)]
    /\ UNCHANGED <<sem, prev, waiting, joypads, userPaused>>

\* NP_SERV_JOYPAD: the inputs go into the ring, a token into the semaphore.
\* With MaxBehindFrameCount tokens waiting the server is asked to pause.  A
\* heartbeat may come into the probe of the other thread, but hardly two.
FallsBehind(c) == ~waiting[c] /\ sem[c] = MaxBehind

RecvHeartbeat(c) ==
    /\ cpc[c] = "loop" /\ toClient[c] # <<>> /\ Head(toClient[c]).type = "JOYPAD"
    /\ Timely /\ pc[c] = "probe" => sem[c] <= prev[c] + 1
    /\ ring' = [ring EXCEPT ![c][writeInd[c]] = Head(toClient[c]).frame]
    /\ writeInd' = [writeInd EXCEPT ![c] = Next1(@)]
    /\ IF sem[c] = HistSize
         THEN UNCHANGED <<sem, waiting, cpc>>
         ELSE /\ sem' = [sem EXCEPT ![c] = @ + 1]
              /\ waiting' = [waiting EXCEPT ![c] = @ \/ FallsBehind(c)]
              /\ cpc' = [cpc EXCEPT ![c] = IF FallsBehind(c) THEN "pausing" ELSE @]
    /\ toClient' = [toClient EXCEPT ![c] = Tail(@)]
    /\ UNCHANGED <<toServer, pc, prev, pending, frameCount, readInd, joypads, game,
                   syncedAt, userPaused>>

\* S9xNPSendPause (TRUE)
SendPause(c) ==
    /\ cpc[c] = "pausing"
    /\ cpc' = [cpc EXCEPT ![c] = "loop"]
    /\ SendToServer(c, "PAUSE")
    /\ UNCHANGED <<toClient, pc, sem, prev, pending, waiting, frameCount, ring, writeInd,
                   readInd, joypads, game, syncedAt, userPaused>>

\* A message that replaces the game starts by discarding the tokens; it
\* stays at the head of the stream until that is done.
RecvSync(c) ==
    /\ cpc[c] = "loop" /\ toClient[c] # <<>> /\ Head(toClient[c]).type \in SyncTypes
    /\ cpc' = [cpc EXCEPT ![c] = "drain"]
    /\ UNCHANGED <<wireVars, pc, sem, prev, pending, waiting, frameCount, ring, writeInd,
                   readInd, joypads, game, syncedAt, userPaused>>

ClientDiscard(c) ==
    /\ cpc[c] = "drain"
    /\ DiscardOne(c)
    /\ UNCHANGED <<wireVars, cpc, pc, prev, pending, waiting, frameCount, ring,
                   writeInd, readInd, joypads, game, syncedAt, userPaused>>

\* The discard is over, so the message is carried out.  The wait of 200 ms is
\* there for the frame that is being emulated to complete.
DiscardDone(c) ==
    /\ cpc[c] = "drain" /\ toClient[c] # <<>> /\ sem[c] = 0
    /\ Timely => Idle(c) \/ userPaused[c]
    /\ cpc' = [cpc EXCEPT ![c] = "loop"]
    /\ waiting' = [waiting EXCEPT ![c] = FALSE]
    /\ toClient' = [toClient EXCEPT ![c] = Tail(@)]

\* NP_SERV_RESET and NP_SERV_FREEZE_FILE
ReplaceGame(c) ==
    /\ DiscardDone(c)
    /\ LET msg == Head(toClient[c])
       IN  /\ msg.type \in {"RESET", "FREEZE_FILE"}
           /\ game' = [game EXCEPT ![c] = msg.game]
           /\ frameCount' = [frameCount EXCEPT ![c] = msg.frame]
           /\ syncedAt' = [syncedAt EXCEPT ![c] = msg.frame]
    /\ ResetJoypadReadPos(c)
    /\ SendToServer(c, "READY")
    /\ UNCHANGED <<pc, sem, prev, pending, joypads, userPaused>>

\* NP_SERV_ROM_IMAGE: the machine is reset with the new ROM.
ReplaceRom(c) ==
    /\ DiscardDone(c)
    /\ Head(toClient[c]).type = "ROM_IMAGE"
    /\ game' = [game EXCEPT ![c] = Foreign]
    /\ ResetJoypadReadPos(c)
    /\ SendToServer(c, "RECEIVED_ROM_IMAGE")
    /\ UNCHANGED <<pc, sem, prev, pending, frameCount, joypads, syncedAt, userPaused>>

\* NP_SERV_SRAM_DATA: a part of the memory is replaced, and no answer sent.
ReplaceSram(c) ==
    /\ DiscardDone(c)
    /\ Head(toClient[c]).type = "SRAM_DATA"
    /\ game' = [game EXCEPT ![c] = Foreign]
    /\ UNCHANGED <<toServer, pc, sem, prev, pending, frameCount, ring, writeInd,
                   readInd, joypads, syncedAt, userPaused>>

\* S9xNPDisconnect on a machine other than the host: the user leaves, or the
\* connection is lost.
Leave(c) ==
    /\ cpc[c] # "off"
    /\ cpc' = [cpc EXCEPT ![c] = "off"]
    /\ SendToServer(c, "EOF")
    /\ toClient' = [toClient EXCEPT ![c] = <<>>]
    /\ UNCHANGED <<pc, sem, prev, pending, waiting, frameCount, ring, writeInd,
                   readInd, joypads, game, syncedAt, userPaused>>

\* Snes9xController::setPaused and EmuThread::pause
SetPaused(c, paused) ==
    /\ userPaused[c] # paused
    /\ userPaused' = [userPaused EXCEPT ![c] = paused]
    /\ UNCHANGED <<wireVars, cpc, pc, sem, prev, pending, waiting, frameCount, ring,
                   writeInd, readInd, joypads, game, syncedAt>>

\* The threads of machine c; quiet as in SyncSpeedTimeout.
EmulationThread(c, quiet) ==
    PushPending(c) \/ PushReady(c) \/ EndFrame(c) \/ TakeBack(c)
        \/ SyncSpeedToken(c) \/ SyncSpeedTimeout(c, quiet)

ClientThread(c) ==
    RecvHello(c) \/ RecvHeartbeat(c) \/ SendPause(c) \/ RecvSync(c)
        \/ ClientDiscard(c) \/ ReplaceGame(c) \/ ReplaceRom(c) \/ ReplaceSram(c)
=============================================================================
