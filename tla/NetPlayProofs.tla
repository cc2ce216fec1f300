---------------------------- MODULE NetPlayProofs ----------------------------
(***************************************************************************)
(* What is proved of a netplay session for every number of machines and    *)
(* every size of the ring: the server's client table stays consistent with *)
(* its derived fields, every variable keeps its type, the value in Paused  *)
(* is corrected, all machines play the session's game in lock step and     *)
(* with the inputs of its heartbeats, and the host every frame of it.      *)
(***************************************************************************)
EXTENDS NetPlay, FiniteSetTheorems, SequenceTheorems, TLAPS

USE DEF queue

(***************************************************************************)
(* The client table.  Counting needs the set of connections to be finite,  *)
(* and that the slot a connection is given was not connected.              *)
(***************************************************************************)
Table == IsFiniteSet(connected) /\ ClientsCounted

\* A step that leaves the client table alone keeps it consistent.
LEMMA TableKept ==
    ASSUME Table, UNCHANGED flags
    PROVE  Table'
  BY DEF Table, ClientsCounted, flags

\* So does a handler that changes flags of connected clients.
LEMMA TableFlags ==
    ASSUME Table, UNCHANGED <<connected, numClients>>, saidHello' \subseteq connected
    PROVE  Table'
  BY DEF Table, ClientsCounted

\* A connection is accepted: its slot was not connected.
LEMMA TableAccept ==
    ASSUME Table, NEW c, AcceptClient(c)
    PROVE  Table'
<1>1. c \notin connected /\ connected' = connected \cup {c}
  BY DEF AcceptClient
<1>2. IsFiniteSet(connected')
  BY <1>1, FS_AddElement DEF Table
<1>3. Cardinality(connected') = Cardinality(connected) + 1
  BY <1>1, FS_AddElement DEF Table
<1>4. ClientsCounted'
  BY <1>1, <1>3 DEF Table, ClientsCounted, AcceptClient
<1> QED
  BY <1>2, <1>4 DEF Table

\* A connection ends: its slot was connected.
LEMMA TableShutdown ==
    ASSUME Table, NEW c, ShutdownClient(c)
    PROVE  Table'
<1>1. c \in connected /\ connected' = connected \ {c}
  BY DEF ShutdownClient, Receive
<1>2. IsFiniteSet(connected')
  BY <1>1, FS_RemoveElement DEF Table
<1>3. Cardinality(connected') = Cardinality(connected) - 1
  BY <1>1, FS_RemoveElement DEF Table
<1>4. ClientsCounted'
  BY <1>1, <1>3 DEF Table, ClientsCounted, ShutdownClient
<1> QED
  BY <1>2, <1>4 DEF Table

\* The flags a joining client is given.
LEMMA TableJoins ==
    ASSUME Table, NEW c, c \in connected, NEW isReady, Joins(c, isReady)
    PROVE  Table'
<1>1. saidHello' \subseteq connected
  BY DEF Joins, Table, ClientsCounted
<1> QED
  BY <1>1, TableFlags DEF Joins

\* The handlers of one client's messages.
LEMMA TableClientMessage ==
    ASSUME Table, NEW c,
           \/ ProcessHello(c) \/ ProcessReadyFirst(c) \/ ProcessReadyAgain(c)
           \/ ProcessWaitingForRomImage(c) \/ ProcessReceivedRomImage(c)
           \/ ProcessPause(c)
    PROVE  Table'
<1>1. CASE ProcessHello(c)
  BY <1>1, TableKept DEF ProcessHello
<1>2. CASE ProcessReadyFirst(c)
  BY <1>2, TableJoins DEF ProcessReadyFirst, Receive
<1>3. CASE ProcessReadyAgain(c)
  BY <1>3, TableJoins DEF ProcessReadyAgain, Receive
<1>4. CASE ProcessWaitingForRomImage(c)
  BY <1>4, TableJoins DEF ProcessWaitingForRomImage, Receive
<1>5. CASE ProcessReceivedRomImage(c)
  BY <1>5, TableJoins DEF ProcessReceivedRomImage, Receive
<1>6. CASE ProcessPause(c)
  <2>1. saidHello' \subseteq connected
    BY <1>6 DEF ProcessPause, Table, ClientsCounted
  <2> QED
    BY <1>6, <2>1, TableFlags DEF ProcessPause
<1> QED
  BY <1>1, <1>2, <1>3, <1>4, <1>5, <1>6

\* The steps that make clients not ready.
LEMMA TableNotReady ==
    ASSUME Table, \/ \E first \in {0, 1} : NoClientReady(first)
                  \/ \E c : NotReady(c)
    PROVE  Table'
<1>1. saidHello' \subseteq connected /\ UNCHANGED <<connected, numClients>>
  BY DEF NoClientReady, NotReady, Table, ClientsCounted
<1> QED
  BY <1>1, TableFlags

\* The tasks.
LEMMA TableTask ==
    ASSUME Table, NEW hostDone, NEW hostGame,
           \/ StartTask \/ FinishJoin(hostDone)
           \/ FinishSyncClient(hostDone, hostGame) \/ FinishSyncAll(hostDone, hostGame)
           \/ FinishReset(hostDone) \/ FinishSendSram(hostDone)
           \/ FinishSendRomImage(hostDone)
    PROVE  Table'
<1>1. CASE StartTask
  BY <1>1, TableNotReady DEF StartTask
<1>2. CASE FinishJoin(hostDone)
  BY <1>2, TableKept DEF FinishJoin
<1>3. CASE FinishSyncClient(hostDone, hostGame)
  BY <1>3, TableNotReady DEF FinishSyncClient
<1>4. CASE FinishSyncAll(hostDone, hostGame)
  <2>1. saidHello' \subseteq connected
    BY <1>4 DEF FinishSyncAll, Table, ClientsCounted
  <2> QED
    BY <1>4, <2>1, TableFlags DEF FinishSyncAll
<1>5. CASE FinishReset(hostDone)
  BY <1>5, TableKept DEF FinishReset
<1>6. CASE FinishSendSram(hostDone)
  BY <1>6, TableKept DEF FinishSendSram
<1>7. CASE FinishSendRomImage(hostDone)
  BY <1>7, TableKept DEF FinishSendRomImage
<1> QED
  BY <1>1, <1>2, <1>3, <1>4, <1>5, <1>6, <1>7

\* Every step of the session.
LEMMA TableNext ==
    ASSUME Table, [Next]_vars
    PROVE  Table'
<1>1. CASE ServerStep
  <2>1. PICK stopped, hostDone, hostGame : ServerThread(stopped, hostDone, hostGame)
    BY <1>1 DEF ServerStep
  <2>2. CASE SendHeartBeat(stopped)
    BY <2>2, TableKept DEF SendHeartBeat
  <2>3. ASSUME NEW c \in Clients, AcceptClient(c)
        PROVE  Table'
    BY <2>3, TableAccept
  <2>4. ASSUME NEW c \in Clients, ShutdownClient(c)
        PROVE  Table'
    BY <2>4, TableShutdown
  <2> QED
    BY <2>1, <2>2, <2>3, <2>4, TableClientMessage, TableTask DEF ServerThread
<1>2. CASE UNCHANGED flags
  BY <1>2, TableKept
<1>3. ASSUME UNCHANGED <<connected, saidHello, numClients>>
      PROVE  Table'
  BY <1>3, TableFlags DEF Table, ClientsCounted
<1>4. ASSUME NEW t, \/ QueueBegins(t) \/ StorePause(t) \/ AddBegins(t)
                    \/ \E kind : QueueEnds(t, kind)
      PROVE  UNCHANGED <<connected, saidHello, numClients>>
  BY <1>4 DEF QueueBegins, StorePause, AddBegins, QueueEnds, flags
<1>5. CASE FrontEnd
  <2>1. UNCHANGED <<connected, saidHello, numClients>>
    BY <1>4, <1>5 DEF FrontEnd, UIDiscard, UIQueueEnds, MainLoopDiscard, FrontEndStores,
                      FrontEndDiscarded, MainLoopQueueEnds, Announce, Unannounce, serverVars
  <2> QED
    BY <2>1, <1>3
<1>6. CASE Users
  <2>1. UNCHANGED <<connected, saidHello, numClients>>
    BY <1>4, <1>6 DEF Users, UIQueueBegins, NewConnection, LeaveSession, PauseGame,
                      ResumeGame, serverVars
  <2> QED
    BY <2>1, <1>3
<1>7. CASE \E c \in Clients : EmulationStep(c) \/ ClientStep(c)
  BY <1>7, <1>2 DEF EmulationStep, ClientStep, serverVars, flags
<1>8. CASE UNCHANGED vars
  BY <1>8, <1>2 DEF vars, serverVars, flags
<1> QED
  BY <1>1, <1>5, <1>6, <1>7, <1>8 DEF Next

\* The client table is consistent in every reachable state.
LEMMA TableInv == Spec => []Table
<1>1. Init => Table
  BY FS_EmptySet DEF Init, ServerInit, Table, ClientsCounted
<1> QED
  BY <1>1, TableNext, PTL DEF Spec

\* NumClients is the number of connections, and only a connection has said
\* hello (server.cpp, S9xNPAcceptClient and S9xNPShutdownClient).
THEOREM ClientsCountedInv == Spec => []ClientsCounted
<1>1. Table => ClientsCounted
  BY DEF Table
<1> QED
  BY <1>1, TableInv, PTL

-----------------------------------------------------------------------------
(***************************************************************************)
(* Type correctness.  TypeOK alone is not inductive: the server thread     *)
(* takes a task off the queue when it has carried one out, so there must   *)
(* be one, whatever two calls of S9xNPServerAddTask have left there in the *)
(* meantime; and NumClients is a natural number only as long as it counts  *)
(* the connections.                                                        *)
(***************************************************************************)
HeadKept == spc = "wait" /\ job.kind # "JOIN" => tasks # <<>>

\* What the user queues is known as long as the call for it runs.
UIQueues == uiTask = "none" <=> call["ui"].at = "out"

TypeInv == TypeOK /\ HeadKept /\ UIQueues /\ Table

-----------------------------------------------------------------------------
(* The values. *)

\* The next slot of a ring is one of its slots.
LEMMA NextSlot == \A i \in Slots : Next1(i) \in Slots
  BY ClientAssumption DEF Slots, Next1

LEMMA GameTypes ==
    /\ Foreign \in Games /\ Torn \in Games
    /\ \A e, f \in Nat : At(e, f) \in Games
  BY DEF Foreign, Torn, At, Game, Games

LEMMA MessageTypes ==
    /\ RomImage \in ToClientMsgs /\ SramData \in ToClientMsgs
    /\ \A f \in Nat : Heartbeat(f) \in ToClientMsgs
    /\ \A f \in Nat : \A rom \in BOOLEAN : Hello(f, rom) \in ToClientMsgs
    /\ \A f \in Nat : \A g \in Games :
          Reset(f, g) \in ToClientMsgs /\ FreezeFile(f, g) \in ToClientMsgs
  BY GameTypes DEF RomImage, SramData, Heartbeat, Hello, Reset, FreezeFile,
                   ToClientMsg, ToClientMsgs, HelloTypes, SyncTypes

\* What is sent keeps the streams well typed, and so does reading.
LEMMA SendToServerType ==
    ASSUME WireTypeOK, NEW c \in Clients, NEW msg \in ToServerMsgs, SendToServer(c, msg)
    PROVE  toServer' \in [Clients -> Seq(ToServerMsgs)]
  BY DEF WireTypeOK, SendToServer

LEMMA SendToType ==
    ASSUME WireTypeOK, NEW cs, NEW msg \in ToClientMsgs, SendTo(cs, msg)
    PROVE  toClient' \in [Clients -> Seq(ToClientMsgs)]
  BY DEF WireTypeOK, SendTo

LEMMA ReadToClientType ==
    ASSUME WireTypeOK, NEW c \in Clients, toClient[c] # <<>>
    PROVE  /\ Head(toClient[c]) \in ToClientMsgs
           /\ [toClient EXCEPT ![c] = Tail(@)] \in [Clients -> Seq(ToClientMsgs)]
  BY DEF WireTypeOK

LEMMA ReadToServerType ==
    ASSUME WireTypeOK, NEW c \in Clients, toServer[c] # <<>>
    PROVE  [toServer EXCEPT ![c] = Tail(@)] \in [Clients -> Seq(ToServerMsgs)]
  BY DEF WireTypeOK

-----------------------------------------------------------------------------
(* The machines. *)

MachineTypeOK == WireTypeOK /\ ClientTypeOK

\* Taking and adding tokens keeps the semaphore's count in its range.
LEMMA CountTypes ==
    ASSUME NEW n \in 0 .. HistSize
    PROVE  /\ n > 0 => n - 1 \in 0 .. HistSize
           /\ n < HistSize => n + 1 \in 0 .. HistSize
           /\ n # HistSize => n + 1 \in 0 .. HistSize
           /\ 0 \in 0 .. HistSize
  BY ClientAssumption

LEMMA TakeTokenTypes ==
    ASSUME ClientTypeOK, NEW c \in Clients, TakeToken(c)
    PROVE  /\ sem' \in [Clients -> 0 .. HistSize]
           /\ frameCount' \in [Clients -> Nat]
           /\ readInd' \in [Clients -> Slots]
<1>1. sem[c] - 1 \in 0 .. HistSize
  BY CountTypes DEF ClientTypeOK, TakeToken
<1>2. sem' \in [Clients -> 0 .. HistSize]
  BY <1>1 DEF ClientTypeOK, TakeToken
<1>3. frameCount' \in [Clients -> Nat]
  BY DEF ClientTypeOK, TakeToken
<1>4. readInd' \in [Clients -> Slots]
  BY NextSlot DEF ClientTypeOK, TakeToken
<1> QED
  BY <1>2, <1>3, <1>4

LEMMA EmulationTypes ==
    ASSUME MachineTypeOK, NEW c \in Clients, NEW quiet, EmulationThread(c, quiet)
    PROVE  MachineTypeOK'
<1> USE ClientAssumption DEF MachineTypeOK
<1>1. CASE PushPending(c)
  BY <1>1, TakeTokenTypes DEF PushPending, ClientTypeOK, WireTypeOK, wireVars
<1>2. CASE PushReady(c)
  BY <1>2 DEF PushReady, ClientTypeOK, WireTypeOK, wireVars
<1>3. CASE EndFrame(c)
  <2>1. game' \in [Clients -> Games]
    <3>1. game[c].epoch \in Nat /\ game[c].frame + 1 \in Nat
      BY DEF ClientTypeOK, Games
    <3>2. At(game[c].epoch, game[c].frame + 1) \in Games
      BY <3>1, GameTypes
    <3> QED
      BY <1>3, <3>2 DEF EndFrame, ClientTypeOK
  <2>2. joypads' \in [Clients -> Nat]
    BY <1>3 DEF EndFrame, ClientTypeOK
  <2>3. /\ sem' \in [Clients -> 0 .. HistSize] /\ prev' \in [Clients -> 0 .. HistSize]
        /\ pc' \in [Clients -> {"top", "frame", "probe", "wait", "drain"}]
    <3>1. CASE sem[c] < HistSize
      <4>1. sem[c] \in 0 .. HistSize /\ sem[c] + 1 \in 0 .. HistSize
        BY <3>1, CountTypes DEF ClientTypeOK
      <4> QED
        BY <1>3, <3>1, <4>1, ZenonT(60) DEF EndFrame, ClientTypeOK
    <3>2. CASE ~(sem[c] < HistSize)
      BY <1>3, <3>2 DEF EndFrame, ClientTypeOK
    <3> QED
      BY <3>1, <3>2
  <2> QED
    BY <1>3, <2>1, <2>2, <2>3 DEF EndFrame, ClientTypeOK, WireTypeOK, wireVars
<1>4. CASE TakeBack(c)
  <2>1. toServer' \in [Clients -> Seq(ToServerMsgs)]
    BY <1>4, SendToServerType DEF TakeBack, WireTypeOK, ToServerMsgs
  <2>2. sem' \in [Clients -> 0 .. HistSize]
    <3>1. (IF sem[c] > 0 THEN sem[c] - 1 ELSE 0) \in 0 .. HistSize
      BY CountTypes DEF ClientTypeOK
    <3> QED
      BY <1>4, <3>1 DEF TakeBack, ClientTypeOK
  <2>3. prev' \in [Clients -> 0 .. HistSize] /\ waiting' \in [Clients -> BOOLEAN]
    BY <1>4, CountTypes DEF TakeBack, ClientTypeOK
  <2> QED
    BY <1>4, <2>1, <2>2, <2>3 DEF TakeBack, ClientTypeOK, WireTypeOK
<1>5. CASE SyncSpeedToken(c)
  BY <1>5, TakeTokenTypes DEF SyncSpeedToken, ClientTypeOK, WireTypeOK, wireVars
<1>6. CASE SyncSpeedTimeout(c, quiet)
  BY <1>6 DEF SyncSpeedTimeout, ClientTypeOK, WireTypeOK, wireVars
<1> QED
  BY <1>1, <1>2, <1>3, <1>4, <1>5, <1>6 DEF EmulationThread

\* S9xNPResetJoypadReadPos leaves the ring and its indices well typed.
LEMMA ResetTypes ==
    ASSUME ClientTypeOK, NEW c \in Clients, ResetJoypadReadPos(c)
    PROVE  /\ writeInd' \in [Clients -> Slots] /\ readInd' \in [Clients -> Slots]
           /\ ring' \in [Clients -> [Slots -> Nat]]
<1>1. 0 \in Slots /\ HistSize - 1 \in Slots
  BY ClientAssumption DEF Slots
<1>2. [i \in Slots |-> 0] \in [Slots -> Nat]
  OBVIOUS
<1> QED
  BY <1>1, <1>2 DEF ResetJoypadReadPos, ClientTypeOK

LEMMA ClientThreadTypes ==
    ASSUME MachineTypeOK, NEW c \in Clients, ClientThread(c)
    PROVE  MachineTypeOK'
<1> USE ClientAssumption DEF MachineTypeOK
<1>1. CASE RecvHello(c)
  <2> DEFINE msg == Head(toClient[c])
  <2>1. /\ msg \in ToClientMsgs
        /\ toClient' \in [Clients -> Seq(ToClientMsgs)]
    BY <1>1, ReadToClientType DEF RecvHello
  <2>2. toServer' \in [Clients -> Seq(ToServerMsgs)]
    BY <1>1, SendToServerType DEF RecvHello, ToServerMsgs
  <2>3. CASE msg.type \notin HelloTypes
    BY <1>1, <2>1, <2>2, <2>3 DEF RecvHello, ClientTypeOK, WireTypeOK
  <2>4. CASE msg.type \in HelloTypes
    <3>1. msg.frame \in Nat
      BY <2>1 DEF ToClientMsgs
    <3>2. game' \in [Clients -> Games]
      <4>1. At(0, msg.frame) \in Games /\ Foreign \in Games
        BY <3>1, GameTypes
      <4>2. (IF c = Host THEN At(0, msg.frame) ELSE Foreign) \in Games
        BY <4>1
      <4> QED
        BY <1>1, <2>4, <4>2 DEF RecvHello, ClientTypeOK
    <3>3. ResetJoypadReadPos(c)
      BY <1>1, <2>4 DEF RecvHello
    <3> QED
      BY <1>1, <2>1, <2>2, <2>4, <3>1, <3>2, <3>3, ResetTypes, ZenonT(60)
         DEF RecvHello, ClientTypeOK, WireTypeOK
  <2> QED
    BY <2>3, <2>4
<1>2. CASE RecvHeartbeat(c)
  <2>1. /\ Head(toClient[c]).frame \in Nat
        /\ toClient' \in [Clients -> Seq(ToClientMsgs)]
    BY <1>2, ReadToClientType DEF RecvHeartbeat, ToClientMsgs
  <2>2. ring' \in [Clients -> [Slots -> Nat]] /\ writeInd' \in [Clients -> Slots]
    BY <1>2, <2>1, NextSlot DEF RecvHeartbeat, ClientTypeOK
  <2>3. /\ sem' \in [Clients -> 0 .. HistSize] /\ waiting' \in [Clients -> BOOLEAN]
        /\ cpc' \in [Clients -> {"off", "hello", "loop", "pausing", "drain"}]
    <3>1. CASE sem[c] = HistSize
      BY <1>2, <3>1 DEF RecvHeartbeat, ClientTypeOK
    <3>2. CASE sem[c] # HistSize
      <4>1. sem[c] + 1 \in 0 .. HistSize
        BY <3>2, CountTypes DEF ClientTypeOK
      <4>2. sem' \in [Clients -> 0 .. HistSize]
        BY <1>2, <3>2, <4>1 DEF RecvHeartbeat, ClientTypeOK
      <4>3. cpc' \in [Clients -> {"off", "hello", "loop", "pausing", "drain"}]
        <5>1. cpc' = [cpc EXCEPT ![c] = "pausing"] \/ cpc' = cpc
          <6>1. CASE FallsBehind(c)
            BY <1>2, <3>2, <6>1 DEF RecvHeartbeat
          <6>2. CASE ~FallsBehind(c)
            BY <1>2, <3>2, <6>2 DEF RecvHeartbeat, ClientTypeOK
          <6> QED
            BY <6>1, <6>2
        <5> QED
          BY <5>1 DEF ClientTypeOK
      <4>4. (waiting[c] \/ FallsBehind(c)) \in BOOLEAN
        OBVIOUS
      <4>5. waiting' \in [Clients -> BOOLEAN]
        BY <1>2, <3>2, <4>4, Zenon DEF RecvHeartbeat, ClientTypeOK
      <4> QED
        BY <4>2, <4>3, <4>5
    <3> QED
      BY <3>1, <3>2
  <2> QED
    BY <1>2, <2>1, <2>2, <2>3 DEF RecvHeartbeat, ClientTypeOK, WireTypeOK
<1>3. CASE SendPause(c)
  <2>1. toServer' \in [Clients -> Seq(ToServerMsgs)]
    BY <1>3, SendToServerType DEF SendPause, ToServerMsgs
  <2> QED
    BY <1>3, <2>1 DEF SendPause, ClientTypeOK, WireTypeOK
<1>4. CASE RecvSync(c)
  BY <1>4 DEF RecvSync, ClientTypeOK, WireTypeOK, wireVars
<1>5. CASE ClientDiscard(c)
  BY <1>5, SMTT(20) DEF ClientDiscard, DiscardOne, ClientTypeOK, WireTypeOK, wireVars
<1>6. CASE ReplaceGame(c)
  <2> DEFINE msg == Head(toClient[c])
  <2>1. /\ msg \in ToClientMsgs
        /\ toClient' \in [Clients -> Seq(ToClientMsgs)]
    BY <1>6, ReadToClientType DEF ReplaceGame, DiscardDone
  <2>2. msg.frame \in Nat /\ msg.game \in Games
    BY <2>1 DEF ToClientMsgs
  <2>3. toServer' \in [Clients -> Seq(ToServerMsgs)]
    BY <1>6, SendToServerType DEF ReplaceGame, ToServerMsgs
  <2> QED
    BY <1>6, <2>1, <2>2, <2>3, ResetTypes
       DEF ReplaceGame, DiscardDone, ClientTypeOK, WireTypeOK
<1>7. CASE ReplaceRom(c)
  <2>1. toClient' \in [Clients -> Seq(ToClientMsgs)]
    BY <1>7, ReadToClientType DEF ReplaceRom, DiscardDone
  <2>2. toServer' \in [Clients -> Seq(ToServerMsgs)]
    BY <1>7, SendToServerType DEF ReplaceRom, ToServerMsgs
  <2> QED
    BY <1>7, <2>1, <2>2, ResetTypes, GameTypes
       DEF ReplaceRom, DiscardDone, ClientTypeOK, WireTypeOK
<1>8. CASE ReplaceSram(c)
  <2>1. toClient' \in [Clients -> Seq(ToClientMsgs)]
    BY <1>8, ReadToClientType DEF ReplaceSram, DiscardDone
  <2> QED
    BY <1>8, <2>1, GameTypes DEF ReplaceSram, DiscardDone, ClientTypeOK, WireTypeOK
<1> QED
  BY <1>1, <1>2, <1>3, <1>4, <1>5, <1>6, <1>7, <1>8 DEF ClientThread

-----------------------------------------------------------------------------
(* The server. *)

\* What the server thread's actions need to know of the machines.
ServerSideOK == WireTypeOK /\ ServerTypeOK /\ HeadKept

LEMMA TaskTypes ==
    /\ \A c \in Clients : JoinTasks(c) \in Seq(Tasks)
    /\ \A c \in Clients : Work("JOIN", c) \in Jobs
    /\ Work("SYNC_AFTER_ROM", Nobody) \in Jobs /\ Idling \in Jobs
    /\ Tasks \subseteq Jobs
    /\ <<Work("SEND_SRAM_ALL", Nobody), Work("RESET_ALL", Nobody)>> \in Seq(Tasks)
    /\ \A kind \in TaskKinds : <<Work(kind, Nobody)>> \in Seq(Tasks)
<1>1. Nobody \in Clients
  BY WireAssumption DEF Nobody
<1>2. \A kind \in TaskKinds : \A c \in Clients : Work(kind, c) \in Tasks
  BY DEF Work, Tasks
<1>3. \A kind \in TaskKinds \cup {"JOIN", "SYNC_AFTER_ROM"} : \A c \in Clients :
          Work(kind, c) \in Jobs
  BY DEF Work, Jobs
<1>4. Idling \in Jobs /\ Work("SYNC_AFTER_ROM", Nobody) \in Jobs
  BY <1>1, <1>3 DEF Idling, TaskKinds
<1>5. Tasks \subseteq Jobs
  BY DEF Tasks, Jobs
<1>6. \A c \in Clients : JoinTasks(c) \in Seq(Tasks)
  <2> SUFFICES ASSUME NEW c \in Clients PROVE JoinTasks(c) \in Seq(Tasks)
    OBVIOUS
  <2>1. /\ Work("SEND_SRAM", c) \in Tasks /\ Work("RESET_ALL", Nobody) \in Tasks
        /\ Work("SYNC_CLIENT", c) \in Tasks
    BY <1>1, <1>2 DEF TaskKinds
  <2> QED
    BY <2>1 DEF JoinTasks
<1>7. <<Work("SEND_SRAM_ALL", Nobody), Work("RESET_ALL", Nobody)>> \in Seq(Tasks)
  <2>1. Work("SEND_SRAM_ALL", Nobody) \in Tasks /\ Work("RESET_ALL", Nobody) \in Tasks
    BY <1>1, <1>2 DEF TaskKinds
  <2> QED
    BY <2>1
<1>8. \A kind \in TaskKinds : <<Work(kind, Nobody)>> \in Seq(Tasks)
  <2> SUFFICES ASSUME NEW kind \in TaskKinds PROVE <<Work(kind, Nobody)>> \in Seq(Tasks)
    OBVIOUS
  <2>1. Work(kind, Nobody) \in Tasks
    BY <1>1, <1>2
  <2> QED
    BY <2>1
<1> QED
  BY <1>3, <1>4, <1>5, <1>6, <1>7, <1>8

CallTypes == [FrontEnds -> [at : {"out", "store", "discard", "add"},
                            verdict : BOOLEAN, others : Nat]]

LEMMA CallsSeeTypes ==
    ASSUME call \in CallTypes, NEW n \in Nat, CallsSee(n)
    PROVE  call' \in CallTypes /\ UNCHANGED overlap
<1>1. \A t \in FrontEnds : call'[t] \in [at : {"out", "store", "discard", "add"},
                                       verdict : BOOLEAN, others : Nat]
  BY DEF CallsSee, CallTypes
<1> QED
  BY <1>1 DEF CallsSee, CallTypes

\* Appending keeps the queue well typed.
LEMMA QueueTypes ==
    ASSUME ServerTypeOK, NEW new \in Seq(Tasks), AddTasks(new)
    PROVE  /\ tasks' \in Seq(Tasks) /\ (tasks # <<>> => tasks' # <<>>)
           /\ call' \in CallTypes /\ UNCHANGED overlap
<1>1. call' \in CallTypes /\ UNCHANGED overlap
  BY CallsSeeTypes DEF AddTasks, ServerTypeOK, CallTypes
<1> QED
  BY <1>1 DEF AddTasks, ServerTypeOK

LEMMA Concatenated ==
    ASSUME NEW S, NEW a \in Seq(S), NEW b \in Seq(S)
    PROVE  a \o b \in Seq(S) /\ (a # <<>> \/ b # <<>> => a \o b # <<>>)
<1>1. Len(a \o b) = Len(a) + Len(b) /\ Len(a) \in Nat /\ Len(b) \in Nat
  OBVIOUS
<1>2. (a # <<>> => Len(a) > 0) /\ (b # <<>> => Len(b) > 0)
  OBVIOUS
<1> QED
  BY <1>1, <1>2

\* So do two calls that meet, which leave at least one task.
LEMMA QueueEndTypes ==
    ASSUME ServerTypeOK, NEW t \in FrontEnds, NEW kind \in TaskKinds, QueueEnds(t, kind)
    PROVE  /\ tasks' \in Seq(Tasks) /\ tasks' # <<>>
           /\ call' \in CallTypes /\ overlap' \in BOOLEAN
<1>1. tasks \in Seq(Tasks) /\ call \in CallTypes /\ overlap \in BOOLEAN
  BY DEF ServerTypeOK, CallTypes
<1>2. Work(kind, Nobody) \in Tasks /\ Unwritten \in Tasks
  BY WireAssumption DEF Work, Tasks, TaskKinds, Nobody, Unwritten
<1>3. call' \in CallTypes
  <2>1. \A u \in FrontEnds : call'[u] \in [at : {"out", "store", "discard", "add"},
                                         verdict : BOOLEAN, others : Nat]
    <3> SUFFICES ASSUME NEW u \in FrontEnds
                 PROVE  call'[u] \in [at : {"out", "store", "discard", "add"},
                                     verdict : BOOLEAN, others : Nat]
      OBVIOUS
    <3>1. Out \in [at : {"out", "store", "discard", "add"}, verdict : BOOLEAN, others : Nat]
      BY DEF Out
    <3>2. call[u] \in [at : {"out", "store", "discard", "add"},
                      verdict : BOOLEAN, others : Nat]
      BY <1>1 DEF CallTypes
    <3>3. [call[u] EXCEPT !.others = @ + 1]
              \in [at : {"out", "store", "discard", "add"}, verdict : BOOLEAN, others : Nat]
      BY <3>2
    <3>4. call'[u] \in {Out, call[u], [call[u] EXCEPT !.others = @ + 1]}
      BY DEF QueueEnds
    <3> QED
      BY <3>1, <3>2, <3>3, <3>4
  <2> QED
    BY <2>1 DEF QueueEnds, CallTypes
<1>4. CASE tasks' = Append(tasks, Work(kind, Nobody)) /\ UNCHANGED overlap
  BY <1>1, <1>2, <1>3, <1>4
<1>5. CASE overlap' = TRUE /\ \E n \in 1 .. call[t].others :
             /\ n <= Len(tasks)
             /\ \E last \in Overlapped(SubSeq(tasks, Len(tasks) - n + 1, Len(tasks)),
                                      Work(kind, Nobody)) :
                   tasks' = SubSeq(tasks, 1, Len(tasks) - n) \o last
  <2>1. PICK n \in 1 .. call[t].others :
             /\ n <= Len(tasks)
             /\ \E last \in Overlapped(SubSeq(tasks, Len(tasks) - n + 1, Len(tasks)),
                                      Work(kind, Nobody)) :
                   tasks' = SubSeq(tasks, 1, Len(tasks) - n) \o last
    BY <1>5
  <2> DEFINE theirs == SubSeq(tasks, Len(tasks) - n + 1, Len(tasks))
  <2>2. theirs \in Seq(Tasks) /\ Len(theirs) = n /\ n \in Nat \ {0}
        /\ SubSeq(tasks, 1, Len(tasks) - n) \in Seq(Tasks)
    BY <1>1, <2>1 DEF CallTypes
  <2> HIDE DEF theirs
  <2>3. \A last \in Overlapped(theirs, Work(kind, Nobody)) :
            last \in Seq(Tasks) /\ last # <<>>
    <3>1. theirs[1] \in Tasks /\ Tail(theirs) \in Seq(Tasks)
      <4>1. theirs # <<>> /\ 1 \in 1 .. Len(theirs)
        BY <2>2
      <4> QED
        BY <2>2, <4>1
    <3>2. Work(theirs[1].kind, Work(kind, Nobody).c) \in Tasks
      BY <1>2, <3>1 DEF Work, Tasks
    <3>3. \A task \in Tasks : <<task>> \in Seq(Tasks) /\ <<task>> # <<>>
      OBVIOUS
    <3>6. <<Unwritten>> \in Seq(Tasks) /\ <<Unwritten>> # <<>>
      BY <1>2
    <3>4. theirs \o <<Unwritten>> \in Seq(Tasks) /\ theirs \o <<Unwritten>> # <<>>
      BY <2>2, <3>6, Concatenated
    <3>5. ASSUME NEW task \in Tasks
          PROVE  /\ <<task>> \o Tail(theirs) \o <<Unwritten>> \in Seq(Tasks)
                 /\ <<task>> \o Tail(theirs) \o <<Unwritten>> # <<>>
      <4>1. <<task>> \in Seq(Tasks)
        OBVIOUS
      <4>2. <<task>> \o Tail(theirs) \in Seq(Tasks)
        BY <3>1, <4>1, Concatenated
      <4> QED
        BY <3>6, <4>2, Concatenated
    <3> QED
      BY <1>2, <3>1, <3>2, <3>3, <3>4, <3>5 DEF Overlapped
  <2>4. PICK last \in Overlapped(theirs, Work(kind, Nobody)) :
            tasks' = SubSeq(tasks, 1, Len(tasks) - n) \o last
    BY <2>1 DEF theirs
  <2>5. last \in Seq(Tasks) /\ last # <<>>
    BY <2>3, <2>4
  <2> QED
    BY <1>3, <1>5, <2>2, <2>4, <2>5, Concatenated
<1> QED
  BY <1>4, <1>5 DEF QueueEnds

\* NumClients stays a natural number.
LEMMA CountIsNat == Table => numClients \in Nat
  BY FS_CardinalityType DEF Table, ClientsCounted

\* The flags a handler sets stay sets of clients.
LEMMA JoinsTypes ==
    ASSUME ServerTypeOK, NEW c \in Clients, NEW isReady, Joins(c, isReady)
    PROVE  /\ saidHello' \subseteq Clients /\ ready' \subseteq Clients
           /\ clientPaused' \subseteq Clients /\ srvPaused' \in BOOLEAN
           /\ storing' \in BOOLEAN /\ UNCHANGED <<connected, numClients>>
<1>1. srvPaused' \in BOOLEAN /\ storing' \in BOOLEAN
  BY DEF Joins, RecomputePause, MustPause
<1> QED
  BY <1>1 DEF Joins, ServerTypeOK

LEMMA ReceiveTypes ==
    ASSUME ServerSideOK, NEW c \in Clients, NEW msg, Receive(c, msg)
    PROVE  /\ toServer' \in [Clients -> Seq(ToServerMsgs)]
           /\ spc = "clients"
  BY ReadToServerType DEF Receive, ServerSideOK

LEMMA MessageHandlerTypes ==
    ASSUME ServerSideOK, NEW c \in Clients, numClients' \in Nat,
           \/ AcceptClient(c) \/ ProcessHello(c) \/ ProcessReadyFirst(c)
           \/ ProcessReadyAgain(c) \/ ProcessWaitingForRomImage(c)
           \/ ProcessReceivedRomImage(c) \/ ProcessPause(c) \/ ShutdownClient(c)
    PROVE  ServerSideOK'
<1> USE DEF ServerSideOK
<1>1. CASE AcceptClient(c)
  BY <1>1 DEF AcceptClient, WireTypeOK, ServerTypeOK, HeadKept, wireVars
<1>2. CASE ProcessHello(c)
  <2>1. Hello(srvFrame, sendROM /\ numClients > 1) \in ToClientMsgs
    BY MessageTypes DEF ServerTypeOK
  <2>2. toClient' \in [Clients -> Seq(ToClientMsgs)]
    BY <1>2, <2>1, SendToType DEF ProcessHello
  <2>3. toServer' \in [Clients -> Seq(ToServerMsgs)]
    BY <1>2, ReceiveTypes DEF ProcessHello
  <2> QED
    BY <1>2, <2>2, <2>3 DEF ProcessHello, WireTypeOK, ServerTypeOK, HeadKept, flags
<1>3. CASE ProcessReadyFirst(c)
  <2>1. toServer' \in [Clients -> Seq(ToServerMsgs)] /\ spc = "clients"
    BY <1>3, ReceiveTypes DEF ProcessReadyFirst
  <2>2. Joins(c, TRUE)
    BY <1>3 DEF ProcessReadyFirst
  <2>3. \/ spc' = "wait" /\ job' = Work("JOIN", c)
        \/ UNCHANGED <<spc, job>>
    BY <1>3 DEF ProcessReadyFirst
  <2>4. job' \in Jobs /\ spc' \in {"clients", "tasks", "wait"}
    BY <2>3, TaskTypes DEF ServerTypeOK
  <2>5. HeadKept'
    BY <1>3, <2>1, <2>3 DEF HeadKept, Work, ProcessReadyFirst
  <2> QED
    BY <1>3, <2>1, <2>2, <2>4, <2>5, JoinsTypes
       DEF ProcessReadyFirst, WireTypeOK, ServerTypeOK
<1>4. CASE ProcessReadyAgain(c)
  <2>1. toServer' \in [Clients -> Seq(ToServerMsgs)]
    BY <1>4, ReceiveTypes DEF ProcessReadyAgain
  <2>2. Joins(c, TRUE)
    BY <1>4 DEF ProcessReadyAgain
  <2> QED
    BY <1>4, <2>1, <2>2, JoinsTypes
       DEF ProcessReadyAgain, WireTypeOK, ServerTypeOK, HeadKept
<1>5. CASE ProcessWaitingForRomImage(c)
  <2>1. toServer' \in [Clients -> Seq(ToServerMsgs)]
    BY <1>5, ReceiveTypes DEF ProcessWaitingForRomImage
  <2>2. toClient' \in [Clients -> Seq(ToClientMsgs)]
    BY <1>5, SendToType, MessageTypes DEF ProcessWaitingForRomImage
  <2>3. Joins(c, FALSE)
    BY <1>5 DEF ProcessWaitingForRomImage
  <2> QED
    BY <1>5, <2>1, <2>2, <2>3, JoinsTypes
       DEF ProcessWaitingForRomImage, WireTypeOK, ServerTypeOK, HeadKept
<1>6. CASE ProcessReceivedRomImage(c)
  <2>1. toServer' \in [Clients -> Seq(ToServerMsgs)]
    BY <1>6, ReceiveTypes DEF ProcessReceivedRomImage
  <2>2. Joins(c, FALSE)
    BY <1>6 DEF ProcessReceivedRomImage
  <2>3. spc' = "wait" /\ job' = Work("JOIN", c) /\ job' \in Jobs
    BY <1>6, TaskTypes DEF ProcessReceivedRomImage
  <2>4. HeadKept'
    BY <2>3 DEF HeadKept, Work
  <2> QED
    BY <1>6, <2>1, <2>2, <2>3, <2>4, JoinsTypes
       DEF ProcessReceivedRomImage, WireTypeOK, ServerTypeOK
<1>7. CASE ProcessPause(c)
  <2>1. toServer' \in [Clients -> Seq(ToServerMsgs)]
    BY <1>7, ReceiveTypes DEF ProcessPause
  <2>2. srvPaused' \in BOOLEAN /\ storing' \in BOOLEAN
    BY <1>7 DEF ProcessPause, RecomputePause, MustPause
  <2>3. clientPaused' \subseteq Clients
    BY <1>7 DEF ProcessPause, ServerTypeOK
  <2> QED
    BY <1>7, <2>1, <2>2, <2>3 DEF ProcessPause, WireTypeOK, ServerTypeOK, HeadKept
<1>8. CASE ShutdownClient(c)
  <2>1. toServer' \in [Clients -> Seq(ToServerMsgs)]
    BY <1>8, ReceiveTypes DEF ShutdownClient
  <2>2. srvPaused' \in BOOLEAN /\ storing' \in BOOLEAN
    BY <1>8 DEF ShutdownClient, RecomputePause, MustPause
  <2> QED
    BY <1>8, <2>1, <2>2 DEF ShutdownClient, WireTypeOK, ServerTypeOK, HeadKept
<1> QED
  BY <1>1, <1>2, <1>3, <1>4, <1>5, <1>6, <1>7, <1>8

\* The end of a job that is a task: the task is taken off the queue.
LEMMA TaskDoneTypes ==
    ASSUME ServerTypeOK, HeadKept, spc = "wait", job.kind # "JOIN", TaskDone
    PROVE  /\ tasks' \in Seq(Tasks) /\ job' \in Jobs
           /\ spc' \in {"clients", "tasks"} /\ HeadKept'
           /\ UNCHANGED <<call, overlap>>
<1>1. tasks # <<>> /\ tasks \in Seq(Tasks)
  BY DEF ServerTypeOK, HeadKept
<1>2. tasks' \in Seq(Tasks)
  BY <1>1 DEF TaskDone
<1>3. spc' \in {"clients", "tasks"} /\ job' = Idling /\ UNCHANGED <<call, overlap>>
  BY DEF TaskDone
<1> QED
  BY <1>2, <1>3, TaskTypes DEF HeadKept

\* The flags after a step that makes clients not ready.
LEMMA NotReadyTypes ==
    ASSUME ServerTypeOK, \/ \E first \in {0, 1} : NoClientReady(first)
                         \/ \E c : NotReady(c)
    PROVE  /\ ready' \subseteq Clients /\ srvPaused' \in BOOLEAN /\ storing' \in BOOLEAN
           /\ UNCHANGED <<connected, saidHello, clientPaused, numClients>>
<1>1. srvPaused' \in BOOLEAN /\ storing' \in BOOLEAN
  BY DEF NoClientReady, NotReady, RecomputePause, MustPause
<1> QED
  BY <1>1 DEF NoClientReady, NotReady, ServerTypeOK

LEMMA TaskStepTypes ==
    ASSUME ServerSideOK, NEW hostDone, NEW hostGame \in Games,
           \/ StartTask \/ FinishJoin(hostDone)
           \/ FinishSyncClient(hostDone, hostGame) \/ FinishSyncAll(hostDone, hostGame)
           \/ FinishReset(hostDone) \/ FinishSendSram(hostDone)
           \/ FinishSendRomImage(hostDone)
    PROVE  ServerSideOK'
<1> USE DEF ServerSideOK
<1>1. CASE StartTask
  <2>1. Head(tasks) \in Tasks
    BY <1>1 DEF StartTask, ServerTypeOK
  <2>2. job' = Head(tasks) /\ job' \in Jobs /\ UNCHANGED tasks
    BY <1>1, <2>1, TaskTypes DEF StartTask
  <2>3. \/ \E first \in {0, 1} : NoClientReady(first)
        \/ \E c : NotReady(c)
    <3>1. CASE Head(tasks).kind \in {"SYNC_CLIENT", "SEND_SRAM"}
      BY <1>1, <3>1, Zenon DEF StartTask
    <3>2. CASE Head(tasks).kind = "RESET_ALL"
      BY <1>1, <3>2, Zenon DEF StartTask
    <3>3. CASE Head(tasks).kind \notin {"SYNC_CLIENT", "SEND_SRAM", "RESET_ALL"}
      BY <1>1, <3>3, Zenon DEF StartTask
    <3> QED
      BY <3>1, <3>2, <3>3
  <2>4. HeadKept'
    BY <1>1, <2>2 DEF StartTask, HeadKept
  <2> QED
    BY <1>1, <2>2, <2>3, <2>4, NotReadyTypes
       DEF StartTask, WireTypeOK, ServerTypeOK, wireVars
<1>2. CASE FinishJoin(hostDone)
  <2>1. job.c \in Clients
    BY DEF ServerTypeOK, Jobs
  <2>2. tasks' \in Seq(Tasks)
    BY <1>2, <2>1, TaskTypes, QueueTypes DEF FinishJoin
  <2>3. spc' = "clients" /\ job' \in Jobs
    BY <1>2, TaskTypes DEF FinishJoin
  <2>4. call' \in CallTypes /\ UNCHANGED overlap
    BY <1>2, <2>1, TaskTypes, QueueTypes DEF FinishJoin
  <2> QED
    BY <1>2, <2>2, <2>3, <2>4
       DEF FinishJoin, WireTypeOK, ServerTypeOK, HeadKept, CallTypes, wireVars, flags
<1>3. CASE FinishSyncClient(hostDone, hostGame)
  <2>1. FreezeFile(srvFrame, hostGame) \in ToClientMsgs
    BY MessageTypes DEF ServerTypeOK
  <2>2. toClient' \in [Clients -> Seq(ToClientMsgs)]
    BY <1>3, <2>1, SendToType DEF FinishSyncClient
  <2>3. spc = "wait" /\ job.kind # "JOIN" /\ TaskDone /\ NotReady(job.c)
    BY <1>3 DEF FinishSyncClient, Waited
  <2> QED
    BY <1>3, <2>2, <2>3, TaskDoneTypes, NotReadyTypes
       DEF FinishSyncClient, WireTypeOK, ServerTypeOK
<1>4. CASE FinishSyncAll(hostDone, hostGame)
  <2>1. FreezeFile(srvFrame, hostGame) \in ToClientMsgs
    BY MessageTypes DEF ServerTypeOK
  <2>2. toClient' \in [Clients -> Seq(ToClientMsgs)]
    BY <1>4, <2>1, SendToType DEF FinishSyncAll
  <2>3. spc = "wait" /\ job.kind # "JOIN" /\ TaskDone
    BY <1>4 DEF FinishSyncAll, Waited
  <2>4. srvPaused' \in BOOLEAN /\ storing' \in BOOLEAN
    BY <1>4 DEF FinishSyncAll, RecomputePause, MustPause
  <2> QED
    BY <1>4, <2>2, <2>3, <2>4, TaskDoneTypes
       DEF FinishSyncAll, WireTypeOK, ServerTypeOK
<1>5. CASE FinishReset(hostDone)
  <2>1. epoch' \in Nat
    BY <1>5 DEF FinishReset, ServerTypeOK
  <2>2. Reset(srvFrame, At(epoch', srvFrame)) \in ToClientMsgs
    BY <2>1, MessageTypes, GameTypes DEF ServerTypeOK
  <2>3. toClient' \in [Clients -> Seq(ToClientMsgs)]
    BY <1>5, <2>2, SendToType DEF FinishReset
  <2>4. spc = "wait" /\ job.kind # "JOIN" /\ TaskDone
    BY <1>5 DEF FinishReset, Waited
  <2> QED
    BY <1>5, <2>1, <2>3, <2>4, TaskDoneTypes
       DEF FinishReset, WireTypeOK, ServerTypeOK, flags
<1>6. CASE FinishSendSram(hostDone)
  <2>1. toClient' \in [Clients -> Seq(ToClientMsgs)]
    BY <1>6, SendToType, MessageTypes DEF FinishSendSram
  <2>2. spc = "wait" /\ job.kind # "JOIN" /\ TaskDone
    BY <1>6 DEF FinishSendSram, Waited
  <2> QED
    BY <1>6, <2>1, <2>2, TaskDoneTypes
       DEF FinishSendSram, WireTypeOK, ServerTypeOK, flags
<1>7. CASE FinishSendRomImage(hostDone)
  <2>1. toClient' \in [Clients -> Seq(ToClientMsgs)]
    BY <1>7, SendToType, MessageTypes DEF FinishSendRomImage
  <2>2. spc = "wait" /\ job.kind = "SEND_ROM_IMAGE" /\ tasks # <<>>
    BY <1>7 DEF FinishSendRomImage, Waited, HeadKept
  <2>3. CASE syncByReset
    <3>1. tasks' \in Seq(Tasks)
      BY <1>7, <2>2, <2>3, TaskTypes DEF FinishSendRomImage, ServerTypeOK
    <3>2. spc' = "tasks" /\ job' \in Jobs
      BY <1>7, <2>3, TaskTypes DEF FinishSendRomImage
    <3>3. call' \in CallTypes /\ UNCHANGED overlap
      BY <1>7, <2>3, CallsSeeTypes DEF FinishSendRomImage, ServerTypeOK, CallTypes
    <3> QED
      BY <1>7, <2>1, <3>1, <3>2, <3>3
         DEF FinishSendRomImage, WireTypeOK, ServerTypeOK, HeadKept, CallTypes, flags
  <2>4. CASE ~syncByReset
    <3>1. job' = Work("SYNC_AFTER_ROM", Nobody) /\ job' \in Jobs /\ UNCHANGED <<tasks, spc>>
      BY <1>7, <2>4, TaskTypes DEF FinishSendRomImage
    <3>2. HeadKept'
      BY <2>2, <3>1 DEF HeadKept, Work
    <3> QED
      BY <1>7, <2>1, <2>4, <3>1, <3>2 DEF FinishSendRomImage, WireTypeOK, ServerTypeOK, flags
  <2> QED
    BY <2>3, <2>4
<1> QED
  BY <1>1, <1>2, <1>3, <1>4, <1>5, <1>6, <1>7

-----------------------------------------------------------------------------
(* The session. *)

LEMMA ServerStepTypes ==
    ASSUME TypeInv, Table', ServerStep
    PROVE  TypeOK' /\ HeadKept'
<1>1. PICK stopped, hostDone :
          ServerThread(stopped, hostDone, HostGame)
  BY DEF ServerStep
<1>2. HostGame \in Games
  BY GameTypes, WireAssumption DEF TypeInv, TypeOK, ClientTypeOK, HostGame
<1>3. numClients' \in Nat
  BY FS_CardinalityType DEF Table, ClientsCounted
<1>4. ServerSideOK
  BY DEF TypeInv, TypeOK, ServerSideOK
<1>5. ServerSideOK'
  <2>1. CASE SendHeartBeat(stopped)
    <3>1. srvFrame' \in Nat
      BY <2>1 DEF SendHeartBeat, TypeInv, TypeOK, ServerTypeOK
    <3>2. toClient' \in [Clients -> Seq(ToClientMsgs)]
      BY <1>4, <2>1, <3>1, SendToType, MessageTypes DEF SendHeartBeat, ServerSideOK
    <3> QED
      BY <1>4, <2>1, <3>1, <3>2
         DEF SendHeartBeat, ServerSideOK, WireTypeOK, ServerTypeOK, HeadKept, flags
  <2> QED
    BY <1>1, <1>2, <1>3, <1>4, <2>1, MessageHandlerTypes, TaskStepTypes DEF ServerThread
<1>6. UNCHANGED <<clientVars, hostVars>> /\ unnoticed' \subseteq Clients
  BY DEF ServerStep, Noting, TypeInv, TypeOK
<1> QED
  BY <1>5, <1>6
     DEF TypeInv, TypeOK, ServerSideOK, ClientTypeOK, clientVars, hostVars

\* The steps of a call of S9xNPServerQueueSyncAll or S9xNPServerQueueSendingROMImage.
LEMMA QueueBeginTypes ==
    ASSUME ServerTypeOK, HeadKept, NEW t \in FrontEnds, QueueBegins(t)
    PROVE  ServerTypeOK' /\ HeadKept'
<1>1. MustPause(saidHello, ready', clientPaused) \in BOOLEAN
  BY DEF MustPause
<1>2. call' \in CallTypes
  BY <1>1 DEF QueueBegins, ServerTypeOK, CallTypes
<1> QED
  BY <1>2 DEF QueueBegins, ServerTypeOK, HeadKept, CallTypes

LEMMA StorePauseTypes ==
    ASSUME ServerTypeOK, HeadKept, NEW t \in FrontEnds, StorePause(t)
    PROVE  ServerTypeOK' /\ HeadKept'
<1>1. call' \in CallTypes
  BY DEF StorePause, ServerTypeOK, CallTypes
<1>2. srvPaused' \in BOOLEAN
  <2>1. call[t].verdict \in BOOLEAN
    BY DEF ServerTypeOK
  <2> QED
    BY <2>1 DEF StorePause, ServerTypeOK
<1> QED
  BY <1>1, <1>2 DEF StorePause, ServerTypeOK, HeadKept, CallTypes

LEMMA AddBeginTypes ==
    ASSUME ServerTypeOK, HeadKept, NEW t \in FrontEnds, AddBegins(t)
    PROVE  ServerTypeOK' /\ HeadKept'
<1>1. call' \in CallTypes
  BY DEF AddBegins, ServerTypeOK, CallTypes
<1> QED
  BY <1>1 DEF AddBegins, ServerTypeOK, HeadKept, CallTypes, flags

\* The steps of the front-end's threads and of the users.
LEMMA FrontEndTypes ==
    ASSUME TypeInv, Table', FrontEnd
    PROVE  TypeOK' /\ HeadKept'
<1> USE ClientAssumption, NetPlayAssumption DEF TypeInv, TypeOK, Noting
<1>1. Host \in Clients /\ numClients' \in Nat
  BY WireAssumption, FS_CardinalityType DEF Table, ClientsCounted
<1>2. ASSUME DiscardOne(Host)
      PROVE  sem' \in [Clients -> 0 .. HistSize]
  BY <1>1, <1>2, CountTypes DEF DiscardOne, ClientTypeOK
<1>3. CASE UIDiscard
  BY <1>2, <1>3 DEF UIDiscard, WireTypeOK, ClientTypeOK, ServerTypeOK, HeadKept,
                    wireVars, serverVars, hostVars
<1>4. CASE MainLoopDiscard
  BY <1>2, <1>4 DEF MainLoopDiscard, WireTypeOK, ClientTypeOK, ServerTypeOK, HeadKept,
                    wireVars, serverVars, hostVars
<1>5. ASSUME NEW t \in FrontEnds, NEW kind \in TaskKinds, QueueEnds(t, kind)
      PROVE  ServerTypeOK' /\ HeadKept'
  <2>1. /\ tasks' \in Seq(Tasks) /\ tasks' # <<>>
        /\ call' \in CallTypes /\ overlap' \in BOOLEAN
    BY <1>5, QueueEndTypes
  <2> QED
    BY <1>5, <2>1 DEF QueueEnds, ServerTypeOK, HeadKept, CallTypes, flags
<1>6. CASE UIQueueEnds
  <2>1. uiTask \in TaskKinds
    BY <1>6 DEF UIQueueEnds, QueueEnds, UIQueues, ServerTypeOK, TaskKinds
  <2>2. ServerTypeOK' /\ HeadKept'
    BY <1>5, <1>6, <2>1 DEF UIQueueEnds, FrontEnds
  <2> QED
    BY <1>6, <2>2 DEF UIQueueEnds, WireTypeOK, ClientTypeOK, wireVars, clientVars
<1>7. CASE MainLoopQueueEnds
  <2>1. ServerTypeOK' /\ HeadKept'
    BY <1>5, <1>7 DEF MainLoopQueueEnds, TaskKinds, FrontEnds
  <2> QED
    BY <1>7, <2>1 DEF MainLoopQueueEnds, WireTypeOK, ClientTypeOK, wireVars, hostVars
<1>8. CASE \E c \in Clients : Announce(c)
  <2>1. PICK c \in Clients : Announce(c)
    BY <1>8
  <2>2. QueueBegins("loop")
    BY <2>1 DEF Announce
  <2>3. ServerTypeOK' /\ HeadKept'
    BY <2>2, QueueBeginTypes DEF FrontEnds
  <2> QED
    BY <2>1, <2>3 DEF Announce, WireTypeOK, ClientTypeOK, wireVars
<1>9. CASE \E c \in Clients : Unannounce(c)
  BY <1>9 DEF Unannounce, WireTypeOK, ClientTypeOK, ServerTypeOK, HeadKept,
              wireVars, clientVars, serverVars
<1>10. CASE FrontEndStores
  <2>1. PICK t \in FrontEnds : StorePause(t)
    BY <1>10 DEF FrontEndStores
  <2>2. ServerTypeOK' /\ HeadKept'
    BY <2>1, StorePauseTypes
  <2> QED
    BY <1>10, <2>2 DEF FrontEndStores, WireTypeOK, ClientTypeOK, wireVars, clientVars, hostVars
<1>11. CASE FrontEndDiscarded
  <2>1. PICK t \in FrontEnds : AddBegins(t)
    BY <1>11 DEF FrontEndDiscarded
  <2>2. ServerTypeOK' /\ HeadKept'
    BY <2>1, AddBeginTypes
  <2> QED
    BY <1>11, <2>2 DEF FrontEndDiscarded, ClearWaiting, WireTypeOK, ClientTypeOK, wireVars,
                       hostVars
<1> QED
  BY <1>3, <1>4, <1>6, <1>7, <1>8, <1>9, <1>10, <1>11 DEF FrontEnd

LEMMA UsersTypes ==
    ASSUME TypeInv, Users
    PROVE  TypeOK' /\ HeadKept'
<1> USE NetPlayAssumption DEF TypeInv, TypeOK, Noting
<1>1. ASSUME Event
      PROVE  events' \in 0 .. MaxEvents
  BY <1>1 DEF Event
<1>2. CASE UIQueueBegins
  <2>1. QueueBegins("ui")
    BY <1>2 DEF UIQueueBegins
  <2>2. ServerTypeOK' /\ HeadKept'
    BY <2>1, QueueBeginTypes DEF FrontEnds
  <2> QED
    BY <1>1, <1>2, <2>2 DEF UIQueueBegins, WireTypeOK, ClientTypeOK, wireVars, clientVars
<1>3. CASE \E c \in Clients : NewConnection(c)
  <2>1. PICK c \in Clients : NewConnection(c)
    BY <1>3
  <2>2. <<"HELLO">> \in Seq(ToServerMsgs) /\ <<>> \in Seq(ToClientMsgs)
    BY DEF ToServerMsgs
  <2>3. WireTypeOK'
    BY <2>1, <2>2 DEF NewConnection, Connect, WireTypeOK
  <2> QED
    BY <2>1, <2>3 DEF NewConnection, Connect, ClientTypeOK, ServerTypeOK, HeadKept,
                      serverVars, hostVars
<1>4. CASE \E c \in Clients : LeaveSession(c)
  <2>1. PICK c \in Clients : LeaveSession(c)
    BY <1>4
  <2>2. toServer' \in [Clients -> Seq(ToServerMsgs)]
    BY <2>1, SendToServerType DEF LeaveSession, Leave, ToServerMsgs
  <2>3. WireTypeOK'
    <3>1. <<>> \in Seq(ToClientMsgs)
      OBVIOUS
    <3> QED
      BY <2>1, <2>2, <3>1 DEF LeaveSession, Leave, WireTypeOK
  <2> QED
    BY <1>1, <2>1, <2>3 DEF LeaveSession, Leave, ClientTypeOK, ServerTypeOK, HeadKept,
                            serverVars
<1>5. CASE \E c \in Clients : PauseGame(c)
  BY <1>1, <1>5 DEF PauseGame, SetPaused, WireTypeOK, ClientTypeOK, ServerTypeOK,
                    HeadKept, wireVars, serverVars
<1>6. CASE \E c \in Clients : ResumeGame(c)
  <2>1. PICK c \in Clients : ResumeGame(c)
    BY <1>6
  <2>2. UNCHANGED <<serverVars, hostVars>> /\ SetPaused(c, FALSE) /\ unnoticed' \subseteq Clients
    BY <2>1 DEF ResumeGame
  <2>3. WireTypeOK'
    BY <2>2 DEF SetPaused, WireTypeOK, wireVars
  <2>4. ClientTypeOK'
    BY <2>2 DEF SetPaused, ClientTypeOK
  <2>5. ServerTypeOK' /\ HeadKept'
    BY <2>2 DEF ServerTypeOK, HeadKept, serverVars
  <2> QED
    BY <2>2, <2>3, <2>4, <2>5 DEF hostVars
<1> QED
  BY <1>2, <1>3, <1>4, <1>5, <1>6 DEF Users

\* The server thread leaves the front-end's calls where they are.
LEMMA CallsStay ==
    ASSUME ServerTypeOK, NEW stopped, NEW hostDone, NEW hostGame,
           ServerThread(stopped, hostDone, hostGame)
    PROVE  /\ \A t \in FrontEnds : call'[t].at = call[t].at
           /\ UNCHANGED overlap
<1>1. ASSUME NEW n, CallsSee(n)
      PROVE  /\ \A t \in FrontEnds : call'[t].at = call[t].at
             /\ UNCHANGED overlap
  BY <1>1 DEF CallsSee, ServerTypeOK
<1>2. CASE FinishJoin(hostDone)
  BY <1>1, <1>2 DEF FinishJoin, AddTasks
<1>3. CASE FinishSendRomImage(hostDone)
  BY <1>1, <1>3 DEF FinishSendRomImage
<1>4. ASSUME NEW c, \/ AcceptClient(c) \/ ProcessHello(c) \/ ProcessReadyFirst(c)
                    \/ ProcessReadyAgain(c) \/ ProcessWaitingForRomImage(c)
                    \/ ProcessReceivedRomImage(c) \/ ProcessPause(c) \/ ShutdownClient(c)
      PROVE  UNCHANGED <<call, overlap>>
  BY <1>4 DEF AcceptClient, ProcessHello, ProcessReadyFirst, ProcessReadyAgain,
              ProcessWaitingForRomImage, ProcessReceivedRomImage, ProcessPause, ShutdownClient
<1>5. ASSUME \/ SendHeartBeat(stopped) \/ StartTask \/ FinishSyncClient(hostDone, hostGame)
             \/ FinishSyncAll(hostDone, hostGame) \/ FinishReset(hostDone)
             \/ FinishSendSram(hostDone)
      PROVE  UNCHANGED <<call, overlap>>
  BY <1>5 DEF SendHeartBeat, StartTask, FinishSyncClient, FinishSyncAll, FinishReset,
              FinishSendSram, TaskDone
<1> QED
  BY <1>2, <1>3, <1>4, <1>5 DEF ServerThread

LEMMA UIQueuesNext ==
    ASSUME TypeInv, [Next]_vars
    PROVE  UIQueues'
<1> USE DEF UIQueues, ServerTypeOK, Out
<1>1. UIQueues /\ ServerTypeOK /\ {"ui", "loop"} = FrontEnds
  BY DEF TypeInv, TypeOK, FrontEnds
<1> HIDE DEF ServerTypeOK
<1>2. CASE ServerStep
  BY <1>1, <1>2, CallsStay DEF ServerStep, hostVars
<1>3. CASE UNCHANGED <<call, uiTask>>
  BY <1>1, <1>3
<1>4. CASE UIQueueBegins
  BY <1>1, <1>4, NetPlayAssumption DEF UIQueueBegins, QueueBegins, ServerTypeOK
<1>5. CASE UIQueueEnds
  BY <1>1, <1>5 DEF UIQueueEnds, QueueEnds
<1>6. CASE \E c \in Clients : Announce(c)
  BY <1>1, <1>6 DEF Announce, QueueBegins, ServerTypeOK
<1>7. CASE MainLoopQueueEnds
  BY <1>1, <1>7 DEF MainLoopQueueEnds, QueueEnds, ServerTypeOK, hostVars
<1>8. CASE FrontEndStores
  BY <1>1, <1>8 DEF FrontEndStores, StorePause, ServerTypeOK, hostVars
<1>9. CASE FrontEndDiscarded
  BY <1>1, <1>9 DEF FrontEndDiscarded, AddBegins, ServerTypeOK, hostVars
<1>10. CASE UIDiscard \/ MainLoopDiscard \/ \E c \in Clients : Unannounce(c)
  BY <1>3, <1>10 DEF UIDiscard, MainLoopDiscard, Unannounce, serverVars, hostVars
<1>11. CASE \E c \in Clients : \/ NewConnection(c) \/ LeaveSession(c) \/ PauseGame(c)
                              \/ ResumeGame(c) \/ EmulationStep(c) \/ ClientStep(c)
  BY <1>3, <1>11 DEF NewConnection, LeaveSession, PauseGame, ResumeGame, EmulationStep,
                     ClientStep, serverVars, hostVars
<1>12. CASE UNCHANGED vars
  BY <1>3, <1>12 DEF vars, serverVars, hostVars
<1> QED
  BY <1>2, <1>4, <1>5, <1>6, <1>7, <1>8, <1>9, <1>10, <1>11, <1>12 DEF Next, FrontEnd, Users

LEMMA TypeNext ==
    ASSUME TypeInv, [Next]_vars
    PROVE  TypeInv'
<1>1. Table' /\ UIQueues'
  BY TableNext, UIQueuesNext DEF TypeInv
<1>2. CASE \E c \in Clients : EmulationStep(c) \/ ClientStep(c)
  <2>1. MachineTypeOK /\ (MachineTypeOK' => TypeOK' /\ HeadKept')
    BY <1>2 DEF EmulationStep, ClientStep, TypeInv, TypeOK, MachineTypeOK, ServerTypeOK,
                HeadKept, Noting, serverVars, hostVars
  <2> QED
    BY <1>1, <1>2, <2>1, EmulationTypes, ClientThreadTypes
       DEF EmulationStep, ClientStep, TypeInv
<1>3. CASE UNCHANGED vars
  BY <1>1, <1>3 DEF vars, TypeInv, TypeOK, WireTypeOK, ClientTypeOK, ServerTypeOK,
                    HeadKept, wireVars, clientVars, serverVars, hostVars
<1> QED
  BY <1>1, <1>2, <1>3, ServerStepTypes, FrontEndTypes, UsersTypes DEF Next, TypeInv

LEMMA TypeInit == Init => TypeInv
<1> SUFFICES ASSUME Init PROVE TypeInv
  OBVIOUS
<1>1. Table
  BY FS_EmptySet DEF Init, ServerInit, Table, ClientsCounted
<1>2. WireTypeOK
  BY DEF Init, WireTypeOK
<1>3. ClientTypeOK
  BY GameTypes, CountTypes, ClientAssumption DEF Init, ClientInit, ClientTypeOK, Slots
<1>4. ServerTypeOK /\ HeadKept /\ UIQueues
  <2>1. <<>> \in Seq(Tasks)
    OBVIOUS
  <2>2. Idling \in Jobs
    BY TaskTypes
  <2> QED
    BY <2>1, <2>2 DEF Init, ServerInit, ServerTypeOK, HeadKept, UIQueues, FrontEnds, Out
<1> QED
  BY <1>1, <1>2, <1>3, <1>4, NetPlayAssumption DEF Init, TypeInv, TypeOK

\* Every variable keeps its type in every reachable state.
THEOREM TypeCorrect == Spec => []TypeOK
<1>1. TypeInv => TypeOK
  BY DEF TypeInv
<1> QED
  BY <1>1, TypeInit, TypeNext, PTL DEF Spec

-----------------------------------------------------------------------------
(***************************************************************************)
(* Paused.  The server thread computes it after every change of the flags, *)
(* and the slot of a new connection has not said hello; a thread of the    *)
(* front-end may store over it what it computed before, or see its own     *)
(* value stored over.  The task it then queues makes the server thread     *)
(* compute it again, so the value is right once no task but the one being  *)
(* carried out is left and nobody is queueing one.                         *)
(***************************************************************************)
PausedIsRecomputed == srvPaused = MustPause(saidHello, ready, clientPaused)

LastTask == tasks = <<>> \/ (spc = "wait" /\ job.kind # "JOIN" /\ Len(tasks) = 1)

Corrected ==
    ~overlap /\ (\A t \in FrontEnds : call[t].at = "out") /\ LastTask => PausedIsRecomputed

CorrectedInv == TypeInv /\ Corrected

\* Every handler of the server thread computes Paused or leaves what it depends on.
LEMMA PauseComputed ==
    ASSUME Table, NEW stopped, NEW hostDone, NEW hostGame,
           ServerThread(stopped, hostDone, hostGame)
    PROVE  \/ PausedIsRecomputed'
           \/ /\ PausedIsRecomputed => PausedIsRecomputed'
              /\ \/ UNCHANGED <<tasks, spc, job>>
                 \/ FinishJoin(hostDone) \/ FinishReset(hostDone)
                 \/ FinishSendSram(hostDone) \/ FinishSendRomImage(hostDone)
<1>1. ASSUME RecomputePause
      PROVE  PausedIsRecomputed'
  BY <1>1 DEF RecomputePause, PausedIsRecomputed
<1>2. ASSUME UNCHANGED flags
      PROVE  PausedIsRecomputed => PausedIsRecomputed'
  BY <1>2 DEF flags, PausedIsRecomputed, MustPause
<1>3. CASE SendHeartBeat(stopped)
  BY <1>2, <1>3 DEF SendHeartBeat
<1>4. ASSUME NEW c, AcceptClient(c)
      PROVE  /\ PausedIsRecomputed => PausedIsRecomputed'
             /\ UNCHANGED <<tasks, spc, job>>
  <2>1. saidHello' = saidHello /\ c \notin saidHello
    BY <1>4 DEF AcceptClient, Table, ClientsCounted
  <2>2. \A d \in saidHello : (d \in ready' <=> d \in ready)
                               /\ (d \in clientPaused' <=> d \in clientPaused)
    BY <1>4, <2>1 DEF AcceptClient
  <2>3. MustPause(saidHello', ready', clientPaused')
            = MustPause(saidHello, ready, clientPaused)
    BY <2>1, <2>2 DEF MustPause
  <2> QED
    BY <1>4, <2>3 DEF AcceptClient, PausedIsRecomputed
<1>5. ASSUME NEW c, ProcessHello(c)
      PROVE  /\ PausedIsRecomputed => PausedIsRecomputed'
             /\ UNCHANGED <<tasks, spc, job>>
  BY <1>2, <1>5 DEF ProcessHello
<1>6. ASSUME NEW c, \/ ProcessReadyFirst(c) \/ ProcessReadyAgain(c)
                    \/ ProcessWaitingForRomImage(c) \/ ProcessReceivedRomImage(c)
                    \/ ProcessPause(c) \/ ShutdownClient(c)
      PROVE  PausedIsRecomputed'
  BY <1>1, <1>6 DEF ProcessReadyFirst, ProcessReadyAgain, ProcessWaitingForRomImage,
                    ProcessReceivedRomImage, ProcessPause, ShutdownClient, Joins
<1>7. CASE StartTask
  <2>1. RecomputePause
    <3>1. CASE Head(tasks).kind \in {"SYNC_CLIENT", "SEND_SRAM"}
      BY <1>7, <3>1, Zenon DEF StartTask, NotReady
    <3>2. CASE Head(tasks).kind = "RESET_ALL"
      BY <1>7, <3>2, Zenon DEF StartTask, NoClientReady
    <3>3. CASE Head(tasks).kind \notin {"SYNC_CLIENT", "SEND_SRAM", "RESET_ALL"}
      BY <1>7, <3>3, Zenon DEF StartTask, NoClientReady
    <3> QED
      BY <3>1, <3>2, <3>3
  <2> QED
    BY <1>1, <2>1
<1>8. CASE FinishSyncClient(hostDone, hostGame) \/ FinishSyncAll(hostDone, hostGame)
  BY <1>1, <1>8 DEF FinishSyncClient, FinishSyncAll, NotReady
<1>9. CASE \/ FinishJoin(hostDone) \/ FinishReset(hostDone) \/ FinishSendSram(hostDone)
           \/ FinishSendRomImage(hostDone)
  BY <1>2, <1>9 DEF FinishJoin, FinishReset, FinishSendSram, FinishSendRomImage
<1> QED
  BY <1>3, <1>4, <1>5, <1>6, <1>7, <1>8, <1>9 DEF ServerThread

LEMMA CorrectedServer ==
    ASSUME CorrectedInv, ServerStep
    PROVE  Corrected'
<1>1. PICK stopped, hostDone : ServerThread(stopped, hostDone, HostGame)
  BY DEF ServerStep
<1>2. ServerTypeOK /\ HeadKept /\ Table
  BY DEF CorrectedInv, TypeInv, TypeOK
<1>3. overlap' = overlap /\ \A t \in FrontEnds : call'[t].at = call[t].at
  BY <1>1, <1>2, CallsStay
<1>4. CASE PausedIsRecomputed'
  BY <1>4 DEF Corrected
<1>5. CASE PausedIsRecomputed => PausedIsRecomputed'
  <2>1. CASE UNCHANGED <<tasks, spc, job>>
    BY <1>3, <1>5, <2>1 DEF Corrected, CorrectedInv, LastTask
  <2>2. CASE FinishJoin(hostDone)
    <3>1. JoinTasks(job.c) \in Seq(Tasks) /\ JoinTasks(job.c) # <<>>
      <4>1. job.c \in Clients
        BY <1>2 DEF ServerTypeOK, Jobs
      <4>2. JoinTasks(job.c) # <<>>
        BY DEF JoinTasks
      <4> QED
        BY <4>1, <4>2, TaskTypes
    <3>2. tasks' # <<>> /\ spc' = "clients"
      BY <1>2, <2>2, <3>1, Concatenated DEF FinishJoin, AddTasks, ServerTypeOK
    <3> QED
      BY <3>2 DEF Corrected, LastTask
  <2>3. CASE TaskDone /\ spc = "wait" /\ job.kind # "JOIN"
    <3>1. LastTask' => LastTask
      <4>1. tasks \in Seq(Tasks) /\ tasks # <<>>
        BY <1>2, <2>3 DEF ServerTypeOK, HeadKept
      <4>2. Tail(tasks) = <<>> => Len(tasks) = 1
        <5>1. Len(Tail(tasks)) = Len(tasks) - 1 /\ Len(tasks) \in Nat
          BY <4>1
        <5>2. Tail(tasks) = <<>> => Len(Tail(tasks)) = 0
          BY <4>1, EmptySeq
        <5> QED
          BY <5>1, <5>2
      <4>3. spc' # "wait" /\ tasks' = Tail(tasks)
        BY <2>3 DEF TaskDone
      <4> QED
        BY <2>3, <4>2, <4>3 DEF LastTask
    <3> QED
      BY <1>3, <1>5, <3>1 DEF Corrected, CorrectedInv
  <2>4. CASE FinishReset(hostDone) \/ FinishSendSram(hostDone)
    BY <2>3, <2>4 DEF FinishReset, FinishSendSram, Waited
  <2>5. CASE FinishSendRomImage(hostDone)
    <3>1. spc = "wait" /\ job.kind = "SEND_ROM_IMAGE" /\ tasks # <<>> /\ tasks \in Seq(Tasks)
      BY <1>2, <2>5 DEF FinishSendRomImage, Waited, HeadKept, ServerTypeOK
    <3>2. CASE syncByReset
      <4>1. <<Work("SEND_SRAM_ALL", Nobody), Work("RESET_ALL", Nobody)>> \in Seq(Tasks)
        BY TaskTypes
      <4>2. tasks' # <<>> /\ spc' = "tasks"
        BY <2>5, <3>1, <3>2, <4>1, Concatenated DEF FinishSendRomImage
      <4> QED
        BY <4>2 DEF Corrected, LastTask
    <3>3. CASE ~syncByReset
      <4>1. UNCHANGED <<tasks, spc>> /\ job' = Work("SYNC_AFTER_ROM", Nobody)
        BY <2>5, <3>3 DEF FinishSendRomImage
      <4>2. LastTask' => LastTask
        BY <3>1, <4>1 DEF LastTask
      <4> QED
        BY <1>3, <1>5, <4>2 DEF Corrected, CorrectedInv
    <3> QED
      BY <3>2, <3>3
  <2> QED
    BY <1>1, <1>2, <1>4, <2>1, <2>2, <2>4, <2>5, PauseComputed
<1> QED
  BY <1>1, <1>2, <1>4, <1>5, PauseComputed

LEMMA CorrectedNext ==
    ASSUME CorrectedInv, [Next]_vars
    PROVE  CorrectedInv'
<1> USE DEF CorrectedInv
<1>1. TypeInv' /\ ServerTypeOK /\ HeadKept
  BY TypeNext DEF TypeInv, TypeOK
<1>2. ASSUME UNCHANGED serverVars
      PROVE  Corrected'
  <2>1. UNCHANGED <<saidHello, ready, clientPaused, srvPaused, tasks, spc, job, call, overlap>>
    BY <1>2 DEF serverVars
  <2>2. PausedIsRecomputed' <=> PausedIsRecomputed
    BY <2>1 DEF PausedIsRecomputed, MustPause
  <2>3. LastTask' <=> LastTask
    BY <2>1 DEF LastTask
  <2> QED
    BY <2>1, <2>2, <2>3 DEF Corrected
<1>3. ASSUME NEW t \in FrontEnds, QueueBegins(t) \/ StorePause(t) \/ AddBegins(t)
      PROVE  Corrected'
  <2>1. call'[t].at # "out"
    BY <1>1, <1>3 DEF QueueBegins, StorePause, AddBegins, ServerTypeOK
  <2> QED
    BY <2>1 DEF Corrected
<1>4. ASSUME NEW t \in FrontEnds, NEW kind \in TaskKinds, QueueEnds(t, kind)
      PROVE  Corrected'
  <2>1. CASE overlap'
    BY <2>1 DEF Corrected
  <2>2. CASE ~overlap'
    <3>1. tasks' = Append(tasks, Work(kind, Nobody)) /\ UNCHANGED <<spc, job>>
      BY <1>4, <2>2 DEF QueueEnds
    <3>2. tasks \in Seq(Tasks)
      BY <1>1 DEF ServerTypeOK
    <3>3. Len(tasks') = Len(tasks) + 1 /\ Len(tasks) \in Nat /\ tasks' # <<>>
      BY <3>1, <3>2
    <3>4. ~LastTask'
      BY <1>1, <3>1, <3>2, <3>3 DEF LastTask, HeadKept
    <3> QED
      BY <3>4 DEF Corrected
  <2> QED
    BY <2>1, <2>2
<1>5. CASE FrontEnd
  <2>1. CASE UIQueueEnds
    <3>1. uiTask \in TaskKinds
      BY <2>1, NetPlayAssumption
         DEF UIQueueEnds, QueueEnds, TypeInv, TypeOK, UIQueues, ServerTypeOK, TaskKinds
    <3>2. QueueEnds("ui", uiTask) /\ "ui" \in FrontEnds
      BY <2>1 DEF UIQueueEnds, FrontEnds
    <3> QED
      BY <1>1, <1>4, <3>1, <3>2
  <2>2. CASE MainLoopQueueEnds
    <3>1. QueueEnds("loop", "SYNC_ALL") /\ "loop" \in FrontEnds /\ "SYNC_ALL" \in TaskKinds
      BY <2>2 DEF MainLoopQueueEnds, FrontEnds, TaskKinds
    <3> QED
      BY <1>1, <1>4, <3>1
  <2>3. CASE FrontEndStores \/ FrontEndDiscarded \/ \E c \in Clients : Announce(c)
    <3>1. \E t \in FrontEnds : QueueBegins(t) \/ StorePause(t) \/ AddBegins(t)
      BY <2>3 DEF FrontEndStores, FrontEndDiscarded, Announce, FrontEnds
    <3> QED
      BY <1>1, <1>3, <3>1
  <2>4. CASE UIDiscard \/ MainLoopDiscard \/ \E c \in Clients : Unannounce(c)
    <3>1. UNCHANGED serverVars
      BY <2>4 DEF UIDiscard, MainLoopDiscard, Unannounce
    <3> QED
      BY <1>1, <1>2, <3>1
  <2> QED
    BY <1>1, <1>5, <2>1, <2>2, <2>3, <2>4 DEF FrontEnd
<1>6. CASE Users
  BY <1>1, <1>2, <1>3, <1>6 DEF Users, UIQueueBegins, NewConnection, LeaveSession,
                                PauseGame, ResumeGame, FrontEnds
<1>7. CASE (\E c \in Clients : EmulationStep(c) \/ ClientStep(c)) \/ UNCHANGED vars
  BY <1>1, <1>2, <1>7 DEF EmulationStep, ClientStep, vars
<1> QED
  BY <1>1, <1>5, <1>6, <1>7, CorrectedServer DEF Next

\* Whatever two threads have stored in NPServer.Paused (server.cpp,
\* S9xNPRecomputePause), it is what the clients' flags amount to again when no task
\* is queued and no front-end thread is queueing one: a call that left an old value
\* there also queues a task, and the server thread computes Paused again for it.
THEOREM PauseIsCorrectedInv == Spec => []PauseIsCorrected
<1>1. Init => CorrectedInv
  <2> SUFFICES ASSUME Init PROVE CorrectedInv
    OBVIOUS
  <2>1. PausedIsRecomputed
    BY DEF Init, ServerInit, PausedIsRecomputed, MustPause
  <2> QED
    BY <2>1, TypeInit DEF CorrectedInv, Corrected
<1>2. CorrectedInv /\ [Next]_vars => CorrectedInv'
  BY CorrectedNext
<1>3. CorrectedInv => PauseIsCorrected
  BY DEF CorrectedInv, Corrected, PauseIsCorrected, Correcting, LastTask, PausedIsRecomputed
<1> QED
  BY <1>1, <1>2, <1>3, PTL DEF Spec

-----------------------------------------------------------------------------
(***************************************************************************)
(* A session in which no thread but the server's queues tasks: its user    *)
(* asks for no resync, and the front-end does not either, which is the one *)
(* of win32/, or the host is alone.                                        *)
(***************************************************************************)
Calm == Resyncs = {} /\ (Qt => Remotes = {})

\* Then Paused is always right, and the task that is carried out is always where the
\* server thread left it.
Alone ==
    /\ uiTask = "none"
    /\ \A t \in FrontEnds : call[t].at = "out"
    /\ \A c \in Clients : pc[c] # "drain"
    /\ PausedIsRecomputed
    /\ JobAtHead

LEMMA AloneServer ==
    ASSUME TypeInv, Alone, ServerStep
    PROVE  PausedIsRecomputed' /\ JobAtHead' /\ \A t \in FrontEnds : call'[t].at = "out"
<1>1. PICK stopped, hostDone : ServerThread(stopped, hostDone, HostGame)
  BY DEF ServerStep
<1>2. ServerTypeOK /\ Table /\ JobAtHead
  BY DEF Alone, TypeInv, TypeOK
<1>3. \A t \in FrontEnds : call'[t].at = "out"
  BY <1>1, <1>2, CallsStay DEF Alone
<1>4. PausedIsRecomputed'
  BY <1>1, <1>2, PauseComputed DEF Alone
<1>5. JobAtHead'
  <2>1. CASE SendHeartBeat(stopped)
    BY <1>2, <2>1 DEF SendHeartBeat, JobAtHead
  <2>2. ASSUME NEW c \in Clients,
               \/ AcceptClient(c) \/ ProcessHello(c) \/ ProcessReadyAgain(c)
               \/ ProcessWaitingForRomImage(c) \/ ProcessPause(c) \/ ShutdownClient(c)
        PROVE  JobAtHead'
    <3>1. UNCHANGED <<tasks, spc, job>>
      BY <2>2 DEF AcceptClient, ProcessHello, ProcessReadyAgain, ProcessWaitingForRomImage,
                  ProcessPause, ShutdownClient
    <3> QED
      BY <1>2, <3>1 DEF JobAtHead
  <2>3. ASSUME NEW c \in Clients, ProcessReadyFirst(c) \/ ProcessReceivedRomImage(c)
        PROVE  JobAtHead'
    <3>1. spc = "clients" /\ ((spc' = "wait" /\ job' = Work("JOIN", c)) \/ UNCHANGED <<spc, job>>)
      BY <2>3 DEF ProcessReadyFirst, ProcessReceivedRomImage, Receive
    <3> QED
      BY <3>1 DEF JobAtHead, Work
  <2>4. CASE StartTask
    <3>1. Head(tasks) \in Tasks
      BY <1>2, <2>4 DEF StartTask, ServerTypeOK
    <3>2. job' = Head(tasks) /\ UNCHANGED tasks /\ tasks # <<>>
      BY <2>4 DEF StartTask
    <3> QED
      BY <3>1, <3>2 DEF JobAtHead, Tasks, TaskKinds
  <2>5. ASSUME spc' # "wait"
        PROVE  JobAtHead'
    BY <2>5 DEF JobAtHead
  <2>6. CASE \/ FinishJoin(hostDone) \/ FinishSyncClient(hostDone, HostGame)
             \/ FinishSyncAll(hostDone, HostGame) \/ FinishReset(hostDone)
             \/ FinishSendSram(hostDone)
    BY <2>5, <2>6 DEF FinishJoin, FinishSyncClient, FinishSyncAll, FinishReset,
                      FinishSendSram, TaskDone
  <2>7. CASE FinishSendRomImage(hostDone)
    <3>1. CASE syncByReset
      BY <2>5, <2>7, <3>1 DEF FinishSendRomImage
    <3>2. CASE ~syncByReset
      BY <1>2, <2>7, <3>2 DEF FinishSendRomImage, Waited, JobAtHead, Work
    <3> QED
      BY <3>1, <3>2
  <2> QED
    BY <1>1, <2>1, <2>2, <2>3, <2>4, <2>6, <2>7 DEF ServerThread
<1> QED
  BY <1>3, <1>4, <1>5

\* In a calm session no call of the front-end begins, so none runs.
LEMMA AloneFrontEnd ==
    ASSUME TypeInv, Calm, Alone, FrontEnd
    PROVE  \E c \in Clients : Unannounce(c)
<1>1. ASSUME NEW c \in Clients, Announce(c)
      PROVE  FALSE
  <2>1. c \in Remotes /\ Qt
    BY <1>1 DEF Announce, Remotes
  <2> QED
    BY <2>1 DEF Calm
<1>2. call["ui"].at = "out" /\ call["loop"].at = "out"
  BY DEF Alone, FrontEnds
<1>3. ~ (UIDiscard \/ UIQueueEnds \/ MainLoopDiscard \/ MainLoopQueueEnds)
  BY <1>2 DEF UIDiscard, UIQueueEnds, MainLoopDiscard, MainLoopQueueEnds, QueueEnds
<1>4. ~ (FrontEndStores \/ FrontEndDiscarded)
  BY DEF Alone, FrontEndStores, FrontEndDiscarded, StorePause, AddBegins
<1> QED
  BY <1>1, <1>3, <1>4 DEF FrontEnd

LEMMA AloneUsers ==
    ASSUME Calm, Users
    PROVE  \E c \in Clients :
              NewConnection(c) \/ LeaveSession(c) \/ PauseGame(c) \/ ResumeGame(c)
  BY DEF Calm, Users, UIQueueBegins

LEMMA AloneNext ==
    ASSUME TypeInv, Calm, Alone, [Next]_vars
    PROVE  Alone'
<1> USE DEF Alone
<1>1. pc \in [Clients -> {"top", "frame", "probe", "wait", "drain"}]
  BY DEF TypeInv, TypeOK, ClientTypeOK
<1>2. CASE UNCHANGED <<serverVars, uiTask>> /\ \A c \in Clients : pc'[c] # "drain"
  BY <1>2 DEF serverVars, PausedIsRecomputed, MustPause, JobAtHead
<1>3. CASE ServerStep
  BY <1>3, AloneServer DEF ServerStep, clientVars, hostVars
<1>4. ASSUME NEW c \in Clients, EmulationStep(c)
      PROVE  UNCHANGED <<serverVars, uiTask>> /\ \A d \in Clients : pc'[d] # "drain"
  BY <1>1, <1>4 DEF EmulationStep, EmulationThread, PushPending, PushReady, EndFrame,
                    TakeBack, SyncSpeedToken, SyncSpeedTimeout, hostVars
<1>5. ASSUME NEW c \in Clients, ClientStep(c)
      PROVE  UNCHANGED <<serverVars, uiTask>> /\ \A d \in Clients : pc'[d] # "drain"
  BY <1>1, <1>5 DEF ClientStep, ClientThread, RecvHello, RecvHeartbeat, SendPause, RecvSync,
                    ClientDiscard, ReplaceGame, ReplaceRom, ReplaceSram, hostVars
<1>6. ASSUME NEW c \in Clients, \/ NewConnection(c) \/ LeaveSession(c) \/ PauseGame(c)
                                \/ ResumeGame(c) \/ Unannounce(c)
      PROVE  UNCHANGED <<serverVars, uiTask, pc>>
  BY <1>6 DEF NewConnection, Connect, LeaveSession, Leave, PauseGame, ResumeGame,
              Unannounce, SetPaused, clientVars, hostVars
<1>7. CASE UNCHANGED vars
  BY <1>2, <1>7 DEF vars, clientVars, hostVars
<1> QED
  BY <1>2, <1>3, <1>4, <1>5, <1>6, <1>7, AloneFrontEnd, AloneUsers DEF Next

LEMMA AloneInit ==
    ASSUME Init
    PROVE  Alone
<1>1. PausedIsRecomputed
  BY DEF Init, ServerInit, PausedIsRecomputed, MustPause
<1> QED
  BY <1>1 DEF Init, ClientInit, ServerInit, Alone, JobAtHead, Out

-----------------------------------------------------------------------------
(***************************************************************************)
(* Flow control.  A machine is too far behind when its semaphore holds     *)
(* more than MaxBehind tokens; the emulation thread lends the semaphore    *)
(* one more between EndFrame and TakeBack.  A machine that is, and does    *)
(* not wait, is taken down in unnoticed.                                   *)
(***************************************************************************)
Empty(c) == ~InSession(c) => sem[c] = 0

Noticed(c) ==
    /\ Empty(c)
    /\ ~waiting[c] => sem[c] <= IF pc[c] = "probe" THEN MaxBehind + 1 ELSE MaxBehind

\* Tokens outlive the session, so a machine that returns may have some.
NoticedInv ==
    /\ TypeInv
    /\ \A c \in Clients : Unasked(c) => c \in unnoticed
    /\ \A c \in Clients \ MayLeave : Empty(c)

LEMMA NotUnnoticed ==
    ASSUME NoticedInv, NEW c \in Clients \ MayLeave, c \notin unnoticed
    PROVE  Noticed(c)
<1>1. /\ sem[c] \in 0 .. HistSize /\ waiting[c] \in BOOLEAN /\ MaxBehind \in Nat
      /\ HistSize \in Nat
  BY ClientAssumption DEF NoticedInv, TypeInv, TypeOK, ClientTypeOK
<1>2. Empty(c) /\ ~Unasked(c)
  BY DEF NoticedInv
<1> QED
  BY <1>1, <1>2 DEF Noticed, Empty, Unasked

\* Every step keeps the list, and adds to it.
LEMMA Noted ==
    ASSUME NoticedInv, [Next]_vars
    PROVE  /\ unnoticed \subseteq unnoticed'
           /\ \A c \in Clients : Unasked(c)' => c \in unnoticed'
<1>1. CASE Noting
  BY <1>1 DEF Noting
<1>2. CASE UNCHANGED vars
  BY <1>2 DEF vars, clientVars, NoticedInv, Unasked, InSession
<1>3. CASE FrontEnd
  BY <1>1, <1>3 DEF FrontEnd, UIDiscard, UIQueueEnds, MainLoopDiscard, MainLoopQueueEnds,
                    FrontEndStores, FrontEndDiscarded, Announce, Unannounce
<1>4. CASE Users
  BY <1>1, <1>4 DEF Users, UIQueueBegins, NewConnection, LeaveSession, PauseGame, ResumeGame
<1> QED
  BY <1>1, <1>2, <1>3, <1>4 DEF Next, ServerStep, EmulationStep, ClientStep

LEMMA EmptyEmulation ==
    ASSUME TypeInv, NEW c \in Clients, Empty(c), NEW d \in Clients, NEW quiet,
           EmulationThread(d, quiet)
    PROVE  Empty(c)'
<1>1. sem \in [Clients -> 0 .. HistSize]
  BY DEF TypeInv, TypeOK, ClientTypeOK
<1>2. cpc' = cpc /\ InSession(d) /\ \A e \in Clients \ {d} : sem'[e] = sem[e]
  BY <1>1 DEF EmulationThread, PushPending, PushReady, EndFrame, TakeBack, SyncSpeedToken,
              SyncSpeedTimeout, TakeToken
<1> QED
  BY <1>2 DEF Empty, InSession

LEMMA EmptyClient ==
    ASSUME TypeInv, NEW c \in Clients, Empty(c), NEW d \in Clients, ClientThread(d)
    PROVE  Empty(c)'
<1>1. /\ sem \in [Clients -> 0 .. HistSize]
      /\ cpc \in [Clients -> {"off", "hello", "loop", "pausing", "drain"}]
  BY DEF TypeInv, TypeOK, ClientTypeOK
<1>2. \A e \in Clients \ {d} : sem'[e] = sem[e] /\ cpc'[e] = cpc[e]
  BY <1>1 DEF ClientThread, RecvHello, RecvHeartbeat, SendPause, RecvSync, ClientDiscard,
              DiscardOne, ReplaceGame, ReplaceRom, ReplaceSram, DiscardDone
<1>3. sem'[d] = sem[d] \/ InSession(d)'
  BY <1>1 DEF ClientThread, RecvHello, RecvHeartbeat, SendPause, RecvSync, ClientDiscard,
              DiscardOne, ReplaceGame, ReplaceRom, ReplaceSram, DiscardDone, InSession
<1>4. InSession(d)' \/ ~InSession(d)
  BY <1>1 DEF ClientThread, RecvHello, RecvHeartbeat, SendPause, RecvSync, ClientDiscard,
              ReplaceGame, ReplaceRom, ReplaceSram, DiscardDone, InSession
<1> QED
  BY <1>2, <1>3, <1>4 DEF Empty, InSession

LEMMA EmptyOthers ==
    ASSUME TypeInv, NEW c \in Clients \ MayLeave, Empty(c),
           FrontEnd \/ Users \/ ServerStep \/ UNCHANGED vars
    PROVE  Empty(c)'
<1>1. /\ sem \in [Clients -> 0 .. HistSize] /\ Host \in Clients
      /\ cpc \in [Clients -> {"off", "hello", "loop", "pausing", "drain"}]
  BY WireAssumption DEF TypeInv, TypeOK, ClientTypeOK
<1>2. CASE UNCHANGED <<sem, cpc>>
  BY <1>2 DEF Empty, InSession
<1>3. CASE UIDiscard \/ MainLoopDiscard
  <2>1. sem[Host] > 0 /\ sem' = [sem EXCEPT ![Host] = @ - 1] /\ cpc' = cpc
    BY <1>3 DEF UIDiscard, MainLoopDiscard, DiscardOne
  <2> QED
    BY <1>1, <2>1 DEF Empty, InSession
<1>4. CASE FrontEnd
  BY <1>2, <1>3, <1>4 DEF FrontEnd, UIQueueEnds, MainLoopQueueEnds, FrontEndStores,
                          FrontEndDiscarded, ClearWaiting, Announce, Unannounce, clientVars
<1>5. CASE Users
  <2>1. CASE \E d \in Clients : NewConnection(d)
    BY <1>1, <2>1 DEF NewConnection, Connect, Empty, InSession
  <2>2. CASE \E d \in Clients : LeaveSession(d)
    BY <1>1, <2>2 DEF LeaveSession, Leave, Empty, InSession
  <2> QED
    BY <1>2, <1>5, <2>1, <2>2 DEF Users, UIQueueBegins, PauseGame, ResumeGame, SetPaused,
                                  clientVars
<1> QED
  BY <1>2, <1>4, <1>5 DEF ServerStep, vars, clientVars

LEMMA NoticedNext ==
    ASSUME NoticedInv, [Next]_vars
    PROVE  NoticedInv'
<1>1. TypeInv /\ TypeInv'
  BY TypeNext DEF NoticedInv
<1>2. ASSUME NEW c \in Clients \ MayLeave
      PROVE  Empty(c)'
  BY <1>1, EmptyEmulation, EmptyClient, EmptyOthers
     DEF NoticedInv, Next, EmulationStep, ClientStep
<1> QED
  BY <1>1, <1>2, Noted DEF NoticedInv

LEMMA NoticedInit ==
    ASSUME Init
    PROVE  NoticedInv
  BY TypeInit, ClientAssumption DEF Init, ClientInit, NoticedInv, Empty, Unasked, InSession

-----------------------------------------------------------------------------
(***************************************************************************)
(* Lock step.  A session whose users do not ask for resyncs, and do not    *)
(* pause unless the host plays alone, on a network fast enough for the     *)
(* ring: machines still join, fall behind, leave and return.               *)
(*                                                                         *)
(* The argument is about the host, whose game the others are sent.  While  *)
(* nothing resets the session, every heartbeat the server has sent is one  *)
(* the host has counted, one in its semaphore, or one on the way to it     *)
(* (HostFlow); none is lost, because the semaphore cannot fill up: a host  *)
(* that is too far behind knows it (Noticed), one that knows it has asked  *)
(* for a pause (Asked), and a pause under way stops the server in time.    *)
(* When the server's wait is over, the last two are empty, so the game it  *)
(* saves is the one of its own FrameCount.                                 *)
(***************************************************************************)
Undisturbed ==
    /\ Calm /\ (MayPause = {} \/ Remotes = {})
    /\ Timely /\ MaxBehind + Lag + 1 < HistSize

\* The messages that replace the game in this session.
Replacing == {"RESET", "FREEZE_FILE"}

\* Only joining clients give the server tasks, and the host is not one.
JoinKinds == IF syncByReset THEN {"SEND_SRAM", "RESET_ALL"} ELSE {"SYNC_CLIENT"}
IsJoinTask(task) == task.kind \in JoinKinds /\ (task.kind # "RESET_ALL" => task.c # Host)
JoinsOnly ==
    /\ uiTask = "none"
    /\ \A c \in Clients : pc[c] # "drain"
    /\ \A i \in 1 .. Len(tasks) : IsJoinTask(tasks[i])
    /\ spc = "wait" => IsJoinTask(job) \/ (job.kind = "JOIN" /\ job.c # Host)
    /\ IF Remotes = {} THEN tasks = <<>> /\ spc # "wait"
       ELSE \A c \in Clients : ~userPaused[c]
    /\ ~syncByReset => epoch = 0

\* Until the host has said hello, nobody else is there.
HostJoins ==
    \/ cpc[Host] = "off" /\ toServer[Host] = <<>>
    \/ cpc[Host] = "hello" /\ toServer[Host] = <<"HELLO">> /\ toClient[Host] = <<>>
    \/ /\ cpc[Host] = "hello" /\ Host \in connected
       /\ toServer[Host] = <<>> /\ toClient[Host] = <<Hello(0, FALSE)>>
    \/ /\ cpc[Host] = "loop" /\ Host \in connected
       /\ toServer[Host] = <<"READY">> /\ toClient[Host] = <<>>
HostFirst ==
    Host \notin saidHello =>
        /\ connected \subseteq {Host} /\ ~waiting[Host]
        /\ \A c \in Remotes : cpc[c] = "off" /\ toServer[c] = <<>>
        /\ tasks = <<>> /\ spc = "clients" /\ epoch = 0 /\ srvFrame = 0
        /\ HostJoins

\* The host never leaves, and is sent no game but by a reset for a machine that
\* joins.
Resetting == syncByReset /\ Remotes # {}
FromHost == {"PAUSE", "RESUME"} \cup (IF Resetting THEN {"READY"} ELSE {})
ForHost  == {"JOYPAD"} \cup (IF Resetting THEN {"RESET"} ELSE {})
HostStays ==
    /\ Host \in saidHello =>
          /\ InSession(Host)
          /\ \A i \in 1 .. Len(toServer[Host]) : toServer[Host][i] \in FromHost
    /\ InSession(Host) =>
          /\ game[Host].kind = "session"
          /\ \A i \in 1 .. Len(toClient[Host]) : toClient[Host][i].type \in ForHost
    /\ cpc[Host] = "drain" => Resetting

\* The pause a machine waits for is asked for, or the server has it.
Asked(c) ==
    \/ cpc[c] = "pausing"
    \/ IF toServer[c] = <<>> THEN c \in clientPaused
       ELSE toServer[c][Len(toServer[c])] = "PAUSE"

\* A machine's tokens, without the one it lends itself in the probe.
Tokens(c) == IF pc[c] = "probe" THEN sem[c] - 1 ELSE sem[c]
HostFlow ==
    ~syncByReset /\ InSession(Host) =>
        /\ pc[Host] = "probe" => sem[Host] > 0
        /\ frameCount[Host] + Tokens(Host) + Len(toClient[Host]) = srvFrame
        /\ Len(toClient[Host]) <= Lag
        /\ Tokens(Host) + Len(toClient[Host]) <= MaxBehind + Lag + 1
        /\ waiting[Host] => Asked(Host)

\* A game under way is one of the session at the frame it is sent with, and
\* the last one under way is the latest.
GameSent(c, s, i) ==
    /\ s[i].type = IF syncByReset THEN "RESET" ELSE "FREEZE_FILE"
    /\ syncByReset => c \in saidHello
    /\ s[i].game.kind = "session" /\ s[i].game.frame = s[i].frame
    /\ (\A j \in i + 1 .. Len(s) : s[j].type \notin Replacing) => s[i].game.epoch = epoch
GamesSent(c, s) == \A i \in 1 .. Len(s) : s[i].type \in Replacing => GameSent(c, s, i)

\* A machine's game is the session's at the frame the machine has counted.
Played(c) ==
    InSession(c) =>
        /\ game[c].kind = "session" \/ game[c] = Foreign
        /\ pending[c] => pc[c] = "top"
        /\ game[c].kind = "session" =>
              /\ game[c].frame = IF FrameAhead(c) THEN frameCount[c] - 1 ELSE frameCount[c]
              /\ ~InFlight(c, Replacing) => game[c].epoch = epoch
        /\ c \notin saidHello /\ c # Host /\ syncByReset => game[c] = Foreign

MachineInStep(c) ==
    /\ Played(c)
    /\ cpc[c] # "off" =>
          /\ GamesSent(c, toClient[c])
          /\ \A i \in 1 .. Len(toServer[c]) : toServer[c][i] # "EOF"

StepInv ==
    /\ JoinsOnly /\ HostFirst /\ HostStays /\ HostFlow
    /\ \A c \in Clients : MachineInStep(c)

LockStep == TypeInv /\ Undisturbed /\ Alone /\ Noticed(Host) /\ StepInv

\* What the invariant reads of one machine.
Machine(c) == <<toServer[c], toClient[c], cpc[c], pc[c], sem[c], pending[c], waiting[c],
                frameCount[c], game[c]>>

\* The types the steps below rest on.
LEMMA MachineTypes ==
    ASSUME TypeInv
    PROVE  /\ toServer \in [Clients -> Seq(ToServerMsgs)]
           /\ toClient \in [Clients -> Seq(ToClientMsgs)]
           /\ cpc \in [Clients -> {"off", "hello", "loop", "pausing", "drain"}]
           /\ pc \in [Clients -> {"top", "frame", "probe", "wait", "drain"}]
           /\ sem \in [Clients -> 0 .. HistSize] /\ frameCount \in [Clients -> Nat]
           /\ pending \in [Clients -> BOOLEAN] /\ waiting \in [Clients -> BOOLEAN]
           /\ game \in [Clients -> Games] /\ userPaused \in [Clients -> BOOLEAN]
           /\ srvFrame \in Nat /\ epoch \in Nat /\ Host \in Clients
  BY WireAssumption DEF TypeInv, TypeOK, WireTypeOK, ClientTypeOK, ServerTypeOK

\* A step of one machine leaves the others in step.
LEMMA MachineKept ==
    ASSUME LockStep, NEW c \in Clients, UNCHANGED <<Machine(c), epoch, syncByReset, saidHello>>
    PROVE  MachineInStep(c)'
<1>1. MachineInStep(c)
  BY DEF LockStep, StepInv
<1>2. Played(c)'
  BY <1>1 DEF MachineInStep, Played, Machine, InSession, FrameAhead, InFlight
<1>3. GamesSent(c, toClient[c])' <=> GamesSent(c, toClient[c])
  BY DEF GamesSent, GameSent, Machine
<1> QED
  BY <1>1, <1>2, <1>3 DEF MachineInStep, Machine

LEMMA HostKept ==
    ASSUME LockStep, UNCHANGED <<Machine(Host), serverVars>>
    PROVE  HostStays' /\ HostFlow'
<1>1. HostStays'
  BY DEF Resetting, LockStep, StepInv, HostStays, Machine, serverVars, InSession, FromHost,
         ForHost
<1>2. HostFlow'
  BY DEF LockStep, StepInv, HostFlow, Machine, serverVars, InSession, Tokens, Asked
<1> QED
  BY <1>1, <1>2

\* A step of a machine that leaves the server's variables alone.
LEMMA JoinsKept ==
    ASSUME LockStep, UNCHANGED <<serverVars, uiTask>>, UNCHANGED userPaused \/ Remotes = {},
           \A c \in Clients : pc'[c] # "drain"
    PROVE  JoinsOnly'
  BY DEF LockStep, StepInv, JoinsOnly, serverVars, IsJoinTask, JoinKinds

\* Reading a stream and sending on it.
LEMMA TailElements ==
    ASSUME NEW S, NEW s \in Seq(S), s # <<>>
    PROVE  /\ Len(s) \in Nat \ {0} /\ Head(s) = s[1] /\ 1 \in 1 .. Len(s)
           /\ Len(Tail(s)) = Len(s) - 1
           /\ \A i \in 1 .. Len(s) - 1 : Tail(s)[i] = s[i + 1] /\ i + 1 \in 1 .. Len(s)
  OBVIOUS

LEMMA AppendElements ==
    ASSUME NEW S, NEW s \in Seq(S), NEW x \in S
    PROVE  /\ Len(s) \in Nat /\ Len(Append(s, x)) = Len(s) + 1 /\ Append(s, x) # <<>>
           /\ Append(s, x)[Len(s) + 1] = x
           /\ \A i \in 1 .. Len(s) : Append(s, x)[i] = s[i] /\ i \in 1 .. Len(s) + 1
           /\ \A i \in 1 .. Len(s) + 1 : i = Len(s) + 1 \/ i \in 1 .. Len(s)
<1>1. Len(s) \in Nat /\ Len(Append(s, x)) = Len(s) + 1 /\ Append(s, x)[Len(s) + 1] = x
  OBVIOUS
<1>2. Append(s, x) # <<>>
  BY <1>1
<1>3. \A i \in 1 .. Len(s) : Append(s, x)[i] = s[i]
  OBVIOUS
<1> QED
  BY <1>1, <1>2, <1>3

\* What emulating machine d's frames does to the machines.
LEMMA EmulationLocal ==
    ASSUME TypeInv, NEW d \in Clients, NEW quiet, EmulationThread(d, quiet)
    PROVE  /\ UNCHANGED <<toClient, cpc, userPaused>>
           /\ InSession(d)
           /\ \A c \in Clients \ {d} : UNCHANGED Machine(c)
<1> USE MachineTypes DEF Machine
<1>1. CASE PushPending(d)
  BY <1>1 DEF PushPending, TakeToken, wireVars
<1>2. CASE PushReady(d)
  BY <1>2 DEF PushReady, wireVars
<1>3. CASE EndFrame(d)
  BY <1>3 DEF EndFrame, wireVars
<1>4. CASE TakeBack(d)
  BY <1>4 DEF TakeBack, SendToServer
<1>5. CASE SyncSpeedToken(d)
  BY <1>5 DEF SyncSpeedToken, TakeToken, wireVars
<1>6. CASE SyncSpeedTimeout(d, quiet)
  BY <1>6 DEF SyncSpeedTimeout, wireVars
<1> QED
  BY <1>1, <1>2, <1>3, <1>4, <1>5, <1>6 DEF EmulationThread

\* The only message emulation sends is the one that lifts the pause.
LEMMA EmulationSends ==
    ASSUME TypeInv, NEW d \in Clients, NEW quiet, EmulationThread(d, quiet)
    PROVE  \/ toServer'[d] = toServer[d] /\ waiting'[d] = waiting[d]
           \/ /\ waiting[d] /\ ~waiting'[d]
              /\ toServer'[d] = Append(toServer[d], "RESUME")
<1> USE MachineTypes
<1>1. CASE PushPending(d)
  BY <1>1 DEF PushPending, wireVars
<1>2. CASE PushReady(d)
  BY <1>2 DEF PushReady, wireVars
<1>3. CASE EndFrame(d)
  BY <1>3 DEF EndFrame, wireVars
<1>4. CASE TakeBack(d)
  BY <1>4 DEF TakeBack, SendToServer, CaughtUp
<1>5. CASE SyncSpeedToken(d)
  BY <1>5 DEF SyncSpeedToken, wireVars
<1>6. CASE SyncSpeedTimeout(d, quiet)
  BY <1>6 DEF SyncSpeedTimeout, wireVars
<1> QED
  BY <1>1, <1>2, <1>3, <1>4, <1>5, <1>6 DEF EmulationThread

\* A frame is played when its token has been counted.
LEMMA EmulationPlayed ==
    ASSUME LockStep, NEW d \in Clients, NEW quiet, EmulationThread(d, quiet),
           UNCHANGED serverVars
    PROVE  Played(d)' /\ (d = Host => game'[d].kind = game[d].kind) /\ pc'[d] # "drain"
<1>1. /\ Played(d) /\ pc[d] # "drain" /\ frameCount[d] \in Nat /\ InSession(d)
      /\ game[d] \in Games /\ pending[d] \in BOOLEAN /\ pc \in [Clients -> {"top", "frame", "probe", "wait", "drain"}]
      /\ game \in [Clients -> Games] /\ frameCount \in [Clients -> Nat]
      /\ pending \in [Clients -> BOOLEAN]
  BY MachineTypes, EmulationLocal DEF LockStep, StepInv, MachineInStep, JoinsOnly
<1>2. /\ InFlight(d, Replacing)' <=> InFlight(d, Replacing)
      /\ epoch' = epoch /\ saidHello' = saidHello /\ syncByReset' = syncByReset
      /\ InSession(d)'
  BY <1>1, EmulationLocal DEF LockStep, InFlight, serverVars, InSession
<1>3. /\ game[d].epoch \in Nat /\ game[d].frame \in Nat
      /\ game[d].kind \in {"session", "foreign", "torn"} /\ Foreign.kind = "foreign"
  BY <1>1 DEF Games, Foreign, Game
<1> USE DEF Played, FrameAhead
<1>4. CASE PushPending(d)
  BY <1>1, <1>2, <1>3, <1>4 DEF PushPending, TakeToken
<1>5. CASE PushReady(d)
  BY <1>1, <1>2, <1>3, <1>5 DEF PushReady
<1>6. CASE EndFrame(d)
  <2>1. /\ pc[d] = "frame" /\ pc'[d] \in {"probe", "wait"} /\ pending'[d] = pending[d]
        /\ frameCount'[d] = frameCount[d]
        /\ game'[d] = IF game[d].kind = "session"
                      THEN At(game[d].epoch, game[d].frame + 1) ELSE game[d]
    BY <1>1, <1>6 DEF EndFrame
  <2>2. CASE game[d].kind = "session"
    <3>1. /\ game'[d].kind = "session" /\ game'[d].epoch = game[d].epoch
          /\ game'[d].frame = game[d].frame + 1
      BY <2>1, <2>2 DEF At, Game
    <3> QED
      BY <1>1, <1>2, <1>3, <2>1, <2>2, <3>1
  <2>3. CASE game[d].kind # "session"
    BY <1>1, <1>2, <1>3, <2>1, <2>3
  <2> QED
    BY <2>2, <2>3
<1>7. CASE TakeBack(d)
  BY <1>1, <1>2, <1>3, <1>7 DEF TakeBack
<1>8. CASE SyncSpeedToken(d)
  BY <1>1, <1>2, <1>3, <1>8 DEF SyncSpeedToken, TakeToken
<1>9. CASE SyncSpeedTimeout(d, quiet)
  BY <1>1, <1>2, <1>3, <1>9 DEF SyncSpeedTimeout
<1> QED
  BY <1>4, <1>5, <1>6, <1>7, <1>8, <1>9 DEF EmulationThread

\* The host's emulation moves tokens into FrameCount, and borrows one.
LEMMA EmulationFlow ==
    ASSUME LockStep, NEW quiet, EmulationThread(Host, quiet), UNCHANGED serverVars
    PROVE  HostFlow'
<1> SUFFICES ASSUME ~syncByReset PROVE HostFlow'
  BY DEF HostFlow, serverVars
<1>1. /\ InSession(Host) /\ InSession(Host)' /\ toClient' = toClient /\ cpc' = cpc
      /\ srvFrame' = srvFrame /\ clientPaused' = clientPaused
      /\ MaxBehind \in Nat /\ Lag \in Nat /\ HistSize \in Nat
      /\ toServer[Host] \in Seq(ToServerMsgs) /\ Len(toClient[Host]) \in Nat
  BY MachineTypes, EmulationLocal, NetPlayAssumption, ClientAssumption
     DEF LockStep, serverVars, InSession
<1>2. /\ sem[Host] \in 0 .. HistSize /\ frameCount[Host] \in Nat /\ srvFrame \in Nat
      /\ sem \in [Clients -> 0 .. HistSize] /\ frameCount \in [Clients -> Nat]
      /\ pc \in [Clients -> {"top", "frame", "probe", "wait", "drain"}] /\ Host \in Clients
  BY MachineTypes DEF LockStep
<1>3. HostFlow
  BY DEF LockStep, StepInv
<1>4. /\ waiting'[Host] => waiting[Host]
      /\ waiting'[Host] /\ waiting[Host] => Asked(Host)'
  BY <1>1, <1>2, <1>3, EmulationSends DEF LockStep, HostFlow, Asked
<1>5. /\ pc'[Host] = "probe" => sem'[Host] > 0
      /\ frameCount'[Host] + Tokens(Host)' = frameCount[Host] + Tokens(Host)
      /\ Tokens(Host)' <= Tokens(Host) /\ Tokens(Host) \in Nat /\ Tokens(Host)' \in Nat
  <2> USE <1>1, <1>2, <1>3 DEF HostFlow, Tokens
  <2>0. ASSUME TakeToken(Host)
        PROVE  /\ sem[Host] > 0 /\ sem'[Host] = sem[Host] - 1
               /\ frameCount'[Host] = frameCount[Host] + 1
    BY <2>0 DEF TakeToken
  <2>1. CASE PushPending(Host)
    BY <2>1, <2>0, SMTT(20) DEF PushPending
  <2>2. CASE PushReady(Host)
    BY <2>2 DEF PushReady
  <2>3. CASE EndFrame(Host)
    BY <2>3 DEF EndFrame
  <2>4. CASE TakeBack(Host)
    BY <2>4 DEF TakeBack
  <2>5. CASE SyncSpeedToken(Host)
    BY <2>5, <2>0, SMTT(20) DEF SyncSpeedToken
  <2>6. CASE SyncSpeedTimeout(Host, quiet)
    BY <2>6 DEF SyncSpeedTimeout
  <2> QED
    BY <2>1, <2>2, <2>3, <2>4, <2>5, <2>6 DEF EmulationThread
<1> QED
  BY <1>1, <1>2, <1>3, <1>4, <1>5 DEF HostFlow

LEMMA EmulationInStep ==
    ASSUME LockStep, NEW d \in Clients, NEW quiet, EmulationThread(d, quiet),
           UNCHANGED <<serverVars, uiTask>>
    PROVE  StepInv'
<1>1. /\ UNCHANGED <<toClient, cpc, userPaused>> /\ InSession(d) /\ InSession(d)'
      /\ \A c \in Clients \ {d} : UNCHANGED Machine(c)
  BY EmulationLocal DEF LockStep, InSession
<1>2. JoinsOnly'
  <2>1. \A c \in Clients : pc[c] # "drain"
    BY DEF LockStep, StepInv, JoinsOnly
  <2>2. \A c \in Clients : pc'[c] # "drain"
    BY <1>1, <2>1, EmulationPlayed DEF Machine, serverVars
  <2> QED
    BY <1>1, <2>2, JoinsKept
<1>3. HostFirst'
  <2> SUFFICES ASSUME Host \notin saidHello PROVE HostFirst'
    BY DEF HostFirst, serverVars
  <2>1. HostFirst
    BY DEF LockStep, StepInv
  <2>2. d = Host /\ cpc[Host] = "loop" /\ ~waiting[Host]
    BY <1>1, <2>1 DEF HostFirst, HostJoins, InSession, Remotes
  <2>3. toServer'[Host] = toServer[Host] /\ ~waiting'[Host]
    BY <2>2, EmulationSends DEF LockStep
  <2>4. \A c \in Remotes : toServer'[c] = toServer[c] /\ cpc'[c] = cpc[c]
    BY <1>1, <2>2 DEF Machine, Remotes
  <2>5. HostJoins'
    BY <1>1, <2>1, <2>2, <2>3 DEF HostFirst, HostJoins, serverVars
  <2> QED
    BY <2>1, <2>3, <2>4, <2>5 DEF HostFirst, serverVars
<1>4. HostStays' /\ HostFlow'
  <2>1. CASE d # Host
    BY <1>1, <2>1, HostKept, WireAssumption DEF serverVars
  <2>2. CASE d = Host
    <3>1. HostFlow'
      BY <2>2, EmulationFlow
    <3>2. game'[Host].kind = game[Host].kind
      BY <2>2, EmulationPlayed
    <3>3. HostStays /\ toServer[Host] \in Seq(ToServerMsgs) /\ "RESUME" \in ToServerMsgs
      BY MachineTypes DEF LockStep, StepInv, ToServerMsgs
    <3>4. toServer'[Host] \in {toServer[Host], Append(toServer[Host], "RESUME")}
      BY <2>2, EmulationSends DEF LockStep
    <3>5. "RESUME" \in FromHost
      BY DEF FromHost
    <3>6. Host \in saidHello =>
            \A i \in 1 .. Len(toServer'[Host]) : toServer'[Host][i] \in FromHost
      BY <3>3, <3>4, <3>5, AppendElements DEF HostStays
    <3>7. HostStays'
      BY <1>1, <2>2, <3>2, <3>3, <3>6 DEF Resetting, HostStays, FromHost, ForHost, serverVars
    <3> QED
      BY <3>1, <3>7
  <2> QED
    BY <2>1, <2>2
<1>5. ASSUME NEW c \in Clients PROVE MachineInStep(c)'
  <2>1. CASE c # d
    BY <1>1, <2>1, MachineKept DEF serverVars
  <2>2. CASE c = d
    <3>1. Played(d)' /\ MachineInStep(d) /\ cpc[d] # "off"
      BY <1>1, EmulationPlayed DEF LockStep, StepInv, InSession
    <3>2. GamesSent(d, toClient[d])'
      BY <1>1, <3>1 DEF MachineInStep, GamesSent, GameSent, serverVars
    <3>3. toServer[d] \in Seq(ToServerMsgs) /\ "RESUME" \in ToServerMsgs
      BY MachineTypes DEF LockStep, ToServerMsgs
    <3>4. toServer'[d] \in {toServer[d], Append(toServer[d], "RESUME")}
      BY EmulationSends DEF LockStep
    <3>5. \A i \in 1 .. Len(toServer'[d]) : toServer'[d][i] # "EOF"
      BY <3>1, <3>3, <3>4, AppendElements, SMTT(20) DEF MachineInStep
    <3> QED
      BY <2>2, <3>1, <3>2, <3>5 DEF MachineInStep
  <2> QED
    BY <2>1, <2>2
<1> QED
  BY <1>2, <1>3, <1>4, <1>5 DEF StepInv

-----------------------------------------------------------------------------
(* The client thread. *)

\* Reading a stream leaves the games on it good.
LEMMA GamesRead ==
    ASSUME NEW c, NEW s \in Seq(ToClientMsgs), s # <<>>, GamesSent(c, s)
    PROVE  GamesSent(c, Tail(s))
<1> DEFINE n == Len(s)
<1>1. /\ n \in Nat \ {0} /\ Len(Tail(s)) = n - 1
      /\ \A i \in 1 .. n - 1 : Tail(s)[i] = s[i + 1] /\ i + 1 \in 1 .. n
  BY TailElements
<1> SUFFICES ASSUME NEW i \in 1 .. n - 1, Tail(s)[i].type \in Replacing
             PROVE  GameSent(c, Tail(s), i)
  BY <1>1 DEF GamesSent
<1>2. GameSent(c, s, i + 1) /\ Tail(s)[i] = s[i + 1]
  BY <1>1 DEF GamesSent
<1>3. ASSUME \A j \in i + 1 .. n - 1 : Tail(s)[j].type \notin Replacing
      PROVE  \A j \in i + 2 .. n : s[j].type \notin Replacing
  <2> SUFFICES ASSUME NEW j \in i + 2 .. n PROVE s[j].type \notin Replacing
    OBVIOUS
  <2>1. j - 1 \in i + 1 .. n - 1 /\ j - 1 \in 1 .. n - 1 /\ (j - 1) + 1 = j
    BY <1>1
  <2> QED
    BY <1>1, <1>3, <2>1
<1>4. i + 1 + 1 = i + 2
  OBVIOUS
<1> HIDE DEF n
<1> QED
  BY <1>1, <1>2, <1>3, <1>4 DEF GameSent, n

LEMMA InFlightRead ==
    ASSUME TypeInv, NEW c \in Clients, NEW types,
           toClient[c] # <<>>, toClient'[c] = Tail(toClient[c])
    PROVE  /\ InFlight(c, types)' => InFlight(c, types)
           /\ Head(toClient[c]).type \notin types =>
                (InFlight(c, types) => InFlight(c, types)')
<1>1. toClient[c] \in Seq(ToClientMsgs)
  BY MachineTypes
<1> DEFINE s == toClient[c]
<1>2. /\ Len(s) \in Nat \ {0} /\ Len(Tail(s)) = Len(s) - 1 /\ Head(s) = s[1]
      /\ \A i \in 1 .. Len(s) - 1 : Tail(s)[i] = s[i + 1] /\ i + 1 \in 1 .. Len(s)
  BY <1>1, TailElements
<1>3. \A i \in 1 .. Len(s) : i = 1 \/ (i - 1 \in 1 .. Len(s) - 1 /\ (i - 1) + 1 = i)
  BY <1>2
<1>4. \A i \in 1 .. Len(s) : i = 1 \/ (i - 1 \in 1 .. Len(s) - 1 /\ Tail(s)[i - 1] = s[i])
  BY <1>2, <1>3
<1> QED
  BY <1>2, <1>4 DEF InFlight

\* What the client thread of machine d does to the machines.
LEMMA ClientLocal ==
    ASSUME TypeInv, NEW d \in Clients, ClientThread(d)
    PROVE  /\ UNCHANGED userPaused /\ cpc[d] # "off" /\ pc'[d] \in {pc[d], "top"}
           /\ \A c \in Clients \ {d} : UNCHANGED Machine(c)
           /\ \/ toClient'[d] = toClient[d]
              \/ toClient[d] # <<>> /\ toClient'[d] = Tail(toClient[d])
           /\ \/ toServer'[d] = toServer[d]
              \/ \E msg \in {"READY", "PAUSE"} : toServer'[d] = Append(toServer[d], msg)
              \/ \E msg \in {"WAITING_FOR_ROM_IMAGE", "RECEIVED_ROM_IMAGE"} :
                    toServer'[d] = Append(toServer[d], msg)
              \/ cpc'[d] = "off"
<1> USE MachineTypes DEF Machine
<1>1. CASE RecvHello(d)
  BY <1>1 DEF RecvHello, SendToServer
<1>2. CASE RecvHeartbeat(d)
  BY <1>2 DEF RecvHeartbeat
<1>3. CASE SendPause(d)
  BY <1>3 DEF SendPause, SendToServer
<1>4. CASE RecvSync(d)
  BY <1>4 DEF RecvSync, wireVars
<1>5. CASE ClientDiscard(d)
  BY <1>5 DEF ClientDiscard, DiscardOne, wireVars
<1>6. CASE ReplaceGame(d)
  BY <1>6 DEF ReplaceGame, DiscardDone, SendToServer
<1>7. CASE ReplaceRom(d)
  BY <1>7 DEF ReplaceRom, DiscardDone, SendToServer
<1>8. CASE ReplaceSram(d)
  BY <1>8 DEF ReplaceSram, DiscardDone
<1> QED
  BY <1>1, <1>2, <1>3, <1>4, <1>5, <1>6, <1>7, <1>8 DEF ClientThread

\* The host has the session's first game before anything is played.
LEMMA HostBegins ==
    ASSUME LockStep, cpc[Host] = "hello"
    PROVE  /\ Host \notin saidHello /\ epoch = 0 /\ srvFrame = 0 /\ ~waiting[Host]
           /\ toClient[Host] # <<>> => toClient[Host] = <<Hello(0, FALSE)>>
  BY DEF LockStep, StepInv, HostStays, HostFirst, HostJoins, InSession

\* No machine is paused by its user when its game is saved or replaced.
LEMMA NotPaused ==
    ASSUME LockStep, NEW d \in Clients, spc = "wait" \/ cpc[d] = "drain"
    PROVE  ~userPaused[d] /\ Remotes # {}
<1>1. JoinsOnly /\ HostStays
  BY DEF LockStep, StepInv
<1>2. Remotes # {}
  BY <1>1 DEF JoinsOnly, HostStays, Resetting, Remotes
<1> QED
  BY <1>1, <1>2 DEF JoinsOnly

\* The game a message brings is the session's, at the message's frame.
LEMMA ReplacedGame ==
    ASSUME LockStep, NEW d \in Clients, ReplaceGame(d)
    PROVE  /\ game'[d].kind = "session" /\ game'[d].frame = frameCount'[d]
           /\ pc'[d] = pc[d] /\ pending'[d] = pending[d]
           /\ pc[d] \notin {"frame", "drain"}
           /\ pc[d] = "top" => pending[d]
           /\ ~InFlight(d, Replacing)' => game'[d].epoch = epoch
           /\ syncByReset => d \in saidHello
<1> DEFINE s == toClient[d]
<1>1. /\ s \in Seq(ToClientMsgs) /\ s # <<>> /\ game \in [Clients -> Games]
      /\ frameCount \in [Clients -> Nat]
  BY MachineTypes DEF LockStep, ReplaceGame, DiscardDone
<1>2. /\ Len(s) \in Nat \ {0} /\ Len(Tail(s)) = Len(s) - 1 /\ Head(s) = s[1]
      /\ 1 \in 1 .. Len(s)
      /\ \A i \in 1 .. Len(s) - 1 : Tail(s)[i] = s[i + 1] /\ i + 1 \in 1 .. Len(s)
  BY <1>1, TailElements
<1>3. /\ cpc[d] = "drain" /\ Idle(d) /\ pc[d] # "drain" /\ toClient'[d] = Tail(s)
      /\ Head(s).type \in Replacing
      /\ game'[d] = Head(s).game /\ frameCount'[d] = Head(s).frame
      /\ pc'[d] = pc[d] /\ pending'[d] = pending[d]
  BY <1>1, MachineTypes, NotPaused
     DEF LockStep, Undisturbed, StepInv, JoinsOnly, ReplaceGame, DiscardDone, Replacing
<1>4. GameSent(d, s, 1)
  BY <1>2, <1>3 DEF LockStep, StepInv, MachineInStep, GamesSent
<1>5. ASSUME ~InFlight(d, Replacing)'
      PROVE  \A j \in 1 + 1 .. Len(s) : s[j].type \notin Replacing
  <2> SUFFICES ASSUME NEW j \in 2 .. Len(s) PROVE s[j].type \notin Replacing
    OBVIOUS
  <2>1. j - 1 \in 1 .. Len(s) - 1 /\ (j - 1) + 1 = j
    BY <1>2
  <2>2. Tail(s)[j - 1] = s[j] /\ j - 1 \in 1 .. Len(Tail(s))
    BY <1>2, <2>1
  <2> QED
    BY <1>3, <1>5, <2>2 DEF InFlight
<1> HIDE DEF s
<1> QED
  BY <1>2, <1>3, <1>4, <1>5 DEF GameSent, Idle

LEMMA ClientPlayed ==
    ASSUME LockStep, NEW d \in Clients, ClientThread(d), UNCHANGED serverVars
    PROVE  Played(d)' /\ (d = Host /\ InSession(d)' => game'[d].kind = "session")
<1>1. /\ Played(d) /\ game \in [Clients -> Games] /\ frameCount \in [Clients -> Nat]
      /\ pending \in [Clients -> BOOLEAN]
      /\ pc \in [Clients -> {"top", "frame", "probe", "wait", "drain"}]
      /\ cpc \in [Clients -> {"off", "hello", "loop", "pausing", "drain"}]
      /\ epoch' = epoch /\ saidHello' = saidHello /\ syncByReset' = syncByReset
      /\ Foreign.kind = "foreign" /\ Foreign \in Games
  BY MachineTypes, GameTypes
     DEF LockStep, StepInv, MachineInStep, serverVars, Foreign, Game
<1>2. HostStays
  BY DEF LockStep, StepInv
<1>3. CASE RecvHello(d)
  <2>1. CASE cpc'[d] = "off"
    BY <2>1 DEF Played, InSession
  <2>2. CASE cpc'[d] # "off"
    <3> DEFINE f == Head(toClient[d]).frame
    <3>1. /\ frameCount'[d] = f /\ pending'[d] /\ pc'[d] = "top"
          /\ game'[d] = IF d = Host THEN At(0, f) ELSE Foreign
      BY <1>1, <1>3, <2>2 DEF RecvHello
    <3>2. CASE d = Host
      <4>1. epoch = 0
        BY <1>3, <3>2, HostBegins DEF RecvHello
      <4>2. game'[d].kind = "session" /\ game'[d].epoch = 0 /\ game'[d].frame = f
        BY <3>1, <3>2 DEF At, Game
      <4> QED
        BY <1>1, <3>1, <3>2, <4>1, <4>2 DEF Played, FrameAhead
    <3>3. CASE d # Host
      BY <1>1, <3>1, <3>3 DEF Played
    <3> QED
      BY <3>2, <3>3
  <2> QED
    BY <2>1, <2>2
<1>4. CASE RecvHeartbeat(d)
  <2>1. /\ InSession(d) /\ pc'[d] = pc[d] /\ pending'[d] = pending[d]
        /\ frameCount'[d] = frameCount[d] /\ game'[d] = game[d]
        /\ toClient[d] # <<>> /\ toClient'[d] = Tail(toClient[d])
        /\ Head(toClient[d]).type \notin Replacing
    BY <1>4, MachineTypes DEF RecvHeartbeat, InSession, Replacing, LockStep
  <2>2. InFlight(d, Replacing) => InFlight(d, Replacing)'
    BY <2>1, InFlightRead DEF LockStep
  <2> QED
    BY <1>1, <1>2, <2>1, <2>2 DEF Played, FrameAhead, HostStays
<1>5. CASE SendPause(d) \/ RecvSync(d) \/ ClientDiscard(d)
  <2>1. /\ InSession(d) /\ pc'[d] = pc[d] /\ pending'[d] = pending[d]
        /\ frameCount'[d] = frameCount[d] /\ game'[d] = game[d]
        /\ toClient'[d] = toClient[d]
    BY <1>5 DEF SendPause, RecvSync, ClientDiscard, InSession, wireVars
  <2> QED
    BY <1>1, <1>2, <2>1 DEF Played, FrameAhead, HostStays, InFlight
<1>6. CASE ReplaceGame(d)
  <2>1. /\ InSession(d) /\ (pending[d] => pc[d] = "top")
    BY <1>1, <1>6 DEF ReplaceGame, DiscardDone, InSession, Played
  <2> QED
    BY <1>1, <1>6, <2>1, ReplacedGame DEF Played, FrameAhead
<1>7. CASE ReplaceRom(d) \/ ReplaceSram(d)
  <2>1. /\ InSession(d) /\ pc'[d] = pc[d] /\ pending'[d] = pending[d]
        /\ game'[d] = Foreign /\ Head(toClient[d]).type \in {"ROM_IMAGE", "SRAM_DATA"}
        /\ toClient[d] # <<>>
    BY <1>1, <1>7 DEF ReplaceRom, ReplaceSram, DiscardDone, InSession
  <2>2. d # Host
    <3>1. toClient[d] \in Seq(ToClientMsgs)
      BY MachineTypes DEF LockStep
    <3>2. Head(toClient[d]) = toClient[d][1] /\ 1 \in 1 .. Len(toClient[d])
      BY <2>1, <3>1, TailElements
    <3> QED
      BY <1>2, <2>1, <3>2 DEF HostStays, ForHost
  <2> QED
    BY <1>1, <2>1, <2>2 DEF Played
<1> QED
  BY <1>3, <1>4, <1>5, <1>6, <1>7 DEF ClientThread

\* What is on the way to the host while nothing resets the session.
LEMMA HostReads ==
    ASSUME LockStep, InSession(Host), toClient[Host] # <<>>
    PROVE  \/ Head(toClient[Host]).type = "JOYPAD"
           \/ Resetting /\ Head(toClient[Host]).type = "RESET"
<1>1. toClient[Host] \in Seq(ToClientMsgs) /\ HostStays
  BY MachineTypes DEF LockStep, StepInv
<1>2. Head(toClient[Host]) = toClient[Host][1] /\ 1 \in 1 .. Len(toClient[Host])
  BY <1>1, TailElements
<1> QED
  BY <1>1, <1>2 DEF Resetting, HostStays, ForHost

\* The host's client thread moves heartbeats from the stream into the
\* semaphore, which has room for them.
LEMMA ClientFlow ==
    ASSUME LockStep, ClientThread(Host), UNCHANGED serverVars
    PROVE  HostFlow'
<1> SUFFICES ASSUME ~syncByReset, InSession(Host)' PROVE HostFlow'
  BY DEF HostFlow, serverVars
<1>1. /\ MaxBehind \in Nat /\ Lag \in Nat /\ HistSize \in Nat /\ srvFrame \in Nat
      /\ sem[Host] \in 0 .. HistSize /\ frameCount[Host] \in Nat
      /\ toServer[Host] \in Seq(ToServerMsgs) /\ toClient[Host] \in Seq(ToClientMsgs)
      /\ MaxBehind + Lag + 1 < HistSize /\ Host \in Clients
  BY MachineTypes, NetPlayAssumption, ClientAssumption DEF LockStep, Undisturbed
<1>2. /\ sem \in [Clients -> 0 .. HistSize] /\ frameCount \in [Clients -> Nat]
      /\ pc \in [Clients -> {"top", "frame", "probe", "wait", "drain"}]
      /\ cpc \in [Clients -> {"off", "hello", "loop", "pausing", "drain"}]
      /\ waiting \in [Clients -> BOOLEAN]
      /\ toServer \in [Clients -> Seq(ToServerMsgs)]
      /\ toClient \in [Clients -> Seq(ToClientMsgs)]
  BY MachineTypes DEF LockStep
<1>3. HostFlow /\ HostStays /\ cpc[Host] # "drain"
  BY DEF Resetting, LockStep, StepInv, HostStays
<1>4. srvFrame' = srvFrame /\ clientPaused' = clientPaused
  BY DEF serverVars
<1>5. CASE RecvHello(Host)
  <2>1. /\ cpc[Host] = "hello" /\ toClient[Host] # <<>> /\ cpc'[Host] # "off"
    BY <1>5 DEF RecvHello, InSession
  <2>2. toClient[Host] = <<Hello(0, FALSE)>> /\ ~waiting[Host] /\ srvFrame = 0
    BY <2>1, HostBegins
  <2>3. Head(toClient[Host]).frame = 0 /\ Tail(toClient[Host]) = <<>>
    BY <2>2 DEF Hello, ToClientMsg
  <2>4. /\ pc'[Host] = "top" /\ sem'[Host] = sem[Host] /\ ~waiting'[Host]
        /\ frameCount'[Host] = 0 /\ toClient'[Host] = <<>>
    BY <1>2, <1>5, <2>1, <2>2, <2>3, <1>1 DEF RecvHello
  <2>5. sem[Host] = 0
    BY <2>1 DEF LockStep, Noticed, Empty, InSession
  <2> QED
    BY <1>1, <1>4, <2>2, <2>4, <2>5 DEF HostFlow, Tokens
<1>6. CASE RecvHeartbeat(Host)
  <2>1. /\ cpc[Host] = "loop" /\ toClient[Host] # <<>>
        /\ pc' = pc /\ frameCount' = frameCount /\ toServer' = toServer
        /\ toClient'[Host] = Tail(toClient[Host])
    BY <1>1, <1>2, <1>6 DEF RecvHeartbeat
  <2>2. /\ Len(toClient[Host]) \in Nat \ {0}
        /\ Len(toClient'[Host]) = Len(toClient[Host]) - 1
    BY <1>1, <2>1, TailElements
  <2>3. InSession(Host)
    BY <2>1 DEF InSession
  <2>4. sem[Host] # HistSize
    BY <1>1, <1>3, <2>1, <2>2, <2>3 DEF HostFlow, Tokens
  <2>5. /\ sem'[Host] = sem[Host] + 1
        /\ waiting'[Host] => (waiting[Host] /\ cpc'[Host] = cpc[Host]) \/ cpc'[Host] = "pausing"
    BY <1>1, <1>2, <1>6, <2>4 DEF RecvHeartbeat
  <2>6. waiting'[Host] => Asked(Host)'
    BY <1>3, <1>4, <2>1, <2>3, <2>5 DEF HostFlow, Asked
  <2>7. /\ Tokens(Host) \in Nat /\ Tokens(Host)' = Tokens(Host) + 1 /\ sem'[Host] > 0
        /\ pc'[Host] = pc[Host] /\ frameCount'[Host] = frameCount[Host]
    BY <1>1, <1>3, <2>1, <2>3, <2>5 DEF HostFlow, Tokens
  <2>8. /\ frameCount[Host] + Tokens(Host) + Len(toClient[Host]) = srvFrame
        /\ Len(toClient[Host]) <= Lag
        /\ Tokens(Host) + Len(toClient[Host]) <= MaxBehind + Lag + 1
    BY <1>3, <2>3 DEF HostFlow
  <2>9. /\ frameCount'[Host] + Tokens(Host)' + Len(toClient'[Host]) = srvFrame'
        /\ Len(toClient'[Host]) <= Lag
        /\ Tokens(Host)' + Len(toClient'[Host]) <= MaxBehind + Lag + 1
    <3>1. /\ MaxBehind \in Nat /\ Lag \in Nat /\ srvFrame \in Nat
          /\ frameCount[Host] \in Nat
      BY <1>1
    <3> DEFINE n == Len(toClient[Host])
    <3>2. n \in Nat \ {0} /\ Len(toClient'[Host]) = n - 1
      BY <2>2
    <3> DEFINE t == Tokens(Host)
    <3>3. /\ frameCount[Host] + t + n = srvFrame /\ n <= Lag
          /\ t + n <= MaxBehind + Lag + 1 /\ t \in Nat
      BY <2>7, <2>8
    <3> HIDE DEF n, t
    <3>4. /\ frameCount[Host] + (t + 1) + (n - 1) = srvFrame /\ n - 1 <= Lag
          /\ (t + 1) + (n - 1) <= MaxBehind + Lag + 1
      BY <3>1, <3>2, <3>3
    <3> QED
      BY <1>4, <2>7, <3>2, <3>4 DEF t
  <2> QED
    BY <2>6, <2>7, <2>9 DEF HostFlow
<1>7. CASE SendPause(Host)
  <2>1. toServer'[Host] = Append(toServer[Host], "PAUSE") /\ "PAUSE" \in ToServerMsgs
    BY <1>1, <1>2, <1>7 DEF SendPause, SendToServer, ToServerMsgs
  <2>2. Asked(Host)'
    BY <1>1, <2>1, AppendElements DEF Asked
  <2>3. /\ InSession(Host) /\ pc' = pc /\ sem' = sem /\ frameCount' = frameCount
        /\ toClient' = toClient
    BY <1>7 DEF SendPause, InSession
  <2> QED
    BY <1>3, <1>4, <2>2, <2>3 DEF HostFlow, Tokens
<1>8. CASE RecvSync(Host)
  BY <1>8, HostReads DEF RecvSync, InSession, SyncTypes, Resetting
<1> QED
  BY <1>3, <1>5, <1>6, <1>7, <1>8
     DEF ClientThread, ClientDiscard, ReplaceGame, ReplaceRom, ReplaceSram, DiscardDone

LEMMA ClientStays ==
    ASSUME LockStep, ClientThread(Host), UNCHANGED serverVars
    PROVE  HostStays'
<1>1. /\ HostStays /\ toServer \in [Clients -> Seq(ToServerMsgs)] /\ Host \in Clients
      /\ toClient \in [Clients -> Seq(ToClientMsgs)]
      /\ cpc \in [Clients -> {"off", "hello", "loop", "pausing", "drain"}]
      /\ {"READY", "PAUSE"} \subseteq ToServerMsgs
      /\ saidHello' = saidHello /\ syncByReset' = syncByReset
  BY MachineTypes DEF LockStep, StepInv, serverVars, ToServerMsgs
<1>2. InSession(Host)' => game'[Host].kind = "session"
  BY <1>1, ClientPlayed
<1>3. CASE RecvHello(Host)
  <2>1. Host \notin saidHello /\ toClient[Host] = <<Hello(0, FALSE)>> /\ cpc'[Host] # "drain"
    BY <1>1, <1>3, HostBegins DEF RecvHello
  <2>2. toClient'[Host] = <<>>
    BY <1>1, <1>3, <2>1 DEF RecvHello
  <2> QED
    BY <1>1, <1>2, <2>1, <2>2 DEF HostStays, InSession
<1>4. ASSUME InSession(Host), InSession(Host)',
             \/ toClient'[Host] = toClient[Host]
             \/ toClient[Host] # <<>> /\ toClient'[Host] = Tail(toClient[Host])
      PROVE  \A i \in 1 .. Len(toClient'[Host]) : toClient'[Host][i].type \in ForHost'
  <2>1. \A i \in 1 .. Len(toClient[Host]) : toClient[Host][i].type \in ForHost
    BY <1>1, <1>4 DEF HostStays
  <2>2. ForHost' = ForHost
    BY <1>1 DEF Resetting, ForHost
  <2> QED
    <3>1. CASE toClient'[Host] = toClient[Host]
      BY <2>1, <2>2, <3>1
    <3>2. CASE toClient[Host] # <<>> /\ toClient'[Host] = Tail(toClient[Host])
      <4>1. toClient[Host] \in Seq(ToClientMsgs)
        BY <1>1
      <4>2. \A i \in 1 .. Len(Tail(toClient[Host])) : Tail(toClient[Host])[i].type \in ForHost
        BY <2>1, <3>2, <4>1, TailElements
      <4> QED
        BY <2>2, <3>2, <4>2
    <3> QED
      BY <1>4, <3>1, <3>2
<1>5. ASSUME InSession(Host), NEW msg \in {"READY", "PAUSE"}, msg \in FromHost,
             toServer'[Host] = toServer[Host] \/ toServer'[Host] = Append(toServer[Host], msg)
      PROVE  Host \in saidHello =>
               \A i \in 1 .. Len(toServer'[Host]) : toServer'[Host][i] \in FromHost'
  <2> SUFFICES ASSUME Host \in saidHello
               PROVE  \A i \in 1 .. Len(toServer'[Host]) : toServer'[Host][i] \in FromHost'
    OBVIOUS
  <2>1. FromHost' = FromHost
    BY <1>1 DEF Resetting, FromHost
  <2>2. \A i \in 1 .. Len(toServer[Host]) : toServer[Host][i] \in FromHost
    BY <1>1 DEF HostStays
  <2>3. toServer[Host] \in Seq(ToServerMsgs) /\ msg \in ToServerMsgs
    BY <1>1
  <2>4. \A i \in 1 .. Len(Append(toServer[Host], msg)) :
           Append(toServer[Host], msg)[i] \in FromHost
    BY <1>5, <2>2, <2>3, AppendElements
  <2> QED
    BY <1>5, <2>1, <2>2, <2>4
<1>6. CASE RecvHeartbeat(Host) \/ SendPause(Host) \/ ClientDiscard(Host)
  <2>1. /\ InSession(Host) /\ InSession(Host)' /\ "PAUSE" \in FromHost
        /\ cpc'[Host] = "drain" => cpc[Host] = "drain"
        /\ \/ toServer'[Host] = toServer[Host]
           \/ toServer'[Host] = Append(toServer[Host], "PAUSE")
        /\ \/ toClient'[Host] = toClient[Host]
           \/ toClient[Host] # <<>> /\ toClient'[Host] = Tail(toClient[Host])
    <3>1. "PAUSE" \in FromHost
      BY DEF FromHost
    <3>2. CASE RecvHeartbeat(Host)
      BY <1>1, <3>1, <3>2 DEF RecvHeartbeat, InSession
    <3>3. CASE SendPause(Host)
      BY <1>1, <3>1, <3>3 DEF SendPause, SendToServer, InSession
    <3>4. CASE ClientDiscard(Host)
      <4>1. cpc' = cpc /\ toServer' = toServer /\ toClient' = toClient /\ cpc[Host] = "drain"
        BY <3>4 DEF ClientDiscard, wireVars
      <4> QED
        BY <3>1, <4>1 DEF InSession
    <3> QED
      BY <1>6, <3>2, <3>3, <3>4
  <2> QED
    BY <1>1, <1>2, <1>4, <1>5, <2>1 DEF Resetting, HostStays
<1>7. CASE RecvSync(Host)
  <2>1. /\ InSession(Host) /\ InSession(Host)' /\ toServer' = toServer /\ toClient' = toClient
        /\ toClient[Host] # <<>> /\ Head(toClient[Host]).type \in SyncTypes
        /\ "PAUSE" \in FromHost
    BY <1>1, <1>7 DEF RecvSync, wireVars, InSession, FromHost
  <2>2. Resetting
    BY <2>1, HostReads DEF SyncTypes
  <2>3. /\ \A i \in 1 .. Len(toClient'[Host]) : toClient'[Host][i].type \in ForHost'
        /\ Host \in saidHello =>
             \A i \in 1 .. Len(toServer'[Host]) : toServer'[Host][i] \in FromHost'
    <3>1. toServer'[Host] = toServer[Host] \/ toServer'[Host] = Append(toServer[Host], "PAUSE")
      BY <2>1
    <3> QED
      BY <1>4, <1>5, <2>1, <3>1
  <2> QED
    BY <1>1, <1>2, <2>1, <2>2, <2>3 DEF Resetting, HostStays
<1>8. CASE ReplaceGame(Host)
  <2>1. Resetting
    BY <1>1, <1>8 DEF ReplaceGame, DiscardDone, HostStays
  <2>2. /\ InSession(Host) /\ InSession(Host)' /\ "READY" \in FromHost
        /\ toServer'[Host] = Append(toServer[Host], "READY")
        /\ toClient[Host] # <<>> /\ toClient'[Host] = Tail(toClient[Host])
    BY <1>1, <1>8, <2>1 DEF ReplaceGame, DiscardDone, SendToServer, InSession, FromHost
  <2> QED
    BY <1>1, <1>2, <1>4, <1>5, <2>1, <2>2 DEF Resetting, HostStays
<1>9. CASE ReplaceRom(Host) \/ ReplaceSram(Host)
  BY <1>9, HostReads DEF ReplaceRom, ReplaceSram, DiscardDone, InSession
<1> QED
  BY <1>3, <1>6, <1>7, <1>8, <1>9 DEF ClientThread

LEMMA ClientInStep ==
    ASSUME LockStep, NEW d \in Clients, ClientThread(d), UNCHANGED <<serverVars, uiTask>>
    PROVE  StepInv'
<1>1. /\ UNCHANGED userPaused /\ cpc[d] # "off" /\ pc'[d] \in {pc[d], "top"}
      /\ \A c \in Clients \ {d} : UNCHANGED Machine(c)
  BY ClientLocal DEF LockStep
<1>2. JoinsOnly'
  <2>1. \A c \in Clients : pc[c] # "drain"
    BY DEF LockStep, StepInv, JoinsOnly
  <2>2. \A c \in Clients : pc'[c] # "drain"
    BY <1>1, <2>1 DEF Machine
  <2> QED
    BY <1>1, <2>2, JoinsKept
<1>3. HostFirst'
  <2> SUFFICES ASSUME Host \notin saidHello PROVE HostFirst'
    BY DEF HostFirst, serverVars
  <2>1. HostFirst
    BY DEF LockStep, StepInv
  <2>2. d = Host
    BY <1>1, <2>1 DEF HostFirst, Remotes
  <2>3. cpc[Host] \in {"hello", "loop"} /\ (cpc[Host] = "loop" => toClient[Host] = <<>>)
    BY <1>1, <2>1, <2>2 DEF HostFirst, HostJoins
  <2>4. RecvHello(Host)
    BY <2>2, <2>3 DEF ClientThread, RecvHeartbeat, SendPause, RecvSync, ClientDiscard,
                      ReplaceGame, ReplaceRom, ReplaceSram, DiscardDone
  <2>5. toClient[Host] = <<Hello(0, FALSE)>> /\ cpc[Host] = "hello"
    BY <2>4, HostBegins DEF RecvHello
  <2>6. Host \in connected /\ toServer[Host] = <<>>
    BY <2>1, <2>5 DEF HostFirst, HostJoins
  <2>7. Hello(0, FALSE).type = "HELLO" /\ "HELLO" \in HelloTypes
    BY DEF Hello, ToClientMsg, HelloTypes
  <2>8. /\ cpc'[Host] = "loop" /\ toServer'[Host] = <<"READY">> /\ toClient'[Host] = <<>>
        /\ ~waiting'[Host]
    <3>1. /\ Head(toClient[Host]) = Hello(0, FALSE) /\ Tail(toClient[Host]) = <<>>
          /\ Append(toServer[Host], "READY") = <<"READY">>
      BY <2>5, <2>6
    <3>2. /\ cpc' = [cpc EXCEPT ![Host] = "loop"] /\ SendToServer(Host, "READY")
          /\ toClient' = [toClient EXCEPT ![Host] = Tail(@)] /\ waiting' = waiting
      BY <2>4, <2>7, <3>1 DEF RecvHello
    <3>3. ~waiting[Host]
      BY <2>1 DEF HostFirst
    <3> QED
      BY <3>1, <3>2, <3>3, MachineTypes DEF LockStep, SendToServer
  <2>9. \A c \in Remotes : toServer'[c] = toServer[c] /\ cpc'[c] = cpc[c]
    BY <1>1, <2>2 DEF Machine, Remotes
  <2> QED
    BY <2>1, <2>6, <2>8, <2>9 DEF HostFirst, HostJoins, serverVars
<1>4. HostStays' /\ HostFlow'
  <2>1. CASE d # Host
    BY <1>1, <2>1, HostKept, WireAssumption
  <2> QED
    BY <2>1, ClientStays, ClientFlow
<1>5. ASSUME NEW c \in Clients PROVE MachineInStep(c)'
  <2>1. CASE c # d
    BY <1>1, <2>1, MachineKept DEF serverVars
  <2>2. CASE c = d
    <3>1. Played(d)' /\ MachineInStep(d)
      BY ClientPlayed DEF LockStep, StepInv
    <3>2. GamesSent(d, toClient'[d])
      BY <1>1, <3>1, ClientLocal, GamesRead, MachineTypes DEF LockStep, MachineInStep
    <3>3. GamesSent(d, toClient[d])'
      BY <3>2 DEF GamesSent, GameSent, serverVars
    <3>4. ASSUME cpc'[d] # "off"
          PROVE  \A i \in 1 .. Len(toServer'[d]) : toServer'[d][i] # "EOF"
      <4>1. toServer[d] \in Seq(ToServerMsgs)
        BY MachineTypes DEF LockStep
      <4>2. \/ toServer'[d] = toServer[d]
            \/ \E msg \in ToServerMsgs \ {"EOF"} : toServer'[d] = Append(toServer[d], msg)
        BY <3>4, ClientLocal DEF LockStep, ToServerMsgs
      <4> QED
        BY <1>1, <3>1, <4>1, <4>2, AppendElements DEF MachineInStep
    <3> QED
      BY <2>2, <3>1, <3>3, <3>4 DEF MachineInStep
  <2> QED
    BY <2>1, <2>2
<1> QED
  BY <1>2, <1>3, <1>4, <1>5 DEF StepInv

-----------------------------------------------------------------------------
(* The users and the front-end: machines come and go. *)

\* Whatever leaves the machines as they are, but for the pauses of a host that
\* plays alone, leaves them in step.
Stays == <<wireVars, cpc, pc, sem, pending, waiting, frameCount, game, serverVars, uiTask>>

LEMMA StepKept ==
    ASSUME LockStep, UNCHANGED Stays, UNCHANGED userPaused \/ Remotes = {}
    PROVE  StepInv'
<1>1. /\ \A c \in Clients : UNCHANGED Machine(c)
      /\ UNCHANGED <<serverVars, uiTask, pc, epoch, syncByReset, saidHello>>
  BY DEF Stays, Machine, wireVars, serverVars
<1>2. JoinsOnly'
  BY <1>1, JoinsKept DEF LockStep, StepInv, JoinsOnly
<1>3. HostFirst'
  BY DEF LockStep, StepInv, HostFirst, HostJoins, Stays, wireVars, serverVars
<1>4. HostStays' /\ HostFlow'
  BY <1>1, HostKept, WireAssumption
<1>5. \A c \in Clients : MachineInStep(c)'
  BY <1>1, MachineKept
<1> QED
  BY <1>2, <1>3, <1>4, <1>5 DEF StepInv

LEMMA NewConnectionInStep ==
    ASSUME LockStep, NEW d \in Clients, NewConnection(d)
    PROVE  StepInv'
<1>1. /\ cpc[d] = "off" /\ cpc' = [cpc EXCEPT ![d] = "hello"]
      /\ waiting' = [waiting EXCEPT ![d] = FALSE]
      /\ pending' = [pending EXCEPT ![d] = FALSE]
      /\ toServer' = [toServer EXCEPT ![d] = <<"HELLO">>]
      /\ toClient' = [toClient EXCEPT ![d] = <<>>]
      /\ UNCHANGED <<pc, sem, prev, frameCount, game, userPaused, serverVars, uiTask>>
      /\ d # Host => Host \in saidHello
  BY DEF NewConnection, Connect, hostVars
<1>2. /\ toServer'[d] = <<"HELLO">> /\ toClient'[d] = <<>> /\ cpc'[d] = "hello" /\ ~waiting'[d]
      /\ \A c \in Clients \ {d} : UNCHANGED Machine(c)
  BY <1>1, MachineTypes DEF LockStep, Machine
<1>3. /\ UNCHANGED <<epoch, syncByReset, saidHello, connected, tasks, spc, srvFrame>>
      /\ HostStays /\ HostFirst /\ JoinsOnly /\ Host \in Clients
  BY <1>1, WireAssumption DEF serverVars, LockStep, StepInv
<1>4. JoinsOnly'
  BY <1>1, <1>3, JoinsKept DEF JoinsOnly
<1>5. d = Host => Host \notin saidHello
  BY <1>1, <1>3 DEF HostStays, InSession
<1>6. HostFirst'
  <2> SUFFICES ASSUME Host \notin saidHello PROVE HostFirst'
    BY <1>3 DEF HostFirst
  <2>1. d = Host
    BY <1>1
  <2>2. \A c \in Remotes : toServer'[c] = toServer[c] /\ cpc'[c] = cpc[c]
    BY <1>2, <2>1 DEF Machine, Remotes
  <2> QED
    BY <1>2, <1>3, <2>1, <2>2 DEF HostFirst, HostJoins
<1>7. HostStays' /\ HostFlow'
  <2>1. CASE d # Host
    BY <1>1, <1>2, <1>3, <2>1, HostKept
  <2>2. CASE d = Host
    BY <1>2, <1>3, <1>5, <2>2 DEF HostStays, HostFlow, InSession
  <2> QED
    BY <2>1, <2>2
<1>8. ASSUME NEW c \in Clients PROVE MachineInStep(c)'
  <2>1. CASE c # d
    BY <1>2, <1>3, <2>1, MachineKept
  <2>2. CASE c = d
    BY <1>2, <2>2 DEF MachineInStep, Played, InSession, GamesSent
  <2> QED
    BY <2>1, <2>2
<1> QED
  BY <1>4, <1>6, <1>7, <1>8 DEF StepInv

LEMMA LeaveInStep ==
    ASSUME LockStep, NEW d \in Clients, LeaveSession(d)
    PROVE  StepInv'
<1>1. /\ cpc[d] # "off" /\ cpc' = [cpc EXCEPT ![d] = "off"] /\ d \in Remotes
      /\ toServer' = [toServer EXCEPT ![d] = Append(@, "EOF")]
      /\ toClient' = [toClient EXCEPT ![d] = <<>>]
      /\ UNCHANGED <<pc, sem, pending, waiting, frameCount, game, userPaused, serverVars, uiTask>>
  BY NetPlayAssumption DEF LeaveSession, Leave, SendToServer
<1>2. /\ cpc'[d] = "off" /\ d # Host
      /\ \A c \in Clients \ {d} : UNCHANGED Machine(c)
  BY <1>1, MachineTypes DEF LockStep, Machine, Remotes
<1>3. /\ UNCHANGED <<epoch, syncByReset, saidHello>>
      /\ HostFirst /\ JoinsOnly /\ Host \in Clients
  BY <1>1, WireAssumption DEF serverVars, LockStep, StepInv
<1>4. JoinsOnly'
  BY <1>1, <1>3, JoinsKept DEF JoinsOnly
<1>5. HostFirst'
  BY <1>1, <1>3 DEF HostFirst
<1>6. HostStays' /\ HostFlow'
  BY <1>1, <1>2, <1>3, HostKept
<1>7. ASSUME NEW c \in Clients PROVE MachineInStep(c)'
  <2>1. CASE c # d
    BY <1>2, <1>3, <2>1, MachineKept
  <2>2. CASE c = d
    BY <1>2, <2>2 DEF MachineInStep, Played, InSession
  <2> QED
    BY <2>1, <2>2
<1> QED
  BY <1>4, <1>5, <1>6, <1>7 DEF StepInv

\* What users and the host's front-end may do in such a session.
LEMMA QuietUsers ==
    ASSUME LockStep, Users \/ FrontEnd
    PROVE  \/ \E c \in Clients : NewConnection(c)
           \/ \E c \in Clients : LeaveSession(c)
           \/ \E c \in Clients : Unannounce(c)
           \/ Remotes = {} /\ \E c \in Clients : PauseGame(c) \/ ResumeGame(c)
<1>1. CASE FrontEnd
  BY <1>1, AloneFrontEnd DEF LockStep, Undisturbed
<1>2. CASE Users
  <2>1. PICK c \in Clients : NewConnection(c) \/ LeaveSession(c) \/ PauseGame(c) \/ ResumeGame(c)
    BY <1>2, AloneUsers DEF LockStep, Undisturbed
  <2>2. PauseGame(c) \/ ResumeGame(c) => Remotes = {}
    <3>1. MayPause = {} \/ Remotes = {}
      BY DEF LockStep, Undisturbed
    <3>2. userPaused[c] = FALSE \/ Remotes = {}
      BY MachineTypes DEF LockStep, StepInv, JoinsOnly
    <3> QED
      BY <3>1, <3>2 DEF PauseGame, ResumeGame, SetPaused
  <2> QED
    BY <2>1, <2>2
<1> QED
  BY <1>1, <1>2

LEMMA UsersInStep ==
    ASSUME LockStep, Users \/ FrontEnd
    PROVE  StepInv'
<1>1. CASE \E c \in Clients : NewConnection(c)
  BY <1>1, NewConnectionInStep
<1>2. CASE \E c \in Clients : LeaveSession(c)
  BY <1>2, LeaveInStep
<1>3. CASE \E c \in Clients : Unannounce(c)
  BY <1>3, StepKept DEF Unannounce, clientVars, Stays
<1>4. CASE Remotes = {} /\ \E c \in Clients : PauseGame(c) \/ ResumeGame(c)
  BY <1>4, StepKept DEF PauseGame, ResumeGame, SetPaused, hostVars, Stays
<1> QED
  BY <1>1, <1>2, <1>3, <1>4, QuietUsers

-----------------------------------------------------------------------------
(* The server. *)

\* The game the server saves, when its wait is over, is that of its FrameCount.
LEMMA SavedGame ==
    ASSUME LockStep, spc = "wait", HostDone, ~syncByReset
    PROVE  HostGame.kind = "session" /\ HostGame.frame = srvFrame /\ HostGame.epoch = epoch
<1>1. /\ HostFlow /\ HostStays /\ HostFirst /\ Played(Host) /\ ~userPaused[Host] /\ Timely
      /\ toClient[Host] \in Seq(ToClientMsgs) /\ frameCount[Host] \in Nat
  BY MachineTypes, NotPaused DEF LockStep, StepInv, MachineInStep, Undisturbed
<1>2. Host \in saidHello
  BY <1>1 DEF HostFirst
<1>3. InSession(Host)
  BY <1>1, <1>2 DEF HostStays
<1>4. pending[Host] /\ sem[Host] = 0 /\ ~InFlight(Host, {"JOYPAD"})
  BY <1>1 DEF HostDone
<1>5. \A i \in 1 .. Len(toClient[Host]) : toClient[Host][i].type = "JOYPAD"
  BY <1>1, <1>3 DEF Resetting, HostStays, ForHost
<1>6. Len(toClient[Host]) = 0
  <2>1. Len(toClient[Host]) \in Nat
    BY <1>1
  <2>2. 1 \notin 1 .. Len(toClient[Host])
    BY <1>4, <1>5 DEF InFlight
  <2> QED
    BY <2>1, <2>2
<1>7. pc[Host] = "top"
  BY <1>1, <1>3, <1>4 DEF Played
<1>8. frameCount[Host] = srvFrame
  BY <1>1, <1>3, <1>4, <1>6, <1>7 DEF HostFlow, Tokens
<1>9. ~InFlight(Host, Replacing)
  BY <1>6 DEF InFlight
<1>10. game[Host].kind = "session" /\ HostGame = game[Host]
  BY <1>1, <1>3, <1>7 DEF HostStays, HostGame
<1> QED
  BY <1>1, <1>3, <1>4, <1>7, <1>8, <1>9, <1>10 DEF Played, FrameAhead

\* The messages the host's own client can have sent.
LEMMA HostMessage ==
    ASSUME LockStep, toServer[Host] # <<>>
    PROVE  /\ Head(toServer[Host]) \in {"HELLO", "READY", "PAUSE", "RESUME"}
           /\ Host \in saidHello => Head(toServer[Host]) \in FromHost
           /\ Host \notin saidHello =>
                /\ toClient[Host] = <<>> /\ Tail(toServer[Host]) = <<>>
                /\ \/ Head(toServer[Host]) = "HELLO" /\ cpc[Host] = "hello"
                   \/ /\ Head(toServer[Host]) = "READY" /\ cpc[Host] = "loop"
                      /\ Host \in connected
<1>1. toServer[Host] \in Seq(ToServerMsgs) /\ HostStays /\ HostFirst
  BY MachineTypes DEF LockStep, StepInv
<1>2. Head(toServer[Host]) = toServer[Host][1] /\ 1 \in 1 .. Len(toServer[Host])
  BY <1>1, TailElements
<1>3. CASE Host \in saidHello
  BY <1>1, <1>2, <1>3 DEF HostStays, FromHost
<1>4. CASE Host \notin saidHello
  <2>1. \A m : Head(<<m>>) = m /\ Tail(<<m>>) = <<>>
    OBVIOUS
  <2>2. /\ toClient[Host] = <<>>
        /\ \/ cpc[Host] = "hello" /\ toServer[Host] = <<"HELLO">>
           \/ cpc[Host] = "loop" /\ toServer[Host] = <<"READY">> /\ Host \in connected
    BY <1>1, <1>4 DEF HostFirst, HostJoins
  <2> QED
    BY <1>4, <2>1, <2>2
<1> QED
  BY <1>3, <1>4

\* Until the host has said hello, the server only hears of the host.
LEMMA BeforeHost ==
    ASSUME LockStep, ServerStep, Host \notin saidHello
    PROVE  AcceptClient(Host) \/ ProcessHello(Host) \/ ProcessReadyFirst(Host)
<1>1. /\ connected \subseteq {Host} /\ saidHello \subseteq connected /\ tasks = <<>>
      /\ spc = "clients" /\ saidHello = {}
      /\ \A c \in Clients : toServer[c] # <<>> => c = Host
  BY DEF LockStep, TypeInv, Table, ClientsCounted, StepInv, HostFirst, Remotes
<1>2. \A c \in Clients : AcceptClient(c) => c = Host
  BY <1>1 DEF AcceptClient
<1>3. \A c \in Clients : \A msg : Receive(c, msg) =>
         c = Host /\ msg \in {"HELLO", "READY"}
  BY <1>1, HostMessage DEF Receive
<1>4. \A c \in Clients :
         ~(ProcessReadyAgain(c) \/ ProcessWaitingForRomImage(c)
             \/ ProcessReceivedRomImage(c) \/ ProcessPause(c) \/ ShutdownClient(c))
  <2> SUFFICES ASSUME NEW c \in Clients
               PROVE  ~(ProcessReadyAgain(c) \/ ProcessWaitingForRomImage(c)
                          \/ ProcessReceivedRomImage(c) \/ ProcessPause(c)
                          \/ ShutdownClient(c))
    OBVIOUS
  <2>1. ~ProcessReadyAgain(c)
    BY <1>1 DEF ProcessReadyAgain
  <2>2. ~(Receive(c, "WAITING_FOR_ROM_IMAGE") \/ Receive(c, "RECEIVED_ROM_IMAGE")
            \/ Receive(c, "PAUSE") \/ Receive(c, "RESUME") \/ Receive(c, "EOF"))
    BY <1>3
  <2> QED
    BY <2>1, <2>2 DEF ProcessWaitingForRomImage, ProcessReceivedRomImage,
                      ProcessPause, ShutdownClient
<1>5. \A c \in Clients : ProcessHello(c) \/ ProcessReadyFirst(c) => c = Host
  BY <1>3 DEF ProcessHello, ProcessReadyFirst
<1>6. \A stopped, done, g :
         ~(SendHeartBeat(stopped) \/ StartTask \/ FinishJoin(done)
             \/ FinishSyncClient(done, g) \/ FinishSyncAll(done, g)
             \/ FinishReset(done) \/ FinishSendSram(done) \/ FinishSendRomImage(done))
  BY <1>1 DEF SendHeartBeat, StartTask, FinishJoin, FinishSyncClient, FinishSyncAll,
              FinishReset, FinishSendSram, FinishSendRomImage, Waited
<1> QED
  BY <1>2, <1>4, <1>5, <1>6 DEF ServerStep, ServerThread

\* A message the server may send: a game must be the session's latest.
Sendable(c, msg) ==
    IF msg.type \notin Replacing THEN epoch' = epoch
    ELSE /\ msg.type = IF syncByReset THEN "RESET" ELSE "FREEZE_FILE"
         /\ syncByReset => c \in saidHello'
         /\ msg.game.kind = "session" /\ msg.game.frame = msg.frame /\ msg.game.epoch = epoch'

\* What a step of the server does to one machine.
Served(c) ==
    /\ c \in saidHello => c \in saidHello' \/ cpc[c] = "off"
    /\ \/ toServer'[c] = toServer[c]
       \/ toServer[c] # <<>> /\ toServer'[c] = Tail(toServer[c])
    /\ \/ toClient'[c] = toClient[c] /\ epoch' = epoch
       \/ \E msg \in ToClientMsgs : toClient'[c] = Append(toClient[c], msg) /\ Sendable(c, msg)
       \/ /\ toClient'[c] = toClient[c] /\ syncByReset
          /\ c \notin saidHello /\ c # Host

LEMMA GamesServed ==
    ASSUME LockStep, NEW c \in Clients, UNCHANGED syncByReset, NEW msg \in ToClientMsgs,
           GamesSent(c, toClient[c]), c \in saidHello => c \in saidHello',
           toClient'[c] = Append(toClient[c], msg), Sendable(c, msg)
    PROVE  GamesSent(c, toClient[c])'
<1> DEFINE s == toClient[c]
<1> DEFINE t == Append(s, msg)
<1>1. /\ Len(s) \in Nat /\ Len(t) = Len(s) + 1 /\ t[Len(s) + 1] = msg
      /\ \A i \in 1 .. Len(s) : t[i] = s[i] /\ i \in 1 .. Len(s) + 1
      /\ \A i \in 1 .. Len(s) + 1 : i = Len(s) + 1 \/ i \in 1 .. Len(s)
  BY MachineTypes, AppendElements DEF LockStep
<1> SUFFICES ASSUME NEW i \in 1 .. Len(t), t[i].type \in Replacing
             PROVE  GameSent(c, toClient[c], i)'
  BY DEF GamesSent
<1>2. toClient'[c] = t
  OBVIOUS
<1>3. CASE i = Len(s) + 1
  <2>1. t[i] = msg
    BY <1>1, <1>3
  <2> HIDE DEF s, t
  <2> QED
    BY <1>2, <2>1 DEF GameSent, Sendable
<1>4. CASE i \in 1 .. Len(s)
  <2>1. t[i] = s[i] /\ GameSent(c, s, i)
    BY <1>1, <1>4 DEF GamesSent
  <2>2. ASSUME \A j \in i + 1 .. Len(t) : t[j].type \notin Replacing
        PROVE  epoch' = epoch /\ \A j \in i + 1 .. Len(s) : s[j].type \notin Replacing
    <3>1. Len(s) + 1 \in i + 1 .. Len(t)
      BY <1>1, <1>4
    <3>2. msg.type \notin Replacing
      BY <1>1, <2>2, <3>1
    <3>3. \A j \in i + 1 .. Len(s) : j \in i + 1 .. Len(t) /\ j \in 1 .. Len(s)
      BY <1>1, <1>4
    <3> HIDE DEF s, t
    <3> QED
      BY <1>1, <2>2, <3>2, <3>3 DEF Sendable
  <2> HIDE DEF s, t
  <2> QED
    BY <1>2, <2>1, <2>2 DEF GameSent, s
<1> QED
  BY <1>1, <1>3, <1>4

\* A step of the server that does so leaves every machine in step.
LEMMA MachineServed ==
    ASSUME LockStep, NEW c \in Clients, UNCHANGED <<clientVars, syncByReset>>, Served(c)
    PROVE  MachineInStep(c)'
<1> USE DEF clientVars
<1>1. /\ MachineInStep(c) /\ cpc'[c] = cpc[c] /\ (InSession(c)' <=> InSession(c))
      /\ game'[c] = game[c] /\ FrameAhead(c)' = FrameAhead(c)
      /\ Foreign.kind = "foreign"
  BY DEF LockStep, StepInv, InSession, FrameAhead, Foreign, Game
<1> SUFFICES ASSUME cpc[c] # "off" PROVE MachineInStep(c)'
  BY <1>1 DEF MachineInStep, Played, InSession
<1>2. /\ GamesSent(c, toClient[c])
      /\ c \in saidHello => c \in saidHello'
      /\ \A i \in 1 .. Len(toServer[c]) : toServer[c][i] # "EOF"
      /\ toServer[c] \in Seq(ToServerMsgs) /\ toClient[c] \in Seq(ToClientMsgs)
  BY <1>1, MachineTypes DEF LockStep, MachineInStep, Served
<1>3. \A i \in 1 .. Len(toServer'[c]) : toServer'[c][i] # "EOF"
  <2>1. CASE toServer'[c] = toServer[c]
    BY <1>2, <2>1
  <2>2. CASE toServer[c] # <<>> /\ toServer'[c] = Tail(toServer[c])
    <3>1. \A i \in 1 .. Len(Tail(toServer[c])) : Tail(toServer[c])[i] # "EOF"
      BY <1>2, <2>2, TailElements
    <3> QED
      BY <2>2, <3>1
  <2> QED
    BY <2>1, <2>2 DEF Served
<1>4. ASSUME GamesSent(c, toClient[c])',
             InSession(c) /\ game[c].kind = "session" /\ ~InFlight(c, Replacing)'
               => game[c].epoch = epoch'
      PROVE  MachineInStep(c)'
  BY <1>1, <1>2, <1>3, <1>4 DEF MachineInStep, Played
<1>5. CASE toClient'[c] = toClient[c] /\ epoch' = epoch
  BY <1>1, <1>2, <1>4, <1>5
     DEF GamesSent, GameSent, InFlight, MachineInStep, Played
<1>6. CASE /\ toClient'[c] = toClient[c] /\ syncByReset
           /\ c \notin saidHello /\ c # Host
  <2>1. \A i \in 1 .. Len(toClient[c]) : toClient[c][i].type \notin Replacing
    BY <1>2, <1>6 DEF GamesSent, GameSent
  <2>2. GamesSent(c, toClient[c])'
    BY <1>6, <2>1 DEF GamesSent
  <2>3. InSession(c) => game[c].kind # "session"
    BY <1>1, <1>6 DEF MachineInStep, Played
  <2> QED
    BY <1>4, <2>2, <2>3
<1>7. ASSUME NEW msg \in ToClientMsgs, toClient'[c] = Append(toClient[c], msg),
             Sendable(c, msg)
      PROVE  MachineInStep(c)'
  <2>1. GamesSent(c, toClient[c])'
    BY <1>2, <1>7, GamesServed
  <2>2. /\ InFlight(c, Replacing) => InFlight(c, Replacing)'
        /\ msg.type \in Replacing => InFlight(c, Replacing)'
    BY <1>2, <1>7, AppendElements DEF InFlight
  <2>3. ~InFlight(c, Replacing)' => epoch' = epoch /\ ~InFlight(c, Replacing)
    BY <1>7, <2>2 DEF Sendable
  <2> QED
    BY <1>1, <1>4, <2>1, <2>3 DEF MachineInStep, Played
<1> QED
  BY <1>5, <1>6, <1>7 DEF Served

\* The types of what the server's steps read.
LEMMA ServerTypes ==
    ASSUME TypeInv, Alone
    PROVE  /\ tasks \in Seq(Tasks) /\ job \in Jobs /\ srvFrame \in Nat /\ epoch \in Nat
           /\ saidHello \subseteq connected /\ connected \subseteq Clients
           /\ srvPaused = MustPause(saidHello, ready, clientPaused)
           /\ \A i \in 1 .. Len(tasks) : tasks[i] \in Tasks
           /\ tasks # <<>> => Head(tasks) = tasks[1] /\ 1 \in 1 .. Len(tasks)
<1>1. /\ tasks \in Seq(Tasks) /\ job \in Jobs /\ srvFrame \in Nat /\ epoch \in Nat
      /\ saidHello \subseteq connected /\ connected \subseteq Clients
      /\ srvPaused = MustPause(saidHello, ready, clientPaused)
  BY DEF TypeInv, TypeOK, ServerTypeOK, Table, ClientsCounted, Alone, PausedIsRecomputed
<1> QED
  BY <1>1, TailElements

\* A message to some of the machines reaches those.
LEMMA SentTo ==
    ASSUME NEW cs, NEW msg, SendTo(cs, msg), NEW c \in Clients
    PROVE  /\ c \in cs => toClient'[c] = Append(toClient[c], msg)
           /\ c \notin cs => toClient'[c] = toClient[c]
  BY DEF SendTo

\* A step that sends no game and forgets nobody serves every machine.
LEMMA PlainlyServed ==
    ASSUME LockStep, UNCHANGED <<epoch, toServer>>, saidHello \subseteq saidHello',
           NEW cs, NEW msg \in ToClientMsgs, msg.type \notin Replacing,
           SendTo(cs, msg) \/ UNCHANGED toClient
    PROVE  \A c \in Clients : Served(c)
<1> SUFFICES ASSUME NEW c \in Clients PROVE Served(c)
  OBVIOUS
<1>1. toClient'[c] = toClient[c] \/ toClient'[c] = Append(toClient[c], msg)
  BY SentTo
<1> QED
  BY <1>1 DEF Served, Sendable

\* A step that does not touch the host's streams leaves its flow alone.
LEMMA HostUntouched ==
    ASSUME LockStep, UNCHANGED <<clientVars, syncByReset, srvFrame>>, Host \in saidHello,
           toServer'[Host] = toServer[Host], toClient'[Host] = toClient[Host],
           Host \in clientPaused => Host \in clientPaused'
    PROVE  HostStays' /\ HostFlow'
<1>1. HostStays'
  BY DEF Resetting, LockStep, StepInv, HostStays, clientVars, InSession, FromHost, ForHost
<1>2. HostFlow'
  BY DEF LockStep, StepInv, HostFlow, clientVars, InSession, Tokens, Asked
<1> QED
  BY <1>1, <1>2

\* Heartbeats are sent while the ring of the host has room for them.
LEMMA HeartbeatInStep ==
    ASSUME LockStep, UNCHANGED <<clientVars, uiTask>>, Host \in saidHello,
           SendHeartBeat(userPaused[Host] \/ (Timely /\ ~NetworkFast))
    PROVE  (\A c \in Clients : Served(c)) /\ JoinsOnly' /\ HostStays' /\ HostFlow'
<1> DEFINE msg == Heartbeat(srvFrame')
<1>1. /\ srvFrame' = srvFrame + 1 /\ srvFrame \in Nat /\ SendTo(saidHello, msg)
      /\ UNCHANGED <<toServer, flags, tasks, spc, job, epoch, sendROM, syncByReset>>
      /\ ~srvPaused /\ NetworkFast
  BY ServerTypes DEF LockStep, Undisturbed, SendHeartBeat
<1>2. msg \in ToClientMsgs /\ msg.type = "JOYPAD"
  BY <1>1, MessageTypes DEF Heartbeat, ToClientMsg
<1>3. \A c \in Clients : Served(c)
  <2>1. "JOYPAD" \notin Replacing
    BY DEF Replacing
  <2> HIDE DEF msg
  <2> QED
    BY <1>1, <1>2, <2>1, PlainlyServed DEF flags
<1>4. JoinsOnly'
  BY <1>1 DEF LockStep, StepInv, JoinsOnly, JoinKinds, IsJoinTask, clientVars
<1>5. /\ InSession(Host) /\ HostStays /\ HostFlow /\ Noticed(Host) /\ Host \in Clients
      /\ toClient[Host] \in Seq(ToClientMsgs) /\ toServer[Host] \in Seq(ToServerMsgs)
      /\ sem[Host] \in Nat /\ frameCount[Host] \in Nat
      /\ MaxBehind \in Nat /\ Lag \in Nat
  BY MachineTypes, NetPlayAssumption, ClientAssumption DEF LockStep, StepInv, HostStays
<1> DEFINE s == toClient[Host]
<1>6. toClient'[Host] = Append(s, msg)
  BY <1>1, <1>5, SentTo
<1>7. /\ Len(s) \in Nat /\ Len(toClient'[Host]) = Len(s) + 1
      /\ toClient'[Host][Len(s) + 1] = msg
      /\ \A i \in 1 .. Len(s) : toClient'[Host][i] = s[i]
      /\ \A i \in 1 .. Len(s) + 1 : i = Len(s) + 1 \/ i \in 1 .. Len(s)
  BY <1>2, <1>5, <1>6, AppendElements
<1> HIDE DEF msg
<1>8. HostStays'
  <2>1. ForHost' = ForHost /\ FromHost' = FromHost /\ "JOYPAD" \in ForHost
    BY <1>1 DEF Resetting, ForHost, FromHost
  <2>2. \A i \in 1 .. Len(toClient'[Host]) : toClient'[Host][i].type \in ForHost'
    BY <1>2, <1>5, <1>7, <2>1 DEF HostStays
  <2> QED
    BY <1>1, <1>5, <2>1, <2>2 DEF Resetting, HostStays, InSession, clientVars, flags
<1>9. HostFlow'
  <2> SUFFICES ASSUME ~syncByReset PROVE HostFlow'
    BY <1>1 DEF HostFlow
  <2>1. \A i \in 1 .. Len(s) : s[i].type = "JOYPAD"
    BY <1>5 DEF Resetting, HostStays, ForHost
  <2>2. {i \in 1 .. Len(s) : s[i].type = "JOYPAD"} = 1 .. Len(s)
    BY <2>1
  <2>3. HeartbeatsTo(Host) = Len(s)
    <3>1. HeartbeatsTo(Host) = Cardinality(1 .. Len(s))
      BY <2>2 DEF HeartbeatsTo
    <3>2. \A n \in Nat : Cardinality(1 .. n) = n
      BY FS_Interval
    <3> QED
      BY <1>7, <3>1, <3>2
  <2>4. /\ HeartbeatsTo(Host) < Lag
        /\ PauseUnderWay(Host) => sem[Host] + HeartbeatsTo(Host) <= MaxBehind + Lag
    BY <1>1, <1>5 DEF NetworkFast
  <2>5. waiting[Host] => PauseUnderWay(Host)
    <3> SUFFICES ASSUME waiting[Host] PROVE PauseUnderWay(Host)
      OBVIOUS
    <3>1. Asked(Host)
      BY <1>5 DEF HostFlow
    <3>2. ~(Host \in clientPaused)
      BY <1>1, ServerTypes DEF LockStep, MustPause
    <3>3. toServer[Host] # <<>> =>
             Len(toServer[Host]) \in 1 .. Len(toServer[Host])
      BY <1>5, TailElements
    <3> QED
      BY <3>1, <3>2, <3>3 DEF Asked, PauseUnderWay
  <2>6. Tokens(Host) \in Nat /\ Tokens(Host) <= sem[Host]
    BY <1>5 DEF HostFlow, Tokens
  <2>7. Tokens(Host) + (Len(s) + 1) <= MaxBehind + Lag + 1
    <3>1. CASE waiting[Host]
      BY <1>5, <1>7, <2>3, <2>4, <2>5, <2>6, <3>1
    <3>2. CASE ~waiting[Host]
      <4>1. Tokens(Host) <= MaxBehind
        BY <1>5, <3>2 DEF Noticed, Tokens, HostFlow
      <4> QED
        BY <1>5, <1>7, <2>3, <2>4, <2>6, <4>1
    <3> QED
      BY <3>1, <3>2
  <2>8. Tokens(Host)' = Tokens(Host)
    BY DEF Tokens, clientVars
  <2>9. Asked(Host)' <=> Asked(Host)
    BY <1>1 DEF Asked, clientVars, flags
  <2>10. frameCount[Host] + Tokens(Host) + (Len(s) + 1) = srvFrame + 1 /\ Len(s) + 1 <= Lag
    <3>1. frameCount[Host] + Tokens(Host) + Len(s) = srvFrame /\ Len(s) < Lag
      BY <1>5, <2>3, <2>4 DEF HostFlow
    <3>2. frameCount[Host] \in Nat /\ Len(s) \in Nat /\ Lag \in Nat /\ srvFrame \in Nat
      BY <1>1, <1>5, <1>7
    <3> HIDE DEF s
    <3> QED
      BY <2>6, <3>1, <3>2
  <2> QED
    BY <1>1, <1>5, <1>7, <2>7, <2>8, <2>9, <2>10 DEF HostFlow, InSession, clientVars
<1> QED
  BY <1>3, <1>4, <1>8, <1>9

\* What a handler and a task must leave.
ServedInStep == (\A c \in Clients : Served(c)) /\ JoinsOnly' /\ HostStays' /\ HostFlow'

LEMMA JoinsUntouched ==
    ASSUME LockStep, UNCHANGED <<clientVars, uiTask, tasks, job, spc, epoch, syncByReset>>
    PROVE  JoinsOnly'
  BY DEF LockStep, StepInv, JoinsOnly, JoinKinds, IsJoinTask, clientVars

LEMMA ReceivedFrom ==
    ASSUME TypeInv, NEW c \in Clients, NEW msg, Receive(c, msg)
    PROVE  /\ toServer[c] # <<>> /\ Head(toServer[c]) = msg /\ c \in connected
           /\ toServer'[c] = Tail(toServer[c])
           /\ \A d \in Clients \ {c} : toServer'[d] = toServer[d]
  BY MachineTypes DEF Receive

\* A message of a machine other than the host that gives the server no task.
LEMMA MessageServed ==
    ASSUME LockStep, UNCHANGED <<clientVars, syncByReset, srvFrame, epoch>>,
           Host \in saidHello, NEW c \in Clients \ {Host}, NEW req, Receive(c, req),
           NEW msg \in ToClientMsgs, msg.type \notin Replacing,
           SendTo({c}, msg) \/ UNCHANGED toClient,
           \A d \in Clients : d \in saidHello => d \in saidHello' \/ cpc[d] = "off",
           Host \in clientPaused => Host \in clientPaused'
    PROVE  (\A d \in Clients : Served(d)) /\ HostStays' /\ HostFlow'
<1>1. /\ toServer'[Host] = toServer[Host] /\ toClient'[Host] = toClient[Host]
      /\ Host \in Clients
  BY ReceivedFrom, SentTo, WireAssumption DEF LockStep
<1>2. HostStays' /\ HostFlow'
  BY <1>1, HostUntouched
<1>3. ASSUME NEW d \in Clients PROVE Served(d)
  <2>1. \/ toServer'[d] = toServer[d]
        \/ toServer[d] # <<>> /\ toServer'[d] = Tail(toServer[d])
    BY ReceivedFrom DEF LockStep
  <2>2. toClient'[d] = toClient[d] \/ toClient'[d] = Append(toClient[d], msg)
    BY SentTo
  <2> QED
    BY <2>1, <2>2 DEF Served, Sendable
<1> QED
  BY <1>2, <1>3

\* A message of the host's own client, once it has said hello.
LEMMA HostServed ==
    ASSUME LockStep, UNCHANGED <<clientVars, syncByReset, srvFrame, epoch, toClient>>,
           Host \in saidHello, saidHello \subseteq saidHello',
           NEW req \in FromHost, Receive(Host, req),
           req = "READY" \/ clientPaused' = IF req = "PAUSE" THEN clientPaused \cup {Host}
                                            ELSE clientPaused \ {Host}
    PROVE  (\A d \in Clients : Served(d)) /\ HostStays' /\ HostFlow'
<1>1. /\ HostStays /\ HostFlow /\ Host \in Clients /\ toServer[Host] \in Seq(ToServerMsgs)
      /\ toServer[Host] # <<>> /\ Head(toServer[Host]) = req
      /\ toServer'[Host] = Tail(toServer[Host])
  BY ReceivedFrom, MachineTypes DEF LockStep, StepInv
<1> DEFINE s == toServer[Host]
<1>2. /\ Len(s) \in Nat \ {0} /\ Head(s) = s[1] /\ Len(Tail(s)) = Len(s) - 1
      /\ \A i \in 1 .. Len(s) - 1 : Tail(s)[i] = s[i + 1] /\ i + 1 \in 1 .. Len(s)
  BY <1>1, TailElements
<1>3. \A d \in Clients : Served(d)
  BY <1>1, ReceivedFrom DEF Served, LockStep
<1>4. HostStays'
  <2>1. \A i \in 1 .. Len(toServer'[Host]) : toServer'[Host][i] \in FromHost
    BY <1>1, <1>2 DEF HostStays
  <2> QED
    BY <1>1, <2>1 DEF Resetting, HostStays, FromHost, ForHost, InSession, clientVars
<1>5. HostFlow'
  <2> SUFFICES ASSUME ~syncByReset, InSession(Host), waiting[Host] PROVE Asked(Host)'
    BY <1>1 DEF HostFlow, Tokens, InSession, clientVars
  <2>1. Asked(Host) /\ req # "READY"
    BY <1>1 DEF Resetting, HostFlow, FromHost
  <2>2. cpc' = cpc
    BY DEF clientVars
  <2>3. CASE cpc[Host] = "pausing"
    BY <2>2, <2>3 DEF Asked
  <2>4. CASE s[Len(s)] = "PAUSE" /\ Len(s) # 1
    <3> HIDE DEF s
    <3>1. Len(s) - 1 \in 1 .. Len(s) - 1 /\ (Len(s) - 1) + 1 = Len(s)
      BY <1>2, <2>4
    <3>2. Tail(s)[Len(Tail(s))] = "PAUSE" /\ Tail(s) # <<>>
      <4>1. Tail(s)[Len(s) - 1] = s[Len(s)]
        BY <1>2, <3>1
      <4>2. Len(Tail(s)) # 0
        BY <1>2, <2>4
      <4>3. Len(<<>>) = 0
        OBVIOUS
      <4> QED
        BY <1>2, <2>4, <4>1, <4>2, <4>3
    <3> QED
      BY <1>1, <3>2 DEF Asked, s
  <2>5. CASE s[Len(s)] = "PAUSE" /\ Len(s) = 1
    <3>1. req = "PAUSE" /\ Len(Tail(s)) = 0 /\ Tail(s) \in Seq(ToServerMsgs)
      BY <1>1, <1>2, <2>5
    <3>2. Tail(s) = <<>>
      BY <3>1, EmptySeq
    <3> QED
      BY <1>1, <2>1, <3>1, <3>2 DEF Asked
  <2> QED
    BY <1>1, <2>1, <2>3, <2>4, <2>5 DEF Asked
<1> QED
  BY <1>3, <1>4, <1>5

\* What the server reads of a machine, once the host has said hello.
LEMMA MessageInStep ==
    ASSUME LockStep, UNCHANGED <<clientVars, uiTask>>, Host \in saidHello,
           NEW c \in Clients,
           \/ AcceptClient(c) \/ ProcessHello(c) \/ ProcessReadyFirst(c)
           \/ ProcessReadyAgain(c) \/ ProcessWaitingForRomImage(c)
           \/ ProcessReceivedRomImage(c) \/ ProcessPause(c) \/ ShutdownClient(c)
    PROVE  ServedInStep /\ Host \in saidHello'
<1>1. /\ saidHello \subseteq connected /\ Host \in Clients /\ srvFrame \in Nat
      /\ JoinsOnly /\ SramData \in ToClientMsgs /\ RomImage \in ToClientMsgs
      /\ SramData.type = "SRAM_DATA" /\ RomImage.type = "ROM_IMAGE"
      /\ {"SRAM_DATA", "ROM_IMAGE", "HELLO", "HELLO_ROM_IMAGE"} \cap Replacing = {}
  BY ServerTypes, MessageTypes, WireAssumption
     DEF LockStep, StepInv, SramData, RomImage, ToClientMsg, Replacing
<1>2. \A req : Receive(Host, req) => req \in FromHost
  BY <1>1, ReceivedFrom, HostMessage DEF LockStep
<1>3. {"HELLO", "WAITING_FOR_ROM_IMAGE", "RECEIVED_ROM_IMAGE", "EOF"} \cap FromHost = {}
  BY DEF FromHost
<1>4. CASE AcceptClient(c)
  <2>1. /\ UNCHANGED <<wireVars, srvFrame, tasks, spc, job, epoch, sendROM, syncByReset>>
        /\ saidHello' = saidHello /\ c # Host /\ clientPaused' = clientPaused \ {c}
    BY <1>1, <1>4 DEF AcceptClient
  <2>2. JoinsOnly'
    BY <2>1, JoinsUntouched
  <2>3. HostStays' /\ HostFlow'
    BY <2>1, HostUntouched DEF wireVars
  <2>4. \A d \in Clients : Served(d)
    BY <1>1, <2>1, PlainlyServed DEF wireVars
  <2> QED
    BY <2>1, <2>2, <2>3, <2>4 DEF ServedInStep
<1>5. CASE ProcessHello(c)
  <2> DEFINE msg == Hello(srvFrame, sendROM /\ numClients > 1)
  <2>1. /\ Receive(c, "HELLO") /\ SendTo({c}, msg)
        /\ UNCHANGED <<flags, srvFrame, tasks, spc, job, epoch, sendROM, syncByReset>>
    BY <1>5 DEF ProcessHello
  <2>2. c # Host /\ msg \in ToClientMsgs /\ msg.type \notin Replacing
    BY <1>1, <1>2, <1>3, <2>1, MessageTypes DEF Hello, ToClientMsg
  <2>3. saidHello' = saidHello /\ clientPaused' = clientPaused
    BY <2>1 DEF flags
  <2> HIDE DEF msg
  <2>4. (\A d \in Clients : Served(d)) /\ HostStays' /\ HostFlow'
    BY <2>1, <2>2, <2>3, MessageServed
  <2> QED
    BY <2>1, <2>3, <2>4, JoinsUntouched DEF ServedInStep
<1>6. CASE ProcessReadyFirst(c)
  <2>1. /\ Receive(c, "READY") /\ c # Host /\ saidHello' = saidHello \cup {c}
        /\ clientPaused' = clientPaused \ {c}
        /\ (spc' = "wait" /\ job' = Work("JOIN", c)) \/ UNCHANGED <<spc, job>>
        /\ UNCHANGED <<toClient, srvFrame, tasks, epoch, sendROM, syncByReset>>
    BY <1>6 DEF ProcessReadyFirst, Joins
  <2>2. (\A d \in Clients : Served(d)) /\ HostStays' /\ HostFlow'
    BY <1>1, <2>1, MessageServed
  <2>3. JoinsOnly'
    BY <1>1, <2>1 DEF JoinsOnly, JoinKinds, IsJoinTask, Work, clientVars, Remotes
  <2> QED
    BY <2>1, <2>2, <2>3 DEF ServedInStep
<1>7. CASE ProcessReadyAgain(c)
  <2>1. /\ Receive(c, "READY") /\ saidHello' = saidHello \cup {c}
        /\ clientPaused' = clientPaused \ {c}
        /\ UNCHANGED <<toClient, srvFrame, tasks, spc, job, epoch, sendROM, syncByReset>>
    BY <1>7 DEF ProcessReadyAgain, Joins
  <2>2. (\A d \in Clients : Served(d)) /\ HostStays' /\ HostFlow'
    <3>1. CASE c = Host
      BY <1>2, <2>1, <3>1, HostServed
    <3>2. CASE c # Host
      BY <1>1, <2>1, <3>2, MessageServed
    <3> QED
      BY <3>1, <3>2
  <2> QED
    BY <2>1, <2>2, JoinsUntouched DEF ServedInStep
<1>8. CASE ProcessWaitingForRomImage(c)
  <2>1. /\ Receive(c, "WAITING_FOR_ROM_IMAGE") /\ saidHello' = saidHello \cup {c}
        /\ clientPaused' = clientPaused \ {c} /\ SendTo({c}, RomImage)
        /\ UNCHANGED <<srvFrame, tasks, spc, job, epoch, sendROM, syncByReset>>
    BY <1>8 DEF ProcessWaitingForRomImage, Joins
  <2>2. c # Host
    BY <1>2, <1>3, <2>1
  <2>3. (\A d \in Clients : Served(d)) /\ HostStays' /\ HostFlow'
    BY <1>1, <2>1, <2>2, MessageServed
  <2> QED
    BY <2>1, <2>3, JoinsUntouched DEF ServedInStep
<1>9. CASE ProcessReceivedRomImage(c)
  <2>1. /\ Receive(c, "RECEIVED_ROM_IMAGE") /\ saidHello' = saidHello \cup {c}
        /\ clientPaused' = clientPaused \ {c}
        /\ spc' = "wait" /\ job' = Work("JOIN", c)
        /\ UNCHANGED <<toClient, srvFrame, tasks, epoch, sendROM, syncByReset>>
    BY <1>9 DEF ProcessReceivedRomImage, Joins
  <2>2. c # Host
    BY <1>2, <1>3, <2>1
  <2>3. (\A d \in Clients : Served(d)) /\ HostStays' /\ HostFlow'
    BY <1>1, <2>1, <2>2, MessageServed
  <2>4. JoinsOnly'
    BY <1>1, <2>1, <2>2 DEF JoinsOnly, JoinKinds, IsJoinTask, Work, clientVars, Remotes
  <2> QED
    BY <2>1, <2>3, <2>4 DEF ServedInStep
<1>10. CASE ProcessPause(c)
  <2>1. /\ \/ Receive(c, "PAUSE") /\ clientPaused' = clientPaused \cup {c}
           \/ Receive(c, "RESUME") /\ clientPaused' = clientPaused \ {c}
        /\ UNCHANGED <<saidHello, toClient, srvFrame, tasks, spc, job, epoch, syncByReset>>
    BY <1>10 DEF ProcessPause
  <2>2. (\A d \in Clients : Served(d)) /\ HostStays' /\ HostFlow'
    <3>1. CASE c = Host
      BY <1>2, <2>1, <3>1, HostServed
    <3>2. CASE c # Host
      BY <1>1, <2>1, <3>2, MessageServed
    <3> QED
      BY <3>1, <3>2
  <2> QED
    BY <2>1, <2>2, JoinsUntouched DEF ServedInStep
<1>11. CASE ShutdownClient(c)
  <2>1. /\ Receive(c, "EOF") /\ saidHello' = saidHello \ {c} /\ clientPaused' = clientPaused
        /\ UNCHANGED <<toClient, srvFrame, tasks, spc, job, epoch, sendROM, syncByReset>>
    BY <1>11 DEF ShutdownClient
  <2>2. c # Host
    BY <1>2, <1>3, <2>1
  <2>3. cpc[c] = "off"
    <3>1. toServer[c] \in Seq(ToServerMsgs)
      BY MachineTypes DEF LockStep
    <3>2. toServer[c][1] = "EOF" /\ 1 \in 1 .. Len(toServer[c])
      BY <2>1, <3>1, ReceivedFrom, TailElements DEF LockStep
    <3> QED
      BY <3>2 DEF LockStep, StepInv, MachineInStep
  <2>4. (\A d \in Clients : Served(d)) /\ HostStays' /\ HostFlow'
    BY <1>1, <2>1, <2>2, <2>3, MessageServed
  <2> QED
    BY <2>1, <2>2, <2>4, JoinsUntouched DEF ServedInStep
<1> QED
  BY <1>4, <1>5, <1>6, <1>7, <1>8, <1>9, <1>10, <1>11

\* A task that is over is taken off the queue.
LEMMA TaskDoneJoins ==
    ASSUME LockStep, UNCHANGED <<clientVars, uiTask, syncByReset>>,
           syncByReset \/ epoch' = epoch, TaskDone, tasks # <<>>
    PROVE  JoinsOnly'
<1>1. JoinsOnly /\ tasks \in Seq(Tasks)
  BY ServerTypes DEF LockStep, StepInv
<1>2. tasks' = Tail(tasks) /\ spc' # "wait"
  BY DEF TaskDone
<1>3. \A i \in 1 .. Len(tasks') : IsJoinTask(tasks'[i])
  BY <1>1, <1>2, TailElements DEF JoinsOnly
<1>4. \A i \in 1 .. Len(tasks') : IsJoinTask(tasks[i])' <=> IsJoinTask(tasks'[i])
  BY DEF IsJoinTask, JoinKinds
<1> QED
  BY <1>1, <1>2, <1>3, <1>4 DEF JoinsOnly, clientVars, IsJoinTask, JoinKinds

LEMMA TaskInStep ==
    ASSUME LockStep, UNCHANGED <<clientVars, uiTask>>, Host \in saidHello,
           \/ StartTask \/ FinishJoin(HostDone)
           \/ FinishSyncClient(HostDone, HostGame) \/ FinishSyncAll(HostDone, HostGame)
           \/ FinishReset(HostDone) \/ FinishSendSram(HostDone)
           \/ FinishSendRomImage(HostDone)
    PROVE  ServedInStep /\ Host \in saidHello'
<1>1. /\ Host \in Clients /\ srvFrame \in Nat /\ epoch \in Nat /\ tasks \in Seq(Tasks)
      /\ JoinsOnly /\ SramData \in ToClientMsgs /\ SramData.type \notin Replacing
      /\ tasks # <<>> => IsJoinTask(Head(tasks))
  BY ServerTypes, MessageTypes, WireAssumption
     DEF LockStep, StepInv, SramData, ToClientMsg, Replacing, JoinsOnly
<1>2. \A kind : Waited(kind, HostDone) /\ kind # "JOIN" =>
         /\ spc = "wait" /\ HostDone /\ kind = job.kind
         /\ kind \in JoinKinds /\ (kind # "RESET_ALL" => job.c # Host)
         /\ kind # "SYNC_AFTER_ROM" /\ tasks # <<>>
  BY <1>1 DEF Waited, JoinsOnly, IsJoinTask, JoinKinds, LockStep, Alone, JobAtHead
<1>3. CASE StartTask
  <2>1. /\ tasks # <<>> /\ job' = Head(tasks) /\ saidHello' = saidHello
        /\ clientPaused' = clientPaused
        /\ UNCHANGED <<wireVars, srvFrame, tasks, epoch, sendROM, syncByReset>>
    BY <1>3 DEF StartTask, NotReady, NoClientReady
  <2>2. JoinsOnly'
    <3>1. IsJoinTask(job')
      BY <1>1, <2>1
    <3> QED
      BY <1>1, <2>1, <3>1 DEF JoinsOnly, JoinKinds, IsJoinTask, clientVars
  <2>3. HostStays' /\ HostFlow'
    BY <2>1, HostUntouched DEF wireVars
  <2>4. \A d \in Clients : Served(d)
    BY <1>1, <2>1, PlainlyServed DEF wireVars
  <2> QED
    BY <2>1, <2>2, <2>3, <2>4 DEF ServedInStep
<1>4. CASE FinishJoin(HostDone)
  <2>1. /\ spc = "wait" /\ job.kind = "JOIN" /\ tasks' = tasks \o JoinTasks(job.c)
        /\ spc' = "clients" /\ saidHello' = saidHello /\ clientPaused' = clientPaused
        /\ UNCHANGED <<wireVars, srvFrame, epoch, sendROM, syncByReset>>
    BY <1>4 DEF FinishJoin, Waited, AddTasks, flags
  <2>2. JoinsOnly'
    <3>1. job.c # Host /\ job \in Jobs
      BY <1>1, <2>1, ServerTypes DEF JoinsOnly, IsJoinTask, JoinKinds, LockStep
    <3> DEFINE new == JoinTasks(job.c)
    <3>2. /\ new \in Seq(Tasks)
          /\ \A i \in 1 .. Len(new) : IsJoinTask(new[i])
      <4>1. job.c \in Clients
        BY <3>1 DEF Jobs
      <4>2. CASE syncByReset
        <5>1. new = <<Work("SEND_SRAM", job.c), Work("RESET_ALL", Nobody)>>
          BY <4>2 DEF JoinTasks
        <5>2. /\ Work("SEND_SRAM", job.c) \in Tasks /\ Work("RESET_ALL", Nobody) \in Tasks
              /\ IsJoinTask(Work("SEND_SRAM", job.c))
              /\ IsJoinTask(Work("RESET_ALL", Nobody))
          BY <1>1, <3>1, <4>1, <4>2
             DEF Work, Tasks, TaskKinds, IsJoinTask, JoinKinds, Nobody
        <5> HIDE DEF new
        <5> QED
          BY <5>1, <5>2
      <4>3. CASE ~syncByReset
        <5>1. new = <<Work("SYNC_CLIENT", job.c)>>
          BY <4>3 DEF JoinTasks
        <5>2. Work("SYNC_CLIENT", job.c) \in Tasks /\ IsJoinTask(Work("SYNC_CLIENT", job.c))
          BY <3>1, <4>1, <4>3 DEF Work, Tasks, TaskKinds, IsJoinTask, JoinKinds
        <5> HIDE DEF new
        <5> QED
          BY <5>1, <5>2
      <4> QED
        BY <4>2, <4>3
    <3>3. \A i \in 1 .. Len(tasks) : IsJoinTask(tasks[i])
      BY <1>1 DEF JoinsOnly
    <3>4. \A i \in 1 .. Len(tasks') : IsJoinTask(tasks'[i])
      <4> HIDE DEF new
      <4>1. tasks' = tasks \o new
        BY <2>1 DEF new
      <4> QED
        BY <1>1, <3>2, <3>3, <4>1
    <3>5. \A i \in 1 .. Len(tasks') : IsJoinTask(tasks[i])' <=> IsJoinTask(tasks'[i])
      BY <2>1 DEF IsJoinTask, JoinKinds
    <3> QED
      BY <1>1, <2>1, <3>4, <3>5 DEF JoinsOnly, clientVars
  <2>3. HostStays' /\ HostFlow'
    BY <2>1, HostUntouched DEF wireVars
  <2>4. \A d \in Clients : Served(d)
    BY <1>1, <2>1, PlainlyServed DEF wireVars
  <2> QED
    BY <2>1, <2>2, <2>3, <2>4 DEF ServedInStep
<1>5. CASE FinishSyncClient(HostDone, HostGame)
  <2> DEFINE msg == FreezeFile(srvFrame, HostGame)
  <2>1. /\ Waited("SYNC_CLIENT", HostDone) /\ SendTo({job.c} \cap connected, msg) /\ TaskDone
        /\ saidHello' = saidHello /\ clientPaused' = clientPaused
        /\ UNCHANGED <<toServer, srvFrame, epoch, sendROM, syncByReset>>
    BY <1>5 DEF FinishSyncClient, NotReady
  <2>2. job.c # Host /\ ~syncByReset /\ spc = "wait" /\ HostDone /\ tasks # <<>>
    BY <1>2, <2>1 DEF JoinKinds
  <2>3. /\ HostGame.kind = "session" /\ HostGame.frame = srvFrame /\ HostGame.epoch = epoch
        /\ HostGame \in Games
    BY <1>1, <2>2, SavedGame, GameTypes, MachineTypes DEF HostGame, LockStep
  <2>4. /\ msg \in ToClientMsgs /\ msg.type = "FREEZE_FILE" /\ msg.frame = srvFrame
        /\ msg.game = HostGame
    BY <1>1, <2>3, MessageTypes DEF FreezeFile, ToClientMsg
  <2> HIDE DEF msg
  <2>5. \A d \in Clients : Sendable(d, msg)
    BY <2>1, <2>2, <2>3, <2>4 DEF Sendable, Replacing
  <2>6. \A d \in Clients : Served(d)
    BY <2>1, <2>4, <2>5, SentTo DEF Served
  <2>7. toClient'[Host] = toClient[Host]
    BY <1>1, <2>1, <2>2, SentTo
  <2>8. HostStays' /\ HostFlow'
    BY <2>1, <2>7, HostUntouched
  <2> QED
    BY <2>1, <2>2, <2>6, <2>8, TaskDoneJoins DEF ServedInStep
<1>6. CASE FinishReset(HostDone)
  <2> DEFINE msg == Reset(srvFrame, At(epoch', srvFrame))
  <2>1. /\ Waited("RESET_ALL", HostDone) /\ epoch' = epoch + 1 /\ SendTo(saidHello, msg)
        /\ TaskDone /\ saidHello' = saidHello /\ clientPaused' = clientPaused
        /\ UNCHANGED <<toServer, srvFrame, sendROM, syncByReset>>
    BY <1>6 DEF FinishReset, flags
  <2>2. syncByReset /\ tasks # <<>>
    BY <1>2, <2>1 DEF JoinKinds
  <2>3. /\ msg \in ToClientMsgs /\ msg.type = "RESET" /\ msg.frame = srvFrame
        /\ msg.game.kind = "session" /\ msg.game.frame = srvFrame /\ msg.game.epoch = epoch'
    <3>1. At(epoch', srvFrame) \in Games
      BY <1>1, <2>1, GameTypes
    <3> QED
      BY <1>1, <3>1, MessageTypes DEF Reset, ToClientMsg, At, Game
  <2> HIDE DEF msg
  <2>4. \A d \in saidHello : Sendable(d, msg)
    BY <2>1, <2>2, <2>3 DEF Sendable, Replacing
  <2>5. \A d \in Clients : Served(d)
    <3> SUFFICES ASSUME NEW d \in Clients PROVE Served(d)
      OBVIOUS
    <3>1. CASE d \in saidHello
      BY <2>1, <2>3, <2>4, <3>1, SentTo DEF Served
    <3>2. CASE d \notin saidHello
      BY <2>1, <2>2, <3>2, SentTo DEF Served
    <3> QED
      BY <3>1, <3>2
  <2>6. HostStays'
    <3>1. /\ HostStays /\ InSession(Host) /\ toClient[Host] \in Seq(ToClientMsgs)
      BY MachineTypes DEF LockStep, StepInv, HostStays
    <3>2. toClient'[Host] = Append(toClient[Host], msg)
      BY <1>1, <2>1, SentTo
    <3>3. ForHost' = ForHost /\ FromHost' = FromHost /\ "RESET" \in ForHost
      BY <1>1, <2>1, <2>2, NotPaused DEF Waited, Resetting, ForHost, FromHost
    <3>4. \A i \in 1 .. Len(toClient'[Host]) : toClient'[Host][i].type \in ForHost'
      BY <2>3, <3>1, <3>2, <3>3, AppendElements DEF HostStays
    <3> QED
      BY <2>1, <3>1, <3>3, <3>4 DEF Resetting, HostStays, InSession, clientVars
  <2>7. HostFlow'
    BY <2>1, <2>2 DEF HostFlow
  <2> QED
    BY <2>1, <2>2, <2>5, <2>6, <2>7, TaskDoneJoins DEF ServedInStep
<1>7. CASE FinishSendSram(HostDone)
  <2>1. /\ Waited("SEND_SRAM", HostDone) \/ Waited("SEND_SRAM_ALL", HostDone)
        /\ TaskDone /\ saidHello' = saidHello /\ clientPaused' = clientPaused
        /\ UNCHANGED <<toServer, srvFrame, epoch, sendROM, syncByReset>>
    BY <1>7 DEF FinishSendSram, flags
  <2>2. ~Waited("SEND_SRAM_ALL", HostDone)
    BY <1>2 DEF JoinKinds
  <2>3. job.c # Host /\ tasks # <<>> /\ SendTo({job.c} \cap connected, SramData)
    BY <1>2, <1>7, <2>1, <2>2 DEF FinishSendSram
  <2>4. toClient'[Host] = toClient[Host]
    BY <1>1, <2>3, SentTo
  <2>5. HostStays' /\ HostFlow'
    BY <2>1, <2>4, HostUntouched
  <2>6. \A d \in Clients : Served(d)
    BY <1>1, <2>1, <2>3, PlainlyServed
  <2> QED
    BY <2>1, <2>3, <2>5, <2>6, TaskDoneJoins DEF ServedInStep
<1>8. ~(FinishSyncAll(HostDone, HostGame) \/ FinishSendRomImage(HostDone))
  BY <1>2 DEF FinishSyncAll, FinishSendRomImage, JoinKinds
<1> QED
  BY <1>3, <1>4, <1>5, <1>6, <1>7, <1>8

\* The three steps of the server before the host has said hello.
LEMMA HostJoinsInStep ==
    ASSUME LockStep, UNCHANGED <<clientVars, uiTask>>, Host \notin saidHello,
           AcceptClient(Host) \/ ProcessHello(Host) \/ ProcessReadyFirst(Host)
    PROVE  ServedInStep /\ HostFirst'
<1>1. /\ HostFirst /\ HostStays /\ HostFlow /\ JoinsOnly /\ Host \in Clients
      /\ connected \subseteq {Host} /\ srvFrame = 0 /\ epoch = 0 /\ ~waiting[Host]
      /\ \A c \in Remotes : cpc[c] = "off" /\ toServer[c] = <<>>
      /\ tasks = <<>> /\ spc = "clients" /\ HostJoins
      /\ toClient \in [Clients -> Seq(ToClientMsgs)]
      /\ toServer \in [Clients -> Seq(ToServerMsgs)]
      /\ SramData \in ToClientMsgs /\ SramData.type \notin Replacing
  BY WireAssumption, MachineTypes, MessageTypes
     DEF LockStep, StepInv, HostFirst, SramData, ToClientMsg, Replacing
<1>2. numClients <= 1
  <2>1. Cardinality(connected) = numClients /\ IsFiniteSet({Host}) /\ Cardinality({Host}) = 1
    BY FS_Singleton DEF LockStep, TypeInv, Table, ClientsCounted
  <2> QED
    BY <1>1, <2>1, FS_Subset
<1>3. CASE AcceptClient(Host)
  <2>1. /\ UNCHANGED <<wireVars, srvFrame, tasks, spc, job, epoch, sendROM, syncByReset>>
        /\ connected' = connected \cup {Host} /\ Host \notin connected
        /\ saidHello' = saidHello \ {Host} /\ toServer[Host] # <<>>
    BY <1>3 DEF AcceptClient
  <2>2. HostFirst'
    BY <1>1, <2>1 DEF HostFirst, HostJoins, clientVars, wireVars
  <2>3. \A d \in Clients : Served(d)
    <3>1. saidHello \subseteq saidHello'
      BY <2>1, ServerTypes DEF LockStep
    <3> QED
      BY <1>1, <2>1, <3>1, PlainlyServed DEF wireVars
  <2>4. ~InSession(Host)
    BY <1>1, <2>1 DEF HostJoins, InSession
  <2>5. HostStays' /\ HostFlow'
    BY <1>1, <2>1, <2>4 DEF HostStays, HostFlow, InSession, clientVars
  <2> QED
    BY <2>1, <2>2, <2>3, <2>5, JoinsUntouched DEF ServedInStep
<1>4. CASE ProcessHello(Host)
  <2>1. /\ Receive(Host, "HELLO") /\ SendTo({Host}, Hello(srvFrame, sendROM /\ numClients > 1))
        /\ UNCHANGED <<flags, srvFrame, tasks, spc, job, epoch, sendROM, syncByReset>>
    BY <1>4 DEF ProcessHello
  <2>2. Hello(srvFrame, sendROM /\ numClients > 1) = Hello(0, FALSE)
    <3>1. numClients \in Nat
      BY CountIsNat DEF LockStep, TypeInv
    <3>2. (sendROM /\ numClients > 1) = FALSE
      BY <1>2, <3>1
    <3> QED
      BY <1>1, <3>2
  <2>3. /\ Hello(0, FALSE) \in ToClientMsgs /\ Hello(0, FALSE).type \notin Replacing
    BY MessageTypes DEF Hello, ToClientMsg, Replacing
  <2>4. /\ toServer[Host] # <<>> /\ Head(toServer[Host]) = "HELLO" /\ Host \in connected
        /\ toServer'[Host] = Tail(toServer[Host])
        /\ \A d \in Clients \ {Host} : toServer'[d] = toServer[d]
    BY <1>1, <2>1, ReceivedFrom DEF LockStep
  <2>5. cpc[Host] = "hello" /\ toClient[Host] = <<>> /\ Tail(toServer[Host]) = <<>>
    BY <2>4, HostMessage
  <2>6. toClient'[Host] = <<Hello(0, FALSE)>>
    <3>1. toClient'[Host] = Append(toClient[Host], Hello(0, FALSE))
      BY <1>1, <2>1, <2>2, SentTo
    <3>2. \A msg : Append(<<>>, msg) = <<msg>>
      OBVIOUS
    <3> QED
      BY <2>5, <3>1, <3>2
  <2>7. HostFirst'
    BY <1>1, <2>1, <2>4, <2>5, <2>6 DEF HostFirst, HostJoins, clientVars, flags, Remotes
  <2>8. \A d \in Clients : Served(d)
    <3> SUFFICES ASSUME NEW d \in Clients PROVE Served(d)
      OBVIOUS
    <3>1. toClient'[d] = toClient[d] \/ toClient'[d] = Append(toClient[d], Hello(0, FALSE))
      BY <2>1, <2>2, SentTo
    <3> QED
      BY <2>1, <2>3, <2>4, <3>1 DEF Served, Sendable, flags
  <2>9. HostStays' /\ HostFlow'
    BY <1>1, <2>1, <2>5 DEF HostStays, HostFlow, InSession, clientVars, flags
  <2> QED
    BY <2>1, <2>7, <2>8, <2>9, JoinsUntouched DEF ServedInStep
<1>5. CASE ProcessReadyFirst(Host)
  <2>1. /\ Receive(Host, "READY") /\ saidHello' = saidHello \cup {Host}
        /\ UNCHANGED <<toClient, srvFrame, tasks, epoch, sendROM, syncByReset>>
        /\ numClients > 1 \/ UNCHANGED <<spc, job>>
    BY <1>5 DEF ProcessReadyFirst, Joins
  <2>2. UNCHANGED <<spc, job>>
    <3>1. numClients \in Nat
      BY CountIsNat DEF LockStep, TypeInv
    <3> QED
      BY <1>2, <2>1, <3>1
  <2>3. /\ toServer[Host] # <<>> /\ Head(toServer[Host]) = "READY"
        /\ toServer'[Host] = Tail(toServer[Host])
        /\ \A d \in Clients \ {Host} : toServer'[d] = toServer[d]
    BY <1>1, <2>1, ReceivedFrom DEF LockStep
  <2>4. cpc[Host] = "loop" /\ toServer'[Host] = <<>> /\ Len(<<>>) = 0
    BY <2>3, HostMessage
  <2>5. HostFirst'
    BY <2>1 DEF HostFirst
  <2>6. \A d \in Clients : Served(d)
    BY <2>1, <2>3 DEF Served
  <2>7. HostStays' /\ HostFlow'
    BY <1>1, <2>1, <2>4
       DEF HostStays, HostFlow, InSession, Tokens, clientVars, ForHost, Resetting
  <2> QED
    BY <2>1, <2>2, <2>5, <2>6, <2>7, JoinsUntouched DEF ServedInStep
<1> QED
  BY <1>3, <1>4, <1>5

LEMMA ServerInStep ==
    ASSUME LockStep, ServerStep
    PROVE  StepInv'
<1>1. UNCHANGED <<clientVars, uiTask>>
  BY DEF ServerStep, hostVars
<1>2. syncByReset' = syncByReset
  BY DEF ServerStep, ServerThread, SendHeartBeat, AcceptClient, ProcessHello,
         ProcessReadyFirst, ProcessReadyAgain, ProcessWaitingForRomImage,
         ProcessReceivedRomImage, ProcessPause, ShutdownClient, StartTask, FinishJoin,
         FinishSyncClient, FinishSyncAll, FinishReset, FinishSendSram, FinishSendRomImage
<1>3. ServedInStep /\ HostFirst'
  <2>1. CASE Host \notin saidHello
    BY <1>1, <2>1, BeforeHost, HostJoinsInStep
  <2>2. CASE Host \in saidHello
    <3>1. CASE SendHeartBeat(userPaused[Host] \/ (Timely /\ ~NetworkFast))
      <4>1. saidHello' = saidHello
        BY <3>1 DEF SendHeartBeat, flags
      <4> QED
        BY <1>1, <2>2, <3>1, <4>1, HeartbeatInStep DEF ServedInStep, HostFirst
    <3>2. ASSUME NEW c \in Clients,
                 \/ AcceptClient(c) \/ ProcessHello(c) \/ ProcessReadyFirst(c)
                 \/ ProcessReadyAgain(c) \/ ProcessWaitingForRomImage(c)
                 \/ ProcessReceivedRomImage(c) \/ ProcessPause(c) \/ ShutdownClient(c)
          PROVE  ServedInStep /\ HostFirst'
      BY <1>1, <2>2, <3>2, MessageInStep DEF HostFirst
    <3>3. CASE \/ StartTask \/ FinishJoin(HostDone)
               \/ FinishSyncClient(HostDone, HostGame) \/ FinishSyncAll(HostDone, HostGame)
               \/ FinishReset(HostDone) \/ FinishSendSram(HostDone)
               \/ FinishSendRomImage(HostDone)
      BY <1>1, <2>2, <3>3, TaskInStep DEF HostFirst
    <3> QED
      BY <3>1, <3>2, <3>3 DEF ServerStep, ServerThread
  <2> QED
    BY <2>1, <2>2
<1>4. \A c \in Clients : MachineInStep(c)'
  BY <1>1, <1>2, <1>3, MachineServed DEF ServedInStep
<1> QED
  BY <1>3, <1>4 DEF StepInv, ServedInStep

-----------------------------------------------------------------------------
LEMMA StepNext ==
    ASSUME Undisturbed, NoticedInv, Alone, unnoticed = {}, StepInv, [Next]_vars
    PROVE  StepInv'
<1>1. Host \in Clients \ MayLeave
  BY WireAssumption, NetPlayAssumption DEF Remotes
<1>2. LockStep
  BY <1>1, NotUnnoticed DEF LockStep, NoticedInv
<1>3. CASE UNCHANGED vars
  BY <1>2, <1>3, StepKept DEF vars, clientVars, hostVars, Stays
<1>4. ASSUME NEW c \in Clients, EmulationStep(c) PROVE StepInv'
  BY <1>2, <1>4, EmulationInStep DEF EmulationStep, hostVars
<1>5. ASSUME NEW c \in Clients, ClientStep(c) PROVE StepInv'
  BY <1>2, <1>5, ClientInStep DEF ClientStep, hostVars
<1> QED
  BY <1>2, <1>3, <1>4, <1>5, ServerInStep, UsersInStep DEF Next

LEMMA StepInit ==
    ASSUME Init
    PROVE  StepInv
<1>1. /\ toServer = [c \in Clients |-> <<>>] /\ toClient = [c \in Clients |-> <<>>]
      /\ cpc = [c \in Clients |-> "off"] /\ pc = [c \in Clients |-> "top"]
      /\ waiting = [c \in Clients |-> FALSE] /\ userPaused = [c \in Clients |-> FALSE]
      /\ connected = {} /\ saidHello = {} /\ srvFrame = 0 /\ epoch = 0
      /\ tasks = <<>> /\ spc = "clients" /\ uiTask = "none" /\ Host \in Clients
      /\ Len(<<>>) = 0
  BY WireAssumption DEF Init, ClientInit, ServerInit
<1>2. JoinsOnly
  BY <1>1 DEF JoinsOnly
<1>3. HostFirst
  BY <1>1 DEF HostFirst, HostJoins, Remotes
<1>4. HostStays /\ HostFlow
  BY <1>1 DEF HostStays, HostFlow, InSession
<1>5. \A c \in Clients : MachineInStep(c)
  BY <1>1 DEF MachineInStep, Played, InSession
<1> QED
  BY <1>2, <1>3, <1>4, <1>5 DEF StepInv

StepAll == NoticedInv /\ Alone /\ (unnoticed = {} => StepInv)

LEMMA StepAllHolds == Undisturbed => (Spec => []StepAll)
<1> SUFFICES ASSUME Undisturbed PROVE Spec => []StepAll
  OBVIOUS
<1>1. Init => StepAll
  BY NoticedInit, AloneInit, StepInit DEF StepAll
<1>2. StepAll /\ [Next]_vars => StepAll'
  <2> SUFFICES ASSUME StepAll, [Next]_vars PROVE StepAll'
    OBVIOUS
  <2>1. NoticedInv /\ TypeInv /\ Calm
    BY DEF StepAll, NoticedInv, Undisturbed
  <2>2. unnoticed' = {} => unnoticed = {}
    BY <2>1, Noted
  <2> QED
    BY <2>1, <2>2, NoticedNext, AloneNext, StepNext DEF StepAll
<1> QED
  BY <1>1, <1>2, PTL DEF Spec

\* Lock step: in a session whose users do not resync, and do not pause unless the host
\* plays alone, every machine that has the session's game has played it to exactly the
\* frame its FrameCount tells, and it is the game of the last reset, however many
\* machines join, fall behind and ask for a pause, leave and return
\* (Snes9xController.cpp, netplayPush; server.cpp, S9xNPSyncClient, S9xNPServerLoop).
THEOREM GameInStepInv == Undisturbed => (Spec => []GameInStep)
<1> SUFFICES ASSUME Undisturbed PROVE Spec => []GameInStep
  OBVIOUS
<1>1. StepAll => GameInStep
  <2> SUFFICES ASSUME TypeInv, StepInv, NEW c \in Clients, Settled(c)
               PROVE  game[c] = At(epoch, IF FrameAhead(c) THEN frameCount[c] - 1
                                                           ELSE frameCount[c])
    BY DEF StepAll, NoticedInv, GameInStep
  <2>1. /\ InSession(c) /\ ~InFlight(c, Replacing) /\ game[c] # Foreign
        /\ Played(c) /\ game[c] \in Games
    BY MachineTypes DEF Settled, InFlight, Replacing, SyncTypes, StepInv, MachineInStep
  <2>2. /\ game[c].kind = "session" /\ game[c].epoch = epoch
        /\ game[c].frame = IF FrameAhead(c) THEN frameCount[c] - 1 ELSE frameCount[c]
    BY <2>1 DEF Played
  <2>3. game[c] = [kind |-> game[c].kind, epoch |-> game[c].epoch, frame |-> game[c].frame]
    BY <2>1 DEF Games
  <2> QED
    BY <2>2, <2>3 DEF At, Game
<1> QED
  BY <1>1, StepAllHolds, PTL
-----------------------------------------------------------------------------
(***************************************************************************)
(* How a machine enters the session.  Nobody asks for a resync, so that    *)
(* all tasks are those of joins.  A slot is used once: nobody joins after  *)
(* somebody has left.  (A task names a slot and may be meant for the       *)
(* machine that had it before.)                                            *)
(***************************************************************************)
SlotsOnce == MayLeave = {} \/ ~MayReturn

OnlyJoins ==
    /\ uiTask = "none" /\ \A c \in Clients : pc[c] # "drain"
    /\ \A i \in 1 .. Len(tasks) : tasks[i].kind \in JoinKinds

NoEnds ==
    \A c \in Clients : cpc[c] # "off" =>
        \A i \in 1 .. Len(toServer[c]) : toServer[c][i] # "EOF"

\* c has left; the server may not know yet.
Gone(c) == cpc[c] = "off" /\ c \in MayLeave /\ events > 0

\* No task and no job is about c.
ForNobody(c) ==
    /\ \A i \in 1 .. Len(tasks) : tasks[i].kind # "RESET_ALL" => tasks[i].c # c
    /\ spc = "wait" /\ job.kind # "RESET_ALL" => job.c # c

\* Before its first READY is read a machine is sent the answer to its HELLO,
\* and nothing else.
Joining(c) ==
    /\ cpc[c] = "off" => c \notin connected /\ toServer[c] = <<>>
    /\ cpc[c] = "hello" =>
          /\ c \notin saidHello
          /\ \/ toServer[c] = <<"HELLO">> /\ toClient[c] = <<>>
             \/ /\ c \in connected /\ toServer[c] = <<>>
                /\ Len(toClient[c]) = 1 /\ toClient[c][1].type \in HelloTypes
    /\ InSession(c) =>
          /\ c \in connected
          /\ \A i \in 1 .. Len(toServer[c]) : toServer[c][i] # "HELLO"
          /\ \A i \in 1 .. Len(toClient[c]) : toClient[c][i].type \notin HelloTypes
          /\ c \notin saidHello => toClient[c] = <<>> /\ game[c] = Foreign
    /\ c \notin saidHello => ForNobody(c)

JoinInv == \A c \in Remotes : Gone(c) \/ Joining(c)

JoinStep == TypeInv /\ Calm /\ Alone /\ OnlyJoins /\ NoEnds /\ SlotsOnce /\ JoinInv

LEMMA LockStepJoins ==
    ASSUME LockStep, SlotsOnce, JoinInv
    PROVE  JoinStep
  BY DEF LockStep, Undisturbed, StepInv, JoinsOnly, IsJoinTask, MachineInStep, JoinStep,
         OnlyJoins, NoEnds

\* A step of another machine.
LEMMA JoiningKept ==
    ASSUME NEW c \in Remotes, UNCHANGED serverVars, Joining(c),
           UNCHANGED <<toServer[c], toClient[c], cpc[c], game[c]>>
    PROVE  Joining(c)'
<1>1. ForNobody(c)' <=> ForNobody(c)
  BY DEF ForNobody, serverVars
<1> QED
  BY <1>1 DEF Joining, serverVars, InSession

\* The server has no job but what joins are queued for.
LEMMA JoinJob ==
    ASSUME TypeInv, Alone, OnlyJoins, spc = "wait", job.kind # "JOIN"
    PROVE  job.kind \in JoinKinds /\ tasks # <<>> /\ Head(tasks) = job /\ job = tasks[1]
           /\ 1 \in 1 .. Len(tasks)
<1>1. tasks # <<>> /\ Head(tasks) = tasks[1] /\ 1 \in 1 .. Len(tasks)
  BY ServerTypes DEF Alone, JobAtHead
<1>2. tasks[1].kind \in JoinKinds
  BY <1>1 DEF OnlyJoins
<1>3. "SEND_ROM_IMAGE" \notin JoinKinds
  BY DEF JoinKinds
<1> QED
  BY <1>1, <1>2, <1>3 DEF Alone, JobAtHead

\* What users do who ask for no resync.
LEMMA CalmUsers ==
    ASSUME TypeInv, Calm, Alone, Users \/ FrontEnd
    PROVE  \E d \in Clients : \/ NewConnection(d) \/ LeaveSession(d) \/ PauseGame(d)
                              \/ ResumeGame(d) \/ Unannounce(d)
  BY AloneUsers, AloneFrontEnd

LEMMA RemoteTypes ==
    ASSUME TypeInv
    PROVE  /\ Remotes \subseteq Clients /\ events \in Nat
           /\ toServer \in [Clients -> Seq(ToServerMsgs)]
           /\ toClient \in [Clients -> Seq(ToClientMsgs)]
           /\ cpc \in [Clients -> {"off", "hello", "loop", "pausing", "drain"}]
           /\ game \in [Clients -> Games]
  BY MachineTypes, NetPlayAssumption DEF TypeInv, TypeOK, Remotes

LEMMA JoinEmulation ==
    ASSUME JoinStep, NEW d \in Clients, NEW quiet, EmulationThread(d, quiet),
           UNCHANGED <<serverVars, hostVars>>
    PROVE  JoinInv'
<1> SUFFICES ASSUME NEW c \in Remotes PROVE Gone(c)' \/ Joining(c)'
  BY DEF JoinInv
<1>1. /\ UNCHANGED <<toClient, cpc>> /\ InSession(d) /\ events' = events
      /\ \A e \in Clients \ {d} : UNCHANGED Machine(e)
  BY EmulationLocal DEF JoinStep, hostVars
<1>2. CASE Gone(c)
  BY <1>1, <1>2 DEF Gone
<1>3. CASE Joining(c) /\ c # d
  BY <1>1, <1>3, JoiningKept, RemoteTypes DEF JoinStep, Machine
<1>4. CASE Joining(c) /\ c = d
  <2>1. toServer'[c] = toServer[c] \/ toServer'[c] = Append(toServer[c], "RESUME")
    BY <1>4, EmulationSends DEF JoinStep
  <2>2. /\ toServer[c] \in Seq(ToServerMsgs) /\ "RESUME" \in ToServerMsgs
        /\ game \in [Clients -> Games] /\ c \in Clients
    BY RemoteTypes DEF JoinStep, ToServerMsgs
  <2>3. \A i \in 1 .. Len(toServer'[c]) : toServer'[c][i] # "HELLO"
    <3>1. \A i \in 1 .. Len(toServer[c]) : toServer[c][i] # "HELLO"
      BY <1>1, <1>4 DEF Joining
    <3> QED
      BY <2>1, <2>2, <3>1, AppendElements
  <2>4. game[c] = Foreign => game'[c] = Foreign
    <3>1. Foreign.kind # "session"
      BY DEF Foreign, Game
    <3>2. CASE EndFrame(c)
      BY <2>2, <3>1, <3>2 DEF EndFrame
    <3>3. CASE ~EndFrame(c)
      BY <1>4, <3>3 DEF EmulationThread, PushPending, PushReady, TakeBack, SyncSpeedToken,
                        SyncSpeedTimeout
    <3> QED
      BY <3>2, <3>3
  <2>5. ForNobody(c)' <=> ForNobody(c)
    BY DEF ForNobody, serverVars
  <2> QED
    BY <1>1, <1>4, <2>3, <2>4, <2>5 DEF Joining, InSession, serverVars
<1> QED
  BY <1>2, <1>3, <1>4 DEF JoinStep, JoinInv

LEMMA JoinClient ==
    ASSUME JoinStep, NEW d \in Clients, ClientThread(d), UNCHANGED <<serverVars, hostVars>>
    PROVE  JoinInv'
<1> SUFFICES ASSUME NEW c \in Remotes PROVE Gone(c)' \/ Joining(c)'
  BY DEF JoinInv
<1>1. /\ cpc[d] # "off" /\ events' = events /\ c \in Clients
      /\ \A e \in Clients \ {d} : UNCHANGED Machine(e)
  BY ClientLocal, RemoteTypes DEF JoinStep, hostVars
<1>2. CASE Gone(c)
  BY <1>1, <1>2 DEF Gone, Machine
<1>3. CASE Joining(c) /\ c # d
  BY <1>1, <1>3, JoiningKept DEF Machine
<1>4. CASE Joining(c) /\ c = d
  <2>1. /\ toServer \in [Clients -> Seq(ToServerMsgs)] /\ toClient \in [Clients -> Seq(ToClientMsgs)]
        /\ cpc \in [Clients -> {"off", "hello", "loop", "pausing", "drain"}]
        /\ game \in [Clients -> Games]
        /\ {"READY", "PAUSE", "WAITING_FOR_ROM_IMAGE", "RECEIVED_ROM_IMAGE"} \subseteq ToServerMsgs
    BY RemoteTypes DEF JoinStep, ToServerMsgs
  <2>2. ForNobody(c)' <=> ForNobody(c)
    BY DEF ForNobody, serverVars
  <2>3. CASE RecvHello(c)
    <3>1. cpc[c] = "hello" /\ toClient[c] # <<>> /\ toClient'[c] = Tail(toClient[c])
      BY <1>1, <2>1, <2>3 DEF RecvHello
    <3>2. /\ c \in connected /\ c \notin saidHello /\ toServer[c] = <<>>
          /\ Len(toClient[c]) = 1 /\ toClient[c][1].type \in HelloTypes
      BY <1>4, <3>1 DEF Joining
    <3>3. toClient'[c] = <<>> /\ Head(toClient[c]) = toClient[c][1]
      <4>1. toClient[c] \in Seq(ToClientMsgs)
        BY <1>1, <2>1
      <4>2. /\ Tail(toClient[c]) \in Seq(ToClientMsgs) /\ Len(Tail(toClient[c])) = 0
            /\ Head(toClient[c]) = toClient[c][1]
        BY <3>1, <3>2, <4>1
      <4> QED
        BY <3>1, <4>2, EmptySeq
    <3>4. /\ cpc'[c] = "loop" /\ game'[c] = Foreign
          /\ toServer'[c] = Append(<<>>, "READY")
               \/ toServer'[c] = Append(<<>>, "WAITING_FOR_ROM_IMAGE")
      BY <1>1, <2>1, <2>3, <3>2, <3>3 DEF RecvHello, SendToServer, Remotes
    <3>5. Len(toServer'[c]) = 1 /\ toServer'[c][1] # "HELLO"
      BY <3>4
    <3> QED
      BY <1>4, <2>2, <3>2, <3>3, <3>4, <3>5 DEF Joining, InSession, serverVars
  <2>4. CASE ~RecvHello(c)
    <3>1. /\ InSession(c) /\ InSession(c)'
          /\ toClient[c] = <<>> => game'[c] = game[c]
          /\ toClient'[c] = toClient[c] \/ (toClient[c] # <<>> /\ toClient'[c] = Tail(toClient[c]))
      <4> USE <1>1, <2>1 DEF InSession
      <4>1. CASE RecvHeartbeat(c)
        BY <4>1 DEF RecvHeartbeat
      <4>2. CASE SendPause(c) \/ RecvSync(c) \/ ClientDiscard(c)
        BY <4>2 DEF SendPause, RecvSync, ClientDiscard, wireVars
      <4>3. CASE ReplaceGame(c) \/ ReplaceRom(c) \/ ReplaceSram(c)
        BY <4>3 DEF ReplaceGame, ReplaceRom, ReplaceSram, DiscardDone
      <4> QED
        BY <1>4, <2>4, <4>1, <4>2, <4>3 DEF ClientThread
    <3>2. \/ toServer'[c] = toServer[c]
          \/ \E msg \in {"READY", "PAUSE", "WAITING_FOR_ROM_IMAGE", "RECEIVED_ROM_IMAGE"} :
                toServer'[c] = Append(toServer[c], msg)
      BY <1>1, <1>4, <3>1, ClientLocal DEF JoinStep, InSession
    <3>3. \A i \in 1 .. Len(toServer'[c]) : toServer'[c][i] # "HELLO"
      <4>1. /\ \A i \in 1 .. Len(toServer[c]) : toServer[c][i] # "HELLO"
            /\ toServer[c] \in Seq(ToServerMsgs)
        BY <1>1, <1>4, <2>1, <3>1 DEF Joining
      <4>2. \A m \in ToServerMsgs : m # "HELLO" =>
               \A i \in 1 .. Len(Append(toServer[c], m)) : Append(toServer[c], m)[i] # "HELLO"
        BY <4>1, AppendElements
      <4> QED
        BY <2>1, <3>2, <4>1, <4>2
    <3>4. \A i \in 1 .. Len(toClient'[c]) : toClient'[c][i].type \notin HelloTypes
      <4>1. /\ \A i \in 1 .. Len(toClient[c]) : toClient[c][i].type \notin HelloTypes
            /\ toClient[c] \in Seq(ToClientMsgs)
        BY <1>1, <1>4, <2>1, <3>1 DEF Joining
      <4>2. toClient[c] # <<>> =>
               \A i \in 1 .. Len(Tail(toClient[c])) : Tail(toClient[c])[i].type \notin HelloTypes
        BY <4>1, TailElements
      <4> QED
        BY <3>1, <4>1, <4>2
    <3>5. c \notin saidHello => toClient'[c] = <<>> /\ game'[c] = Foreign
      BY <1>4, <3>1 DEF Joining
    <3> QED
      BY <1>4, <2>2, <3>1, <3>3, <3>4, <3>5 DEF Joining, InSession, serverVars
  <2> QED
    BY <2>3, <2>4
<1> QED
  BY <1>2, <1>3, <1>4 DEF JoinStep, JoinInv

LEMMA JoinUsers ==
    ASSUME JoinStep, Users \/ FrontEnd
    PROVE  JoinInv'
<1> SUFFICES ASSUME NEW c \in Remotes PROVE Gone(c)' \/ Joining(c)'
  BY DEF JoinInv
<1>0. /\ TypeInv /\ c \in Clients /\ events \in Nat /\ saidHello \subseteq connected
      /\ SlotsOnce /\ (Gone(c) \/ Joining(c))
  BY RemoteTypes, ServerTypes DEF JoinStep, JoinInv, LockStep
<1>1. CASE \E d \in Clients : NewConnection(d)
  <2>1. PICK d \in Clients : NewConnection(d)
    BY <1>1
  <2>2. /\ cpc[d] = "off" /\ cpc'[d] = "hello" /\ (MayReturn \/ events = 0)
        /\ toServer'[d] = <<"HELLO">> /\ toClient'[d] = <<>>
        /\ UNCHANGED serverVars /\ events' = events
        /\ \A e \in Clients \ {d} : UNCHANGED Machine(e)
    BY <2>1, MachineTypes DEF NewConnection, Connect, hostVars, Machine, JoinStep
  <2>3. CASE c = d
    <3>1. ~Gone(c)
      BY <1>0, <2>2, NetPlayAssumption DEF SlotsOnce, Gone
    <3>2. Joining(c) /\ c \notin connected /\ c \notin saidHello
      BY <1>0, <2>2, <2>3, <3>1 DEF Joining
    <3>3. ForNobody(c)'
      BY <2>2, <3>2 DEF Joining, ForNobody, serverVars
    <3> QED
      BY <2>2, <2>3, <3>2, <3>3 DEF Joining, InSession, serverVars
  <2>4. CASE c # d
    <3>1. UNCHANGED Machine(c)
      BY <1>0, <2>2, <2>4
    <3>2. CASE Gone(c)
      BY <2>2, <3>1, <3>2 DEF Gone, Machine
    <3> QED
      BY <1>0, <2>2, <3>1, <3>2, JoiningKept DEF Machine
  <2> QED
    BY <2>3, <2>4
<1>2. CASE \E d \in Clients : LeaveSession(d)
  <2>1. PICK d \in Clients : LeaveSession(d)
    BY <1>2
  <2>2. /\ cpc'[d] = "off" /\ d \in MayLeave /\ UNCHANGED serverVars /\ events' = events + 1
        /\ \A e \in Clients \ {d} : UNCHANGED Machine(e)
    BY <2>1, MachineTypes
       DEF LeaveSession, Leave, Event, SendToServer, Machine, JoinStep
  <2>3. CASE c = d
    BY <1>0, <2>2, <2>3 DEF Gone
  <2>4. CASE c # d
    <3>1. UNCHANGED Machine(c)
      BY <1>0, <2>2, <2>4
    <3>2. CASE Gone(c)
      BY <1>0, <2>2, <3>1, <3>2 DEF Gone, Machine
    <3> QED
      BY <1>0, <2>2, <3>1, <3>2, JoiningKept DEF Machine
  <2> QED
    BY <2>3, <2>4
<1>3. CASE \E d \in Clients : PauseGame(d) \/ ResumeGame(d) \/ Unannounce(d)
  <2>1. /\ UNCHANGED <<wireVars, cpc, game, serverVars>> /\ events' \in {events, events + 1}
    BY <1>3 DEF PauseGame, ResumeGame, SetPaused, Unannounce, clientVars, hostVars, Event
  <2>2. UNCHANGED <<toServer[c], toClient[c], cpc[c], game[c]>>
    BY <2>1 DEF wireVars
  <2>3. CASE Gone(c)
    BY <1>0, <2>1, <2>2, <2>3 DEF Gone
  <2> QED
    BY <1>0, <2>1, <2>2, <2>3, JoiningKept
<1>4. \/ \E d \in Clients : NewConnection(d)
      \/ \E d \in Clients : LeaveSession(d)
      \/ \E d \in Clients : PauseGame(d) \/ ResumeGame(d) \/ Unannounce(d)
  BY CalmUsers DEF JoinStep
<1> QED
  BY <1>1, <1>2, <1>3, <1>4

\* What the server reads of a machine that is there.
LEMMA JoiningReceived ==
    ASSUME JoinStep, NEW c \in Remotes, Joining(c), NEW msg, Receive(c, msg)
    PROVE  /\ msg # "EOF"
           /\ msg = "HELLO" => /\ cpc[c] = "hello" /\ toServer[c] = <<"HELLO">>
                               /\ toClient[c] = <<>>
           /\ msg # "HELLO" => InSession(c)
<1>1. /\ c \in Clients /\ toServer[c] \in Seq(ToServerMsgs)
      /\ cpc[c] \in {"off", "hello", "loop", "pausing", "drain"}
  BY RemoteTypes DEF JoinStep
<1>2. /\ toServer[c] # <<>> /\ toServer[c][1] = msg /\ 1 \in 1 .. Len(toServer[c])
  BY <1>1, ReceivedFrom, TailElements DEF JoinStep
<1>3. cpc[c] # "off"
  BY <1>2 DEF Joining
<1>4. msg # "EOF"
  BY <1>1, <1>2, <1>3 DEF JoinStep, NoEnds
<1>5. CASE cpc[c] = "hello"
  <2>1. toServer[c] = <<"HELLO">> /\ toClient[c] = <<>>
    BY <1>2, <1>5 DEF Joining
  <2>2. msg = "HELLO"
    BY <1>2, <2>1
  <2> QED
    BY <1>4, <1>5, <2>1, <2>2
<1>6. CASE cpc[c] # "hello"
  <2>1. InSession(c)
    BY <1>3, <1>6 DEF InSession
  <2>2. msg # "HELLO"
    BY <1>2, <2>1 DEF Joining
  <2> QED
    BY <1>4, <2>1, <2>2
<1> QED
  BY <1>5, <1>6

\* What most steps of the server do to such a machine.
LEMMA JoiningServed ==
    ASSUME JoinStep, NEW c \in Remotes, Joining(c), UNCHANGED clientVars,
           c \notin saidHello' => ForNobody(c)',
           \/ /\ c \in connected' <=> c \in connected
              /\ c \in saidHello' <=> c \in saidHello
              /\ toServer'[c] = toServer[c] /\ toClient'[c] = toClient[c]
           \/ /\ InSession(c) /\ c \in saidHello' /\ c \in connected'
              /\ \/ toServer'[c] = toServer[c]
                 \/ toServer[c] # <<>> /\ toServer'[c] = Tail(toServer[c])
              /\ \/ toClient'[c] = toClient[c]
                 \/ \E msg \in ToClientMsgs : msg.type \notin HelloTypes
                                                /\ toClient'[c] = Append(toClient[c], msg)
    PROVE  Joining(c)'
<1>1. /\ cpc' = cpc /\ game' = game /\ (InSession(c)' <=> InSession(c))
      /\ toServer[c] \in Seq(ToServerMsgs) /\ toClient[c] \in Seq(ToClientMsgs)
  BY RemoteTypes DEF JoinStep, clientVars, InSession
<1>2. CASE /\ c \in connected' <=> c \in connected
           /\ c \in saidHello' <=> c \in saidHello
           /\ toServer'[c] = toServer[c] /\ toClient'[c] = toClient[c]
  BY <1>1, <1>2 DEF Joining
<1>3. CASE /\ InSession(c) /\ c \in saidHello' /\ c \in connected'
           /\ \/ toServer'[c] = toServer[c]
              \/ toServer[c] # <<>> /\ toServer'[c] = Tail(toServer[c])
           /\ \/ toClient'[c] = toClient[c]
              \/ \E msg \in ToClientMsgs : msg.type \notin HelloTypes
                                             /\ toClient'[c] = Append(toClient[c], msg)
  <2>1. /\ \A i \in 1 .. Len(toServer[c]) : toServer[c][i] # "HELLO"
        /\ \A i \in 1 .. Len(toClient[c]) : toClient[c][i].type \notin HelloTypes
    BY <1>3 DEF Joining
  <2>2. \A i \in 1 .. Len(toServer'[c]) : toServer'[c][i] # "HELLO"
    <3>1. toServer[c] # <<>> =>
            \A i \in 1 .. Len(Tail(toServer[c])) : Tail(toServer[c])[i] # "HELLO"
      BY <1>1, <2>1, TailElements
    <3> QED
      BY <1>3, <2>1, <3>1
  <2>3. \A i \in 1 .. Len(toClient'[c]) : toClient'[c][i].type \notin HelloTypes
    <3>1. \A m \in ToClientMsgs : m.type \notin HelloTypes =>
            \A i \in 1 .. Len(Append(toClient[c], m)) :
                Append(toClient[c], m)[i].type \notin HelloTypes
      BY <1>1, <2>1, AppendElements
    <3> QED
      BY <1>3, <2>1, <3>1
  <2> QED
    BY <1>1, <1>3, <2>2, <2>3 DEF Joining, InSession
<1> QED
  BY <1>2, <1>3

\* The types of the messages the server sends.
LEMMA SentTypes ==
    /\ SramData \in ToClientMsgs /\ SramData.type = "SRAM_DATA"
    /\ RomImage \in ToClientMsgs /\ RomImage.type = "ROM_IMAGE"
    /\ \A f \in Nat : /\ Heartbeat(f) \in ToClientMsgs /\ Heartbeat(f).type = "JOYPAD"
                      /\ Heartbeat(f).frame = f
    /\ \A f \in Nat : \A rom \in BOOLEAN :
         /\ Hello(f, rom) \in ToClientMsgs /\ Hello(f, rom).type \in HelloTypes
    /\ \A f \in Nat : \A g \in Games :
         /\ FreezeFile(f, g) \in ToClientMsgs /\ Reset(f, g) \in ToClientMsgs
         /\ FreezeFile(f, g).type = "FREEZE_FILE" /\ FreezeFile(f, g).frame = f
         /\ Reset(f, g).type = "RESET" /\ Reset(f, g).frame = f
  BY MessageTypes
     DEF SramData, RomImage, Heartbeat, Hello, FreezeFile, Reset, ToClientMsg, HelloTypes
\* The server reads a message of d.
ServerReads(d) ==
    \/ AcceptClient(d) \/ ProcessHello(d) \/ ProcessReadyFirst(d)
    \/ ProcessReadyAgain(d) \/ ProcessWaitingForRomImage(d)
    \/ ProcessReceivedRomImage(d) \/ ProcessPause(d) \/ ShutdownClient(d)

\* That leaves the other machines alone, and gives d's only a job.
LEMMA ReadsLocal ==
    ASSUME JoinStep, NEW d \in Clients, ServerReads(d)
    PROVE  /\ UNCHANGED <<srvFrame, tasks>>
           /\ UNCHANGED <<spc, job>> \/ (spc' = "wait" /\ job' = Work("JOIN", d) /\ d \in saidHello')
           /\ \A c \in Clients \ {d} :
                /\ c \in connected' <=> c \in connected
                /\ c \in saidHello' <=> c \in saidHello
                /\ c \in clientPaused' <=> c \in clientPaused
                /\ toServer'[c] = toServer[c] /\ toClient'[c] = toClient[c]
<1>1. CASE AcceptClient(d)
  BY <1>1 DEF AcceptClient, wireVars
<1> USE ReceivedFrom, SentTo DEF JoinStep
<1>2. CASE ProcessHello(d)
  BY <1>2 DEF ProcessHello, flags
<1>3. CASE ProcessReadyFirst(d)
  BY <1>3 DEF ProcessReadyFirst, Joins
<1>4. CASE ProcessReadyAgain(d)
  BY <1>4 DEF ProcessReadyAgain, Joins
<1>5. CASE ProcessWaitingForRomImage(d)
  BY <1>5 DEF ProcessWaitingForRomImage, Joins
<1>6. CASE ProcessReceivedRomImage(d)
  BY <1>6 DEF ProcessReceivedRomImage, Joins
<1>7. CASE ProcessPause(d)
  BY <1>7 DEF ProcessPause
<1>8. CASE ShutdownClient(d)
  BY <1>8 DEF ShutdownClient
<1> QED
  BY <1>1, <1>2, <1>3, <1>4, <1>5, <1>6, <1>7, <1>8 DEF ServerReads

LEMMA JoinReads ==
    ASSUME JoinStep, NEW d \in Clients, ServerReads(d), UNCHANGED clientVars,
           NEW c \in Remotes, Joining(c)
    PROVE  Joining(c)'
<1>1. /\ c \in Clients /\ saidHello \subseteq connected /\ srvFrame \in Nat
      /\ sendROM \in BOOLEAN
  BY RemoteTypes, ServerTypes DEF JoinStep, TypeInv, TypeOK, ServerTypeOK
<1>2. c \notin saidHello' => c = d \/ ForNobody(c)'
  <2> SUFFICES ASSUME c \notin saidHello', c # d PROVE ForNobody(c)'
    OBVIOUS
  <2>1. c \notin saidHello
    BY <1>1, ReadsLocal
  <2>2. ForNobody(c)
    BY <2>1 DEF Joining
  <2> QED
    BY <2>2, ReadsLocal DEF ForNobody, Work
<1>3. CASE c # d
  <2>1. /\ c \in connected' <=> c \in connected
        /\ c \in saidHello' <=> c \in saidHello
        /\ toServer'[c] = toServer[c] /\ toClient'[c] = toClient[c]
    BY <1>1, <1>3, ReadsLocal
  <2> QED
    BY <1>2, <1>3, <2>1, JoiningServed
<1>4. CASE c = d /\ AcceptClient(c)
  <2>1. /\ c \notin connected /\ toServer[c] # <<>> /\ connected' = connected \cup {c}
        /\ saidHello' = saidHello \ {c} /\ UNCHANGED <<wireVars, tasks, spc, job>>
    BY <1>4 DEF AcceptClient
  <2>2. cpc[c] = "hello"
    BY <2>1 DEF Joining, InSession
  <2>3. toServer[c] = <<"HELLO">> /\ toClient[c] = <<>> /\ c \notin saidHello
    BY <1>1, <2>1, <2>2 DEF Joining
  <2>4. ForNobody(c)'
    BY <2>1, <2>3 DEF Joining, ForNobody
  <2> QED
    BY <2>1, <2>2, <2>3, <2>4 DEF Joining, wireVars, clientVars, InSession
<1>5. CASE c = d /\ ProcessHello(c)
  <2> DEFINE msg == Hello(srvFrame, sendROM /\ numClients > 1)
  <2>1. /\ Receive(c, "HELLO") /\ SendTo({c}, msg) /\ UNCHANGED <<flags, tasks, spc, job>>
    BY <1>5 DEF ProcessHello
  <2>2. cpc[c] = "hello" /\ toServer[c] = <<"HELLO">> /\ toClient[c] = <<>>
    BY <2>1, JoiningReceived
  <2>3. msg.type \in HelloTypes
    BY <1>1, SentTypes
  <2> HIDE DEF msg
  <2>4. toClient'[c] = Append(<<>>, msg) /\ toServer'[c] = Tail(<<"HELLO">>)
    BY <1>1, <2>1, <2>2, SentTo, ReceivedFrom DEF JoinStep
  <2>5. toServer'[c] = <<>> /\ Len(toClient'[c]) = 1 /\ toClient'[c][1] = msg
    BY <2>4
  <2>6. c \in connected' /\ c \notin saidHello' /\ ForNobody(c)'
    BY <2>1, <2>2 DEF Joining, flags, Receive, ForNobody
  <2> QED
    BY <2>2, <2>3, <2>5, <2>6 DEF Joining, clientVars, InSession
<1>6. CASE c = d /\ (ProcessReadyFirst(c) \/ ProcessReadyAgain(c) \/ ProcessReceivedRomImage(c)
                       \/ ProcessWaitingForRomImage(c))
  <2>1. /\ \E msg \in {"READY", "RECEIVED_ROM_IMAGE", "WAITING_FOR_ROM_IMAGE"} : Receive(c, msg)
        /\ c \in saidHello' /\ connected' = connected
        /\ UNCHANGED toClient \/ SendTo({c}, RomImage)
    BY <1>6 DEF ProcessReadyFirst, ProcessReadyAgain, ProcessReceivedRomImage,
                ProcessWaitingForRomImage, Joins
  <2>2. /\ InSession(c) /\ c \in connected /\ toServer[c] # <<>>
        /\ toServer'[c] = Tail(toServer[c])
    BY <1>1, <2>1, JoiningReceived, ReceivedFrom DEF JoinStep
  <2>3. /\ toClient'[c] = toClient[c] \/ toClient'[c] = Append(toClient[c], RomImage)
        /\ RomImage \in ToClientMsgs /\ RomImage.type \notin HelloTypes
    BY <1>1, <2>1, SentTo, SentTypes DEF HelloTypes
  <2> QED
    BY <2>1, <2>2, <2>3, JoiningServed
<1>7. CASE c = d /\ ProcessPause(c)
  <2>1. /\ \E msg \in {"PAUSE", "RESUME"} : Receive(c, msg)
        /\ UNCHANGED <<saidHello, connected, toClient, tasks, spc, job>>
    BY <1>7 DEF ProcessPause
  <2>2. /\ InSession(c) /\ c \in connected /\ toServer[c] # <<>>
        /\ toServer'[c] = Tail(toServer[c])
    BY <1>1, <2>1, JoiningReceived, ReceivedFrom DEF JoinStep
  <2>3. toServer[c] \in Seq(ToServerMsgs)
    BY <1>1, RemoteTypes DEF JoinStep
  <2>4. /\ \A i \in 1 .. Len(toServer[c]) : toServer[c][i] # "HELLO"
        /\ c \notin saidHello => ForNobody(c)
    BY <2>2 DEF Joining
  <2>5. \A i \in 1 .. Len(toServer'[c]) : toServer'[c][i] # "HELLO"
    BY <2>2, <2>3, <2>4, TailElements
  <2>6. c \notin saidHello' => ForNobody(c)'
    BY <2>1, <2>4 DEF ForNobody
  <2> QED
    BY <2>1, <2>2, <2>5, <2>6 DEF Joining, clientVars, InSession
<1>8. ~(c = d /\ ShutdownClient(c))
  BY JoiningReceived DEF ShutdownClient
<1> QED
  BY <1>3, <1>4, <1>5, <1>6, <1>7, <1>8 DEF ServerReads

\* The server runs a task.
ServerRuns ==
    \/ StartTask \/ FinishJoin(HostDone)
    \/ FinishSyncClient(HostDone, HostGame) \/ FinishSyncAll(HostDone, HostGame)
    \/ FinishReset(HostDone) \/ FinishSendSram(HostDone) \/ FinishSendRomImage(HostDone)

\* That only sends games, with the server's frame, to those they are meant for.
LEMMA RunsLocal ==
    ASSUME JoinStep, ServerRuns, NEW c \in Clients
    PROVE  /\ UNCHANGED <<toServer, connected, saidHello, clientPaused, srvFrame>>
           /\ \/ toClient'[c] = toClient[c]
              \/ \E msg \in ToClientMsgs :
                   /\ toClient'[c] = Append(toClient[c], msg)
                   /\ msg.type \in SyncTypes /\ (msg.type \in Replacing => msg.frame = srvFrame)
                   /\ c \in saidHello \/ (spc = "wait" /\ job.kind # "RESET_ALL" /\ c = job.c)
           /\ ForNobody(c) => ForNobody(c)'
<1>1. /\ srvFrame \in Nat /\ epoch \in Nat /\ tasks \in Seq(Tasks) /\ job \in Jobs
      /\ HostGame \in Games
      /\ tasks # <<>> => Head(tasks) = tasks[1] /\ 1 \in 1 .. Len(tasks)
  BY ServerTypes, GameTypes, MachineTypes DEF JoinStep, HostGame
<1>2. \A kind : Waited(kind, HostDone) /\ kind # "JOIN" =>
         spc = "wait" /\ kind = job.kind /\ kind \in JoinKinds /\ tasks # <<>>
  BY JoinJob DEF Waited, JoinStep
<1>3. TaskDone /\ tasks # <<>> => (ForNobody(c) => ForNobody(c)')
  <2> SUFFICES ASSUME TaskDone, tasks # <<>>, ForNobody(c) PROVE ForNobody(c)'
    OBVIOUS
  <2>1. tasks' = Tail(tasks) /\ spc' # "wait"
    BY DEF TaskDone
  <2>2. \A i \in 1 .. Len(tasks) : tasks[i].kind # "RESET_ALL" => tasks[i].c # c
    BY DEF ForNobody
  <2>3. \A i \in 1 .. Len(tasks') : tasks'[i].kind # "RESET_ALL" => tasks'[i].c # c
    BY <1>1, <2>1, <2>2, TailElements
  <2> QED
    BY <2>1, <2>3 DEF ForNobody
<1>4. /\ {"RESET", "FREEZE_FILE", "SRAM_DATA"} \subseteq SyncTypes
      /\ SramData.type \notin Replacing
  BY SentTypes DEF SyncTypes, Replacing
<1>5. CASE StartTask
  <2>1. /\ tasks # <<>> /\ job' = Head(tasks) /\ UNCHANGED <<saidHello, connected, clientPaused>>
        /\ UNCHANGED <<wireVars, srvFrame, tasks, epoch, sendROM, syncByReset>>
    BY <1>5 DEF StartTask, NotReady, NoClientReady
  <2>2. ForNobody(c) => ForNobody(c)'
    BY <1>1, <2>1 DEF ForNobody
  <2> QED
    BY <2>1, <2>2 DEF wireVars
<1>6. CASE FinishJoin(HostDone)
  <2> DEFINE new == JoinTasks(job.c)
  <2>1. /\ spc = "wait" /\ job.kind = "JOIN" /\ tasks' = tasks \o new
        /\ spc' = "clients" /\ UNCHANGED <<wireVars, flags, srvFrame>>
    BY <1>6 DEF FinishJoin, Waited, AddTasks
  <2>2. ForNobody(c) => ForNobody(c)'
    <3> SUFFICES ASSUME ForNobody(c) PROVE ForNobody(c)'
      OBVIOUS
    <3>1. job.c # c /\ \A i \in 1 .. Len(tasks) : tasks[i].kind # "RESET_ALL" => tasks[i].c # c
      BY <2>1 DEF ForNobody
    <3>2. /\ \A i \in 1 .. Len(new) : new[i].kind # "RESET_ALL" => new[i].c # c
          /\ new \in Seq(Tasks)
      <4>1. job.c \in Clients /\ Nobody \in Clients
        BY <1>1, WireAssumption DEF Jobs, Nobody
      <4>2. /\ Work("SEND_SRAM", job.c).c = job.c /\ Work("RESET_ALL", Nobody).kind = "RESET_ALL"
            /\ Work("SYNC_CLIENT", job.c).c = job.c
            /\ Work("SEND_SRAM", job.c) \in Tasks /\ Work("RESET_ALL", Nobody) \in Tasks
            /\ Work("SYNC_CLIENT", job.c) \in Tasks
        BY <4>1 DEF Work, Tasks, TaskKinds
      <4>3. \/ new = <<Work("SEND_SRAM", job.c), Work("RESET_ALL", Nobody)>>
            \/ new = <<Work("SYNC_CLIENT", job.c)>>
        BY DEF JoinTasks
      <4> HIDE DEF new
      <4>4. \A a, b \in Tasks : /\ <<a, b>> \in Seq(Tasks) /\ Len(<<a, b>>) = 2
                               /\ <<a, b>>[1] = a /\ <<a, b>>[2] = b
                               /\ <<a>> \in Seq(Tasks) /\ Len(<<a>>) = 1 /\ <<a>>[1] = a
        OBVIOUS
      <4>5. CASE new = <<Work("SEND_SRAM", job.c), Work("RESET_ALL", Nobody)>>
        <5>1. /\ Len(new) = 2 /\ new[1] = Work("SEND_SRAM", job.c) /\ new \in Seq(Tasks)
              /\ new[2] = Work("RESET_ALL", Nobody)
          BY <4>2, <4>4, <4>5
        <5> QED
          BY <3>1, <4>2, <5>1
      <4>6. CASE new = <<Work("SYNC_CLIENT", job.c)>>
        <5>1. Len(new) = 1 /\ new[1] = Work("SYNC_CLIENT", job.c) /\ new \in Seq(Tasks)
          BY <4>2, <4>4, <4>6
        <5> QED
          BY <3>1, <4>2, <5>1
      <4> QED
        BY <4>3, <4>5, <4>6
    <3> HIDE DEF new
    <3>3. \A i \in 1 .. Len(tasks') : tasks'[i].kind # "RESET_ALL" => tasks'[i].c # c
      BY <1>1, <2>1, <3>1, <3>2
    <3> QED
      BY <2>1, <3>3 DEF ForNobody
  <2> QED
    BY <2>1, <2>2 DEF wireVars, flags
<1>7. CASE FinishSyncClient(HostDone, HostGame)
  <2> DEFINE msg == FreezeFile(srvFrame, HostGame)
  <2>1. /\ Waited("SYNC_CLIENT", HostDone) /\ SendTo({job.c} \cap connected, msg) /\ TaskDone
        /\ UNCHANGED <<toServer, connected, saidHello, clientPaused, srvFrame>>
    BY <1>7 DEF FinishSyncClient, NotReady
  <2>2. msg \in ToClientMsgs /\ msg.type = "FREEZE_FILE" /\ msg.frame = srvFrame
    BY <1>1, SentTypes
  <2> HIDE DEF msg
  <2>3. \/ toClient'[c] = toClient[c]
        \/ toClient'[c] = Append(toClient[c], msg) /\ c = job.c
    BY <2>1, SentTo
  <2> QED
    BY <1>2, <1>3, <1>4, <2>1, <2>2, <2>3
<1>8. CASE FinishReset(HostDone)
  <2> DEFINE msg == Reset(srvFrame, At(epoch', srvFrame))
  <2>1. /\ Waited("RESET_ALL", HostDone) /\ epoch' = epoch + 1 /\ SendTo(saidHello, msg)
        /\ TaskDone /\ UNCHANGED <<toServer, connected, saidHello, clientPaused, srvFrame>>
    BY <1>8 DEF FinishReset, flags
  <2>2. msg \in ToClientMsgs /\ msg.type = "RESET" /\ msg.frame = srvFrame
    <3>1. At(epoch', srvFrame) \in Games
      BY <1>1, <2>1, GameTypes
    <3> QED
      BY <1>1, <3>1, SentTypes
  <2> HIDE DEF msg
  <2>3. \/ toClient'[c] = toClient[c]
        \/ toClient'[c] = Append(toClient[c], msg) /\ c \in saidHello
    BY <2>1, SentTo
  <2> QED
    BY <1>2, <1>3, <1>4, <2>1, <2>2, <2>3
<1>9. CASE FinishSendSram(HostDone)
  <2>1. ~Waited("SEND_SRAM_ALL", HostDone)
    BY <1>2 DEF JoinKinds
  <2>2. /\ Waited("SEND_SRAM", HostDone) /\ SendTo({job.c} \cap connected, SramData)
        /\ TaskDone /\ UNCHANGED <<toServer, connected, saidHello, clientPaused, srvFrame>>
    BY <1>9, <2>1 DEF FinishSendSram, flags
  <2>3. \/ toClient'[c] = toClient[c]
        \/ toClient'[c] = Append(toClient[c], SramData) /\ c = job.c
    BY <2>2, SentTo
  <2> QED
    BY <1>2, <1>3, <1>4, <2>2, <2>3, SentTypes
<1>10. ~(FinishSyncAll(HostDone, HostGame) \/ FinishSendRomImage(HostDone))
  BY <1>2 DEF FinishSyncAll, FinishSendRomImage, JoinKinds
<1> QED
  BY <1>5, <1>6, <1>7, <1>8, <1>9, <1>10 DEF ServerRuns

LEMMA JoinRuns ==
    ASSUME JoinStep, ServerRuns, UNCHANGED clientVars, NEW c \in Remotes, Joining(c)
    PROVE  Joining(c)'
<1>1. c \in Clients /\ saidHello \subseteq connected
  BY RemoteTypes, ServerTypes DEF JoinStep
<1>2. /\ UNCHANGED <<toServer, connected, saidHello>>
      /\ c \notin saidHello' => ForNobody(c)'
  BY <1>1, RunsLocal DEF Joining
<1>3. CASE toClient'[c] = toClient[c]
  BY <1>2, <1>3, JoiningServed
<1>4. CASE toClient'[c] # toClient[c]
  <2>1. PICK msg \in ToClientMsgs :
          /\ toClient'[c] = Append(toClient[c], msg) /\ msg.type \in SyncTypes
          /\ c \in saidHello \/ (spc = "wait" /\ job.kind # "RESET_ALL" /\ c = job.c)
    BY <1>1, <1>4, RunsLocal
  <2>2. c \in saidHello /\ msg.type \notin HelloTypes
    BY <2>1 DEF Joining, ForNobody, SyncTypes, HelloTypes
  <2>3. InSession(c) /\ c \in connected
    BY <1>1, <2>2 DEF Joining, InSession
  <2> QED
    BY <1>2, <2>1, <2>2, <2>3, JoiningServed
<1> QED
  BY <1>3, <1>4

LEMMA JoinHeartbeat ==
    ASSUME JoinStep, NEW stopped, SendHeartBeat(stopped), UNCHANGED clientVars,
           NEW c \in Remotes, Joining(c)
    PROVE  Joining(c)'
<1>1. /\ c \in Clients /\ saidHello \subseteq connected /\ srvFrame \in Nat
  BY RemoteTypes, ServerTypes DEF JoinStep
<1>2. /\ SendTo(saidHello, Heartbeat(srvFrame + 1))
      /\ UNCHANGED <<toServer, connected, saidHello, tasks, spc, job>>
  BY DEF SendHeartBeat, flags
<1>3. c \notin saidHello' => ForNobody(c)'
  BY <1>2 DEF Joining, ForNobody
<1>4. CASE c \notin saidHello
  BY <1>1, <1>2, <1>3, <1>4, SentTo, JoiningServed
<1>5. CASE c \in saidHello
  <2>1. InSession(c) /\ c \in connected
    BY <1>1, <1>5 DEF Joining, InSession
  <2>2. /\ toClient'[c] = Append(toClient[c], Heartbeat(srvFrame + 1))
        /\ Heartbeat(srvFrame + 1) \in ToClientMsgs
        /\ Heartbeat(srvFrame + 1).type \notin HelloTypes
    BY <1>1, <1>2, <1>5, SentTo, SentTypes DEF HelloTypes
  <2> QED
    BY <1>2, <1>3, <1>5, <2>1, <2>2, JoiningServed
<1> QED
  BY <1>4, <1>5

LEMMA ServerCases ==
    ASSUME ServerStep
    PROVE  /\ UNCHANGED <<clientVars, hostVars>>
           /\ \/ SendHeartBeat(userPaused[Host] \/ (Timely /\ ~NetworkFast))
              \/ \E d \in Clients : ServerReads(d)
              \/ ServerRuns
  BY DEF ServerStep, ServerThread, ServerReads, ServerRuns

LEMMA JoinNext ==
    ASSUME JoinStep, [Next]_vars
    PROVE  JoinInv'
<1>1. CASE ServerStep
  <2> SUFFICES ASSUME NEW c \in Remotes PROVE Gone(c)' \/ Joining(c)'
    BY DEF JoinInv
  <2>1. UNCHANGED <<clientVars, hostVars>>
    BY <1>1, ServerCases
  <2>2. CASE Gone(c)
    BY <2>1, <2>2 DEF Gone, clientVars, hostVars
  <2>3. CASE Joining(c)
    BY <1>1, <2>1, <2>3, ServerCases, JoinHeartbeat, JoinReads, JoinRuns
  <2> QED
    BY <2>2, <2>3 DEF JoinStep, JoinInv
<1>2. CASE UNCHANGED vars
  <2> SUFFICES ASSUME NEW c \in Remotes PROVE Gone(c)' \/ Joining(c)'
    BY DEF JoinInv
  <2>1. UNCHANGED <<toServer[c], toClient[c], cpc[c], game[c], serverVars, events>>
    BY <1>2 DEF vars, wireVars, clientVars, serverVars, hostVars
  <2> QED
    BY <2>1, JoiningKept DEF JoinStep, JoinInv, Gone
<1>3. ASSUME NEW c \in Clients, EmulationStep(c) PROVE JoinInv'
  BY <1>3, JoinEmulation DEF EmulationStep
<1>4. ASSUME NEW c \in Clients, ClientStep(c) PROVE JoinInv'
  BY <1>4, JoinClient DEF ClientStep
<1> QED
  BY <1>1, <1>2, <1>3, <1>4, JoinUsers DEF Next

LEMMA JoinInit ==
    ASSUME Init
    PROVE  JoinInv
<1>1. /\ toServer = [c \in Clients |-> <<>>] /\ cpc = [c \in Clients |-> "off"]
      /\ connected = {} /\ saidHello = {} /\ tasks = <<>> /\ spc = "clients"
      /\ Len(<<>>) = 0 /\ Remotes \subseteq Clients
  BY DEF Init, ClientInit, ServerInit, Remotes
<1> QED
  BY <1>1 DEF JoinInv, Joining, InSession, ForNobody
-----------------------------------------------------------------------------
(***************************************************************************)
(* Inputs.  The tokens of a machine and the heartbeats on the way to it    *)
(* are numbered without a gap, up to the last the server has sent, and the *)
(* ring holds the inputs of the last token taken and of every token not    *)
(* yet taken.                                                              *)
(***************************************************************************)
Orderly == Undisturbed /\ SlotsOnce

\* The last frame that was emulated.
Done(c) == IF FrameAhead(c) THEN frameCount[c] - 1 ELSE frameCount[c]

Flow(c) ==
    /\ pc[c] = "probe" => sem[c] > 0
    /\ frameCount[c] + Tokens(c) + Len(toClient[c]) = srvFrame
    /\ Len(toClient[c]) <= Lag
    /\ Tokens(c) + Len(toClient[c]) <= MaxBehind + Lag + 1
    /\ waiting[c] => Asked(c)
    /\ c \in saidHello \cup {Host}

\* The slot j after i.
Slot(i, j) == (i + j) % HistSize

RingHolds(c, n) ==
    /\ writeInd[c] = Slot(readInd[c], n + 1)
    /\ \A j \in 0 .. n : j > 0 \/ frameCount[c] > syncedAt[c]
                            => ring[c][Slot(readInd[c], j)] = frameCount[c] + j

Inputs(c) ==
    /\ \A i \in 1 .. Len(toClient[c]) :
          /\ toClient[c][i].type = "JOYPAD"
          /\ toClient[c][i].frame = frameCount[c] + Tokens(c) + i
    /\ RingHolds(c, Tokens(c))
    /\ Done(c) > syncedAt[c] => joypads[c] = Done(c)

\* Behind the last game on the way to a machine come the heartbeats after it.
Numbered(s, i) ==
    /\ \A k \in i + 1 .. Len(s) : s[k].type = "JOYPAD" /\ s[k].frame = s[i].frame + (k - i)
    /\ s[i].frame + (Len(s) - i) = srvFrame
    /\ Len(s) - i <= Lag
LastGame(s, i) ==
    s[i].type \in Replacing /\ \A k \in i + 1 .. Len(s) : s[k].type \notin SyncTypes
Stream(s) == \A i \in 1 .. Len(s) : LastGame(s, i) => Numbered(s, i)

MachineInputs(c) ==
    /\ cpc[c] # "off" => Stream(toClient[c])
    /\ Settled(c) => Flow(c) /\ Inputs(c)

InputInv == \A c \in Clients : MachineInputs(c)

InputStep ==
    LockStep /\ JoinStep /\ Orderly /\ InputInv /\ \A c \in Clients : ~Unasked(c)

-----------------------------------------------------------------------------
(* The ring. *)

LEMMA SlotIs ==
    \A i \in Slots : \A j \in 0 .. HistSize :
        /\ Slot(i, j) = IF i + j < HistSize THEN i + j ELSE i + j - HistSize
        /\ Slot(i, j) \in Slots
<1> SUFFICES ASSUME NEW i \in Slots, NEW j \in 0 .. HistSize
             PROVE  /\ Slot(i, j) = IF i + j < HistSize THEN i + j ELSE i + j - HistSize
                    /\ Slot(i, j) \in Slots
  OBVIOUS
<1>1. \A a \in 0 .. HistSize - 1 : a % HistSize = a /\ (a + HistSize) % HistSize = a
  BY ClientAssumption
<1>2. CASE i + j < HistSize
  BY <1>1, <1>2, ClientAssumption DEF Slot, Slots
<1>3. CASE i + j >= HistSize
  <2>1. i + j - HistSize \in 0 .. HistSize - 1 /\ i + j = (i + j - HistSize) + HistSize
    BY <1>3, ClientAssumption DEF Slots
  <2> QED
    BY <1>1, <1>3, <2>1, ClientAssumption DEF Slot, Slots
<1> QED
  BY <1>2, <1>3, ClientAssumption DEF Slots

\* Steps along the ring, and slots that differ.
LEMMA SlotSteps ==
    /\ \A i \in Slots : Slot(i, 0) = i /\ Next1(i) = Slot(i, 1)
    /\ \A i \in Slots : \A j \in 0 .. HistSize - 1 :
          /\ Slot(Slot(i, 1), j) = Slot(i, j + 1)
          /\ Next1(Slot(i, j)) = Slot(i, j + 1)
    /\ \A i \in Slots : \A j, k \in 0 .. HistSize - 1 : Slot(i, j) = Slot(i, k) => j = k
    /\ \A i \in Slots : \A j \in 2 .. HistSize : Slot(i, j) # Slot(i, 1)
<1>0. HistSize \in Nat \ {0, 1}
  BY ClientAssumption
<1>1. \A i \in Slots : Next1(i) = Slot(i, 1)
  BY DEF Next1, Slot
<1>2. \A i \in Slots : Slot(i, 0) = i
  BY <1>0, SlotIs DEF Slots
<1>3. ASSUME NEW i \in Slots, NEW j \in 0 .. HistSize, NEW k \in 0 .. HistSize,
             Slot(i, j) = Slot(i, k), j - k < HistSize, k - j < HistSize
      PROVE  j = k
  <2>1. Slot(i, j) = IF i + j < HistSize THEN i + j ELSE i + j - HistSize
    BY SlotIs
  <2>2. Slot(i, k) = IF i + k < HistSize THEN i + k ELSE i + k - HistSize
    BY SlotIs
  <2>3. HistSize \in Nat /\ i \in Nat /\ j \in Nat /\ k \in Nat
    BY <1>0 DEF Slots
  <2> DEFINE x == Slot(i, j)
  <2>4. /\ x = IF i + j < HistSize THEN i + j ELSE i + j - HistSize
        /\ x = IF i + k < HistSize THEN i + k ELSE i + k - HistSize
    BY <1>3, <2>1, <2>2
  <2> HIDE DEF x
  <2> QED
    BY <1>3, <2>3, <2>4
<1>4. \A i \in Slots : \A j, k \in 0 .. HistSize - 1 : Slot(i, j) = Slot(i, k) => j = k
  <2> SUFFICES ASSUME NEW i \in Slots, NEW j \in 0 .. HistSize - 1,
                      NEW k \in 0 .. HistSize - 1, Slot(i, j) = Slot(i, k)
               PROVE  j = k
    OBVIOUS
  <2>1. /\ j \in 0 .. HistSize /\ k \in 0 .. HistSize
        /\ j - k < HistSize /\ k - j < HistSize
    BY <1>0
  <2> QED
    BY <1>3, <2>1
<1>5. \A i \in Slots : \A j \in 0 .. HistSize - 1 : Slot(Slot(i, 1), j) = Slot(i, j + 1)
  <2> SUFFICES ASSUME NEW i \in Slots, NEW j \in 0 .. HistSize - 1
               PROVE  Slot(Slot(i, 1), j) = Slot(i, j + 1)
    OBVIOUS
  <2> DEFINE a == Slot(i, 1)
  <2>1. /\ a = IF i + 1 < HistSize THEN i + 1 ELSE i + 1 - HistSize
        /\ a \in Slots /\ 1 \in 0 .. HistSize
    BY <1>0, SlotIs DEF Slots
  <2>2. Slot(a, j) = IF a + j < HistSize THEN a + j ELSE a + j - HistSize
    BY <1>0, <2>1, SlotIs
  <2>3. j + 1 \in 0 .. HistSize
    BY <1>0
  <2>4. Slot(i, j + 1) = IF i + (j + 1) < HistSize THEN i + (j + 1) ELSE i + (j + 1) - HistSize
    BY <2>3, SlotIs
  <2> HIDE DEF a
  <2>5. Slot(a, j) = Slot(i, j + 1)
    BY <1>0, <2>1, <2>2, <2>4 DEF Slots
  <2> QED
    BY <2>5 DEF a
<1>6. \A i \in Slots : \A j \in 0 .. HistSize - 1 : Next1(Slot(i, j)) = Slot(i, j + 1)
  <2> SUFFICES ASSUME NEW i \in Slots, NEW j \in 0 .. HistSize - 1
               PROVE  Next1(Slot(i, j)) = Slot(i, j + 1)
    OBVIOUS
  <2> DEFINE a == Slot(i, j)
  <2>1. /\ a = IF i + j < HistSize THEN i + j ELSE i + j - HistSize
        /\ a \in Slots /\ j \in 0 .. HistSize /\ 1 \in 0 .. HistSize /\ j + 1 \in 0 .. HistSize
    BY <1>0, SlotIs DEF Slots
  <2>2. Slot(a, 1) = IF a + 1 < HistSize THEN a + 1 ELSE a + 1 - HistSize
    BY <1>0, <2>1, SlotIs
  <2>3. Slot(i, j + 1) = IF i + (j + 1) < HistSize THEN i + (j + 1) ELSE i + (j + 1) - HistSize
    BY <2>1, SlotIs
  <2>4. Next1(a) = Slot(a, 1)
    BY <1>1, <2>1
  <2> HIDE DEF a
  <2>5. Next1(a) = Slot(i, j + 1)
    BY <1>0, <2>1, <2>2, <2>3, <2>4 DEF Slots
  <2> QED
    BY <2>5 DEF a
<1>7. \A i \in Slots : \A j \in 2 .. HistSize : Slot(i, j) # Slot(i, 1)
  <2> SUFFICES ASSUME NEW i \in Slots, NEW j \in 2 .. HistSize, Slot(i, j) = Slot(i, 1)
               PROVE  FALSE
    OBVIOUS
  <2>1. /\ j \in 0 .. HistSize /\ 1 \in 0 .. HistSize /\ j # 1
        /\ j - 1 < HistSize /\ 1 - j < HistSize
    BY <1>0
  <2> QED
    BY <1>3, <2>1
<1> QED
  BY <1>1, <1>2, <1>4, <1>5, <1>6, <1>7

LEMMA RingTypes ==
    ASSUME TypeInv
    PROVE  /\ ring \in [Clients -> [Slots -> Nat]] /\ joypads \in [Clients -> Nat]
           /\ writeInd \in [Clients -> Slots] /\ readInd \in [Clients -> Slots]
           /\ syncedAt \in [Clients -> Nat] /\ prev \in [Clients -> 0 .. HistSize]
           /\ frameCount \in [Clients -> Nat] /\ sem \in [Clients -> 0 .. HistSize]
           /\ HistSize \in Nat \ {0, 1} /\ MaxBehind \in Nat /\ Lag \in Nat
  BY ClientAssumption, NetPlayAssumption DEF TypeInv, TypeOK, ClientTypeOK

\* Taking a token: the read index moves on to the frame that is counted.
LEMMA RingTaken ==
    ASSUME TypeInv, NEW c \in Clients, TakeToken(c), UNCHANGED <<ring, writeInd, syncedAt>>,
           NEW n \in 1 .. HistSize - 1, RingHolds(c, n)
    PROVE  RingHolds(c, n - 1)'
<1>1. /\ HistSize \in Nat \ {0, 1} /\ frameCount[c] \in Nat /\ syncedAt[c] \in Nat
      /\ readInd \in [Clients -> Slots] /\ frameCount \in [Clients -> Nat]
      /\ readInd[c] \in Slots
  BY RingTypes
<1> DEFINE i == readInd[c]
<1>2. Next1(i) = Slot(i, 1) /\ writeInd[c] = Slot(i, n + 1) /\ n + 1 \in 2 .. HistSize
  BY <1>1, SlotSteps DEF RingHolds
<1>3. readInd'[c] = Slot(i, 1) /\ frameCount'[c] = frameCount[c] + 1
  BY <1>1, <1>2, SlotSteps DEF TakeToken
<1>4. \A j \in 0 .. n - 1 : Slot(readInd'[c], j) = Slot(i, j + 1) /\ j + 1 \in 0 .. n /\ j + 1 > 0
  BY <1>1, <1>3, SlotSteps
<1>5. \A j \in 0 .. n - 1 : ring[c][Slot(i, j + 1)] = frameCount[c] + (j + 1)
  BY <1>4 DEF RingHolds
<1>6. Slot(readInd'[c], n) = Slot(i, n + 1)
  BY <1>1, <1>3, SlotSteps
<1>7. \A j \in 0 .. n - 1 : ring'[c][Slot(readInd'[c], j)] = frameCount'[c] + j
  BY <1>1, <1>3, <1>4, <1>5
<1>8. writeInd'[c] = Slot(readInd'[c], (n - 1) + 1)
  BY <1>1, <1>2, <1>6
<1> QED
  BY <1>7, <1>8 DEF RingHolds, Slot

\* A heartbeat is written behind the others.
LEMMA RingWritten ==
    ASSUME TypeInv, NEW c \in Clients, NEW n \in 0 .. HistSize - 2, RingHolds(c, n),
           ring' = [ring EXCEPT ![c][writeInd[c]] = frameCount[c] + (n + 1)],
           writeInd' = [writeInd EXCEPT ![c] = Next1(@)],
           UNCHANGED <<readInd, frameCount, syncedAt>>
    PROVE  RingHolds(c, n + 1)'
<1>1. /\ HistSize \in Nat \ {0, 1} /\ frameCount[c] \in Nat
      /\ readInd[c] \in Slots /\ ring \in [Clients -> [Slots -> Nat]]
      /\ writeInd \in [Clients -> Slots]
  BY RingTypes
<1> DEFINE i == readInd[c]
<1>2. writeInd[c] = Slot(i, n + 1) /\ n + 1 \in 0 .. HistSize - 1
  BY <1>1 DEF RingHolds
<1>3. writeInd'[c] = Slot(i, (n + 1) + 1)
  BY <1>1, <1>2, SlotSteps
<1>4. Slot(i, n + 1) \in Slots /\ \A j \in 0 .. n : Slot(i, j) \in Slots
  <2>1. /\ n + 1 \in 0 .. HistSize
        /\ \A j \in 0 .. n : j \in 0 .. HistSize
    BY <1>1
  <2> QED
    BY <1>1, <2>1, SlotIs
<1>5. ring'[c] = [ring[c] EXCEPT ![Slot(i, n + 1)] = frameCount[c] + (n + 1)]
  BY <1>1, <1>2
<1>6. ring'[c][Slot(i, n + 1)] = frameCount[c] + (n + 1)
  BY <1>1, <1>4, <1>5
<1>7. \A j \in 0 .. n : Slot(i, j) # Slot(i, n + 1)
  BY <1>1, SlotSteps
<1>8. \A j \in 0 .. n : ring'[c][Slot(i, j)] = ring[c][Slot(i, j)]
  BY <1>1, <1>4, <1>5, <1>7
<1>9. \A j \in 0 .. n + 1 : j = n + 1 \/ j \in 0 .. n
  OBVIOUS
<1> QED
  BY <1>1, <1>3, <1>6, <1>8, <1>9 DEF RingHolds, Slot

\* What the inputs of a machine are read from besides Machine(c).
MachineRing(c) ==
    <<prev[c], ring[c], writeInd[c], readInd[c], joypads[c], syncedAt[c]>>

LEMMA InputsKept ==
    ASSUME NEW c \in Clients, UNCHANGED <<Machine(c), MachineRing(c), serverVars>>,
           MachineInputs(c)
    PROVE  MachineInputs(c)'
<1>1. Settled(c)' <=> Settled(c)
  BY DEF Settled, InSession, InFlight, Machine
<1>2. Stream(toClient[c])' <=> Stream(toClient[c])
  BY DEF Stream, LastGame, Numbered, Machine, serverVars
<1>3. Tokens(c)' = Tokens(c) /\ (Asked(c)' <=> Asked(c)) /\ Done(c)' = Done(c)
  BY DEF Tokens, Asked, Done, FrameAhead, Machine, serverVars
<1>4. Flow(c) => Flow(c)'
  BY <1>3 DEF Flow, Machine, MachineRing, serverVars
<1>5. RingHolds(c, Tokens(c)) => RingHolds(c, Tokens(c))'
  BY <1>3 DEF RingHolds, Slot, Machine, MachineRing
<1>6. Inputs(c) => Inputs(c)'
  BY <1>3, <1>5 DEF Inputs, Machine, MachineRing
<1> QED
  BY <1>1, <1>2, <1>4, <1>6 DEF MachineInputs, Machine

LEMMA EmulationRing ==
    ASSUME TypeInv, NEW d \in Clients, NEW quiet, EmulationThread(d, quiet)
    PROVE  /\ \A c \in Clients \ {d} : UNCHANGED MachineRing(c)
           /\ UNCHANGED <<ring, writeInd, syncedAt>>
<1> USE RingTypes DEF MachineRing
<1>1. CASE PushPending(d)
  BY <1>1 DEF PushPending, TakeToken
<1>2. CASE PushReady(d)
  BY <1>2 DEF PushReady
<1>3. CASE EndFrame(d)
  BY <1>3 DEF EndFrame
<1>4. CASE TakeBack(d)
  BY <1>4 DEF TakeBack
<1>5. CASE SyncSpeedToken(d)
  BY <1>5 DEF SyncSpeedToken, TakeToken
<1>6. CASE SyncSpeedTimeout(d, quiet)
  BY <1>6 DEF SyncSpeedTimeout
<1> QED
  BY <1>1, <1>2, <1>3, <1>4, <1>5, <1>6 DEF EmulationThread

LEMMA ClientRing ==
    ASSUME TypeInv, NEW d \in Clients, ClientThread(d)
    PROVE  /\ \A c \in Clients \ {d} : UNCHANGED MachineRing(c)
           /\ UNCHANGED <<prev, joypads>>
<1> USE RingTypes DEF MachineRing, ResetJoypadReadPos
<1>1. CASE RecvHello(d)
  BY <1>1 DEF RecvHello
<1>2. CASE RecvHeartbeat(d)
  BY <1>2 DEF RecvHeartbeat
<1>3. CASE SendPause(d) \/ RecvSync(d) \/ ClientDiscard(d)
  BY <1>3 DEF SendPause, RecvSync, ClientDiscard
<1>4. CASE ReplaceGame(d)
  BY <1>4 DEF ReplaceGame
<1>5. CASE ReplaceRom(d) \/ ReplaceSram(d)
  BY <1>5 DEF ReplaceRom, ReplaceSram
<1> QED
  BY <1>1, <1>2, <1>3, <1>4, <1>5 DEF ClientThread

-----------------------------------------------------------------------------
(* The emulation thread takes a token, and with it a step along the ring. *)

LEMMA InputEmulated ==
    ASSUME InputStep, NEW d \in Clients, NEW quiet, EmulationThread(d, quiet),
           UNCHANGED serverVars, Settled(d)
    PROVE  Flow(d)' /\ Inputs(d)'
<1>1. /\ MaxBehind \in Nat /\ Lag \in Nat /\ HistSize \in Nat \ {0, 1}
      /\ sem[d] \in 0 .. HistSize /\ prev[d] \in 0 .. HistSize /\ frameCount[d] \in Nat
      /\ srvFrame \in Nat /\ syncedAt[d] \in Nat
      /\ toServer[d] \in Seq(ToServerMsgs) /\ Len(toClient[d]) \in Nat
      /\ MaxBehind + Lag + 1 < HistSize /\ TypeInv
  BY MachineTypes, RingTypes DEF InputStep, JoinStep, LockStep, Undisturbed
<1>2. /\ sem \in [Clients -> 0 .. HistSize] /\ frameCount \in [Clients -> Nat]
      /\ prev \in [Clients -> 0 .. HistSize] /\ joypads \in [Clients -> Nat]
      /\ readInd \in [Clients -> Slots] /\ pending \in [Clients -> BOOLEAN]
      /\ waiting \in [Clients -> BOOLEAN]
      /\ pc \in [Clients -> {"top", "frame", "probe", "wait", "drain"}]
  BY <1>1, MachineTypes, RingTypes
<1>3. /\ Flow(d) /\ Inputs(d) /\ pc[d] # "drain"
  BY DEF InputStep, InputInv, MachineInputs, JoinStep, LockStep, StepInv, JoinsOnly
<1>4. /\ toClient' = toClient /\ cpc' = cpc /\ srvFrame' = srvFrame
      /\ clientPaused' = clientPaused /\ saidHello' = saidHello
      /\ UNCHANGED <<ring, writeInd, syncedAt>>
  BY <1>1, EmulationLocal, EmulationRing DEF serverVars
<1>5. Tokens(d) \in 0 .. HistSize - 1 /\ Tokens(d) + Len(toClient[d]) <= MaxBehind + Lag + 1
  <2>1. /\ pc[d] = "probe" => sem[d] > 0
        /\ Tokens(d) + Len(toClient[d]) <= MaxBehind + Lag + 1
    BY <1>3 DEF Flow
  <2> QED
    BY <1>1, <2>1 DEF Tokens
<1>6. pc[d] = "probe" => sem[d] > 0
  BY <1>3 DEF Flow
<1>7. /\ waiting'[d] => waiting[d]
      /\ waiting'[d] /\ waiting[d] => Asked(d)'
  BY <1>1, <1>3, <1>4, EmulationSends DEF Flow, Asked
\* The tokens are moved into FrameCount, and the ring along with them.
<1>8. ASSUME TakeToken(d), pc[d] # "probe", pc'[d] # "probe", pending'[d] = FALSE,
             pc'[d] \in {"top", "frame"}, UNCHANGED <<joypads, prev, waiting>>, ~FrameAhead(d)
      PROVE  /\ frameCount'[d] + Tokens(d)' = frameCount[d] + Tokens(d)
             /\ Tokens(d)' \in Nat /\ Tokens(d)' <= Tokens(d)
             /\ RingHolds(d, Tokens(d))' /\ Done(d)' = Done(d)
  <2>1. /\ sem[d] > 0 /\ sem'[d] = sem[d] - 1 /\ frameCount'[d] = frameCount[d] + 1
        /\ Tokens(d) = sem[d] /\ Tokens(d)' = sem'[d]
    BY <1>2, <1>8 DEF TakeToken, Tokens
  <2>2. PICK n \in 1 .. HistSize - 1 : n = Tokens(d)
    BY <1>1, <1>5, <2>1
  <2>3. RingHolds(d, n)
    BY <1>3, <2>2 DEF Inputs
  <2>4. RingHolds(d, n - 1)'
    BY <1>1, <1>4, <1>8, <2>3, RingTaken
  <2>5. Tokens(d)' = n - 1
    BY <2>1, <2>2
  <2>6. RingHolds(d, Tokens(d))'
    BY <2>4, <2>5 DEF RingHolds
  <2>7. Done(d)' = Done(d)
    BY <1>1, <1>8, <2>1 DEF Done, FrameAhead
  <2>8. /\ frameCount'[d] + Tokens(d)' = frameCount[d] + Tokens(d)
        /\ Tokens(d)' \in Nat /\ Tokens(d)' <= Tokens(d)
    <3>1. sem[d] \in Nat /\ frameCount[d] \in Nat
      BY <1>1
    <3>2. /\ frameCount'[d] + (sem[d] - 1) = frameCount[d] + sem[d]
          /\ sem[d] - 1 \in Nat /\ sem[d] - 1 <= sem[d]
      BY <2>1, <3>1
    <3> QED
      BY <2>1, <3>2
  <2> QED
    BY <2>6, <2>7, <2>8
\* Otherwise the ring stays.
<1>9. ASSUME Tokens(d)' = Tokens(d), UNCHANGED <<readInd, frameCount>>
      PROVE  RingHolds(d, Tokens(d))'
  <2>1. RingHolds(d, Tokens(d))
    BY <1>3 DEF Inputs
  <2> QED
    BY <1>4, <1>9, <2>1 DEF RingHolds, Slot
<1>10. /\ pc'[d] = "probe" => sem'[d] > 0
       /\ frameCount'[d] + Tokens(d)' = frameCount[d] + Tokens(d)
       /\ Tokens(d)' \in Nat /\ Tokens(d)' <= Tokens(d)
       /\ RingHolds(d, Tokens(d))'
       /\ Done(d)' > syncedAt'[d] => joypads'[d] = Done(d)'
  <2>0. Done(d) > syncedAt[d] => joypads[d] = Done(d)
    BY <1>3 DEF Inputs
  <2>1. CASE PushPending(d)
    <3>1. /\ TakeToken(d) /\ pc[d] # "probe" /\ pc'[d] = "frame" /\ pending'[d] = FALSE
          /\ UNCHANGED <<joypads, prev, waiting>> /\ ~FrameAhead(d)
      BY <1>2, <2>1 DEF PushPending, FrameAhead
    <3> QED
      BY <1>4, <1>8, <2>0, <3>1
  <2>2. CASE SyncSpeedToken(d)
    <3>1. /\ TakeToken(d) /\ pc[d] # "probe" /\ pc'[d] = "top" /\ pending'[d] = FALSE
          /\ UNCHANGED <<joypads, prev, waiting>> /\ ~FrameAhead(d)
      BY <1>2, <2>2 DEF SyncSpeedToken, FrameAhead
    <3> QED
      BY <1>4, <1>8, <2>0, <3>1
  <2>3. CASE PushReady(d) \/ SyncSpeedTimeout(d, quiet)
    <3>1. /\ pc'[d] # "probe" /\ pc[d] # "probe"
          /\ UNCHANGED <<readInd, frameCount, sem, prev, waiting, joypads>>
          /\ FrameAhead(d)' <=> FrameAhead(d)
      BY <1>2, <2>3 DEF PushReady, SyncSpeedTimeout, FrameAhead
    <3>2. Tokens(d)' = Tokens(d) /\ Done(d)' = Done(d)
      BY <3>1 DEF Tokens, Done
    <3> QED
      BY <1>4, <1>5, <1>6, <1>9, <2>0, <3>1, <3>2
  <2>4. CASE EndFrame(d)
    <3>1. sem[d] < HistSize /\ pc[d] = "frame" /\ Tokens(d) = sem[d]
      BY <1>1, <1>5, <2>4 DEF EndFrame, Tokens
    <3>2. /\ sem'[d] = sem[d] + 1 /\ prev'[d] = sem[d] /\ pc'[d] = "probe"
          /\ joypads'[d] = ring[d][readInd[d]]
          /\ UNCHANGED <<readInd, frameCount, waiting>>
      BY <1>2, <2>4, <3>1 DEF EndFrame
    <3>3. Tokens(d)' = Tokens(d) /\ Done(d)' = frameCount[d]
      BY <1>1, <3>1, <3>2 DEF Tokens, Done, FrameAhead
    <3>4. frameCount[d] > syncedAt[d] => ring[d][readInd[d]] = frameCount[d]
      <4>1. RingHolds(d, Tokens(d)) /\ 0 \in 0 .. Tokens(d) /\ readInd[d] \in Slots
        BY <1>2, <1>3, <1>5 DEF Inputs
      <4>2. Slot(readInd[d], 0) = readInd[d]
        BY <4>1, SlotSteps
      <4>3. frameCount[d] > syncedAt[d] => ring[d][Slot(readInd[d], 0)] = frameCount[d] + 0
        BY <4>1 DEF RingHolds
      <4> QED
        BY <1>1, <4>2, <4>3
    <3>5. sem'[d] > 0
      BY <1>1, <3>2
    <3> QED
      BY <1>4, <1>5, <1>6, <1>9, <3>2, <3>3, <3>4, <3>5
  <2>5. CASE TakeBack(d)
    <3>1. /\ pc[d] = "probe" /\ pc'[d] = "wait" /\ sem[d] > 0 /\ sem'[d] = sem[d] - 1
          /\ UNCHANGED <<readInd, frameCount, joypads>>
      BY <1>1, <1>2, <1>6, <2>5 DEF TakeBack
    <3>2. Tokens(d)' = Tokens(d) /\ Done(d)' = Done(d) /\ Tokens(d) = sem[d] - 1
      BY <3>1 DEF Tokens, Done, FrameAhead
    <3> QED
      BY <1>4, <1>5, <1>9, <2>0, <3>1, <3>2
  <2> QED
    BY <2>1, <2>2, <2>3, <2>4, <2>5 DEF EmulationThread
<1>11. Flow(d)'
  <2>1. /\ frameCount[d] + Tokens(d) + Len(toClient[d]) = srvFrame
        /\ Len(toClient[d]) <= Lag /\ d \in saidHello \cup {Host}
    BY <1>3 DEF Flow
  <2>2. frameCount'[d] \in Nat
    BY <1>10, <1>2, <1>1 DEF EmulationThread, PushPending, PushReady, EndFrame, TakeBack,
       SyncSpeedToken, SyncSpeedTimeout, TakeToken
  <2>3. /\ frameCount'[d] + Tokens(d)' + Len(toClient[d]) = srvFrame
        /\ Tokens(d)' + Len(toClient[d]) <= MaxBehind + Lag + 1
    BY <1>1, <1>5, <1>10, <2>1, <2>2
  <2> QED
    BY <1>4, <1>7, <1>10, <2>1, <2>3 DEF Flow
<1>12. Inputs(d)'
  <2>1. \A i \in 1 .. Len(toClient[d]) :
           /\ toClient[d][i].type = "JOYPAD"
           /\ toClient[d][i].frame = frameCount[d] + Tokens(d) + i
    BY <1>3 DEF Inputs
  <2>2. \A i \in 1 .. Len(toClient'[d]) :
           /\ toClient'[d][i].type = "JOYPAD"
           /\ toClient'[d][i].frame = frameCount'[d] + Tokens(d)' + i
    BY <1>4, <1>10, <2>1
  <2> QED
    BY <1>10, <2>2 DEF Inputs
<1> QED
  BY <1>11, <1>12

LEMMA InputEmulation ==
    ASSUME InputStep, NEW d \in Clients, NEW quiet, EmulationThread(d, quiet),
           UNCHANGED <<serverVars, hostVars>>
    PROVE  InputInv'
<1> SUFFICES ASSUME NEW c \in Clients PROVE MachineInputs(c)'
  BY DEF InputInv
<1>1. /\ MachineInputs(c) /\ TypeInv /\ UNCHANGED <<toClient, cpc, srvFrame>>
      /\ \A e \in Clients \ {d} : UNCHANGED <<Machine(e), MachineRing(e)>>
  BY EmulationLocal, EmulationRing
     DEF InputStep, InputInv, JoinStep, LockStep, serverVars
<1>2. CASE c # d
  BY <1>1, <1>2, InputsKept
<1>3. CASE c = d
  <2>1. cpc'[c] # "off" => Stream(toClient[c])'
    BY <1>1 DEF MachineInputs, Stream, LastGame, Numbered
  <2>2. Settled(d)' => Settled(d)
    <3>1. Foreign.kind # "session"
      BY DEF Foreign, Game
    <3>2. game[d] = Foreign => game'[d] = Foreign
      <4>1. CASE EndFrame(d)
        BY <1>1, <3>1, <4>1, MachineTypes DEF EndFrame
      <4>2. CASE ~EndFrame(d)
        BY <4>2 DEF EmulationThread, PushPending, PushReady, TakeBack, SyncSpeedToken,
                    SyncSpeedTimeout
      <4> QED
        BY <4>1, <4>2
    <3> QED
      BY <1>1, <3>2 DEF Settled, InSession, InFlight
  <2> QED
    BY <1>1, <1>3, <2>1, <2>2, InputEmulated DEF MachineInputs
<1> QED
  BY <1>2, <1>3

-----------------------------------------------------------------------------
(* The client thread: a heartbeat goes into the ring, a game empties it. *)

LEMMA StreamRead ==
    ASSUME NEW s \in Seq(ToClientMsgs), s # <<>>, Stream(s)
    PROVE  Stream(Tail(s))
<1> DEFINE n == Len(s)
<1> DEFINE t == Tail(s)
<1>1. /\ n \in Nat \ {0} /\ Len(t) = n - 1
      /\ \A i \in 1 .. n - 1 : t[i] = s[i + 1] /\ i + 1 \in 1 .. n
  BY TailElements
<1> SUFFICES ASSUME NEW i \in 1 .. n - 1, LastGame(t, i) PROVE Numbered(t, i)
  BY <1>1 DEF Stream
<1>2. t[i] = s[i + 1] /\ i + 1 \in 1 .. n
  BY <1>1
<1>3. ASSUME NEW k \in (i + 1) + 1 .. n
      PROVE  k - 1 \in i + 1 .. n - 1 /\ t[k - 1] = s[k]
  <2>1. k - 1 \in i + 1 .. n - 1 /\ k - 1 \in 1 .. n - 1 /\ (k - 1) + 1 = k
    BY <1>1
  <2> QED
    BY <1>1, <2>1
<1>4. ASSUME NEW k \in i + 1 .. n - 1
      PROVE  k + 1 \in (i + 1) + 1 .. n /\ t[k] = s[k + 1] /\ (k + 1) - (i + 1) = k - i
  BY <1>1
<1> HIDE DEF n, t
<1>5. LastGame(s, i + 1)
  <2>1. \A k \in (i + 1) + 1 .. n : s[k].type \notin SyncTypes
    BY <1>1, <1>3 DEF LastGame
  <2> QED
    BY <1>2, <2>1 DEF LastGame, n
<1>6. Numbered(s, i + 1)
  BY <1>2, <1>5 DEF Stream, n
<1>7. /\ \A k \in (i + 1) + 1 .. n : /\ s[k].type = "JOYPAD"
                                     /\ s[k].frame = s[i + 1].frame + (k - (i + 1))
      /\ s[i + 1].frame + (n - (i + 1)) = srvFrame /\ n - (i + 1) <= Lag
  BY <1>6 DEF Numbered, n
<1>8. \A k \in i + 1 .. Len(t) : t[k].type = "JOYPAD" /\ t[k].frame = t[i].frame + (k - i)
  BY <1>1, <1>2, <1>4, <1>7
<1>9. n - (i + 1) = Len(t) - i
  BY <1>1
<1> QED
  BY <1>2, <1>7, <1>8, <1>9 DEF Numbered

\* A ring that was just reset holds nothing, and what is written comes next.
LEMMA RingReset ==
    ASSUME TypeInv, NEW c \in Clients, ResetJoypadReadPos(c), frameCount'[c] <= syncedAt'[c],
           frameCount'[c] \in Nat, syncedAt'[c] \in Nat
    PROVE  RingHolds(c, 0)'
<1>1. HistSize \in Nat \ {0, 1} /\ writeInd'[c] = 0 /\ readInd'[c] = HistSize - 1
  BY RingTypes DEF ResetJoypadReadPos
<1>2. Slot(HistSize - 1, 0 + 1) = 0
  <2>1. HistSize - 1 \in Slots /\ 1 \in 0 .. HistSize /\ ~(HistSize - 1 + 1 < HistSize)
    BY <1>1 DEF Slots
  <2>2. Slot(HistSize - 1, 1) = HistSize - 1 + 1 - HistSize
    BY <2>1, SlotIs
  <2> QED
    BY <1>1, <2>2
<1>3. ~(frameCount'[c] > syncedAt'[c])
  OBVIOUS
<1> QED
  BY <1>1, <1>2, <1>3 DEF RingHolds, Slot

\* A machine that is given a game has no tokens, and the heartbeats behind the
\* game are the next ones.
LEMMA InputBegins ==
    ASSUME InputStep, NEW d \in Clients, ClientThread(d), UNCHANGED serverVars,
           sem'[d] = 0, pc'[d] # "probe", ResetJoypadReadPos(d), waiting'[d] = FALSE,
           frameCount'[d] \in Nat, syncedAt'[d] = frameCount'[d], d \in saidHello \cup {Host},
           \A i \in 1 .. Len(toClient'[d]) :
              toClient'[d][i].type = "JOYPAD" /\ toClient'[d][i].frame = frameCount'[d] + i,
           frameCount'[d] + Len(toClient'[d]) = srvFrame, Len(toClient'[d]) <= Lag,
           Len(toClient'[d]) \in Nat
    PROVE  Flow(d)' /\ Inputs(d)'
<1>1. /\ MaxBehind \in Nat /\ Lag \in Nat /\ TypeInv
      /\ srvFrame' = srvFrame /\ saidHello' = saidHello
  BY RingTypes DEF InputStep, JoinStep, LockStep, serverVars
<1>2. Tokens(d)' = 0
  BY DEF Tokens
<1>3. Done(d)' <= frameCount'[d]
  BY DEF Done
<1>4. RingHolds(d, 0)'
  BY <1>1, RingReset
<1>5. RingHolds(d, Tokens(d))'
  BY <1>2, <1>4 DEF RingHolds
<1>6. /\ frameCount'[d] + 0 + Len(toClient'[d]) = srvFrame
      /\ 0 + Len(toClient'[d]) <= MaxBehind + Lag + 1
  BY <1>1
<1>7. Flow(d)'
  BY <1>1, <1>2, <1>6 DEF Flow
<1>8. ~(Done(d)' > syncedAt'[d])
  <2>1. Done(d)' \in {frameCount'[d], frameCount'[d] - 1}
    BY DEF Done
  <2> QED
    BY <2>1
<1>9. \A i \in 1 .. Len(toClient'[d]) :
         toClient'[d][i].type = "JOYPAD" /\ toClient'[d][i].frame = frameCount'[d] + 0 + i
  OBVIOUS
<1>10. Inputs(d)'
  BY <1>2, <1>5, <1>8, <1>9 DEF Inputs
<1> QED
  BY <1>7, <1>10

\* A heartbeat becomes a token.
LEMMA InputHeard ==
    ASSUME InputStep, NEW d \in Clients, RecvHeartbeat(d), UNCHANGED serverVars, Settled(d)
    PROVE  Flow(d)' /\ Inputs(d)'
<1> DEFINE s == toClient[d]
<1>0. TypeInv /\ MaxBehind + Lag + 1 < HistSize
  BY DEF InputStep, JoinStep, LockStep, Undisturbed
<1>1. /\ MaxBehind \in Nat /\ Lag \in Nat /\ HistSize \in Nat \ {0, 1} /\ TypeInv
      /\ sem[d] \in Nat /\ sem[d] <= HistSize /\ frameCount[d] \in Nat /\ srvFrame \in Nat
      /\ s \in Seq(ToClientMsgs) /\ MaxBehind + Lag + 1 < HistSize
      /\ sem \in [Clients -> 0 .. HistSize] /\ waiting \in [Clients -> BOOLEAN]
      /\ cpc \in [Clients -> {"off", "hello", "loop", "pausing", "drain"}]
      /\ toClient \in [Clients -> Seq(ToClientMsgs)]
  <2>1. /\ MaxBehind \in Nat /\ Lag \in Nat /\ HistSize \in Nat \ {0, 1}
        /\ sem \in [Clients -> 0 .. HistSize] /\ frameCount \in [Clients -> Nat]
    BY <1>0, RingTypes
  <2>2. sem[d] \in 0 .. HistSize /\ frameCount[d] \in Nat
    BY <2>1
  <2>3. sem[d] \in Nat /\ sem[d] <= HistSize
    BY <2>1, <2>2
  <2> QED
    BY <1>0, <2>1, <2>2, <2>3, MachineTypes
<1>2. /\ cpc[d] = "loop" /\ s # <<>> /\ toClient'[d] = Tail(s)
      /\ ring' = [ring EXCEPT ![d][writeInd[d]] = Head(s).frame]
      /\ writeInd' = [writeInd EXCEPT ![d] = Next1(@)]
      /\ UNCHANGED <<toServer, pc, prev, pending, frameCount, readInd, joypads, syncedAt>>
      /\ srvFrame' = srvFrame /\ saidHello' = saidHello /\ clientPaused' = clientPaused
  BY <1>1 DEF RecvHeartbeat, serverVars
<1>3. /\ Len(s) \in Nat \ {0} /\ Head(s) = s[1] /\ 1 \in 1 .. Len(s) /\ Len(Tail(s)) = Len(s) - 1
      /\ \A i \in 1 .. Len(s) - 1 : Tail(s)[i] = s[i + 1] /\ i + 1 \in 1 .. Len(s)
  BY <1>1, <1>2, TailElements
<1>4. Flow(d) /\ Inputs(d)
  BY <1>2 DEF InputStep, InputInv, MachineInputs
<1>5. /\ pc[d] = "probe" => sem[d] > 0
      /\ frameCount[d] + Tokens(d) + Len(s) = srvFrame /\ Len(s) <= Lag
      /\ Tokens(d) + Len(s) <= MaxBehind + Lag + 1 /\ (waiting[d] => Asked(d))
      /\ d \in saidHello \cup {Host}
  BY <1>4 DEF Flow
<1>6. \A i \in 1 .. Len(s) : s[i].type = "JOYPAD" /\ s[i].frame = frameCount[d] + Tokens(d) + i
  BY <1>4 DEF Inputs
<1> HIDE DEF s
<1>7. Tokens(d) \in 0 .. HistSize - 2 /\ sem[d] # HistSize
  <2>1. /\ Tokens(d) \in Nat /\ sem[d] <= Tokens(d) + 1
    BY <1>1, <1>5 DEF Tokens
  <2> QED
    BY <1>1, <1>3, <1>5, <2>1
<1>8. /\ sem'[d] = sem[d] + 1
      /\ waiting'[d] <=> waiting[d] \/ FallsBehind(d)
      /\ cpc'[d] = IF FallsBehind(d) THEN "pausing" ELSE cpc[d]
  BY <1>1, <1>7 DEF RecvHeartbeat
<1>9. Tokens(d)' = Tokens(d) + 1 /\ Done(d)' = Done(d) /\ sem'[d] > 0
  BY <1>1, <1>2, <1>8 DEF Tokens, Done, FrameAhead
<1>10. waiting'[d] => Asked(d)'
  BY <1>2, <1>5, <1>8 DEF Asked, FallsBehind
<1>12. /\ frameCount[d] + (Tokens(d) + 1) + (Len(s) - 1) = srvFrame /\ Len(s) - 1 <= Lag
       /\ (Tokens(d) + 1) + (Len(s) - 1) <= MaxBehind + Lag + 1
  BY <1>1, <1>3, <1>5, <1>7
<1>13. Flow(d)'
  BY <1>2, <1>3, <1>5, <1>9, <1>10, <1>12 DEF Flow
<1>14. RingHolds(d, Tokens(d))'
  <2>1. PICK n \in 0 .. HistSize - 2 : n = Tokens(d)
    BY <1>7
  <2>2. RingHolds(d, n)
    BY <1>4, <2>1 DEF Inputs
  <2>3. Head(s).frame = frameCount[d] + (n + 1)
    <3>1. Head(s).frame = frameCount[d] + Tokens(d) + 1
      BY <1>3, <1>6
    <3>2. frameCount[d] \in Nat /\ n \in Nat
      BY <1>1
    <3> QED
      BY <2>1, <3>1, <3>2
  <2>4. RingHolds(d, n + 1)'
    BY <1>1, <1>2, <2>2, <2>3, RingWritten
  <2>5. Tokens(d)' = n + 1
    BY <1>9, <2>1
  <2> QED
    BY <2>4, <2>5 DEF RingHolds
<1>15. \A i \in 1 .. Len(s) - 1 :
          /\ Tail(s)[i].type = "JOYPAD"
          /\ Tail(s)[i].frame = frameCount[d] + (Tokens(d) + 1) + i
  <2> SUFFICES ASSUME NEW i \in 1 .. Len(s) - 1
               PROVE  /\ Tail(s)[i].type = "JOYPAD"
                      /\ Tail(s)[i].frame = frameCount[d] + (Tokens(d) + 1) + i
    OBVIOUS
  <2>1. /\ Tail(s)[i] = s[i + 1] /\ i + 1 \in 1 .. Len(s)
        /\ frameCount[d] + Tokens(d) + (i + 1) = frameCount[d] + (Tokens(d) + 1) + i
    <3>1. frameCount[d] \in Nat /\ Tokens(d) \in Nat /\ i \in Nat
      BY <1>1, <1>3, <1>7
    <3> QED
      BY <1>3, <3>1
  <2> QED
    BY <1>6, <2>1
<1>16. Done(d)' > syncedAt'[d] => joypads'[d] = Done(d)'
  BY <1>2, <1>4, <1>9 DEF Inputs
<1>17. Inputs(d)'
  BY <1>2, <1>3, <1>9, <1>14, <1>15, <1>16 DEF Inputs
<1> QED
  BY <1>13, <1>17

LEMMA InputClient ==
    ASSUME InputStep, NEW d \in Clients, ClientThread(d), UNCHANGED <<serverVars, hostVars>>
    PROVE  InputInv'
<1> SUFFICES ASSUME NEW c \in Clients PROVE MachineInputs(c)'
  BY DEF InputInv
<1>1. /\ MachineInputs(c) /\ LockStep /\ TypeInv /\ srvFrame' = srvFrame /\ cpc[d] # "off"
      /\ \A e \in Clients \ {d} : UNCHANGED <<Machine(e), MachineRing(e)>>
      /\ \/ toClient'[d] = toClient[d]
         \/ toClient[d] # <<>> /\ toClient'[d] = Tail(toClient[d])
  BY ClientLocal, ClientRing DEF InputStep, InputInv, JoinStep, LockStep, serverVars
<1>2. CASE c # d
  BY <1>1, <1>2, InputsKept
<1> SUFFICES ASSUME c = d PROVE MachineInputs(d)'
  BY <1>2
<1> DEFINE s == toClient[d]
<1>3. /\ s \in Seq(ToClientMsgs) /\ toClient \in [Clients -> Seq(ToClientMsgs)]
      /\ cpc \in [Clients -> {"off", "hello", "loop", "pausing", "drain"}]
      /\ game \in [Clients -> Games] /\ frameCount \in [Clients -> Nat]
      /\ syncedAt \in [Clients -> Nat] /\ pc[d] # "drain"
      /\ pc \in [Clients -> {"top", "frame", "probe", "wait", "drain"}]
      /\ waiting \in [Clients -> BOOLEAN] /\ toServer \in [Clients -> Seq(ToServerMsgs)]
  BY <1>1, MachineTypes, RingTypes DEF LockStep, StepInv, JoinsOnly
<1>4. Stream(toClient[d])'
  <2>1. Stream(s)
    BY <1>1 DEF MachineInputs
  <2>2. s # <<>> => Stream(Tail(s))
    BY <1>3, <2>1, StreamRead
  <2>3. Stream(toClient'[d])
    BY <1>1, <2>1, <2>2
  <2> QED
    BY <1>1, <2>3 DEF Stream, LastGame, Numbered
<1> SUFFICES ASSUME Settled(d)' PROVE Flow(d)' /\ Inputs(d)'
  BY <1>4 DEF MachineInputs
<1>5. /\ cpc'[d] \in {"loop", "pausing"} /\ game'[d] # Foreign
      /\ \A i \in 1 .. Len(toClient'[d]) : toClient'[d][i].type \notin SyncTypes
  <2>1. cpc'[d] \in {"off", "hello", "loop", "pausing", "drain"}
    BY <1>3 DEF ClientThread, RecvHello, RecvHeartbeat, SendPause, RecvSync, ClientDiscard,
                ReplaceGame, ReplaceRom, ReplaceSram, DiscardDone
  <2> QED
    BY <2>1 DEF Settled, InSession, InFlight
\* A machine that is being sent the game has said hello.
<1>6. s # <<>> /\ InSession(d) => d \in saidHello \cup {Host}
  <2> SUFFICES ASSUME s # <<>>, InSession(d), d # Host PROVE d \in saidHello
    OBVIOUS
  <2>1. d \in Remotes /\ ~Gone(d)
    BY DEF Remotes, Gone, InSession
  <2> QED
    BY <2>1 DEF InputStep, JoinStep, JoinInv, Joining
<1>7. CASE RecvHello(d)
  <2>1. cpc[d] = "hello" /\ s # <<>> /\ toClient'[d] = Tail(s) /\ sem' = sem /\ waiting' = waiting
    BY <1>3, <1>7 DEF RecvHello
  <2>2. /\ Head(s).type \in HelloTypes /\ ResetJoypadReadPos(d) /\ pc'[d] = "top"
        /\ frameCount'[d] = Head(s).frame /\ syncedAt'[d] = Head(s).frame
        /\ d # Host => game'[d] = Foreign
    BY <1>3, <1>5, <1>7 DEF RecvHello
  <2>3. d = Host /\ s = <<Hello(0, FALSE)>> /\ srvFrame = 0 /\ waiting'[d] = FALSE
    <3>1. d = Host
      BY <1>5, <2>2
    <3> QED
      BY <1>1, <1>3, <2>1, <3>1, HostBegins
  <2>4. Head(s).frame = 0 /\ Tail(s) = <<>> /\ Len(Tail(s)) = 0
    BY <2>3 DEF Hello, ToClientMsg
  <2>5. sem'[d] = 0
    BY <1>1, <2>1, <2>3 DEF LockStep, Noticed, Empty, InSession
  <2> HIDE DEF s
  <2>6. /\ Len(toClient'[d]) = 0 /\ frameCount'[d] = 0 /\ syncedAt'[d] = 0
        /\ d \in saidHello \cup {Host}
    BY <2>1, <2>2, <2>3, <2>4
  <2>7. /\ frameCount'[d] \in Nat /\ frameCount'[d] + Len(toClient'[d]) = srvFrame
        /\ Len(toClient'[d]) <= Lag /\ Len(toClient'[d]) \in Nat
    BY <2>3, <2>6, NetPlayAssumption
  <2>8. \A i \in 1 .. Len(toClient'[d]) :
           toClient'[d][i].type = "JOYPAD" /\ toClient'[d][i].frame = frameCount'[d] + i
    BY <2>6
  <2>9. sem'[d] = 0 /\ pc'[d] # "probe" /\ syncedAt'[d] = frameCount'[d]
    BY <2>2, <2>5, <2>6
  <2> QED
    BY <2>2, <2>3, <2>6, <2>7, <2>8, <2>9, InputBegins
<1>8. CASE RecvHeartbeat(d)
  <2>1. /\ cpc[d] = "loop" /\ s # <<>> /\ toClient'[d] = Tail(s) /\ Head(s).type = "JOYPAD"
        /\ game' = game
    BY <1>3, <1>8 DEF RecvHeartbeat
  <2>2. Head(s).type \notin SyncTypes
    BY <2>1 DEF SyncTypes
  <2>3. ~InFlight(d, SyncTypes)
    <3>1. ~InFlight(d, SyncTypes)'
      BY <1>5 DEF InFlight
    <3> QED
      BY <1>1, <2>1, <2>2, <3>1, InFlightRead
  <2>4. Settled(d)
    BY <1>5, <2>1, <2>3 DEF Settled, InSession
  <2> QED
    BY <1>8, <2>4, InputHeard
<1>9. CASE SendPause(d)
  <2>1. /\ cpc[d] = "pausing" /\ UNCHANGED <<toClient, pc, sem, prev, pending, waiting,
              frameCount, ring, writeInd, readInd, joypads, game, syncedAt>>
        /\ toServer'[d] = Append(toServer[d], "PAUSE")
    BY <1>3, <1>9 DEF SendPause, SendToServer
  <2>2. Settled(d)
    BY <1>5, <2>1 DEF Settled, InSession, InFlight
  <2>3. Flow(d) /\ Inputs(d)
    BY <1>1, <2>2 DEF MachineInputs
  <2>4. toServer[d] \in Seq(ToServerMsgs) /\ "PAUSE" \in ToServerMsgs
    BY <1>3 DEF ToServerMsgs
  <2>5. Asked(d)'
    BY <2>1, <2>4, AppendElements DEF Asked
  <2>6. Tokens(d)' = Tokens(d) /\ Done(d)' = Done(d)
    BY <2>1 DEF Tokens, Done, FrameAhead
  <2>7. Flow(d)'
    BY <2>1, <2>3, <2>5, <2>6 DEF Flow, serverVars
  <2>8. RingHolds(d, Tokens(d)) => RingHolds(d, Tokens(d))'
    BY <2>1, <2>6 DEF RingHolds, Slot
  <2>9. Inputs(d)'
    BY <2>1, <2>3, <2>6, <2>8 DEF Inputs
  <2> QED
    BY <2>7, <2>9
<1>10. ~(RecvSync(d) \/ ClientDiscard(d))
  BY <1>3, <1>5 DEF RecvSync, ClientDiscard
<1>11. CASE ReplaceGame(d)
  <2>1. /\ cpc[d] = "drain" /\ s # <<>> /\ sem[d] = 0 /\ toClient'[d] = Tail(s)
        /\ Head(s).type \in Replacing /\ pc' = pc /\ sem' = sem /\ waiting'[d] = FALSE
        /\ frameCount'[d] = Head(s).frame /\ syncedAt'[d] = Head(s).frame
        /\ ResetJoypadReadPos(d)
    BY <1>3, <1>11 DEF ReplaceGame, DiscardDone, Replacing
  <2>2. pc[d] # "probe"
    BY <1>1, <1>3, <1>11, NotPaused DEF ReplaceGame, DiscardDone, Idle, LockStep, Undisturbed
  <2>3. d \in saidHello \cup {Host}
    BY <1>6, <2>1 DEF InSession
  <2>4. /\ Len(s) \in Nat \ {0} /\ Head(s) = s[1] /\ 1 \in 1 .. Len(s)
        /\ Len(Tail(s)) = Len(s) - 1
        /\ \A i \in 1 .. Len(s) - 1 : Tail(s)[i] = s[i + 1] /\ i + 1 \in 1 .. Len(s)
    BY <1>3, <2>1, TailElements
  <2> HIDE DEF s
  <2>5. \A k \in 1 + 1 .. Len(s) : s[k].type \notin SyncTypes
    <3> SUFFICES ASSUME NEW k \in 2 .. Len(s) PROVE s[k].type \notin SyncTypes
      OBVIOUS
    <3>1. k - 1 \in 1 .. Len(s) - 1 /\ (k - 1) + 1 = k
      BY <2>4
    <3> QED
      BY <1>5, <2>1, <2>4, <3>1
  <2>6. Numbered(s, 1)
    BY <1>1, <2>1, <2>4, <2>5 DEF MachineInputs, Stream, LastGame, s
  <2>7. /\ \A k \in 2 .. Len(s) : s[k].type = "JOYPAD" /\ s[k].frame = s[1].frame + (k - 1)
        /\ s[1].frame + (Len(s) - 1) = srvFrame /\ Len(s) - 1 <= Lag
    BY <2>6 DEF Numbered
  <2>8. \A i \in 1 .. Len(s) - 1 :
           Tail(s)[i].type = "JOYPAD" /\ Tail(s)[i].frame = s[1].frame + i
    <3> SUFFICES ASSUME NEW i \in 1 .. Len(s) - 1
                 PROVE  Tail(s)[i].type = "JOYPAD" /\ Tail(s)[i].frame = s[1].frame + i
      OBVIOUS
    <3>1. i + 1 \in 2 .. Len(s) /\ (i + 1) - 1 = i /\ Tail(s)[i] = s[i + 1]
      BY <2>4
    <3> QED
      BY <2>7, <3>1
  <2>9. Head(s).frame \in Nat /\ Len(Tail(s)) \in Nat
    <3>1. s[1] \in ToClientMsgs
      BY <1>3, <2>4 DEF s
    <3> QED
      BY <2>4, <3>1 DEF ToClientMsgs
  <2>10. /\ frameCount'[d] \in Nat /\ frameCount'[d] + Len(toClient'[d]) = srvFrame
         /\ Len(toClient'[d]) <= Lag /\ Len(toClient'[d]) \in Nat
    BY <2>1, <2>4, <2>7, <2>9
  <2>11. \A i \in 1 .. Len(toClient'[d]) :
            toClient'[d][i].type = "JOYPAD" /\ toClient'[d][i].frame = frameCount'[d] + i
    BY <2>1, <2>4, <2>8
  <2>12. sem'[d] = 0 /\ pc'[d] # "probe" /\ syncedAt'[d] = frameCount'[d]
    BY <2>1, <2>2
  <2> QED
    BY <2>1, <2>3, <2>10, <2>11, <2>12, InputBegins
<1>12. ~(ReplaceRom(d) \/ ReplaceSram(d))
  BY <1>3, <1>5 DEF ReplaceRom, ReplaceSram
<1> QED
  BY <1>7, <1>8, <1>9, <1>10, <1>11, <1>12 DEF ClientThread

-----------------------------------------------------------------------------
(* The server. *)

\* What a step of the server other than a heartbeat does to a machine.
Heard(c) ==
    /\ srvFrame' = srvFrame
    /\ c \in saidHello => c \in saidHello'
    /\ \/ /\ toServer'[c] = toServer[c]
          /\ c \in clientPaused /\ InSession(c) => c \in clientPaused'
       \/ /\ toServer[c] # <<>> /\ toServer'[c] = Tail(toServer[c])
          /\ Head(toServer[c]) = "PAUSE" => c \in clientPaused'
    /\ \/ toClient'[c] = toClient[c]
       \/ \E msg \in ToClientMsgs :
             /\ toClient'[c] = Append(toClient[c], msg) /\ msg.type \in SyncTypes
             /\ msg.type \in Replacing => msg.frame = srvFrame
       \/ /\ ~InSession(c)
          /\ \A i \in 1 .. Len(toClient'[c]) : toClient'[c][i].type \in HelloTypes

LEMMA StreamSent ==
    ASSUME NEW s \in Seq(ToClientMsgs), Stream(s), NEW m \in ToClientMsgs,
           m.type \in SyncTypes, m.type \in Replacing => m.frame = srvFrame,
           srvFrame \in Nat, Lag \in Nat
    PROVE  Stream(Append(s, m))
<1> DEFINE t == Append(s, m)
<1>1. /\ Len(s) \in Nat /\ Len(t) = Len(s) + 1 /\ t[Len(s) + 1] = m
      /\ \A i \in 1 .. Len(s) + 1 : i = Len(s) + 1 \/ i \in 1 .. Len(s)
  BY AppendElements
<1> HIDE DEF t
<1> SUFFICES ASSUME NEW i \in 1 .. Len(s) + 1, LastGame(t, i) PROVE Numbered(t, i)
  BY <1>1 DEF Stream, t
<1>2. i = Len(s) + 1
  <2>1. CASE i \in 1 .. Len(s)
    <3>1. Len(s) + 1 \in i + 1 .. Len(t)
      BY <1>1, <2>1
    <3> QED
      BY <1>1, <3>1 DEF LastGame
  <2> QED
    BY <1>1, <2>1
<1>3. t[i].frame = srvFrame
  BY <1>1, <1>2 DEF LastGame
<1>4. Len(t) - i = 0 /\ srvFrame + 0 = srvFrame /\ 0 <= Lag /\ \A k \in i + 1 .. Len(t) : FALSE
  BY <1>1, <1>2
<1> QED
  BY <1>3, <1>4 DEF Numbered

\* The pause a machine asked for is not forgotten on the way to the server.
LEMMA AskedKept ==
    ASSUME TypeInv, NEW c \in Clients, InSession(c), UNCHANGED clientVars, Heard(c), Asked(c)
    PROVE  Asked(c)'
<1>1. toServer[c] \in Seq(ToServerMsgs) /\ cpc' = cpc
  BY MachineTypes DEF clientVars
<1>2. CASE cpc[c] = "pausing"
  BY <1>1, <1>2 DEF Asked
<1>3. CASE cpc[c] # "pausing" /\ toServer'[c] = toServer[c]
  <2>1. toServer[c] = <<>> => c \in clientPaused'
    BY <1>1, <1>3, TailElements DEF Heard, Asked
  <2> QED
    BY <1>3, <2>1 DEF Asked
<1>4. CASE cpc[c] # "pausing" /\ toServer'[c] # toServer[c]
  <2> DEFINE q == toServer[c]
  <2>1. /\ q # <<>> /\ toServer'[c] = Tail(q) /\ q[Len(q)] = "PAUSE"
        /\ Head(q) = "PAUSE" => c \in clientPaused'
    BY <1>4 DEF Heard, Asked
  <2>2. /\ Len(q) \in Nat \ {0} /\ Head(q) = q[1] /\ Len(Tail(q)) = Len(q) - 1
        /\ \A i \in 1 .. Len(q) - 1 : Tail(q)[i] = q[i + 1]
        /\ Tail(q) \in Seq(ToServerMsgs)
    BY <1>1, <2>1, TailElements
  <2> HIDE DEF q
  <2>3. CASE Len(q) = 1
    <3>1. Tail(q) = <<>> /\ c \in clientPaused'
      BY <2>1, <2>2, <2>3, EmptySeq
    <3> QED
      BY <2>1, <3>1 DEF Asked
  <2>4. CASE Len(q) # 1
    <3>1. Len(q) - 1 \in 1 .. Len(q) - 1 /\ (Len(q) - 1) + 1 = Len(q)
      BY <2>2, <2>4
    <3>2. Tail(q)[Len(Tail(q))] = "PAUSE"
      BY <2>1, <2>2, <3>1
    <3>3. Tail(q) # <<>>
      BY <2>2, <2>4
    <3> QED
      BY <2>1, <3>2, <3>3 DEF Asked
  <2> QED
    BY <2>3, <2>4
<1> QED
  BY <1>2, <1>3, <1>4

LEMMA InputServed ==
    ASSUME InputStep, NEW c \in Clients, cpc[c] # "off", UNCHANGED clientVars, Heard(c)
    PROVE  MachineInputs(c)'
<1>1. /\ TypeInv /\ MachineInputs(c) /\ toClient[c] \in Seq(ToClientMsgs)
      /\ srvFrame \in Nat /\ Lag \in Nat /\ srvFrame' = srvFrame
  BY MachineTypes, RingTypes DEF InputStep, JoinStep, LockStep, InputInv, Heard
<1>2. /\ InSession(c)' <=> InSession(c)
      /\ Tokens(c)' = Tokens(c) /\ Done(c)' = Done(c)
  BY DEF clientVars, InSession, Tokens, Done, FrameAhead
<1>3. Stream(toClient'[c]) => Stream(toClient[c])'
  BY <1>1 DEF Stream, LastGame, Numbered
<1>4. CASE toClient'[c] = toClient[c]
  <2>1. Stream(toClient[c])'
    BY <1>1, <1>3, <1>4 DEF MachineInputs
  <2>2. Settled(c)' <=> Settled(c)
    BY <1>2, <1>4 DEF Settled, InFlight, clientVars
  <2>3. Settled(c) /\ Flow(c) => Flow(c)'
    <3> SUFFICES ASSUME Settled(c), Flow(c) PROVE Flow(c)'
      OBVIOUS
    <3>1. Asked(c) => Asked(c)'
      BY <1>1, AskedKept DEF Settled
    <3>2. /\ pc'[c] = pc[c] /\ sem'[c] = sem[c] /\ prev'[c] = prev[c]
          /\ frameCount'[c] = frameCount[c] /\ waiting'[c] = waiting[c]
      BY DEF clientVars
    <3>3. c \in saidHello' \cup {Host}
      BY DEF Flow, Heard
    <3> QED
      BY <1>1, <1>2, <1>4, <3>1, <3>2, <3>3 DEF Flow
  <2>4. RingHolds(c, Tokens(c)) => RingHolds(c, Tokens(c))'
    BY <1>2 DEF RingHolds, Slot, clientVars
  <2>5. Inputs(c) => Inputs(c)'
    BY <1>2, <1>4, <2>4 DEF Inputs, clientVars
  <2> QED
    BY <1>1, <2>1, <2>2, <2>3, <2>5 DEF MachineInputs
<1>5. CASE \E msg \in ToClientMsgs :
             /\ toClient'[c] = Append(toClient[c], msg) /\ msg.type \in SyncTypes
             /\ msg.type \in Replacing => msg.frame = srvFrame
  <2>1. PICK msg \in ToClientMsgs :
             /\ toClient'[c] = Append(toClient[c], msg) /\ msg.type \in SyncTypes
             /\ msg.type \in Replacing => msg.frame = srvFrame
    BY <1>5
  <2>2. Stream(toClient[c])
    BY <1>1 DEF MachineInputs
  <2>3. Stream(toClient'[c])
    BY <1>1, <2>1, <2>2, StreamSent
  <2>4. /\ Len(toClient[c]) + 1 \in 1 .. Len(toClient'[c])
        /\ toClient'[c][Len(toClient[c]) + 1] = msg
    BY <1>1, <2>1, AppendElements
  <2>5. ~Settled(c)'
    BY <2>1, <2>4 DEF Settled, InFlight
  <2> QED
    BY <1>3, <2>3, <2>5 DEF MachineInputs
<1>6. CASE ~InSession(c) /\ \A i \in 1 .. Len(toClient'[c]) : toClient'[c][i].type \in HelloTypes
  <2>1. Stream(toClient'[c])
    BY <1>6 DEF Stream, LastGame, Replacing, HelloTypes
  <2> QED
    BY <1>2, <1>3, <1>6, <2>1 DEF MachineInputs, Settled
<1> QED
  BY <1>4, <1>5, <1>6 DEF Heard

LEMMA HeardReads ==
    ASSUME InputStep, NEW d \in Clients, ServerReads(d), UNCHANGED clientVars,
           NEW c \in Clients, cpc[c] # "off"
    PROVE  Heard(c)
<1>1. /\ JoinStep /\ LockStep /\ TypeInv /\ srvFrame' = srvFrame
      /\ saidHello \subseteq connected /\ srvFrame \in Nat /\ sendROM \in BOOLEAN
  BY ReadsLocal, ServerTypes
     DEF InputStep, JoinStep, LockStep, TypeInv, TypeOK, ServerTypeOK
<1>2. CASE c # d
  BY <1>1, <1>2, ReadsLocal DEF Heard
<1> SUFFICES ASSUME c = d PROVE Heard(d)
  BY <1>2
<1>3. d # Host => d \in Remotes /\ Joining(d)
  BY <1>1 DEF Remotes, JoinStep, JoinInv, Gone
<1>4. InSession(d) => d \in connected
  <2>1. CASE d = Host
    BY <1>1, <2>1 DEF LockStep, StepInv, HostFirst, HostJoins, InSession
  <2> QED
    BY <1>3, <2>1 DEF Joining
<1>5. CASE AcceptClient(d)
  BY <1>1, <1>4, <1>5 DEF AcceptClient, Heard, wireVars
<1>6. CASE ProcessHello(d)
  <2> DEFINE msg == Hello(srvFrame, sendROM /\ numClients > 1)
  <2>1. Receive(d, "HELLO") /\ SendTo({d}, msg) /\ UNCHANGED flags
    BY <1>6 DEF ProcessHello
  <2>2. msg \in ToClientMsgs /\ msg.type \in HelloTypes
    BY <1>1, SentTypes
  <2> HIDE DEF msg
  <2>3. /\ toServer[d] # <<>> /\ Head(toServer[d]) = "HELLO" /\ toServer'[d] = Tail(toServer[d])
        /\ toClient'[d] = Append(toClient[d], msg)
    BY <1>1, <2>1, ReceivedFrom, SentTo
  <2>4. toClient[d] = <<>> /\ cpc[d] = "hello"
    <3>1. CASE d = Host
      BY <1>1, <2>3, <3>1, HostMessage DEF FromHost
    <3>2. CASE d # Host
      BY <1>1, <1>3, <2>1, <3>2, JoiningReceived
    <3> QED
      BY <3>1, <3>2
  <2>5. toClient'[d] = Append(<<>>, msg)
    BY <2>3, <2>4
  <2>6. Len(toClient'[d]) = 1 /\ toClient'[d][1] = msg
    BY <2>5
  <2> QED
    BY <1>1, <2>1, <2>2, <2>3, <2>4, <2>6 DEF Heard, InSession, flags
<1>7. CASE \/ ProcessReadyFirst(d) \/ ProcessReadyAgain(d) \/ ProcessReceivedRomImage(d)
           \/ ProcessWaitingForRomImage(d)
  <2>1. /\ \E msg \in {"READY", "RECEIVED_ROM_IMAGE", "WAITING_FOR_ROM_IMAGE"} : Receive(d, msg)
        /\ d \in saidHello' /\ (UNCHANGED toClient \/ SendTo({d}, RomImage))
    BY <1>7 DEF ProcessReadyFirst, ProcessReadyAgain, ProcessReceivedRomImage,
                ProcessWaitingForRomImage, Joins
  <2>2. /\ toServer[d] # <<>> /\ Head(toServer[d]) # "PAUSE" /\ toServer'[d] = Tail(toServer[d])
        /\ toClient'[d] = toClient[d] \/ toClient'[d] = Append(toClient[d], RomImage)
    BY <1>1, <2>1, ReceivedFrom, SentTo
  <2>3. RomImage \in ToClientMsgs /\ RomImage.type \in SyncTypes /\ RomImage.type \notin Replacing
    BY SentTypes DEF SyncTypes, Replacing
  <2> QED
    BY <1>1, <2>1, <2>2, <2>3 DEF Heard
<1>8. CASE ProcessPause(d)
  <2>1. /\ \E msg \in {"PAUSE", "RESUME"} :
             Receive(d, msg) /\ (msg = "PAUSE" => d \in clientPaused')
        /\ UNCHANGED <<saidHello, toClient>>
    BY <1>8 DEF ProcessPause
  <2> QED
    BY <1>1, <2>1, ReceivedFrom DEF Heard
<1>9. ~ShutdownClient(d)
  <2> SUFFICES ASSUME Receive(d, "EOF") PROVE FALSE
    BY DEF ShutdownClient
  <2>1. toServer[d] # <<>> /\ Head(toServer[d]) = "EOF" /\ toServer[d] \in Seq(ToServerMsgs)
    BY <1>1, ReceivedFrom, MachineTypes
  <2>2. toServer[d][1] = "EOF" /\ 1 \in 1 .. Len(toServer[d])
    BY <2>1, TailElements
  <2> QED
    BY <1>1, <2>2 DEF LockStep, StepInv, MachineInStep
<1> QED
  BY <1>5, <1>6, <1>7, <1>8, <1>9 DEF ServerReads

LEMMA HeardRuns ==
    ASSUME InputStep, ServerRuns, NEW c \in Clients
    PROVE  Heard(c)
  BY RunsLocal DEF InputStep, Heard

\* The heartbeats behind some place are no more than those on the way.
LEMMA HeartbeatsBehind ==
    ASSUME TypeInv, NEW c \in Clients, NEW i \in Nat, i <= Len(toClient[c]),
           \A k \in i + 1 .. Len(toClient[c]) : toClient[c][k].type = "JOYPAD"
    PROVE  HeartbeatsTo(c) \in Nat /\ Len(toClient[c]) - i <= HeartbeatsTo(c)
<1> DEFINE n == Len(toClient[c])
<1> DEFINE S == {k \in 1 .. n : toClient[c][k].type = "JOYPAD"}
<1>1. n \in Nat
  BY MachineTypes
<1>2. IsFiniteSet(1 .. n) /\ S \in SUBSET (1 .. n)
  <2>1. \A m \in Nat : IsFiniteSet(1 .. m)
    BY FS_Interval
  <2> QED
    BY <1>1, <2>1
<1>3. IsFiniteSet(S)
  BY <1>2, FS_Subset
<1>4. i + 1 .. n \in SUBSET S
  BY <1>1
<1>5. Cardinality(S) \in Nat /\ Cardinality(i + 1 .. n) <= Cardinality(S)
  BY <1>3, <1>4, FS_Subset, FS_CardinalityType
<1>6. Cardinality(i + 1 .. n) = IF i + 1 > n THEN 0 ELSE n - (i + 1) + 1
  <2>1. i + 1 \in Int /\ n \in Int
    BY <1>1
  <2> HIDE DEF n
  <2> QED
    BY <2>1, FS_Interval
<1>7. HeartbeatsTo(c) = Cardinality(S)
  BY DEF HeartbeatsTo
<1> HIDE DEF S
<1>8. n - i <= Cardinality(S)
  BY <1>1, <1>5, <1>6
<1> QED
  BY <1>5, <1>7, <1>8

LEMMA StreamHeartbeat ==
    ASSUME TypeInv, NEW c \in Clients, Stream(toClient[c]), HeartbeatsTo(c) < Lag,
           NEW m \in ToClientMsgs, m.type = "JOYPAD", m.frame = srvFrame + 1,
           srvFrame' = srvFrame + 1, toClient'[c] = Append(toClient[c], m)
    PROVE  Stream(toClient[c])'
<1> DEFINE s == toClient[c]
<1> DEFINE n == Len(s)
<1> DEFINE t == toClient'[c]
<1>0. s \in Seq(ToClientMsgs) /\ srvFrame \in Nat /\ Lag \in Nat
  BY MachineTypes, NetPlayAssumption
<1>1. /\ n \in Nat /\ Len(t) = n + 1 /\ t[n + 1] = m
      /\ \A i \in 1 .. n : t[i] = s[i] /\ i \in 1 .. n + 1
      /\ \A i \in 1 .. n + 1 : i = n + 1 \/ i \in 1 .. n
  BY <1>0, AppendElements
<1>2. \A i \in 1 .. n : LastGame(s, i) => Numbered(s, i)
  BY DEF Stream
<1>3. \A i \in 1 .. n : (\A k \in i + 1 .. n : s[k].type = "JOYPAD") => n - i < Lag
  <2> SUFFICES ASSUME NEW i \in 1 .. n, \A k \in i + 1 .. n : s[k].type = "JOYPAD"
               PROVE  n - i < Lag
    OBVIOUS
  <2>1. HeartbeatsTo(c) \in Nat /\ n - i <= HeartbeatsTo(c)
    BY <1>1, HeartbeatsBehind
  <2> HIDE DEF n
  <2> QED
    BY <1>0, <1>1, <2>1
<1> HIDE DEF s, t, n
<1> SUFFICES ASSUME NEW i \in 1 .. n + 1, LastGame(t, i) PROVE Numbered(toClient[c], i)'
  BY <1>1 DEF Stream, LastGame, t
<1>4. i \in 1 .. n
  BY <1>1 DEF Replacing, LastGame
<1>5. t[i] = s[i] /\ \A k \in i + 1 .. n : t[k] = s[k] /\ k \in i + 1 .. n + 1
  BY <1>1, <1>4
<1>6. Numbered(s, i)
  <2>1. \A k \in i + 1 .. n : s[k].type \notin SyncTypes
    BY <1>1, <1>5 DEF LastGame
  <2> QED
    BY <1>2, <1>4, <1>5, <2>1 DEF LastGame, n
<1>7. /\ \A k \in i + 1 .. n : s[k].type = "JOYPAD" /\ s[k].frame = s[i].frame + (k - i)
      /\ s[i].frame + (n - i) = srvFrame
  BY <1>6 DEF Numbered, n
<1>8. n - i < Lag
  BY <1>3, <1>4, <1>7
<1>9. s[i].frame \in Nat
  <2>1. s[i] \in ToClientMsgs
    BY <1>0, <1>4 DEF n
  <2> QED
    BY <2>1 DEF ToClientMsgs
<1>10. s[i].frame + (n + 1 - i) = srvFrame + 1 /\ n + 1 - i <= Lag
  BY <1>0, <1>1, <1>7, <1>8, <1>9
<1>11. \A k \in i + 1 .. n + 1 : k = n + 1 \/ k \in i + 1 .. n
  BY <1>1
<1>12. t[n + 1].frame = s[i].frame + (n + 1 - i)
  BY <1>1, <1>10
<1>13. \A k \in i + 1 .. n + 1 : t[k].type = "JOYPAD" /\ t[k].frame = t[i].frame + (k - i)
  <2> SUFFICES ASSUME NEW k \in i + 1 .. n + 1
               PROVE  t[k].type = "JOYPAD" /\ t[k].frame = t[i].frame + (k - i)
    OBVIOUS
  <2>1. CASE k = n + 1
    BY <1>1, <1>5, <1>12, <2>1
  <2>2. CASE k \in i + 1 .. n
    BY <1>5, <1>7, <2>2
  <2> QED
    BY <1>11, <2>1, <2>2
<1> QED
  BY <1>1, <1>5, <1>10, <1>13 DEF Numbered, t

LEMMA InputHeartbeat ==
    ASSUME InputStep, NEW c \in Clients, cpc[c] # "off", UNCHANGED clientVars,
           SendHeartBeat(userPaused[Host] \/ (Timely /\ ~NetworkFast))
    PROVE  MachineInputs(c)'
<1> DEFINE s == toClient[c]
<1> DEFINE msg == Heartbeat(srvFrame + 1)
<1>1. /\ TypeInv /\ LockStep /\ MachineInputs(c) /\ s \in Seq(ToClientMsgs)
      /\ toServer[c] \in Seq(ToServerMsgs) /\ Timely
      /\ srvFrame \in Nat /\ Lag \in Nat /\ MaxBehind \in Nat
      /\ saidHello \subseteq connected /\ srvPaused = MustPause(saidHello, ready, clientPaused)
  BY MachineTypes, RingTypes, ServerTypes
     DEF InputStep, JoinStep, LockStep, InputInv, Undisturbed
<1>2. /\ srvFrame' = srvFrame + 1 /\ SendTo(saidHello, msg) /\ ~srvPaused /\ NetworkFast
      /\ saidHello # {}
      /\ UNCHANGED <<toServer, saidHello, clientPaused>>
  BY <1>1 DEF SendHeartBeat, flags
<1>3. Host \in saidHello
  BY <1>1, <1>2 DEF LockStep, StepInv, HostFirst
<1>4. /\ InSession(c)' <=> InSession(c)
      /\ Tokens(c)' = Tokens(c) /\ Done(c)' = Done(c) /\ (Asked(c)' <=> Asked(c))
  BY <1>2 DEF clientVars, InSession, Tokens, Done, FrameAhead, Asked
<1>5. c # Host => c \in Remotes /\ Joining(c)
  BY DEF InputStep, JoinStep, JoinInv, Remotes, Gone
<1>6. msg \in ToClientMsgs /\ msg.type = "JOYPAD" /\ msg.frame = srvFrame + 1
  BY <1>1, SentTypes
<1> HIDE DEF msg
<1>7. CASE c \notin saidHello
  <2>1. toClient'[c] = s /\ Joining(c) /\ cpc[c] \in {"off", "hello", "loop", "pausing", "drain"}
    BY <1>1, <1>2, <1>3, <1>5, <1>7, SentTo, MachineTypes
  <2>2. \A i \in 1 .. Len(s) : s[i].type \in HelloTypes
    BY <1>7, <2>1 DEF Joining, InSession
  <2>3. Stream(toClient[c])'
    BY <2>1, <2>2 DEF Stream, LastGame, Replacing, HelloTypes
  <2>4. InSession(c) => game[c] = Foreign
    BY <1>7, <2>1 DEF Joining
  <2>5. ~Settled(c)'
    BY <1>4, <2>4 DEF Settled, clientVars
  <2> QED
    BY <2>3, <2>5 DEF MachineInputs
<1>8. CASE c \in saidHello
  <2>1. InSession(c)
    BY <1>1, <1>3, <1>5, <1>8 DEF LockStep, StepInv, HostStays, Joining, InSession
  <2>2. /\ HeartbeatsTo(c) < Lag
        /\ PauseUnderWay(c) => sem[c] + HeartbeatsTo(c) <= MaxBehind + Lag
    BY <1>2, <1>8, <2>1 DEF NetworkFast
  <2>3. toClient'[c] = Append(s, msg)
    BY <1>2, <1>8, SentTo
  <2>4. Stream(toClient[c])'
    BY <1>1, <1>2, <1>6, <2>2, <2>3, StreamHeartbeat DEF MachineInputs
  <2>5. /\ Len(s) \in Nat /\ Len(toClient'[c]) = Len(s) + 1
        /\ toClient'[c][Len(s) + 1] = msg
        /\ \A i \in 1 .. Len(s) : toClient'[c][i] = s[i] /\ i \in 1 .. Len(s) + 1
        /\ \A i \in 1 .. Len(s) + 1 : i = Len(s) + 1 \/ i \in 1 .. Len(s)
    BY <1>1, <1>6, <2>3, AppendElements
  <2>6. Settled(c)' => Settled(c)
    BY <1>4, <2>5 DEF Settled, InFlight, clientVars
  <2> SUFFICES ASSUME Settled(c) PROVE Flow(c)' /\ Inputs(c)'
    BY <2>4, <2>6 DEF MachineInputs
  <2>7. Flow(c) /\ Inputs(c)
    BY <1>1 DEF MachineInputs
  <2>8. \A k \in 0 + 1 .. Len(s) : s[k].type = "JOYPAD"
    BY <2>7 DEF Inputs
  <2>9. HeartbeatsTo(c) \in Nat /\ Len(s) - 0 <= HeartbeatsTo(c)
    <3>1. 0 \in Nat /\ 0 <= Len(s)
      BY <2>5
    <3> QED
      BY <1>1, <2>8, <3>1, HeartbeatsBehind
  <2> HIDE DEF s
  <2>10. waiting[c] => PauseUnderWay(c)
    <3> SUFFICES ASSUME waiting[c] PROVE PauseUnderWay(c)
      OBVIOUS
    <3>1. Asked(c)
      BY <2>7 DEF Flow
    <3>2. ~(c \in clientPaused)
      BY <1>1, <1>2, <1>8 DEF MustPause
    <3>3. toServer[c] # <<>> => Len(toServer[c]) \in 1 .. Len(toServer[c])
      BY <1>1, TailElements
    <3> QED
      BY <3>1, <3>2, <3>3 DEF Asked, PauseUnderWay
  <2>11. /\ Tokens(c) \in Nat /\ Tokens(c) <= sem[c] /\ sem[c] \in Nat /\ frameCount[c] \in Nat
    <3>1. sem[c] \in 0 .. HistSize /\ prev[c] \in 0 .. HistSize /\ HistSize \in Nat
          /\ frameCount[c] \in Nat
      BY <1>1, RingTypes
    <3>2. pc[c] = "probe" => sem[c] > 0
      BY <2>7 DEF Flow
    <3> QED
      BY <3>1, <3>2 DEF Tokens
  <2>12. /\ frameCount[c] + Tokens(c) + Len(s) = srvFrame
         /\ ~waiting[c] => Tokens(c) <= MaxBehind
    <3>1. frameCount[c] + Tokens(c) + Len(s) = srvFrame
      BY <2>7 DEF Flow, s
    <3>2. ~Unasked(c)
      BY DEF InputStep
    <3> QED
      BY <1>1, <2>1, <2>11, <3>1, <3>2 DEF Unasked, Tokens
  <2>13. Tokens(c) + (Len(s) + 1) <= MaxBehind + Lag + 1
    <3>1. CASE waiting[c]
      BY <1>1, <2>2, <2>5, <2>9, <2>10, <2>11, <3>1
    <3>2. CASE ~waiting[c]
      BY <1>1, <2>2, <2>5, <2>9, <2>11, <2>12, <3>2
    <3> QED
      BY <3>1, <3>2
  <2>14. frameCount[c] + Tokens(c) + (Len(s) + 1) = srvFrame + 1 /\ Len(s) + 1 <= Lag
    <3>1. Len(s) + 1 <= Lag
      BY <1>1, <2>2, <2>5, <2>9
    <3>2. \A a, b, l \in Nat : a + b + (l + 1) = (a + b + l) + 1
      OBVIOUS
    <3>3. frameCount[c] + Tokens(c) + (Len(s) + 1) = (frameCount[c] + Tokens(c) + Len(s)) + 1
      BY <2>5, <2>11, <3>2
    <3> QED
      BY <2>12, <3>1, <3>3
  <2>15. Flow(c)'
    <3>1. /\ pc'[c] = pc[c] /\ sem'[c] = sem[c] /\ prev'[c] = prev[c]
          /\ frameCount'[c] = frameCount[c] /\ waiting'[c] = waiting[c]
      BY DEF clientVars
    <3>2. pc[c] = "probe" => sem[c] > 0
      BY <2>7 DEF Flow
    <3>3. waiting[c] => Asked(c)
      BY <2>7 DEF Flow
    <3> QED
      BY <1>2, <1>4, <1>8, <2>5, <2>12, <2>13, <2>14, <3>1, <3>2, <3>3 DEF Flow
  <2>16. Inputs(c)'
    <3>1. RingHolds(c, Tokens(c)) => RingHolds(c, Tokens(c))'
      BY <1>4 DEF RingHolds, Slot, clientVars
    <3>2. msg.frame = frameCount[c] + Tokens(c) + (Len(s) + 1)
      BY <1>6, <2>14
    <3>3. \A i \in 1 .. Len(s) : /\ s[i].type = "JOYPAD"
                                 /\ s[i].frame = frameCount[c] + Tokens(c) + i
      BY <2>7 DEF Inputs, s
    <3>4. \A i \in 1 .. Len(s) + 1 :
             /\ toClient'[c][i].type = "JOYPAD"
             /\ toClient'[c][i].frame = frameCount[c] + Tokens(c) + i
      BY <1>6, <2>5, <3>2, <3>3
    <3>5. frameCount' = frameCount /\ syncedAt' = syncedAt /\ joypads' = joypads
      BY DEF clientVars
    <3> QED
      BY <1>4, <2>5, <2>7, <3>1, <3>4, <3>5 DEF Inputs
  <2> QED
    BY <2>15, <2>16
<1> QED
  BY <1>7, <1>8

LEMMA InputServer ==
    ASSUME InputStep, ServerStep
    PROVE  InputInv'
<1> SUFFICES ASSUME NEW c \in Clients PROVE MachineInputs(c)'
  BY DEF InputInv
<1>1. UNCHANGED clientVars
  BY ServerCases
<1>2. CASE cpc[c] = "off"
  BY <1>1, <1>2 DEF MachineInputs, Settled, InSession, clientVars
<1>3. CASE cpc[c] # "off"
  BY <1>1, <1>3, ServerCases, InputHeartbeat, HeardReads, HeardRuns, InputServed
<1> QED
  BY <1>2, <1>3

-----------------------------------------------------------------------------
(* The users, and all steps together. *)

LEMMA InputUsers ==
    ASSUME InputStep, Users \/ FrontEnd
    PROVE  InputInv'
<1> SUFFICES ASSUME NEW c \in Clients PROVE MachineInputs(c)'
  BY DEF InputInv
<1>0. MachineInputs(c) /\ LockStep /\ TypeInv
  BY DEF InputStep, JoinStep, LockStep, InputInv
<1>1. CASE \E d \in Clients : NewConnection(d)
  <2>1. PICK d \in Clients : NewConnection(d)
    BY <1>1
  <2>2. /\ cpc'[d] = "hello" /\ toClient'[d] = <<>> /\ UNCHANGED serverVars
        /\ \A e \in Clients \ {d} : UNCHANGED <<Machine(e), MachineRing(e)>>
    BY <1>0, <2>1, MachineTypes DEF NewConnection, Connect, Machine, MachineRing
  <2>3. CASE c = d
    BY <2>2, <2>3 DEF MachineInputs, Settled, InSession, Stream
  <2> QED
    BY <1>0, <2>2, <2>3, InputsKept
<1>2. CASE \E d \in Clients : LeaveSession(d)
  <2>1. PICK d \in Clients : LeaveSession(d)
    BY <1>2
  <2>2. /\ cpc'[d] = "off" /\ UNCHANGED serverVars
        /\ \A e \in Clients \ {d} : UNCHANGED <<Machine(e), MachineRing(e)>>
    BY <1>0, <2>1, MachineTypes DEF LeaveSession, Leave, SendToServer, Machine, MachineRing
  <2>3. CASE c = d
    BY <2>2, <2>3 DEF MachineInputs, Settled, InSession
  <2> QED
    BY <1>0, <2>2, <2>3, InputsKept
<1>3. CASE \E d \in Clients : Unannounce(d)
  <2>1. UNCHANGED <<Machine(c), MachineRing(c), serverVars>>
    BY <1>3 DEF Unannounce, wireVars, clientVars, Machine, MachineRing
  <2> QED
    BY <1>0, <2>1, InputsKept
<1>4. CASE \E d \in Clients : PauseGame(d) \/ ResumeGame(d)
  <2>1. UNCHANGED <<Machine(c), MachineRing(c), serverVars>>
    BY <1>4 DEF PauseGame, ResumeGame, SetPaused, wireVars, Machine, MachineRing
  <2> QED
    BY <1>0, <2>1, InputsKept
<1> QED
  BY <1>0, <1>1, <1>2, <1>3, <1>4, QuietUsers

LEMMA InputNext ==
    ASSUME InputStep, [Next]_vars
    PROVE  InputInv'
<1>1. CASE UNCHANGED vars
  <2> SUFFICES ASSUME NEW c \in Clients PROVE MachineInputs(c)'
    BY DEF InputInv
  <2>1. UNCHANGED <<Machine(c), MachineRing(c), serverVars>>
    BY <1>1 DEF vars, wireVars, clientVars, Machine, MachineRing
  <2> QED
    BY <2>1, InputsKept DEF InputStep, InputInv
<1>2. ASSUME NEW c \in Clients, EmulationStep(c) PROVE InputInv'
  BY <1>2, InputEmulation DEF EmulationStep
<1>3. ASSUME NEW c \in Clients, ClientStep(c) PROVE InputInv'
  BY <1>3, InputClient DEF ClientStep
<1> QED
  BY <1>1, <1>2, <1>3, InputServer, InputUsers DEF Next

InputsAll ==
    /\ NoticedInv /\ Alone
    /\ unnoticed = {} => StepInv /\ JoinInv /\ InputInv

LEMMA InputsAllStep ==
    ASSUME Orderly, InputsAll, unnoticed = {}
    PROVE  InputStep
<1>1. Host \in Clients \ MayLeave
  BY WireAssumption, NetPlayAssumption DEF Remotes
<1>2. LockStep
  BY <1>1, NotUnnoticed DEF InputsAll, LockStep, NoticedInv, Orderly
<1>3. \A c \in Clients : ~Unasked(c)
  BY DEF InputsAll, NoticedInv
<1> QED
  BY <1>2, <1>3, LockStepJoins DEF InputsAll, InputStep, Orderly

LEMMA InputsAllNext ==
    ASSUME Orderly, InputsAll, [Next]_vars
    PROVE  InputsAll'
<1>1. NoticedInv /\ Alone /\ TypeInv /\ Calm /\ Undisturbed
  BY DEF InputsAll, NoticedInv, Orderly, Undisturbed
<1>2. NoticedInv' /\ Alone' /\ (unnoticed' = {} => unnoticed = {})
  BY <1>1, NoticedNext, AloneNext, Noted
<1>3. ASSUME unnoticed = {} PROVE StepInv' /\ JoinInv' /\ InputInv'
  <2>1. StepInv /\ InputStep
    BY <1>3, InputsAllStep DEF InputsAll
  <2>2. StepInv'
    BY <1>1, <1>3, <2>1, StepNext
  <2>3. JoinStep
    BY <2>1 DEF InputStep
  <2> QED
    BY <2>1, <2>2, <2>3, JoinNext, InputNext
<1> QED
  BY <1>2, <1>3 DEF InputsAll

LEMMA InputsAllHolds == Orderly => (Spec => []InputsAll)
<1> SUFFICES ASSUME Orderly PROVE Spec => []InputsAll
  OBVIOUS
<1>1. Init => InputsAll
  <2>1. Init => InputInv
    BY DEF Init, ClientInit, InputInv, MachineInputs, Settled, InSession
  <2> QED
    BY <2>1, NoticedInit, AloneInit, StepInit, JoinInit DEF InputsAll
<1>2. InputsAll /\ [Next]_vars => InputsAll'
  BY InputsAllNext
<1> QED
  BY <1>1, <1>2, PTL DEF Spec

\* A machine emulates a frame with the inputs of the heartbeat before it, the same on
\* every machine, as long as each that is too far behind asks for a pause, but for the
\* first frame after its game was replaced:
\* the ring neither slips nor overruns, and no heartbeat is lost or taken
\* twice, however the machines join, fall behind and catch up (netplay.cpp,
\* S9xNPClientLoop, S9xNPGetJoypad, S9xNPStepJoypadHistory).
THEOREM InputsInStepInv == Orderly => (Spec => []InputsInStep)
<1> SUFFICES ASSUME Orderly PROVE Spec => []InputsInStep
  OBVIOUS
<1>1. InputsAll => InputsInStep
  <2> SUFFICES ASSUME TypeInv, InputInv, NEW c \in Clients, Settled(c), pc[c] = "frame",
                      frameCount[c] > syncedAt[c] + 1
               PROVE  joypads[c] = frameCount[c] - 1
    BY DEF InputsAll, NoticedInv, InputsInStep
  <2>1. Done(c) = frameCount[c] - 1
    BY DEF Done, FrameAhead
  <2>2. frameCount[c] \in Nat /\ syncedAt[c] \in Nat
    BY RingTypes
  <2>3. Done(c) > syncedAt[c]
    BY <2>1, <2>2
  <2> QED
    BY <2>1, <2>3 DEF InputInv, MachineInputs, Inputs
<1> QED
  BY <1>1, InputsAllHolds, PTL
-----------------------------------------------------------------------------
(***************************************************************************)
(* The first inputs. The host, unlike a machine that joins it, plays the   *)
(* first frame after a reset too with the inputs of the heartbeat before:  *)
(* a reset is sent when it has used up its heartbeats and waits for one,   *)
(* and finds it there still, so that nothing is discarded.                 *)
(***************************************************************************)
HostHeld ==
    \A i \in 1 .. Len(toClient[Host]) : toClient[Host][i].type = "RESET" =>
        /\ pc[Host] = "top" /\ pending[Host] /\ sem[Host] = 0
        /\ toClient[Host][i].frame = frameCount[Host]
        /\ \A j \in 1 .. i - 1 : toClient[Host][j].type = "RESET"

HostHeard ==
    /\ ~InSession(Host) => joypads[Host] = 0
    /\ InSession(Host) =>
          /\ joypads[Host] = Done(Host) /\ syncedAt[Host] <= Done(Host)
          /\ cpc[Host] = "drain" => toClient[Host] # <<>> /\ toClient[Host][1].type = "RESET"
          /\ HostHeld

HeardStep == InputStep /\ HostHeard

\* What is known of the host.
LEMMA HostIs ==
    ASSUME HeardStep
    PROVE  /\ TypeInv /\ Host \in Clients /\ pc[Host] # "drain" /\ Timely
           /\ toClient[Host] \in Seq(ToClientMsgs) /\ frameCount[Host] \in Nat
           /\ syncedAt[Host] \in Nat /\ sem[Host] \in Nat /\ pending[Host] \in BOOLEAN
           /\ pc[Host] \in {"top", "frame", "probe", "wait"}
           /\ Done(Host) \in Int
           /\ Host \in saidHello => InSession(Host)
           /\ InSession(Host) =>
                 /\ game[Host] # Foreign
                 /\ pending[Host] => pc[Host] = "top"
                 /\ \A i \in 1 .. Len(toClient[Host]) :
                       toClient[Host][i].type \in {"JOYPAD", "RESET"}
<1>1. TypeInv /\ StepInv /\ Timely
  BY DEF HeardStep, InputStep, LockStep, Undisturbed
<1>2. /\ Host \in Clients /\ toClient[Host] \in Seq(ToClientMsgs) /\ frameCount[Host] \in Nat
      /\ syncedAt[Host] \in Nat /\ sem[Host] \in Nat /\ pending[Host] \in BOOLEAN
      /\ pc[Host] \in {"top", "frame", "probe", "wait", "drain"}
  BY <1>1, MachineTypes, RingTypes
<1>3. pc[Host] # "drain"
  BY <1>1, <1>2 DEF StepInv, JoinsOnly
<1>4. InSession(Host) => (pending[Host] => pc[Host] = "top")
  BY <1>1, <1>2 DEF StepInv, MachineInStep, Played
<1>5. InSession(Host) => game[Host] # Foreign
  <2>1. InSession(Host) => game[Host].kind = "session"
    BY <1>1 DEF StepInv, HostStays
  <2>2. Foreign.kind = "foreign"
    BY DEF Foreign, Game
  <2> QED
    BY <2>1, <2>2
<1>6. InSession(Host) => \A i \in 1 .. Len(toClient[Host]) :
                            toClient[Host][i].type \in {"JOYPAD", "RESET"}
  BY <1>1 DEF StepInv, HostStays, ForHost
<1>7. Done(Host) \in Int
  BY <1>2 DEF Done
<1>8. Host \in saidHello => InSession(Host)
  BY <1>1 DEF StepInv, HostStays
<1> QED
  BY <1>1, <1>2, <1>3, <1>4, <1>5, <1>6, <1>7, <1>8

LEMMA HostSettled ==
    ASSUME HeardStep, InSession(Host),
           \A i \in 1 .. Len(toClient[Host]) : toClient[Host][i].type # "RESET"
    PROVE  Settled(Host) /\ Flow(Host) /\ Inputs(Host)
<1>1. Len(toClient[Host]) \in Nat /\ (toClient[Host] # <<>> => 1 \in 1 .. Len(toClient[Host]))
  BY HostIs
<1>2. cpc[Host] # "drain"
  BY <1>1 DEF HeardStep, HostHeard
<1>3. ~InFlight(Host, SyncTypes)
  <2>1. "JOYPAD" \notin SyncTypes
    BY DEF SyncTypes
  <2> QED
    BY <2>1, HostIs DEF InFlight
<1>4. Settled(Host)
  BY <1>2, <1>3, HostIs DEF Settled
<1> QED
  BY <1>4, HostIs DEF HeardStep, InputStep, InputInv, MachineInputs

\* While a reset is on its way to the host its emulation waits; then a frame
\* ends with the inputs of its heartbeat.
LEMMA HeardEmulation ==
    ASSUME HeardStep, NEW quiet, EmulationThread(Host, quiet), UNCHANGED serverVars
    PROVE  HostHeard'
<1>1. /\ toClient' = toClient /\ cpc' = cpc /\ InSession(Host) /\ InSession(Host)'
      /\ syncedAt' = syncedAt
  BY HostIs, EmulationLocal, EmulationRing DEF InSession
<1>2. ASSUME NEW i \in 1 .. Len(toClient[Host]), toClient[Host][i].type = "RESET" PROVE FALSE
  <2>1. pc[Host] = "top" /\ pending[Host] /\ sem[Host] = 0
    BY <1>1, <1>2 DEF HeardStep, HostHeard, HostHeld
  <2> QED
    BY <2>1 DEF EmulationThread, PushPending, TakeToken, PushReady, EndFrame, TakeBack,
                SyncSpeedToken, SyncSpeedTimeout
<1>3. HostHeld'
  BY <1>1, <1>2 DEF HostHeld
<1>4. Inputs(Host)'
  BY <1>1, <1>2, HostIs, HostSettled, InputEmulated DEF HeardStep
<1>5. joypads[Host] = Done(Host) /\ syncedAt[Host] <= Done(Host)
  BY <1>1 DEF HeardStep, HostHeard
<1>6. /\ frameCount \in [Clients -> Nat] /\ pending \in [Clients -> BOOLEAN]
      /\ pc \in [Clients -> {"top", "frame", "probe", "wait", "drain"}]
  BY HostIs, MachineTypes
<1>7. joypads'[Host] = Done(Host)' /\ syncedAt'[Host] <= Done(Host)'
  <2>1. CASE EndFrame(Host)
    <3>1. Done(Host)' = frameCount[Host] /\ Done(Host) = frameCount[Host] - 1
      BY <1>6, <2>1, HostIs DEF EndFrame, Done, FrameAhead
    <3>2. Done(Host)' > syncedAt'[Host]
      BY <1>1, <1>5, <3>1, HostIs
    <3> QED
      BY <1>1, <1>4, <1>5, <3>1, <3>2, HostIs DEF Inputs
  <2>2. CASE ~EndFrame(Host)
    <3>1. joypads' = joypads
      BY <2>2 DEF EmulationThread, PushPending, PushReady, TakeBack, SyncSpeedToken,
                  SyncSpeedTimeout
    <3>2. Done(Host)' = Done(Host)
      <4>1. CASE PushPending(Host) \/ SyncSpeedToken(Host)
        BY <1>6, <4>1, HostIs DEF PushPending, SyncSpeedToken, TakeToken, Done, FrameAhead
      <4>2. CASE PushReady(Host) \/ TakeBack(Host) \/ SyncSpeedTimeout(Host, quiet)
        BY <1>6, <4>2, HostIs DEF PushReady, TakeBack, SyncSpeedTimeout, Done, FrameAhead
      <4> QED
        BY <2>2, <4>1, <4>2 DEF EmulationThread
    <3> QED
      BY <1>1, <1>5, <3>1, <3>2
  <2> QED
    BY <2>1, <2>2
<1> QED
  BY <1>1, <1>3, <1>7 DEF HeardStep, HostHeard

\* A reset finds the host at the frame it was sent with.
LEMMA HeardClient ==
    ASSUME HeardStep, ClientThread(Host), UNCHANGED serverVars
    PROVE  HostHeard'
<1> DEFINE s == toClient[Host]
<1>1. joypads' = joypads /\ cpc[Host] # "off"
  BY HostIs, ClientRing, ClientLocal
<1>2. /\ cpc \in [Clients -> {"off", "hello", "loop", "pausing", "drain"}]
      /\ pc \in [Clients -> {"top", "frame", "probe", "wait", "drain"}]
      /\ frameCount \in [Clients -> Nat] /\ syncedAt \in [Clients -> Nat]
      /\ pending \in [Clients -> BOOLEAN] /\ sem \in [Clients -> 0 .. HistSize]
      /\ toClient \in [Clients -> Seq(ToClientMsgs)]
  BY HostIs, MachineTypes, RingTypes
<1>3. s # <<>> => /\ Len(s) \in Nat \ {0} /\ Head(s) = s[1] /\ 1 \in 1 .. Len(s)
                  /\ Len(Tail(s)) = Len(s) - 1
                  /\ \A i \in 1 .. Len(s) - 1 : Tail(s)[i] = s[i + 1] /\ i + 1 \in 1 .. Len(s)
  BY HostIs, TailElements
<1>4. CASE ~InSession(Host)
  <2>1. RecvHello(Host) /\ cpc[Host] = "hello" /\ Host \notin saidHello /\ joypads[Host] = 0
    BY <1>1, <1>4, HostIs DEF ClientThread, InSession, RecvHeartbeat, SendPause, RecvSync,
       ClientDiscard, ReplaceGame, ReplaceRom, ReplaceSram, DiscardDone, HeardStep, HostHeard
  <2>2. s = <<Hello(0, FALSE)>>
    <3>1. HostJoins
      BY <2>1 DEF HeardStep, InputStep, LockStep, StepInv, HostFirst
    <3> QED
      BY <2>1, <3>1 DEF HostJoins, RecvHello
  <2>3. Head(s) = Hello(0, FALSE) /\ Tail(s) = <<>>
    BY <2>2
  <2>4. /\ cpc'[Host] = "loop" /\ toClient'[Host] = <<>> /\ frameCount'[Host] = 0
        /\ syncedAt'[Host] = 0 /\ pending'[Host] = TRUE /\ pc'[Host] = "top"
    BY <1>2, <2>1, <2>3, HostIs DEF RecvHello, HelloTypes, Hello, ToClientMsg
  <2>5. Done(Host)' = 0
    BY <2>4 DEF Done, FrameAhead
  <2> QED
    BY <1>1, <2>1, <2>4, <2>5 DEF HostHeard, HostHeld, InSession
<1>5. CASE InSession(Host)
  <2>1. /\ joypads[Host] = Done(Host) /\ syncedAt[Host] <= Done(Host)
        /\ cpc[Host] = "drain" => s # <<>> /\ s[1].type = "RESET"
        /\ HostHeld /\ \A i \in 1 .. Len(s) : s[i].type \in {"JOYPAD", "RESET"}
    BY <1>5, HostIs DEF HeardStep, HostHeard
  <2>2. CASE RecvHeartbeat(Host)
    <3>1. /\ s # <<>> /\ Head(s).type = "JOYPAD" /\ cpc'[Host] \in {"loop", "pausing"}
          /\ toClient'[Host] = Tail(s) /\ UNCHANGED <<pc, pending, frameCount, syncedAt>>
      BY <1>2, <2>2, HostIs DEF RecvHeartbeat
    <3>2. \A i \in 1 .. Len(s) : s[i].type # "RESET"
      <4> SUFFICES ASSUME NEW i \in 1 .. Len(s), s[i].type = "RESET" PROVE FALSE
        OBVIOUS
      <4>1. s[1].type = "JOYPAD" /\ i # 1
        BY <1>3, <3>1
      <4>2. 1 \in 1 .. i - 1
        BY <1>3, <3>1, <4>1
      <4> QED
        BY <2>1, <4>1, <4>2 DEF HostHeld
    <3>3. HostHeld'
      BY <1>3, <3>1, <3>2 DEF HostHeld
    <3>4. Done(Host)' = Done(Host)
      BY <3>1 DEF Done, FrameAhead
    <3> QED
      BY <1>1, <2>1, <3>1, <3>3, <3>4 DEF HostHeard, InSession
  <2>3. CASE SendPause(Host) \/ RecvSync(Host) \/ ClientDiscard(Host)
    <3>1. /\ toClient' = toClient /\ UNCHANGED <<pc, pending, frameCount, syncedAt>>
          /\ sem'[Host] = sem[Host] \/ sem[Host] > 0
          /\ InSession(Host)'
      BY <1>2, <1>5, <2>3, HostIs DEF SendPause, RecvSync, ClientDiscard, DiscardOne, wireVars,
                                      InSession
    <3>2. HostHeld'
      BY <2>1, <3>1 DEF HostHeld
    <3>3. cpc'[Host] = "drain" => s # <<>> /\ s[1].type = "RESET"
      <4>1. CASE RecvSync(Host)
        <5>1. s # <<>> /\ Head(s).type # "JOYPAD"
          BY <4>1 DEF RecvSync, SyncTypes
        <5> QED
          BY <1>3, <2>1, <5>1
      <4>2. CASE SendPause(Host) \/ ClientDiscard(Host)
        BY <1>2, <2>1, <4>2, HostIs DEF SendPause, ClientDiscard
      <4> QED
        BY <2>3, <4>1, <4>2
    <3>4. Done(Host)' = Done(Host)
      BY <3>1 DEF Done, FrameAhead
    <3> QED
      BY <1>1, <2>1, <3>1, <3>2, <3>3, <3>4 DEF HostHeard
  <2>4. CASE ReplaceGame(Host) \/ ReplaceRom(Host) \/ ReplaceSram(Host)
    <3>1. /\ s # <<>> /\ Head(s).type # "JOYPAD" /\ DiscardDone(Host)
      BY <2>4 DEF ReplaceGame, ReplaceRom, ReplaceSram, DiscardDone
    <3>2. s[1].type = "RESET" /\ Head(s) = s[1] /\ 1 \in 1 .. Len(s)
      BY <1>3, <2>1, <3>1
    <3>3. ReplaceGame(Host)
      BY <2>4, <3>2 DEF ReplaceRom, ReplaceSram
    <3>4. /\ pc[Host] = "top" /\ pending[Host] /\ sem[Host] = 0
          /\ s[1].frame = frameCount[Host]
      BY <2>1, <3>2 DEF HostHeld
    <3>5. /\ cpc'[Host] = "loop" /\ toClient'[Host] = Tail(s)
          /\ frameCount'[Host] = frameCount[Host] /\ syncedAt'[Host] = frameCount[Host]
          /\ UNCHANGED <<pc, sem, pending>>
      BY <1>2, <3>1, <3>2, <3>3, <3>4, HostIs DEF ReplaceGame, DiscardDone
    <3>6. HostHeld'
      <4> SUFFICES ASSUME NEW i \in 1 .. Len(Tail(s)), Tail(s)[i].type = "RESET"
                   PROVE  /\ pc[Host] = "top" /\ pending[Host] /\ sem[Host] = 0
                          /\ Tail(s)[i].frame = frameCount[Host]
                          /\ \A j \in 1 .. i - 1 : Tail(s)[j].type = "RESET"
        BY <3>5 DEF HostHeld
      <4>1. Tail(s)[i] = s[i + 1] /\ i + 1 \in 1 .. Len(s)
        BY <1>3, <3>1
      <4>2. s[i + 1].frame = frameCount[Host] /\ \A j \in 1 .. i : s[j].type = "RESET"
        BY <2>1, <4>1 DEF HostHeld
      <4>3. \A j \in 1 .. i - 1 : Tail(s)[j] = s[j + 1] /\ j + 1 \in 1 .. i
        BY <1>3, <3>1
      <4> QED
        BY <3>4, <4>1, <4>2, <4>3
    <3>7. Done(Host)' = frameCount[Host] /\ Done(Host) = frameCount[Host]
      BY <3>4, <3>5 DEF Done, FrameAhead
    <3> QED
      BY <1>1, <2>1, <3>5, <3>6, <3>7, HostIs DEF HostHeard, InSession
  <2> QED
    BY <1>5, <2>2, <2>3, <2>4 DEF ClientThread, RecvHello, InSession
<1> QED
  BY <1>4, <1>5

\* A reset is sent when the host waits for a heartbeat and has none under way.
LEMMA HeardSent ==
    ASSUME HeardStep, UNCHANGED clientVars, InSession(Host), NEW msg \in ToClientMsgs,
           toClient'[Host] = Append(toClient[Host], msg),
           msg.type = "RESET" => HostDone /\ ~userPaused[Host] /\ msg.frame = srvFrame
    PROVE  HostHeard'
<1> DEFINE s == toClient[Host]
           t == toClient'[Host]
<1>1. /\ Len(s) \in Nat /\ Len(t) = Len(s) + 1 /\ t # <<>> /\ t[Len(s) + 1] = msg
      /\ \A i \in 1 .. Len(s) : t[i] = s[i] /\ i \in 1 .. Len(s) + 1
      /\ \A i \in 1 .. Len(s) + 1 : i = Len(s) + 1 \/ i \in 1 .. Len(s)
  BY HostIs, AppendElements
<1>2. /\ joypads[Host] = Done(Host) /\ syncedAt[Host] <= Done(Host)
      /\ cpc[Host] = "drain" => s # <<>> /\ s[1].type = "RESET"
      /\ HostHeld /\ \A i \in 1 .. Len(s) : s[i].type \in {"JOYPAD", "RESET"}
  BY HostIs DEF HeardStep, HostHeard
<1>3. UNCHANGED <<cpc, pc, pending, sem, frameCount, joypads, syncedAt>> /\ Done(Host)' = Done(Host)
  BY DEF clientVars, Done, FrameAhead
<1>4. s # <<>> => 1 \in 1 .. Len(s) /\ Len(s) \in 1 .. Len(s)
  BY HostIs
<1>5. ASSUME msg.type = "RESET"
      PROVE  /\ pc[Host] = "top" /\ pending[Host] /\ sem[Host] = 0
             /\ msg.frame = frameCount[Host]
             /\ \A j \in 1 .. Len(s) : s[j].type = "RESET"
  <2>1. pending[Host] /\ sem[Host] = 0 /\ ~InFlight(Host, {"JOYPAD"}) /\ pc[Host] = "top"
    BY <1>5, HostIs DEF HostDone
  <2>2. \A j \in 1 .. Len(s) : s[j].type = "RESET"
    BY <1>2, <2>1 DEF InFlight
  <2>3. srvFrame \in Nat /\ frameCount[Host] \in Nat
    BY HostIs, MachineTypes
  <2>4. CASE s = <<>>
    <3>1. Flow(Host) /\ Len(s) = 0 /\ Tokens(Host) = 0
      BY <2>1, <2>4, HostSettled DEF Tokens
    <3> QED
      BY <1>5, <2>1, <2>2, <2>3, <3>1 DEF Flow
  <2>5. CASE s # <<>>
    <3>1. LastGame(s, Len(s)) /\ Stream(s)
      <4>1. cpc[Host] # "off"
        BY DEF InSession
      <4> QED
        BY <1>1, <1>4, <2>2, <2>5, <4>1, HostIs
           DEF LastGame, Replacing, HeardStep, InputStep, InputInv, MachineInputs
    <3>2. s[Len(s)].frame + (Len(s) - Len(s)) = srvFrame
      BY <1>4, <2>5, <3>1 DEF Stream, Numbered
    <3>3. s[Len(s)].frame = frameCount[Host]
      BY <1>2, <1>4, <2>2, <2>5 DEF HostHeld
    <3> QED
      BY <1>1, <1>5, <2>1, <2>2, <2>3, <3>2, <3>3
  <2> QED
    BY <2>4, <2>5
<1> HIDE DEF t
<1>6. HostHeld'
  <2> SUFFICES ASSUME NEW i \in 1 .. Len(t), t[i].type = "RESET"
               PROVE  /\ pc[Host] = "top" /\ pending[Host] /\ sem[Host] = 0
                      /\ t[i].frame = frameCount[Host]
                      /\ \A j \in 1 .. i - 1 : t[j].type = "RESET"
    BY <1>3 DEF HostHeld, t
  <2>1. CASE i \in 1 .. Len(s)
    BY <1>1, <1>2, <2>1 DEF HostHeld
  <2>2. CASE i = Len(s) + 1
    BY <1>1, <1>5, <2>2
  <2> QED
    BY <1>1, <2>1, <2>2
<1>7. cpc[Host] = "drain" => t # <<>> /\ t[1].type = "RESET"
  BY <1>1, <1>2, <1>4
<1> QED
  BY <1>2, <1>3, <1>6, <1>7 DEF HostHeard, InSession, t

LEMMA HeardServer ==
    ASSUME HeardStep, ServerStep, HostStays'
    PROVE  HostHeard'
<1>1. UNCHANGED clientVars /\ JoinStep /\ Host \in Clients
  BY ServerCases, HostIs DEF HeardStep, InputStep
<1>2. toClient'[Host] = toClient[Host] => HostHeard'
  BY <1>1 DEF HeardStep, HostHeard, HostHeld, InSession, Done, FrameAhead, clientVars
<1>3. ~InSession(Host) => HostHeard'
  BY <1>1 DEF HeardStep, HostHeard, InSession, clientVars
<1>4. ASSUME InSession(Host), NEW msg \in ToClientMsgs,
             toClient'[Host] = Append(toClient[Host], msg)
      PROVE  msg.type \in {"JOYPAD", "RESET"}
  <2>1. /\ Len(toClient[Host]) + 1 \in 1 .. Len(toClient'[Host])
        /\ toClient'[Host][Len(toClient[Host]) + 1] = msg
    BY <1>4, HostIs, AppendElements
  <2>2. InSession(Host)'
    BY <1>1, <1>4 DEF InSession, clientVars
  <2> QED
    BY <2>1, <2>2 DEF HostStays, ForHost
<1>5. CASE SendHeartBeat(userPaused[Host] \/ (Timely /\ ~NetworkFast))
  <2>1. SendTo(saidHello, Heartbeat(srvFrame')) /\ srvFrame' = srvFrame + 1
    BY <1>5 DEF SendHeartBeat
  <2>2. Heartbeat(srvFrame') \in ToClientMsgs /\ Heartbeat(srvFrame').type # "RESET"
    <3>1. srvFrame' \in Nat
      BY <2>1, HostIs, MachineTypes
    <3>2. Heartbeat(srvFrame') \in ToClientMsgs
      BY <3>1, MessageTypes
    <3> QED
      BY <3>2 DEF Heartbeat, ToClientMsg
  <2>3. \/ toClient'[Host] = toClient[Host]
        \/ \E msg \in ToClientMsgs : /\ msg.type # "RESET"
                                     /\ toClient'[Host] = Append(toClient[Host], msg)
    <3>1. PICK beat \in ToClientMsgs : SendTo(saidHello, beat) /\ beat.type # "RESET"
      BY <2>1, <2>2
    <3> QED
      BY <1>1, <3>1, SentTo
  <2> QED
    BY <1>1, <1>2, <1>3, <2>3, HeardSent
<1>6. ASSUME NEW d \in Clients, ServerReads(d) PROVE HostHeard'
  <2>1. CASE d # Host
    BY <1>1, <1>2, <1>6, <2>1, ReadsLocal
  <2>2. CASE d = Host
    <3>1. CASE ProcessHello(Host) \/ ProcessWaitingForRomImage(Host)
      <4>1. \E msg \in ToClientMsgs : /\ msg.type \notin {"JOYPAD", "RESET"}
                                      /\ toClient'[Host] = Append(toClient[Host], msg)
        <5>1. CASE ProcessHello(Host)
          <6>1. SendTo({Host}, Hello(srvFrame, sendROM /\ numClients > 1))
            BY <5>1 DEF ProcessHello
          <6>2. /\ Hello(srvFrame, sendROM /\ numClients > 1) \in ToClientMsgs
                /\ Hello(srvFrame, sendROM /\ numClients > 1).type \notin {"JOYPAD", "RESET"}
            BY HostIs, MachineTypes, MessageTypes DEF Hello, ToClientMsg
          <6> QED
            BY <1>1, <6>1, <6>2, SentTo
        <5>2. CASE ProcessWaitingForRomImage(Host)
          <6>1. SendTo({Host}, RomImage) /\ RomImage \in ToClientMsgs
                /\ RomImage.type \notin {"JOYPAD", "RESET"}
            BY <5>2, MessageTypes DEF ProcessWaitingForRomImage, RomImage, ToClientMsg
          <6> QED
            BY <1>1, <6>1, SentTo
        <5> QED
          BY <3>1, <5>1, <5>2
      <4> QED
        BY <1>3, <1>4, <4>1
    <3>2. CASE ~(ProcessHello(Host) \/ ProcessWaitingForRomImage(Host))
      <4>1. toClient' = toClient
        BY <1>6, <2>2, <3>2 DEF ServerReads, AcceptClient, wireVars, ProcessReadyFirst,
           ProcessReadyAgain, ProcessReceivedRomImage, ProcessPause, ShutdownClient
      <4> QED
        BY <1>2, <4>1
    <3> QED
      BY <3>1, <3>2
  <2> QED
    BY <2>1, <2>2
<1>7. CASE ServerRuns
  <2>1. \/ toClient'[Host] = toClient[Host]
        \/ \E msg \in ToClientMsgs :
             /\ toClient'[Host] = Append(toClient[Host], msg)
             /\ msg.type \in SyncTypes /\ (msg.type \in Replacing => msg.frame = srvFrame)
    BY <1>1, <1>7, RunsLocal
  <2>2. toClient' = toClient \/ (HostDone /\ spc = "wait")
    BY <1>7 DEF ServerRuns, StartTask, wireVars, FinishJoin, FinishSyncClient, FinishSyncAll,
       FinishReset, FinishSendSram, FinishSendRomImage, Waited
  <2>3. spc = "wait" => ~userPaused[Host]
    BY HostIs, NotPaused DEF HeardStep, InputStep
  <2> QED
    BY <1>1, <1>2, <1>3, <2>1, <2>2, <2>3, HeardSent DEF Replacing
<1> QED
  BY <1>5, <1>6, <1>7, ServerCases

LEMMA HeardNext ==
    ASSUME HeardStep, [Next]_vars, HostStays'
    PROVE  HostHeard'
<1> DEFINE Same == UNCHANGED <<Machine(Host), MachineRing(Host)>>
<1>0. Same => HostHeard'
  BY DEF HeardStep, HostHeard, HostHeld, InSession, Done, FrameAhead, Machine, MachineRing
<1> HIDE DEF Same
<1>1. CASE UNCHANGED vars
  BY <1>0, <1>1 DEF Same, vars, wireVars, clientVars, Machine, MachineRing
<1>2. ASSUME NEW c \in Clients, EmulationStep(c) PROVE HostHeard'
  <2>1. EmulationThread(c, Quiet(c)) /\ UNCHANGED serverVars
    BY <1>2 DEF EmulationStep
  <2>2. c # Host => Same
    BY <2>1, HostIs, EmulationLocal, EmulationRing DEF Same
  <2> QED
    BY <1>0, <2>1, <2>2, HeardEmulation
<1>3. ASSUME NEW c \in Clients, ClientStep(c) PROVE HostHeard'
  <2>1. ClientThread(c) /\ UNCHANGED serverVars
    BY <1>3 DEF ClientStep
  <2>2. c # Host => Same
    BY <2>1, HostIs, ClientLocal, ClientRing DEF Same
  <2> QED
    BY <1>0, <2>1, <2>2, HeardClient
<1>4. CASE Users \/ FrontEnd
  <2>1. CASE \E c \in Clients : NewConnection(c)
    <3>1. PICK c \in Clients : NewConnection(c)
      BY <2>1
    <3>2. CASE c = Host
      <4>1. cpc[Host] = "off" /\ cpc'[Host] = "hello" /\ joypads' = joypads
        BY <3>1, <3>2, HostIs, MachineTypes DEF NewConnection, Connect
      <4> QED
        BY <4>1 DEF HeardStep, HostHeard, InSession
    <3>3. CASE c # Host
      <4>1. Same
        BY <3>1, <3>3, HostIs, MachineTypes DEF NewConnection, Connect, Same, Machine, MachineRing
      <4> QED
        BY <1>0, <4>1
    <3> QED
      BY <3>2, <3>3
  <2>2. CASE \E c \in Clients : LeaveSession(c)
    <3>1. PICK c \in Clients : LeaveSession(c)
      BY <2>2
    <3>2. c # Host
      BY <3>1, NetPlayAssumption DEF LeaveSession, Remotes
    <3>3. Same
      BY <3>1, <3>2, HostIs, MachineTypes DEF LeaveSession, Leave, SendToServer, Same, Machine,
                                              MachineRing
    <3> QED
      BY <1>0, <3>3
  <2>3. CASE \E c \in Clients : Unannounce(c)
    <3>1. Same
      BY <2>3 DEF Unannounce, wireVars, clientVars, Same, Machine, MachineRing
    <3> QED
      BY <1>0, <3>1
  <2>4. CASE \E c \in Clients : PauseGame(c) \/ ResumeGame(c)
    <3>1. Same
      BY <2>4 DEF PauseGame, ResumeGame, SetPaused, wireVars, Same, Machine, MachineRing
    <3> QED
      BY <1>0, <3>1
  <2> QED
    BY <1>4, <2>1, <2>2, <2>3, <2>4, QuietUsers DEF HeardStep, InputStep
<1> QED
  BY <1>1, <1>2, <1>3, <1>4, HeardServer DEF Next

HostHeardAll == unnoticed = {} => HostHeard

LEMMA HostHeardHolds == Orderly => (Spec => []HostHeardAll)
<1> SUFFICES ASSUME Orderly PROVE Spec => []HostHeardAll
  OBVIOUS
<1>1. Init => HostHeardAll
  BY WireAssumption DEF Init, ClientInit, HostHeard, HostHeardAll, InSession
<1>2. InputsAll /\ InputsAll' /\ HostHeardAll /\ [Next]_vars => HostHeardAll'
  <2> SUFFICES ASSUME InputsAll, InputsAll', HostHeardAll, [Next]_vars, unnoticed' = {}
               PROVE  HostHeard'
    BY DEF HostHeardAll
  <2>1. unnoticed = {}
    BY Noted DEF InputsAll
  <2>2. HeardStep /\ HostStays'
    BY <2>1, InputsAllStep DEF HeardStep, HostHeardAll, InputsAll, StepInv
  <2> QED
    BY <2>2, HeardNext
<1> QED
  BY <1>1, <1>2, InputsAllHolds, PTL DEF Spec

\* The host plays every frame, the first of the session and the first after
\* each reset included, with the inputs of the heartbeat before it: a reset
\* finds the host waiting for a heartbeat and none discarded (server.cpp,
\* S9xNPWaitForEmulationToComplete; netplay.cpp, S9xNPDiscardHeartbeats,
\* S9xNPResetJoypadReadPos).
THEOREM HostFirstInputsInv == Orderly => (Spec => []HostFirstInputs)
<1> SUFFICES ASSUME Orderly PROVE Spec => []HostFirstInputs
  OBVIOUS
<1>1. HostHeardAll => HostFirstInputs
  BY DEF HostHeardAll, HostHeard, HostFirstInputs, Settled, Done, FrameAhead
<1> QED
  BY <1>1, HostHeardHolds, PTL
=============================================================================
