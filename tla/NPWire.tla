------------------------------- MODULE NPWire -------------------------------
(***************************************************************************)
(* The connections of a netplay session (netplay.h): one TCP stream in     *)
(* each direction between the server thread of the host and the client     *)
(* thread of every machine.  A stream is reliable and ordered; it only     *)
(* ends, when its reader meets EOF.  The host is client 0: it reaches its  *)
(* own server through the loopback interface (Snes9xController.cpp,        *)
(* netplayStartServer).                                                    *)
(*                                                                         *)
(* A message keeps what its handler tells apart.  The inputs a heartbeat   *)
(* carries are named by its frame number, which makes every heartbeat's    *)
(* inputs differ: the hardest case for machines that must agree on them.   *)
(***************************************************************************)
EXTENDS Naturals, Sequences, FiniteSets

CONSTANTS Clients,      \* the slots of NPServer.Clients in use
          MaxFrames     \* bound: heartbeats the server sends

Host    == 0            \* the slots below NP_ONE_CLIENT
Remotes == Clients \ {Host}

ASSUME WireAssumption ==
    Host \in Clients /\ Clients \subseteq Nat /\ MaxFrames \in Nat

VARIABLES toServer,     \* [Clients -> messages of its client to the server]
          toClient      \* [Clients -> messages of the server to its client]

wireVars == <<toServer, toClient>>

\* The game a machine holds: the state the session has after that frame.
\* epoch counts the resets of the session.
Game(kind, epoch, frame) == [kind |-> kind, epoch |-> epoch, frame |-> frame]
At(epoch, frame) == Game("session", epoch, frame)
Foreign == Game("foreign", 0, 0)    \* not the session's game
Torn    == Game("torn", 0, 0)       \* saved in the middle of a frame
Games   == [kind : {"session", "foreign", "torn"}, epoch : Nat, frame : Nat]

\* NP_SERV_*: frame and game are unused where the message has none.
ToClientMsg(type, frame, game) == [type |-> type, frame |-> frame, game |-> game]
Heartbeat(frame)      == ToClientMsg("JOYPAD", frame, Foreign)
Reset(frame, game)    == ToClientMsg("RESET", frame, game)
FreezeFile(frame, game) == ToClientMsg("FREEZE_FILE", frame, game)
Hello(frame, rom) ==
    ToClientMsg(IF rom THEN "HELLO_ROM_IMAGE" ELSE "HELLO", frame, Foreign)
RomImage == ToClientMsg("ROM_IMAGE", 0, Foreign)
SramData == ToClientMsg("SRAM_DATA", 0, Foreign)

HelloTypes == {"HELLO", "HELLO_ROM_IMAGE"}
SyncTypes  == {"RESET", "FREEZE_FILE", "ROM_IMAGE", "SRAM_DATA"}
ToClientMsgs ==
    [type : HelloTypes \cup SyncTypes \cup {"JOYPAD"}, frame : Nat, game : Games]

\* NP_CLNT_*: PAUSE carries its flag in the opcode.  EOF is the end of the
\* stream, not a message.  NP_CLNT_JOYPAD is not queued: see NPServer.
ToServerMsgs == {"HELLO", "READY", "WAITING_FOR_ROM_IMAGE", "RECEIVED_ROM_IMAGE",
                 "PAUSE", "RESUME", "EOF"}

WireTypeOK ==
    /\ toServer \in [Clients -> Seq(ToServerMsgs)]
    /\ toClient \in [Clients -> Seq(ToClientMsgs)]

\* Mutant: S9xNPSendPause (FALSE) is forgotten.
SendToServerNoResume(c, msg) ==
    toServer' = IF msg = "RESUME" THEN toServer ELSE [toServer EXCEPT ![c] = Append(@, msg)]

\* S9xNPSendData on the stream of client c.
SendToServer(c, msg) == toServer' = [toServer EXCEPT ![c] = Append(@, msg)]

\* S9xNPSSendData to every client of a set.
SendTo(cs, msg) ==
    toClient' = [c \in Clients |->
                    IF c \in cs THEN Append(toClient[c], msg) ELSE toClient[c]]

InFlight(c, types) == \E i \in 1 .. Len(toClient[c]) : toClient[c][i].type \in types
=============================================================================
