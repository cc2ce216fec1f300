------------------------------ MODULE NPServer ------------------------------
(***************************************************************************)
(* The netplay server (server.cpp): the thread of S9xNPServerLoop on the   *)
(* host.  A round of its loop sends a heartbeat when the session is not    *)
(* paused, handles the clients' messages, and runs the queued tasks.  The  *)
(* tasks that need the host's game first wait until the host's emulation   *)
(* thread has used up its heartbeats (S9xNPWaitForEmulationToComplete).    *)
(* Two threads of the front-end queue tasks as well, without a lock.       *)
(*                                                                         *)
(* A handler of the server thread is one step, with three exceptions that  *)
(* the front-end's threads can tell: its store of Paused may come later    *)
(* than what it was computed from (storing), a call of the front-end is a  *)
(* step per access of what both change (call), and what two calls of       *)
(* S9xNPServerAddTask at a time leave in the queue is Overlapped.          *)
(*                                                                         *)
(* The client table is a set per flag.  What the module must know of the   *)
(* host's own machine is a parameter of its actions.                       *)
(***************************************************************************)
EXTENDS NPWire

VARIABLES
    connected, saidHello, ready, clientPaused,  \* the slots with that flag
    numClients,     \* NumClients
    srvFrame,       \* FrameCount
    srvPaused,      \* Paused
    tasks,          \* the queue from TaskHead to TaskTail
    spc,            \* clients: the select loop; tasks; wait
    job,            \* what follows S9xNPWaitForEmulationToComplete
    epoch,          \* history: RESETs sent
    sendROM,        \* SendROMImageOnConnect
    syncByReset,    \* SyncByReset
    storing,        \* may the last handler's store of Paused still be to come?
    call,           \* of a front-end thread in S9xNPServerQueue...: where it is,
                    \* the value it stores in Paused, and how many tasks were
                    \* added while it is in S9xNPServerAddTask
    overlap         \* history: two calls of S9xNPServerAddTask met

serverVars == <<connected, saidHello, ready, clientPaused, numClients, srvFrame,
                srvPaused, tasks, spc, job, epoch, sendROM, syncByReset, storing,
                call, overlap>>
flags      == <<connected, saidHello, ready, clientPaused, numClients, srvPaused>>
queue      == <<tasks, call, overlap>>

\* The user interface, and the emulation thread in mainLoop.
FrontEnds == {"ui", "loop"}
Out == [at |-> "out", verdict |-> FALSE, others |-> 0]

Nobody == Host     \* the client of a task that has none

Work(kind, c) == [kind |-> kind, c |-> c]
TaskKinds == {"SYNC_CLIENT", "SYNC_ALL", "RESET_ALL", "SEND_SRAM",
              "SEND_SRAM_ALL", "SEND_ROM_IMAGE"}
Tasks == [kind : TaskKinds, c : Clients]
Jobs  == [kind : TaskKinds \cup {"JOIN", "SYNC_AFTER_ROM"}, c : Clients]
Idling == Work("SYNC_ALL", Nobody)

ServerTypeOK ==
    /\ connected \subseteq Clients /\ saidHello \subseteq Clients
    /\ ready \subseteq Clients /\ clientPaused \subseteq Clients
    /\ numClients \in Nat /\ srvFrame \in Nat /\ epoch \in Nat
    /\ srvPaused \in BOOLEAN /\ sendROM \in BOOLEAN /\ syncByReset \in BOOLEAN
    /\ tasks \in Seq(Tasks) /\ job \in Jobs
    /\ spc \in {"clients", "tasks", "wait"}
    /\ storing \in BOOLEAN /\ overlap \in BOOLEAN
    /\ call \in [FrontEnds -> [at : {"out", "store", "discard", "add"},
                              verdict : BOOLEAN, others : Nat]]

ServerInit ==
    /\ connected = {} /\ saidHello = {} /\ ready = {} /\ clientPaused = {}
    /\ numClients = 0 /\ srvFrame = 0 /\ epoch = 0
    /\ srvPaused = FALSE /\ sendROM \in BOOLEAN /\ syncByReset \in BOOLEAN
    /\ tasks = <<>> /\ job = Idling /\ spc = "clients"
    /\ storing = FALSE /\ overlap = FALSE /\ call = [t \in FrontEnds |-> Out]

\* What S9xNPRecomputePause finds in the client table.
MustPause(said, rdy, paused) == \E c \in said : c \notin rdy \/ c \in paused

\* S9xNPRecomputePause on the server thread, the only one that reads Paused.
RecomputePause == srvPaused' = MustPause(saidHello', ready', clientPaused') /\ storing' = TRUE

\* n tasks are added while the other threads are where they are.
CallsSee(n) ==
    /\ call' = [t \in FrontEnds |->
                  IF call[t].at = "add" THEN [call[t] EXCEPT !.others = @ + n]
                                        ELSE call[t]]
    /\ UNCHANGED overlap

\* S9xNPServerAddTask, for each task of a sequence.  What it leaves when a front-end
\* thread is in a call of its own is settled at the end of that one (QueueEnds).
AddTasks(new) == tasks' = tasks \o new /\ CallsSee(Len(new))

\* Mutant: a client is only synced when that is done by a reset.
JoinTasksResetOnly(c) ==
    IF syncByReset THEN <<Work("SEND_SRAM", c), Work("RESET_ALL", Nobody)>> ELSE <<>>

\* What a client that has the ROM is queued for, to get the game.
JoinTasks(c) ==
    IF syncByReset THEN <<Work("SEND_SRAM", c), Work("RESET_ALL", Nobody)>>
                   ELSE <<Work("SYNC_CLIENT", c)>>

-----------------------------------------------------------------------------
\* S9xNPSendHeartBeat.  hostStopped: the host is paused by its user.
SendHeartBeat(hostStopped) ==
    /\ spc = "clients" /\ tasks = <<>>
    /\ ~hostStopped /\ ~srvPaused /\ saidHello # {}
    /\ srvFrame < MaxFrames
    /\ srvFrame' = srvFrame + 1
    /\ SendTo(saidHello, Heartbeat(srvFrame'))
    /\ storing' = FALSE
    /\ UNCHANGED <<toServer, flags, queue, spc, job, epoch, sendROM, syncByReset>>

\* S9xNPAcceptClient: a slot that is free is given to the new connection.  A
\* machine is named after the slot it is given.
AcceptClient(c) ==
    /\ spc = "clients" /\ c \notin connected /\ toServer[c] # <<>>
    /\ connected' = connected \cup {c}
    /\ numClients' = numClients + 1
    /\ saidHello' = saidHello \ {c}
    /\ ready' = ready \ {c}
    /\ clientPaused' = clientPaused \ {c}
    /\ storing' = FALSE
    /\ UNCHANGED <<wireVars, srvPaused, srvFrame, queue, spc, job, epoch, sendROM,
                   syncByReset>>

\* S9xNPProcessClient: the next message of c, of a kind.
Receive(c, msg) ==
    /\ spc = "clients" /\ c \in connected
    /\ toServer[c] # <<>> /\ Head(toServer[c]) = msg
    /\ toServer' = [toServer EXCEPT ![c] = Tail(@)]

\* The flags of a client that has the ROM but not the game.
Joins(c, isReady) ==
    /\ saidHello' = saidHello \cup {c}
    /\ ready' = IF isReady THEN ready \cup {c} ELSE ready \ {c}
    /\ clientPaused' = clientPaused \ {c}
    /\ RecomputePause
    /\ UNCHANGED <<connected, numClients>>

ProcessHello(c) ==
    /\ Receive(c, "HELLO")
    /\ SendTo({c}, Hello(srvFrame, sendROM /\ numClients > 1))
    /\ storing' = FALSE
    /\ UNCHANGED <<flags, srvFrame, queue, spc, job, epoch, sendROM, syncByReset>>

\* NP_CLNT_READY of a client that has said hello: it has the game.
ProcessReadyAgain(c) ==
    /\ Receive(c, "READY") /\ c \in saidHello
    /\ Joins(c, TRUE)
    /\ UNCHANGED <<toClient, srvFrame, queue, spc, job, epoch, sendROM, syncByReset>>

\* The first NP_CLNT_READY: the host is simply ready, another client waits for
\* the game unless it was to be sent the ROM first.
ProcessReadyFirst(c) ==
    /\ Receive(c, "READY") /\ c \notin saidHello
    /\ Joins(c, TRUE)
    /\ IF numClients > 1 /\ ~sendROM
         THEN spc' = "wait" /\ job' = Work("JOIN", c)
         ELSE UNCHANGED <<spc, job>>
    /\ UNCHANGED <<toClient, srvFrame, queue, epoch, sendROM, syncByReset>>

\* S9xNPSendROMImageToClient
ProcessWaitingForRomImage(c) ==
    /\ Receive(c, "WAITING_FOR_ROM_IMAGE")
    /\ Joins(c, FALSE)
    /\ SendTo({c}, RomImage)
    /\ UNCHANGED <<srvFrame, queue, spc, job, epoch, sendROM, syncByReset>>

ProcessReceivedRomImage(c) ==
    /\ Receive(c, "RECEIVED_ROM_IMAGE")
    /\ Joins(c, FALSE)
    /\ spc' = "wait" /\ job' = Work("JOIN", c)
    /\ UNCHANGED <<toClient, srvFrame, queue, epoch, sendROM, syncByReset>>

ProcessPause(c) ==
    /\ \/ Receive(c, "PAUSE") /\ clientPaused' = clientPaused \cup {c}
       \/ Receive(c, "RESUME") /\ clientPaused' = clientPaused \ {c}
    /\ UNCHANGED <<saidHello, ready>>
    /\ RecomputePause
    /\ UNCHANGED <<toClient, connected, numClients, srvFrame, queue, spc, job, epoch,
                   sendROM, syncByReset>>

\* Mutant: NumClients-- is forgotten.
ShutdownUncounted(c) ==
    /\ Receive(c, "EOF")
    /\ connected' = connected \ {c} /\ saidHello' = saidHello \ {c}
    /\ UNCHANGED <<ready, clientPaused, numClients>>
    /\ RecomputePause
    /\ UNCHANGED <<toClient, srvFrame, queue, spc, job, epoch, sendROM, syncByReset>>

\* The stream ended: S9xNPShutdownClient.
ShutdownClient(c) ==
    /\ Receive(c, "EOF")
    /\ connected' = connected \ {c}
    /\ numClients' = numClients - 1
    /\ saidHello' = saidHello \ {c}
    /\ UNCHANGED <<ready, clientPaused>>
    /\ RecomputePause
    /\ UNCHANGED <<toClient, srvFrame, queue, spc, job, epoch, sendROM, syncByReset>>

-----------------------------------------------------------------------------
\* The tasks.  A task runs to its wait, and after it to its end; it stays at
\* the head of the queue until then.

\* S9xNPNoClientReady from a slot on.
NoClientReady(first) ==
    /\ ready' = {c \in ready : c < first}
    /\ UNCHANGED <<connected, saidHello, clientPaused, numClients>>
    /\ RecomputePause

\* Mutants: a client that is sent the game stays ready, or the session goes on
\* without it.
StaysReady(c) == UNCHANGED flags /\ storing' = FALSE
NotReadyNoPause(c) ==
    /\ ready' = ready \ {c} /\ storing' = FALSE
    /\ UNCHANGED <<connected, saidHello, clientPaused, numClients, srvPaused>>

\* Ready = FALSE and S9xNPRecomputePause for one client.
NotReady(c) ==
    /\ ready' = ready \ {c}
    /\ UNCHANGED <<connected, saidHello, clientPaused, numClients>>
    /\ RecomputePause

StartTask ==
    /\ spc \in {"clients", "tasks"} /\ tasks # <<>>
    /\ LET task == Head(tasks)
       IN  /\ CASE task.kind \in {"SYNC_CLIENT", "SEND_SRAM"} -> NotReady(task.c)
                [] task.kind = "RESET_ALL" -> NoClientReady(0)
                [] OTHER -> NoClientReady(1)
           /\ job' = task
    /\ spc' = "wait"
    /\ UNCHANGED <<wireVars, srvFrame, queue, epoch, sendROM, syncByReset>>

\* The end of S9xNPWaitForEmulationToComplete for a job.  hostDone: the
\* condition of its loop no longer holds.
Waited(kind, hostDone) == spc = "wait" /\ job.kind = kind /\ hostDone

TaskDone ==
    /\ tasks' = Tail(tasks) /\ UNCHANGED <<call, overlap>>
    /\ spc' = IF Tail(tasks) = <<>> THEN "clients" ELSE "tasks"
    /\ job' = Idling

\* A handler of the select loop resumes and queues the joining client's tasks.
FinishJoin(hostDone) ==
    /\ Waited("JOIN", hostDone)
    /\ AddTasks(JoinTasks(job.c))
    /\ spc' = "clients" /\ job' = Idling /\ storing' = FALSE
    /\ UNCHANGED <<wireVars, flags, srvFrame, epoch, sendROM, syncByReset>>

\* S9xNPSyncClient: the host's game is saved and sent.
FinishSyncClient(hostDone, hostGame) ==
    /\ Waited("SYNC_CLIENT", hostDone)
    /\ NotReady(job.c)
    /\ SendTo({job.c} \cap connected, FreezeFile(srvFrame, hostGame))
    /\ TaskDone
    /\ UNCHANGED <<toServer, srvFrame, epoch, sendROM, syncByReset>>

FinishSyncAll(hostDone, hostGame) ==
    /\ Waited("SYNC_ALL", hostDone) \/ Waited("SYNC_AFTER_ROM", hostDone)
    /\ ready' = ready \ (saidHello \ {Host})
    /\ UNCHANGED <<connected, saidHello, clientPaused, numClients>>
    /\ RecomputePause
    /\ SendTo(saidHello \ {Host}, FreezeFile(srvFrame, hostGame))
    /\ TaskDone
    /\ UNCHANGED <<toServer, srvFrame, epoch, sendROM, syncByReset>>

FinishReset(hostDone) ==
    /\ Waited("RESET_ALL", hostDone)
    /\ epoch' = epoch + 1
    /\ SendTo(saidHello, Reset(srvFrame, At(epoch', srvFrame)))
    /\ TaskDone /\ storing' = FALSE
    /\ UNCHANGED <<toServer, flags, srvFrame, sendROM, syncByReset>>

FinishSendSram(hostDone) ==
    /\ \/ Waited("SEND_SRAM", hostDone) /\ SendTo({job.c} \cap connected, SramData)
       \/ Waited("SEND_SRAM_ALL", hostDone) /\ SendTo(saidHello \ {Host}, SramData)
    /\ TaskDone /\ storing' = FALSE
    /\ UNCHANGED <<toServer, flags, srvFrame, epoch, sendROM, syncByReset>>

\* S9xNPSendROMImageToAllClients: the clients get the ROM and then the game,
\* by a reset of all or, after one more wait, as a freeze file.
FinishSendRomImage(hostDone) ==
    /\ Waited("SEND_ROM_IMAGE", hostDone)
    /\ SendTo(saidHello \ {Host}, RomImage)
    /\ IF syncByReset
         THEN /\ tasks' = Tail(tasks) \o <<Work("SEND_SRAM_ALL", Nobody),
                                           Work("RESET_ALL", Nobody)>>
              /\ CallsSee(2)
              /\ spc' = "tasks" /\ job' = Idling
         ELSE /\ job' = Work("SYNC_AFTER_ROM", Nobody)
              /\ UNCHANGED <<queue, spc>>
    /\ storing' = FALSE
    /\ UNCHANGED <<toServer, flags, srvFrame, epoch, sendROM, syncByReset>>

-----------------------------------------------------------------------------
\* S9xNPServerQueueSyncAll and S9xNPServerQueueSendingROMImage, on thread t of the
\* front-end.  First nobody but the host is ready (S9xNPNoClientReady) ...
QueueBegins(t) ==
    /\ call[t].at = "out" /\ numClients > 1
    /\ ready' = {c \in ready : c < 1}
    /\ call' = [call EXCEPT ![t] = [at |-> "store", others |-> 0,
                                    verdict |-> MustPause(saidHello, ready', clientPaused)]]
    /\ UNCHANGED <<connected, saidHello, clientPaused, numClients, srvPaused, srvFrame,
                   tasks, overlap, spc, job, epoch, sendROM, syncByReset, storing>>

\* ... then Paused is stored, unless the server thread stores what it found before ...
StorePause(t) ==
    /\ call[t].at = "store"
    /\ srvPaused' = call[t].verdict \/ (storing /\ UNCHANGED srvPaused)
    /\ call' = [call EXCEPT ![t].at = "discard"]
    /\ UNCHANGED <<connected, saidHello, ready, clientPaused, numClients, srvFrame,
                   tasks, overlap, spc, job, epoch, sendROM, syncByReset, storing>>

\* ... and after the discard, which is the caller's, S9xNPServerAddTask is called.
AddBegins(t) ==
    /\ call[t].at = "discard"
    /\ call' = [call EXCEPT ![t].at = "add", ![t].others = 0]
    /\ UNCHANGED <<flags, srvFrame, tasks, overlap, spc, job, epoch, sendROM, syncByReset,
                   storing>>

\* What an entry of the task queue is that nothing was written to: zero.
Unwritten == Work("SEND_ROM_IMAGE", Nobody)

\* What S9xNPServerAddTask (mine) leaves behind the rest of the queue when the calls
\* for theirs are made meanwhile: it reads TaskTail three times, for Task, for Data
\* and to store it.  That of its second reading may be the next entry already, or
\* that of its third, or it may store over a TaskTail that was moved meanwhile.
Overlapped(theirs, mine) ==
    { <<mine>>,                                 \* theirs are written over
      <<theirs[1]>>,                            \* mine is, and the others skipped
      theirs \o <<Unwritten>>,
      <<mine>> \o Tail(theirs) \o <<Unwritten>>,
      <<Work(theirs[1].kind, mine.c)>> \o Tail(theirs) \o <<Unwritten>> }

\* The end of S9xNPServerAddTask.  It is too short for tasks added meanwhile to be
\* taken off the queue before.  The bound on calls keeps the queue in its first lap
\* of NP_MAX_TASKS entries.
QueueEnds(t, kind) ==
    /\ call[t].at = "add"
    /\ \/ tasks' = Append(tasks, Work(kind, Nobody)) /\ UNCHANGED overlap
       \/ \E n \in 1 .. call[t].others :
             /\ n <= Len(tasks)
             /\ \E last \in Overlapped(SubSeq(tasks, Len(tasks) - n + 1, Len(tasks)),
                                      Work(kind, Nobody)) :
                   tasks' = SubSeq(tasks, 1, Len(tasks) - n) \o last
             /\ overlap' = TRUE
    /\ call' = [u \in FrontEnds |->
                  IF u = t THEN Out
                  ELSE IF call[u].at = "add" THEN [call[u] EXCEPT !.others = @ + 1]
                  ELSE call[u]]
    /\ UNCHANGED <<flags, srvFrame, spc, job, epoch, sendROM, syncByReset, storing>>

\* A step of the server thread.
ServerThread(hostStopped, hostDone, hostGame) ==
    \/ SendHeartBeat(hostStopped)
    \/ \E c \in Clients :
         \/ AcceptClient(c) \/ ProcessHello(c) \/ ProcessReadyFirst(c)
         \/ ProcessReadyAgain(c) \/ ProcessWaitingForRomImage(c)
         \/ ProcessReceivedRomImage(c) \/ ProcessPause(c) \/ ShutdownClient(c)
    \/ StartTask \/ FinishJoin(hostDone)
    \/ FinishSyncClient(hostDone, hostGame) \/ FinishSyncAll(hostDone, hostGame)
    \/ FinishReset(hostDone) \/ FinishSendSram(hostDone) \/ FinishSendRomImage(hostDone)

-----------------------------------------------------------------------------
\* The task the server thread carries out is at the head of the queue until its wait
\* is over: S9xNPServerLoop takes off the queue what it has carried out.
JobAtHead ==
    spc = "wait" /\ job.kind # "JOIN" =>
        /\ tasks # <<>>
        /\ IF job.kind = "SYNC_AFTER_ROM" THEN Head(tasks).kind = "SEND_ROM_IMAGE"
                                          ELSE Head(tasks) = job
=============================================================================
