------------------------- MODULE NetPlayOrderProofs -------------------------
(***************************************************************************)
(* What is proved of the order of a netplay session's messages, for every  *)
(* number of machines and every schedule: somebody lifts every pause a     *)
(* machine has asked for, a heartbeat finds a game to play, and none is    *)
(* sent behind a game.                                                     *)
(***************************************************************************)
EXTENDS NetPlayProofs

USE DEF queue

(***************************************************************************)
(* What is on a stream, as sets of messages: is one of A under way, one of *)
(* A after one of B, one of A with none of B after it?                     *)
(***************************************************************************)
Has(s, A)       == \E i \in 1 .. Len(s) : s[i] \in A
After(s, B, A)  == \E i \in 1 .. Len(s) : s[i] \in A /\ \E k \in 1 .. i - 1 : s[k] \in B
Unanswered(s, A, B) == \E i \in 1 .. Len(s) : s[i] \in A /\ \A k \in i + 1 .. Len(s) : s[k] \notin B

LEMMA StreamEmpty ==
    ASSUME NEW A, NEW B
    PROVE  ~Has(<<>>, A) /\ ~After(<<>>, B, A) /\ ~Unanswered(<<>>, A, B)
  BY DEF Has, After, Unanswered

LEMMA StreamAppended ==
    ASSUME NEW S, NEW s \in Seq(S), NEW x \in S, NEW A, NEW B
    PROVE  /\ Has(Append(s, x), A) <=> Has(s, A) \/ x \in A
           /\ After(Append(s, x), B, A) <=> After(s, B, A) \/ (x \in A /\ Has(s, B))
           /\ Unanswered(Append(s, x), A, B) <=> x \in A \/ (Unanswered(s, A, B) /\ x \notin B)
<1> DEFINE t == Append(s, x)
<1> DEFINE n == Len(s)
<1>1. /\ n \in Nat /\ Len(t) = n + 1 /\ t[n + 1] = x
      /\ \A i \in 1 .. n : t[i] = s[i] /\ i \in 1 .. n + 1
      /\ \A i \in 1 .. n + 1 : i = n + 1 \/ i \in 1 .. n
  BY AppendElements
<1> HIDE DEF t, n
<1>2. Has(t, A) <=> Has(s, A) \/ x \in A
  BY <1>1 DEF Has, n
<1>3. After(t, B, A) <=> After(s, B, A) \/ (x \in A /\ Has(s, B))
  <2>1. \A i \in 1 .. n : \A k \in 1 .. i - 1 : t[k] = s[k]
    BY <1>1
  <2>2. (n + 1) - 1 = n /\ n + 1 \in 1 .. n + 1
    BY <1>1
  <2> QED
    BY <1>1, <2>1, <2>2 DEF After, Has, n
<1>4. Unanswered(t, A, B) <=> x \in A \/ (Unanswered(s, A, B) /\ x \notin B)
  <2>1. n + 1 \in 1 .. n + 1 /\ \A k \in (n + 1) + 1 .. n + 1 : FALSE
    BY <1>1
  <2>2. \A i \in 1 .. n : (\A k \in i + 1 .. n + 1 : t[k] \notin B)
                            <=> ((\A k \in i + 1 .. n : s[k] \notin B) /\ x \notin B)
    <3> SUFFICES ASSUME NEW i \in 1 .. n
                 PROVE  (\A k \in i + 1 .. n + 1 : t[k] \notin B)
                            <=> ((\A k \in i + 1 .. n : s[k] \notin B) /\ x \notin B)
      OBVIOUS
    <3>1. /\ n + 1 \in i + 1 .. n + 1
          /\ \A k \in i + 1 .. n : k \in i + 1 .. n + 1 /\ k \in 1 .. n
          /\ \A k \in i + 1 .. n + 1 : k = n + 1 \/ k \in i + 1 .. n
      BY <1>1
    <3> QED
      BY <1>1, <3>1
  <2> QED
    BY <1>1, <2>1, <2>2 DEF Unanswered, n
<1> QED
  BY <1>2, <1>3, <1>4 DEF t

LEMMA StreamTaken ==
    ASSUME NEW S, NEW s \in Seq(S), s # <<>>, NEW A, NEW B
    PROVE  /\ Has(s, A) <=> Head(s) \in A \/ Has(Tail(s), A)
           /\ After(s, B, A) <=> After(Tail(s), B, A) \/ (Head(s) \in B /\ Has(Tail(s), A))
           /\ Unanswered(s, A, B) <=> Unanswered(Tail(s), A, B) \/ (Head(s) \in A /\ ~Has(Tail(s), B))
           /\ Tail(s) \in Seq(S)
<1> DEFINE t == Tail(s)
<1> DEFINE n == Len(s)
<1>1. /\ n \in Nat \ {0} /\ Head(s) = s[1] /\ 1 \in 1 .. n /\ Len(t) = n - 1
      /\ \A i \in 1 .. n - 1 : t[i] = s[i + 1] /\ i + 1 \in 1 .. n
  BY TailElements
<1> HIDE DEF t, n
<1>2. \A i \in 1 .. n : i = 1 \/ (i - 1 \in 1 .. n - 1 /\ s[i] = t[i - 1] /\ (i - 1) + 1 = i)
  BY <1>1
<1>3. Has(s, A) <=> Head(s) \in A \/ Has(t, A)
  BY <1>1, <1>2 DEF Has, n
<1>4. After(s, B, A) <=> After(t, B, A) \/ (Head(s) \in B /\ Has(t, A))
  <2>1. ASSUME After(s, B, A) PROVE After(t, B, A) \/ (Head(s) \in B /\ Has(t, A))
    <3>0. PICK i \in 1 .. n : s[i] \in A /\ \E k \in 1 .. i - 1 : s[k] \in B
      BY <2>1 DEF After, n
    <3>1. PICK k \in 1 .. i - 1 : s[k] \in B
      BY <3>0
    <3>2. i - 1 \in 1 .. n - 1 /\ t[i - 1] \in A /\ k \in 1 .. n
      BY <1>1, <1>2, <3>0, <3>1
    <3>3. k = 1 \/ k - 1 \in 1 .. (i - 1) - 1
      BY <3>1
    <3>4. k = 1 \/ (k - 1 \in 1 .. (i - 1) - 1 /\ t[k - 1] \in B)
      BY <1>2, <3>1, <3>2, <3>3
    <3> QED
      BY <1>1, <3>1, <3>2, <3>4 DEF After, Has
  <2>2. ASSUME After(t, B, A) PROVE After(s, B, A)
    <3>0. PICK i \in 1 .. n - 1 : t[i] \in A /\ \E k \in 1 .. i - 1 : t[k] \in B
      BY <1>1, <2>2 DEF After
    <3>1. PICK k \in 1 .. i - 1 : t[k] \in B
      BY <3>0
    <3>2. i + 1 \in 1 .. n /\ s[i + 1] \in A /\ k + 1 \in 1 .. (i + 1) - 1 /\ s[k + 1] \in B
      BY <1>1, <3>0, <3>1
    <3> QED
      BY <3>2 DEF After, n
  <2>3. ASSUME Head(s) \in B, Has(t, A) PROVE After(s, B, A)
    <3>1. PICK i \in 1 .. n - 1 : t[i] \in A
      BY <1>1, <2>3 DEF Has
    <3>2. i + 1 \in 1 .. n /\ s[i + 1] \in A /\ 1 \in 1 .. (i + 1) - 1 /\ s[1] \in B
      BY <1>1, <2>3, <3>1
    <3> QED
      BY <3>2 DEF After, n
  <2> QED
    BY <2>1, <2>2, <2>3
<1>5. Unanswered(s, A, B) <=> Unanswered(t, A, B) \/ (Head(s) \in A /\ ~Has(t, B))
  <2>1. ASSUME NEW i \in 1 .. n - 1
        PROVE  (\A k \in i + 1 .. n - 1 : t[k] \notin B)
                  <=> (\A k \in (i + 1) + 1 .. n : s[k] \notin B)
    <3>1. \A k \in i + 1 .. n - 1 : k + 1 \in (i + 1) + 1 .. n /\ t[k] = s[k + 1]
      BY <1>1
    <3>2. \A k \in (i + 1) + 1 .. n : k - 1 \in i + 1 .. n - 1 /\ s[k] = t[k - 1]
      BY <1>1, <1>2
    <3> QED
      BY <3>1, <3>2
  <2>2. (\A k \in 1 + 1 .. n : s[k] \notin B) <=> ~Has(t, B)
    <3>1. \A k \in 1 .. n - 1 : k + 1 \in 1 + 1 .. n /\ t[k] = s[k + 1]
      BY <1>1
    <3>2. \A k \in 1 + 1 .. n : k - 1 \in 1 .. n - 1 /\ s[k] = t[k - 1]
      BY <1>1, <1>2
    <3> QED
      BY <1>1, <3>1, <3>2 DEF Has
  <2>3. ASSUME Unanswered(s, A, B) PROVE Unanswered(t, A, B) \/ (Head(s) \in A /\ ~Has(t, B))
    <3>1. PICK i \in 1 .. n : s[i] \in A /\ \A k \in i + 1 .. n : s[k] \notin B
      BY <2>3 DEF Unanswered, n
    <3>2. CASE i = 1
      BY <1>1, <2>2, <3>1, <3>2
    <3>3. CASE i # 1
      <4>1. i - 1 \in 1 .. n - 1 /\ t[i - 1] \in A /\ (i - 1) + 1 = i
        BY <1>1, <1>2, <3>1, <3>3
      <4>2. \A k \in (i - 1) + 1 .. n - 1 : t[k] \notin B
        BY <2>1, <3>1, <4>1
      <4> QED
        BY <1>1, <4>1, <4>2 DEF Unanswered
    <3> QED
      BY <3>2, <3>3
  <2>4. ASSUME Unanswered(t, A, B) PROVE Unanswered(s, A, B)
    <3>1. PICK i \in 1 .. n - 1 : t[i] \in A /\ \A k \in i + 1 .. n - 1 : t[k] \notin B
      BY <1>1, <2>4 DEF Unanswered
    <3>2. /\ i + 1 \in 1 .. n /\ s[i + 1] \in A
          /\ \A k \in (i + 1) + 1 .. n : s[k] \notin B
      BY <1>1, <2>1, <3>1
    <3> QED
      BY <3>2 DEF Unanswered, n
  <2>5. ASSUME Head(s) \in A, ~Has(t, B) PROVE Unanswered(s, A, B)
    BY <1>1, <2>2, <2>5 DEF Unanswered, n
  <2> QED
    BY <2>3, <2>4, <2>5
<1> QED
  BY <1>3, <1>4, <1>5 DEF t
-----------------------------------------------------------------------------
(***************************************************************************)
(* Pauses.  Who has asked for a pause and not yet been answered for it     *)
(* waits for its own emulation thread.  The one message that clears that   *)
(* without an answer is NP_SERV_SRAM_DATA; it is only sent to machines     *)
(* that have just joined (Early) and, before they have the game, are sent  *)
(* no heartbeat they could fall behind with (Fresh).                       *)
(***************************************************************************)
Typed(types) == {msg \in ToClientMsgs : msg.type \in types}
Answers == {"RESUME", "READY", "RECEIVED_ROM_IMAGE", "EOF"}

Asking(c) ==
    \/ c \in clientPaused \cap saidHello /\ ~Has(toServer[c], Answers)
    \/ Unanswered(toServer[c], {"PAUSE"}, Answers)

\* c has not been sent all it needs to join.
Early(c) ==
    \/ c \notin saidHello
    \/ spc = "wait" /\ job = Work("JOIN", c)
    \/ \E i \in 1 .. Len(tasks) : tasks[i] = Work("SEND_SRAM", c)
    \/ Has(toClient[c], Typed({"ROM_IMAGE"}))
    \/ Has(toServer[c], {"RECEIVED_ROM_IMAGE"})

Fresh(c) == ~waiting[c] /\ ~Asking(c) /\ ~Has(toClient[c], Typed({"JOYPAD"}))

\* Where joins reset the session, or a slot is only used once, the ROM comes
\* before any game, and only its receipt makes c ready.
Sorted(c) == syncByReset \/ (SlotsOnce /\ c # Host)
RomFirst(c) ==
    /\ c \notin saidHello => ~Has(toClient[c], Typed({"RESET", "FREEZE_FILE", "ROM_IMAGE"}))
    /\ Has(toServer[c], {"WAITING_FOR_ROM_IMAGE"}) =>
          /\ c \notin saidHello
          /\ ~Has(toServer[c], {"READY", "RECEIVED_ROM_IMAGE"})
          /\ ~After(toServer[c], {"WAITING_FOR_ROM_IMAGE"}, {"WAITING_FOR_ROM_IMAGE"})
    /\ ~After(toClient[c], Typed({"RESET", "FREEZE_FILE"}), Typed({"ROM_IMAGE"}))
    /\ Has(toClient[c], Typed({"ROM_IMAGE"})) => c \notin ready /\ ~Has(toServer[c], {"READY"})
    /\ Has(toServer[c], {"RECEIVED_ROM_IMAGE"}) => c \notin ready
    /\ ~After(toServer[c], {"READY"}, {"RECEIVED_ROM_IMAGE"})

SramFirst(c) ==
    /\ ~After(toClient[c], Typed({"JOYPAD"}), Typed({"SRAM_DATA"}))
    /\ Has(toClient[c], Typed({"SRAM_DATA"})) => syncByReset /\ ~waiting[c] /\ ~Asking(c)

Owner(c) ==
    /\ ~Has(toServer[c], {"EOF"})
    /\ cpc[c] = "hello" => c \notin saidHello /\ ~Has(toServer[c], ToServerMsgs \ {"HELLO"})
    /\ Asking(c) \/ cpc[c] = "pausing" => waiting[c]
    /\ Sorted(c) => RomFirst(c)
    /\ syncByReset /\ Early(c) => Fresh(c)
    /\ SramFirst(c)

\* A machine that catches up has fewer tokens than one that asks for a pause, even when
\* a heartbeat comes into the probe.
Margin == Timely /\ \A n \in Nat : n + 1 >= MaxBehind => ~Resumes(n)

\* One that is about to ask does not find that it has caught up.
Far(c) ==
    cpc[c] = "pausing" =>
        /\ pc[c] = "frame" => sem[c] >= MaxBehind
        /\ pc[c] = "probe" => prev[c] + 1 >= MaxBehind
FarInv == \A c \in Clients : Far(c)

OwnInv == OnlyJoins /\ \A c \in Clients : cpc[c] # "off" => Owner(c)
OwnStep ==
    /\ TypeInv /\ Calm /\ Alone /\ Margin /\ FarInv
    /\ OwnInv /\ (SlotsOnce => JoinInv)

LEMMA FarNext ==
    ASSUME TypeInv, Alone, Timely, FarInv, [Next]_vars
    PROVE  FarInv'
<1> DEFINE View(c) == <<cpc[c], pc[c], sem[c], prev[c]>>
<1>1. /\ sem \in [Clients -> 0 .. HistSize] /\ prev \in [Clients -> 0 .. HistSize]
      /\ cpc \in [Clients -> {"off", "hello", "loop", "pausing", "drain"}]
      /\ pc \in [Clients -> {"top", "frame", "probe", "wait", "drain"}]
      /\ HistSize \in Nat /\ MaxBehind \in Nat
  BY ClientAssumption DEF TypeInv, TypeOK, ClientTypeOK
<1> SUFFICES ASSUME NEW c \in Clients PROVE Far(c)'
  BY DEF FarInv
<1>2. View(c)' = View(c) => Far(c)'
  BY DEF FarInv, Far
<1>3. cpc'[c] # "pausing" => Far(c)'
  BY DEF Far
<1>4. ASSUME NEW d \in Clients, EmulationStep(d) PROVE Far(c)'
  <2>1. CASE PushPending(d) \/ PushReady(d)
    BY <1>1, <1>2, <1>3, <2>1 DEF PushPending, PushReady, TakeToken
  <2>2. CASE EndFrame(d)
    BY <1>1, <1>2, <2>2 DEF EndFrame, FarInv, Far
  <2>3. CASE TakeBack(d)
    BY <1>1, <1>2, <2>3 DEF TakeBack, Far
  <2>4. CASE SyncSpeedToken(d) \/ SyncSpeedTimeout(d, Quiet(d))
    BY <1>1, <1>2, <2>4 DEF SyncSpeedToken, SyncSpeedTimeout, TakeToken, Far
  <2> QED
    BY <1>4, <2>1, <2>2, <2>3, <2>4 DEF EmulationStep, EmulationThread
<1>5. ASSUME NEW d \in Clients, ClientStep(d) PROVE Far(c)'
  <2>1. CASE RecvHeartbeat(d)
    <3>1. CASE c = d /\ FallsBehind(d) /\ sem[d] # HistSize
      <4>1. /\ sem'[c] = MaxBehind + 1 /\ pc'[c] = pc[c] /\ prev'[c] = prev[c]
            /\ pc[c] = "probe" => sem[c] <= prev[c] + 1
        BY <1>1, <2>1, <3>1 DEF RecvHeartbeat, FallsBehind
      <4> QED
        BY <1>1, <3>1, <4>1 DEF Far, FallsBehind
    <3>2. CASE c = d /\ ~(FallsBehind(d) /\ sem[d] # HistSize)
      BY <1>1, <1>3, <2>1, <3>2 DEF RecvHeartbeat
    <3>3. CASE c # d
      BY <1>1, <1>2, <2>1, <3>3 DEF RecvHeartbeat
    <3> QED
      BY <3>1, <3>2, <3>3
  <2>2. CASE RecvHello(d)
    BY <1>1, <1>2, <1>3, <2>2 DEF RecvHello
  <2>3. CASE SendPause(d) \/ RecvSync(d) \/ ClientDiscard(d)
    BY <1>1, <1>2, <1>3, <2>3 DEF SendPause, RecvSync, ClientDiscard, DiscardOne
  <2>4. CASE ReplaceGame(d) \/ ReplaceRom(d) \/ ReplaceSram(d)
    BY <1>1, <1>2, <1>3, <2>4 DEF ReplaceGame, ReplaceRom, ReplaceSram, DiscardDone
  <2> QED
    BY <1>5, <2>1, <2>2, <2>3, <2>4 DEF ClientStep, ClientThread
<1>6. CASE FrontEnd
  <2>1. call["ui"].at = "out" /\ call["loop"].at = "out"
    BY DEF Alone, FrontEnds
  <2>2. ~(UIDiscard \/ MainLoopDiscard \/ MainLoopQueueEnds)
    BY <2>1 DEF UIDiscard, MainLoopDiscard, MainLoopQueueEnds, QueueEnds
  <2>3. ASSUME NEW d \in Clients, Announce(d) PROVE Far(c)'
    BY <1>1, <1>2, <2>3 DEF Announce, Far
  <2>4. CASE FrontEndDiscarded
    BY <1>2, <2>4 DEF FrontEndDiscarded, ClearWaiting
  <2>5. CASE UIQueueEnds \/ FrontEndStores
    BY <1>2, <2>5 DEF UIQueueEnds, FrontEndStores, clientVars
  <2>6. ASSUME NEW d \in Clients, Unannounce(d) PROVE Far(c)'
    BY <1>2, <2>6 DEF Unannounce, clientVars
  <2> QED
    BY <1>6, <2>2, <2>3, <2>4, <2>5, <2>6 DEF FrontEnd
<1>7. CASE Users
  <2>1. CASE UIQueueBegins
    BY <1>2, <2>1 DEF UIQueueBegins, clientVars
  <2>2. ASSUME NEW d \in Clients, NewConnection(d) PROVE Far(c)'
    BY <1>1, <1>2, <1>3, <2>2 DEF NewConnection, Connect
  <2>3. ASSUME NEW d \in Clients, LeaveSession(d) PROVE Far(c)'
    BY <1>1, <1>2, <1>3, <2>3 DEF LeaveSession, Leave
  <2>4. ASSUME NEW d \in Clients, PauseGame(d) \/ ResumeGame(d) PROVE Far(c)'
    BY <1>2, <2>4 DEF PauseGame, ResumeGame, SetPaused
  <2> QED
    BY <1>7, <2>1, <2>2, <2>3, <2>4 DEF Users
<1>8. CASE ServerStep \/ UNCHANGED vars
  BY <1>2, <1>8 DEF ServerStep, vars, clientVars
<1> QED
  BY <1>4, <1>5, <1>6, <1>7, <1>8 DEF Next

\* A step of another machine.
LEMMA OwnerKept ==
    ASSUME NEW c \in Clients, UNCHANGED <<Machine(c), serverVars>>, Owner(c)
    PROVE  Owner(c)'
<1>1. /\ UNCHANGED <<toServer[c], toClient[c], cpc[c], waiting[c]>>
      /\ UNCHANGED <<saidHello, ready, clientPaused, spc, job, tasks, syncByReset>>
  BY DEF Machine, serverVars
<1>2. (Asking(c)' <=> Asking(c)) /\ (Early(c)' <=> Early(c)) /\ (Fresh(c)' <=> Fresh(c))
  BY <1>1 DEF Asking, Early, Fresh
<1> QED
  BY <1>1, <1>2 DEF Owner, RomFirst, SramFirst, Sorted

\* The streams of a machine.
LEMMA StreamTypes ==
    ASSUME TypeInv, NEW c \in Clients
    PROVE  /\ toServer[c] \in Seq(ToServerMsgs) /\ toClient[c] \in Seq(ToClientMsgs)
           /\ {"HELLO", "READY", "WAITING_FOR_ROM_IMAGE", "RECEIVED_ROM_IMAGE",
               "PAUSE", "RESUME", "EOF"} = ToServerMsgs
           /\ waiting[c] \in BOOLEAN
  BY MachineTypes DEF ToServerMsgs

\* A request that is not a PAUSE does not ask for one, an answer answers.
LEMMA AskingSent ==
    ASSUME TypeInv, NEW c \in Clients, NEW m \in ToServerMsgs,
           toServer'[c] = Append(toServer[c], m), UNCHANGED <<clientPaused, saidHello>>
    PROVE  /\ m \in Answers => ~Asking(c)'
           /\ m # "PAUSE" /\ Asking(c)' => Asking(c)
<1>1. toServer[c] \in Seq(ToServerMsgs)
  BY StreamTypes
<1>2. Has(toServer'[c], Answers) <=> Has(toServer[c], Answers) \/ m \in Answers
  BY <1>1, StreamAppended
<1>4. Unanswered(toServer'[c], {"PAUSE"}, Answers) <=>
        m \in {"PAUSE"} \/ (Unanswered(toServer[c], {"PAUSE"}, Answers) /\ m \notin Answers)
  BY <1>1, StreamAppended
<1>3. "PAUSE" \notin Answers
  BY DEF Answers
<1> QED
  BY <1>2, <1>3, <1>4 DEF Asking

LEMMA OwnEmulation ==
    ASSUME OwnStep, NEW d \in Clients, NEW quiet, EmulationThread(d, quiet),
           UNCHANGED <<serverVars, hostVars>>
    PROVE  OwnInv'
<1>1. /\ UNCHANGED <<toClient, cpc>> /\ InSession(d)
      /\ \A c \in Clients \ {d} : UNCHANGED Machine(c)
  BY EmulationLocal DEF OwnStep
<1>2. OnlyJoins'
  <2>1. pc' \in [Clients -> {"top", "frame", "probe", "wait", "drain"}] /\ pc'[d] # "drain"
    <3> USE MachineTypes DEF OwnStep
    <3>1. CASE PushPending(d) \/ PushReady(d)
      BY <3>1 DEF PushPending, PushReady
    <3>2. CASE EndFrame(d)
      BY <3>2 DEF EndFrame
    <3>3. CASE TakeBack(d)
      BY <3>3 DEF TakeBack
    <3>4. CASE SyncSpeedToken(d) \/ SyncSpeedTimeout(d, quiet)
      BY <3>4 DEF SyncSpeedToken, SyncSpeedTimeout
    <3> QED
      BY <3>1, <3>2, <3>3, <3>4 DEF EmulationThread
  <2>2. \A c \in Clients \ {d} : pc'[c] = pc[c]
    BY <1>1 DEF Machine
  <2> QED
    BY <2>1, <2>2 DEF OwnStep, OwnInv, OnlyJoins, serverVars, hostVars, JoinKinds
<1> SUFFICES ASSUME NEW c \in Clients, cpc'[c] # "off" PROVE Owner(c)'
  BY <1>2 DEF OwnInv
<1>3. Owner(c) /\ TypeInv
  BY <1>1 DEF OwnStep, OwnInv
<1>4. CASE c # d
  BY <1>1, <1>3, <1>4, OwnerKept
<1>5. CASE c = d /\ toServer'[d] = toServer[d] /\ waiting'[d] = waiting[d]
  <2>1. /\ UNCHANGED <<toServer[c], toClient[c], cpc[c], waiting[c]>>
        /\ UNCHANGED <<saidHello, ready, clientPaused, spc, job, tasks, syncByReset>>
    BY <1>1, <1>5 DEF serverVars
  <2>2. (Asking(c)' <=> Asking(c)) /\ (Early(c)' <=> Early(c)) /\ (Fresh(c)' <=> Fresh(c))
    BY <2>1 DEF Asking, Early, Fresh
  <2> QED
    BY <1>3, <2>1, <2>2 DEF Owner, RomFirst, SramFirst, Sorted
<1>6. CASE c = d /\ waiting[d] /\ ~waiting'[d] /\ toServer'[d] = Append(toServer[d], "RESUME")
  <2>1. cpc[c] # "pausing"
    <3>1. TakeBack(d)
      BY <1>6 DEF EmulationThread, PushPending, PushReady, EndFrame, SyncSpeedToken,
                  SyncSpeedTimeout
    <3>2. pc[d] = "probe" /\ Resumes(prev[d])
      BY <1>6, <3>1 DEF TakeBack, CaughtUp
    <3>3. prev[d] \in Nat
      BY <1>3, RingTypes
    <3> QED
      BY <1>6, <3>2, <3>3 DEF OwnStep, Margin, FarInv, Far
  <2>2. /\ UNCHANGED <<toClient[c], cpc[c]>> /\ cpc[c] # "hello"
        /\ UNCHANGED <<saidHello, ready, clientPaused, spc, job, tasks, syncByReset>>
    BY <1>1, <1>6 DEF serverVars, InSession
  <2>3. toServer[c] \in Seq(ToServerMsgs) /\ "RESUME" \in ToServerMsgs
    BY <1>3, StreamTypes
  <2>4. \A A, B : /\ "RESUME" \notin A => (Has(toServer'[c], A) <=> Has(toServer[c], A))
                  /\ "RESUME" \notin A => (After(toServer'[c], B, A) <=> After(toServer[c], B, A))
    BY <1>6, <2>3, StreamAppended
  <2>5. ~Asking(c)'
    BY <1>3, <1>6, <2>2, <2>3, AskingSent DEF Answers
  <2>6. Early(c)' <=> Early(c)
    <3>1. Has(toServer'[c], {"RECEIVED_ROM_IMAGE"}) <=> Has(toServer[c], {"RECEIVED_ROM_IMAGE"})
      BY <2>4
    <3> QED
      BY <2>2, <3>1 DEF Early
  <2>7. Sorted(c)' => RomFirst(c)'
    <3>1. /\ Has(toServer'[c], {"WAITING_FOR_ROM_IMAGE"}) <=> Has(toServer[c], {"WAITING_FOR_ROM_IMAGE"})
          /\ Has(toServer'[c], {"RECEIVED_ROM_IMAGE"}) <=> Has(toServer[c], {"RECEIVED_ROM_IMAGE"})
          /\ Has(toServer'[c], {"READY"}) <=> Has(toServer[c], {"READY"})
          /\ Has(toServer'[c], {"READY", "RECEIVED_ROM_IMAGE"})
                <=> Has(toServer[c], {"READY", "RECEIVED_ROM_IMAGE"})
          /\ After(toServer'[c], {"READY"}, {"RECEIVED_ROM_IMAGE"})
                <=> After(toServer[c], {"READY"}, {"RECEIVED_ROM_IMAGE"})
          /\ After(toServer'[c], {"WAITING_FOR_ROM_IMAGE"}, {"WAITING_FOR_ROM_IMAGE"})
                <=> After(toServer[c], {"WAITING_FOR_ROM_IMAGE"}, {"WAITING_FOR_ROM_IMAGE"})
      BY <2>4
    <3> QED
      BY <1>3, <2>2, <3>1 DEF Owner, RomFirst, Sorted
  <2>8. ~Has(toServer'[c], {"EOF"})
    BY <1>3, <2>4 DEF Owner
  <2> QED
    BY <1>3, <1>6, <2>1, <2>2, <2>5, <2>6, <2>7, <2>8 DEF Owner, Fresh, SramFirst
<1> QED
  BY <1>3, <1>4, <1>5, <1>6, EmulationSends

\* Taking a message off a stream adds nothing to it.
LEMMA TakenOnly ==
    ASSUME NEW S, NEW s \in Seq(S), NEW t, t = s \/ (s # <<>> /\ t = Tail(s))
    PROVE  \A A, B : (Has(t, A) => Has(s, A)) /\ (After(t, B, A) => After(s, B, A))
  BY StreamTaken

\* What the client thread sends and takes.
LEMMA ClientSends ==
    ASSUME TypeInv, NEW c \in Clients, ClientThread(c), cpc'[c] # "off"
    PROVE  \/ /\ RecvHello(c) /\ cpc[c] = "hello" /\ cpc'[c] = "loop" /\ UNCHANGED waiting
              /\ \E m \in {"READY", "WAITING_FOR_ROM_IMAGE"} :
                    toServer'[c] = Append(toServer[c], m)
              /\ toClient[c] # <<>> /\ toClient'[c] = Tail(toClient[c])
           \/ /\ RecvHeartbeat(c) /\ cpc[c] # "hello" /\ cpc'[c] # "hello"
              /\ UNCHANGED toServer /\ (waiting[c] \/ cpc'[c] = "pausing" => waiting'[c])
              /\ toClient[c] # <<>> /\ Head(toClient[c]).type = "JOYPAD"
              /\ toClient'[c] = Tail(toClient[c])
           \/ /\ cpc[c] = "pausing" /\ cpc'[c] = "loop" /\ UNCHANGED <<toClient, waiting>>
              /\ toServer'[c] = Append(toServer[c], "PAUSE")
           \/ /\ cpc'[c] = "drain" /\ cpc[c] # "hello" /\ UNCHANGED <<wireVars, waiting>>
           \/ /\ cpc[c] = "drain" /\ cpc'[c] = "loop" /\ ~waiting'[c]
              /\ toClient[c] # <<>> /\ toClient'[c] = Tail(toClient[c])
              /\ \/ /\ Head(toClient[c]).type \in {"RESET", "FREEZE_FILE"}
                    /\ toServer'[c] = Append(toServer[c], "READY")
                 \/ /\ Head(toClient[c]).type = "ROM_IMAGE"
                    /\ toServer'[c] = Append(toServer[c], "RECEIVED_ROM_IMAGE")
                 \/ Head(toClient[c]).type = "SRAM_DATA" /\ UNCHANGED toServer
<1> USE MachineTypes
<1>1. CASE RecvHello(c)
  BY <1>1 DEF RecvHello, SendToServer
<1>2. CASE RecvHeartbeat(c)
  BY <1>2 DEF RecvHeartbeat
<1>3. CASE SendPause(c)
  BY <1>3 DEF SendPause, SendToServer
<1>4. CASE RecvSync(c) \/ ClientDiscard(c)
  BY <1>4 DEF RecvSync, ClientDiscard
<1>5. CASE ReplaceGame(c)
  BY <1>5 DEF ReplaceGame, DiscardDone, SendToServer
<1>6. CASE ReplaceRom(c)
  BY <1>6 DEF ReplaceRom, DiscardDone, SendToServer
<1>7. CASE ReplaceSram(c)
  BY <1>7 DEF ReplaceSram, DiscardDone
<1> QED
  BY <1>1, <1>2, <1>3, <1>4, <1>5, <1>6, <1>7 DEF ClientThread

\* What Owner reads of the server.
ServerSame ==
    UNCHANGED <<saidHello, ready, clientPaused, spc, job, tasks, syncByReset>>

\* A message is taken, and nothing else happens but to waiting.
LEMMA OwnerTakes ==
    ASSUME TypeInv, NEW c \in Clients, Owner(c), ServerSame, UNCHANGED toServer,
           toClient'[c] = toClient[c] \/ (toClient[c] # <<>> /\ toClient'[c] = Tail(toClient[c])),
           waiting'[c] = waiting[c] \/ (Fresh(c) /\ ~waiting'[c])
               \/ (~Asking(c) /\ ~waiting'[c])
               \/ (waiting'[c] /\ (syncByReset => ~Early(c)) /\ ~Has(toClient[c], Typed({"SRAM_DATA"}))),
           cpc'[c] = "pausing" => waiting'[c], cpc[c] # "hello", cpc'[c] # "hello"
    PROVE  Owner(c)'
<1>1. \A A, B : (Has(toClient'[c], A) => Has(toClient[c], A))
                  /\ (After(toClient'[c], B, A) => After(toClient[c], B, A))
  BY StreamTypes, TakenOnly
<1>2. /\ Asking(c)' <=> Asking(c)
      /\ Early(c)' => Early(c)
  BY <1>1 DEF Asking, Early, ServerSame
<1>3. Sorted(c)' => RomFirst(c)'
  BY <1>1 DEF Owner, RomFirst, ServerSame, Sorted
<1>4. SramFirst(c)'
  BY <1>1, <1>2, StreamTypes DEF Owner, SramFirst, ServerSame, Fresh
<1>5. syncByReset' /\ Early(c)' => Fresh(c)'
  BY <1>1, <1>2, StreamTypes DEF Owner, Fresh, ServerSame
<1>6. Asking(c)' \/ cpc'[c] = "pausing" => waiting'[c]
  BY <1>2, StreamTypes DEF Owner, Fresh
<1> QED
  BY <1>3, <1>4, <1>5, <1>6 DEF Owner, ServerSame

\* A message is sent that is no PAUSE.
LEMMA OwnerSends ==
    ASSUME TypeInv, NEW c \in Clients, Owner(c), ServerSame,
           NEW m \in {"READY", "WAITING_FOR_ROM_IMAGE", "RECEIVED_ROM_IMAGE"},
           toServer'[c] = Append(toServer[c], m),
           toClient[c] # <<>> /\ toClient'[c] = Tail(toClient[c]), cpc'[c] = "loop",
           \/ m = "READY" /\ (cpc[c] = "hello" \/ Head(toClient[c]).type \in {"RESET", "FREEZE_FILE"})
           \/ m = "WAITING_FOR_ROM_IMAGE" /\ cpc[c] = "hello"
           \/ m = "RECEIVED_ROM_IMAGE" /\ Head(toClient[c]).type = "ROM_IMAGE",
           ~waiting'[c] \/ (cpc[c] = "hello" /\ waiting'[c] = waiting[c])
    PROVE  Owner(c)'
<1> DEFINE s == toServer[c]
<1> DEFINE q == toClient[c]
<1>0. /\ s \in Seq(ToServerMsgs) /\ q \in Seq(ToClientMsgs) /\ m \in ToServerMsgs
      /\ Head(q) \in ToClientMsgs
  <2>1. Head(q) = q[1] /\ 1 \in 1 .. Len(q) /\ q \in Seq(ToClientMsgs)
    BY StreamTypes, TailElements
  <2> QED
    BY <2>1, StreamTypes
<1>1. /\ UNCHANGED <<saidHello, ready, clientPaused, spc, job, tasks, syncByReset>>
      /\ toServer'[c] = Append(s, m) /\ q # <<>> /\ toClient'[c] = Tail(q)
  BY DEF ServerSame
<1>2. \A A, B : /\ Has(toClient'[c], A) => Has(q, A)
                /\ After(toClient'[c], B, A) => After(q, B, A)
                /\ Head(q) \in A => Has(q, A)
                /\ Head(q) \in B /\ Has(toClient'[c], A) => After(q, B, A)
  BY <1>0, <1>1, StreamTaken
<1>3. \A A, B : /\ Has(toServer'[c], A) <=> Has(s, A) \/ m \in A
                /\ After(toServer'[c], B, A) <=> After(s, B, A) \/ (m \in A /\ Has(s, B))
  BY <1>0, <1>1, StreamAppended
<1>4. cpc[c] = "hello" => c \notin saidHello /\ \A A : "HELLO" \notin A => ~Has(s, A)
  <2> SUFFICES ASSUME cpc[c] = "hello", NEW A, "HELLO" \notin A PROVE ~Has(s, A)
    BY DEF Owner
  <2>1. ~Has(s, ToServerMsgs \ {"HELLO"})
    BY DEF Owner
  <2>2. \A i \in 1 .. Len(s) : s[i] \in ToServerMsgs
    BY <1>0
  <2> QED
    BY <2>1, <2>2 DEF Has
<1>5. ~Asking(c)'
  <2>1. CASE m \in Answers
    BY <1>0, <1>1, <2>1, AskingSent
  <2>2. CASE m \notin Answers
    <3>1. cpc[c] = "hello" /\ "HELLO" \notin {"PAUSE"} /\ m # "PAUSE"
      BY <2>2 DEF Answers
    <3>2. c \notin saidHello /\ ~Has(s, {"PAUSE"})
      BY <1>4, <3>1
    <3>3. ~Asking(c)
      <4>1. ~Unanswered(s, {"PAUSE"}, Answers)
        BY <3>2 DEF Unanswered, Has
      <4> QED
        BY <3>2, <4>1 DEF Asking
    <3> QED
      BY <1>0, <1>1, <3>1, <3>3, AskingSent
  <2> QED
    BY <2>1, <2>2
<1>6. ASSUME Sorted(c)
      PROVE  /\ Has(q, Typed({"ROM_IMAGE"})) /\ m = "READY" =>
                    cpc[c] # "hello" /\ Head(q) \in Typed({"RESET", "FREEZE_FILE"})
             /\ m = "RECEIVED_ROM_IMAGE" => Head(q) \in Typed({"ROM_IMAGE"})
  <2>1. cpc[c] = "hello" => ~Has(q, Typed({"RESET", "FREEZE_FILE", "ROM_IMAGE"}))
    BY <1>4, <1>6 DEF Owner, RomFirst
  <2>2. ~Has(q, Typed({"RESET", "FREEZE_FILE", "ROM_IMAGE"})) => ~Has(q, Typed({"ROM_IMAGE"}))
    BY DEF Has, Typed
  <2> QED
    BY <1>0, <2>1, <2>2 DEF Typed
<1>7. ASSUME Sorted(c) PROVE RomFirst(c)'
  <2>1. m = "READY" => ~Has(toClient'[c], Typed({"ROM_IMAGE"}))
    <3>1. ~After(q, Typed({"RESET", "FREEZE_FILE"}), Typed({"ROM_IMAGE"}))
      BY <1>7 DEF Owner, RomFirst
    <3> QED
      BY <1>2, <1>6, <1>7, <3>1
  <2>2. m = "RECEIVED_ROM_IMAGE" => Has(q, Typed({"ROM_IMAGE"}))
    BY <1>2, <1>6, <1>7
  <2>3. c \notin saidHello => m # "RECEIVED_ROM_IMAGE" /\ ~Has(q, Typed({"RESET", "FREEZE_FILE"}))
    <3>1. c \notin saidHello => ~Has(q, Typed({"RESET", "FREEZE_FILE", "ROM_IMAGE"}))
      BY <1>7 DEF Owner, RomFirst
    <3>2. Has(q, Typed({"RESET", "FREEZE_FILE"})) \/ Has(q, Typed({"ROM_IMAGE"}))
            => Has(q, Typed({"RESET", "FREEZE_FILE", "ROM_IMAGE"}))
      BY DEF Has, Typed
    <3> QED
      BY <2>2, <3>1, <3>2
  <2>4. Has(toServer'[c], {"WAITING_FOR_ROM_IMAGE"}) =>
          /\ c \notin saidHello
          /\ ~Has(toServer'[c], {"READY", "RECEIVED_ROM_IMAGE"})
          /\ ~After(toServer'[c], {"WAITING_FOR_ROM_IMAGE"}, {"WAITING_FOR_ROM_IMAGE"})
    <3>1. CASE cpc[c] = "hello"
      <4>1. /\ c \notin saidHello /\ m # "RECEIVED_ROM_IMAGE"
            /\ ~Has(s, {"READY", "RECEIVED_ROM_IMAGE"}) /\ ~Has(s, {"WAITING_FOR_ROM_IMAGE"})
        BY <1>4, <2>3, <3>1
      <4>2. /\ ~After(s, {"WAITING_FOR_ROM_IMAGE"}, {"WAITING_FOR_ROM_IMAGE"})
        BY <4>1 DEF After, Has
      <4>3. Has(toServer'[c], {"WAITING_FOR_ROM_IMAGE"}) => m = "WAITING_FOR_ROM_IMAGE"
        BY <1>3, <4>1
      <4>4. Has(toServer'[c], {"READY", "RECEIVED_ROM_IMAGE"}) => m # "WAITING_FOR_ROM_IMAGE"
        BY <1>3, <4>1
      <4>5. ~After(toServer'[c], {"WAITING_FOR_ROM_IMAGE"}, {"WAITING_FOR_ROM_IMAGE"})
        BY <1>3, <4>1, <4>2
      <4> QED
        BY <4>1, <4>3, <4>4, <4>5
    <3>2. CASE cpc[c] # "hello"
      <4>1. m # "WAITING_FOR_ROM_IMAGE"
        BY <3>2
      <4>2. Has(toServer'[c], {"WAITING_FOR_ROM_IMAGE"}) => Has(s, {"WAITING_FOR_ROM_IMAGE"})
        BY <1>3, <4>1
      <4>3. ~Has(s, {"WAITING_FOR_ROM_IMAGE"})
        <5>1. SUFFICES ASSUME Has(s, {"WAITING_FOR_ROM_IMAGE"}) PROVE FALSE
          OBVIOUS
        <5>2. c \notin saidHello
          BY <1>7, <5>1 DEF Owner, RomFirst
        <5>3. Head(q) \in Typed({"RESET", "FREEZE_FILE"})
          BY <1>0, <2>3, <3>2, <4>1, <5>2 DEF Typed
        <5> QED
          BY <1>2, <2>3, <5>2, <5>3
      <4> QED
        BY <4>2, <4>3
    <3> QED
      BY <3>1, <3>2
  <2>5. Has(toClient'[c], Typed({"ROM_IMAGE"})) => c \notin ready /\ ~Has(toServer'[c], {"READY"})
    <3>1. SUFFICES ASSUME Has(toClient'[c], Typed({"ROM_IMAGE"}))
                   PROVE  c \notin ready /\ ~Has(toServer'[c], {"READY"})
      OBVIOUS
    <3>2. c \notin ready /\ ~Has(s, {"READY"}) /\ m # "READY"
      BY <1>2, <1>7, <2>1, <3>1 DEF Owner, RomFirst
    <3> QED
      BY <1>3, <3>2
  <2>6. Has(toServer'[c], {"RECEIVED_ROM_IMAGE"}) => c \notin ready
    <3>1. Has(s, {"RECEIVED_ROM_IMAGE"}) \/ Has(q, Typed({"ROM_IMAGE"})) => c \notin ready
      BY <1>7 DEF Owner, RomFirst
    <3>2. Has(toServer'[c], {"RECEIVED_ROM_IMAGE"})
            => Has(s, {"RECEIVED_ROM_IMAGE"}) \/ m = "RECEIVED_ROM_IMAGE"
      BY <1>3
    <3> QED
      BY <2>2, <3>1, <3>2
  <2>7. ~After(toServer'[c], {"READY"}, {"RECEIVED_ROM_IMAGE"})
    <3>1. /\ ~After(s, {"READY"}, {"RECEIVED_ROM_IMAGE"})
          /\ Has(q, Typed({"ROM_IMAGE"})) => ~Has(s, {"READY"})
      BY <1>7 DEF Owner, RomFirst
    <3>2. After(toServer'[c], {"READY"}, {"RECEIVED_ROM_IMAGE"})
            => m = "RECEIVED_ROM_IMAGE" /\ Has(s, {"READY"})
      BY <1>3, <3>1
    <3> QED
      BY <2>2, <3>1, <3>2
  <2>8. /\ c \notin saidHello => ~Has(toClient'[c], Typed({"RESET", "FREEZE_FILE", "ROM_IMAGE"}))
        /\ ~After(toClient'[c], Typed({"RESET", "FREEZE_FILE"}), Typed({"ROM_IMAGE"}))
    BY <1>2, <1>7 DEF Owner, RomFirst
  <2> QED
    BY <1>1, <2>4, <2>5, <2>6, <2>7, <2>8 DEF RomFirst
<1>8. SramFirst(c)' /\ (syncByReset' /\ Early(c)' => Fresh(c)')
  <2>1. ASSUME syncByReset PROVE Early(c)' => Early(c)
    <3>1. Has(toServer'[c], {"RECEIVED_ROM_IMAGE"})
            => Has(s, {"RECEIVED_ROM_IMAGE"}) \/ Has(q, Typed({"ROM_IMAGE"}))
      BY <1>2, <1>3, <1>6, <2>1 DEF Sorted
    <3> QED
      BY <1>1, <1>2, <3>1 DEF Early
  <2>2. cpc[c] = "hello" => Early(c)
    BY <1>4 DEF Early
  <2>3. syncByReset /\ Early(c) => ~waiting'[c] /\ ~Has(toClient'[c], Typed({"JOYPAD"}))
    BY <1>2, StreamTypes DEF Owner, Fresh
  <2>4. SramFirst(c)'
    <3>1. Has(toClient'[c], Typed({"SRAM_DATA"})) => syncByReset /\ ~waiting'[c]
      BY <1>2, StreamTypes DEF Owner, SramFirst
    <3>2. ~After(toClient'[c], Typed({"JOYPAD"}), Typed({"SRAM_DATA"}))
      BY <1>2 DEF Owner, SramFirst
    <3> QED
      BY <1>1, <1>5, <3>1, <3>2 DEF SramFirst
  <2> QED
    BY <1>1, <1>5, <2>1, <2>3, <2>4 DEF Fresh
<1>9. ~Has(toServer'[c], {"EOF"})
  BY <1>3 DEF Owner
<1>10. Sorted(c)' => RomFirst(c)'
  BY <1>1, <1>7 DEF Sorted
<1> QED
  BY <1>5, <1>8, <1>9, <1>10 DEF Owner

LEMMA OwnClient ==
    ASSUME OwnStep, NEW d \in Clients, ClientThread(d), UNCHANGED <<serverVars, hostVars>>
    PROVE  OwnInv'
<1>1. /\ cpc[d] # "off" /\ pc'[d] \in {pc[d], "top"}
      /\ \A c \in Clients \ {d} : UNCHANGED Machine(c)
  BY ClientLocal DEF OwnStep
<1>2. OnlyJoins'
  <2>1. \A c \in Clients \ {d} : pc'[c] = pc[c]
    BY <1>1 DEF Machine
  <2> QED
    BY <1>1, <2>1 DEF OwnStep, OwnInv, OnlyJoins, serverVars, hostVars, JoinKinds
<1> SUFFICES ASSUME NEW c \in Clients, cpc'[c] # "off" PROVE Owner(c)'
  BY <1>2 DEF OwnInv
<1>3. CASE c # d
  <2>1. UNCHANGED Machine(c)
    BY <1>1, <1>3
  <2>2. Owner(c)
    BY <2>1 DEF OwnStep, OwnInv, Machine
  <2> QED
    BY <2>1, <2>2, OwnerKept
<1>4. CASE c = d
  <2>1. /\ TypeInv /\ Owner(c) /\ ServerSame /\ ClientThread(c)
    BY <1>1, <1>4 DEF OwnStep, OwnInv, ServerSame, serverVars
  <2>2. /\ toServer[c] \in Seq(ToServerMsgs) /\ toClient[c] \in Seq(ToClientMsgs)
        /\ waiting[c] \in BOOLEAN
    BY <2>1, StreamTypes
  <2>3. ASSUME toClient[c] # <<>>
        PROVE  \A types : Head(toClient[c]).type \in types => Has(toClient[c], Typed(types))
    <3>1. toClient[c][1] = Head(toClient[c]) /\ 1 \in 1 .. Len(toClient[c])
      BY <2>2, <2>3, TailElements
    <3>2. toClient[c][1] \in ToClientMsgs
      BY <2>2, <3>1
    <3> QED
      BY <3>1, <3>2 DEF Has, Typed
  <2>4. CASE RecvHeartbeat(c) /\ cpc[c] # "hello" /\ cpc'[c] # "hello"
              /\ UNCHANGED toServer /\ (waiting[c] \/ cpc'[c] = "pausing" => waiting'[c])
              /\ toClient[c] # <<>> /\ Head(toClient[c]).type = "JOYPAD"
              /\ toClient'[c] = Tail(toClient[c])
    <3>1. Has(toClient[c], Typed({"JOYPAD"}))
      BY <2>3, <2>4
    <3>2. syncByReset => ~Early(c)
      BY <2>1, <3>1 DEF Owner, Fresh
    <3>3. ~Has(Tail(toClient[c]), Typed({"SRAM_DATA"}))
      <4>1. Head(toClient[c]) \in Typed({"JOYPAD"})
        <5>1. toClient[c][1] = Head(toClient[c]) /\ 1 \in 1 .. Len(toClient[c])
          BY <2>2, <2>4, TailElements
        <5> QED
          BY <2>2, <2>4, <5>1 DEF Typed
      <4>2. ~After(toClient[c], Typed({"JOYPAD"}), Typed({"SRAM_DATA"}))
        BY <2>1 DEF Owner, SramFirst
      <4> QED
        BY <2>2, <2>4, <4>1, <4>2, StreamTaken
    <3>4. ~Has(toClient[c], Typed({"SRAM_DATA"}))
      <4>1. Head(toClient[c]) \notin Typed({"SRAM_DATA"})
        BY <2>4 DEF Typed
      <4> QED
        BY <2>2, <2>4, <3>3, <4>1, StreamTaken
    <3>5. waiting'[c] = waiting[c] \/ waiting'[c]
      BY <2>1, <2>2, <2>4, MachineTypes DEF RecvHeartbeat
    <3> QED
      BY <2>1, <2>4, <3>2, <3>4, <3>5, OwnerTakes
  <2>5. CASE cpc[c] = "pausing" /\ cpc'[c] = "loop" /\ UNCHANGED <<toClient, waiting>>
              /\ toServer'[c] = Append(toServer[c], "PAUSE")
    <3>1. \A A, B : "PAUSE" \notin A =>
             /\ Has(toServer'[c], A) <=> Has(toServer[c], A)
             /\ After(toServer'[c], B, A) <=> After(toServer[c], B, A)
      <4>1. "PAUSE" \in ToServerMsgs
        BY DEF ToServerMsgs
      <4> QED
        BY <2>2, <2>5, <4>1, StreamAppended
    <3>2. /\ Has(toServer'[c], {"WAITING_FOR_ROM_IMAGE"}) <=> Has(toServer[c], {"WAITING_FOR_ROM_IMAGE"})
          /\ Has(toServer'[c], {"RECEIVED_ROM_IMAGE"}) <=> Has(toServer[c], {"RECEIVED_ROM_IMAGE"})
          /\ Has(toServer'[c], {"READY"}) <=> Has(toServer[c], {"READY"})
          /\ Has(toServer'[c], {"EOF"}) <=> Has(toServer[c], {"EOF"})
          /\ Has(toServer'[c], {"READY", "RECEIVED_ROM_IMAGE"})
                <=> Has(toServer[c], {"READY", "RECEIVED_ROM_IMAGE"})
          /\ After(toServer'[c], {"READY"}, {"RECEIVED_ROM_IMAGE"})
                <=> After(toServer[c], {"READY"}, {"RECEIVED_ROM_IMAGE"})
          /\ After(toServer'[c], {"WAITING_FOR_ROM_IMAGE"}, {"WAITING_FOR_ROM_IMAGE"})
                <=> After(toServer[c], {"WAITING_FOR_ROM_IMAGE"}, {"WAITING_FOR_ROM_IMAGE"})
      BY <3>1
    <3>3. waiting[c] /\ waiting'[c]
      BY <2>1, <2>5 DEF Owner
    <3>4. Early(c)' <=> Early(c)
      BY <2>1, <2>5, <3>2 DEF Early, ServerSame
    <3>5. ~(syncByReset /\ Early(c)) /\ ~Has(toClient[c], Typed({"SRAM_DATA"}))
      BY <2>1, <3>3 DEF Owner, Fresh, SramFirst
    <3>6. Sorted(c)' => RomFirst(c)'
      BY <2>1, <2>5, <3>2 DEF Owner, RomFirst, ServerSame, Sorted
    <3>7. SramFirst(c)'
      BY <2>1, <2>5, <3>5 DEF Owner, SramFirst
    <3> QED
      BY <2>1, <2>5, <3>2, <3>3, <3>4, <3>5, <3>6, <3>7 DEF Owner, ServerSame
  <2>6. CASE cpc'[c] = "drain" /\ cpc[c] # "hello" /\ UNCHANGED <<wireVars, waiting>>
    BY <2>1, <2>6, OwnerTakes DEF wireVars
  <2>7. CASE /\ RecvHello(c) /\ cpc[c] = "hello" /\ cpc'[c] = "loop" /\ UNCHANGED waiting
             /\ \E m \in {"READY", "WAITING_FOR_ROM_IMAGE"} : toServer'[c] = Append(toServer[c], m)
             /\ toClient[c] # <<>> /\ toClient'[c] = Tail(toClient[c])
    BY <2>1, <2>7, OwnerSends
  <2>8. CASE /\ cpc[c] = "drain" /\ cpc'[c] = "loop" /\ ~waiting'[c]
             /\ toClient[c] # <<>> /\ toClient'[c] = Tail(toClient[c])
             /\ \/ /\ Head(toClient[c]).type \in {"RESET", "FREEZE_FILE"}
                   /\ toServer'[c] = Append(toServer[c], "READY")
                \/ /\ Head(toClient[c]).type = "ROM_IMAGE"
                   /\ toServer'[c] = Append(toServer[c], "RECEIVED_ROM_IMAGE")
                \/ Head(toClient[c]).type = "SRAM_DATA" /\ UNCHANGED toServer
    <3>1. CASE Head(toClient[c]).type \in {"RESET", "FREEZE_FILE"}
                /\ toServer'[c] = Append(toServer[c], "READY")
      BY <2>1, <2>8, <3>1, OwnerSends
    <3>2. CASE Head(toClient[c]).type = "ROM_IMAGE"
                /\ toServer'[c] = Append(toServer[c], "RECEIVED_ROM_IMAGE")
      BY <2>1, <2>8, <3>2, OwnerSends
    <3>3. CASE Head(toClient[c]).type = "SRAM_DATA" /\ UNCHANGED toServer
      <4>1. ~Asking(c)
        BY <2>1, <2>3, <2>8, <3>3 DEF Owner, SramFirst
      <4> QED
        BY <2>1, <2>8, <3>3, <4>1, OwnerTakes
    <3> QED
      BY <2>8, <3>1, <3>2, <3>3
  <2> QED
    BY <2>1, <2>4, <2>5, <2>6, <2>7, <2>8, ClientSends
<1> QED
  BY <1>3, <1>4

\* A message is read off the stream of c.
LEMMA ReadOff ==
    ASSUME TypeInv, NEW c \in Clients, NEW msg, Receive(c, msg)
    PROVE  /\ toServer[c] # <<>> /\ toServer'[c] = Tail(toServer[c]) /\ spc = "clients"
           /\ msg \in ToServerMsgs /\ c \in connected
           /\ \A A, B :
                /\ Has(toServer[c], A) <=> msg \in A \/ Has(toServer'[c], A)
                /\ After(toServer[c], B, A)
                      <=> After(toServer'[c], B, A) \/ (msg \in B /\ Has(toServer'[c], A))
                /\ Unanswered(toServer[c], A, B)
                      <=> Unanswered(toServer'[c], A, B) \/ (msg \in A /\ ~Has(toServer'[c], B))
           /\ \A d \in Clients \ {c} : toServer'[d] = toServer[d]
<1>1. /\ toServer[c] \in Seq(ToServerMsgs) /\ toServer[c] # <<>> /\ Head(toServer[c]) = msg
      /\ toServer'[c] = Tail(toServer[c]) /\ spc = "clients" /\ c \in connected
      /\ \A d \in Clients \ {c} : toServer'[d] = toServer[d]
  BY MachineTypes DEF Receive
<1>2. msg \in ToServerMsgs
  BY <1>1, TailElements
<1> QED
  BY <1>1, <1>2, StreamTaken

\* The server knows of a pause only what it has been asked for.
LEMMA AskingRead ==
    ASSUME TypeInv, NEW c \in Clients, NEW msg, Receive(c, msg),
           c \in clientPaused' \cap saidHello'
               => msg = "PAUSE" \/ (c \in clientPaused \cap saidHello /\ msg \notin Answers),
           Asking(c)'
    PROVE  Asking(c)
<1>1. /\ Has(toServer[c], Answers) <=> msg \in Answers \/ Has(toServer'[c], Answers)
      /\ Unanswered(toServer[c], {"PAUSE"}, Answers)
            <=> Unanswered(toServer'[c], {"PAUSE"}, Answers)
                  \/ (msg \in {"PAUSE"} /\ ~Has(toServer'[c], Answers))
  BY ReadOff
<1> QED
  BY <1>1 DEF Asking

LEMMA OwnerRead ==
    ASSUME TypeInv, NEW c \in Clients, Owner(c), UNCHANGED <<clientVars, tasks, syncByReset>>,
           NEW msg, Receive(c, msg),
           \/ toClient'[c] = toClient[c]
           \/ \E m \in ToClientMsgs :
                 /\ toClient'[c] = Append(toClient[c], m)
                 /\ m.type \in HelloTypes \/ (m.type = "ROM_IMAGE" /\ msg = "WAITING_FOR_ROM_IMAGE"),
           Asking(c)' => Asking(c),
           c \in saidHello => c \in saidHello',
           c \in saidHello' => c \in saidHello
               \/ msg \in {"READY", "WAITING_FOR_ROM_IMAGE", "RECEIVED_ROM_IMAGE"},
           c \in ready' => c \in ready \/ msg = "READY",
           msg = "WAITING_FOR_ROM_IMAGE" => c \in saidHello' /\ c \notin ready',
           \/ UNCHANGED <<spc, job>>
           \/ msg = "READY" /\ c \notin saidHello
           \/ msg = "RECEIVED_ROM_IMAGE"
    PROVE  Owner(c)'
<1> DEFINE s == toServer[c]
<1> DEFINE q == toClient[c]
<1>1. /\ \A A, B : /\ Has(s, A) <=> msg \in A \/ Has(toServer'[c], A)
                   /\ After(s, B, A) <=> After(toServer'[c], B, A)
                                           \/ (msg \in B /\ Has(toServer'[c], A))
      /\ msg \in ToServerMsgs
      /\ waiting'[c] = waiting[c] /\ cpc' = cpc
  BY ReadOff DEF clientVars
<1>2. /\ \A A, B : "ROM_IMAGE" \notin A /\ A \cap HelloTypes = {} =>
            /\ Has(toClient'[c], Typed(A)) <=> Has(q, Typed(A))
            /\ After(toClient'[c], B, Typed(A)) <=> After(q, B, Typed(A))
      /\ \A A, B : msg # "WAITING_FOR_ROM_IMAGE" /\ A \cap HelloTypes = {} =>
            /\ Has(toClient'[c], Typed(A)) <=> Has(q, Typed(A))
            /\ After(toClient'[c], B, Typed(A)) <=> After(q, B, Typed(A))
      /\ \A A, B : A \cap HelloTypes = {} /\ ~Has(q, B)
            => (After(toClient'[c], B, Typed(A)) <=> After(q, B, Typed(A)))
  <2>1. CASE toClient'[c] = toClient[c]
    BY <2>1
  <2>2. CASE \E m \in ToClientMsgs :
                /\ toClient'[c] = Append(toClient[c], m)
                /\ m.type \in HelloTypes \/ (m.type = "ROM_IMAGE" /\ msg = "WAITING_FOR_ROM_IMAGE")
    <3>1. PICK m \in ToClientMsgs :
                /\ toClient'[c] = Append(toClient[c], m)
                /\ m.type \in HelloTypes \/ (m.type = "ROM_IMAGE" /\ msg = "WAITING_FOR_ROM_IMAGE")
      BY <2>2
    <3>2. \A A, B : /\ Has(toClient'[c], A) <=> Has(q, A) \/ m \in A
                    /\ After(toClient'[c], B, A) <=> After(q, B, A) \/ (m \in A /\ Has(q, B))
      BY <3>1, StreamTypes, StreamAppended
    <3>3. \A A : m \in Typed(A) => m.type \in A
      BY DEF Typed
    <3> QED
      BY <3>1, <3>2, <3>3
  <2> QED
    BY <2>1, <2>2
<1>3. {"JOYPAD"} \cap HelloTypes = {} /\ {"SRAM_DATA"} \cap HelloTypes = {}
        /\ {"ROM_IMAGE"} \cap HelloTypes = {} /\ {"RESET", "FREEZE_FILE"} \cap HelloTypes = {}
        /\ {"RESET", "FREEZE_FILE", "ROM_IMAGE"} \cap HelloTypes = {}
  BY DEF HelloTypes
<1>4. cpc[c] = "hello" => c \notin saidHello' /\ ~Has(toServer'[c], ToServerMsgs \ {"HELLO"})
  <2> SUFFICES ASSUME cpc[c] = "hello"
               PROVE  c \notin saidHello' /\ ~Has(toServer'[c], ToServerMsgs \ {"HELLO"})
    OBVIOUS
  <2>1. c \notin saidHello /\ ~Has(s, ToServerMsgs \ {"HELLO"})
    BY DEF Owner
  <2>2. msg = "HELLO" /\ ~Has(toServer'[c], ToServerMsgs \ {"HELLO"})
    BY <1>1, <2>1
  <2> QED
    BY <2>1, <2>2
<1>5. ASSUME syncByReset PROVE Early(c)' => Early(c)
  <2>1. msg = "WAITING_FOR_ROM_IMAGE" => Early(c)
    <3>1. msg = "WAITING_FOR_ROM_IMAGE" => Has(s, {"WAITING_FOR_ROM_IMAGE"})
      BY <1>1
    <3> QED
      BY <1>5, <3>1 DEF Owner, RomFirst, Early, Sorted
  <2>2. msg = "RECEIVED_ROM_IMAGE" => Early(c)
    <3>1. msg = "RECEIVED_ROM_IMAGE" => Has(s, {"RECEIVED_ROM_IMAGE"})
      BY <1>1
    <3> QED
      BY <3>1 DEF Early
  <2>3. CASE msg # "WAITING_FOR_ROM_IMAGE" /\ UNCHANGED <<spc, job>>
    <3>1. Has(toClient'[c], Typed({"ROM_IMAGE"})) => Has(q, Typed({"ROM_IMAGE"}))
      BY <1>2, <1>3, <2>3
    <3>2. Has(toServer'[c], {"RECEIVED_ROM_IMAGE"}) => Has(s, {"RECEIVED_ROM_IMAGE"})
      BY <1>1
    <3> QED
      BY <2>3, <3>1, <3>2 DEF Early
  <2>4. CASE msg = "READY" /\ c \notin saidHello
    BY <2>4 DEF Early
  <2> QED
    BY <2>1, <2>2, <2>3, <2>4
<1>6. /\ Has(toClient'[c], Typed({"JOYPAD"})) <=> Has(q, Typed({"JOYPAD"}))
      /\ Has(toClient'[c], Typed({"SRAM_DATA"})) <=> Has(q, Typed({"SRAM_DATA"}))
      /\ After(toClient'[c], Typed({"JOYPAD"}), Typed({"SRAM_DATA"}))
            <=> After(q, Typed({"JOYPAD"}), Typed({"SRAM_DATA"}))
  BY <1>2, <1>3
<1>7. SramFirst(c)' /\ (syncByReset' /\ Early(c)' => Fresh(c)')
  BY <1>1, <1>5, <1>6 DEF Owner, Fresh, SramFirst
<1>8. ASSUME Sorted(c) PROVE RomFirst(c)'
  <2>1. Has(s, {"WAITING_FOR_ROM_IMAGE"}) =>
          /\ c \notin saidHello
          /\ ~Has(s, {"READY", "RECEIVED_ROM_IMAGE"})
          /\ ~After(s, {"WAITING_FOR_ROM_IMAGE"}, {"WAITING_FOR_ROM_IMAGE"})
    BY <1>8 DEF Owner, RomFirst
  <2>2. Has(toServer'[c], {"WAITING_FOR_ROM_IMAGE"}) =>
          /\ c \notin saidHello'
          /\ ~Has(toServer'[c], {"READY", "RECEIVED_ROM_IMAGE"})
          /\ ~After(toServer'[c], {"WAITING_FOR_ROM_IMAGE"}, {"WAITING_FOR_ROM_IMAGE"})
    <3> SUFFICES ASSUME Has(toServer'[c], {"WAITING_FOR_ROM_IMAGE"})
                 PROVE  /\ c \notin saidHello'
                        /\ ~Has(toServer'[c], {"READY", "RECEIVED_ROM_IMAGE"})
                        /\ ~After(toServer'[c], {"WAITING_FOR_ROM_IMAGE"}, {"WAITING_FOR_ROM_IMAGE"})
      OBVIOUS
    <3>1. Has(s, {"WAITING_FOR_ROM_IMAGE"})
      BY <1>1
    <3>2. msg # "WAITING_FOR_ROM_IMAGE"
      BY <1>1, <2>1, <3>1
    <3>3. msg \notin {"READY", "RECEIVED_ROM_IMAGE"} /\ ~Has(toServer'[c], {"READY", "RECEIVED_ROM_IMAGE"})
      BY <1>1, <2>1, <3>1
    <3>4. ~After(toServer'[c], {"WAITING_FOR_ROM_IMAGE"}, {"WAITING_FOR_ROM_IMAGE"})
      BY <1>1, <2>1, <3>1
    <3> QED
      BY <2>1, <3>1, <3>2, <3>3, <3>4
  <2>3. msg = "WAITING_FOR_ROM_IMAGE" =>
          /\ c \notin saidHello /\ ~Has(q, Typed({"RESET", "FREEZE_FILE"}))
          /\ ~Has(s, {"READY"})
    <3>1. msg = "WAITING_FOR_ROM_IMAGE" => Has(s, {"WAITING_FOR_ROM_IMAGE"})
      BY <1>1
    <3>2. ~Has(q, Typed({"RESET", "FREEZE_FILE", "ROM_IMAGE"}))
             => ~Has(q, Typed({"RESET", "FREEZE_FILE"}))
      BY DEF Has, Typed
    <3>3. ~Has(s, {"READY", "RECEIVED_ROM_IMAGE"}) => ~Has(s, {"READY"})
      BY DEF Has
    <3> QED
      BY <1>8, <2>1, <3>1, <3>2, <3>3 DEF Owner, RomFirst
  <2>4. c \notin saidHello' => ~Has(toClient'[c], Typed({"RESET", "FREEZE_FILE", "ROM_IMAGE"}))
    <3>1. c \notin saidHello' => msg # "WAITING_FOR_ROM_IMAGE" /\ c \notin saidHello
      OBVIOUS
    <3>2. msg # "WAITING_FOR_ROM_IMAGE" =>
            (Has(toClient'[c], Typed({"RESET", "FREEZE_FILE", "ROM_IMAGE"}))
                <=> Has(q, Typed({"RESET", "FREEZE_FILE", "ROM_IMAGE"})))
      BY <1>2, <1>3
    <3> QED
      BY <1>8, <3>1, <3>2 DEF Owner, RomFirst
  <2>5. ~After(toClient'[c], Typed({"RESET", "FREEZE_FILE"}), Typed({"ROM_IMAGE"}))
    <3>1. ~After(q, Typed({"RESET", "FREEZE_FILE"}), Typed({"ROM_IMAGE"}))
      BY <1>8 DEF Owner, RomFirst
    <3> QED
      BY <1>2, <1>3, <2>3, <3>1
  <2>6. Has(toClient'[c], Typed({"ROM_IMAGE"})) => c \notin ready' /\ ~Has(toServer'[c], {"READY"})
    <3>1. CASE msg = "WAITING_FOR_ROM_IMAGE"
      BY <1>1, <2>3, <3>1
    <3>2. CASE msg # "WAITING_FOR_ROM_IMAGE"
      <4>1. Has(toClient'[c], Typed({"ROM_IMAGE"})) => Has(q, Typed({"ROM_IMAGE"}))
        BY <1>2, <1>3, <3>2
      <4>2. Has(q, Typed({"ROM_IMAGE"})) => c \notin ready /\ ~Has(s, {"READY"})
        BY <1>8 DEF Owner, RomFirst
      <4> QED
        BY <1>1, <4>1, <4>2
    <3> QED
      BY <3>1, <3>2
  <2>7. Has(toServer'[c], {"RECEIVED_ROM_IMAGE"}) => c \notin ready'
    <3>1. /\ ~After(s, {"READY"}, {"RECEIVED_ROM_IMAGE"})
          /\ Has(s, {"RECEIVED_ROM_IMAGE"}) => c \notin ready
      BY <1>8 DEF Owner, RomFirst
    <3>2. Has(toServer'[c], {"RECEIVED_ROM_IMAGE"})
             => msg # "READY" /\ Has(s, {"RECEIVED_ROM_IMAGE"})
      BY <1>1, <3>1
    <3> QED
      BY <3>1, <3>2
  <2>8. ~After(toServer'[c], {"READY"}, {"RECEIVED_ROM_IMAGE"})
    <3>1. ~After(s, {"READY"}, {"RECEIVED_ROM_IMAGE"})
      BY <1>8 DEF Owner, RomFirst
    <3> QED
      BY <1>1, <3>1
  <2> QED
    BY <2>2, <2>4, <2>5, <2>6, <2>7, <2>8 DEF RomFirst
<1>9. ~Has(toServer'[c], {"EOF"})
  BY <1>1 DEF Owner
<1> QED
  BY <1>1, <1>4, <1>7, <1>8, <1>9 DEF Owner, Sorted

\* Messages of other machines.
LEMMA OthersRead ==
    ASSUME TypeInv, NEW d \in Clients, ServerReads(d)
    PROVE  /\ UNCHANGED <<tasks, syncByReset, srvFrame>>
           /\ UNCHANGED <<spc, job>> \/ (spc' = "wait" /\ job' = Work("JOIN", d))
           /\ \A c \in Clients \ {d} :
                /\ c \in saidHello' <=> c \in saidHello
                /\ c \in ready' <=> c \in ready
                /\ c \in clientPaused' <=> c \in clientPaused
                /\ toServer'[c] = toServer[c] /\ toClient'[c] = toClient[c]
<1>1. CASE AcceptClient(d)
  BY <1>1 DEF AcceptClient, wireVars
<1> USE ReadOff, SentTo
<1>2. CASE ProcessHello(d)
  BY <1>2 DEF ProcessHello, flags
<1>3. CASE ProcessReadyFirst(d)
  BY <1>3 DEF ProcessReadyFirst, Joins
<1>4. CASE ProcessReadyAgain(d)
  BY <1>4 DEF ProcessReadyAgain, Joins
<1>5. CASE ProcessWaitingForRomImage(d)
  BY <1>5 DEF ProcessWaitingForRomImage, Joins
<1>6. CASE ProcessReceivedRomImage(d)
  BY <1>6 DEF ProcessReceivedRomImage, Joins
<1>7. CASE ProcessPause(d)
  BY <1>7 DEF ProcessPause
<1>8. CASE ShutdownClient(d)
  BY <1>8 DEF ShutdownClient
<1> QED
  BY <1>1, <1>2, <1>3, <1>4, <1>5, <1>6, <1>7, <1>8 DEF ServerReads

\* A step of the server that is not about c.
LEMMA OwnerUntouched ==
    ASSUME NEW c \in Clients, Owner(c), UNCHANGED <<clientVars, tasks, syncByReset>>,
           toServer'[c] = toServer[c], toClient'[c] = toClient[c],
           c \in saidHello' <=> c \in saidHello, c \in ready' => c \in ready,
           c \in clientPaused' => c \in clientPaused,
           UNCHANGED <<spc, job>> \/ (spc' = "wait" /\ job' # Work("JOIN", c))
    PROVE  Owner(c)'
<1>1. (Asking(c)' => Asking(c)) /\ (Early(c)' => Early(c)) /\ UNCHANGED <<cpc, waiting>>
  BY DEF Asking, Early, clientVars
<1> QED
  BY <1>1 DEF Owner, Fresh, RomFirst, SramFirst, Sorted

LEMMA OwnReads ==
    ASSUME OwnStep, NEW d \in Clients, ServerReads(d), UNCHANGED <<clientVars, hostVars>>
    PROVE  OwnInv'
<1>1. /\ TypeInv /\ OwnInv /\ UNCHANGED <<tasks, syncByReset>>
      /\ saidHello \subseteq connected /\ srvFrame \in Nat /\ sendROM \in BOOLEAN
  BY OthersRead, ServerTypes DEF OwnStep, TypeInv, TypeOK, ServerTypeOK
<1>2. OnlyJoins'
  BY <1>1 DEF OwnInv, OnlyJoins, clientVars, hostVars, JoinKinds
<1> SUFFICES ASSUME NEW c \in Clients, cpc[c] # "off" PROVE Owner(c)'
  BY <1>2 DEF OwnInv, clientVars
<1>3. Owner(c)
  BY <1>1 DEF OwnInv
<1>4. CASE c # d
  <2>1. Work("JOIN", d) # Work("JOIN", c)
    BY <1>4 DEF Work
  <2> QED
    BY <1>1, <1>3, <1>4, <2>1, OthersRead, OwnerUntouched
<1>5. ASSUME c = d, AcceptClient(c) PROVE Owner(c)'
  <2>1. c \notin saidHello /\ UNCHANGED <<wireVars, spc, job>>
    BY <1>1, <1>5 DEF AcceptClient
  <2> QED
    BY <1>1, <1>3, <1>5, <2>1, OwnerUntouched DEF AcceptClient, wireVars
<1>6. ASSUME c = d, ProcessHello(c) PROVE Owner(c)'
  <2>1. Receive(c, "HELLO") /\ UNCHANGED <<flags, spc, job>>
    BY <1>6 DEF ProcessHello
  <2>2. PICK m \in ToClientMsgs : m.type \in HelloTypes /\ SendTo({c}, m)
    BY <1>1, <1>6, SentTypes DEF ProcessHello
  <2>3. toClient'[c] = Append(toClient[c], m)
    BY <2>2, SentTo
  <2>4. Asking(c)' => Asking(c)
    BY <1>1, <2>1, AskingRead DEF flags, Answers
  <2> QED
    BY <1>1, <1>3, <2>1, <2>2, <2>3, <2>4, OwnerRead DEF flags
<1>7. ASSUME c = d, ProcessReadyFirst(c) \/ ProcessReadyAgain(c) PROVE Owner(c)'
  <2>1. /\ Receive(c, "READY") /\ UNCHANGED toClient /\ Joins(c, TRUE)
        /\ UNCHANGED <<spc, job>> \/ c \notin saidHello
    BY <1>7 DEF ProcessReadyFirst, ProcessReadyAgain
  <2>2. Asking(c)' => Asking(c)
    BY <1>1, <2>1, AskingRead DEF Joins
  <2> QED
    BY <1>1, <1>3, <2>1, <2>2, OwnerRead DEF Joins
<1>8. ASSUME c = d, ProcessWaitingForRomImage(c) PROVE Owner(c)'
  <2>1. /\ Receive(c, "WAITING_FOR_ROM_IMAGE") /\ Joins(c, FALSE) /\ UNCHANGED <<spc, job>>
        /\ toClient'[c] = Append(toClient[c], RomImage)
    BY <1>8, SentTo DEF ProcessWaitingForRomImage
  <2>2. Asking(c)' => Asking(c)
    BY <1>1, <2>1, AskingRead DEF Joins
  <2> QED
    BY <1>1, <1>3, <2>1, <2>2, OwnerRead, SentTypes DEF Joins
<1>9. ASSUME c = d, ProcessReceivedRomImage(c) PROVE Owner(c)'
  <2>1. Receive(c, "RECEIVED_ROM_IMAGE") /\ Joins(c, FALSE) /\ UNCHANGED toClient
    BY <1>9 DEF ProcessReceivedRomImage
  <2>2. Asking(c)' => Asking(c)
    BY <1>1, <2>1, AskingRead DEF Joins
  <2> QED
    BY <1>1, <1>3, <2>1, <2>2, OwnerRead DEF Joins
<1>10. ASSUME c = d, ProcessPause(c) PROVE Owner(c)'
  <2>1. PICK msg \in {"PAUSE", "RESUME"} :
          /\ Receive(c, msg) /\ UNCHANGED <<toClient, saidHello, ready, spc, job>>
          /\ msg = "RESUME" => clientPaused' = clientPaused \ {c}
    BY <1>10 DEF ProcessPause
  <2>2. Asking(c)' => Asking(c)
    BY <1>1, <2>1, AskingRead
  <2> QED
    BY <1>1, <1>3, <2>1, <2>2, OwnerRead
<1>11. ASSUME c = d, ShutdownClient(c) PROVE FALSE
  BY <1>1, <1>3, <1>11, ReadOff DEF ShutdownClient, Owner
<1> QED
  BY <1>4, <1>5, <1>6, <1>7, <1>8, <1>9, <1>10, <1>11 DEF ServerReads

\* A message is sent to c.
LEMMA SentLast ==
    ASSUME TypeInv, NEW c \in Clients, NEW m \in ToClientMsgs,
           toClient'[c] = Append(toClient[c], m)
    PROVE  \A A, B :
              /\ Has(toClient'[c], A) <=> Has(toClient[c], A) \/ m \in A
              /\ After(toClient'[c], B, A)
                    <=> After(toClient[c], B, A) \/ (m \in A /\ Has(toClient[c], B))
<1>1. toClient[c] \in Seq(ToClientMsgs)
  BY StreamTypes
<1> QED
  BY <1>1, StreamAppended

\* What the server sends that is no ROM and answers nothing.
LEMMA OwnerSent ==
    ASSUME TypeInv, NEW c \in Clients, Owner(c), UNCHANGED <<clientVars, syncByReset>>,
           UNCHANGED <<toServer, saidHello, clientPaused>>, c \in ready' => c \in ready,
           Early(c)' => Early(c),
           \/ toClient'[c] = toClient[c]
           \/ \E m \in ToClientMsgs :
                /\ toClient'[c] = Append(toClient[c], m)
                /\ \/ m.type = "RESET" /\ c \in saidHello
                   \/ m.type = "FREEZE_FILE" /\ (Sorted(c) => c \in saidHello)
                   \/ m.type = "SRAM_DATA" /\ syncByReset /\ Early(c)
                   \/ m.type = "JOYPAD" /\ ~(syncByReset /\ Early(c))
    PROVE  Owner(c)'
<1>1. (Asking(c)' => Asking(c)) /\ UNCHANGED <<cpc, waiting>>
  BY DEF Asking, clientVars
<1>2. CASE toClient'[c] = toClient[c]
  BY <1>1, <1>2 DEF Owner, Fresh, RomFirst, SramFirst, Sorted
<1>3. ASSUME NEW m \in ToClientMsgs, toClient'[c] = Append(toClient[c], m),
             \/ m.type = "RESET" /\ c \in saidHello
             \/ m.type = "FREEZE_FILE" /\ (Sorted(c) => c \in saidHello)
             \/ m.type = "SRAM_DATA" /\ syncByReset /\ Early(c)
             \/ m.type = "JOYPAD" /\ ~(syncByReset /\ Early(c))
      PROVE  Owner(c)'
  <2> DEFINE q == toClient[c]
  <2>1. \A A, B : /\ Has(toClient'[c], A) <=> Has(q, A) \/ m \in A
                  /\ After(toClient'[c], B, A) <=> After(q, B, A) \/ (m \in A /\ Has(q, B))
    BY <1>3, SentLast
  <2>2. \A types : m \in Typed(types) <=> m.type \in types
    BY DEF Typed
  <2>3. m \notin Typed({"ROM_IMAGE"})
    BY <1>3, <2>2
  <2>4. Sorted(c) /\ c \notin saidHello => m \notin Typed({"RESET", "FREEZE_FILE", "ROM_IMAGE"})
    BY <1>3, <2>2
  <2>5. Sorted(c)' => RomFirst(c)'
    <3>1. /\ Has(toClient'[c], Typed({"ROM_IMAGE"})) <=> Has(q, Typed({"ROM_IMAGE"}))
          /\ After(toClient'[c], Typed({"RESET", "FREEZE_FILE"}), Typed({"ROM_IMAGE"}))
               <=> After(q, Typed({"RESET", "FREEZE_FILE"}), Typed({"ROM_IMAGE"}))
          /\ Sorted(c) /\ c \notin saidHello =>
               (Has(toClient'[c], Typed({"RESET", "FREEZE_FILE", "ROM_IMAGE"}))
                  <=> Has(q, Typed({"RESET", "FREEZE_FILE", "ROM_IMAGE"})))
      BY <2>1, <2>3, <2>4
    <3> QED
      BY <3>1 DEF Owner, RomFirst, Sorted
  <2>6. SramFirst(c)'
    <3>1. m \in Typed({"SRAM_DATA"}) => syncByReset /\ Early(c)
      BY <1>3, <2>2
    <3>2. m \in Typed({"SRAM_DATA"}) => ~Has(q, Typed({"JOYPAD"})) /\ ~waiting[c] /\ ~Asking(c)
      BY <3>1 DEF Owner, Fresh
    <3> QED
      BY <1>1, <2>1, <3>1, <3>2 DEF Owner, SramFirst
  <2>7. syncByReset' /\ Early(c)' => Fresh(c)'
    <3>1. syncByReset /\ Early(c) => m \notin Typed({"JOYPAD"})
      BY <1>3, <2>2
    <3> QED
      BY <1>1, <2>1, <3>1 DEF Owner, Fresh
  <2> QED
    BY <1>1, <2>5, <2>6, <2>7 DEF Owner
<1> QED
  BY <1>2, <1>3

LEMMA OwnHeartbeat ==
    ASSUME OwnStep, NEW stopped, SendHeartBeat(stopped), UNCHANGED <<clientVars, hostVars>>
    PROVE  OwnInv'
<1>1. /\ TypeInv /\ OwnInv /\ spc = "clients" /\ tasks = <<>> /\ ~srvPaused /\ srvFrame \in Nat
      /\ UNCHANGED <<toServer, flags, tasks, spc, job, syncByReset>>
      /\ srvPaused = MustPause(saidHello, ready, clientPaused)
      /\ SendTo(saidHello, Heartbeat(srvFrame + 1))
  BY ServerTypes DEF OwnStep, SendHeartBeat
<1>2. OnlyJoins'
  BY <1>1 DEF OwnInv, OnlyJoins, clientVars, hostVars, JoinKinds
<1> SUFFICES ASSUME NEW c \in Clients, cpc[c] # "off" PROVE Owner(c)'
  BY <1>2 DEF OwnInv, clientVars
<1>3. Owner(c)
  BY <1>1 DEF OwnInv
<1>4. c \in saidHello => c \in ready /\ ~(syncByReset /\ Early(c))
  <2>1. c \in saidHello => c \in ready
    BY <1>1 DEF MustPause
  <2> QED
    BY <1>1, <1>3, <2>1 DEF Early, Owner, RomFirst, Sorted
<1>5. Heartbeat(srvFrame + 1) \in ToClientMsgs /\ Heartbeat(srvFrame + 1).type = "JOYPAD"
  BY <1>1, SentTypes
<1>6. \/ toClient'[c] = toClient[c]
      \/ c \in saidHello /\ toClient'[c] = Append(toClient[c], Heartbeat(srvFrame + 1))
  BY <1>1, SentTo
<1>7. Early(c)' => Early(c)
  <2>1. CASE toClient'[c] = toClient[c]
    BY <1>1, <2>1 DEF Early, flags
  <2>2. CASE toClient'[c] = Append(toClient[c], Heartbeat(srvFrame + 1))
    <3>1. Has(toClient'[c], Typed({"ROM_IMAGE"})) => Has(toClient[c], Typed({"ROM_IMAGE"}))
      <4>1. PICK m \in ToClientMsgs : m = Heartbeat(srvFrame + 1) /\ m.type = "JOYPAD"
        BY <1>5
      <4>2. m \notin Typed({"ROM_IMAGE"}) /\ toClient'[c] = Append(toClient[c], m)
        BY <2>2, <4>1 DEF Typed
      <4> QED
        BY <1>1, <4>2, SentLast
    <3> QED
      BY <1>1, <3>1 DEF Early, flags
  <2> QED
    BY <1>6, <2>1, <2>2
<1> QED
  BY <1>1, <1>3, <1>4, <1>5, <1>6, <1>7, OwnerSent DEF flags

\* Tasks come from the queue or a join.
LEMMA TasksAfter ==
    ASSUME TypeInv, Alone, OnlyJoins, ServerRuns
    PROVE  /\ syncByReset' = syncByReset /\ tasks' \in Seq(Tasks)
           /\ \A i \in 1 .. Len(tasks') :
                 \/ \E j \in 1 .. Len(tasks) : tasks'[i] = tasks[j]
                 \/ /\ spc = "wait" /\ job.kind = "JOIN" /\ tasks'[i].kind \in JoinKinds
                    /\ tasks'[i].kind = "SEND_SRAM" => tasks'[i].c = job.c
<1>1. tasks \in Seq(Tasks) /\ job \in Jobs
  BY ServerTypes
<1>2. CASE StartTask
  BY <1>1, <1>2 DEF StartTask
<1>3. CASE FinishJoin(HostDone)
  <2>1. /\ tasks' = tasks \o JoinTasks(job.c) /\ spc = "wait" /\ job.kind = "JOIN"
        /\ syncByReset' = syncByReset
    BY <1>3 DEF FinishJoin, Waited, AddTasks
  <2>2. /\ JoinTasks(job.c) \in Seq(Tasks)
        /\ \A i \in 1 .. Len(JoinTasks(job.c)) :
              /\ JoinTasks(job.c)[i].kind \in JoinKinds
              /\ JoinTasks(job.c)[i].kind = "SEND_SRAM" => JoinTasks(job.c)[i].c = job.c
    <3>1. /\ Work("SEND_SRAM", job.c) \in Tasks /\ Work("RESET_ALL", Nobody) \in Tasks
          /\ Work("SYNC_CLIENT", job.c) \in Tasks
      BY <1>1, WireAssumption DEF Work, Tasks, TaskKinds, Jobs, Nobody
    <3>2. CASE syncByReset
      <4> DEFINE a == Work("SEND_SRAM", job.c)
      <4> DEFINE b == Work("RESET_ALL", Nobody)
      <4>1. JoinTasks(job.c) = <<a, b>>
        BY <3>2 DEF JoinTasks
      <4>2. /\ a.kind = "SEND_SRAM" /\ a.c = job.c /\ b.kind = "RESET_ALL"
            /\ {"SEND_SRAM", "RESET_ALL"} = JoinKinds
        BY <3>2 DEF Work, JoinKinds
      <4> HIDE DEF a, b
      <4>3. a \in Tasks /\ b \in Tasks
        BY <3>1 DEF a, b
      <4>4. \A i \in 1 .. Len(<<a, b>>) : <<a, b>>[i] = a \/ <<a, b>>[i] = b
        OBVIOUS
      <4> QED
        BY <4>1, <4>2, <4>3, <4>4
    <3>3. CASE ~syncByReset
      <4> DEFINE a == Work("SYNC_CLIENT", job.c)
      <4>1. JoinTasks(job.c) = <<a>> /\ a.kind = "SYNC_CLIENT" /\ {"SYNC_CLIENT"} = JoinKinds
        BY <3>3 DEF JoinTasks, Work, JoinKinds
      <4> HIDE DEF a
      <4>2. a \in Tasks
        BY <3>1 DEF a
      <4> QED
        BY <4>1, <4>2
    <3> QED
      BY <3>2, <3>3
  <2> DEFINE new == JoinTasks(job.c)
  <2> HIDE DEF new
  <2>3. /\ tasks \o new \in Seq(Tasks)
        /\ \A i \in 1 .. Len(tasks \o new) :
             \/ i \in 1 .. Len(tasks) /\ (tasks \o new)[i] = tasks[i]
             \/ i - Len(tasks) \in 1 .. Len(new) /\ (tasks \o new)[i] = new[i - Len(tasks)]
    BY <1>1, <2>2 DEF new
  <2> QED
    BY <2>1, <2>2, <2>3 DEF new
<1>4. CASE TaskDone /\ syncByReset' = syncByReset /\ spc = "wait" /\ job.kind # "JOIN"
  <2>1. tasks # <<>>
    BY <1>4, JoinJob
  <2>2. tasks' = Tail(tasks)
    BY <1>4 DEF TaskDone
  <2> QED
    BY <1>1, <1>4, <2>1, <2>2, TailElements
<1>5. ~FinishSyncAll(HostDone, HostGame) /\ ~FinishSendRomImage(HostDone)
  BY JoinJob DEF FinishSyncAll, FinishSendRomImage, Waited, JoinKinds
<1>6. FinishSyncClient(HostDone, HostGame) \/ FinishReset(HostDone) \/ FinishSendSram(HostDone)
         => TaskDone /\ syncByReset' = syncByReset /\ spc = "wait" /\ job.kind # "JOIN"
  BY DEF FinishSyncClient, FinishReset, FinishSendSram, Waited
<1> QED
  BY <1>2, <1>3, <1>4, <1>5, <1>6 DEF ServerRuns

\* What a task sends.
LEMMA RunsSend ==
    ASSUME TypeInv, Alone, OnlyJoins, Calm, ServerRuns, NEW c \in Clients, cpc[c] # "off",
           SlotsOnce => JoinInv
    PROVE  \/ toClient'[c] = toClient[c]
           \/ \E m \in ToClientMsgs :
                /\ toClient'[c] = Append(toClient[c], m)
                /\ \/ m.type = "RESET" /\ c \in saidHello
                   \/ m.type = "FREEZE_FILE" /\ (Sorted(c) => c \in saidHello)
                   \/ m.type = "SRAM_DATA" /\ syncByReset /\ Early(c)
<1>1. /\ job \in Jobs /\ srvFrame \in Nat /\ epoch \in Nat /\ HostGame \in Games
  BY ServerTypes, GameTypes, WireAssumption DEF TypeInv, TypeOK, ClientTypeOK, HostGame
<1>2. CASE StartTask \/ FinishJoin(HostDone)
  BY <1>2 DEF StartTask, FinishJoin, wireVars
<1>3. CASE FinishSyncClient(HostDone, HostGame)
  <2>1. /\ spc = "wait" /\ job.kind = "SYNC_CLIENT"
        /\ SendTo({job.c} \cap connected, FreezeFile(srvFrame, HostGame))
    BY <1>3 DEF FinishSyncClient, Waited
  <2>2. ~syncByReset
    BY <2>1, JoinJob DEF JoinKinds
  <2>4. c = job.c /\ Sorted(c) => c \in saidHello
    <3>1. c \in Remotes /\ SlotsOnce => Joining(c)
      BY DEF JoinInv, Gone
    <3>2. c \in Remotes /\ SlotsOnce /\ c \notin saidHello => job.c # c
      BY <2>1, <3>1 DEF Joining, ForNobody
    <3> QED
      BY <2>2, <3>2 DEF Sorted, Remotes
  <2>3. /\ FreezeFile(srvFrame, HostGame) \in ToClientMsgs
        /\ FreezeFile(srvFrame, HostGame).type = "FREEZE_FILE"
    BY <1>1, SentTypes
  <2> QED
    BY <2>1, <2>3, <2>4, SentTo
<1>4. CASE FinishReset(HostDone)
  <2> DEFINE m == Reset(srvFrame, At(epoch', srvFrame))
  <2>1. epoch' = epoch + 1 /\ SendTo(saidHello, m)
    BY <1>4 DEF FinishReset
  <2>2. m \in ToClientMsgs /\ m.type = "RESET"
    BY <1>1, <2>1, SentTypes, GameTypes
  <2> HIDE DEF m
  <2> QED
    BY <2>1, <2>2, SentTo
<1>5. CASE FinishSendSram(HostDone)
  <2>1. /\ spc = "wait" /\ job.kind = "SEND_SRAM"
        /\ SendTo({job.c} \cap connected, SramData)
        /\ syncByReset /\ job = tasks[1] /\ 1 \in 1 .. Len(tasks)
    BY <1>5, JoinJob DEF FinishSendSram, Waited, JoinKinds
  <2>2. c = job.c => Early(c)
    BY <1>1, <2>1 DEF Early, Work, Jobs
  <2> QED
    BY <2>1, <2>2, SentTypes, SentTo
<1>6. ~FinishSyncAll(HostDone, HostGame) /\ ~FinishSendRomImage(HostDone)
  BY JoinJob DEF FinishSyncAll, FinishSendRomImage, Waited, JoinKinds
<1> QED
  BY <1>2, <1>3, <1>4, <1>5, <1>6 DEF ServerRuns

LEMMA OwnRuns ==
    ASSUME OwnStep, ServerRuns, UNCHANGED <<clientVars, hostVars>>
    PROVE  OwnInv'
<1>1. /\ TypeInv /\ OwnInv /\ OnlyJoins /\ Calm /\ Alone
  BY DEF OwnStep, OwnInv
<1>2. OnlyJoins'
  <2>1. /\ syncByReset' = syncByReset
        /\ \A i \in 1 .. Len(tasks') : tasks'[i].kind \in JoinKinds
    BY <1>1, TasksAfter DEF OnlyJoins
  <2> QED
    BY <1>1, <2>1 DEF OnlyJoins, clientVars, hostVars, JoinKinds
<1> SUFFICES ASSUME NEW c \in Clients, cpc[c] # "off" PROVE Owner(c)'
  BY <1>2 DEF OwnInv, clientVars
<1>3. Owner(c)
  BY <1>1 DEF OwnInv
<1>4. UNCHANGED <<toServer, saidHello, clientPaused, syncByReset>>
  BY <1>1, JoinJob, TasksAfter
     DEF ServerRuns, StartTask, FinishJoin, FinishSyncClient, FinishSyncAll, FinishReset,
         FinishSendSram, FinishSendRomImage, NotReady, NoClientReady, flags, wireVars
<1>5. c \in ready' => c \in ready
  <2>1. CASE StartTask
    BY <2>1 DEF StartTask, NotReady, NoClientReady
  <2>2. CASE ~StartTask
    BY <2>2 DEF ServerRuns, FinishJoin, FinishSyncClient, FinishSyncAll, FinishReset,
         FinishSendSram, FinishSendRomImage, NotReady, flags
  <2> QED
    BY <2>1, <2>2
<1>6. \/ toClient'[c] = toClient[c]
      \/ \E m \in ToClientMsgs :
           /\ toClient'[c] = Append(toClient[c], m)
           /\ \/ m.type = "RESET" /\ c \in saidHello
              \/ m.type = "FREEZE_FILE" /\ (Sorted(c) => c \in saidHello)
              \/ m.type = "SRAM_DATA" /\ syncByReset /\ Early(c)
  BY <1>1, RunsSend DEF OwnStep
<1>7. Early(c)' => Early(c)
  <2>1. Has(toClient'[c], Typed({"ROM_IMAGE"})) => Has(toClient[c], Typed({"ROM_IMAGE"}))
    <3>1. \/ toClient'[c] = toClient[c]
          \/ \E m \in ToClientMsgs \ Typed({"ROM_IMAGE"}) : toClient'[c] = Append(toClient[c], m)
      BY <1>6 DEF Typed
    <3> QED
      BY <1>1, <3>1, SentLast
  <2>2. (\E i \in 1 .. Len(tasks') : tasks'[i] = Work("SEND_SRAM", c)) => Early(c)
    <3> SUFFICES ASSUME NEW i \in 1 .. Len(tasks'), tasks'[i] = Work("SEND_SRAM", c)
                 PROVE  Early(c)
      OBVIOUS
    <3>1. CASE \E j \in 1 .. Len(tasks) : tasks'[i] = tasks[j]
      BY <3>1 DEF Early
    <3>2. CASE spc = "wait" /\ job.kind = "JOIN" /\ c = job.c
      BY <1>1, <3>2, ServerTypes DEF Early, Work, Jobs
    <3> QED
      BY <1>1, <3>1, <3>2, TasksAfter DEF Work
  <2>3. ~(spc' = "wait" /\ job' = Work("JOIN", c))
    <3>1. CASE StartTask
      <4>1. tasks \in Seq(Tasks) /\ tasks # <<>> /\ job' = tasks[1]
        BY <1>1, <3>1, ServerTypes DEF StartTask
      <4>2. tasks[1].kind \in JoinKinds
        BY <1>1, <4>1 DEF OnlyJoins
      <4> QED
        BY <4>1, <4>2 DEF Work, JoinKinds
    <3>2. CASE FinishJoin(HostDone)
      BY <3>2 DEF FinishJoin
    <3>3. CASE TaskDone
      BY <3>3 DEF TaskDone
    <3>4. ~FinishSyncAll(HostDone, HostGame) /\ ~FinishSendRomImage(HostDone)
      BY <1>1, JoinJob DEF FinishSyncAll, FinishSendRomImage, Waited, JoinKinds
    <3> QED
      BY <3>1, <3>2, <3>3, <3>4 DEF ServerRuns, FinishSyncClient, FinishReset, FinishSendSram
  <2> QED
    BY <1>4, <2>1, <2>2, <2>3 DEF Early
<1> QED
  BY <1>1, <1>3, <1>4, <1>5, <1>6, <1>7, OwnerSent DEF OwnStep

\* A user's step that touches neither the streams of c nor the server.
LEMMA OwnerSame ==
    ASSUME NEW c \in Clients, Owner(c), UNCHANGED serverVars,
           UNCHANGED <<toServer[c], toClient[c], cpc[c], waiting[c]>>
    PROVE  Owner(c)'
<1>1. UNCHANGED <<saidHello, ready, clientPaused, spc, job, tasks, syncByReset>>
  BY DEF serverVars
<1>2. (Asking(c)' <=> Asking(c)) /\ (Early(c)' <=> Early(c)) /\ (Fresh(c)' <=> Fresh(c))
  BY <1>1 DEF Asking, Early, Fresh
<1> QED
  BY <1>1, <1>2 DEF Owner, RomFirst, SramFirst, Sorted

\* A machine that connects has two new streams, and is not in the table.
LEMMA OwnerConnects ==
    ASSUME TypeInv, Alone, NEW c \in Clients, NewConnection(c)
    PROVE  Owner(c)'
<1>1. /\ toServer'[c] = <<"HELLO">> /\ toClient'[c] = <<>> /\ cpc'[c] = "hello"
      /\ waiting'[c] = FALSE /\ c \notin saidHello' /\ clientPaused' = clientPaused
  BY MachineTypes, ServerTypes DEF NewConnection, Connect, serverVars
<1>2. \A A, B : ~Has(toClient'[c], A) /\ ~After(toClient'[c], B, A)
  BY <1>1, StreamEmpty
<1>3. \A A, B : /\ Has(toServer'[c], A) => "HELLO" \in A
                /\ ~After(toServer'[c], B, A)
                /\ Unanswered(toServer'[c], A, B) => "HELLO" \in A
  BY <1>1 DEF Has, After, Unanswered
<1>4. ~Has(toServer'[c], ToServerMsgs \ {"HELLO"})
  BY <1>3
<1>5. ~Asking(c)'
  BY <1>1, <1>3 DEF Asking
<1>6. RomFirst(c)' /\ SramFirst(c)' /\ Fresh(c)'
  BY <1>1, <1>2, <1>3, <1>5 DEF RomFirst, SramFirst, Fresh
<1>7. ~Has(toServer'[c], {"EOF"})
  BY <1>3
<1> QED
  BY <1>1, <1>4, <1>5, <1>6, <1>7 DEF Owner

LEMMA OwnUsers ==
    ASSUME OwnStep, Users \/ FrontEnd
    PROVE  OwnInv'
<1>1. /\ TypeInv /\ OwnInv /\ OnlyJoins /\ Calm /\ Alone /\ Host \in Clients
      /\ uiTask = "none" /\ \A c \in Clients : pc[c] # "drain"
  BY MachineTypes DEF OwnStep, OwnInv, OnlyJoins
<1>3. \E d \in Clients :
        NewConnection(d) \/ LeaveSession(d) \/ PauseGame(d) \/ ResumeGame(d) \/ Unannounce(d)
  BY <1>1, CalmUsers
<1>4. UNCHANGED <<serverVars, uiTask, pc>>
  BY <1>3 DEF NewConnection, Connect, LeaveSession, Leave, PauseGame, ResumeGame, SetPaused,
              Unannounce, clientVars, hostVars
<1>5. OnlyJoins'
  BY <1>1, <1>4 DEF OnlyJoins, serverVars, JoinKinds
<1> SUFFICES ASSUME NEW c \in Clients, cpc'[c] # "off" PROVE Owner(c)'
  BY <1>5 DEF OwnInv
<1>6. CASE NewConnection(c)
  BY <1>1, <1>6, OwnerConnects
<1>7. CASE ~NewConnection(c)
  <2>1. UNCHANGED <<toServer[c], toClient[c], cpc[c], waiting[c]>>
    <3>1. ASSUME NEW d \in Clients \ {c}, NewConnection(d)
          PROVE  UNCHANGED <<toServer[c], toClient[c], cpc[c], waiting[c]>>
      BY <1>1, <3>1, MachineTypes DEF NewConnection, Connect
    <3>2. ASSUME NEW d \in Clients, LeaveSession(d)
          PROVE  UNCHANGED <<toServer[c], toClient[c], cpc[c], waiting[c]>>
      BY <1>1, <3>2, MachineTypes DEF LeaveSession, Leave, SendToServer
    <3>3. ASSUME NEW d \in Clients, PauseGame(d) \/ ResumeGame(d) \/ Unannounce(d)
          PROVE  UNCHANGED <<toServer[c], toClient[c], cpc[c], waiting[c]>>
      BY <3>3 DEF PauseGame, ResumeGame, SetPaused, Unannounce, wireVars, clientVars
    <3> QED
      BY <1>3, <1>7, <3>1, <3>2, <3>3
  <2>2. Owner(c)
    BY <1>1, <2>1 DEF OwnInv
  <2> QED
    BY <1>4, <2>1, <2>2, OwnerSame
<1> QED
  BY <1>6, <1>7

LEMMA OwnNext ==
    ASSUME OwnStep, [Next]_vars
    PROVE  OwnInv'
<1>1. CASE ServerStep
  BY <1>1, ServerCases, OwnHeartbeat, OwnReads, OwnRuns
<1>2. CASE UNCHANGED vars
  <2>1. UNCHANGED <<toServer, toClient, cpc, pc, waiting, serverVars, uiTask, tasks, syncByReset>>
    BY <1>2 DEF vars, wireVars, clientVars, hostVars, serverVars
  <2>2. OnlyJoins'
    BY <2>1 DEF OwnStep, OwnInv, OnlyJoins, JoinKinds
  <2> QED
    BY <2>1, <2>2, OwnerSame DEF OwnStep, OwnInv
<1>3. ASSUME NEW d \in Clients, EmulationStep(d) PROVE OwnInv'
  BY <1>3, OwnEmulation DEF EmulationStep
<1>4. ASSUME NEW d \in Clients, ClientStep(d) PROVE OwnInv'
  BY <1>4, OwnClient DEF ClientStep
<1> QED
  BY <1>1, <1>2, <1>3, <1>4, OwnUsers DEF Next

LEMMA OwnInit ==
    ASSUME Init
    PROVE  OwnInv
<1>1. /\ cpc = [c \in Clients |-> "off"] /\ pc = [c \in Clients |-> "top"]
      /\ tasks = <<>> /\ uiTask = "none" /\ Len(tasks) = 0
  BY DEF Init, ClientInit, ServerInit
<1> QED
  BY <1>1 DEF OwnInv, OnlyJoins

LEMMA FarInit ==
    ASSUME Init
    PROVE  FarInv
  BY DEF Init, ClientInit, FarInv, Far

LEMMA OwnStepNext ==
    ASSUME OwnStep, [Next]_vars
    PROVE  OwnStep'
<1>1. OwnStep => OnlyJoins /\ NoEnds
  BY DEF OwnStep, OwnInv, Owner, NoEnds, Has
<1>2. SlotsOnce => JoinInv'
  BY <1>1, JoinNext DEF OwnStep, JoinStep
<1> QED
  BY <1>2, TypeNext, AloneNext, FarNext, OwnNext DEF OwnStep, Calm, SlotsOnce, Margin, Resumes

\* Somebody will lift every pause a machine has asked for: the machine knows
\* that it waits, or the answer is under way (netplay.cpp, S9xNPClientLoop and
\* S9xNPClientSyncSpeed; server.cpp, S9xNPProcessClient).  Of the messages
\* that clear Waiting4EmulationThread only NP_SERV_SRAM_DATA is not answered,
\* and nobody it is sent to waits.
THEOREM PauseIsOwnedInv == Calm /\ Margin => (Spec => []PauseIsOwned)
<1> SUFFICES ASSUME Calm, Margin PROVE Spec => []PauseIsOwned
  OBVIOUS
<1>1. Init => OwnStep
  BY TypeInit, AloneInit, FarInit, OwnInit, JoinInit DEF OwnStep
<1>2. OwnStep /\ [Next]_vars => OwnStep'
  BY OwnStepNext
<1>3. OwnStep => PauseIsOwned
  <2> SUFFICES ASSUME OwnStep, NEW c \in clientPaused \cap saidHello,
                      ~waiting[c], InSession(c)
               PROVE  \E i \in 1 .. Len(toServer[c]) :
                         toServer[c][i] \in {"RESUME", "READY", "RECEIVED_ROM_IMAGE", "EOF"}
    BY DEF PauseIsOwned
  <2>1. c \in Clients
    BY ServerTypes DEF OwnStep
  <2>2. ~Asking(c)
    BY <2>1 DEF OwnStep, OwnInv, Owner, InSession
  <2> QED
    BY <2>2 DEF Asking, Has, Answers
<1> QED
  BY <1>1, <1>2, <1>3, PTL DEF Spec
-----------------------------------------------------------------------------
(***************************************************************************)
(* The first game.  The host enters the session before anybody else and    *)
(* then always has the session's game, which is what the server sends.     *)
(***************************************************************************)
HostEnters ==
    \/ cpc[Host] = "off" /\ toServer[Host] = <<>>
    \/ cpc[Host] = "hello" /\ toServer[Host] = <<"HELLO">> /\ toClient[Host] = <<>>
    \/ /\ cpc[Host] = "hello" /\ Host \in connected /\ toServer[Host] = <<>>
       /\ Len(toClient[Host]) = 1 /\ toClient[Host][1].type = "HELLO"
    \/ /\ cpc[Host] = "loop" /\ Host \in connected
       /\ toServer[Host] = <<"READY">> /\ toClient[Host] = <<>>

NotToHost   == HelloTypes \cup {"FREEZE_FILE", "ROM_IMAGE", "SRAM_DATA"}
NotFromHost == {"HELLO", "WAITING_FOR_ROM_IMAGE", "RECEIVED_ROM_IMAGE", "EOF"}

HostAlone ==
    /\ connected \subseteq {Host} /\ tasks = <<>> /\ spc = "clients" /\ ~waiting[Host]
    /\ \A c \in Remotes : cpc[c] = "off" /\ toServer[c] = <<>>
    /\ HostEnters

HostIn ==
    /\ InSession(Host)
    /\ ~Has(toServer[Host], NotFromHost) /\ ~Has(toClient[Host], Typed(NotToHost))

HostLeads ==
    /\ IF Host \in saidHello THEN HostIn ELSE HostAlone
    /\ InSession(Host) => game[Host] # Foreign
    /\ ForNobody(Host)

\* A message that replaces the game carries one.
Gameless == {msg \in ToClientMsgs : msg.type \in Replacing /\ msg.game = Foreign}
GamesCarried == \A c \in Clients : ~Has(toClient[c], Gameless)

LeadStep == JoinStep /\ HostLeads /\ GamesCarried

LEMMA LeadTypes ==
    ASSUME LeadStep
    PROVE  /\ TypeInv /\ Alone /\ Host \in Clients /\ Remotes \subseteq Clients
           /\ toServer \in [Clients -> Seq(ToServerMsgs)]
           /\ toClient \in [Clients -> Seq(ToClientMsgs)]
           /\ cpc \in [Clients -> {"off", "hello", "loop", "pausing", "drain"}]
           /\ game \in [Clients -> Games]
           /\ \A c \in Clients : c # Host => c \in Remotes
  BY MachineTypes DEF LeadStep, JoinStep, Remotes

\* A step that touches neither the host nor the server.
LEMMA LeadKept ==
    ASSUME HostLeads, UNCHANGED serverVars,
           UNCHANGED <<toServer[Host], toClient[Host], cpc[Host], waiting[Host], game[Host]>>,
           Host \notin saidHello =>
              \A c \in Remotes : cpc'[c] = cpc[c] /\ toServer'[c] = toServer[c]
    PROVE  HostLeads'
<1>1. UNCHANGED <<connected, saidHello, tasks, spc, job>>
  BY DEF serverVars
<1>2. (InSession(Host)' <=> InSession(Host)) /\ (ForNobody(Host)' <=> ForNobody(Host))
  BY <1>1 DEF InSession, ForNobody
<1> QED
  BY <1>1, <1>2 DEF HostLeads, HostAlone, HostEnters, HostIn

LEMMA CarriedKept ==
    ASSUME LeadStep, NEW c \in Clients,
           toClient'[c] = toClient[c] \/ (toClient[c] # <<>> /\ toClient'[c] = Tail(toClient[c]))
    PROVE  ~Has(toClient'[c], Gameless)
<1>1. toClient[c] \in Seq(ToClientMsgs) /\ ~Has(toClient[c], Gameless)
  BY LeadTypes DEF LeadStep, GamesCarried
<1> QED
  BY <1>1, TakenOnly

LEMMA LeadEmulation ==
    ASSUME LeadStep, NEW d \in Clients, NEW quiet, EmulationThread(d, quiet),
           UNCHANGED <<serverVars, hostVars>>
    PROVE  HostLeads' /\ GamesCarried'
<1>1. /\ TypeInv /\ UNCHANGED <<toClient, cpc>> /\ InSession(d)
      /\ \A c \in Clients \ {d} : UNCHANGED Machine(c)
  BY LeadTypes, EmulationLocal
<1>2. GamesCarried'
  BY <1>1 DEF LeadStep, GamesCarried
<1>3. CASE d # Host
  <2>1. Host \in saidHello
    BY <1>1, <1>3, LeadTypes DEF LeadStep, HostLeads, HostAlone, InSession
  <2> QED
    BY <1>1, <1>2, <1>3, <2>1, LeadTypes, LeadKept DEF LeadStep, Machine
<1>4. CASE d = Host
  <2>1. game[Host] # Foreign => game'[Host] # Foreign
    <3>1. \A e, f : At(e, f) # Foreign
      BY DEF At, Foreign, Game
    <3>2. CASE EndFrame(Host)
      BY <1>1, <3>1, <3>2, LeadTypes DEF EndFrame
    <3>3. CASE ~EndFrame(Host)
      BY <1>4, <3>3 DEF EmulationThread, PushPending, PushReady, TakeBack, SyncSpeedToken,
                        SyncSpeedTimeout
    <3> QED
      BY <3>2, <3>3
  <2>2. \/ toServer'[Host] = toServer[Host] /\ waiting'[Host] = waiting[Host]
        \/ /\ waiting[Host] /\ ~waiting'[Host]
           /\ toServer'[Host] = Append(toServer[Host], "RESUME")
    BY <1>1, <1>4, EmulationSends
  <2>3. ForNobody(Host)'
    BY DEF LeadStep, HostLeads, ForNobody, serverVars
  <2>4. CASE Host \in saidHello
    <3>1. ~Has(toServer'[Host], NotFromHost)
      <4>1. ~Has(toServer[Host], NotFromHost)
        BY <2>4 DEF LeadStep, HostLeads, HostIn
      <4>2. "RESUME" \in ToServerMsgs /\ "RESUME" \notin NotFromHost
        BY DEF ToServerMsgs, NotFromHost
      <4>3. toServer[Host] \in Seq(ToServerMsgs)
        BY LeadTypes
      <4> QED
        BY <2>2, <4>1, <4>2, <4>3, StreamAppended
    <3> QED
      BY <1>1, <1>2, <1>4, <2>1, <2>3, <2>4, <3>1
         DEF LeadStep, HostLeads, HostIn, InSession, serverVars
  <2>5. CASE Host \notin saidHello
    <3>1. toServer'[Host] = toServer[Host] /\ waiting'[Host] = waiting[Host]
      BY <2>2, <2>5 DEF LeadStep, HostLeads, HostAlone
    <3>2. \A c \in Remotes : cpc'[c] = cpc[c] /\ toServer'[c] = toServer[c]
      BY <1>1, <1>4, LeadTypes DEF Machine, Remotes
    <3>3. UNCHANGED <<connected, saidHello, tasks, spc>> /\ (InSession(Host)' <=> InSession(Host))
      BY <1>1 DEF serverVars, InSession
    <3> QED
      BY <1>1, <1>2, <2>1, <2>3, <2>5, <3>1, <3>2, <3>3
         DEF LeadStep, HostLeads, HostAlone, HostEnters
  <2> QED
    BY <2>4, <2>5
<1> QED
  BY <1>3, <1>4

LEMMA LeadClient ==
    ASSUME LeadStep, NEW d \in Clients, ClientThread(d), UNCHANGED <<serverVars, hostVars>>
    PROVE  HostLeads' /\ GamesCarried'
<1> DEFINE q == toClient[Host]
<1>1. /\ TypeInv /\ cpc[d] # "off"
      /\ \A c \in Clients \ {d} : UNCHANGED Machine(c)
      /\ \/ toClient'[d] = toClient[d]
         \/ toClient[d] # <<>> /\ toClient'[d] = Tail(toClient[d])
  BY LeadTypes, ClientLocal
<1>2. GamesCarried'
  <2>1. \A c \in Clients \ {d} : toClient'[c] = toClient[c]
    BY <1>1 DEF Machine
  <2> QED
    BY <1>1, <2>1, CarriedKept DEF GamesCarried
<1>3. CASE d # Host
  <2>1. Host \in saidHello
    BY <1>1, <1>3, LeadTypes DEF LeadStep, HostLeads, HostAlone
  <2> QED
    BY <1>1, <1>2, <1>3, <2>1, LeadTypes, LeadKept DEF LeadStep, Machine
<1>4. CASE d = Host /\ Host \in saidHello
  <2>1. /\ InSession(Host) /\ ~Has(toServer[Host], NotFromHost) /\ ~Has(q, Typed(NotToHost))
        /\ game[Host] # Foreign /\ q \in Seq(ToClientMsgs) /\ toServer[Host] \in Seq(ToServerMsgs)
        /\ ~Has(q, Gameless)
    BY <1>4, LeadTypes DEF LeadStep, HostLeads, HostIn, GamesCarried
  <2>2. ~Has(toClient'[Host], Typed(NotToHost))
    BY <1>1, <1>4, <2>1, TakenOnly
  <2>3. q # <<>> => /\ Head(q).type \notin {"FREEZE_FILE", "ROM_IMAGE", "SRAM_DATA"}
                    /\ Head(q).type \in Replacing => Head(q).game # Foreign
    <3> SUFFICES ASSUME q # <<>>
                 PROVE  /\ Head(q).type \notin {"FREEZE_FILE", "ROM_IMAGE", "SRAM_DATA"}
                        /\ Head(q).type \in Replacing => Head(q).game # Foreign
      OBVIOUS
    <3>1. Head(q) \notin Typed(NotToHost) /\ Head(q) \notin Gameless
      BY <2>1, StreamTaken
    <3>2. Head(q) \in ToClientMsgs
      BY <2>1
    <3> QED
      BY <3>1, <3>2 DEF Typed, NotToHost, Gameless
  <2> USE LeadTypes
  <2>4. /\ InSession(Host)' /\ game'[Host] # Foreign
        /\ \/ toServer'[Host] = toServer[Host]
           \/ \E m \in {"READY", "PAUSE"} : toServer'[Host] = Append(toServer[Host], m)
    <3>1. ~RecvHello(Host)
      BY <2>1 DEF RecvHello, InSession
    <3>2. CASE RecvHeartbeat(Host)
      BY <2>1, <3>2 DEF RecvHeartbeat, InSession
    <3>3. CASE SendPause(Host)
      BY <2>1, <3>3 DEF SendPause, SendToServer, InSession
    <3>4. CASE RecvSync(Host) \/ ClientDiscard(Host)
      BY <2>1, <3>4 DEF RecvSync, ClientDiscard, wireVars, InSession
    <3>5. CASE ReplaceGame(Host)
      <4>1. q # <<>> /\ Head(q).type \in Replacing /\ game'[Host] = Head(q).game
        BY <3>5 DEF ReplaceGame, DiscardDone, Replacing
      <4> QED
        BY <2>1, <2>3, <3>5, <4>1 DEF ReplaceGame, DiscardDone, SendToServer, InSession
    <3>6. ~ReplaceRom(Host) /\ ~ReplaceSram(Host)
      BY <2>3 DEF ReplaceRom, ReplaceSram, DiscardDone
    <3> QED
      BY <1>4, <3>1, <3>2, <3>3, <3>4, <3>5, <3>6 DEF ClientThread
  <2>5. ~Has(toServer'[Host], NotFromHost)
    <3>1. \A m \in {"READY", "PAUSE"} : m \in ToServerMsgs /\ m \notin NotFromHost
      BY DEF ToServerMsgs, NotFromHost
    <3>2. \A m \in ToServerMsgs :
             Has(Append(toServer[Host], m), NotFromHost)
                <=> Has(toServer[Host], NotFromHost) \/ m \in NotFromHost
      <4> SUFFICES ASSUME NEW m \in ToServerMsgs
                   PROVE  Has(Append(toServer[Host], m), NotFromHost)
                             <=> Has(toServer[Host], NotFromHost) \/ m \in NotFromHost
        OBVIOUS
      <4>1. toServer[Host] \in Seq(ToServerMsgs)
        BY <2>1
      <4> QED
        BY ONLY <4>1, m \in ToServerMsgs, StreamAppended
    <3> QED
      BY <2>1, <2>4, <3>1, <3>2
  <2>6. ForNobody(Host)'
    BY DEF LeadStep, HostLeads, ForNobody, serverVars
  <2> QED
    BY <1>2, <1>4, <2>2, <2>4, <2>5, <2>6 DEF HostLeads, HostIn, serverVars
<1>5. CASE d = Host /\ Host \notin saidHello
  <2>1. HostAlone /\ cpc[Host] # "off"
    BY <1>1, <1>5 DEF LeadStep, HostLeads
  <2>2. RecvHello(Host) /\ cpc[Host] = "hello" /\ q # <<>>
    BY <1>5, <2>1 DEF HostAlone, HostEnters, ClientThread, RecvHello, RecvHeartbeat, SendPause,
                      RecvSync, ClientDiscard, ReplaceGame, ReplaceRom, ReplaceSram, DiscardDone
  <2>3. /\ Host \in connected /\ toServer[Host] = <<>> /\ Len(q) = 1 /\ q[1].type = "HELLO"
        /\ Head(q) = q[1]
    BY <2>1, <2>2, LeadTypes DEF HostAlone, HostEnters
  <2>4. toClient'[Host] = <<>>
    <3>1. q \in Seq(ToClientMsgs) /\ toClient'[Host] = Tail(q)
      BY <2>2, LeadTypes DEF RecvHello
    <3>2. Tail(q) \in Seq(ToClientMsgs) /\ Len(Tail(q)) = 0
      BY <2>2, <2>3, <3>1
    <3> QED
      BY <3>1, <3>2, EmptySeq
  <2>5. /\ cpc'[Host] = "loop" /\ toServer'[Host] = Append(<<>>, "READY")
        /\ game'[Host] = At(0, Head(q).frame) /\ waiting' = waiting
    BY <2>2, <2>3, LeadTypes DEF RecvHello, SendToServer, HelloTypes
  <2>6. toServer'[Host] = <<"READY">> /\ game'[Host] # Foreign
    BY <2>5 DEF At, Foreign, Game
  <2>7. \A c \in Remotes : cpc'[c] = cpc[c] /\ toServer'[c] = toServer[c]
    BY <1>1, <1>5, LeadTypes DEF Machine, Remotes
  <2>8. ForNobody(Host)' /\ UNCHANGED <<connected, saidHello, tasks, spc>>
    BY DEF LeadStep, HostLeads, ForNobody, serverVars
  <2>9. HostAlone'
    BY <2>1, <2>3, <2>4, <2>5, <2>6, <2>7, <2>8 DEF HostAlone, HostEnters
  <2> QED
    BY <1>2, <1>5, <2>6, <2>8, <2>9 DEF HostLeads
<1> QED
  BY <1>3, <1>4, <1>5

LEMMA LeadUsers ==
    ASSUME LeadStep, Users \/ FrontEnd
    PROVE  HostLeads' /\ GamesCarried'
<1>1. /\ TypeInv /\ UNCHANGED serverVars
      /\ \E d \in Clients : \/ NewConnection(d) \/ LeaveSession(d) \/ PauseGame(d)
                            \/ ResumeGame(d) \/ Unannounce(d)
  <2>1. \E d \in Clients : \/ NewConnection(d) \/ LeaveSession(d) \/ PauseGame(d)
                           \/ ResumeGame(d) \/ Unannounce(d)
    BY CalmUsers DEF LeadStep, JoinStep
  <2> QED
    BY <2>1, LeadTypes
       DEF NewConnection, LeaveSession, PauseGame, ResumeGame, Unannounce
<1> USE LeadTypes
<1>2. ASSUME NEW d \in Clients, NewConnection(d) PROVE HostLeads' /\ GamesCarried'
  <2>1. /\ cpc[d] = "off" /\ d \notin connected /\ (d # Host => Host \in saidHello)
        /\ toClient' = [toClient EXCEPT ![d] = <<>>] /\ toServer' = [toServer EXCEPT ![d] = <<"HELLO">>]
        /\ cpc' = [cpc EXCEPT ![d] = "hello"] /\ waiting' = [waiting EXCEPT ![d] = FALSE]
        /\ UNCHANGED <<game, serverVars>>
    BY <1>2 DEF NewConnection, Connect
  <2>2. GamesCarried'
    BY <2>1, StreamEmpty DEF LeadStep, GamesCarried
  <2>3. CASE d # Host
    <3>1. /\ Host \in saidHello
          /\ UNCHANGED <<toServer[Host], toClient[Host], cpc[Host], waiting[Host], game[Host]>>
      BY <2>1, <2>3, MachineTypes
    <3> QED
      BY <2>1, <2>2, <3>1, LeadKept DEF LeadStep
  <2>4. CASE d = Host
    <3>1. Host \notin saidHello /\ HostAlone
      BY <2>1, <2>4 DEF LeadStep, HostLeads, HostIn, InSession
    <3>2. ForNobody(Host)' /\ UNCHANGED <<connected, saidHello, tasks, spc>>
      BY <2>1 DEF LeadStep, HostLeads, ForNobody, serverVars
    <3>3. HostAlone'
      BY <2>1, <2>4, <3>1, <3>2, MachineTypes DEF HostAlone, HostEnters, Remotes
    <3> QED
      BY <2>1, <2>2, <2>4, <3>1, <3>2, <3>3 DEF HostLeads, InSession
  <2> QED
    BY <2>3, <2>4
<1>3. ASSUME NEW d \in Clients, LeaveSession(d) PROVE HostLeads' /\ GamesCarried'
  <2>1. /\ cpc[d] # "off" /\ d # Host /\ toClient' = [toClient EXCEPT ![d] = <<>>]
        /\ \A c \in Clients \ {d} : toServer'[c] = toServer[c] /\ cpc'[c] = cpc[c]
        /\ UNCHANGED <<waiting, game, serverVars>>
    BY <1>3, NetPlayAssumption DEF LeaveSession, Leave, SendToServer, Remotes
  <2>2. GamesCarried'
    BY <2>1, StreamEmpty DEF LeadStep, GamesCarried
  <2>3. Host \in saidHello
    BY <2>1 DEF LeadStep, HostLeads, HostAlone
  <2> QED
    BY <2>1, <2>2, <2>3, LeadKept DEF LeadStep
<1>4. ASSUME NEW d \in Clients, PauseGame(d) \/ ResumeGame(d) \/ Unannounce(d)
      PROVE  HostLeads' /\ GamesCarried'
  <2>1. UNCHANGED <<wireVars, cpc, waiting, game>>
    BY <1>4 DEF PauseGame, ResumeGame, SetPaused, Unannounce, clientVars
  <2> QED
    BY <1>1, <2>1, LeadKept DEF LeadStep, GamesCarried, wireVars
<1> QED
  BY <1>1, <1>2, <1>3, <1>4

LEMMA LeadHeartbeat ==
    ASSUME LeadStep, NEW stopped, SendHeartBeat(stopped), UNCHANGED clientVars
    PROVE  HostLeads' /\ GamesCarried'
<1> DEFINE m == Heartbeat(srvFrame + 1)
<1>1. /\ SendTo(saidHello, m) /\ saidHello # {} /\ saidHello \subseteq connected
      /\ UNCHANGED <<toServer, connected, saidHello, tasks, spc, job>>
      /\ m \in ToClientMsgs /\ m.type = "JOYPAD"
  BY LeadTypes, ServerTypes, SentTypes DEF SendHeartBeat, flags
<1> HIDE DEF m
<1>2. Host \in saidHello
  BY <1>1 DEF LeadStep, HostLeads, HostAlone
<1>3. \A c \in Clients : toClient'[c] = toClient[c] \/ toClient'[c] = Append(toClient[c], m)
  BY <1>1, SentTo
<1>4. m \notin Typed(NotToHost) /\ m \notin Gameless
  BY <1>1 DEF Typed, NotToHost, HelloTypes, Gameless, Replacing
<1>5. \A c \in Clients : \A A :
         m \notin A /\ ~Has(toClient[c], A) => ~Has(toClient'[c], A)
  <2> SUFFICES ASSUME NEW c \in Clients, NEW A, m \notin A, ~Has(toClient[c], A)
               PROVE  ~Has(toClient'[c], A)
    OBVIOUS
  <2>1. toClient[c] \in Seq(ToClientMsgs) /\ m \in ToClientMsgs
    BY <1>1, LeadTypes
  <2>2. Has(Append(toClient[c], m), A) <=> Has(toClient[c], A) \/ m \in A
    BY <2>1, StreamAppended
  <2> QED
    BY <1>3, <2>2
<1>6. GamesCarried'
  BY <1>4, <1>5 DEF LeadStep, GamesCarried
<1>7. ForNobody(Host)' /\ (InSession(Host)' <=> InSession(Host))
  BY <1>1 DEF LeadStep, HostLeads, ForNobody, InSession, clientVars
<1> QED
  BY <1>1, <1>2, <1>4, <1>5, <1>6, <1>7, LeadTypes DEF LeadStep, HostLeads, HostIn, clientVars

\* Who is counted: a remote machine comes after the host.
LEMMA CountedWith ==
    ASSUME TypeInv
    PROVE  /\ connected \subseteq {Host} => ~(numClients > 1)
           /\ \A c \in Remotes : Host \in connected /\ c \in connected => numClients > 1
<1>1. IsFiniteSet(connected) /\ numClients = Cardinality(connected) /\ numClients \in Nat
  BY FS_CardinalityType DEF TypeInv, Table, ClientsCounted
<1>2. connected \subseteq {Host} => numClients <= 1
  <2>1. IsFiniteSet({Host}) /\ Cardinality({Host}) = 1
    BY FS_Singleton
  <2> QED
    BY <1>1, <2>1, FS_Subset
<1>3. ASSUME NEW c \in Remotes, Host \in connected, c \in connected PROVE numClients > 1
  <2>1. IsFiniteSet({Host}) /\ Cardinality({Host}) = 1 /\ c \notin {Host}
    BY FS_Singleton DEF Remotes
  <2>2. IsFiniteSet({Host} \cup {c}) /\ Cardinality({Host} \cup {c}) = 1 + 1
    BY <2>1, FS_AddElement
  <2>3. {Host} \cup {c} \in SUBSET connected
    BY <1>3
  <2> QED
    BY <1>1, <2>2, <2>3, FS_Subset
<1> QED
  BY <1>1, <1>2, <1>3

\* A message that is none of A adds none of A.
LEMMA AddedOnly ==
    ASSUME NEW S, NEW s \in Seq(S), NEW x \in S, NEW A, x \notin A, ~Has(s, A)
    PROVE  ~Has(Append(s, x), A)
  BY StreamAppended

\* What the server sends when it has read a message.
LEMMA ReadsSend ==
    ASSUME TypeInv, NEW d \in Clients, ServerReads(d), NEW c \in Clients
    PROVE  \/ toClient'[c] = toClient[c]
           \/ \E m \in ToClientMsgs :
                /\ toClient'[c] = Append(toClient[c], m) /\ m.type \notin Replacing
                /\ m.type # "JOYPAD" /\ c = d
                /\ \/ m = Hello(srvFrame, sendROM /\ numClients > 1) /\ ProcessHello(d)
                   \/ m = RomImage /\ ProcessWaitingForRomImage(d)
<1>1. srvFrame \in Nat /\ sendROM \in BOOLEAN
  BY DEF TypeInv, TypeOK, ServerTypeOK
<1>2. CASE ProcessHello(d)
  <2> DEFINE m == Hello(srvFrame, sendROM /\ numClients > 1)
  <2>1. SendTo({d}, m)
    BY <1>2 DEF ProcessHello
  <2>2. m \in ToClientMsgs /\ m.type \notin Replacing /\ m.type # "JOYPAD"
    BY <1>1, SentTypes DEF HelloTypes, Replacing
  <2>3. toClient'[c] = toClient[c] \/ (c = d /\ toClient'[c] = Append(toClient[c], m))
    BY <2>1, SentTo
  <2> QED
    BY <1>2, <2>2, <2>3
<1>3. CASE ProcessWaitingForRomImage(d)
  <2>1. SendTo({d}, RomImage)
    BY <1>3 DEF ProcessWaitingForRomImage
  <2>2. RomImage \in ToClientMsgs /\ RomImage.type \notin Replacing /\ RomImage.type # "JOYPAD"
    BY SentTypes DEF Replacing
  <2> QED
    BY <1>3, <2>1, <2>2, SentTo
<1>4. CASE ~ProcessHello(d) /\ ~ProcessWaitingForRomImage(d)
  BY <1>4 DEF ServerReads, AcceptClient, ProcessReadyFirst, ProcessReadyAgain,
              ProcessReceivedRomImage, ProcessPause, ShutdownClient, wireVars
<1> QED
  BY <1>2, <1>3, <1>4

LEMMA ReadsCarried ==
    ASSUME LeadStep, NEW d \in Clients, ServerReads(d)
    PROVE  GamesCarried'
<1> SUFFICES ASSUME NEW c \in Clients PROVE ~Has(toClient'[c], Gameless)
  BY DEF GamesCarried
<1>1. \/ toClient'[c] = toClient[c]
      \/ \E m \in ToClientMsgs : toClient'[c] = Append(toClient[c], m) /\ m.type \notin Replacing
  BY LeadTypes, ReadsSend
<1>2. \A m \in ToClientMsgs : m.type \notin Replacing => m \notin Gameless
  BY DEF Gameless
<1>3. toClient[c] \in Seq(ToClientMsgs) /\ ~Has(toClient[c], Gameless)
  BY LeadTypes DEF LeadStep, GamesCarried
<1> QED
  BY <1>1, <1>2, <1>3, AddedOnly

LEMMA LeadReads ==
    ASSUME LeadStep, NEW d \in Clients, ServerReads(d), UNCHANGED clientVars
    PROVE  HostLeads' /\ GamesCarried'
<1>1. /\ TypeInv /\ Alone /\ UNCHANGED tasks /\ GamesCarried' /\ saidHello \subseteq connected
      /\ UNCHANGED <<cpc, waiting, game>> /\ (InSession(Host)' <=> InSession(Host))
  BY LeadTypes, ServerTypes, ReadsLocal, ReadsCarried DEF LeadStep, clientVars, InSession
<1>2. CASE d # Host
  <2>1. Host \in saidHello
    <3>1. toServer[d] # <<>>
      BY LeadTypes, ReceivedFrom
         DEF ServerReads, AcceptClient, ProcessHello, ProcessReadyFirst, ProcessReadyAgain,
             ProcessWaitingForRomImage, ProcessReceivedRomImage, ProcessPause, ShutdownClient
    <3> QED
      BY <1>2, <3>1, LeadTypes DEF LeadStep, HostLeads, HostAlone
  <2>2. /\ Host \in saidHello' /\ toServer'[Host] = toServer[Host]
        /\ toClient'[Host] = toClient[Host]
        /\ UNCHANGED <<spc, job>> \/ (spc' = "wait" /\ job' = Work("JOIN", d))
    BY <1>2, <2>1, LeadTypes, ReadsLocal DEF LeadStep
  <2>3. ForNobody(Host)'
    BY <1>1, <1>2, <2>2 DEF LeadStep, HostLeads, ForNobody, Work
  <2> QED
    BY <1>1, <2>1, <2>2, <2>3 DEF LeadStep, HostLeads, HostIn
<1>3. CASE d = Host /\ Host \in saidHello
  <2>1. /\ ~Has(toServer[Host], NotFromHost) /\ toServer[Host] \in Seq(ToServerMsgs)
        /\ HostIn /\ Host \in connected
    BY <1>1, <1>3, LeadTypes DEF LeadStep, HostLeads, HostIn
  <2>2. \A msg : Receive(Host, msg) => /\ msg \notin NotFromHost
                                       /\ ~Has(toServer'[Host], NotFromHost)
    BY <1>1, <2>1, LeadTypes, ReadOff
  <2>3. ProcessReadyAgain(Host) \/ ProcessPause(Host)
    BY <1>3, <2>1, <2>2
       DEF ServerReads, AcceptClient, ProcessHello, ProcessReadyFirst,
           ProcessWaitingForRomImage, ProcessReceivedRomImage, ShutdownClient, NotFromHost
  <2>4. /\ UNCHANGED <<toClient, spc, job>> /\ Host \in saidHello'
        /\ ~Has(toServer'[Host], NotFromHost)
    BY <1>3, <2>2, <2>3 DEF ProcessReadyAgain, ProcessPause, Joins
  <2>5. ForNobody(Host)'
    BY <1>1, <2>4 DEF LeadStep, HostLeads, ForNobody
  <2> QED
    BY <1>1, <1>3, <2>1, <2>4, <2>5 DEF LeadStep, HostLeads, HostIn
<1>4. CASE d = Host /\ Host \notin saidHello
  <2>1. /\ HostAlone /\ ForNobody(Host) /\ ~(numClients > 1)
        /\ (InSession(Host) => game[Host] # Foreign)
    BY <1>1, <1>4, CountedWith DEF LeadStep, HostLeads, HostAlone
  <2>2. \A msg : Head(<<msg>>) = msg /\ Tail(<<msg>>) = <<>> /\ Len(<<msg>>) = 1 /\ <<msg>>[1] = msg
    OBVIOUS
  <2>7. \A msg : Receive(Host, msg) =>
           /\ msg \in {"HELLO", "READY"} /\ toServer[Host] = <<msg>> /\ Host \in connected
           /\ toServer'[Host] = <<>>
    <3> SUFFICES ASSUME NEW msg, Receive(Host, msg)
                 PROVE  /\ msg \in {"HELLO", "READY"} /\ toServer[Host] = <<msg>>
                        /\ Host \in connected /\ toServer'[Host] = <<>>
      OBVIOUS
    <3>1. /\ toServer[Host] # <<>> /\ Head(toServer[Host]) = msg /\ Host \in connected
          /\ toServer'[Host] = Tail(toServer[Host])
      BY <1>1, LeadTypes, ReceivedFrom
    <3>2. toServer[Host] = <<"HELLO">> \/ toServer[Host] = <<"READY">>
      BY <2>1, <3>1 DEF HostAlone, HostEnters
    <3> QED
      BY <2>2, <3>1, <3>2
  <2>3. \A c \in Clients \ {Host} : toServer'[c] = toServer[c]
    BY <1>4, LeadTypes, ReadsLocal DEF LeadStep
  <2>4. CASE AcceptClient(Host)
    <3>1. /\ Host \notin connected /\ toServer[Host] # <<>> /\ connected' = connected \cup {Host}
          /\ saidHello' = saidHello \ {Host} /\ UNCHANGED <<wireVars, spc, job>>
      BY <2>4 DEF AcceptClient
    <3>2. HostAlone'
      BY <1>1, <2>1, <3>1 DEF HostAlone, HostEnters, wireVars
    <3>3. ForNobody(Host)'
      BY <1>1, <2>1, <3>1 DEF ForNobody
    <3> QED
      BY <1>1, <2>1, <3>1, <3>2, <3>3 DEF HostLeads
  <2>5. CASE ProcessHello(Host)
    <3> DEFINE m == Hello(srvFrame, sendROM /\ numClients > 1)
    <3>1. /\ Receive(Host, "HELLO") /\ SendTo({Host}, m) /\ UNCHANGED <<flags, spc, job>>
      BY <2>5 DEF ProcessHello
    <3>2. /\ toServer[Host] = <<"HELLO">> /\ toClient[Host] = <<>> /\ cpc[Host] = "hello"
          /\ Host \in connected /\ toServer'[Host] = <<>>
      BY <2>1, <2>2, <2>7, <3>1 DEF HostAlone, HostEnters
    <3>3. toClient'[Host] = Append(<<>>, m)
      BY <3>1, <3>2, LeadTypes, SentTo
    <3>4. m.type = "HELLO"
      BY <2>1 DEF Hello, ToClientMsg
    <3> HIDE DEF m
    <3>5. Len(toClient'[Host]) = 1 /\ toClient'[Host][1].type = "HELLO"
      BY <3>3, <3>4
    <3>6. HostAlone'
      BY <1>1, <2>1, <2>3, <3>1, <3>2, <3>5, LeadTypes DEF HostAlone, HostEnters, flags, Remotes
    <3>7. ForNobody(Host)'
      BY <1>1, <2>1, <3>1 DEF ForNobody
    <3> QED
      BY <1>1, <1>4, <2>1, <3>1, <3>6, <3>7 DEF HostLeads, flags
  <2>6. CASE ProcessReadyFirst(Host)
    <3>1. /\ Receive(Host, "READY") /\ Host \in saidHello' /\ UNCHANGED <<toClient, spc, job>>
      BY <2>1, <2>6 DEF ProcessReadyFirst, Joins
    <3>2. /\ cpc[Host] = "loop" /\ toClient[Host] = <<>> /\ toServer'[Host] = <<>>
      BY <2>1, <2>2, <2>7, <3>1 DEF HostAlone, HostEnters
    <3>3. HostIn'
      BY <1>1, <3>1, <3>2, StreamEmpty DEF HostIn, InSession
    <3>4. ForNobody(Host)'
      BY <1>1, <2>1, <3>1 DEF ForNobody
    <3> QED
      BY <1>1, <2>1, <3>1, <3>3, <3>4 DEF HostLeads
  <2>8. ~(ProcessReadyAgain(Host) \/ ProcessWaitingForRomImage(Host)
            \/ ProcessReceivedRomImage(Host) \/ ProcessPause(Host) \/ ShutdownClient(Host))
    <3>1. ~(Receive(Host, "WAITING_FOR_ROM_IMAGE") \/ Receive(Host, "RECEIVED_ROM_IMAGE")
              \/ Receive(Host, "PAUSE") \/ Receive(Host, "RESUME") \/ Receive(Host, "EOF"))
      BY <2>7
    <3> QED
      BY <1>4, <3>1 DEF ProcessReadyAgain, ProcessWaitingForRomImage, ProcessReceivedRomImage,
                        ProcessPause, ShutdownClient
  <2> QED
    BY <1>4, <2>4, <2>5, <2>6, <2>8 DEF ServerReads
<1> QED
  BY <1>2, <1>3, <1>4

\* What a task gives to c.
LEMMA RunsGive ==
    ASSUME LeadStep, ServerRuns, NEW c \in Clients
    PROVE  /\ Host \in saidHello
           /\ \/ toClient'[c] = toClient[c]
              \/ \E m \in ToClientMsgs :
                   /\ toClient'[c] = Append(toClient[c], m) /\ m \notin Gameless /\ spc = "wait"
                   /\ \/ m.type = "RESET"
                      \/ m.type = "FREEZE_FILE" /\ job.kind = "SYNC_CLIENT" /\ c = job.c
                      \/ m.type = "SRAM_DATA" /\ job.kind = "SEND_SRAM" /\ c = job.c
<1>1. /\ TypeInv /\ Alone /\ OnlyJoins /\ job \in Jobs /\ srvFrame \in Nat /\ epoch \in Nat
      /\ HostGame \in Games
  BY LeadTypes, ServerTypes, GameTypes DEF LeadStep, JoinStep, HostGame
<1>2. Host \in saidHello
  BY DEF LeadStep, HostLeads, HostAlone, ServerRuns, StartTask, FinishJoin, FinishSyncClient,
         FinishSyncAll, FinishReset, FinishSendSram, FinishSendRomImage, Waited
<1>3. HostGame # Foreign
  <2>1. game[Host] # Foreign
    BY <1>2 DEF LeadStep, HostLeads, HostIn
  <2>2. Torn # Foreign
    BY DEF Torn, Foreign, Game
  <2> QED
    BY <2>1, <2>2 DEF HostGame
<1>4. CASE StartTask \/ FinishJoin(HostDone)
  BY <1>2, <1>4 DEF StartTask, FinishJoin, wireVars
<1>5. CASE FinishSyncClient(HostDone, HostGame)
  <2> DEFINE m == FreezeFile(srvFrame, HostGame)
  <2>1. /\ spc = "wait" /\ job.kind = "SYNC_CLIENT" /\ SendTo({job.c} \cap connected, m)
    BY <1>5 DEF FinishSyncClient, Waited
  <2>2. m \in ToClientMsgs /\ m.type = "FREEZE_FILE" /\ m \notin Gameless
    BY <1>1, <1>3, SentTypes DEF Gameless, FreezeFile, ToClientMsg
  <2> HIDE DEF m
  <2> QED
    BY <1>2, <2>1, <2>2, SentTo
<1>6. CASE FinishReset(HostDone)
  <2> DEFINE m == Reset(srvFrame, At(epoch', srvFrame))
  <2>1. epoch' = epoch + 1 /\ SendTo(saidHello, m) /\ spc = "wait"
    BY <1>6 DEF FinishReset, Waited
  <2>2. m \in ToClientMsgs /\ m.type = "RESET"
    BY <1>1, <2>1, SentTypes, GameTypes
  <2>3. m \notin Gameless
    BY DEF Gameless, Reset, ToClientMsg, At, Foreign, Game
  <2> HIDE DEF m
  <2> QED
    BY <1>2, <2>1, <2>2, <2>3, SentTo
<1>7. CASE FinishSendSram(HostDone)
  <2>1. /\ spc = "wait" /\ job.kind = "SEND_SRAM" /\ SendTo({job.c} \cap connected, SramData)
    BY <1>1, <1>7, JoinJob DEF FinishSendSram, Waited, JoinKinds
  <2>2. SramData \in ToClientMsgs /\ SramData.type = "SRAM_DATA" /\ SramData \notin Gameless
    BY SentTypes DEF Gameless, Replacing
  <2> QED
    BY <1>2, <2>1, <2>2, SentTo
<1>8. ~FinishSyncAll(HostDone, HostGame) /\ ~FinishSendRomImage(HostDone)
  BY <1>1, JoinJob DEF FinishSyncAll, FinishSendRomImage, Waited, JoinKinds
<1> QED
  BY <1>4, <1>5, <1>6, <1>7, <1>8 DEF ServerRuns

LEMMA LeadRuns ==
    ASSUME LeadStep, ServerRuns, UNCHANGED clientVars
    PROVE  HostLeads' /\ GamesCarried'
<1>1. \A c \in Clients : toClient[c] \in Seq(ToClientMsgs) /\ ~Has(toClient[c], Gameless)
  BY LeadTypes DEF LeadStep, GamesCarried
<1>2. GamesCarried'
  <2> SUFFICES ASSUME NEW c \in Clients PROVE ~Has(toClient'[c], Gameless)
    BY DEF GamesCarried
  <2>1. \/ toClient'[c] = toClient[c]
        \/ \E m \in ToClientMsgs : toClient'[c] = Append(toClient[c], m) /\ m \notin Gameless
    BY RunsGive
  <2> QED
    BY <1>1, <2>1, AddedOnly
<1>3. /\ Host \in saidHello /\ Host \in saidHello' /\ toServer' = toServer
      /\ ForNobody(Host)'
  BY LeadTypes, RunsLocal, RunsGive DEF LeadStep, HostLeads
<1>4. ~Has(toClient'[Host], Typed(NotToHost))
  <2>1. \/ toClient'[Host] = toClient[Host]
        \/ \E m \in ToClientMsgs : toClient'[Host] = Append(toClient[Host], m) /\ m.type = "RESET"
    BY LeadTypes, RunsGive DEF LeadStep, HostLeads, ForNobody
  <2>2. \A m \in ToClientMsgs : m.type = "RESET" => m \notin Typed(NotToHost)
    BY DEF Typed, NotToHost, HelloTypes
  <2>3. ~Has(toClient[Host], Typed(NotToHost))
    BY <1>3 DEF LeadStep, HostLeads, HostIn
  <2>4. ASSUME NEW m \in ToClientMsgs, m.type = "RESET"
        PROVE  ~Has(Append(toClient[Host], m), Typed(NotToHost))
    <3>1. toClient[Host] \in Seq(ToClientMsgs) /\ m \notin Typed(NotToHost)
      BY <2>2, <2>4, LeadTypes
    <3> QED
      BY <2>3, <3>1, AddedOnly
  <2> QED
    BY <2>1, <2>3, <2>4
<1>5. UNCHANGED <<cpc, game>> /\ (InSession(Host)' <=> InSession(Host))
  BY DEF clientVars, InSession
<1> QED
  BY <1>2, <1>3, <1>4, <1>5 DEF LeadStep, HostLeads, HostIn

LEMMA LeadNext ==
    ASSUME LeadStep, [Next]_vars
    PROVE  HostLeads' /\ GamesCarried'
<1>1. CASE ServerStep
  BY <1>1, ServerCases, LeadHeartbeat, LeadReads, LeadRuns
<1>2. CASE UNCHANGED vars
  <2>1. UNCHANGED <<toServer, toClient, cpc, waiting, game, serverVars>>
    BY <1>2 DEF vars, wireVars, clientVars, serverVars
  <2> QED
    BY <2>1, LeadKept DEF LeadStep, GamesCarried
<1>3. ASSUME NEW d \in Clients, EmulationStep(d) PROVE HostLeads' /\ GamesCarried'
  BY <1>3, LeadEmulation DEF EmulationStep
<1>4. ASSUME NEW d \in Clients, ClientStep(d) PROVE HostLeads' /\ GamesCarried'
  BY <1>4, LeadClient DEF ClientStep
<1> QED
  BY <1>1, <1>2, <1>3, <1>4, LeadUsers DEF Next

LEMMA LeadInit ==
    ASSUME Init
    PROVE  HostLeads /\ GamesCarried
<1>1. /\ toServer = [c \in Clients |-> <<>>] /\ toClient = [c \in Clients |-> <<>>]
      /\ cpc = [c \in Clients |-> "off"] /\ waiting = [c \in Clients |-> FALSE]
      /\ connected = {} /\ saidHello = {} /\ tasks = <<>> /\ spc = "clients"
      /\ Len(<<>>) = 0 /\ Remotes \subseteq Clients /\ Host \in Clients
  BY WireAssumption DEF Init, ClientInit, ServerInit, Remotes
<1> QED
  BY <1>1, StreamEmpty
     DEF HostLeads, HostAlone, HostEnters, InSession, ForNobody, GamesCarried
-----------------------------------------------------------------------------
(***************************************************************************)
(* Heartbeats find a game.  A machine that reads its stream s with, or     *)
(* without (bare), the session's game: does it lack the game when it comes *)
(* to the i-th message?  Does a heartbeat find it without one?  Does it    *)
(* end up without one?                                                     *)
(***************************************************************************)
Beats == Typed({"JOYPAD"})
Gives == Typed(Replacing)
Takes == Typed({"ROM_IMAGE", "SRAM_DATA"})

Lacking(bare, s, i) ==
    \/ bare /\ \A j \in 1 .. i - 1 : s[j] \notin Gives
    \/ \E k \in 1 .. i - 1 : s[k] \in Takes /\ \A j \in k + 1 .. i - 1 : s[j] \notin Gives

Starved(bare, s)  == \E i \in 1 .. Len(s) : s[i] \in Beats /\ Lacking(bare, s, i)
EndsBare(bare, s) == Lacking(bare, s, Len(s) + 1)

LEMMA NothingTaken ==
    ASSUME NEW bare
    PROVE  ~Starved(bare, <<>>)
  BY DEF Starved

LEMMA LackingSent ==
    ASSUME NEW s \in Seq(ToClientMsgs), NEW x \in ToClientMsgs, NEW bare
    PROVE  /\ EndsBare(bare, Append(s, x)) <=> x \in Takes \/ (EndsBare(bare, s) /\ x \notin Gives)
           /\ Starved(bare, Append(s, x)) <=> Starved(bare, s) \/ (x \in Beats /\ EndsBare(bare, s))
<1> DEFINE t == Append(s, x)
<1> DEFINE n == Len(s)
<1>1. /\ n \in Nat /\ Len(t) = n + 1 /\ t[n + 1] = x
      /\ \A i \in 1 .. n : t[i] = s[i] /\ i \in 1 .. n + 1
      /\ \A i \in 1 .. n + 1 : i = n + 1 \/ i \in 1 .. n
  BY AppendElements
<1> HIDE DEF t, n
<1>2. x \in Takes => x \notin Gives
  BY DEF Takes, Gives, Typed, Replacing
<1>3. ASSUME NEW i \in 1 .. n + 1 PROVE Lacking(bare, t, i) <=> Lacking(bare, s, i)
  <2>1. \A j \in 1 .. i - 1 : t[j] = s[j]
    BY <1>1
  <2>2. \A k \in 1 .. i - 1 : \A j \in k + 1 .. i - 1 : t[j] = s[j]
    BY <1>1
  <2> QED
    BY <2>1, <2>2 DEF Lacking
<1>4. Lacking(bare, t, (n + 1) + 1) <=> x \in Takes \/ (Lacking(bare, s, n + 1) /\ x \notin Gives)
  <2>1. /\ ((n + 1) + 1) - 1 = n + 1 /\ (n + 1) - 1 = n
        /\ n + 1 \in 1 .. n + 1 /\ (\A j \in (n + 1) + 1 .. n + 1 : FALSE)
    BY <1>1
  <2>2. (\A j \in 1 .. n + 1 : t[j] \notin Gives) <=> (\A j \in 1 .. n : s[j] \notin Gives) /\ x \notin Gives
    BY <1>1, <2>1
  <2>3. \A k \in 1 .. n : (\A j \in k + 1 .. n + 1 : t[j] \notin Gives)
                            <=> (\A j \in k + 1 .. n : s[j] \notin Gives) /\ x \notin Gives
    <3> SUFFICES ASSUME NEW k \in 1 .. n
                 PROVE  (\A j \in k + 1 .. n + 1 : t[j] \notin Gives)
                            <=> (\A j \in k + 1 .. n : s[j] \notin Gives) /\ x \notin Gives
      OBVIOUS
    <3>1. /\ n + 1 \in k + 1 .. n + 1
          /\ \A j \in k + 1 .. n : j \in k + 1 .. n + 1 /\ j \in 1 .. n
          /\ \A j \in k + 1 .. n + 1 : j = n + 1 \/ j \in k + 1 .. n
      BY <1>1
    <3> QED
      BY <1>1, <3>1
  <2>4. (\E k \in 1 .. n + 1 : t[k] \in Takes /\ \A j \in k + 1 .. n + 1 : t[j] \notin Gives)
          <=> \/ x \in Takes
              \/ (\E k \in 1 .. n : s[k] \in Takes /\ \A j \in k + 1 .. n : s[j] \notin Gives)
                    /\ x \notin Gives
    BY <1>1, <2>1, <2>3
  <2> QED
    BY <1>2, <2>1, <2>2, <2>4 DEF Lacking
<1>5. EndsBare(bare, t) <=> x \in Takes \/ (EndsBare(bare, s) /\ x \notin Gives)
  BY <1>1, <1>4 DEF EndsBare, n
<1>6. Starved(bare, t) <=> Starved(bare, s) \/ (x \in Beats /\ EndsBare(bare, s))
  <2>1. n + 1 \in 1 .. n + 1
    BY <1>1
  <2> QED
    BY <1>1, <1>3, <2>1 DEF Starved, EndsBare, n
<1> QED
  BY <1>5, <1>6 DEF t

LEMMA LackingTaken ==
    ASSUME NEW s \in Seq(ToClientMsgs), s # <<>>, NEW bare, NEW left,
           left => (bare /\ Head(s) \notin Gives) \/ Head(s) \in Takes
    PROVE  /\ EndsBare(left, Tail(s)) => EndsBare(bare, s)
           /\ Starved(left, Tail(s)) => Starved(bare, s)
           /\ Head(s) \in Beats /\ bare => Starved(bare, s)
<1> DEFINE t == Tail(s)
<1> DEFINE n == Len(s)
<1>1. /\ n \in Nat \ {0} /\ Head(s) = s[1] /\ 1 \in 1 .. n /\ Len(t) = n - 1
      /\ \A i \in 1 .. n - 1 : t[i] = s[i + 1] /\ i + 1 \in 1 .. n
  BY TailElements
<1> HIDE DEF t, n
<1>2. ASSUME NEW i \in 1 .. n, Lacking(left, t, i) PROVE Lacking(bare, s, i + 1)
  <2>1. \A j \in 2 .. i : j - 1 \in 1 .. i - 1 /\ j - 1 \in 1 .. n - 1 /\ s[j] = t[j - 1]
    BY <1>1
  <2>2. CASE left /\ \A j \in 1 .. i - 1 : t[j] \notin Gives
    <3>1. \A j \in 2 .. i : s[j] \notin Gives
      BY <2>1, <2>2
    <3>2. CASE bare /\ Head(s) \notin Gives
      <4>1. \A j \in 1 .. (i + 1) - 1 : j = 1 \/ j \in 2 .. i
        OBVIOUS
      <4> QED
        BY <1>1, <3>1, <3>2, <4>1 DEF Lacking
    <3>3. CASE Head(s) \in Takes
      <4>1. 1 \in 1 .. (i + 1) - 1 /\ \A j \in 1 + 1 .. (i + 1) - 1 : j \in 2 .. i
        OBVIOUS
      <4> QED
        BY <1>1, <3>1, <3>3, <4>1 DEF Lacking
    <3> QED
      BY <2>2, <3>2, <3>3
  <2>3. CASE \E k \in 1 .. i - 1 : t[k] \in Takes /\ \A j \in k + 1 .. i - 1 : t[j] \notin Gives
    <3>1. PICK k \in 1 .. i - 1 : t[k] \in Takes /\ \A j \in k + 1 .. i - 1 : t[j] \notin Gives
      BY <2>3
    <3>2. k + 1 \in 1 .. (i + 1) - 1 /\ s[k + 1] \in Takes
      BY <1>1, <3>1
    <3>3. \A j \in (k + 1) + 1 .. (i + 1) - 1 : j - 1 \in k + 1 .. i - 1 /\ j \in 2 .. i
      BY <3>1
    <3>4. \A j \in (k + 1) + 1 .. (i + 1) - 1 : s[j] \notin Gives
      BY <2>1, <3>1, <3>3
    <3> QED
      BY <3>2, <3>4 DEF Lacking
  <2> QED
    BY <1>2, <2>2, <2>3 DEF Lacking
<1>3. EndsBare(left, t) => EndsBare(bare, s)
  <2>1. Len(t) + 1 = n /\ n \in 1 .. n
    BY <1>1
  <2> QED
    BY <1>2, <2>1 DEF EndsBare, n
<1>4. Starved(left, t) => Starved(bare, s)
  <2> SUFFICES ASSUME NEW i \in 1 .. n - 1, t[i] \in Beats, Lacking(left, t, i)
               PROVE  Starved(bare, s)
    BY <1>1 DEF Starved
  <2>1. i \in 1 .. n /\ i + 1 \in 1 .. n /\ s[i + 1] \in Beats
    BY <1>1
  <2> QED
    BY <1>2, <2>1 DEF Starved, n
<1>5. Head(s) \in Beats /\ bare => Starved(bare, s)
  <2>1. \A j \in 1 .. 1 - 1 : FALSE
    OBVIOUS
  <2> QED
    BY <1>1, <2>1 DEF Starved, Lacking, n
<1> QED
  BY <1>3, <1>4, <1>5 DEF t

\* A machine with a game lacks it no earlier than one without.
LEMMA LackingLess ==
    ASSUME NEW s, NEW bare, NEW left, left => bare
    PROVE  /\ EndsBare(left, s) => EndsBare(bare, s)
           /\ Starved(left, s) => Starved(bare, s)
<1>1. \A i : Lacking(left, s, i) => Lacking(bare, s, i)
  BY DEF Lacking
<1> QED
  BY <1>1 DEF EndsBare, Starved

\* Where the ROM is sent first, a client asks for it, and is not ready.
RomAsked(c) ==
    sendROM /\ c \notin saidHello =>
        ~Has(toServer[c], {"READY"}) /\ ~Has(toClient[c], Typed({"HELLO"}))

\* SRAM is sent before a reset.
ResetFollows ==
    \A i \in 1 .. Len(tasks) :
        tasks[i].kind = "SEND_SRAM" => i < Len(tasks) /\ tasks[i + 1].kind = "RESET_ALL"

\* A message that gives c the game will be sent.
Expected(c) ==
    \/ Early(c)
    \/ \E i \in 1 .. Len(tasks) : tasks[i] = Work("SYNC_CLIENT", c) \/ tasks[i].kind = "RESET_ALL"

Supplied(c) ==
    /\ ~Starved(game[c] = Foreign, toClient[c])
    /\ EndsBare(game[c] = Foreign, toClient[c]) => Expected(c)

FindInv == ResetFollows /\ \A c \in Remotes : cpc[c] # "off" => RomAsked(c) /\ Supplied(c)
FindStep == OwnStep /\ SlotsOnce /\ HostLeads /\ GamesCarried /\ FindInv

LEMMA FindTypes ==
    ASSUME FindStep
    PROVE  /\ LeadStep /\ JoinStep /\ TypeInv /\ Alone /\ OnlyJoins /\ Remotes \subseteq Clients
           /\ Host \in Clients /\ saidHello \subseteq connected
           /\ \A c \in Remotes : cpc[c] # "off" =>
                 /\ Joining(c) /\ RomFirst(c) /\ RomAsked(c) /\ Supplied(c)
                 /\ toServer[c] \in Seq(ToServerMsgs) /\ toClient[c] \in Seq(ToClientMsgs)
<1>1. TypeInv /\ Alone /\ OnlyJoins /\ NoEnds /\ JoinInv /\ Calm /\ SlotsOnce
  BY DEF FindStep, OwnStep, OwnInv, Owner, NoEnds, Has
<1>2. LeadStep /\ JoinStep
  BY <1>1 DEF FindStep, LeadStep, JoinStep
<1>3. \A c \in Remotes : cpc[c] # "off" => Joining(c) /\ RomAsked(c) /\ Supplied(c)
  BY <1>1 DEF JoinInv, Gone, FindStep, FindInv
<1>4. \A c \in Remotes : cpc[c] # "off" => RomFirst(c)
  BY <1>1 DEF FindStep, OwnStep, OwnInv, Owner, Sorted, Remotes
<1> QED
  BY <1>1, <1>2, <1>3, <1>4, LeadTypes, ServerTypes

LEMMA SuppliedKept ==
    ASSUME NEW c \in Clients, Supplied(c), toClient'[c] = toClient[c],
           game'[c] = Foreign => game[c] = Foreign, Expected(c) => Expected(c)'
    PROVE  Supplied(c)'
  BY LackingLess DEF Supplied

LEMMA SuppliedSent ==
    ASSUME TypeInv, NEW c \in Clients, Supplied(c), NEW m \in ToClientMsgs,
           toClient'[c] = Append(toClient[c], m), game'[c] = game[c],
           m \in Takes => Expected(c)', m \in Beats => ~Expected(c),
           m \notin Gives /\ Expected(c) => Expected(c)'
    PROVE  Supplied(c)'
  BY StreamTypes, LackingSent DEF Supplied

LEMMA SuppliedTaken ==
    ASSUME TypeInv, NEW c \in Clients, Supplied(c),
           toClient[c] # <<>>, toClient'[c] = Tail(toClient[c]),
           game'[c] = Foreign => (game[c] = Foreign /\ Head(toClient[c]) \notin Gives)
                                    \/ Head(toClient[c]) \in Takes,
           Expected(c) => Expected(c)'
    PROVE  Supplied(c)'
  BY StreamTypes, LackingTaken DEF Supplied

\* A step that is not about c.
LEMMA FindUntouched ==
    ASSUME NEW c \in Clients, RomAsked(c), Supplied(c),
           UNCHANGED <<toServer[c], toClient[c], game[c], tasks, sendROM>>,
           c \in saidHello' <=> c \in saidHello,
           UNCHANGED <<spc, job>> \/ (spc = "clients" /\ job' # Work("JOIN", c))
    PROVE  RomAsked(c)' /\ Supplied(c)'
<1>1. Expected(c) => Expected(c)'
  BY DEF Expected, Early
<1> QED
  BY <1>1, SuppliedKept DEF RomAsked

LEMMA FindEmulation ==
    ASSUME FindStep, NEW d \in Clients, NEW quiet, EmulationThread(d, quiet),
           UNCHANGED <<serverVars, hostVars>>
    PROVE  FindInv'
<1>1. /\ TypeInv /\ UNCHANGED <<toClient, cpc>>
      /\ \A c \in Clients \ {d} : UNCHANGED Machine(c)
  BY FindTypes, EmulationLocal
<1>2. ResetFollows' /\ UNCHANGED <<saidHello, spc, job, tasks, sendROM>>
  BY DEF FindStep, FindInv, ResetFollows, serverVars
<1> SUFFICES ASSUME NEW c \in Remotes, cpc[c] # "off" PROVE RomAsked(c)' /\ Supplied(c)'
  BY <1>1, <1>2 DEF FindInv
<1>3. c \in Clients /\ RomAsked(c) /\ Supplied(c) /\ toServer[c] \in Seq(ToServerMsgs)
  BY FindTypes
<1>4. CASE c # d
  BY <1>1, <1>2, <1>3, <1>4, FindUntouched DEF Machine
<1>5. CASE c = d
  <2>1. game'[c] = Foreign => game[c] = Foreign
    <3>1. \A e, f : At(e, f) # Foreign
      BY DEF At, Foreign, Game
    <3>2. CASE EndFrame(c)
      BY <1>1, <1>3, <3>1, <3>2, MachineTypes DEF EndFrame
    <3>3. CASE ~EndFrame(c)
      BY <1>5, <3>3 DEF EmulationThread, PushPending, PushReady, TakeBack, SyncSpeedToken,
                        SyncSpeedTimeout
    <3> QED
      BY <3>2, <3>3
  <2>2. /\ Has(toServer'[c], {"READY"}) => Has(toServer[c], {"READY"})
        /\ Has(toServer[c], {"RECEIVED_ROM_IMAGE"}) => Has(toServer'[c], {"RECEIVED_ROM_IMAGE"})
    <3>1. toServer'[c] = toServer[c] \/ toServer'[c] = Append(toServer[c], "RESUME")
      BY <1>1, <1>5, EmulationSends
    <3>2. \A A : Has(Append(toServer[c], "RESUME"), A) <=> Has(toServer[c], A) \/ "RESUME" \in A
      <4>1. "RESUME" \in ToServerMsgs
        BY DEF ToServerMsgs
      <4> QED
        BY <1>3, <4>1, StreamAppended
    <3> QED
      BY <3>1, <3>2
  <2>3. Expected(c) => Expected(c)'
    BY <1>1, <1>2, <2>2 DEF Expected, Early
  <2> QED
    BY <1>1, <1>2, <1>3, <2>1, <2>2, <2>3, SuppliedKept DEF RomAsked
<1> QED
  BY <1>4, <1>5

LEMMA FindClient ==
    ASSUME FindStep, NEW d \in Clients, ClientThread(d), UNCHANGED <<serverVars, hostVars>>
    PROVE  FindInv'
<1>1. /\ TypeInv /\ cpc[d] # "off"
      /\ \A c \in Clients \ {d} : UNCHANGED Machine(c)
  BY FindTypes, ClientLocal
<1>2. ResetFollows' /\ UNCHANGED <<saidHello, spc, job, tasks, sendROM>>
  BY DEF FindStep, FindInv, ResetFollows, serverVars
<1> SUFFICES ASSUME NEW c \in Remotes, cpc'[c] # "off" PROVE RomAsked(c)' /\ Supplied(c)'
  BY <1>2 DEF FindInv
<1>3. c \in Clients
  BY FindTypes
<1>4. CASE c # d
  <2>1. UNCHANGED <<toServer[c], toClient[c], cpc[c], game[c]>>
    BY <1>1, <1>3, <1>4 DEF Machine
  <2>2. RomAsked(c) /\ Supplied(c)
    BY <2>1, FindTypes
  <2> QED
    BY <1>2, <1>3, <2>1, <2>2, FindUntouched
<1>5. CASE c = d
  <2> DEFINE s == toServer[c]
  <2> DEFINE q == toClient[c]
  <2>1. /\ cpc[c] # "off" /\ Joining(c) /\ RomAsked(c) /\ Supplied(c)
        /\ s \in Seq(ToServerMsgs) /\ q \in Seq(ToClientMsgs)
    BY <1>1, <1>5, FindTypes
  <2>2. ~Has(q, Gameless)
    BY <1>3 DEF FindStep, GamesCarried
  <2>3. ASSUME q # <<>>
        PROVE  /\ Head(q) \in ToClientMsgs /\ Head(q) \notin Gameless
               /\ \A A : Has(q, A) <=> Head(q) \in A \/ Has(Tail(q), A)
    <3>1. \A A : Has(q, A) <=> Head(q) \in A \/ Has(Tail(q), A)
      BY <2>1, <2>3, StreamTaken
    <3> QED
      BY <2>1, <2>2, <2>3, <3>1
  <2>4. \A m \in ToServerMsgs : \A A : Has(Append(s, m), A) <=> Has(s, A) \/ m \in A
    BY <2>1, StreamAppended
  <2>5. {"READY", "WAITING_FOR_ROM_IMAGE", "RECEIVED_ROM_IMAGE", "PAUSE"} \subseteq ToServerMsgs
    BY DEF ToServerMsgs
  <2>6. CASE RecvHello(c)
    <3>1. /\ cpc[c] = "hello" /\ q # <<>> /\ toClient'[c] = Tail(q)
          /\ toServer'[c] = Append(s, IF Head(q).type = "HELLO" THEN "READY"
                                      ELSE "WAITING_FOR_ROM_IMAGE")
      BY <1>1, <1>3, <2>6, MachineTypes DEF RecvHello, SendToServer
    <3>2. c \notin saidHello /\ s = <<>> /\ Len(q) = 1
      BY <2>1, <3>1 DEF Joining
    <3>3. toClient'[c] = <<>>
      <4>1. Tail(q) \in Seq(ToClientMsgs) /\ Len(Tail(q)) = 0
        BY <2>1, <3>1, <3>2
      <4> QED
        BY <3>1, <4>1, EmptySeq
    <3>4. Supplied(c)'
      BY <1>2, <3>2, <3>3, NothingTaken DEF Supplied, Expected, Early
    <3>5. sendROM => Head(q).type # "HELLO"
      BY <2>1, <2>3, <3>1, <3>2 DEF RomAsked, Typed
    <3>6. sendROM => ~Has(toServer'[c], {"READY"})
      BY <2>4, <2>5, <3>1, <3>2, <3>5, StreamEmpty
    <3> QED
      BY <1>2, <3>3, <3>4, <3>6, StreamEmpty DEF RomAsked
  <2>7. CASE SendPause(c) \/ RecvSync(c) \/ ClientDiscard(c)
    <3>1. /\ UNCHANGED <<toClient, game>>
          /\ toServer'[c] = s \/ toServer'[c] = Append(s, "PAUSE")
      BY <1>1, <1>3, <2>7, MachineTypes
         DEF SendPause, RecvSync, ClientDiscard, SendToServer, wireVars
    <3>2. \A A : "PAUSE" \notin A => (Has(toServer'[c], A) <=> Has(s, A))
      BY <2>4, <2>5, <3>1
    <3>3. Expected(c) => Expected(c)'
      BY <1>2, <3>1, <3>2 DEF Expected, Early
    <3> QED
      BY <1>2, <1>3, <2>1, <3>1, <3>2, <3>3, SuppliedKept DEF RomAsked
  <2>8. CASE RecvHeartbeat(c)
    <3>1. /\ UNCHANGED <<toServer, game>> /\ q # <<>> /\ toClient'[c] = Tail(q)
          /\ Head(q).type = "JOYPAD"
      BY <1>1, <1>3, <2>8, MachineTypes DEF RecvHeartbeat
    <3>2. Head(q) \notin Typed({"ROM_IMAGE"}) /\ Head(q) \notin Gives
      BY <3>1 DEF Typed, Gives, Replacing
    <3>3. Expected(c) => Expected(c)'
      BY <1>2, <2>3, <3>1, <3>2 DEF Expected, Early
    <3> QED
      BY <1>1, <1>2, <1>3, <2>1, <2>3, <3>1, <3>2, <3>3, SuppliedTaken DEF RomAsked
  <2>9. CASE ReplaceGame(c) \/ ReplaceRom(c) \/ ReplaceSram(c)
    <3>1. /\ cpc[c] = "drain" /\ q # <<>> /\ toClient'[c] = Tail(q)
          /\ \/ /\ Head(q).type \in Replacing /\ game'[c] = Head(q).game
                /\ toServer'[c] = Append(s, "READY")
             \/ /\ Head(q).type = "ROM_IMAGE" /\ toServer'[c] = Append(s, "RECEIVED_ROM_IMAGE")
             \/ Head(q).type = "SRAM_DATA" /\ toServer'[c] = s
      BY <1>1, <1>3, <2>9, MachineTypes
         DEF ReplaceGame, ReplaceRom, ReplaceSram, DiscardDone, SendToServer, Replacing
    <3>2. c \in saidHello
      BY <2>1, <3>1 DEF Joining, InSession
    <3>3. game'[c] = Foreign => Head(q) \in Takes
      BY <2>3, <3>1 DEF Takes, Typed, Gameless
    <3>4. Expected(c) => Expected(c)'
      <4>1. Has(s, {"RECEIVED_ROM_IMAGE"}) => Has(toServer'[c], {"RECEIVED_ROM_IMAGE"})
        BY <2>4, <2>5, <3>1
      <4>2. Has(q, Typed({"ROM_IMAGE"})) =>
               Has(toClient'[c], Typed({"ROM_IMAGE"})) \/ Has(toServer'[c], {"RECEIVED_ROM_IMAGE"})
        <5>1. Head(q) \in Typed({"ROM_IMAGE"}) => Has(toServer'[c], {"RECEIVED_ROM_IMAGE"})
          <6>1. Head(q) \in Typed({"ROM_IMAGE"}) => Head(q).type = "ROM_IMAGE"
            BY DEF Typed
          <6>2. Head(q).type = "ROM_IMAGE" => toServer'[c] = Append(s, "RECEIVED_ROM_IMAGE")
            BY <3>1 DEF Replacing
          <6>3. Has(Append(s, "RECEIVED_ROM_IMAGE"), {"RECEIVED_ROM_IMAGE"})
            BY <2>4, <2>5
          <6> QED
            BY <6>1, <6>2, <6>3
        <5> QED
          BY <2>3, <3>1, <5>1
      <4> QED
        BY <1>2, <4>1, <4>2 DEF Expected, Early
    <3> QED
      BY <1>1, <1>2, <1>3, <2>1, <3>1, <3>2, <3>3, <3>4, SuppliedTaken DEF RomAsked
  <2> QED
    BY <1>5, <2>6, <2>7, <2>8, <2>9 DEF ClientThread
<1> QED
  BY <1>4, <1>5

LEMMA FindUsers ==
    ASSUME FindStep, Users \/ FrontEnd
    PROVE  FindInv'
<1>1. /\ TypeInv
      /\ \E d \in Clients : \/ NewConnection(d) \/ LeaveSession(d) \/ PauseGame(d)
                            \/ ResumeGame(d) \/ Unannounce(d)
  BY FindTypes, CalmUsers DEF FindStep, OwnStep
<1>2. UNCHANGED <<serverVars, game>>
  BY <1>1 DEF NewConnection, Connect, LeaveSession, Leave, PauseGame, ResumeGame, SetPaused,
              Unannounce, clientVars
<1>3. ResetFollows' /\ UNCHANGED <<saidHello, spc, job, tasks, sendROM>>
  BY <1>2 DEF FindStep, FindInv, ResetFollows, serverVars
<1> SUFFICES ASSUME NEW c \in Remotes, cpc'[c] # "off" PROVE RomAsked(c)' /\ Supplied(c)'
  BY <1>3 DEF FindInv
<1>4. c \in Clients
  BY FindTypes
<1>5. CASE NewConnection(c)
  <2>1. toServer'[c] = <<"HELLO">> /\ toClient'[c] = <<>> /\ c \notin saidHello'
    BY <1>1, <1>3, <1>4, <1>5, FindTypes, MachineTypes DEF NewConnection, Connect
  <2>2. ~Has(toServer'[c], {"READY"})
    BY <2>1 DEF Has
  <2> QED
    BY <2>1, <2>2, StreamEmpty, NothingTaken DEF RomAsked, Supplied, Expected, Early
<1>6. CASE ~NewConnection(c)
  <2>1. UNCHANGED <<toServer[c], toClient[c], cpc[c]>>
    <3>1. ASSUME NEW d \in Clients \ {c}, NewConnection(d)
          PROVE  UNCHANGED <<toServer[c], toClient[c], cpc[c]>>
      BY <1>1, <1>4, <3>1, MachineTypes DEF NewConnection, Connect
    <3>2. ASSUME NEW d \in Clients, LeaveSession(d)
          PROVE  UNCHANGED <<toServer[c], toClient[c], cpc[c]>>
      BY <1>1, <1>4, <3>2, MachineTypes DEF LeaveSession, Leave, SendToServer
    <3>3. ASSUME NEW d \in Clients, PauseGame(d) \/ ResumeGame(d) \/ Unannounce(d)
          PROVE  UNCHANGED <<toServer[c], toClient[c], cpc[c]>>
      BY <3>3 DEF PauseGame, ResumeGame, SetPaused, Unannounce, wireVars, clientVars
    <3> QED
      BY <1>1, <1>6, <3>1, <3>2, <3>3
  <2> QED
    BY <1>2, <1>3, <1>4, <2>1, FindTypes, FindUntouched
<1> QED
  BY <1>5, <1>6

\* Heartbeats are sent to those that are not expecting a game.
LEMMA FindHeartbeat ==
    ASSUME FindStep, NEW stopped, SendHeartBeat(stopped), UNCHANGED clientVars
    PROVE  FindInv'
<1> DEFINE m == Heartbeat(srvFrame + 1)
<1>1. /\ SendTo(saidHello, m) /\ spc = "clients" /\ tasks = <<>> /\ ~srvPaused
      /\ UNCHANGED <<toServer, saidHello, tasks, spc, job, sendROM, cpc, game>>
      /\ m \in ToClientMsgs /\ m.type = "JOYPAD" /\ TypeInv /\ Alone
  BY FindTypes, ServerTypes, SentTypes DEF SendHeartBeat, flags, clientVars
<1>2. \A c \in saidHello : c \in ready
  BY <1>1, ServerTypes DEF MustPause
<1>3. ResetFollows'
  BY <1>1 DEF FindStep, FindInv, ResetFollows
<1>4. m \notin Takes /\ m \notin Gives /\ \A A : "JOYPAD" \notin A => m \notin Typed(A)
  BY <1>1 DEF Takes, Gives, Typed, Replacing
<1> HIDE DEF m
<1> SUFFICES ASSUME NEW c \in Remotes, cpc[c] # "off" PROVE RomAsked(c)' /\ Supplied(c)'
  BY <1>1, <1>3 DEF FindInv
<1>5. /\ c \in Clients /\ RomAsked(c) /\ Supplied(c) /\ RomFirst(c)
      /\ toClient[c] \in Seq(ToClientMsgs)
  BY FindTypes
<1>6. CASE c \notin saidHello
  BY <1>1, <1>5, <1>6, SentTo, FindUntouched
<1>7. CASE c \in saidHello
  <2>1. toClient'[c] = Append(toClient[c], m)
    BY <1>1, <1>5, <1>7, SentTo
  <2>2. ~Expected(c)
    <3>1. \A i \in 1 .. Len(tasks) : FALSE
      BY <1>1
    <3> QED
      BY <1>1, <1>2, <1>5, <1>7, <3>1 DEF Expected, Early, RomFirst
  <2>3. Supplied(c)'
    BY <1>1, <1>4, <1>5, <2>1, <2>2, SuppliedSent
  <2> QED
    BY <1>1, <1>7, <2>3 DEF RomAsked
<1> QED
  BY <1>6, <1>7

LEMMA FindReads ==
    ASSUME FindStep, NEW d \in Clients, ServerReads(d), UNCHANGED clientVars
    PROVE  FindInv'
<1>1. /\ TypeInv /\ UNCHANGED <<tasks, cpc, game>> /\ saidHello \subseteq connected
      /\ Host \in Clients
  BY FindTypes, OthersRead DEF clientVars
<1>2. UNCHANGED sendROM /\ spc = "clients"
  BY DEF ServerReads, AcceptClient, ProcessHello, ProcessReadyFirst, ProcessReadyAgain,
         ProcessWaitingForRomImage, ProcessReceivedRomImage, ProcessPause, ShutdownClient, Receive
<1>3. ResetFollows'
  BY <1>1 DEF FindStep, FindInv, ResetFollows
<1> SUFFICES ASSUME NEW c \in Remotes, cpc[c] # "off" PROVE RomAsked(c)' /\ Supplied(c)'
  BY <1>1, <1>3 DEF FindInv
<1>4. /\ c \in Clients /\ Joining(c) /\ RomAsked(c) /\ Supplied(c)
      /\ toServer[c] \in Seq(ToServerMsgs) /\ toClient[c] \in Seq(ToClientMsgs)
  BY FindTypes
<1>5. CASE c # d
  <2>1. Work("JOIN", d) # Work("JOIN", c)
    BY <1>5 DEF Work
  <2> QED
    BY <1>1, <1>2, <1>4, <1>5, <2>1, OthersRead, FindUntouched
<1>6. \A msg : Receive(c, msg) => \A A : Has(toServer[c], A) <=> msg \in A \/ Has(toServer'[c], A)
  BY <1>1, <1>4, ReadOff
<1>7. ASSUME c = d, AcceptClient(c) PROVE RomAsked(c)' /\ Supplied(c)'
  <2>1. c \notin saidHello /\ c \notin saidHello' /\ UNCHANGED <<wireVars, spc, job>>
    BY <1>1, <1>7 DEF AcceptClient
  <2> QED
    BY <1>1, <1>2, <1>4, <2>1, FindUntouched DEF wireVars
<1>8. ASSUME c = d, ProcessHello(c) PROVE RomAsked(c)' /\ Supplied(c)'
  <2> DEFINE rom == sendROM /\ numClients > 1
  <2> DEFINE m == Hello(srvFrame, rom)
  <2>1. Receive(c, "HELLO") /\ SendTo({c}, m) /\ UNCHANGED flags
    BY <1>8 DEF ProcessHello
  <2>2. c \in connected /\ c \notin saidHello /\ c \notin saidHello'
    <3>1. c \in connected /\ Has(toServer[c], {"HELLO"})
      BY <1>1, <1>4, <1>6, <2>1, ReadOff
    <3>2. cpc[c] = "hello"
      BY <1>4, <3>1 DEF Joining, InSession, Has
    <3> QED
      BY <1>4, <2>1, <3>1, <3>2 DEF Joining, flags
  <2>3. numClients > 1
    <3>1. Host \in saidHello
      BY <1>4, <2>2 DEF FindStep, HostLeads, HostAlone, Remotes
    <3> QED
      BY <1>1, <2>2, <3>1, CountedWith
  <2>4. toClient'[c] = Append(toClient[c], m)
    BY <1>4, <2>1, SentTo
  <2>5. m \in ToClientMsgs /\ m.type \in HelloTypes
    BY <1>1, SentTypes, ServerTypes DEF TypeInv, TypeOK, ServerTypeOK
  <2>6. sendROM => m \notin Typed({"HELLO"})
    BY <2>3 DEF Hello, ToClientMsg, Typed
  <2>7. m \notin Takes /\ m \notin Beats
    BY <2>5 DEF Takes, Beats, Typed, HelloTypes
  <2> HIDE DEF m
  <2>8. Supplied(c)'
    BY <1>1, <1>4, <2>2, <2>4, <2>5, <2>7, SuppliedSent DEF Expected, Early
  <2>9. sendROM => ~Has(toClient'[c], Typed({"HELLO"}))
    BY <1>4, <2>2, <2>4, <2>5, <2>6, AddedOnly DEF RomAsked
  <2>10. sendROM => ~Has(toServer'[c], {"READY"})
    BY <1>4, <1>6, <2>1, <2>2 DEF RomAsked
  <2> QED
    BY <1>2, <2>8, <2>9, <2>10 DEF RomAsked
<1>9. ASSUME c = d, ProcessReadyFirst(c) \/ ProcessReceivedRomImage(c)
      PROVE  RomAsked(c)' /\ Supplied(c)'
  <2>1. c \in saidHello' /\ UNCHANGED toClient
    BY <1>9 DEF ProcessReadyFirst, ProcessReceivedRomImage, Joins
  <2>2. spc' = "wait" /\ job' = Work("JOIN", c)
    <3>1. CASE ProcessReceivedRomImage(c)
      BY <3>1 DEF ProcessReceivedRomImage
    <3>2. CASE ProcessReadyFirst(c)
      <4>1. /\ Receive(c, "READY") /\ c \notin saidHello
            /\ numClients > 1 /\ ~sendROM => spc' = "wait" /\ job' = Work("JOIN", c)
        BY <3>2 DEF ProcessReadyFirst
      <4>2. c \in connected /\ Has(toServer[c], {"READY"})
        BY <1>1, <1>4, <1>6, <4>1, ReadOff
      <4>3. ~sendROM
        BY <1>4, <4>1, <4>2 DEF RomAsked
      <4>4. Host \in saidHello
        BY <4>2 DEF FindStep, HostLeads, HostAlone, Remotes
      <4> QED
        BY <1>1, <4>1, <4>2, <4>3, <4>4, CountedWith
    <3> QED
      BY <1>9, <3>1, <3>2
  <2> QED
    BY <1>1, <1>4, <2>1, <2>2, SuppliedKept DEF RomAsked, Expected, Early
<1>10. ASSUME c = d, ProcessReadyAgain(c) PROVE RomAsked(c)' /\ Supplied(c)'
  <2>1. /\ Receive(c, "READY") /\ c \in saidHello /\ c \in saidHello'
        /\ UNCHANGED <<toClient, spc, job>>
    BY <1>10 DEF ProcessReadyAgain, Joins
  <2>2. Expected(c) => Expected(c)'
    BY <1>1, <1>6, <2>1 DEF Expected, Early
  <2> QED
    BY <1>1, <1>4, <2>1, <2>2, SuppliedKept DEF RomAsked
<1>11. ASSUME c = d, ProcessWaitingForRomImage(c) PROVE RomAsked(c)' /\ Supplied(c)'
  <2>1. c \in saidHello' /\ toClient'[c] = Append(toClient[c], RomImage)
    BY <1>4, <1>11, SentTo DEF ProcessWaitingForRomImage, Joins
  <2>2. RomImage \in ToClientMsgs /\ RomImage \in Typed({"ROM_IMAGE"}) /\ RomImage \notin Beats
    BY SentTypes DEF Typed, Beats
  <2>3. Expected(c)'
    <3>1. Has(toClient'[c], Typed({"ROM_IMAGE"}))
      BY <1>1, <1>4, <2>1, <2>2, SentLast
    <3> QED
      BY <3>1 DEF Expected, Early
  <2> QED
    BY <1>1, <1>4, <2>1, <2>2, <2>3, SuppliedSent DEF RomAsked
<1>12. ASSUME c = d, ProcessPause(c) PROVE RomAsked(c)' /\ Supplied(c)'
  <2>1. PICK msg \in {"PAUSE", "RESUME"} :
           Receive(c, msg) /\ UNCHANGED <<toClient, saidHello, spc, job>>
    BY <1>12 DEF ProcessPause
  <2>2. \A A : msg \notin A => (Has(toServer'[c], A) <=> Has(toServer[c], A))
    BY <1>6, <2>1
  <2>3. Expected(c) => Expected(c)'
    BY <1>1, <2>1, <2>2 DEF Expected, Early
  <2> QED
    BY <1>1, <1>2, <1>4, <2>1, <2>2, <2>3, SuppliedKept DEF RomAsked
<1>13. ASSUME c = d, ShutdownClient(c) PROVE FALSE
  <2>1. Receive(c, "EOF")
    BY <1>13 DEF ShutdownClient
  <2>2. Has(toServer[c], {"EOF"})
    BY <1>6, <2>1
  <2> QED
    BY <1>4, <2>2 DEF FindStep, OwnStep, OwnInv, Owner
<1> QED
  BY <1>5, <1>7, <1>8, <1>9, <1>10, <1>11, <1>12, <1>13 DEF ServerReads

\* The queue after a step of the tasks: one more join, or one task less.
LEMMA ResetsAfter ==
    ASSUME FindStep, ServerRuns
    PROVE  /\ ResetFollows'
           /\ \/ tasks' = tasks /\ StartTask
              \/ /\ FinishJoin(HostDone) /\ \A i \in 1 .. Len(tasks) :
                       i \in 1 .. Len(tasks') /\ tasks'[i] = tasks[i]
                 /\ \E i \in 1 .. Len(tasks') :
                       tasks'[i] = Work("SYNC_CLIENT", job.c) \/ tasks'[i].kind = "RESET_ALL"
              \/ /\ spc = "wait" /\ job.kind \in JoinKinds /\ job = tasks[1] /\ spc' # "wait"
                 /\ 1 \in 1 .. Len(tasks)
                 /\ \A i \in 2 .. Len(tasks) : i - 1 \in 1 .. Len(tasks') /\ tasks'[i - 1] = tasks[i]
                 /\ \/ FinishSyncClient(HostDone, HostGame) \/ FinishReset(HostDone)
                    \/ FinishSendSram(HostDone)
<1> DEFINE n == Len(tasks)
<1>1. /\ TypeInv /\ Alone /\ OnlyJoins /\ tasks \in Seq(Tasks) /\ job \in Jobs /\ n \in Nat
      /\ ResetFollows
  BY FindTypes, ServerTypes DEF FindStep, FindInv
<1>2. CASE StartTask
  BY <1>1, <1>2 DEF StartTask, ResetFollows
<1>3. CASE FinishJoin(HostDone)
  <2>1. tasks' = tasks \o JoinTasks(job.c)
    BY <1>3 DEF FinishJoin, AddTasks
  <2>2. /\ Work("SEND_SRAM", job.c) \in Tasks /\ Work("RESET_ALL", Nobody) \in Tasks
        /\ Work("SYNC_CLIENT", job.c) \in Tasks
    BY <1>1, WireAssumption DEF Work, Tasks, TaskKinds, Jobs, Nobody
  <2>3. CASE syncByReset
    <3> DEFINE a == Work("SEND_SRAM", job.c)
    <3> DEFINE b == Work("RESET_ALL", Nobody)
    <3>1. tasks' = tasks \o <<a, b>> /\ b.kind = "RESET_ALL" /\ a \in Tasks /\ b \in Tasks
      BY <2>1, <2>2, <2>3 DEF JoinTasks, Work
    <3> HIDE DEF a, b
    <3>2. /\ Len(tasks') = n + 2 /\ tasks'[n + 2] = b
          /\ \A i \in 1 .. n : tasks'[i] = tasks[i]
      BY <1>1, <3>1
    <3>3. /\ n + 2 \in 1 .. n + 2 /\ \A i \in 1 .. n : i \in 1 .. n + 2
          /\ \A i \in 1 .. n + 2 : i \in 1 .. n \/ i = n + 1 \/ i = n + 2
      BY <1>1
    <3>4. ResetFollows'
      <4> SUFFICES ASSUME NEW i \in 1 .. n + 2, tasks'[i].kind = "SEND_SRAM"
                   PROVE  i < n + 2 /\ tasks'[i + 1].kind = "RESET_ALL"
        BY <3>2 DEF ResetFollows
      <4>1. CASE i \in 1 .. n
        <5>1. i < n /\ tasks[i + 1].kind = "RESET_ALL" /\ i + 1 \in 1 .. n
          BY <1>1, <3>2, <4>1 DEF ResetFollows
        <5> QED
          BY <1>1, <3>2, <5>1
      <4>2. CASE i = n + 1
        <5>1. i + 1 = n + 2 /\ i < n + 2
          BY <1>1, <4>2
        <5> QED
          BY <3>1, <3>2, <5>1
      <4>3. i # n + 2
        BY <3>1, <3>2
      <4> QED
        BY <3>3, <4>1, <4>2, <4>3
    <3> QED
      BY <1>3, <3>1, <3>2, <3>3, <3>4
  <2>4. CASE ~syncByReset
    <3> DEFINE a == Work("SYNC_CLIENT", job.c)
    <3>1. tasks' = tasks \o <<a>> /\ a.kind = "SYNC_CLIENT" /\ a \in Tasks
      BY <2>1, <2>2, <2>4 DEF JoinTasks, Work
    <3>2. \A i \in 1 .. n : tasks[i].kind # "SEND_SRAM"
      BY <1>1, <2>4 DEF OnlyJoins, JoinKinds
    <3>5. a = Work("SYNC_CLIENT", job.c)
      OBVIOUS
    <3> HIDE DEF a
    <3>3. /\ Len(tasks') = n + 1 /\ tasks'[n + 1] = a
          /\ \A i \in 1 .. n : tasks'[i] = tasks[i]
      BY <1>1, <3>1
    <3>4. /\ n + 1 \in 1 .. n + 1 /\ \A i \in 1 .. n : i \in 1 .. n + 1
          /\ \A i \in 1 .. n + 1 : i \in 1 .. n \/ i = n + 1
      BY <1>1
    <3>6. ResetFollows'
      BY <3>1, <3>2, <3>3, <3>4 DEF ResetFollows
    <3> QED
      BY <1>3, <3>3, <3>4, <3>5, <3>6
  <2> QED
    BY <2>3, <2>4
<1>4. CASE TaskDone /\ spc = "wait" /\ job.kind # "JOIN"
  <2>1. /\ tasks # <<>> /\ tasks' = Tail(tasks) /\ spc' # "wait" /\ job.kind \in JoinKinds
        /\ job = tasks[1] /\ 1 \in 1 .. n
    BY <1>1, <1>4, JoinJob DEF TaskDone
  <2>2. /\ Len(tasks') = n - 1 /\ n \in Nat \ {0}
        /\ \A i \in 1 .. n - 1 : tasks'[i] = tasks[i + 1] /\ i + 1 \in 1 .. n
    BY <1>1, <2>1, TailElements
  <2> HIDE DEF n
  <2>3. \A i \in 2 .. n : i - 1 \in 1 .. n - 1 /\ (i - 1) + 1 = i
    BY <2>2
  <2>4. \A i \in 2 .. n : i - 1 \in 1 .. Len(tasks') /\ tasks'[i - 1] = tasks[i]
    BY <2>2, <2>3
  <2>5. ResetFollows'
    <3> SUFFICES ASSUME NEW i \in 1 .. n - 1, tasks[i + 1].kind = "SEND_SRAM"
                 PROVE  i < n - 1 /\ tasks'[i + 1].kind = "RESET_ALL"
      BY <2>2 DEF ResetFollows
    <3>1. i + 1 < n /\ tasks[(i + 1) + 1].kind = "RESET_ALL"
      BY <1>1, <2>2 DEF ResetFollows, n
    <3>2. i + 1 \in 1 .. n - 1 /\ i < n - 1
      BY <2>2, <3>1
    <3> QED
      BY <2>2, <3>1, <3>2
  <2>6. ~StartTask /\ ~FinishJoin(HostDone)
    BY <1>4 DEF StartTask, FinishJoin, Waited
  <2>7. ~FinishSyncAll(HostDone, HostGame) /\ ~FinishSendRomImage(HostDone)
    BY <2>1 DEF FinishSyncAll, FinishSendRomImage, Waited, JoinKinds
  <2> QED
    BY <1>4, <2>1, <2>4, <2>5, <2>6, <2>7 DEF ServerRuns, n
<1>5. ~FinishSyncAll(HostDone, HostGame) /\ ~FinishSendRomImage(HostDone)
  BY <1>1, JoinJob DEF FinishSyncAll, FinishSendRomImage, Waited, JoinKinds
<1>6. FinishSyncClient(HostDone, HostGame) \/ FinishReset(HostDone) \/ FinishSendSram(HostDone)
         => TaskDone /\ spc = "wait" /\ job.kind # "JOIN"
  BY DEF FinishSyncClient, FinishReset, FinishSendSram, Waited
<1> QED
  BY <1>2, <1>3, <1>4, <1>5, <1>6 DEF ServerRuns

\* A task that is given up for c has sent it the game, or another will.
LEMMA FindRuns ==
    ASSUME FindStep, ServerRuns, UNCHANGED clientVars
    PROVE  FindInv'
<1>1. /\ TypeInv /\ LeadStep /\ JoinStep /\ job \in Jobs /\ saidHello \subseteq connected
      /\ UNCHANGED <<cpc, game>> /\ \A i \in 1 .. Len(tasks) : tasks[i] \in Tasks
  BY FindTypes, ServerTypes DEF clientVars
<1> SUFFICES ASSUME NEW c \in Remotes, cpc[c] # "off" PROVE RomAsked(c)' /\ Supplied(c)'
  BY <1>1, ResetsAfter DEF FindInv
<1>2. /\ c \in Clients /\ Joining(c) /\ RomAsked(c) /\ Supplied(c)
      /\ toClient[c] \in Seq(ToClientMsgs)
  BY FindTypes
<1>3. UNCHANGED <<toServer, saidHello, sendROM>>
  <2>1. UNCHANGED sendROM
    BY DEF ServerRuns, StartTask, FinishJoin, FinishSyncClient, FinishSyncAll, FinishReset,
           FinishSendSram, FinishSendRomImage
  <2> QED
    BY <1>1, <1>2, <2>1, RunsLocal
<1>4. \/ toClient'[c] = toClient[c]
      \/ \E m \in ToClientMsgs :
           toClient'[c] = Append(toClient[c], m) /\ m.type \in {"RESET", "FREEZE_FILE", "SRAM_DATA"}
  BY <1>1, <1>2, RunsGive
<1>5. RomAsked(c)'
  <2>1. \A m \in ToClientMsgs :
           m.type \in {"RESET", "FREEZE_FILE", "SRAM_DATA"} => m \notin Typed({"HELLO"})
    BY DEF Typed
  <2>2. ~Has(toClient[c], Typed({"HELLO"})) => ~Has(toClient'[c], Typed({"HELLO"}))
    BY <1>2, <1>4, <2>1, AddedOnly
  <2> QED
    BY <1>2, <1>3, <2>2 DEF RomAsked
<1>6. Has(toClient[c], Typed({"ROM_IMAGE"})) => Has(toClient'[c], Typed({"ROM_IMAGE"}))
  BY <1>1, <1>2, <1>4, SentLast
<1>7. CASE StartTask
  <2>1. tasks' = tasks /\ toClient' = toClient /\ spc # "wait"
    BY <1>7 DEF StartTask, wireVars
  <2>2. Expected(c) => Expected(c)'
    BY <1>3, <2>1 DEF Expected, Early
  <2> QED
    BY <1>1, <1>2, <1>5, <2>1, <2>2, SuppliedKept
<1>8. CASE FinishJoin(HostDone)
  <2>1. toClient' = toClient /\ spc = "wait"
    BY <1>8 DEF FinishJoin, Waited, wireVars
  <2>2. /\ \A i \in 1 .. Len(tasks) : i \in 1 .. Len(tasks') /\ tasks'[i] = tasks[i]
        /\ \E i \in 1 .. Len(tasks') :
              tasks'[i] = Work("SYNC_CLIENT", job.c) \/ tasks'[i].kind = "RESET_ALL"
    <3>1. ~StartTask /\ ~(job.kind \in JoinKinds)
      BY <1>8 DEF FinishJoin, Waited, StartTask, JoinKinds
    <3> QED
      BY <3>1, ResetsAfter
  <2>3. job = Work("JOIN", c) => Expected(c)'
    BY <2>2 DEF Expected, Work
  <2>4. Expected(c) => Expected(c)'
    BY <1>3, <2>1, <2>2, <2>3 DEF Expected, Early
  <2> QED
    BY <1>1, <1>2, <1>5, <2>1, <2>4, SuppliedKept
<1>9. ASSUME FinishSyncClient(HostDone, HostGame) \/ FinishReset(HostDone) \/ FinishSendSram(HostDone)
      PROVE  Supplied(c)'
  <2>1. /\ spc = "wait" /\ job.kind \in JoinKinds /\ job = tasks[1] /\ 1 \in 1 .. Len(tasks)
        /\ spc' # "wait"
        /\ \A i \in 2 .. Len(tasks) : i - 1 \in 1 .. Len(tasks') /\ tasks'[i - 1] = tasks[i]
    <3>1. ~StartTask /\ ~FinishJoin(HostDone)
      BY <1>9 DEF FinishSyncClient, FinishReset, FinishSendSram, StartTask, FinishJoin, Waited
    <3> QED
      BY <3>1, ResetsAfter
  <2>2. \A i \in 1 .. Len(tasks) : i = 1 \/ i \in 2 .. Len(tasks)
    OBVIOUS
  <2>3. Expected(c) => \/ Expected(c)' \/ job = Work("SYNC_CLIENT", c)
                       \/ job.kind = "RESET_ALL" \/ job = Work("SEND_SRAM", c)
    <3>1. \A i \in 1 .. Len(tasks) :
             tasks[i] = job \/ \E j \in 1 .. Len(tasks') : tasks'[j] = tasks[i]
      BY <2>1, <2>2
    <3>2. ~(spc = "wait" /\ job = Work("JOIN", c))
      BY <2>1 DEF Work, JoinKinds
    <3> QED
      BY <1>3, <1>6, <3>1, <3>2 DEF Expected, Early
  <2>4. CASE FinishSyncClient(HostDone, HostGame)
    <3> DEFINE m == FreezeFile(srvFrame, HostGame)
    <3>1. job.kind = "SYNC_CLIENT" /\ SendTo({job.c} \cap connected, m)
      BY <2>4 DEF FinishSyncClient, Waited
    <3>2. m \in ToClientMsgs /\ m \in Gives
      <4>1. HostGame \in Games /\ srvFrame \in Nat
        BY <1>1, GameTypes, MachineTypes DEF HostGame
      <4> QED
        BY <4>1, SentTypes DEF Gives, Typed, Replacing
    <3>3. m \notin Takes /\ m \notin Beats
      BY <3>2 DEF Gives, Takes, Beats, Typed, Replacing
    <3> HIDE DEF m
    <3>4. CASE c = job.c
      <4>1. c \in connected
        BY <1>1, <1>2, <2>1, <3>1, <3>4 DEF Joining, ForNobody
      <4>2. toClient'[c] = Append(toClient[c], m)
        BY <1>2, <3>1, <3>4, <4>1, SentTo
      <4> QED
        BY <1>1, <1>2, <3>2, <3>3, <4>2, SuppliedSent
    <3>5. CASE c # job.c
      <4>1. toClient'[c] = toClient[c]
        BY <1>2, <3>1, <3>5, SentTo
      <4>2. Expected(c) => Expected(c)'
        BY <2>3, <3>1, <3>5 DEF Work
      <4> QED
        BY <1>1, <1>2, <4>1, <4>2, SuppliedKept
    <3> QED
      BY <3>4, <3>5
  <2>5. CASE FinishReset(HostDone)
    <3> DEFINE m == Reset(srvFrame, At(epoch', srvFrame))
    <3>1. epoch' = epoch + 1 /\ SendTo(saidHello, m)
      BY <2>5 DEF FinishReset
    <3>2. m \in ToClientMsgs /\ m \in Gives
      <4>1. srvFrame \in Nat /\ epoch' \in Nat /\ At(epoch', srvFrame) \in Games
        BY <1>1, <3>1, GameTypes, MachineTypes
      <4> QED
        BY <4>1, SentTypes DEF Gives, Typed, Replacing
    <3>3. m \notin Takes /\ m \notin Beats
      BY <3>2 DEF Gives, Takes, Beats, Typed, Replacing
    <3> HIDE DEF m
    <3>4. CASE c \in saidHello
      <4>1. toClient'[c] = Append(toClient[c], m)
        BY <1>2, <3>1, <3>4, SentTo
      <4> QED
        BY <1>1, <1>2, <3>2, <3>3, <4>1, SuppliedSent
    <3>5. CASE c \notin saidHello
      <4>1. toClient'[c] = toClient[c] /\ Expected(c)'
        BY <1>2, <1>3, <3>1, <3>5, SentTo DEF Expected, Early
      <4> QED
        BY <1>1, <1>2, <4>1, SuppliedKept
    <3> QED
      BY <3>4, <3>5
  <2>6. CASE FinishSendSram(HostDone)
    <3>1. job.kind = "SEND_SRAM" /\ SendTo({job.c} \cap connected, SramData)
      BY <2>1, <2>6 DEF FinishSendSram, Waited, JoinKinds
    <3>2. Expected(c)'
      <4>1. 1 < Len(tasks) /\ tasks[1 + 1].kind = "RESET_ALL"
        BY <2>1, <3>1 DEF FindStep, FindInv, ResetFollows
      <4>2. 2 \in 2 .. Len(tasks) /\ 2 - 1 = 1
        BY <4>1
      <4>3. 1 \in 1 .. Len(tasks') /\ tasks'[1].kind = "RESET_ALL"
        BY <2>1, <4>1, <4>2
      <4> QED
        BY <4>3 DEF Expected
    <3>3. SramData \in ToClientMsgs /\ SramData \notin Beats
      BY SentTypes DEF Beats, Typed
    <3>4. toClient'[c] = toClient[c] \/ toClient'[c] = Append(toClient[c], SramData)
      BY <1>2, <3>1, SentTo
    <3> QED
      BY <1>1, <1>2, <3>2, <3>3, <3>4, SuppliedKept, SuppliedSent
  <2> QED
    BY <1>9, <2>4, <2>5, <2>6
<1>10. ~FinishSyncAll(HostDone, HostGame) /\ ~FinishSendRomImage(HostDone)
  BY <1>1, JoinJob DEF FinishSyncAll, FinishSendRomImage, Waited, JoinKinds, JoinStep
<1> QED
  BY <1>5, <1>7, <1>8, <1>9, <1>10 DEF ServerRuns

LEMMA FindNext ==
    ASSUME FindStep, [Next]_vars
    PROVE  FindStep'
<1>1. FindInv'
  <2>1. CASE ServerStep
    BY <2>1, ServerCases, FindHeartbeat, FindReads, FindRuns
  <2>2. CASE UNCHANGED vars
    <3>1. UNCHANGED <<toServer, toClient, cpc, game, saidHello, spc, job, tasks, sendROM>>
      BY <2>2 DEF vars, wireVars, clientVars, serverVars
    <3>2. ResetFollows'
      BY <3>1 DEF FindStep, FindInv, ResetFollows
    <3> QED
      BY <3>1, <3>2, FindTypes, FindUntouched DEF FindInv
  <2>3. ASSUME NEW d \in Clients, EmulationStep(d) PROVE FindInv'
    BY <2>3, FindEmulation DEF EmulationStep
  <2>4. ASSUME NEW d \in Clients, ClientStep(d) PROVE FindInv'
    BY <2>4, FindClient DEF ClientStep
  <2> QED
    BY <2>1, <2>2, <2>3, <2>4, FindUsers DEF Next
<1>2. HostLeads' /\ GamesCarried'
  BY FindTypes, LeadNext
<1> QED
  BY <1>1, <1>2, OwnStepNext DEF FindStep, SlotsOnce

\* A client takes heartbeats only once it has the session's game (server.cpp,
\* S9xNPProcessClient and S9xNPServerLoop): the server sends none to a client
\* that lacks the game, or will when it has read what is under way to it,
\* because what brings the game is queued, or expected, until it is sent.
THEOREM HeartbeatFindsGameInv ==
    Calm /\ Margin /\ SlotsOnce => (Spec => []HeartbeatFindsGame)
<1> SUFFICES ASSUME Calm, Margin, SlotsOnce PROVE Spec => []HeartbeatFindsGame
  OBVIOUS
<1>1. Init => FindStep
  <2> SUFFICES ASSUME Init PROVE FindStep
    OBVIOUS
  <2>1. OwnStep /\ HostLeads /\ GamesCarried
    BY TypeInit, AloneInit, FarInit, OwnInit, JoinInit, LeadInit DEF OwnStep
  <2>2. tasks = <<>> /\ cpc = [c \in Clients |-> "off"] /\ Len(tasks) = 0
    BY DEF Init, ClientInit, ServerInit
  <2>3. FindInv
    BY <2>2 DEF FindInv, ResetFollows, Remotes
  <2> QED
    BY <2>1, <2>3 DEF FindStep
<1>2. FindStep /\ [Next]_vars => FindStep'
  BY FindNext
<1>3. FindStep => HeartbeatFindsGame
  <2> SUFFICES ASSUME FindStep, NEW c \in Clients, cpc[c] = "loop", toClient[c] # <<>>,
                      Head(toClient[c]).type = "JOYPAD"
               PROVE  game[c] # Foreign
    BY DEF HeartbeatFindsGame
  <2>1. CASE c = Host
    BY <2>1 DEF FindStep, HostLeads, InSession
  <2>2. CASE c # Host
    <3>1. c \in Remotes /\ cpc[c] # "off"
      BY <2>2 DEF Remotes
    <3>2. Supplied(c) /\ toClient[c] \in Seq(ToClientMsgs)
      BY <3>1, FindTypes
    <3>3. Head(toClient[c]) \in Beats
      BY <3>2 DEF Beats, Typed
    <3>4. Head(toClient[c]) \in Beats /\ game[c] = Foreign
             => Starved(game[c] = Foreign, toClient[c])
      BY <3>2, LackingTaken
    <3> QED
      BY <3>2, <3>3, <3>4 DEF Supplied
  <2> QED
    BY <2>1, <2>2
<1> QED
  BY <1>1, <1>2, <1>3, PTL DEF Spec
-----------------------------------------------------------------------------
(***************************************************************************)
(* Joins by freeze file.  Of all that is done to give a machine its game   *)
(* only one thing is pending at a time: its request is under way, or is    *)
(* being carried out, or a message that replaces the game is under way.    *)
(* Until that one is answered the machine is not ready, and nobody is sent *)
(* a heartbeat.  (A join by reset sends games to everybody, also to those  *)
(* that are still being sent one for the join before.)                     *)
(***************************************************************************)
Replies  == {"READY", "WAITING_FOR_ROM_IMAGE", "RECEIVED_ROM_IMAGE"}
Syncs    == Typed(SyncTypes)
Fetch(c) == {Work("SYNC_CLIENT", c)}

Awaits(c) == spc = "wait" /\ job = Work("JOIN", c)
Wanted(c) == Awaits(c) \/ Has(tasks, Fetch(c))

Errand(c) ==
    /\ ~After(toServer[c], Replies, Replies) /\ ~After(toClient[c], Syncs, Syncs)
    /\ ~After(tasks, Fetch(c), Fetch(c)) /\ ~(Awaits(c) /\ Has(tasks, Fetch(c)))
    /\ Has(toServer[c], Replies) => ~Has(toClient[c], Syncs) /\ ~Wanted(c)
    /\ Has(toClient[c], Syncs) => ~Wanted(c) /\ c \notin ready
    /\ ~After(toClient[c], Syncs, Beats)

ErrandInv == ~syncByReset => \A c \in Clients : Errand(c)
ErrandStep == LeadStep /\ ErrandInv

\* Tasks other than those of joins, and the end of a stream that is read on,
\* do not appear.
LEMMA CalmNext ==
    ASSUME JoinStep, [Next]_vars
    PROVE  OnlyJoins' /\ NoEnds'
<1>1. /\ TypeInv /\ Calm /\ Alone /\ OnlyJoins /\ NoEnds
      /\ \A c \in Clients : toServer[c] \in Seq(ToServerMsgs)
  BY StreamTypes DEF JoinStep
<1>2. ASSUME NEW c \in Clients, NEW m, m # "EOF", m \in ToServerMsgs, cpc[c] # "off",
             toServer'[c] = Append(toServer[c], m)
      PROVE  \A i \in 1 .. Len(toServer'[c]) : toServer'[c][i] # "EOF"
  <2>1. ~Has(toServer[c], {"EOF"})
    BY <1>1, <1>2 DEF NoEnds, Has
  <2>2. ~Has(toServer'[c], {"EOF"})
    BY <1>1, <1>2, <2>1, AddedOnly
  <2> QED
    BY <2>2 DEF Has
<1>3. {"HELLO", "READY", "WAITING_FOR_ROM_IMAGE", "RECEIVED_ROM_IMAGE", "PAUSE", "RESUME"}
         \subseteq ToServerMsgs
  BY DEF ToServerMsgs
<1>4. ASSUME NEW c \in Clients, toServer'[c] = toServer[c], cpc'[c] = cpc[c], cpc'[c] # "off"
      PROVE  \A i \in 1 .. Len(toServer'[c]) : toServer'[c][i] # "EOF"
  BY <1>1, <1>4 DEF NoEnds
<1>5. ASSUME NEW d \in Clients, EmulationStep(d) PROVE OnlyJoins' /\ NoEnds'
  <2>1. PICK quiet : EmulationThread(d, quiet) /\ UNCHANGED <<serverVars, hostVars>>
    BY <1>5 DEF EmulationStep
  <2>2. /\ UNCHANGED <<toClient, cpc>> /\ InSession(d)
        /\ \A c \in Clients \ {d} : UNCHANGED Machine(c)
    BY <1>1, <2>1, EmulationLocal
  <2>3. pc' \in [Clients -> {"top", "frame", "probe", "wait", "drain"}] /\ pc'[d] # "drain"
    <3> USE <1>1, MachineTypes
    <3>1. CASE PushPending(d) \/ PushReady(d)
      BY <3>1 DEF PushPending, PushReady
    <3>2. CASE EndFrame(d)
      BY <3>2 DEF EndFrame
    <3>3. CASE TakeBack(d)
      BY <3>3 DEF TakeBack
    <3>4. CASE SyncSpeedToken(d) \/ SyncSpeedTimeout(d, quiet)
      BY <3>4 DEF SyncSpeedToken, SyncSpeedTimeout
    <3> QED
      BY <2>1, <3>1, <3>2, <3>3, <3>4 DEF EmulationThread
  <2>4. \A c \in Clients \ {d} : pc'[c] = pc[c] /\ toServer'[c] = toServer[c]
    BY <2>2 DEF Machine
  <2>5. OnlyJoins'
    BY <1>1, <2>1, <2>3, <2>4 DEF OnlyJoins, serverVars, hostVars, JoinKinds
  <2>6. toServer'[d] = toServer[d] \/ toServer'[d] = Append(toServer[d], "RESUME")
    BY <1>1, <2>1, EmulationSends
  <2> QED
    BY <1>2, <1>3, <1>4, <2>2, <2>4, <2>5, <2>6 DEF NoEnds
<1>6. ASSUME NEW d \in Clients, ClientStep(d) PROVE OnlyJoins' /\ NoEnds'
  <2>1. ClientThread(d) /\ UNCHANGED <<serverVars, hostVars>>
    BY <1>6 DEF ClientStep
  <2>2. /\ cpc[d] # "off" /\ pc'[d] \in {pc[d], "top"}
        /\ \A c \in Clients \ {d} : UNCHANGED Machine(c)
    BY <1>1, <2>1, ClientLocal
  <2>3. \A c \in Clients \ {d} : /\ pc'[c] = pc[c] /\ toServer'[c] = toServer[c]
                                 /\ cpc'[c] = cpc[c]
    BY <2>2 DEF Machine
  <2>4. OnlyJoins'
    BY <1>1, <2>1, <2>2, <2>3 DEF OnlyJoins, serverVars, hostVars, JoinKinds
  <2>5. \/ toServer'[d] = toServer[d] \/ cpc'[d] = "off"
        \/ \E m \in {"READY", "PAUSE", "WAITING_FOR_ROM_IMAGE", "RECEIVED_ROM_IMAGE"} :
              toServer'[d] = Append(toServer[d], m)
    BY <1>1, <2>1, ClientLocal
  <2>6. toServer'[d] = toServer[d] => \A i \in 1 .. Len(toServer'[d]) : toServer'[d][i] # "EOF"
    BY <1>1, <2>2 DEF NoEnds
  <2> QED
    BY <1>2, <1>3, <1>4, <2>2, <2>3, <2>4, <2>5, <2>6 DEF NoEnds
<1>7. ASSUME Users \/ FrontEnd PROVE OnlyJoins' /\ NoEnds'
  <2>1. PICK d \in Clients : \/ NewConnection(d) \/ LeaveSession(d) \/ PauseGame(d)
                             \/ ResumeGame(d) \/ Unannounce(d)
    BY <1>1, <1>7, CalmUsers
  <2>2. UNCHANGED <<serverVars, uiTask, pc>>
    BY <2>1 DEF NewConnection, Connect, LeaveSession, Leave, PauseGame, ResumeGame, SetPaused,
                Unannounce, clientVars, hostVars
  <2>3. OnlyJoins'
    BY <1>1, <2>2 DEF OnlyJoins, serverVars, JoinKinds
  <2>4. \A c \in Clients \ {d} : toServer'[c] = toServer[c] /\ cpc'[c] = cpc[c]
    BY <2>1, MachineTypes, <1>1
       DEF NewConnection, Connect, LeaveSession, Leave, PauseGame, ResumeGame, SetPaused,
           Unannounce, SendToServer, wireVars, clientVars
  <2>5. CASE NewConnection(d)
    <3>1. toServer'[d] = <<"HELLO">>
      BY <1>1, <2>5, MachineTypes DEF NewConnection, Connect
    <3> QED
      BY <1>4, <2>3, <2>4, <3>1 DEF NoEnds
  <2>6. CASE LeaveSession(d)
    <3>1. cpc'[d] = "off"
      BY <1>1, <2>6, MachineTypes DEF LeaveSession, Leave
    <3> QED
      BY <1>4, <2>3, <2>4, <3>1 DEF NoEnds
  <2>7. CASE PauseGame(d) \/ ResumeGame(d) \/ Unannounce(d)
    <3>1. UNCHANGED <<toServer, cpc>>
      BY <2>7 DEF PauseGame, ResumeGame, SetPaused, Unannounce, wireVars, clientVars
    <3> QED
      BY <1>4, <2>3, <3>1 DEF NoEnds
  <2> QED
    BY <2>1, <2>5, <2>6, <2>7
<1>8. ASSUME ServerStep PROVE OnlyJoins' /\ NoEnds'
  <2>1. UNCHANGED <<clientVars, hostVars>>
    BY <1>8, ServerCases
  <2>2. ASSUME NEW stopped, SendHeartBeat(stopped) PROVE OnlyJoins' /\ NoEnds'
    <3>1. UNCHANGED <<toServer, tasks, syncByReset>>
      BY <2>2 DEF SendHeartBeat
    <3> QED
      BY <1>1, <2>1, <3>1 DEF OnlyJoins, NoEnds, JoinKinds, clientVars, hostVars
  <2>3. ASSUME NEW d \in Clients, ServerReads(d) PROVE OnlyJoins' /\ NoEnds'
    <3>1. /\ UNCHANGED <<tasks, syncByReset>>
          /\ \A c \in Clients \ {d} : toServer'[c] = toServer[c]
      BY <1>1, <2>3, OthersRead
    <3>2. toServer'[d] = toServer[d] \/ (toServer[d] # <<>> /\ toServer'[d] = Tail(toServer[d]))
      BY <1>1, <2>3, ReadOff
         DEF ServerReads, AcceptClient, ProcessHello, ProcessReadyFirst, ProcessReadyAgain,
             ProcessWaitingForRomImage, ProcessReceivedRomImage, ProcessPause, ShutdownClient,
             wireVars
    <3>3. Has(toServer'[d], {"EOF"}) => Has(toServer[d], {"EOF"})
      BY <1>1, <3>2, TakenOnly
    <3>4. NoEnds'
      BY <1>1, <2>1, <3>1, <3>3 DEF NoEnds, Has, clientVars
    <3> QED
      BY <1>1, <2>1, <3>1, <3>4 DEF OnlyJoins, JoinKinds, clientVars, hostVars
  <2>4. ASSUME ServerRuns PROVE OnlyJoins' /\ NoEnds'
    <3>1. /\ syncByReset' = syncByReset
          /\ \A i \in 1 .. Len(tasks') : tasks'[i].kind \in JoinKinds
      BY <1>1, <2>4, TasksAfter DEF OnlyJoins
    <3>2. \A c \in Clients : toServer'[c] = toServer[c]
      BY <2>4, RunsLocal
    <3> QED
      BY <1>1, <2>1, <3>1, <3>2 DEF OnlyJoins, NoEnds, JoinKinds, clientVars, hostVars
  <2> QED
    BY <1>8, <2>2, <2>3, <2>4, ServerCases
<1>9. CASE UNCHANGED vars
  <2>1. UNCHANGED <<toServer, cpc, pc, tasks, syncByReset, uiTask>>
    BY <1>9 DEF vars, wireVars, clientVars, hostVars, serverVars
  <2> QED
    BY <1>1, <2>1 DEF OnlyJoins, NoEnds, JoinKinds
<1> QED
  BY <1>5, <1>6, <1>7, <1>8, <1>9 DEF Next

LEMMA LeadStepNext ==
    ASSUME LeadStep, [Next]_vars
    PROVE  LeadStep'
  BY TypeNext, AloneNext, CalmNext, JoinNext, LeadNext DEF LeadStep, JoinStep, Calm, SlotsOnce

\* No more of A, or of B after A, in t than in s.
Fewer(t, s, A, B) == (Has(t, A) => Has(s, A)) /\ (After(t, A, B) => After(s, A, B))

LEMMA FewerTaken ==
    ASSUME NEW S, NEW s \in Seq(S), NEW t, t = s \/ (s # <<>> /\ t = Tail(s)), NEW A, NEW B
    PROVE  Fewer(t, s, A, B)
  BY TakenOnly DEF Fewer

LEMMA FewerSent ==
    ASSUME NEW S, NEW s \in Seq(S), NEW x \in S, NEW A, NEW B, x \notin A \cup B
    PROVE  Fewer(Append(s, x), s, A, B)
  BY StreamAppended DEF Fewer

LEMMA ErrandTypes ==
    ASSUME ErrandStep
    PROVE  /\ LeadStep /\ TypeInv /\ Alone /\ OnlyJoins /\ Host \in Clients /\ tasks \in Seq(Tasks)
           /\ \A c \in Clients : /\ toServer[c] \in Seq(ToServerMsgs)
                                 /\ toClient[c] \in Seq(ToClientMsgs)
  BY LeadTypes, ServerTypes, StreamTypes DEF ErrandStep, LeadStep, JoinStep

\* A step that adds nothing to an errand.
LEMMA ErrandLess ==
    ASSUME NEW c \in Clients, Errand(c),
           Fewer(toServer'[c], toServer[c], Replies, Replies),
           Fewer(toClient'[c], toClient[c], Syncs, Syncs),
           Fewer(toClient'[c], toClient[c], Syncs, Beats),
           Fewer(tasks', tasks, Fetch(c), Fetch(c)), Awaits(c)' => Awaits(c),
           c \in ready' => c \in ready \/ ~Has(toClient'[c], Syncs)
    PROVE  Errand(c)'
  BY DEF Errand, Wanted, Fewer

LEMMA ErrandSame ==
    ASSUME NEW c \in Clients, Errand(c), UNCHANGED <<toServer[c], toClient[c], tasks>>,
           Awaits(c)' => Awaits(c), c \in ready' => c \in ready
    PROVE  Errand(c)'
  BY ErrandLess DEF Fewer

\* A machine that is answered its HELLO has been sent nothing else, and no
\* join is under way.
LEMMA AnswerAlone ==
    ASSUME LeadStep, NEW c \in Clients, cpc[c] = "hello", toClient[c] # <<>>
    PROVE  toServer[c] = <<>> /\ Tail(toClient[c]) = <<>> /\ ForNobody(c)
<1>1. toServer[c] = <<>> /\ Len(toClient[c]) = 1 /\ ForNobody(c)
  <2>1. CASE c = Host
    <3>1. ForNobody(Host) /\ HostAlone
      BY <2>1 DEF LeadStep, HostLeads, HostIn, InSession
    <3> QED
      BY <2>1, <3>1 DEF HostAlone, HostEnters
  <2>2. CASE c # Host
    <3>1. c \in Remotes /\ ~Gone(c)
      BY <2>2 DEF Remotes, Gone
    <3>2. Joining(c)
      BY <3>1 DEF LeadStep, JoinStep, JoinInv
    <3> QED
      BY <3>2 DEF Joining
  <2> QED
    BY <2>1, <2>2
<1>2. toClient[c] \in Seq(ToClientMsgs)
  BY LeadTypes, StreamTypes
<1>3. Tail(toClient[c]) \in Seq(ToClientMsgs) /\ Len(Tail(toClient[c])) = 0
  BY <1>1, <1>2
<1> QED
  BY <1>1, <1>3, EmptySeq

\* A machine that is answered its HELLO has not asked for anything else.
LEMMA ErrandBegins ==
    ASSUME ErrandStep, NEW c \in Clients, cpc[c] = "hello", toClient[c] # <<>>
    PROVE  toServer[c] = <<>> /\ Tail(toClient[c]) = <<>> /\ ~Wanted(c)
<1>1. toServer[c] = <<>> /\ Tail(toClient[c]) = <<>> /\ ForNobody(c)
  BY AnswerAlone DEF ErrandStep
<1>2. ~Wanted(c)
  <2>1. Work("SYNC_CLIENT", c).kind # "RESET_ALL" /\ Work("SYNC_CLIENT", c).c = c
    BY DEF Work
  <2>2. Work("JOIN", c).kind # "RESET_ALL" /\ Work("JOIN", c).c = c
    BY DEF Work
  <2> QED
    BY <1>1, <2>1, <2>2 DEF ForNobody, Wanted, Awaits, Has, Fetch
<1> QED
  BY <1>1, <1>2

LEMMA ErrandEmulation ==
    ASSUME ErrandStep, NEW d \in Clients, NEW quiet, EmulationThread(d, quiet),
           UNCHANGED <<serverVars, hostVars>>
    PROVE  ErrandInv'
<1>1. UNCHANGED toClient /\ \A c \in Clients \ {d} : UNCHANGED Machine(c)
  BY ErrandTypes, EmulationLocal
<1>2. UNCHANGED <<spc, job, tasks, ready, syncByReset>>
  BY DEF serverVars
<1> SUFFICES ASSUME NEW c \in Clients, Errand(c) PROVE Errand(c)'
  BY <1>2 DEF ErrandStep, ErrandInv
<1>3. toServer'[c] = toServer[c] \/ toServer'[c] = Append(toServer[c], "RESUME")
  BY <1>1, ErrandTypes, EmulationSends DEF Machine
<1>4. Fewer(toServer'[c], toServer[c], Replies, Replies)
  <2>1. toServer[c] \in Seq(ToServerMsgs) /\ "RESUME" \in ToServerMsgs
        /\ "RESUME" \notin Replies \cup Replies
    BY ErrandTypes DEF ToServerMsgs, Replies
  <2>2. Fewer(Append(toServer[c], "RESUME"), toServer[c], Replies, Replies)
    BY <2>1, FewerSent
  <2> QED
    BY <1>3, <2>2 DEF Fewer
<1> QED
  BY <1>1, <1>2, <1>4, ErrandLess DEF Fewer, Awaits

LEMMA ErrandClient ==
    ASSUME ErrandStep, NEW d \in Clients, ClientThread(d), UNCHANGED <<serverVars, hostVars>>
    PROVE  ErrandInv'
<1>1. /\ TypeInv /\ cpc[d] # "off" /\ \A c \in Clients \ {d} : UNCHANGED Machine(c)
      /\ toClient'[d] = toClient[d] \/ (toClient[d] # <<>> /\ toClient'[d] = Tail(toClient[d]))
  BY ErrandTypes, ClientLocal
<1>2. UNCHANGED <<spc, job, tasks, ready, syncByReset>>
  BY DEF serverVars
<1> SUFFICES ASSUME NEW c \in Clients, Errand(c) PROVE Errand(c)'
  BY <1>2 DEF ErrandStep, ErrandInv
<1>3. CASE c # d
  BY <1>1, <1>2, <1>3, ErrandSame DEF Machine, Awaits
<1>4. CASE c = d
  <2> DEFINE s == toServer[c]
  <2> DEFINE q == toClient[c]
  <2>1. s \in Seq(ToServerMsgs) /\ q \in Seq(ToClientMsgs)
    BY ErrandTypes
  <2>2. \A A, B : Fewer(toClient'[c], q, A, B)
    BY <1>1, <1>4, <2>1, FewerTaken
  <2>3. {"READY", "WAITING_FOR_ROM_IMAGE", "RECEIVED_ROM_IMAGE", "PAUSE", "EOF"} \subseteq ToServerMsgs
    BY DEF ToServerMsgs
  <2>4. ASSUME Fewer(toServer'[c], s, Replies, Replies) PROVE Errand(c)'
    BY <1>2, <2>2, <2>4, ErrandLess DEF Awaits, Fewer
  <2>5. ASSUME NEW m \in {"PAUSE", "EOF"}, toServer'[c] = Append(s, m) PROVE Errand(c)'
    <3>1. m \in ToServerMsgs /\ m \notin Replies \cup Replies
      BY <2>3 DEF Replies
    <3>2. Fewer(toServer'[c], s, Replies, Replies)
      BY <2>1, <2>5, <3>1, FewerSent
    <3> QED
      BY <2>4, <3>2
  <2>6. ASSUME NEW m \in Replies, toServer'[c] = Append(s, m),
               ~Has(s, Replies), ~Has(toClient'[c], Syncs), ~Wanted(c)
        PROVE  Errand(c)'
    <3>1. m \in ToServerMsgs
      BY <2>3 DEF Replies
    <3>2. ~After(s, Replies, Replies)
      BY DEF Errand
    <3>3. ~After(toServer'[c], Replies, Replies)
      BY <2>1, <2>6, <3>1, <3>2, StreamAppended
    <3>4. ~After(toClient'[c], Syncs, Syncs) /\ ~After(toClient'[c], Syncs, Beats)
      BY <2>2 DEF Errand, Fewer
    <3>5. /\ ~Wanted(c)'
          /\ ~After(tasks', Fetch(c), Fetch(c)) /\ ~(Awaits(c)' /\ Has(tasks', Fetch(c)))
      BY <1>2, <2>6 DEF Errand, Wanted, Awaits
    <3> QED
      BY <2>6, <3>3, <3>4, <3>5 DEF Errand
  <2>7. CASE cpc'[c] = "off"
    <3>1. toServer'[c] = Append(s, "EOF")
      BY <1>1, <1>4, <2>7, MachineTypes
         DEF ClientThread, RecvHello, RecvHeartbeat, SendPause, RecvSync, ClientDiscard,
             ReplaceGame, ReplaceRom, ReplaceSram, DiscardDone, SendToServer, wireVars
    <3> QED
      BY <2>5, <3>1
  <2>8. CASE RecvHello(c) /\ cpc'[c] # "off"
    <3>1. /\ cpc[c] = "hello" /\ q # <<>> /\ toClient'[c] = Tail(q)
          /\ \E m \in {"READY", "WAITING_FOR_ROM_IMAGE"} : toServer'[c] = Append(s, m)
      BY <1>1, <2>8, MachineTypes DEF RecvHello, SendToServer
    <3>2. s = <<>> /\ toClient'[c] = <<>> /\ ~Wanted(c)
      BY <3>1, ErrandBegins
    <3>3. ~Has(s, Replies) /\ ~Has(toClient'[c], Syncs)
      BY <3>2, StreamEmpty
    <3> QED
      BY <2>6, <3>1, <3>2, <3>3 DEF Replies
  <2>9. CASE ~RecvHello(c) /\ cpc'[c] # "off"
    <3>1. CASE toServer'[c] = s
      BY <2>4, <3>1 DEF Fewer
    <3>2. CASE toServer'[c] = Append(s, "PAUSE")
      BY <2>5, <3>2
    <3>3. CASE /\ q # <<>> /\ toClient'[c] = Tail(q) /\ Head(q).type \in SyncTypes
               /\ \E m \in {"READY", "RECEIVED_ROM_IMAGE"} : toServer'[c] = Append(s, m)
      <4>1. Head(q) \in Syncs
        BY <2>1, <3>3 DEF Syncs, Typed
      <4>2. /\ Has(q, Syncs) <=> Head(q) \in Syncs \/ Has(Tail(q), Syncs)
            /\ After(q, Syncs, Syncs)
                  <=> After(Tail(q), Syncs, Syncs) \/ (Head(q) \in Syncs /\ Has(Tail(q), Syncs))
        BY <2>1, <3>3, StreamTaken
      <4>3. ~Has(s, Replies) /\ ~Has(Tail(q), Syncs) /\ ~Wanted(c)
        BY <4>1, <4>2 DEF Errand
      <4> QED
        BY <2>6, <3>3, <4>3 DEF Replies
    <3>4. \/ toServer'[c] = s \/ toServer'[c] = Append(s, "PAUSE")
          \/ /\ q # <<>> /\ toClient'[c] = Tail(q) /\ Head(q).type \in SyncTypes
             /\ \E m \in {"READY", "RECEIVED_ROM_IMAGE"} : toServer'[c] = Append(s, m)
      BY <1>1, <1>4, <2>9, ClientSends DEF SyncTypes, wireVars
    <3> QED
      BY <3>1, <3>2, <3>3, <3>4
  <2> QED
    BY <2>7, <2>8, <2>9
<1> QED
  BY <1>3, <1>4

LEMMA ErrandUsers ==
    ASSUME ErrandStep, Users \/ FrontEnd
    PROVE  ErrandInv'
<1>1. /\ TypeInv /\ \E d \in Clients : \/ NewConnection(d) \/ LeaveSession(d) \/ PauseGame(d)
                                       \/ ResumeGame(d) \/ Unannounce(d)
  BY ErrandTypes, CalmUsers DEF ErrandStep, LeadStep, JoinStep
<1>2. UNCHANGED <<spc, job, tasks, ready, syncByReset>>
  BY <1>1 DEF NewConnection, LeaveSession, PauseGame, ResumeGame, Unannounce, serverVars
<1> SUFFICES ASSUME NEW c \in Clients, Errand(c) PROVE Errand(c)'
  BY <1>2 DEF ErrandStep, ErrandInv
<1>3. ASSUME NEW A, NEW B PROVE ~Has(<<>>, A) /\ ~After(<<>>, A, B)
  BY StreamEmpty
<1>4. CASE NewConnection(c)
  <2>1. toServer'[c] = <<"HELLO">> /\ toClient'[c] = <<>>
    BY <1>1, <1>4, MachineTypes DEF NewConnection, Connect
  <2>2. ~Has(toServer'[c], Replies) /\ ~After(toServer'[c], Replies, Replies)
    BY <2>1 DEF Has, After, Replies
  <2>3. Fewer(toServer'[c], toServer[c], Replies, Replies)
    BY <2>2 DEF Fewer
  <2>4. \A A, B : Fewer(toClient'[c], toClient[c], A, B)
    BY <1>3, <2>1 DEF Fewer
  <2> QED
    BY <1>2, <2>3, <2>4, ErrandLess DEF Awaits, Fewer
<1>5. CASE LeaveSession(c)
  <2>1. toServer'[c] = Append(toServer[c], "EOF") /\ toClient'[c] = <<>>
    BY <1>1, <1>5, MachineTypes DEF LeaveSession, Leave, SendToServer
  <2>2. Fewer(toServer'[c], toServer[c], Replies, Replies)
    <3>1. toServer[c] \in Seq(ToServerMsgs) /\ "EOF" \in ToServerMsgs
          /\ "EOF" \notin Replies \cup Replies
      BY ErrandTypes DEF ToServerMsgs, Replies
    <3> QED
      BY <2>1, <3>1, FewerSent
  <2>3. \A A, B : Fewer(toClient'[c], toClient[c], A, B)
    BY <1>3, <2>1 DEF Fewer
  <2> QED
    BY <1>2, <2>2, <2>3, ErrandLess DEF Awaits, Fewer
<1>6. CASE ~NewConnection(c) /\ ~LeaveSession(c)
  <2>1. UNCHANGED <<toServer[c], toClient[c]>>
    <3>1. ASSUME NEW d \in Clients \ {c}, NewConnection(d) \/ LeaveSession(d)
          PROVE  UNCHANGED <<toServer[c], toClient[c]>>
      BY <1>1, <3>1, MachineTypes
         DEF NewConnection, Connect, LeaveSession, Leave, SendToServer
    <3>2. ASSUME NEW d \in Clients, PauseGame(d) \/ ResumeGame(d) \/ Unannounce(d)
          PROVE  UNCHANGED <<toServer[c], toClient[c]>>
      BY <3>2 DEF PauseGame, ResumeGame, SetPaused, Unannounce, wireVars, clientVars
    <3> QED
      BY <1>1, <1>6, <3>1, <3>2
  <2> QED
    BY <1>2, <2>1, ErrandSame DEF Awaits
<1> QED
  BY <1>4, <1>5, <1>6

\* Nobody is sent a heartbeat who is being sent a game: he is not ready.
LEMMA ErrandHeartbeat ==
    ASSUME ErrandStep, NEW stopped, SendHeartBeat(stopped)
    PROVE  ErrandInv'
<1> DEFINE m == Heartbeat(srvFrame + 1)
<1>1. /\ SendTo(saidHello, m) /\ spc = "clients" /\ ~srvPaused
      /\ UNCHANGED <<toServer, ready, tasks, spc, job, syncByReset>>
      /\ m \in ToClientMsgs /\ m.type = "JOYPAD"
  BY ErrandTypes, ServerTypes, SentTypes DEF SendHeartBeat, flags
<1>2. \A c \in saidHello : c \in ready
  BY <1>1, ErrandTypes, ServerTypes DEF MustPause
<1>3. m \notin Syncs
  BY <1>1 DEF Syncs, Typed, SyncTypes
<1> HIDE DEF m
<1> SUFFICES ASSUME NEW c \in Clients, Errand(c) PROVE Errand(c)'
  BY <1>1 DEF ErrandStep, ErrandInv
<1>4. CASE c \notin saidHello
  BY <1>1, <1>4, SentTo, ErrandSame DEF Awaits
<1>5. CASE c \in saidHello
  <2>1. toClient'[c] = Append(toClient[c], m) /\ ~Has(toClient[c], Syncs)
    BY <1>1, <1>2, <1>5, SentTo DEF Errand
  <2>2. /\ ~Has(toClient'[c], Syncs) /\ ~After(toClient'[c], Syncs, Syncs)
        /\ ~After(toClient'[c], Syncs, Beats)
    BY <1>1, <1>3, <2>1, ErrandTypes, SentLast DEF Errand
  <2> QED
    BY <1>1, <2>2, ErrandLess DEF Awaits, Fewer
<1> QED
  BY <1>4, <1>5

LEMMA ErrandReads ==
    ASSUME ErrandStep, NEW d \in Clients, ServerReads(d)
    PROVE  ErrandInv'
<1>1. /\ TypeInv /\ UNCHANGED <<tasks, syncByReset>> /\ srvFrame \in Nat /\ sendROM \in BOOLEAN
  BY ErrandTypes, OthersRead DEF TypeInv, TypeOK, ServerTypeOK
<1>2. spc = "clients"
  BY DEF ServerReads, AcceptClient, ProcessHello, ProcessReadyFirst, ProcessReadyAgain,
         ProcessWaitingForRomImage, ProcessReceivedRomImage, ProcessPause, ShutdownClient, Receive
<1> SUFFICES ASSUME NEW c \in Clients, Errand(c) PROVE Errand(c)'
  BY <1>1 DEF ErrandStep, ErrandInv
<1>3. CASE c # d
  <2>1. Work("JOIN", d) # Work("JOIN", c)
    BY <1>3 DEF Work
  <2> QED
    BY <1>1, <1>3, <2>1, OthersRead, ErrandSame DEF Awaits
<1>4. \A msg : Receive(c, msg) =>
         /\ \A A, B : Fewer(toServer'[c], toServer[c], A, B)
         /\ msg \in Replies => Has(toServer[c], Replies) /\ ~Has(toServer'[c], Replies)
  BY <1>1, ReadOff DEF Errand, Fewer
<1>5. ASSUME c = d, AcceptClient(c) PROVE Errand(c)'
  BY <1>1, <1>5, ErrandSame DEF AcceptClient, wireVars, Awaits
<1>6. ASSUME c = d, ProcessHello(c) PROVE Errand(c)'
  <2> DEFINE m == Hello(srvFrame, sendROM /\ numClients > 1)
  <2>1. /\ Receive(c, "HELLO") /\ SendTo({c}, m) /\ UNCHANGED <<ready, spc, job>>
        /\ m \in ToClientMsgs /\ m.type \in HelloTypes
    BY <1>1, <1>6, SentTypes DEF ProcessHello, flags
  <2>2. m \notin Syncs \cup Beats /\ m \notin Syncs \cup Syncs
    BY <2>1 DEF Syncs, Beats, Typed, SyncTypes, HelloTypes
  <2> HIDE DEF m
  <2>3. toClient'[c] = Append(toClient[c], m) /\ toClient[c] \in Seq(ToClientMsgs)
    BY <2>1, SentTo, ErrandTypes
  <2>4. Fewer(toClient'[c], toClient[c], Syncs, Syncs) /\ Fewer(toClient'[c], toClient[c], Syncs, Beats)
    BY <2>1, <2>2, <2>3, FewerSent
  <2> QED
    BY <1>1, <1>4, <2>1, <2>4, ErrandLess DEF Awaits, Fewer
<1>7. ASSUME c = d, ProcessReadyFirst(c) \/ ProcessReceivedRomImage(c) PROVE Errand(c)'
  <2>1. /\ \E msg \in Replies : Receive(c, msg)
        /\ UNCHANGED toClient
        /\ UNCHANGED <<spc, job>> \/ (spc' = "wait" /\ job' = Work("JOIN", c))
    BY <1>7 DEF ProcessReadyFirst, ProcessReceivedRomImage, Replies
  <2>2. /\ ~Has(toServer'[c], Replies) /\ ~After(toServer'[c], Replies, Replies)
        /\ ~Has(toClient[c], Syncs) /\ ~Wanted(c)
    BY <1>4, <2>1 DEF Errand, Fewer
  <2> QED
    BY <1>1, <2>1, <2>2 DEF Errand, Wanted
<1>8. ASSUME c = d, ProcessReadyAgain(c) PROVE Errand(c)'
  <2>1. Receive(c, "READY") /\ UNCHANGED <<toClient, spc, job>>
    BY <1>8 DEF ProcessReadyAgain
  <2>2. ~Has(toClient[c], Syncs)
    BY <1>4, <2>1 DEF Errand, Replies
  <2> QED
    BY <1>1, <1>4, <2>1, <2>2, ErrandLess DEF Awaits, Fewer
<1>9. ASSUME c = d, ProcessWaitingForRomImage(c) PROVE Errand(c)'
  <2>1. /\ Receive(c, "WAITING_FOR_ROM_IMAGE") /\ SendTo({c}, RomImage)
        /\ UNCHANGED <<spc, job>> /\ c \notin ready'
    BY <1>9 DEF ProcessWaitingForRomImage, Joins
  <2>2. toClient'[c] = Append(toClient[c], RomImage)
    BY <2>1, SentTo
  <2>3. RomImage \in ToClientMsgs /\ RomImage \notin Beats
    BY SentTypes DEF Beats, Typed
  <2>4. /\ ~Has(toServer'[c], Replies) /\ ~After(toServer'[c], Replies, Replies)
        /\ ~Has(toClient[c], Syncs) /\ ~Wanted(c)
    BY <1>4, <2>1 DEF Errand, Fewer, Replies
  <2>5. ~After(toClient'[c], Syncs, Syncs) /\ ~After(toClient'[c], Syncs, Beats)
    BY <1>1, <2>2, <2>3, <2>4, SentLast DEF Errand
  <2> QED
    BY <1>1, <2>1, <2>4, <2>5 DEF Errand, Wanted, Awaits
<1>10. ASSUME c = d, ProcessPause(c) \/ ShutdownClient(c) PROVE Errand(c)'
  <2>1. (\E msg : Receive(c, msg)) /\ UNCHANGED <<toClient, ready, spc, job>>
    BY <1>10 DEF ProcessPause, ShutdownClient
  <2> QED
    BY <1>1, <1>4, <2>1, ErrandLess DEF Awaits, Fewer
<1> QED
  BY <1>3, <1>5, <1>6, <1>7, <1>8, <1>9, <1>10 DEF ServerReads

LEMMA ErrandRuns ==
    ASSUME ErrandStep, ServerRuns
    PROVE  ErrandInv'
<1>1. /\ TypeInv /\ Alone /\ OnlyJoins /\ JoinStep /\ job \in Jobs /\ tasks \in Seq(Tasks) /\ syncByReset' = syncByReset
  BY ErrandTypes, ServerTypes, TasksAfter DEF ErrandStep, LeadStep
<1> SUFFICES ASSUME NEW c \in Clients, Errand(c), ~syncByReset PROVE Errand(c)'
  BY <1>1 DEF ErrandStep, ErrandInv
<1>2. Work("SYNC_CLIENT", c) \in Tasks /\ JoinKinds = {"SYNC_CLIENT"}
  BY DEF Work, Tasks, TaskKinds, JoinKinds
<1>3. toServer'[c] = toServer[c]
  BY <1>1, RunsLocal
<1>4. ASSUME tasks # <<>>, tasks' = Tail(tasks)
      PROVE  /\ Fewer(tasks', tasks, Fetch(c), Fetch(c))
             /\ Head(tasks) = Work("SYNC_CLIENT", c)
                   => Has(tasks, Fetch(c)) /\ ~Has(tasks', Fetch(c))
  <2>1. Fewer(tasks', tasks, Fetch(c), Fetch(c))
    BY <1>1, <1>4, FewerTaken
  <2>2. /\ Has(tasks, Fetch(c)) <=> Head(tasks) \in Fetch(c) \/ Has(tasks', Fetch(c))
        /\ After(tasks, Fetch(c), Fetch(c))
              <=> \/ After(tasks', Fetch(c), Fetch(c))
                  \/ Head(tasks) \in Fetch(c) /\ Has(tasks', Fetch(c))
    BY <1>1, <1>4, StreamTaken
  <2> QED
    BY <2>1, <2>2 DEF Errand, Fetch
<1>5. CASE StartTask
  <2>1. /\ UNCHANGED <<toClient, tasks>> /\ ready' \subseteq ready /\ job' = Head(tasks)
        /\ tasks # <<>>
    BY <1>5 DEF StartTask, NotReady, NoClientReady, wireVars
  <2>2. job'.kind # "JOIN"
    BY <1>1, <1>2, <2>1, ServerTypes DEF OnlyJoins
  <2>3. ~Awaits(c)'
    BY <2>2 DEF Awaits, Work
  <2> QED
    BY <1>3, <2>1, <2>3, ErrandSame
<1>6. CASE FinishJoin(HostDone)
  <2> DEFINE w == Work("SYNC_CLIENT", job.c)
  <2>1. /\ UNCHANGED <<toClient, ready>> /\ spc' = "clients" /\ spc = "wait" /\ job.kind = "JOIN"
        /\ tasks' = tasks \o <<w>>
    BY <1>6 DEF FinishJoin, Waited, AddTasks, JoinTasks, wireVars, flags
  <2>2. w \in Tasks
    BY <1>1 DEF Work, Tasks, TaskKinds, Jobs
  <2>3. w \in Fetch(c) <=> Awaits(c)
    BY <1>1, <2>1 DEF Work, Fetch, Awaits, Jobs
  <2> HIDE DEF w
  <2>4. tasks' = Append(tasks, w)
    BY <1>1, <2>1, <2>2
  <2>5. /\ Has(tasks', Fetch(c)) <=> Has(tasks, Fetch(c)) \/ w \in Fetch(c)
        /\ After(tasks', Fetch(c), Fetch(c))
              <=> After(tasks, Fetch(c), Fetch(c)) \/ (w \in Fetch(c) /\ Has(tasks, Fetch(c)))
    BY <1>1, <2>2, <2>4, StreamAppended
  <2>6. ~Awaits(c)' /\ (Wanted(c)' => Wanted(c))
    BY <2>1, <2>3, <2>5 DEF Awaits, Wanted
  <2> QED
    BY <1>3, <2>1, <2>3, <2>5, <2>6 DEF Errand
<1>7. CASE FinishSyncClient(HostDone, HostGame)
  <2> DEFINE m == FreezeFile(srvFrame, HostGame)
  <2>1. /\ spc = "wait" /\ job.kind = "SYNC_CLIENT" /\ spc' # "wait" /\ tasks' = Tail(tasks)
        /\ SendTo({job.c} \cap connected, m) /\ ready' = ready \ {job.c}
    BY <1>7 DEF FinishSyncClient, Waited, TaskDone, NotReady
  <2>2. tasks # <<>> /\ Head(tasks) = job /\ ~Awaits(c)'
    BY <1>1, <2>1, JoinJob DEF Awaits
  <2>3. m \in ToClientMsgs /\ m \notin Beats
    <3>1. HostGame \in Games /\ srvFrame \in Nat
      BY <1>1, ServerTypes, GameTypes, MachineTypes DEF HostGame
    <3> QED
      BY <3>1, SentTypes DEF Beats, Typed
  <2> HIDE DEF m
  <2>4. CASE c = job.c
    <3>1. Head(tasks) = Work("SYNC_CLIENT", c)
      BY <1>1, <2>1, <2>2, <2>4 DEF Work, Jobs
    <3>2. Wanted(c) /\ ~Wanted(c)' /\ Fewer(tasks', tasks, Fetch(c), Fetch(c))
      BY <1>4, <2>1, <2>2, <3>1 DEF Wanted
    <3>3. ~Has(toServer[c], Replies) /\ ~Has(toClient[c], Syncs)
      BY <3>2 DEF Errand
    <3>4. ~After(toClient'[c], Syncs, Syncs) /\ ~After(toClient'[c], Syncs, Beats)
      <4>1. CASE toClient'[c] = toClient[c]
        BY <4>1 DEF Errand
      <4>2. CASE toClient'[c] = Append(toClient[c], m)
        BY <1>1, <2>3, <3>3, <4>2, SentLast DEF Errand
      <4> QED
        BY <2>1, <4>1, <4>2, SentTo
    <3> QED
      BY <1>3, <2>1, <2>2, <2>4, <3>2, <3>3, <3>4 DEF Errand, Fewer
  <2>5. CASE c # job.c
    <3>1. toClient'[c] = toClient[c] /\ (c \in ready' => c \in ready)
      BY <2>1, <2>5, SentTo
    <3> QED
      BY <1>3, <1>4, <2>1, <2>2, <3>1, ErrandLess DEF Fewer
  <2> QED
    BY <2>4, <2>5
<1>8. /\ ~FinishSyncAll(HostDone, HostGame) /\ ~FinishSendRomImage(HostDone)
      /\ ~FinishReset(HostDone) /\ ~FinishSendSram(HostDone)
  BY <1>1, <1>2, JoinJob DEF FinishSyncAll, FinishSendRomImage, FinishReset, FinishSendSram, Waited
<1> QED
  BY <1>5, <1>6, <1>7, <1>8 DEF ServerRuns

LEMMA ErrandNext ==
    ASSUME ErrandStep, [Next]_vars
    PROVE  ErrandStep'
<1>1. ErrandInv'
  <2>1. CASE ServerStep
    BY <2>1, ServerCases, ErrandHeartbeat, ErrandReads, ErrandRuns
  <2>2. CASE UNCHANGED vars
    <3>1. UNCHANGED <<toServer, toClient, tasks, spc, job, ready, syncByReset>>
      BY <2>2 DEF vars, wireVars, serverVars
    <3> QED
      BY <3>1, ErrandSame DEF ErrandStep, ErrandInv, Awaits
  <2>3. ASSUME NEW d \in Clients, EmulationStep(d) PROVE ErrandInv'
    BY <2>3, ErrandEmulation DEF EmulationStep
  <2>4. ASSUME NEW d \in Clients, ClientStep(d) PROVE ErrandInv'
    BY <2>4, ErrandClient DEF ClientStep
  <2> QED
    BY <2>1, <2>2, <2>3, <2>4, ErrandUsers DEF Next
<1> QED
  BY <1>1, LeadStepNext DEF ErrandStep

\* A client that is being sent a game gets no heartbeat before it has taken
\* it (server.cpp, S9xNPSyncClient and S9xNPSendHeartBeat), for sessions in
\* which machines join by freeze file: it is sent one game at a time, and is not
\* ready until it has answered.
THEOREM NoHeartbeatBehindGameInv ==
    Calm /\ SlotsOnce => (Spec => [](~syncByReset => NoHeartbeatBehindGame))
<1> SUFFICES ASSUME Calm, SlotsOnce PROVE Spec => [](~syncByReset => NoHeartbeatBehindGame)
  OBVIOUS
<1>1. Init => ErrandStep
  <2> SUFFICES ASSUME Init PROVE ErrandStep
    OBVIOUS
  <2>1. /\ toServer = [c \in Clients |-> <<>>] /\ toClient = [c \in Clients |-> <<>>]
        /\ tasks = <<>> /\ spc = "clients" /\ cpc = [c \in Clients |-> "off"]
        /\ uiTask = "none" /\ pc = [c \in Clients |-> "top"] /\ Len(<<>>) = 0
    BY DEF Init, ClientInit, ServerInit
  <2>2. OnlyJoins /\ NoEnds
    BY <2>1 DEF OnlyJoins, NoEnds
  <2>3. LeadStep
    BY <2>2, TypeInit, AloneInit, JoinInit, LeadInit DEF LeadStep, JoinStep
  <2>4. ErrandInv
    BY <2>1, StreamEmpty DEF ErrandInv, Errand, Wanted, Awaits
  <2> QED
    BY <2>3, <2>4 DEF ErrandStep
<1>2. ErrandStep /\ [Next]_vars => ErrandStep'
  BY ErrandNext
<1>3. ErrandStep => (~syncByReset => NoHeartbeatBehindGame)
  <2> SUFFICES ASSUME ErrandStep, ~syncByReset, NEW c \in Clients,
                      NEW i \in 1 .. Len(toClient[c]), NEW j \in 1 .. Len(toClient[c]),
                      i < j, toClient[c][i].type \in SyncTypes, toClient[c][j].type = "JOYPAD"
               PROVE  FALSE
    BY DEF NoHeartbeatBehindGame
  <2>1. ~After(toClient[c], Syncs, Beats) /\ toClient[c] \in Seq(ToClientMsgs)
    BY ErrandTypes DEF ErrandStep, ErrandInv, Errand
  <2>2. toClient[c][i] \in Syncs /\ toClient[c][j] \in Beats
    BY <2>1 DEF Syncs, Beats, Typed
  <2>3. i \in 1 .. j - 1
    BY <2>1
  <2> QED
    BY <2>1, <2>2, <2>3 DEF After
<1> QED
  BY <1>1, <1>2, <1>3, PTL DEF Spec
-----------------------------------------------------------------------------
(***************************************************************************)
(* Joins by reset, of one machine at most besides the host.  From the      *)
(* request of the machine to the reset nothing else is asked for, or sent: *)
(* the reset is the only one, and finds nobody with an answer under way    *)
(* (Call).  That needs to be known of a machine from its request on        *)
(* (Entered), for it cannot ask again, and of the host, whose own READY    *)
(* has been read (OneReset).                                               *)
(***************************************************************************)
Couple == \A c, d \in Remotes : c = d

Answered == Typed(SyncTypes \ {"SRAM_DATA"})
Resets   == {task \in Tasks : task.kind = "RESET_ALL"}

\* A join is being carried out.
Busy == tasks # <<>> \/ (spc = "wait" /\ job.kind = "JOIN")

Call(c) ==
    /\ ~After(toServer[c], Replies, Replies) /\ ~After(toServer[c], {"EOF"}, Replies)
    /\ ~After(toClient[c], Answered, Syncs) /\ ~After(toClient[c], Syncs, Beats)
    /\ Has(toServer[c], Replies) => ~Has(toClient[c], Syncs) /\ ~Busy
    /\ Has(toClient[c], Answered) => ~Busy
    /\ Has(toClient[c], Syncs) => c \notin ready

\* The request of c has been read.
Entered(c) ==
    /\ cpc[c] = "off" => Gone(c)
    /\ cpc[c] # "hello"
    /\ ~Has(toServer[c], {"WAITING_FOR_ROM_IMAGE", "RECEIVED_ROM_IMAGE"})
    /\ ~Has(toClient[c], Typed({"ROM_IMAGE"}))
    /\ c \in saidHello \/ ~Has(toServer[c], Replies)

AllEntered == Busy \/ epoch > 0 => \A c \in Remotes : Entered(c)

OneReset ==
    /\ ~After(tasks, Resets, Tasks)
    /\ spc = "wait" => /\ job.kind = "RESET_ALL" => ready = {}
                       /\ job.kind = "SEND_SRAM" => job.c \notin ready
                       /\ job.kind = "JOIN" => tasks = <<>>
    /\ epoch > 0 => ~Busy
    /\ epoch = 0 => ~Has(toClient[Host], Typed({"RESET"}))
    /\ epoch = 0 /\ Host \in saidHello => ~Has(toServer[Host], Replies)

ResetInv == syncByReset => AllEntered /\ OneReset /\ \A c \in Clients : Call(c)
ResetStep == LeadStep /\ Couple /\ ResetInv

LEMMA CalledTypes ==
    ASSUME ResetStep, syncByReset
    PROVE  /\ LeadStep /\ JoinStep /\ TypeInv /\ Alone /\ OnlyJoins /\ NoEnds /\ Host \in Clients
           /\ tasks \in Seq(Tasks) /\ job \in Jobs /\ epoch \in Nat /\ SlotsOnce
           /\ \A c \in Clients : /\ toServer[c] \in Seq(ToServerMsgs)
                                 /\ toClient[c] \in Seq(ToClientMsgs)
           /\ \A c \in Clients : Call(c)
           /\ AllEntered /\ OneReset /\ JoinKinds = {"SEND_SRAM", "RESET_ALL"}
           /\ Remotes \subseteq Clients /\ \A c \in Clients : c # Host => c \in Remotes
           /\ saidHello \subseteq connected
  BY LeadTypes, ServerTypes, StreamTypes DEF ResetStep, ResetInv, LeadStep, JoinStep, JoinKinds

\* A step that adds nothing to a call.
LEMMA CallLess ==
    ASSUME NEW c \in Clients, Call(c),
           Fewer(toServer'[c], toServer[c], Replies, Replies),
           After(toServer'[c], {"EOF"}, Replies) => After(toServer[c], {"EOF"}, Replies),
           Fewer(toClient'[c], toClient[c], Answered, Syncs),
           Fewer(toClient'[c], toClient[c], Syncs, Beats), Busy' => Busy,
           c \in ready' => c \in ready \/ ~Has(toClient'[c], Syncs)
    PROVE  Call(c)'
  BY DEF Call, Fewer

LEMMA CallSame ==
    ASSUME NEW c \in Clients, Call(c), UNCHANGED <<toServer[c], toClient[c]>>,
           Busy' => Busy, c \in ready' => c \in ready
    PROVE  Call(c)'
  BY DEF Call

\* A member of the session stays one, for its slot is not used again.
LEMMA EnteredClient ==
    ASSUME ResetStep, syncByReset, NEW c \in Remotes, Entered(c), NEW d \in Clients,
           ClientThread(d), UNCHANGED <<serverVars, hostVars>>
    PROVE  Entered(c)'
<1>1. /\ TypeInv /\ cpc[d] # "off" /\ c \in Clients
      /\ \A e \in Clients \ {d} : UNCHANGED Machine(e)
      /\ toClient[c] \in Seq(ToClientMsgs) /\ toServer[c] \in Seq(ToServerMsgs)
  BY CalledTypes, ClientLocal
<1>2. UNCHANGED <<saidHello, events>>
  BY DEF serverVars, hostVars
<1>3. CASE c # d
  BY <1>1, <1>2, <1>3 DEF Entered, Gone, Machine
<1>4. CASE c = d
  <2>1. ~RecvHello(c) /\ cpc'[c] \in {"loop", "pausing", "drain"}
    BY <1>1, <1>4, MachineTypes
       DEF Entered, ClientThread, RecvHello, RecvHeartbeat, SendPause, RecvSync, ClientDiscard,
           ReplaceGame, ReplaceRom, ReplaceSram, DiscardDone
  <2>2. toClient'[c] = toClient[c] \/ (toClient[c] # <<>> /\ toClient'[c] = Tail(toClient[c]))
    BY <1>1, <1>4, ClientLocal
  <2>3. ~Has(toClient'[c], Typed({"ROM_IMAGE"}))
    BY <1>1, <2>2, TakenOnly DEF Entered
  <2>4. toClient[c] # <<>> => Head(toClient[c]).type # "ROM_IMAGE"
    <3>1. ASSUME toClient[c] # <<>>, Head(toClient[c]).type = "ROM_IMAGE" PROVE FALSE
      <4>1. Head(toClient[c]) \in Typed({"ROM_IMAGE"})
        BY <1>1, <3>1 DEF Typed
      <4> QED
        BY <1>1, <3>1, <4>1, StreamTaken DEF Entered
    <3> QED
      BY <3>1
  <2>5. \/ toServer'[c] = toServer[c] \/ toServer'[c] = Append(toServer[c], "PAUSE")
        \/ toClient[c] # <<>> /\ toServer'[c] = Append(toServer[c], "READY")
    BY <1>1, <1>4, <2>1, <2>4, ClientSends DEF wireVars
  <2>6. toClient[c] # <<>> => c \in saidHello
    <3>1. Joining(c)
      BY <1>1, <1>4, CalledTypes DEF JoinStep, JoinInv, Gone
    <3> QED
      BY <1>1, <1>4, <3>1 DEF Joining, InSession, Entered
  <2>7. ASSUME NEW m \in {"PAUSE", "READY"}, NEW A, m \notin A, ~Has(toServer[c], A)
        PROVE  ~Has(Append(toServer[c], m), A)
    BY <1>1, <2>7, AddedOnly DEF ToServerMsgs
  <2>8. ~Has(toServer'[c], {"WAITING_FOR_ROM_IMAGE", "RECEIVED_ROM_IMAGE"})
    BY <2>5, <2>7 DEF Entered
  <2>9. c \in saidHello \/ ~Has(toServer'[c], Replies)
    BY <2>5, <2>6, <2>7 DEF Entered, Replies
  <2> QED
    BY <1>2, <2>1, <2>3, <2>8, <2>9 DEF Entered
<1> QED
  BY <1>3, <1>4

LEMMA EnteredUsers ==
    ASSUME ResetStep, syncByReset, NEW c \in Remotes, Entered(c), Users \/ FrontEnd
    PROVE  Entered(c)'
<1>1. /\ TypeInv /\ c \in Clients /\ toServer[c] \in Seq(ToServerMsgs) /\ SlotsOnce
      /\ \E d \in Clients : \/ NewConnection(d) \/ LeaveSession(d) \/ PauseGame(d)
                            \/ ResumeGame(d) \/ Unannounce(d)
      /\ events \in Nat /\ MaxEvents \in Nat
  BY CalledTypes, CalmUsers, RemoteTypes, NetPlayAssumption DEF JoinStep
<1>2. UNCHANGED saidHello
  BY <1>1 DEF NewConnection, LeaveSession, PauseGame, ResumeGame, Unannounce, serverVars
<1>3. events' \in {events, events + 1}
  BY <1>1 DEF NewConnection, LeaveSession, PauseGame, ResumeGame, Unannounce, hostVars, Event
<1>4. ~NewConnection(c)
  BY <1>1 DEF NewConnection, Connect, Entered, Gone, SlotsOnce
<1>5. CASE LeaveSession(c)
  <2>1. /\ toServer'[c] = Append(toServer[c], "EOF") /\ toClient'[c] = <<>>
        /\ cpc'[c] = "off" /\ c \in MayLeave /\ events' = events + 1
    BY <1>1, <1>5, MachineTypes DEF LeaveSession, Leave, SendToServer, Event
  <2>2. ASSUME NEW A, "EOF" \notin A, ~Has(toServer[c], A) PROVE ~Has(toServer'[c], A)
    BY <1>1, <2>1, <2>2, AddedOnly DEF ToServerMsgs
  <2>3. ~Has(toClient'[c], Typed({"ROM_IMAGE"}))
    BY <2>1, StreamEmpty
  <2> QED
    BY <1>1, <1>2, <2>1, <2>2, <2>3 DEF Entered, Gone, Replies
<1>6. CASE ~LeaveSession(c)
  <2>1. UNCHANGED <<toServer[c], toClient[c], cpc[c]>>
    <3>1. ASSUME NEW d \in Clients \ {c}, NewConnection(d) \/ LeaveSession(d)
          PROVE  UNCHANGED <<toServer[c], toClient[c], cpc[c]>>
      BY <1>1, <3>1, MachineTypes
         DEF NewConnection, Connect, LeaveSession, Leave, SendToServer
    <3>2. ASSUME NEW d \in Clients, PauseGame(d) \/ ResumeGame(d) \/ Unannounce(d)
          PROVE  UNCHANGED <<toServer[c], toClient[c], cpc[c]>>
      BY <3>2 DEF PauseGame, ResumeGame, SetPaused, Unannounce, wireVars, clientVars
    <3> QED
      BY <1>1, <1>4, <1>6, <3>1, <3>2
  <2> QED
    BY <1>1, <1>2, <1>3, <2>1 DEF Entered, Gone
<1> QED
  BY <1>5, <1>6

LEMMA EnteredReads ==
    ASSUME ResetStep, syncByReset, NEW c \in Remotes, Entered(c), NEW d \in Clients,
           ServerReads(d), UNCHANGED <<clientVars, hostVars>>
    PROVE  Entered(c)'
<1>1. /\ TypeInv /\ c \in Clients /\ toServer[c] \in Seq(ToServerMsgs)
      /\ toClient[c] \in Seq(ToClientMsgs) /\ saidHello \subseteq connected
      /\ UNCHANGED <<cpc, events>> /\ srvFrame \in Nat /\ sendROM \in BOOLEAN
  BY CalledTypes DEF clientVars, hostVars, TypeInv, TypeOK, ServerTypeOK
<1>2. CASE c # d
  BY <1>1, <1>2, OthersRead DEF Entered, Gone
<1>3. \A msg : Receive(c, msg) =>
         /\ msg \notin {"WAITING_FOR_ROM_IMAGE", "RECEIVED_ROM_IMAGE"}
         /\ ~Has(toServer'[c], {"WAITING_FOR_ROM_IMAGE", "RECEIVED_ROM_IMAGE"})
         /\ Has(toServer'[c], Replies) => Has(toServer[c], Replies)
         /\ msg = "EOF" => ~Has(toServer'[c], Replies)
  <2> SUFFICES ASSUME NEW msg, Receive(c, msg)
               PROVE  /\ msg \notin {"WAITING_FOR_ROM_IMAGE", "RECEIVED_ROM_IMAGE"}
                      /\ ~Has(toServer'[c], {"WAITING_FOR_ROM_IMAGE", "RECEIVED_ROM_IMAGE"})
                      /\ Has(toServer'[c], Replies) => Has(toServer[c], Replies)
                      /\ msg = "EOF" => ~Has(toServer'[c], Replies)
    OBVIOUS
  <2>1. \A A, B :
           /\ Has(toServer[c], A) <=> msg \in A \/ Has(toServer'[c], A)
           /\ After(toServer[c], B, A)
                 <=> After(toServer'[c], B, A) \/ (msg \in B /\ Has(toServer'[c], A))
    BY <1>1, ReadOff
  <2>2. ~After(toServer[c], {"EOF"}, Replies)
    BY <1>1, CalledTypes DEF Call
  <2>3. ~Has(toServer[c], {"WAITING_FOR_ROM_IMAGE", "RECEIVED_ROM_IMAGE"})
    BY DEF Entered
  <2> QED
    BY <2>1, <2>2, <2>3
<1>4. ASSUME c = d, AcceptClient(c) PROVE Entered(c)'
  <2>1. UNCHANGED <<toServer, toClient>> /\ c \notin saidHello
    BY <1>1, <1>4 DEF AcceptClient, wireVars
  <2> QED
    BY <1>1, <2>1 DEF Entered, Gone
<1>5. ASSUME c = d, ProcessHello(c) PROVE Entered(c)'
  <2> DEFINE m == Hello(srvFrame, sendROM /\ numClients > 1)
  <2>1. /\ Receive(c, "HELLO") /\ SendTo({c}, m) /\ UNCHANGED saidHello
        /\ m \in ToClientMsgs /\ m.type \in HelloTypes
    BY <1>1, <1>5, SentTypes DEF ProcessHello, flags
  <2>2. m \notin Typed({"ROM_IMAGE"})
    BY <2>1 DEF Typed, HelloTypes
  <2> HIDE DEF m
  <2>3. ~Has(toClient'[c], Typed({"ROM_IMAGE"}))
    <3>1. toClient'[c] = Append(toClient[c], m)
      BY <1>1, <2>1, SentTo
    <3> QED
      BY <1>1, <2>1, <2>2, <3>1, AddedOnly DEF Entered
  <2> QED
    BY <1>1, <1>3, <2>1, <2>3 DEF Entered, Gone
<1>6. ASSUME c = d, ProcessReadyFirst(c) \/ ProcessReadyAgain(c) PROVE Entered(c)'
  <2>1. Receive(c, "READY") /\ UNCHANGED toClient /\ c \in saidHello'
    BY <1>6 DEF ProcessReadyFirst, ProcessReadyAgain, Joins
  <2> QED
    BY <1>1, <1>3, <2>1 DEF Entered, Gone
<1>7. ~(ProcessWaitingForRomImage(c) \/ ProcessReceivedRomImage(c))
  BY <1>3 DEF ProcessWaitingForRomImage, ProcessReceivedRomImage
<1>8. ASSUME c = d, ProcessPause(c) PROVE Entered(c)'
  <2>1. (\E msg : Receive(c, msg)) /\ UNCHANGED <<toClient, saidHello>>
    BY <1>8 DEF ProcessPause
  <2> QED
    BY <1>1, <1>3, <2>1 DEF Entered, Gone
<1>9. ASSUME c = d, ShutdownClient(c) PROVE Entered(c)'
  <2>1. Receive(c, "EOF") /\ UNCHANGED toClient
    BY <1>9 DEF ShutdownClient
  <2> QED
    BY <1>1, <1>3, <2>1 DEF Entered, Gone
<1> QED
  BY <1>2, <1>4, <1>5, <1>6, <1>7, <1>8, <1>9 DEF ServerReads

LEMMA EnteredNext ==
    ASSUME ResetStep, syncByReset, NEW c \in Remotes, Entered(c), [Next]_vars
    PROVE  Entered(c)'
<1>1. /\ TypeInv /\ Alone /\ LeadStep /\ c \in Clients /\ toServer[c] \in Seq(ToServerMsgs)
      /\ toClient[c] \in Seq(ToClientMsgs)
  BY CalledTypes
<1>2. CASE UNCHANGED vars
  BY <1>2 DEF Entered, Gone, vars, wireVars, clientVars, hostVars, serverVars
<1>3. ASSUME NEW d \in Clients, EmulationStep(d) PROVE Entered(c)'
  <2>1. PICK quiet : EmulationThread(d, quiet) /\ UNCHANGED <<serverVars, hostVars>>
    BY <1>3 DEF EmulationStep
  <2>2. /\ UNCHANGED <<toClient, cpc, saidHello, events>>
        /\ toServer'[c] = toServer[c] \/ toServer'[c] = Append(toServer[c], "RESUME")
    BY <1>1, <2>1, EmulationLocal, EmulationSends DEF Machine, serverVars, hostVars
  <2>3. ASSUME NEW A, "RESUME" \notin A, ~Has(toServer[c], A) PROVE ~Has(toServer'[c], A)
    BY <1>1, <2>2, <2>3, AddedOnly DEF ToServerMsgs
  <2> QED
    BY <2>2, <2>3 DEF Entered, Gone, Replies
<1>4. ASSUME NEW d \in Clients, ClientStep(d) PROVE Entered(c)'
  BY <1>4, EnteredClient DEF ClientStep
<1>5. CASE ServerStep
  <2>1. UNCHANGED <<clientVars, hostVars>> /\ UNCHANGED <<cpc, events>>
    BY <1>5, ServerCases DEF clientVars, hostVars
  <2>2. ASSUME NEW stopped, SendHeartBeat(stopped) PROVE Entered(c)'
    <3> DEFINE m == Heartbeat(srvFrame + 1)
    <3>1. /\ SendTo(saidHello, m) /\ UNCHANGED <<toServer, saidHello>>
          /\ m \in ToClientMsgs /\ m.type = "JOYPAD"
      BY <1>1, <2>2, ServerTypes, SentTypes DEF SendHeartBeat, flags
    <3>2. m \notin Typed({"ROM_IMAGE"})
      BY <3>1 DEF Typed
    <3> HIDE DEF m
    <3>3. ~Has(toClient'[c], Typed({"ROM_IMAGE"}))
      <4>1. toClient'[c] = toClient[c] \/ toClient'[c] = Append(toClient[c], m)
        BY <1>1, <3>1, SentTo
      <4> QED
        BY <1>1, <3>1, <3>2, <4>1, AddedOnly DEF Entered
    <3> QED
      BY <2>1, <3>1, <3>3 DEF Entered, Gone
  <2>3. ASSUME ServerRuns PROVE Entered(c)'
    <3>1. UNCHANGED <<toServer, saidHello>>
      BY <1>1, <2>3, RunsLocal DEF LeadStep
    <3>2. \/ toClient'[c] = toClient[c]
          \/ \E m \in ToClientMsgs :
               toClient'[c] = Append(toClient[c], m) /\ m \notin Typed({"ROM_IMAGE"})
      BY <1>1, <2>3, RunsGive DEF Typed
    <3>3. ~Has(toClient'[c], Typed({"ROM_IMAGE"}))
      BY <1>1, <3>2, AddedOnly DEF Entered
    <3> QED
      BY <2>1, <3>1, <3>3 DEF Entered, Gone
  <2> QED
    BY <1>5, <2>1, <2>2, <2>3, ServerCases, EnteredReads
<1> QED
  BY <1>2, <1>3, <1>4, <1>5, EnteredUsers DEF Next

\* What a step that leaves the server alone must keep of the host.
LEMMA OneResetKept ==
    ASSUME OneReset, UNCHANGED <<tasks, spc, job, epoch, ready, saidHello>>,
           Has(toClient'[Host], Typed({"RESET"})) => Has(toClient[Host], Typed({"RESET"})),
           epoch = 0 /\ Host \in saidHello =>
              (Has(toServer'[Host], Replies) => Has(toServer[Host], Replies))
    PROVE  OneReset'
  BY DEF OneReset, Busy

\* A message to the server that is no reply.
LEMMA NoReplySent ==
    ASSUME TypeInv, NEW c \in Clients, NEW m \in {"RESUME", "PAUSE", "EOF"},
           toServer'[c] = Append(toServer[c], m)
    PROVE  /\ Has(toServer'[c], Replies) => Has(toServer[c], Replies)
           /\ \A B : After(toServer'[c], B, Replies) => After(toServer[c], B, Replies)
<1>1. toServer[c] \in Seq(ToServerMsgs) /\ m \in ToServerMsgs /\ m \notin Replies
  BY StreamTypes DEF ToServerMsgs, Replies
<1> QED
  BY <1>1, StreamAppended

LEMMA CallEmulation ==
    ASSUME ResetStep, syncByReset, NEW d \in Clients, NEW quiet, EmulationThread(d, quiet),
           UNCHANGED <<serverVars, hostVars>>
    PROVE  OneReset' /\ \A c \in Clients : Call(c)'
<1>1. /\ TypeInv /\ OneReset /\ Host \in Clients /\ UNCHANGED toClient
      /\ \A c \in Clients \ {d} : UNCHANGED Machine(c)
  BY CalledTypes, EmulationLocal
<1>2. UNCHANGED <<spc, job, tasks, ready, epoch, saidHello>>
  BY DEF serverVars
<1>3. ASSUME NEW c \in Clients
      PROVE  toServer'[c] = toServer[c] \/ toServer'[c] = Append(toServer[c], "RESUME")
  BY <1>1, EmulationSends DEF Machine
<1>4. ASSUME NEW c \in Clients
      PROVE  /\ Has(toServer'[c], Replies) => Has(toServer[c], Replies)
             /\ \A B : After(toServer'[c], B, Replies) => After(toServer[c], B, Replies)
  BY <1>1, <1>3, NoReplySent
<1>5. OneReset'
  BY <1>1, <1>2, <1>4, OneResetKept
<1>6. ASSUME NEW c \in Clients PROVE Call(c)'
  BY <1>1, <1>2, <1>4, CalledTypes, CallLess DEF Fewer, Busy
<1> QED
  BY <1>5, <1>6

LEMMA HelloIdle ==
    ASSUME ResetStep, syncByReset, NEW c \in Clients, cpc[c] = "hello"
    PROVE  ~Busy
<1>1. CASE c = Host
  BY <1>1, CalledTypes DEF LeadStep, HostLeads, HostIn, HostAlone, InSession, Busy
<1>2. CASE c # Host
  BY <1>2, CalledTypes DEF AllEntered, Entered
<1> QED
  BY <1>1, <1>2

\* What the host is sent, and it answers nothing else.
LEMMA HostUncalled ==
    ASSUME ResetStep, syncByReset, epoch = 0, Host \in saidHello
    PROVE  /\ InSession(Host) /\ ~Has(toServer[Host], Replies)
           /\ ~Has(toClient[Host], Answered)
<1>1. /\ HostIn /\ ~Has(toServer[Host], Replies) /\ ~Has(toClient[Host], Typed({"RESET"}))
      /\ toClient[Host] \in Seq(ToClientMsgs)
  BY CalledTypes DEF LeadStep, HostLeads, OneReset
<1>2. \A m \in Answered : m \in Typed({"RESET"}) \/ m \in Typed(NotToHost)
  BY DEF Answered, Typed, SyncTypes, NotToHost
<1> QED
  BY <1>1, <1>2 DEF HostIn, Has

LEMMA CallClient ==
    ASSUME ResetStep, syncByReset, NEW d \in Clients, ClientThread(d),
           UNCHANGED <<serverVars, hostVars>>
    PROVE  OneReset' /\ \A c \in Clients : Call(c)'
<1>1. /\ TypeInv /\ LeadStep /\ OneReset /\ Host \in Clients /\ cpc[d] # "off" /\ Call(d)
      /\ \A c \in Clients \ {d} : UNCHANGED Machine(c)
      /\ toClient'[d] = toClient[d] \/ (toClient[d] # <<>> /\ toClient'[d] = Tail(toClient[d]))
      /\ toServer[d] \in Seq(ToServerMsgs) /\ toClient[d] \in Seq(ToClientMsgs)
  BY CalledTypes, ClientLocal
<1>2. UNCHANGED <<spc, job, tasks, ready, epoch, saidHello>> /\ (Busy' <=> Busy)
  BY DEF serverVars, Busy
<1>3. \A A, B : Fewer(toClient'[d], toClient[d], A, B)
  BY <1>1, FewerTaken
<1>4. \/ toServer'[d] = toServer[d]
      \/ \E m \in {"PAUSE", "EOF"} : toServer'[d] = Append(toServer[d], m)
      \/ /\ cpc[d] = "hello" /\ toClient[d] # <<>> /\ toClient'[d] = Tail(toClient[d])
         /\ \E m \in Replies : toServer'[d] = Append(toServer[d], m)
      \/ /\ toClient[d] # <<>> /\ toClient'[d] = Tail(toClient[d])
         /\ Head(toClient[d]) \in Answered
         /\ \E m \in Replies : toServer'[d] = Append(toServer[d], m)
  <2>1. CASE cpc'[d] = "off"
    BY <1>1, <2>1, MachineTypes
       DEF ClientThread, RecvHello, RecvHeartbeat, SendPause, RecvSync, ClientDiscard,
           ReplaceGame, ReplaceRom, ReplaceSram, DiscardDone, SendToServer, wireVars
  <2>2. CASE cpc'[d] # "off"
    <3>1. toClient[d] # <<>> => Head(toClient[d]) \in ToClientMsgs
      BY <1>1
    <3>2. \A m \in ToClientMsgs : m.type \in {"RESET", "FREEZE_FILE", "ROM_IMAGE"} => m \in Answered
      BY DEF Answered, Typed, SyncTypes
    <3> QED
      BY <1>1, <2>2, <3>1, <3>2, ClientSends DEF Replies, wireVars
  <2> QED
    BY <2>1, <2>2
<1>5. OneReset'
  <2>1. CASE d # Host
    BY <1>1, <1>2, <2>1, OneResetKept DEF Machine
  <2>2. CASE d = Host
    <3>1. ASSUME epoch = 0, Host \in saidHello, Has(toServer'[Host], Replies)
          PROVE  Has(toServer[Host], Replies)
      <4>1. cpc[Host] # "hello" /\ ~Has(toClient[Host], Answered)
        BY <3>1, HostUncalled DEF InSession
      <4>2. toClient[Host] # <<>> => Head(toClient[Host]) \notin Answered
        BY <1>1, <2>2, <4>1, StreamTaken
      <4> QED
        BY <1>1, <1>4, <2>2, <3>1, <4>1, <4>2, NoReplySent
    <3> QED
      BY <1>1, <1>2, <1>3, <2>2, <3>1, OneResetKept DEF Fewer
  <2> QED
    BY <2>1, <2>2
<1>6. Call(d)'
  <2>1. CASE toServer'[d] = toServer[d]
    BY <1>1, <1>2, <1>3, <2>1, CallLess DEF Fewer
  <2>2. CASE \E m \in {"PAUSE", "EOF"} : toServer'[d] = Append(toServer[d], m)
    <3>1. /\ Has(toServer'[d], Replies) => Has(toServer[d], Replies)
          /\ \A B : After(toServer'[d], B, Replies) => After(toServer[d], B, Replies)
      BY <1>1, <2>2, NoReplySent
    <3> QED
      BY <1>1, <1>2, <1>3, <3>1, CallLess DEF Fewer
  <2>3. ASSUME NEW m \in Replies, toServer'[d] = Append(toServer[d], m),
               ~Has(toServer[d], Replies), ~Has(toClient'[d], Syncs), ~Busy
        PROVE  Call(d)'
    <3>1. m \in ToServerMsgs /\ ~Has(toServer[d], {"EOF"})
      BY <1>1, CalledTypes DEF NoEnds, Has, Replies, ToServerMsgs
    <3>2. ~After(toServer[d], Replies, Replies) /\ ~After(toServer[d], {"EOF"}, Replies)
      BY <1>1 DEF Call
    <3>3. ~After(toServer'[d], Replies, Replies) /\ ~After(toServer'[d], {"EOF"}, Replies)
      BY <1>1, <2>3, <3>1, <3>2, StreamAppended
    <3>4. ~After(toClient'[d], Answered, Syncs) /\ ~After(toClient'[d], Syncs, Beats)
      BY <1>1, <1>3 DEF Call, Fewer
    <3> QED
      BY <1>2, <2>3, <3>3, <3>4 DEF Call
  <2>4. CASE /\ cpc[d] = "hello" /\ toClient[d] # <<>> /\ toClient'[d] = Tail(toClient[d])
             /\ \E m \in Replies : toServer'[d] = Append(toServer[d], m)
    <3>1. toServer[d] = <<>> /\ toClient'[d] = <<>> /\ ~Busy
      BY <1>1, <2>4, AnswerAlone, HelloIdle
    <3>2. ~Has(toServer[d], Replies) /\ ~Has(toClient'[d], Syncs)
      BY <3>1, StreamEmpty
    <3> QED
      BY <2>3, <2>4, <3>1, <3>2
  <2>5. CASE /\ toClient[d] # <<>> /\ toClient'[d] = Tail(toClient[d])
             /\ Head(toClient[d]) \in Answered
             /\ \E m \in Replies : toServer'[d] = Append(toServer[d], m)
    <3>1. Head(toClient[d]) \in Syncs
      BY <2>5 DEF Answered, Syncs, Typed
    <3>2. /\ Has(toClient[d], Answered) /\ Has(toClient[d], Syncs)
          /\ After(toClient[d], Answered, Syncs) <=>
                \/ After(Tail(toClient[d]), Answered, Syncs)
                \/ Head(toClient[d]) \in Answered /\ Has(Tail(toClient[d]), Syncs)
      BY <1>1, <2>5, <3>1, StreamTaken
    <3>3. ~Has(toServer[d], Replies) /\ ~Has(toClient'[d], Syncs) /\ ~Busy
      BY <1>1, <2>5, <3>2 DEF Call
    <3> QED
      BY <2>3, <2>5, <3>3
  <2> QED
    BY <1>4, <2>1, <2>2, <2>4, <2>5
<1>7. ASSUME NEW c \in Clients \ {d} PROVE Call(c)'
  BY <1>1, <1>2, <1>7, CalledTypes, CallSame DEF Machine
<1> QED
  BY <1>5, <1>6, <1>7

LEMMA CallUsers ==
    ASSUME ResetStep, syncByReset, Users \/ FrontEnd
    PROVE  OneReset' /\ \A c \in Clients : Call(c)'
<1>1. /\ TypeInv /\ OneReset /\ Host \in Clients /\ saidHello \subseteq connected
      /\ \E d \in Clients : \/ NewConnection(d) \/ LeaveSession(d) \/ PauseGame(d)
                            \/ ResumeGame(d) \/ Unannounce(d)
  BY CalledTypes, CalmUsers DEF JoinStep
<1>2. UNCHANGED <<spc, job, tasks, ready, epoch, saidHello>>
  BY <1>1 DEF NewConnection, LeaveSession, PauseGame, ResumeGame, Unannounce, serverVars
<1>3. ASSUME NEW c \in Clients
      PROVE  /\ Has(toServer'[c], Replies) => Has(toServer[c], Replies)
             /\ \A B : After(toServer'[c], B, Replies) => After(toServer[c], B, Replies)
             /\ \A A, B : Fewer(toClient'[c], toClient[c], A, B)
  <2>1. CASE NewConnection(c)
    <3>1. toServer'[c] = <<"HELLO">> /\ toClient'[c] = <<>>
      BY <1>1, <2>1, MachineTypes DEF NewConnection, Connect
    <3>2. ~Has(toServer'[c], Replies) /\ \A B : ~After(toServer'[c], B, Replies)
      BY <3>1 DEF Has, After, Replies
    <3>3. \A A, B : ~Has(toClient'[c], A) /\ ~After(toClient'[c], A, B)
      BY <3>1, StreamEmpty
    <3> QED
      BY <3>2, <3>3 DEF Fewer
  <2>2. CASE LeaveSession(c)
    <3>1. toServer'[c] = Append(toServer[c], "EOF") /\ toClient'[c] = <<>>
      BY <1>1, <2>2, MachineTypes DEF LeaveSession, Leave, SendToServer
    <3>2. \A A, B : ~Has(toClient'[c], A) /\ ~After(toClient'[c], A, B)
      BY <3>1, StreamEmpty
    <3> QED
      BY <1>1, <3>1, <3>2, NoReplySent DEF Fewer
  <2>3. CASE ~NewConnection(c) /\ ~LeaveSession(c)
    <3>1. ASSUME NEW d \in Clients \ {c}, NewConnection(d) \/ LeaveSession(d)
          PROVE  UNCHANGED <<toServer[c], toClient[c]>>
      BY <1>1, <3>1, MachineTypes
         DEF NewConnection, Connect, LeaveSession, Leave, SendToServer
    <3>2. ASSUME NEW d \in Clients, PauseGame(d) \/ ResumeGame(d) \/ Unannounce(d)
          PROVE  UNCHANGED <<toServer[c], toClient[c]>>
      BY <3>2 DEF PauseGame, ResumeGame, SetPaused, Unannounce, wireVars, clientVars
    <3>3. UNCHANGED <<toServer[c], toClient[c]>>
      BY <1>1, <2>3, <3>1, <3>2
    <3> QED
      BY <3>3 DEF Fewer
  <2> QED
    BY <2>1, <2>2, <2>3
<1>4. OneReset'
  BY <1>1, <1>2, <1>3, OneResetKept DEF Fewer
<1>5. ASSUME NEW c \in Clients PROVE Call(c)'
  BY <1>2, <1>3, CalledTypes, CallLess DEF Fewer, Busy
<1> QED
  BY <1>4, <1>5

\* The session is paused as long as a machine has a game to take.
LEMMA CallHeartbeat ==
    ASSUME ResetStep, syncByReset, NEW stopped, SendHeartBeat(stopped)
    PROVE  OneReset' /\ \A c \in Clients : Call(c)'
<1> DEFINE m == Heartbeat(srvFrame + 1)
<1>1. /\ SendTo(saidHello, m) /\ ~srvPaused /\ TypeInv /\ Alone /\ OneReset /\ Host \in Clients
      /\ UNCHANGED <<toServer, ready, tasks, spc, job, epoch, saidHello>>
      /\ m \in ToClientMsgs /\ m.type = "JOYPAD"
  BY CalledTypes, ServerTypes, SentTypes DEF SendHeartBeat, flags
<1>2. \A c \in saidHello : c \in ready
  BY <1>1, ServerTypes DEF MustPause
<1>3. m \notin Syncs /\ m \notin Answered /\ m \notin Typed({"RESET"})
  BY <1>1 DEF Syncs, Answered, Typed, SyncTypes
<1> HIDE DEF m
<1>4. ASSUME NEW c \in Clients
      PROVE  /\ Fewer(toClient'[c], toClient[c], Answered, Syncs)
             /\ Call(c) => Fewer(toClient'[c], toClient[c], Syncs, Beats)
             /\ Has(toClient'[c], Typed({"RESET"})) => Has(toClient[c], Typed({"RESET"}))
  <2>1. CASE c \notin saidHello
    BY <1>1, <2>1, SentTo DEF Fewer
  <2>2. CASE c \in saidHello
    <3>1. toClient'[c] = Append(toClient[c], m)
      BY <1>1, <2>2, SentTo
    <3>2. \A A, B : /\ Has(toClient'[c], A) <=> Has(toClient[c], A) \/ m \in A
                    /\ After(toClient'[c], B, A)
                          <=> After(toClient[c], B, A) \/ (m \in A /\ Has(toClient[c], B))
      BY <1>1, <3>1, SentLast
    <3>3. Call(c) => ~Has(toClient[c], Syncs)
      BY <1>2, <2>2 DEF Call
    <3> QED
      BY <1>3, <3>2, <3>3 DEF Fewer
  <2> QED
    BY <2>1, <2>2
<1>5. OneReset'
  BY <1>1, <1>4, OneResetKept
<1>6. ASSUME NEW c \in Clients PROVE Call(c)'
  BY <1>1, <1>4, CalledTypes, CallLess DEF Fewer, Busy
<1> QED
  BY <1>5, <1>6

\* What is read off the stream of c.
LEMMA CallRead ==
    ASSUME TypeInv, NEW c \in Clients, Call(c), NEW msg, Receive(c, msg)
    PROVE  /\ \A A, B : Fewer(toServer'[c], toServer[c], A, B)
           /\ msg \in Replies => /\ Has(toServer[c], Replies) /\ ~Has(toServer'[c], Replies)
                                 /\ ~Has(toClient[c], Syncs) /\ ~Busy
<1>1. \A A, B : /\ Has(toServer[c], A) <=> msg \in A \/ Has(toServer'[c], A)
                /\ After(toServer[c], B, A)
                      <=> After(toServer'[c], B, A) \/ (msg \in B /\ Has(toServer'[c], A))
  BY ReadOff
<1> QED
  BY <1>1 DEF Call, Fewer

\* A join begins when nothing is under way.
LEMMA JoinBegins ==
    ASSUME ResetStep, syncByReset, NEW d \in Clients, ServerReads(d),
           UNCHANGED <<clientVars, hostVars>>, ~UNCHANGED <<spc, job>>
    PROVE  /\ d \in Remotes /\ spc' = "wait" /\ job' = Work("JOIN", d) /\ ~Busy
           /\ epoch = 0 /\ Entered(d)' /\ UNCHANGED toClient
           /\ ~Has(toClient[d], Syncs) /\ ~Has(toServer'[d], Replies)
           /\ \E msg \in Replies : Receive(d, msg)
<1>1. TypeInv /\ LeadStep /\ Call(d) /\ toClient[d] \in Seq(ToClientMsgs)
  BY CalledTypes
<1>2. /\ ProcessReadyFirst(d) \/ ProcessReceivedRomImage(d)
      /\ spc' = "wait" /\ job' = Work("JOIN", d)
  BY DEF ServerReads, AcceptClient, ProcessHello, ProcessReadyFirst, ProcessReadyAgain,
         ProcessWaitingForRomImage, ProcessReceivedRomImage, ProcessPause, ShutdownClient
<1>3. d \in Remotes
  <2>1. ForNobody(Host)'
    BY <1>1, LeadReads DEF HostLeads
  <2> QED
    BY <1>2, <2>1 DEF ForNobody, Work, Remotes
<1>4. PICK msg \in Replies : /\ Receive(d, msg)
                             /\ \/ msg = "READY" /\ d \notin saidHello
                                \/ msg = "RECEIVED_ROM_IMAGE"
  BY <1>2 DEF ProcessReadyFirst, ProcessReceivedRomImage, Replies
<1>5. d \in saidHello' /\ UNCHANGED toClient
  BY <1>2 DEF ProcessReadyFirst, ProcessReceivedRomImage, Joins
<1>6. /\ Has(toServer[d], Replies) /\ ~Has(toServer'[d], Replies)
      /\ ~Has(toClient[d], Syncs) /\ ~Busy
  BY <1>1, <1>4, CallRead
<1>7. epoch = 0
  <2>1. ~Entered(d)
    <3>1. msg \in {"WAITING_FOR_ROM_IMAGE", "RECEIVED_ROM_IMAGE"}
             => Has(toServer[d], {"WAITING_FOR_ROM_IMAGE", "RECEIVED_ROM_IMAGE"})
      BY <1>1, <1>4, ReadOff
    <3> QED
      BY <1>4, <1>6, <3>1 DEF Entered
  <2> QED
    BY <1>3, <2>1, CalledTypes DEF AllEntered
<1>8. Entered(d)'
  <2>1. /\ UNCHANGED <<cpc, events>> /\ d \in connected /\ toServer[d] # <<>>
        /\ Head(toServer[d]) = msg
    BY <1>4 DEF clientVars, hostVars, Receive
  <2>2. Gone(d) \/ Joining(d)
    BY <1>1, <1>3 DEF LeadStep, JoinStep, JoinInv
  <2>3. (cpc[d] = "off" => Gone(d)) /\ cpc[d] # "hello"
    <3>1. msg # "HELLO" /\ Head(<<"HELLO">>) = "HELLO"
      BY DEF Replies
    <3> QED
      BY <2>1, <2>2, <3>1 DEF Joining, Gone
  <2>4. ~Has(toServer'[d], {"WAITING_FOR_ROM_IMAGE", "RECEIVED_ROM_IMAGE"})
    BY <1>6 DEF Has, Replies
  <2>5. ~Has(toClient'[d], Typed({"ROM_IMAGE"}))
    BY <1>5, <1>6 DEF Has, Syncs, Typed, SyncTypes
  <2> QED
    BY <1>5, <2>1, <2>3, <2>4, <2>5 DEF Entered, Gone
<1> QED
  BY <1>2, <1>3, <1>4, <1>5, <1>6, <1>7, <1>8

LEMMA CallReads ==
    ASSUME ResetStep, syncByReset, NEW d \in Clients, ServerReads(d),
           UNCHANGED <<clientVars, hostVars>>
    PROVE  OneReset' /\ \A c \in Clients : Call(c)'
<1>1. /\ TypeInv /\ LeadStep /\ OneReset /\ Host \in Clients /\ Call(d)
      /\ tasks' = tasks /\ srvFrame \in Nat /\ sendROM \in BOOLEAN
      /\ toClient[d] \in Seq(ToClientMsgs)
      /\ \A c \in Clients \ {d} :
            /\ c \in saidHello' <=> c \in saidHello
            /\ c \in ready' <=> c \in ready
            /\ toServer'[c] = toServer[c] /\ toClient'[c] = toClient[c]
  BY CalledTypes, OthersRead DEF TypeInv, TypeOK, ServerTypeOK
<1>2. spc = "clients" /\ epoch' = epoch /\ toServer[d] # <<>>
  BY DEF ServerReads, AcceptClient, ProcessHello, ProcessReadyFirst, ProcessReadyAgain,
         ProcessWaitingForRomImage, ProcessReceivedRomImage, ProcessPause, ShutdownClient, Receive
<1>3. CASE ~UNCHANGED <<spc, job>>
  <2>1. /\ d \in Remotes /\ spc' = "wait" /\ job' = Work("JOIN", d) /\ ~Busy
        /\ epoch = 0 /\ UNCHANGED toClient
        /\ ~Has(toClient[d], Syncs) /\ ~Has(toServer'[d], Replies)
    BY <1>3, JoinBegins
  <2>2. PICK msg \in Replies : Receive(d, msg)
    BY <1>3, JoinBegins
  <2>3. \A A, B : Fewer(toServer'[d], toServer[d], A, B)
    BY <1>1, <2>2, CallRead
  <2>4. Host \in saidHello /\ Host # d
    BY <1>1, <1>2, <2>1 DEF LeadStep, HostLeads, HostAlone, Remotes
  <2>5. ~Has(toServer[Host], Replies) /\ ~Has(toClient[Host], Answered)
    BY <2>1, <2>4, HostUncalled
  <2>6. OneReset'
    <3>1. tasks = <<>>
      BY <2>1 DEF Busy
    <3>2. job'.kind = "JOIN"
      BY <2>1 DEF Work
    <3> QED
      BY <1>1, <1>2, <2>1, <2>4, <2>5, <3>1, <3>2 DEF OneReset
  <2>7. Call(d)'
    <3>1. ~Has(toClient[d], Answered)
      BY <2>1 DEF Has, Syncs, Answered, Typed
    <3> QED
      BY <1>1, <2>1, <2>3, <3>1 DEF Call, Fewer
  <2>8. Call(Host)'
    BY <1>1, <2>1, <2>4, <2>5, CalledTypes DEF Call
  <2>9. \A c \in Clients : c = d \/ c = Host
    BY <2>1, CalledTypes DEF ResetStep, Couple
  <2> QED
    BY <2>6, <2>7, <2>8, <2>9
<1>4. CASE UNCHANGED <<spc, job>>
  <2>1. Busy' <=> Busy
    BY <1>1, <1>4 DEF Busy
  <2>2. \A msg : Receive(d, msg) =>
           /\ \A A, B : Fewer(toServer'[d], toServer[d], A, B)
           /\ msg \in Replies => /\ Has(toServer[d], Replies) /\ ~Has(toServer'[d], Replies)
                                 /\ ~Has(toClient[d], Syncs) /\ ~Busy
    BY <1>1, CallRead
  <2>3. OneReset'
    <3>1. Has(toClient'[Host], Typed({"RESET"})) => Has(toClient[Host], Typed({"RESET"}))
      <4>1. \/ toClient'[Host] = toClient[Host]
            \/ \E m \in ToClientMsgs :
                 toClient'[Host] = Append(toClient[Host], m) /\ m \notin Typed({"RESET"})
        BY <1>1, ReadsSend DEF Typed, Replacing
      <4>2. ASSUME NEW m \in ToClientMsgs, m \notin Typed({"RESET"}),
                   ~Has(toClient[Host], Typed({"RESET"}))
            PROVE  ~Has(Append(toClient[Host], m), Typed({"RESET"}))
        BY <1>1, <4>2, CalledTypes, AddedOnly
      <4> QED
        BY <4>1, <4>2
    <3>2. ASSUME epoch = 0, Host \in saidHello' PROVE ~Has(toServer'[Host], Replies)
      <4>1. CASE d # Host
        BY <1>1, <3>2, <4>1 DEF OneReset
      <4>2. CASE d = Host /\ Host \in saidHello
        <5>1. ~Has(toServer[Host], Replies)
          BY <1>1, <3>2, <4>2 DEF OneReset
        <5>2. toServer'[d] = toServer[d] \/ \E msg : Receive(d, msg)
          BY DEF ServerReads, AcceptClient, ProcessHello, ProcessReadyFirst, ProcessReadyAgain,
                 ProcessWaitingForRomImage, ProcessReceivedRomImage, ProcessPause,
                 ShutdownClient, wireVars
        <5> QED
          BY <2>2, <4>2, <5>1, <5>2 DEF Fewer
      <4>3. CASE d = Host /\ Host \notin saidHello
        <5>1. \E msg \in Replies : Receive(d, msg)
          BY <3>2, <4>3
             DEF ServerReads, AcceptClient, ProcessHello, ProcessReadyFirst, ProcessReadyAgain,
                 ProcessWaitingForRomImage, ProcessReceivedRomImage, ProcessPause,
                 ShutdownClient, flags, Replies
        <5> QED
          BY <2>2, <4>3, <5>1
      <4> QED
        BY <4>1, <4>2, <4>3
    <3> QED
      BY <1>1, <1>2, <1>4, <2>1, <3>1, <3>2 DEF OneReset
  <2>4. ASSUME NEW c \in Clients \ {d} PROVE Call(c)'
    BY <1>1, <2>1, <2>4, CalledTypes, CallSame
  <2>5. ASSUME AcceptClient(d) PROVE Call(d)'
    BY <1>1, <2>1, <2>5, CallSame DEF AcceptClient, wireVars
  <2>6. ASSUME ProcessHello(d) PROVE Call(d)'
    <3> DEFINE m == Hello(srvFrame, sendROM /\ numClients > 1)
    <3>1. /\ Receive(d, "HELLO") /\ SendTo({d}, m) /\ ready' = ready
          /\ m \in ToClientMsgs /\ m.type \in HelloTypes
      BY <1>1, <2>6, SentTypes DEF ProcessHello, flags
    <3>2. m \notin Syncs \cup Beats /\ m \notin Answered \cup Syncs
      BY <3>1 DEF Syncs, Answered, Beats, Typed, SyncTypes, HelloTypes
    <3> HIDE DEF m
    <3>3. toClient'[d] = Append(toClient[d], m)
      BY <3>1, SentTo
    <3>4. /\ Fewer(toClient'[d], toClient[d], Answered, Syncs)
          /\ Fewer(toClient'[d], toClient[d], Syncs, Beats)
      BY <1>1, <3>1, <3>2, <3>3, FewerSent
    <3> QED
      BY <1>1, <2>1, <2>2, <3>1, <3>4, CallLess DEF Fewer
  <2>7. ASSUME ProcessReadyFirst(d) \/ ProcessReadyAgain(d) PROVE Call(d)'
    <3>1. Receive(d, "READY") /\ UNCHANGED toClient /\ "READY" \in Replies
      BY <2>7 DEF ProcessReadyFirst, ProcessReadyAgain, Replies
    <3> QED
      BY <1>1, <2>1, <2>2, <3>1, CallLess DEF Fewer
  <2>8. ASSUME ProcessWaitingForRomImage(d) PROVE Call(d)'
    <3>1. /\ Receive(d, "WAITING_FOR_ROM_IMAGE") /\ SendTo({d}, RomImage) /\ d \notin ready'
          /\ "WAITING_FOR_ROM_IMAGE" \in Replies
      BY <2>8 DEF ProcessWaitingForRomImage, Joins, Replies
    <3>2. toClient'[d] = Append(toClient[d], RomImage)
      BY <3>1, SentTo
    <3>3. RomImage \in ToClientMsgs /\ RomImage \notin Beats
      BY SentTypes DEF Beats, Typed
    <3>4. /\ ~Has(toServer'[d], Replies) /\ ~Has(toClient[d], Syncs) /\ ~Busy
          /\ \A A, B : Fewer(toServer'[d], toServer[d], A, B)
      BY <2>2, <3>1
    <3>5. ~Has(toClient[d], Answered)
      BY <3>4 DEF Has, Syncs, Answered, Typed
    <3>6. ~After(toClient'[d], Answered, Syncs) /\ ~After(toClient'[d], Syncs, Beats)
      BY <1>1, <3>2, <3>3, <3>4, <3>5, SentLast DEF Call
    <3> QED
      BY <1>1, <2>1, <3>1, <3>4, <3>6 DEF Call, Fewer
  <2>9. ASSUME ProcessPause(d) \/ ShutdownClient(d) PROVE Call(d)'
    <3>1. (\E msg : Receive(d, msg)) /\ UNCHANGED <<toClient, ready>>
      BY <2>9 DEF ProcessPause, ShutdownClient
    <3> QED
      BY <1>1, <2>1, <2>2, <3>1, CallLess DEF Fewer
  <2>10. ~ProcessReceivedRomImage(d)
    BY <1>2, <1>4 DEF ProcessReceivedRomImage
  <2> QED
    BY <2>3, <2>4, <2>5, <2>6, <2>7, <2>8, <2>9, <2>10 DEF ServerReads
<1> QED
  BY <1>3, <1>4

\* The server runs only tasks of the join.
LEMMA RunsBusy ==
    ASSUME ResetStep, syncByReset, ServerRuns
    PROVE  /\ Busy /\ epoch = 0
           /\ \A c \in Clients : /\ ~Has(toServer[c], Replies) /\ ~Has(toClient[c], Answered)
                                 /\ \A B : ~After(toServer[c], B, Replies)
<1>1. TypeInv /\ Alone /\ OnlyJoins /\ OneReset /\ \A c \in Clients : Call(c)
  BY CalledTypes
<1>2. ASSUME StartTask PROVE Busy
  BY <1>2 DEF StartTask, Busy
<1>3. ASSUME ~StartTask PROVE Busy
  <2>1. spc = "wait"
    BY <1>3 DEF ServerRuns, FinishJoin, FinishSyncClient, FinishSyncAll, FinishReset,
                FinishSendSram, FinishSendRomImage, Waited
  <2>2. job.kind = "JOIN" \/ tasks # <<>>
    BY <1>1, <2>1, JoinJob
  <2> QED
    BY <2>1, <2>2 DEF Busy
<1>4. Busy
  BY <1>2, <1>3
<1>5. \A c \in Clients : \A B : After(toServer[c], B, Replies) => Has(toServer[c], Replies)
  BY DEF After, Has
<1>6. epoch = 0
  <2>1. epoch \in Nat
    BY CalledTypes
  <2> QED
    BY <1>1, <1>4, <2>1 DEF OneReset
<1>7. ASSUME NEW c \in Clients PROVE ~Has(toServer[c], Replies) /\ ~Has(toClient[c], Answered)
  BY <1>1, <1>4 DEF Call
<1> QED
  BY <1>4, <1>5, <1>6, <1>7

LEMMA CallRuns ==
    ASSUME ResetStep, syncByReset, ServerRuns
    PROVE  OneReset' /\ \A c \in Clients : Call(c)'
<1>1. /\ TypeInv /\ Alone /\ OnlyJoins /\ JoinStep /\ OneReset /\ Host \in Clients
      /\ job \in Jobs /\ tasks \in Seq(Tasks)
      /\ \A c \in Clients : Call(c) /\ toClient[c] \in Seq(ToClientMsgs)
      /\ JoinKinds = {"SEND_SRAM", "RESET_ALL"}
  BY CalledTypes
<1>2. UNCHANGED toServer /\ UNCHANGED saidHello
  BY <1>1, RunsLocal
<1>3. /\ Busy /\ epoch = 0
      /\ \A c \in Clients : /\ ~Has(toServer'[c], Replies) /\ ~Has(toClient[c], Answered)
                            /\ \A B : ~After(toServer'[c], B, Replies)
  BY <1>2, RunsBusy
<1>4. ASSUME NEW c \in Clients, UNCHANGED toClient[c], ready' \subseteq ready PROVE Call(c)'
  BY <1>1, <1>3, <1>4 DEF Call
<1>5. ~Has(toClient[Host], Typed({"RESET"}))
  BY <1>1, <1>3 DEF OneReset
<1>6. CASE StartTask
  <2>1. /\ UNCHANGED <<toClient, tasks, epoch>> /\ ready' \subseteq ready /\ job' = Head(tasks)
        /\ tasks # <<>>
        /\ job'.kind = "RESET_ALL" => ready' = {c \in ready : c < 0}
        /\ job'.kind = "SEND_SRAM" => job'.c \notin ready'
    BY <1>6 DEF StartTask, NotReady, NoClientReady, wireVars
  <2>2. job'.kind # "JOIN"
    BY <1>1, <2>1, ServerTypes DEF OnlyJoins
  <2>3. {c \in ready : c < 0} = {}
    <3>1. ready \subseteq Nat
      BY <1>1, WireAssumption DEF TypeInv, TypeOK, ServerTypeOK
    <3>2. \A c \in ready : ~(c < 0)
      BY <3>1
    <3> QED
      BY <3>2, Zenon
  <2>4. OneReset'
    BY <1>1, <1>3, <1>5, <2>1, <2>2, <2>3 DEF OneReset
  <2> QED
    BY <1>4, <2>1, <2>4
<1>7. CASE FinishJoin(HostDone)
  <2> DEFINE a == Work("SEND_SRAM", job.c)
  <2> DEFINE b == Work("RESET_ALL", Nobody)
  <2>1. /\ UNCHANGED <<toClient, ready, epoch>> /\ spc' = "clients" /\ spc = "wait"
        /\ job.kind = "JOIN" /\ tasks' = tasks \o <<a, b>>
    BY <1>7 DEF FinishJoin, Waited, AddTasks, JoinTasks, wireVars, flags
  <2>2. a \notin Resets
    BY DEF Work, Resets
  <2> HIDE DEF a, b
  <2>3. tasks' = <<a, b>>
    BY <1>1, <2>1 DEF OneReset
  <2>4. ~After(<<a, b>>, Resets, Tasks)
    BY <2>2 DEF After
  <2>5. OneReset'
    BY <1>1, <1>3, <1>5, <2>1, <2>3, <2>4 DEF OneReset
  <2> QED
    BY <1>4, <2>1, <2>5
<1>8. CASE FinishReset(HostDone)
  <2> DEFINE m == Reset(srvFrame, At(epoch', srvFrame))
  <2>1. /\ spc = "wait" /\ job.kind = "RESET_ALL" /\ tasks' = Tail(tasks) /\ epoch' = epoch + 1
        /\ spc' = (IF Tail(tasks) = <<>> THEN "clients" ELSE "tasks")
        /\ SendTo(saidHello, m) /\ ready' = ready
    BY <1>8 DEF FinishReset, Waited, TaskDone, flags
  <2>2. tasks # <<>> /\ Head(tasks) = job /\ ready = {}
    BY <1>1, <2>1, JoinJob DEF OneReset
  <2>3. tasks' = <<>>
    <3>1. /\ After(tasks, Resets, Tasks) <=>
                \/ After(Tail(tasks), Resets, Tasks)
                \/ Head(tasks) \in Resets /\ Has(Tail(tasks), Tasks)
          /\ Tail(tasks) \in Seq(Tasks) /\ Head(tasks) \in Tasks
      BY <1>1, <2>2, StreamTaken
    <3>2. ~Has(Tail(tasks), Tasks)
      BY <1>1, <2>1, <2>2, <3>1 DEF OneReset, Resets
    <3>3. ASSUME NEW s \in Seq(Tasks), s # <<>> PROVE Has(s, Tasks)
      <4>1. 1 \in 1 .. Len(s) /\ s[1] \in Tasks
        BY <3>3
      <4> QED
        BY <4>1 DEF Has
    <3> QED
      BY <2>1, <3>1, <3>2, <3>3
  <2>4. ~Busy' /\ spc' = "clients" /\ epoch' > 0
    BY <1>3, <2>1, <2>3 DEF Busy
  <2>5. OneReset'
    <3>1. ~After(tasks', Resets, Tasks)
      BY <2>3, StreamEmpty
    <3>2. ~(epoch' = 0)
      BY <2>4
    <3> QED
      BY <2>4, <3>1, <3>2 DEF OneReset
  <2>6. m \in ToClientMsgs /\ m \notin Beats
    <3>1. m \in ToClientMsgs /\ m.type = "RESET"
      BY <1>1, <1>3, <2>1, ServerTypes, SentTypes, GameTypes
    <3> QED
      BY <3>1 DEF Beats, Typed
  <2> HIDE DEF m
  <2>7. ASSUME NEW c \in Clients PROVE Call(c)'
    <3>1. ~After(toClient'[c], Answered, Syncs) /\ ~After(toClient'[c], Syncs, Beats)
      <4>1. toClient'[c] = toClient[c] \/ toClient'[c] = Append(toClient[c], m)
        BY <2>1, SentTo
      <4> QED
        BY <1>1, <1>3, <2>6, <4>1, SentLast DEF Call
    <3> QED
      BY <1>3, <2>1, <2>2, <2>4, <3>1 DEF Call
  <2> QED
    BY <2>5, <2>7
<1>9. CASE FinishSendSram(HostDone)
  <2>1. spc = "wait" /\ job.kind = "SEND_SRAM"
    BY <1>1, <1>9, JoinJob DEF FinishSendSram, Waited
  <2>2. /\ SendTo({job.c} \cap connected, SramData) /\ tasks' = Tail(tasks) /\ spc' # "wait"
        /\ UNCHANGED <<ready, epoch>>
    BY <1>9, <2>1 DEF FinishSendSram, Waited, TaskDone, flags
  <2>3. tasks # <<>> /\ job.c \notin ready
    BY <1>1, <2>1, JoinJob DEF OneReset
  <2>4. /\ SramData \in ToClientMsgs /\ SramData \notin Answered /\ SramData \notin Beats
        /\ SramData \notin Typed({"RESET"})
    BY SentTypes DEF Answered, Beats, Typed
  <2>5. ASSUME NEW c \in Clients
        PROVE  /\ \/ toClient'[c] = toClient[c]
                  \/ toClient'[c] = Append(toClient[c], SramData) /\ c = job.c
               /\ ~Has(toClient'[c], Answered)
    <3>1. \/ toClient'[c] = toClient[c]
          \/ toClient'[c] = Append(toClient[c], SramData) /\ c = job.c
      BY <2>2, SentTo
    <3> QED
      BY <1>1, <1>3, <2>4, <3>1, AddedOnly
  <2>6. OneReset'
    <3>1. ~Has(toClient'[Host], Typed({"RESET"}))
      <4>1. \/ toClient'[Host] = toClient[Host]
            \/ toClient'[Host] = Append(toClient[Host], SramData)
        BY <1>1, <2>5
      <4> QED
        BY <1>1, <1>5, <2>4, <4>1, AddedOnly
    <3>2. ~After(tasks', Resets, Tasks)
      BY <1>1, <2>2, <2>3, FewerTaken DEF OneReset, Fewer
    <3> QED
      BY <1>1, <1>3, <2>2, <3>1, <3>2 DEF OneReset
  <2>7. ASSUME NEW c \in Clients PROVE Call(c)'
    <3>1. CASE toClient'[c] = toClient[c]
      BY <1>4, <2>2, <3>1
    <3>2. CASE toClient'[c] = Append(toClient[c], SramData) /\ c = job.c
      <4>1. ~After(toClient'[c], Answered, Syncs) /\ ~After(toClient'[c], Syncs, Beats)
        BY <1>1, <1>3, <2>4, <3>2, SentLast DEF Call
      <4> QED
        BY <1>3, <2>2, <2>3, <2>5, <3>2, <4>1 DEF Call
    <3> QED
      BY <2>5, <3>1, <3>2
  <2> QED
    BY <2>6, <2>7
<1>10. /\ ~FinishSyncAll(HostDone, HostGame) /\ ~FinishSendRomImage(HostDone)
       /\ ~FinishSyncClient(HostDone, HostGame)
  BY <1>1, JoinJob DEF FinishSyncAll, FinishSendRomImage, FinishSyncClient, Waited
<1> QED
  BY <1>6, <1>7, <1>8, <1>9, <1>10 DEF ServerRuns

LEMMA ResetNext ==
    ASSUME ResetStep, [Next]_vars
    PROVE  ResetStep'
<1>1. LeadStep /\ LeadStep' /\ TypeInv /\ Alone /\ OnlyJoins /\ Calm
  BY LeadStepNext DEF ResetStep, LeadStep, JoinStep
<1>2. Users \/ FrontEnd => UNCHANGED serverVars
  <2> SUFFICES ASSUME Users \/ FrontEnd PROVE UNCHANGED serverVars
    OBVIOUS
  <2>1. \E d \in Clients : \/ NewConnection(d) \/ LeaveSession(d) \/ PauseGame(d)
                           \/ ResumeGame(d) \/ Unannounce(d)
    BY <1>1, CalmUsers
  <2> QED
    BY <2>1 DEF NewConnection, LeaveSession, PauseGame, ResumeGame, Unannounce
<1>3. \/ UNCHANGED serverVars
      \/ \E stopped : SendHeartBeat(stopped)
      \/ \E d \in Clients : ServerReads(d) /\ UNCHANGED <<clientVars, hostVars>>
      \/ ServerRuns
  BY <1>2, ServerCases DEF Next, EmulationStep, ClientStep, vars
<1>4. syncByReset' = syncByReset
  BY <1>1, <1>3, OthersRead, TasksAfter DEF serverVars, SendHeartBeat
<1> SUFFICES ASSUME syncByReset PROVE AllEntered' /\ OneReset' /\ \A c \in Clients : Call(c)'
  BY <1>1, <1>4 DEF ResetStep, ResetInv
<1>5. AllEntered'
  <2> SUFFICES ASSUME Busy' \/ epoch' > 0, NEW c \in Remotes PROVE Entered(c)'
    BY DEF AllEntered
  <2>1. CASE Busy \/ epoch > 0
    BY <2>1, CalledTypes, EnteredNext DEF AllEntered
  <2>2. CASE ~(Busy \/ epoch > 0)
    <3>1. ~UNCHANGED <<tasks, spc, job, epoch>>
      BY <2>2 DEF Busy
    <3>2. ~ServerRuns
      BY <2>2, RunsBusy
    <3>3. PICK d \in Clients : ServerReads(d) /\ UNCHANGED <<clientVars, hostVars>>
      BY <1>3, <3>1, <3>2 DEF serverVars, SendHeartBeat
    <3>4. UNCHANGED <<tasks, epoch>>
      BY <3>3 DEF ServerReads, AcceptClient, ProcessHello, ProcessReadyFirst, ProcessReadyAgain,
                  ProcessWaitingForRomImage, ProcessReceivedRomImage, ProcessPause, ShutdownClient
    <3>5. d \in Remotes /\ Entered(d)'
      BY <3>1, <3>3, <3>4, JoinBegins
    <3> QED
      BY <3>5 DEF ResetStep, Couple
  <2> QED
    BY <2>1, <2>2
<1>6. CASE UNCHANGED vars
  <2>1. /\ UNCHANGED <<toServer, toClient, tasks, spc, job, ready, epoch, saidHello>>
    BY <1>6 DEF vars, wireVars, serverVars
  <2>2. OneReset'
    BY <2>1, CalledTypes, OneResetKept
  <2>3. \A c \in Clients : Call(c)'
    BY <2>1, CalledTypes, CallSame DEF Busy
  <2> QED
    BY <1>5, <2>2, <2>3
<1>7. ASSUME NEW d \in Clients, EmulationStep(d) PROVE OneReset' /\ \A c \in Clients : Call(c)'
  BY <1>7, CallEmulation DEF EmulationStep
<1>8. ASSUME NEW d \in Clients, ClientStep(d) PROVE OneReset' /\ \A c \in Clients : Call(c)'
  BY <1>8, CallClient DEF ClientStep
<1>9. CASE ServerStep
  BY <1>5, <1>9, ServerCases, CallHeartbeat, CallReads, CallRuns
<1> QED
  BY <1>5, <1>6, <1>7, <1>8, <1>9, CallUsers DEF Next

\* A client that is being sent a game gets no heartbeat before it has taken
\* it (server.cpp, S9xNPSyncClient, S9xNPServerReset and S9xNPSendHeartBeat),
\* in a session of two machines, however the second is given its game: by
\* freeze file, or by the one reset that its request leads to, which nobody's
\* answer can overtake.
THEOREM CoupleNoHeartbeatBehindGame ==
    Calm /\ SlotsOnce /\ Couple => (Spec => []NoHeartbeatBehindGame)
<1> SUFFICES ASSUME Calm, SlotsOnce, Couple PROVE Spec => []NoHeartbeatBehindGame
  OBVIOUS
<1>1. Init => ResetStep
  <2> SUFFICES ASSUME Init PROVE ResetStep
    OBVIOUS
  <2>1. /\ toServer = [c \in Clients |-> <<>>] /\ toClient = [c \in Clients |-> <<>>]
        /\ tasks = <<>> /\ spc = "clients" /\ cpc = [c \in Clients |-> "off"]
        /\ uiTask = "none" /\ pc = [c \in Clients |-> "top"] /\ Len(<<>>) = 0
        /\ epoch = 0 /\ Host \in Clients
    BY WireAssumption DEF Init, ClientInit, ServerInit
  <2>2. OnlyJoins /\ NoEnds
    BY <2>1 DEF OnlyJoins, NoEnds
  <2>3. LeadStep
    BY <2>2, TypeInit, AloneInit, JoinInit, LeadInit DEF LeadStep, JoinStep
  <2>4. ~Busy /\ ~(epoch > 0)
    BY <2>1 DEF Busy
  <2>5. AllEntered /\ OneReset
    BY <2>1, <2>4, StreamEmpty DEF AllEntered, OneReset
  <2>6. \A c \in Clients : Call(c)
    BY <2>1, <2>4, StreamEmpty DEF Call
  <2> QED
    BY <2>3, <2>5, <2>6 DEF ResetStep, ResetInv
<1>2. ResetStep /\ [Next]_vars => ResetStep'
  BY ResetNext
<1>3. ResetStep => (syncByReset => NoHeartbeatBehindGame)
  <2> SUFFICES ASSUME ResetStep, syncByReset, NEW c \in Clients,
                      NEW i \in 1 .. Len(toClient[c]), NEW j \in 1 .. Len(toClient[c]),
                      i < j, toClient[c][i].type \in SyncTypes, toClient[c][j].type = "JOYPAD"
               PROVE  FALSE
    BY DEF NoHeartbeatBehindGame
  <2>1. ~After(toClient[c], Syncs, Beats) /\ toClient[c] \in Seq(ToClientMsgs)
    BY CalledTypes DEF Call
  <2>2. /\ toClient[c][i] \in Syncs /\ toClient[c][j] \in Beats /\ i \in 1 .. j - 1
    BY <2>1 DEF Syncs, Beats, Typed
  <2> QED
    BY <2>1, <2>2 DEF After
<1>4. Spec => [](~syncByReset => NoHeartbeatBehindGame)
  BY NoHeartbeatBehindGameInv
<1> QED
  BY <1>1, <1>2, <1>3, <1>4, PTL DEF Spec
=============================================================================
