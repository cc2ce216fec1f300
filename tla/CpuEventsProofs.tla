-------------------------- MODULE CpuEventsProofs --------------------------
(***************************************************************************)
(* What is proved of the clock, for lines, frames, costs and registers of  *)
(* every size: its types, with the count of cycles that never goes below   *)
(* zero, that a pending NMI stays imminent, and that the IRQ timer is      *)
(* always aimed at the programmed position.                                *)
(***************************************************************************)
EXTENDS CpuEvents, FiniteSetTheorems, TLAPS

LEMMA NeverIsInt == Never \in Int
BY SMT DEF Never

\* A position of the timer is a number of cycles.
LEMMA PositionIsInt ==
    ASSUME NEW h \in Nat PROVE HTimerPosition(h) \in Int /\ ShortDots(h) \in Int
<1>1. LongDotsBefore(h) \in {0, 1, 2}
  BY DEF LongDotsBefore
<1>2. Dot \in Nat /\ IRQTriggerCycles \in Nat /\ Dot \div 2 \in Int
  BY ClockAssumption
<1> QED
  BY <1>1, <1>2 DEF HTimerPosition, ShortDots

LEMMA NextIsInt ==
    ASSUME TypeOK, NEW hc \in Int, NEW vc \in Nat
    PROVE  CyclesUntilNext(hc, vc) \in Int
<1>1. H_Max_Master \in Nat /\ V_Max_Master \in Nat /\ Dot \in Nat
  BY ClockAssumption
<1>2. v \in Int /\ vMax \in Int /\ cycles \in Int
  BY <1>1 DEF TypeOK
<1>5. OneDotIf(v <= ShortLine /\ vc > ShortLine /\ Short(field)) \in Int
  BY <1>1 DEF OneDotIf
<1>6. /\ OneDotIf(v <= ShortLine /\ Short(field)) \in Int
      /\ OneDotIf(vc > ShortLine /\ Short(~field)) \in Int
  BY <1>1 DEF OneDotIf
<1>7. /\ (vc - v) * H_Max_Master \in Int
      /\ (vMax - v + vc) * H_Max_Master \in Int
  BY <1>1, <1>2
<1> QED
  BY <1>2, <1>5, <1>6, <1>7 DEF CyclesUntilNext

LEMMA UpdateIsInt ==
    ASSUME TypeOK, NEW en, NEW h \in Nat, NEW vt \in Nat, NEW initial
    PROVE  UpdateIRQPositions(en, h, vt, initial) \in Int
<1>1. HTimerPosition(h) \in Int /\ ShortDots(h) \in Int
  BY PositionIsInt
<1>2. VOnlyPosition \in Int /\ IRQTriggerCycles \in Int
  BY ClockAssumption DEF VOnlyPosition
<1>3. /\ CyclesUntilNext(HTimerPosition(h), vt) \in Int
      /\ CyclesUntilNext(VOnlyPosition, vt) \in Int
  BY <1>1, <1>2, NextIsInt
<1>4. cycles \in Int /\ hMax \in Int
  BY ClockAssumption DEF TypeOK
<1> DEFINE hc == HTimerPosition(h)
           next == CyclesUntilNext(hc, vt)
           later == vt < v \/ (vt = v /\ next > hMax)
           s1 == IF v + 1 = ShortLine /\ Short(field) THEN ShortDots(h) ELSE 0
           s2 == IF v = ShortLine /\ Short(field) THEN ShortDots(h) ELSE 0
           s3 == IF vt = ShortLine /\ Short(IF later THEN ~field ELSE field)
                 THEN ShortDots(h) ELSE 0
<1>8. /\ hc \in Int /\ next \in Int /\ s1 \in Int /\ s2 \in Int /\ s3 \in Int
      /\ CyclesUntilNext(VOnlyPosition, vt) \in Int
  BY <1>1, <1>3
<1>9. UpdateIRQPositions(en, h, vt, initial) =
        IF "v" \in en /\ vt >= vMax + (IF interlace THEN 1 ELSE 0) THEN Never
        ELSE IF en \cap {"v", "h"} = {} THEN Never
        ELSE IF "v" \notin en THEN
            IF cycles > hc - IRQTriggerCycles THEN hc + hMax - s1 ELSE hc - s2
        ELSE IF "h" \notin en THEN
            IF v = vt /\ initial THEN cycles + VOnlyPosition
            ELSE CyclesUntilNext(VOnlyPosition, vt)
        ELSE next - s3
  BY DEF UpdateIRQPositions
<1> HIDE DEF hc, next, later, s1, s2, s3
<1> QED
  BY <1>2, <1>4, <1>8, <1>9, NeverIsInt
-----------------------------------------------------------------------------
(* The inductive invariant: the types and the imminence of the NMI.         *)

ClockInv == TypeOK /\ NmiImminent

LEMMA InitClockInv == Init => ClockInv
<1> SUFFICES ASSUME Init PROVE ClockInv
  OBVIOUS
<1>1. ResetCycles \in Nat /\ V_Max_Master \in Nat /\ V_Max_Master > 0
  BY ClockAssumption
<1>2. cycles \in Nat /\ v \in 0..(vMax - 1)
  BY <1>1 DEF Init
<1>3. irqTimer \in Int
  BY NeverIsInt DEF Init
<1>4. TypeOK
  BY <1>2, <1>3 DEF Init, TypeOK, Heights, Events
<1>5. NmiImminent
  BY DEF Init, NmiImminent
<1> QED
  BY <1>4, <1>5 DEF ClockInv

\* What only spends cycles leaves a pending NMI imminent.
LEMMA NmiStaysImminent ==
    ASSUME ClockInv, cycles' \in Nat, cycles' >= cycles, UNCHANGED <<nmiPending, nmiPos>>
    PROVE  NmiImminent'
<1>1. NMIDMADelay \in Nat /\ cycles \in Nat /\ cycles' \in Nat /\ cycles' >= cycles
  BY ClockAssumption DEF ClockInv, TypeOK
<1>2. (nmiPending' <=> nmiPos' # None) /\ nmiPos' = nmiPos
  BY DEF ClockInv, NmiImminent
<1>3. CASE nmiPos = None
  BY <1>2, <1>3 DEF NmiImminent
<1>4. CASE nmiPos \in Int
  <2>1. nmiPos # None
    BY <1>4, ClockAssumption
  <2>2. nmiPos <= cycles + NMIDMADelay
    BY <2>1 DEF ClockInv, NmiImminent
  <2>3. PICK c \in Nat : c = cycles'
    BY <1>1
  <2>4. c >= cycles
    BY <1>1, <2>3
  <2>5. nmiPos <= c + NMIDMADelay
    BY <1>1, <1>4, <2>2, <2>4
  <2> QED
    BY <1>2, <2>3, <2>5 DEF NmiImminent
<1> QED
  BY <1>3, <1>4 DEF ClockInv, TypeOK

LEMMA EventFollows == event \in Events /\ Reschedule => event' \in Events
BY DEF Events, Reschedule, Following

LEMMA LineEventClockInv == ClockInv /\ LineEvent => ClockInv'
<1> SUFFICES ASSUME ClockInv, LineEvent PROVE ClockInv'
  OBVIOUS
<1>1. PICK n \in HDMACosts :
        cycles' = cycles + (IF event = "refresh" THEN RefreshCycles
                            ELSE IF \/ event = "hdma_init" /\ v = 0
                                    \/ event = "hdma_start" /\ v <= height
                            THEN n ELSE 0)
  BY DEF LineEvent
<1>2. n \in Nat /\ RefreshCycles \in Nat
  BY ClockAssumption
<1>3. cycles \in Nat /\ cycles' \in Nat /\ cycles' >= cycles
  BY <1>1, <1>2 DEF ClockInv, TypeOK
<1>4. event' \in Events
  BY EventFollows DEF ClockInv, TypeOK, LineEvent
<1>5. UNCHANGED <<v, hMax, vMax, field, screen, timer, nmi, waiting, scanKeys, phase>>
  BY DEF LineEvent
<1>6. TypeOK'
  BY <1>3, <1>4, <1>5 DEF ClockInv, TypeOK, screen, timer, nmi
<1>7. NmiImminent'
  BY <1>3, <1>5, NmiStaysImminent DEF ClockInv, nmi
<1> QED
  BY <1>6, <1>7 DEF ClockInv

LEMMA EndOfLineClockInv == ClockInv /\ EndOfLine => ClockInv'
<1> SUFFICES ASSUME ClockInv, EndOfLine PROVE ClockInv'
  OBVIOUS
<1> DEFINE blank == LineAfter = height + 1
           rebased == IF nmiPos = None THEN None ELSE nmiPos - hMax
<1>1. /\ H_Max_Master \in Nat /\ Dot \in Nat /\ Dot <= H_Max_Master
      /\ V_Max_Master \in Nat /\ V_Max_Master > 0
      /\ NMIStart \in Nat /\ NMIDMADelay \in Nat /\ NMIStart <= NMIDMADelay
      /\ None \notin Int
  BY ClockAssumption
<1>2. hMax \in Nat
  BY <1>1 DEF ClockInv, TypeOK
<1>3. cycles \in Nat /\ cycles >= hMax /\ cycles' = cycles - hMax
  BY DEF ClockInv, TypeOK, EndOfLine, Due, NextEvent, Position
<1>4. cycles' \in Nat
  BY <1>2, <1>3
<1>5. hMax' \in {H_Max_Master, H_Max_Master - Dot}
  BY <1>1 DEF EndOfLine, OneDotIf
<1>6. /\ vMax' \in {V_Max_Master, V_Max_Master + 1}
      /\ v' \in 0..(vMax' - 1)
  BY <1>1 DEF ClockInv, TypeOK, EndOfLine, LineAfter
<1>7. field' \in BOOLEAN /\ event' \in Events
  BY EventFollows DEF ClockInv, TypeOK, EndOfLine, FieldAfter
<1>8. irqTimer' \in Int
  BY <1>2, NeverIsInt DEF ClockInv, TypeOK, EndOfLine
<1>9. /\ scanKeys' = (scanKeys \/ blank)
      /\ nmiFlag' = (blank \/ (nmiFlag /\ LineAfter # 0))
      /\ nmiPending' = (nmiPending \/ (blank /\ "nmi" \in enabled))
      /\ nmiPos' = IF blank /\ "nmi" \in enabled THEN NMIStart ELSE rebased
  BY DEF EndOfLine
<1>10. nmiPos \in Int \/ nmiPos = None
  BY DEF ClockInv, TypeOK
<1>11. nmiPos' \in Int \cup {None}
  BY <1>1, <1>2, <1>9, <1>10
<1>12. TypeOK'
  <2>1. UNCHANGED <<screen, enabled, irqH, irqV, irqLine, changing, waiting, phase>>
    BY DEF EndOfLine
  <2>2. scanKeys' \in BOOLEAN /\ nmiFlag' \in BOOLEAN /\ nmiPending' \in BOOLEAN
    BY <1>9 DEF ClockInv, TypeOK
  <2> QED
    BY <1>4, <1>5, <1>6, <1>7, <1>8, <1>11, <2>1, <2>2 DEF ClockInv, TypeOK, screen
<1>13. NmiImminent'
  <2>1. CASE blank /\ "nmi" \in enabled
    <3>1. nmiPending'
      BY <1>9, <2>1
    <3>2. nmiPos' = NMIStart
      BY <1>9, <2>1
    <3>3. NMIStart # None
      BY <1>1
    <3>4. PICK c \in Nat : c = cycles'
      BY <1>4
    <3>5. NMIStart <= c + NMIDMADelay
      BY <1>1
    <3> QED
      BY <3>1, <3>2, <3>3, <3>4, <3>5 DEF NmiImminent
  <2>2. CASE ~(blank /\ "nmi" \in enabled)
    <3>1. nmiPending' = nmiPending /\ nmiPos' = rebased
      BY <1>9, <2>2 DEF ClockInv, TypeOK
    <3>2. CASE nmiPos = None
      BY <3>1, <3>2 DEF ClockInv, NmiImminent
    <3>3. CASE nmiPos \in Int
      <4>1. nmiPos' = nmiPos - hMax
        BY <1>1, <3>1, <3>3
      <4>2. nmiPos' \in Int /\ nmiPos' # None
        BY <1>1, <1>2, <3>3, <4>1
      <4>3. nmiPending /\ nmiPos <= cycles + NMIDMADelay
        BY <1>1, <3>3 DEF ClockInv, NmiImminent
      <4>4. nmiPos' <= cycles' + NMIDMADelay
        BY <1>1, <1>2, <1>3, <3>3, <4>1, <4>3
      <4> QED
        BY <3>1, <4>2, <4>3, <4>4 DEF NmiImminent
    <3> QED
      BY <1>10, <3>2, <3>3
  <2> QED
    BY <2>1, <2>2
<1> QED
  BY <1>12, <1>13 DEF ClockInv

-----------------------------------------------------------------------------
(* The main loop and the instructions. *)

\* What CHECK_FOR_IRQ_CHANGE schedules is imminent.
LEMMA ChangeIsImminent ==
    ASSUME ClockInv, CheckForChange, cycles' \in Nat, cycles' >= cycles
    PROVE  /\ NmiImminent'
           /\ nmiPos' \in Int \cup {None} /\ nmiPending' \in BOOLEAN /\ changing' \in BOOLEAN
<1>1. /\ NMIEdge \in Nat /\ NMIDMADelay \in Nat /\ NMIEdge <= NMIDMADelay
      /\ cycles \in Nat
  BY ClockAssumption DEF ClockInv, TypeOK
<1>2. CASE ~changing
  <2>1. UNCHANGED <<nmiPending, nmiPos>>
    BY <1>2 DEF CheckForChange, ClockInv, TypeOK
  <2> QED
    BY <2>1, NmiStaysImminent DEF CheckForChange, ClockInv, TypeOK
<1>3. CASE changing
  <2>1. nmiPending'
    BY <1>3 DEF CheckForChange
  <2>2. nmiPos' = cycles + NMIEdge
    BY <1>3 DEF CheckForChange
  <2>3. cycles + NMIEdge \in Int
    BY <1>1
  <2>4. nmiPos' # None
    BY <2>2, <2>3, ClockAssumption
  <2>5. PICK c \in Nat : c = cycles'
    OBVIOUS
  <2>6. c >= cycles
    BY <2>5
  <2>7. cycles + NMIEdge <= c + NMIDMADelay
    BY <1>1, <2>6
  <2> QED
    BY <2>1, <2>2, <2>3, <2>4, <2>5, <2>7 DEF NmiImminent, CheckForChange
<1> QED
  BY <1>2, <1>3 DEF ClockInv, TypeOK

LEMMA WakeSpends ==
    ClockInv /\ Wake => cycles' \in Nat /\ cycles' >= cycles /\ waiting' = FALSE
BY ClockAssumption DEF ClockInv, TypeOK, Wake

LEMMA StepClockInv == ClockInv /\ Step => ClockInv'
<1> SUFFICES ASSUME ClockInv, Step PROVE ClockInv'
  OBVIOUS
<1>1. /\ InterruptCost \in Nat /\ FetchCost \in Nat /\ Unset \in Nat
      /\ HTimes \subseteq Nat /\ VTimes \subseteq Nat
  BY ClockAssumption
<1>2. cycles \in Nat
  BY DEF ClockInv, TypeOK
<1>3. CASE LineEvent
  BY <1>3, LineEventClockInv
<1>4. CASE EndOfLine
  BY <1>4, EndOfLineClockInv
<1>5. CASE AcceptNMI
  <2>1. cycles' \in Nat /\ waiting' = FALSE
    BY <1>5, WakeSpends DEF AcceptNMI
  <2>2. TypeOK'
    BY <1>5, <2>1, ZenonT(60) DEF ClockInv, TypeOK, AcceptNMI, beam, screen, timer
  <2>3. NmiImminent'
    BY <1>5 DEF AcceptNMI, NmiImminent
  <2> QED
    BY <2>2, <2>3 DEF ClockInv
<1>6. CASE S9xOpcode_NMI
  <2>1. cycles' \in Nat /\ cycles' >= cycles
    BY <1>1, <1>2, <1>6 DEF S9xOpcode_NMI
  <2>2. /\ NmiImminent'
        /\ nmiPos' \in Int \cup {None} /\ nmiPending' \in BOOLEAN /\ changing' \in BOOLEAN
    BY <1>6, <2>1, ChangeIsImminent DEF S9xOpcode_NMI
  <2>3. TypeOK'
    BY <1>6, <2>1, <2>2 DEF ClockInv, TypeOK, S9xOpcode_NMI, beam, screen, timer
  <2> QED
    BY <2>2, <2>3 DEF ClockInv
<1>7. CASE CheckTimer
  <2>1. irqTimer' \in Int
    <3>1. irqH \in Nat /\ irqV \in Nat
      BY <1>1 DEF ClockInv, TypeOK
    <3>2. UpdateIRQPositions(enabled, irqH, irqV, FALSE) \in Int
      BY <3>1, UpdateIsInt DEF ClockInv
    <3> QED
      BY <1>7, <3>2 DEF CheckTimer, ClockInv, TypeOK
  <2>2. irqLine' \in BOOLEAN
    BY <1>7 DEF CheckTimer, ClockInv, TypeOK, TimerDue
  <2>3. cycles' \in Nat /\ cycles' >= cycles /\ waiting' \in BOOLEAN
    <3>1. CASE irqLine'
      BY <1>7, <3>1, WakeSpends DEF CheckTimer
    <3>2. CASE ~irqLine'
      BY <1>2, <1>7, <3>2 DEF CheckTimer, ClockInv, TypeOK
    <3> QED
      BY <3>1, <3>2
  <2>4. UNCHANGED <<beam, screen, enabled, irqH, irqV, nmi, scanKeys>> /\ phase' \in {"irq", "last"}
    BY <1>7 DEF CheckTimer
  <2>5. TypeOK'
    BY <2>1, <2>2, <2>3, <2>4 DEF ClockInv, TypeOK, beam, screen, nmi
  <2>6. NmiImminent'
    BY <2>3, <2>4, NmiStaysImminent DEF ClockInv, nmi
  <2> QED
    BY <2>5, <2>6 DEF ClockInv
<1>8. CASE S9xOpcode_IRQ
  <2>1. UNCHANGED <<beam, screen, timer, nmiFlag, waiting, scanKeys>> /\ phase' = "last"
    BY <1>8 DEF S9xOpcode_IRQ
  <2>2. CASE CheckForChange /\ cycles' = cycles + InterruptCost
    <3>1. cycles' \in Nat /\ cycles' >= cycles
      BY <1>1, <1>2, <2>2
    <3>2. /\ NmiImminent'
          /\ nmiPos' \in Int \cup {None} /\ nmiPending' \in BOOLEAN /\ changing' \in BOOLEAN
      BY <2>2, <3>1, ChangeIsImminent
    <3>3. TypeOK'
      BY <2>1, <3>1, <3>2 DEF ClockInv, TypeOK, beam, screen, timer
    <3> QED
      BY <3>2, <3>3 DEF ClockInv
  <2>3. CASE UNCHANGED <<cycles, nmi>>
    BY <2>1, <2>3 DEF ClockInv, TypeOK, NmiImminent, beam, screen, timer, nmi
  <2> QED
    BY <1>8, <2>2, <2>3 DEF S9xOpcode_IRQ
<1>9. CASE Fetch
  <2>1. cycles' \in Nat /\ cycles' >= cycles /\ phase' \in {"out", "op"}
    BY <1>1, <1>2, <1>9 DEF Fetch
  <2>2. /\ NmiImminent'
        /\ nmiPos' \in Int \cup {None} /\ nmiPending' \in BOOLEAN /\ changing' \in BOOLEAN
    BY <1>9, <2>1, ChangeIsImminent DEF Fetch
  <2>3. UNCHANGED <<beam, screen, timer, nmiFlag, waiting, scanKeys>>
    BY <1>9 DEF Fetch
  <2>4. TypeOK'
    BY <2>1, <2>2, <2>3 DEF ClockInv, TypeOK, beam, screen, timer
  <2> QED
    BY <2>2, <2>4 DEF ClockInv
<1>10. CASE FrontEnd
  BY <1>10, ZenonT(60) DEF ClockInv, TypeOK, NmiImminent, FrontEnd, beam, screen, timer, nmi
<1> QED
  BY <1>3, <1>4, <1>5, <1>6, <1>7, <1>8, <1>9, <1>10 DEF Step

LEMMA SpendIsLater ==
    ClockInv /\ Spend => cycles' \in Nat /\ cycles' >= cycles
<1> SUFFICES ASSUME ClockInv, Spend PROVE cycles' \in Nat /\ cycles' >= cycles
  OBVIOUS
<1>1. PICK n \in OpCosts : cycles' = cycles + n
  BY DEF Spend
<1>2. n \in Nat /\ cycles \in Nat
  BY ClockAssumption DEF ClockInv, TypeOK
<1> QED
  BY <1>1, <1>2

\* An instruction that leaves the NMI alone keeps the invariant if it writes
\* registers of the right type.
LEMMA OpClockInv ==
    ASSUME ClockInv, Spend, phase' = "top",
           UNCHANGED <<beam, scanKeys, nmiPending, nmiPos>>,
           height' \in Heights, interlace' \in BOOLEAN,
           enabled' \in {{}} \cup Enables,
           irqH' \in {Unset} \cup HTimes, irqV' \in {Unset} \cup VTimes,
           irqTimer' \in Int, irqLine' \in BOOLEAN,
           nmiFlag' \in BOOLEAN, changing' \in BOOLEAN, waiting' \in BOOLEAN
    PROVE  ClockInv'
<1>1. cycles' \in Nat /\ cycles' >= cycles
  BY SpendIsLater
<1>2. TypeOK'
  BY <1>1 DEF ClockInv, TypeOK, beam
<1>3. NmiImminent'
  BY <1>1, NmiStaysImminent
<1> QED
  BY <1>2, <1>3 DEF ClockInv

LEMMA InstructionClockInv == ClockInv /\ Instruction => ClockInv'
<1> SUFFICES ASSUME ClockInv, Instruction PROVE ClockInv'
  OBVIOUS
<1>1. Unset \in Nat /\ HTimes \subseteq Nat /\ VTimes \subseteq Nat /\ Interlaces \subseteq BOOLEAN
  BY ClockAssumption
<1>2. irqH \in Nat /\ irqV \in Nat
  BY <1>1 DEF ClockInv, TypeOK
<1>3. CASE Plain
  BY <1>3, OpClockInv DEF Plain, Op, ClockInv, TypeOK, screen, timer, nmi
<1>4. CASE WAI
  BY <1>4, OpClockInv DEF WAI, ClockInv, TypeOK, beam, screen, timer, nmi
<1>5. ASSUME NEW en \in Enables, WriteNMITIMEN(en) PROVE ClockInv'
  <2>1. irqTimer' \in Int
    <3>1. \A i \in BOOLEAN : UpdateIRQPositions(en, irqH, irqV, i) \in Int
      BY <1>2, UpdateIsInt DEF ClockInv
    <3> QED
      BY <1>5, <3>1 DEF WriteNMITIMEN, ClockInv, TypeOK
  <2>2. irqLine' \in BOOLEAN /\ changing' \in BOOLEAN /\ enabled' = en
    BY <1>5 DEF WriteNMITIMEN, ClockInv, TypeOK
  <2>3. /\ Op
        /\ UNCHANGED <<screen, irqH, irqV, nmiFlag, nmiPending, nmiPos, waiting>>
    BY <1>5 DEF WriteNMITIMEN
  <2> QED
    BY <2>1, <2>2, <2>3, OpClockInv DEF Op, ClockInv, TypeOK, screen
<1>6. ASSUME NEW h \in HTimes, WriteHTIME(h) PROVE ClockInv'
  <2>1. UpdateIRQPositions(enabled, h, irqV, FALSE) \in Int
    BY <1>1, <1>2, UpdateIsInt DEF ClockInv
  <2> QED
    BY <1>6, <2>1, OpClockInv DEF WriteHTIME, Op, ClockInv, TypeOK, screen, nmi
<1>7. ASSUME NEW vt \in VTimes, WriteVTIME(vt) PROVE ClockInv'
  <2>1. UpdateIRQPositions(enabled, irqH, vt, TRUE) \in Int
    BY <1>1, <1>2, UpdateIsInt DEF ClockInv
  <2> QED
    BY <1>7, <2>1, OpClockInv DEF WriteVTIME, Op, ClockInv, TypeOK, screen, nmi
<1>8. CASE ReadRDNMI
  BY <1>8, OpClockInv DEF ReadRDNMI, Op, ClockInv, TypeOK, screen, timer
<1>9. CASE ReadTIMEUP
  BY <1>9, OpClockInv DEF ReadTIMEUP, Op, ClockInv, TypeOK, screen, nmi
<1>10. ASSUME NEW lines \in Heights, NEW mode \in Interlaces, WriteSETINI(lines, mode)
       PROVE ClockInv'
  BY <1>1, <1>10, OpClockInv DEF WriteSETINI, Op, ClockInv, TypeOK, timer, nmi
<1>11. CASE StartDMA
  BY <1>11 DEF StartDMA, ClockInv, TypeOK, NmiImminent, beam, screen, timer, nmi
<1>12. CASE DMAByte
  <2>1. UNCHANGED <<beam, screen, timer, nmi, waiting, scanKeys, phase>>
    BY <1>12 DEF DMAByte
  <2>2. cycles' \in Nat /\ cycles' >= cycles
    BY <1>12, ClockAssumption DEF DMAByte, ClockInv, TypeOK
  <2>3. TypeOK'
    BY <2>1, <2>2 DEF ClockInv, TypeOK, beam, screen, timer, nmi
  <2>4. NmiImminent'
    BY <2>1, <2>2, NmiStaysImminent DEF nmi
  <2> QED
    BY <2>3, <2>4 DEF ClockInv
<1>13. CASE EndDMA
  <2>1. cycles' \in Nat /\ cycles' >= cycles
    BY <1>13, SpendIsLater DEF EndDMA
  <2>2. UNCHANGED <<beam, screen, timer, nmiFlag, nmiPending, changing, waiting, scanKeys>>
        /\ phase' = "top"
    BY <1>13 DEF EndDMA
  <2>3. CASE nmiPending /\ nmiPos' # nmiPos
    <3>1. nmiPos' = cycles + NMIDMADelay
      BY <1>13, <2>3 DEF EndDMA, ClockInv, NmiImminent
    <3>2. cycles \in Nat /\ NMIDMADelay \in Nat
      BY ClockAssumption DEF ClockInv, TypeOK
    <3>3. cycles + NMIDMADelay \in Int
      BY <3>2
    <3>4. nmiPos' # None
      BY <3>1, <3>3, ClockAssumption
    <3>5. PICK c \in Nat : c = cycles'
      BY <2>1
    <3>6. c >= cycles
      BY <2>1, <3>5
    <3>7. cycles + NMIDMADelay <= c + NMIDMADelay
      BY <3>2, <3>6
    <3>8. NmiImminent'
      BY <2>2, <2>3, <3>1, <3>4, <3>5, <3>7 DEF NmiImminent
    <3>9. TypeOK'
      BY <2>1, <2>2, <3>1, <3>3 DEF ClockInv, TypeOK, beam, screen, timer
    <3> QED
      BY <3>8, <3>9 DEF ClockInv
  <2>4. CASE nmiPos' = nmiPos
    <3>2. TypeOK'
      BY <2>1, <2>2, <2>4 DEF ClockInv, TypeOK, beam, screen, timer
    <3>3. NmiImminent'
      BY <2>1, <2>2, <2>4, NmiStaysImminent
    <3> QED
      BY <3>2, <3>3 DEF ClockInv
  <2>5. nmiPos' = nmiPos \/ nmiPending
    BY <1>13 DEF EndDMA
  <2> QED
    BY <2>3, <2>4, <2>5
<1> QED
  BY <1>3, <1>4, <1>5, <1>6, <1>7, <1>8, <1>9, <1>10, <1>11, <1>12, <1>13 DEF Instruction

LEMMA ClockInvStep == ClockInv /\ [Next]_vars => ClockInv'
<1>1. ClockInv /\ Next => ClockInv'
  BY StepClockInv, InstructionClockInv DEF Next
<1>2. ClockInv /\ UNCHANGED vars => ClockInv'
  BY DEF ClockInv, TypeOK, NmiImminent, vars, beam, screen, timer, nmi
<1> QED
  BY <1>1, <1>2

LEMMA ClockInvAlways == Spec => []ClockInv
BY InitClockInv, ClockInvStep, PTL DEF Spec

-----------------------------------------------------------------------------
(* The theorems. *)

\* The count of cycles, the line and the registers keep their types: in
\* particular the rebasing at the end of a line never takes the count of cycles
\* below zero, and the line stays inside the frame (cpuexec.cpp).
THEOREM TypeCorrect == Spec => []TypeOK
<1>1. ClockInv => TypeOK
  BY DEF ClockInv
<1> QED
  BY <1>1, ClockInvAlways, PTL

\* A pending NMI is never further off than the delay after a DMA, whatever set
\* it and wherever in the line (cpuexec.cpp, ppu.cpp, dma.cpp).
THEOREM NmiImminentInv == Spec => []NmiImminent
<1>1. ClockInv => NmiImminent
  BY DEF ClockInv
<1> QED
  BY <1>1, ClockInvAlways, PTL
-----------------------------------------------------------------------------
(* The IRQ timer. Where it is aimed is told from the beam alone, in closed  *)
(* form: how many lines on the programmed position is, and how many cycles  *)
(* before (or after) it the timer is set. At most one dot: of the short     *)
(* lines that are taken off, only one can lie before the position.          *)

\* Games write to HTIME the dots of a line.
DotsInLine == \A h \in HTimes : HTimerPosition(h) <= H_Max_Master - Dot + IRQTriggerCycles

TimerDot(en, h) == IF "h" \in en THEN HTimerPosition(h) ELSE VOnlyPosition

\* Whether dot position hc of line vt is still to come in this frame after c.
ThisFrame(hc, vt, c) == vt > v \/ (vt = v /\ hc > c)

LinesTo(hc, vt, c) == IF ThisFrame(hc, vt, c) THEN vt - v ELSE vMax - v + vt

Early(hc, vt, c, t) == LinesTo(hc, vt, c) * H_Max_Master + hc - t

\* The timer is at most a dot before the position. It is after it, a dot, only
\* when the short line was taken off as it ended, and then none lies ahead.
OnFrame(hc, vt, c, t) ==
    /\ Early(hc, vt, c, t) \in -Dot..Dot
    /\ Early(hc, vt, c, t) >= 0 \/ IF field THEN v > ShortLine ELSE ThisFrame(hc, vt, c)

OnLine(hc, c, t) ==
    \/ hc > c /\ t \in (hc - Dot)..hc
    \/ hc <= c + IRQTriggerCycles /\ t \in (hc + hMax - Dot)..(hc + hMax)

Aimed(en, h, vt, c, t) ==
    \/ t <= c + IRQTriggerCycles
    \/ "v" \in en /\ OnFrame(TimerDot(en, h), vt, c, t)
    \/ "v" \notin en /\ OnLine(TimerDot(en, h), c, t)

CanAim(en, h, vt) ==
    /\ en \cap {"v", "h"} # {}
    /\ "v" \in en => vt < V_Max_Master
    /\ "h" \in en => h # Unset

\* Only the short line of an odd field is short.
ShortAlone == hMax # H_Max_Master => v = ShortLine /\ field

AimInv ==
    /\ enabled \cap {"v", "h"} = {} => irqTimer = Never
    /\ ShortAlone
    /\ CanAim(enabled, irqH, irqV) =>
         irqTimer < Never /\ Aimed(enabled, irqH, irqV, cycles, irqTimer)

LEMMA Sizes ==
    /\ Dot \in Nat /\ H_Max_Master \in Nat /\ V_Max_Master \in Nat /\ ShortLine \in Nat
    /\ IRQTriggerCycles \in Nat /\ Unset \in Nat
    /\ Dot <= IRQTriggerCycles /\ Dot < H_Max_Master /\ V_Max_Master > 1
    /\ HTimes \subseteq Nat /\ VTimes \subseteq Nat
BY ClockAssumption, TimingAssumption

LEMMA NextLine == ASSUME NEW n \in Int, NEW k \in Nat PROVE (n - 1) * k = n * k - k
OBVIOUS

LEMMA MoreLines ==
    ASSUME NEW m \in Int, NEW n \in Int, NEW k \in Nat, m <= n PROVE m * k <= n * k
OBVIOUS

LEMMA HalfDots ==
    ASSUME NEW h \in Nat
    PROVE  /\ ShortDots(h) \in 0..Dot
           /\ HTimerPosition(h) \in Nat
<1>1. LongDotsBefore(h) \in {0, 1, 2}
  BY DEF LongDotsBefore
<1>2. PICK k \in Nat : k = Dot \div 2 /\ 2 * k <= Dot
  BY Sizes
<1>3. ShortDots(h) = (2 - LongDotsBefore(h)) * k
  BY <1>2 DEF ShortDots
<1>4. h * Dot \in Nat
  BY Sizes
<1>5. HTimerPosition(h) = h * Dot + IRQTriggerCycles - (IF h = 0 THEN Dot ELSE 0)
                            + LongDotsBefore(h) * k
  BY <1>2 DEF HTimerPosition
<1>6. LongDotsBefore(h) * k \in Nat /\ (2 - LongDotsBefore(h)) * k \in 0..Dot
  BY <1>1, <1>2, Sizes
<1> QED
  BY <1>3, <1>4, <1>5, <1>6, Sizes

LEMMA DotOfTimer ==
    ASSUME DotsInLine, NEW en, NEW h \in Nat, "h" \in en => h \in HTimes
    PROVE  /\ TimerDot(en, h) \in Nat
           /\ TimerDot(en, h) <= H_Max_Master - Dot + IRQTriggerCycles
<1>1. CASE "h" \in en
  BY <1>1, HalfDots, Sizes DEF TimerDot, DotsInLine
<1>2. CASE "h" \notin en
  BY <1>2, Sizes DEF TimerDot, VOnlyPosition
<1> QED
  BY <1>1, <1>2

\* A position as CyclesUntilNext counts it, less the dots that are missing
\* before it on the short line, is aimed: of the corrections at most one is made.
LEMMA NextAims ==
    ASSUME TypeOK, NEW hc \in Nat, NEW vt \in Nat, vt < V_Max_Master,
           hc <= H_Max_Master + IRQTriggerCycles,
           NEW s \in 0..Dot,
           s # 0 => /\ vt = ShortLine
                    /\ Short(IF vt < v \/ (vt = v /\ CyclesUntilNext(hc, vt) > hMax)
                             THEN ~field ELSE field)
    PROVE  /\ OnFrame(hc, vt, cycles, CyclesUntilNext(hc, vt) - s)
           /\ CyclesUntilNext(hc, vt) - s < Never
<1> USE Sizes
<1> DEFINE next == CyclesUntilNext(hc, vt)
           n == LinesTo(hc, vt, cycles)
           d0 == OneDotIf(v <= ShortLine /\ vt > ShortLine /\ Short(field))
           d1 == OneDotIf(v <= ShortLine /\ Short(field))
           d2 == OneDotIf(vt > ShortLine /\ Short(~field))
<1>1. /\ v \in Nat /\ cycles \in Nat /\ vMax \in Nat /\ hMax \in Int /\ field \in BOOLEAN
      /\ v < vMax /\ vMax >= V_Max_Master /\ vMax <= V_Max_Master + 1
      /\ hMax <= H_Max_Master
  BY DEF TypeOK
<1>2. n \in Nat /\ n <= 2 * V_Max_Master
  BY <1>1 DEF LinesTo, ThisFrame
<1>3. PICK far \in Nat : far = n * H_Max_Master
  BY <1>2
<1>4. PICK e \in 0..Dot : next - s = far + hc - e
  <2>1. CASE vt > v
    <3>1. n = vt - v /\ next = far + hc - d0
      BY <1>1, <1>3, <2>1 DEF CyclesUntilNext, LinesTo, ThisFrame
    <3>2. d0 \in 0..Dot /\ (d0 # 0 => vt > ShortLine)
      BY DEF OneDotIf
    <3>3. d0 + s \in 0..Dot
      BY <3>2
    <3>4. next - s = far + hc - (d0 + s)
      BY <3>1, <3>2, <1>3
    <3> QED
      BY <3>3, <3>4
  <2>2. CASE vt = v /\ hc > cycles
    <3>1. n = 0 /\ next = hc
      BY <1>1, <2>2 DEF CyclesUntilNext, LinesTo, ThisFrame
    <3>2. far = 0
      BY <1>3, <3>1
    <3> QED
      BY <3>1, <3>2
  <2>3. CASE ~(vt > v) /\ ~(vt = v /\ hc > cycles)
    <3>1. n = vMax - v + vt /\ next = far + hc - d1 - d2
      BY <1>1, <1>3, <2>3 DEF CyclesUntilNext, LinesTo, ThisFrame
    <3>2. d1 \in {0, Dot} /\ (d1 # 0 => Short(field))
      BY DEF OneDotIf
    <3>3. d2 \in {0, Dot} /\ (d2 # 0 => Short(~field) /\ vt > ShortLine)
      BY DEF OneDotIf
    <3>4. d1 = 0 \/ d2 = 0
      BY <3>2, <3>3 DEF Short
    <3>5. s # 0 => d2 = 0
      BY <3>3
    <3>6. s # 0 => d1 = 0
      <4>1. SUFFICES ASSUME s # 0, d1 # 0 PROVE FALSE
        OBVIOUS
      <4>2. field
        BY <3>2, <4>1 DEF Short
      <4>3. vt = v /\ ~(next > hMax)
        <5>1. ~(vt < v \/ (vt = v /\ CyclesUntilNext(hc, vt) > hMax))
          BY <4>1, <4>2 DEF Short
        <5> QED
          BY <5>1, <1>1, <2>3
      <4>4. far >= 2 * H_Max_Master
        <5>1. 2 <= n
          BY <1>1, <3>1, <4>3
        <5> QED
          BY <1>2, <1>3, <5>1, MoreLines
      <4> QED
        BY <1>1, <3>1, <3>2, <3>5, <4>1, <4>3, <4>4
    <3>7. d1 + d2 + s \in 0..Dot
      BY <3>2, <3>3, <3>4, <3>5, <3>6
    <3>8. next - s = far + hc - (d1 + d2 + s)
      BY <3>1, <3>2, <3>3
    <3> QED
      BY <3>7, <3>8
  <2> QED
    BY <2>1, <2>2, <2>3
<1> HIDE DEF next, n, d0, d1, d2
<1>5. Early(hc, vt, cycles, next - s) = e
  BY <1>3, <1>4 DEF Early, n
<1>6. OnFrame(hc, vt, cycles, next - s)
  BY <1>5 DEF OnFrame
<1>7. next - s < Never
  <2>1. PICK most \in Nat : most = (2 * V_Max_Master + 2) * H_Max_Master
    OBVIOUS
  <2>2. (n + 1) * H_Max_Master <= most
    BY <1>2, <2>1, MoreLines
  <2>3. (n + 1) * H_Max_Master = far + H_Max_Master
    BY <1>2, <1>3
  <2>4. most + IRQTriggerCycles < Never
    BY <2>1, TimingAssumption
  <2> QED
    BY <1>3, <1>4, <2>1, <2>2, <2>3, <2>4, NeverIsInt
<1> QED
  BY <1>6, <1>7 DEF next

\* What S9xUpdateIRQPositions sets is aimed.
LEMMA UpdateAims ==
    ASSUME TypeOK, DotsInLine, cycles <= H_Max_Master, NEW en, NEW h \in Nat, NEW vt \in Nat,
           NEW initial, "h" \in en => h \in HTimes, CanAim(en, h, vt)
    PROVE  /\ UpdateIRQPositions(en, h, vt, initial) < Never
           /\ Aimed(en, h, vt, cycles, UpdateIRQPositions(en, h, vt, initial))
<1> USE Sizes
<1> DEFINE hc == HTimerPosition(h)
           next == CyclesUntilNext(hc, vt)
           later == vt < v \/ (vt = v /\ next > hMax)
           s1 == IF v + 1 = ShortLine /\ Short(field) THEN ShortDots(h) ELSE 0
           s2 == IF v = ShortLine /\ Short(field) THEN ShortDots(h) ELSE 0
           s3 == IF vt = ShortLine /\ Short(IF later THEN ~field ELSE field)
                 THEN ShortDots(h) ELSE 0
           u == UpdateIRQPositions(en, h, vt, initial)
<1>1. u = IF "v" \in en /\ vt >= vMax + (IF interlace THEN 1 ELSE 0) THEN Never
          ELSE IF en \cap {"v", "h"} = {} THEN Never
          ELSE IF "v" \notin en THEN
              IF cycles > hc - IRQTriggerCycles THEN hc + hMax - s1 ELSE hc - s2
          ELSE IF "h" \notin en THEN
              IF v = vt /\ initial THEN cycles + VOnlyPosition
              ELSE CyclesUntilNext(VOnlyPosition, vt)
          ELSE next - s3
  BY DEF UpdateIRQPositions
<1>2. /\ v \in Nat /\ cycles \in Nat /\ vMax \in Nat /\ hMax \in Int /\ field \in BOOLEAN
      /\ vMax >= V_Max_Master /\ hMax <= H_Max_Master /\ hMax >= 0
  BY DEF TypeOK
<1>3. /\ hc \in Nat /\ s1 \in 0..Dot /\ s2 \in 0..Dot /\ s3 \in 0..Dot
  BY HalfDots
<1>4. /\ ~(en \cap {"v", "h"} = {})
      /\ ~("v" \in en /\ vt >= vMax + (IF interlace THEN 1 ELSE 0))
      /\ "v" \in en \/ "h" \in en
  BY <1>2 DEF CanAim
<1>5. 2 * H_Max_Master + IRQTriggerCycles < Never
  <2>1. PICK most \in Nat : most = (2 * V_Max_Master + 2) * H_Max_Master
    OBVIOUS
  <2>2. 2 * H_Max_Master <= most
    BY <2>1, MoreLines
  <2> QED
    BY <2>1, <2>2, TimingAssumption, NeverIsInt
<1> HIDE DEF s1, s2, s3, u
<1>6. CASE "v" \notin en
  <2>1. hc <= H_Max_Master - Dot + IRQTriggerCycles /\ TimerDot(en, h) = hc
    BY <1>4, <1>6 DEF DotsInLine, TimerDot
  <2>2. u = IF cycles > hc - IRQTriggerCycles THEN hc + hMax - s1 ELSE hc - s2
    BY <1>1, <1>4, <1>6
  <2> HIDE DEF hc
  <2>3. u < Never
    BY <1>2, <1>3, <1>5, <2>1, <2>2, NeverIsInt
  <2>4. u <= cycles + IRQTriggerCycles \/ OnLine(hc, cycles, u)
    BY <1>2, <1>3, <2>2 DEF OnLine
  <2> QED
    BY <1>6, <2>1, <2>3, <2>4 DEF Aimed, u
<1>7. CASE "v" \in en /\ "h" \notin en
  <2>1. TimerDot(en, h) = VOnlyPosition /\ VOnlyPosition \in Nat
        /\ VOnlyPosition <= H_Max_Master + IRQTriggerCycles /\ vt < V_Max_Master
    BY <1>7 DEF TimerDot, VOnlyPosition, CanAim
  <2>2. CASE v = vt /\ initial
    <3>1. u = cycles + IRQTriggerCycles - Dot
      BY <1>1, <1>2, <1>4, <1>7, <2>2 DEF VOnlyPosition
    <3>2. cycles <= H_Max_Master => u < Never
      BY <1>2, <1>5, <3>1, NeverIsInt
    <3> QED
      BY <1>2, <3>1, <3>2 DEF Aimed, u
  <2>3. CASE ~(v = vt /\ initial)
    <3>1. u = CyclesUntilNext(VOnlyPosition, vt)
      BY <1>1, <1>4, <1>7, <2>3
    <3>2. CyclesUntilNext(VOnlyPosition, vt) \in Int
      BY <2>1, NextIsInt
    <3>3. u = CyclesUntilNext(VOnlyPosition, vt) - 0
      BY <3>1, <3>2
    <3>4. OnFrame(VOnlyPosition, vt, cycles, u) /\ u < Never
      BY <2>1, <3>3, NextAims
    <3> QED
      BY <1>7, <2>1, <3>4 DEF Aimed, u
  <2> QED
    BY <2>2, <2>3
<1>8. CASE "v" \in en /\ "h" \in en
  <2>1. hc <= H_Max_Master + IRQTriggerCycles /\ TimerDot(en, h) = hc /\ vt < V_Max_Master
    BY <1>3, <1>8 DEF DotsInLine, TimerDot, CanAim
  <2>2. u = next - s3
    BY <1>1, <1>4, <1>8
  <2>3. s3 # 0 => vt = ShortLine /\ Short(IF later THEN ~field ELSE field)
    BY DEF s3
  <2>4. OnFrame(hc, vt, cycles, u) /\ u < Never
    BY <1>3, <2>1, <2>2, <2>3, NextAims
  <2> QED
    BY <1>8, <2>1, <2>4 DEF Aimed, u
<1> QED
  BY <1>4, <1>6, <1>7, <1>8 DEF u

\* Cycles that pass leave the timer aimed, until it is about to fire.
LEMMA StaysAimed ==
    ASSUME TypeOK, DotsInLine, NEW en, NEW h \in Nat, NEW vt \in Nat,
           "h" \in en => h \in HTimes,
           NEW t \in Int, NEW c \in Nat, NEW d \in Nat, c <= d, Aimed(en, h, vt, c, t)
    PROVE  Aimed(en, h, vt, d, t)
<1> USE Sizes
<1>1. PICK hc \in Nat : hc = TimerDot(en, h)
  BY DotOfTimer
<1>2. v \in Nat /\ hMax \in Int /\ vMax \in Nat /\ field \in BOOLEAN
  BY DEF TypeOK
<1>3. CASE t <= c + IRQTriggerCycles
  BY <1>3 DEF Aimed
<1>4. CASE "v" \in en /\ OnFrame(hc, vt, c, t)
  <2>1. CASE ThisFrame(hc, vt, c) /\ ~ThisFrame(hc, vt, d)
    <3>1. LinesTo(hc, vt, c) = 0 /\ hc <= d
      BY <1>2, <2>1 DEF LinesTo, ThisFrame
    <3>2. Early(hc, vt, c, t) = hc - t
      BY <3>1 DEF Early
    <3>3. t <= d + IRQTriggerCycles
      BY <1>4, <3>1, <3>2 DEF OnFrame
    <3> QED
      BY <3>3 DEF Aimed
  <2>2. CASE ThisFrame(hc, vt, c) = ThisFrame(hc, vt, d)
    <3>1. OnFrame(hc, vt, d, t)
      BY <1>4, <2>2 DEF OnFrame, Early, LinesTo
    <3> QED
      BY <1>1, <1>4, <3>1 DEF Aimed
  <2>3. ThisFrame(hc, vt, d) => ThisFrame(hc, vt, c)
    BY <1>2 DEF ThisFrame
  <2> QED
    BY <2>1, <2>2, <2>3 DEF ThisFrame
<1>5. CASE "v" \notin en /\ OnLine(hc, c, t)
  <2>1. t <= d + IRQTriggerCycles \/ OnLine(hc, d, t)
    BY <1>2, <1>5 DEF OnLine
  <2> QED
    BY <1>1, <1>5, <2>1 DEF Aimed
<1> QED
  BY <1>1, <1>3, <1>4, <1>5 DEF Aimed

\* So does the end of a line: timer and cycles are rebased by the same amount.
LEMMA EndOfLineAims ==
    ASSUME TypeOK, ShortAlone, DotsInLine, EndOfLine, NEW en, NEW h \in Nat, NEW vt \in Nat,
           "h" \in en => h \in HTimes, CanAim(en, h, vt),
           NEW t \in Int, Aimed(en, h, vt, cycles, t), NEW t1 \in Int, t1 = t - hMax
    PROVE  Aimed(en, h, vt, cycles, t1)'
<1> USE Sizes
<1>1. PICK hc \in Nat : /\ hc = TimerDot(en, h)
                        /\ hc <= H_Max_Master - Dot + IRQTriggerCycles
  BY DotOfTimer
<1>2. /\ v \in Nat /\ cycles \in Nat /\ vMax \in Nat /\ field \in BOOLEAN
      /\ v < vMax /\ vMax >= V_Max_Master
      /\ hMax \in {H_Max_Master, H_Max_Master - Dot} /\ hMax \in Nat
  BY DEF TypeOK
<1>3. PICK c \in Nat : c = cycles' /\ c = cycles - hMax
  BY <1>2 DEF EndOfLine, Due, NextEvent, Position
<1>4. PICK w \in Nat : w = v' /\ w = LineAfter
  BY <1>2 DEF EndOfLine, LineAfter
<1>5. field' = FieldAfter
  BY DEF EndOfLine
<1>6. v' # 0 => vMax' = vMax
  BY DEF EndOfLine
<1>7. t1 = t - hMax
  OBVIOUS
<1>8. /\ Aimed(en, h, vt, cycles, t1)' <=>
           \/ t1 <= c + IRQTriggerCycles
           \/ "v" \in en /\ OnFrame(hc, vt, c, t1)'
           \/ "v" \notin en /\ OnLine(hc, c, t1)'
  <2>1. TimerDot(en, h)' = hc /\ cycles' = c
    BY <1>1, <1>3 DEF TimerDot, HTimerPosition, VOnlyPosition
  <2> QED
    BY <2>1 DEF Aimed, OnFrame, OnLine, Early, LinesTo, ThisFrame
<1> SUFFICES ASSUME ~(t1 <= c + IRQTriggerCycles)
             PROVE  \/ "v" \in en /\ OnFrame(hc, vt, c, t1)'
                    \/ "v" \notin en /\ OnLine(hc, c, t1)'
  BY <1>8
<1>9. CASE "v" \notin en /\ OnLine(hc, cycles, t)
  <2>1. t1 \in (hc - Dot)..hc /\ hc > c
    BY <1>1, <1>2, <1>3, <1>7, <1>9 DEF OnLine
  <2> QED
    BY <1>9, <2>1 DEF OnLine
<1>10. CASE "v" \in en /\ OnFrame(hc, vt, cycles, t)
  <2>1. vt < V_Max_Master
    BY <1>10 DEF CanAim
  <2> DEFINE n == LinesTo(hc, vt, cycles)
  <2>2. n \in Nat
    BY <1>2 DEF LinesTo, ThisFrame
  <2>3. PICK far \in Int : far = n * H_Max_Master
    BY <2>2
  <2>4. PICK e \in -Dot..Dot : /\ e = far + hc - t
                               /\ e >= 0 \/ IF field THEN v > ShortLine
                                            ELSE ThisFrame(hc, vt, cycles)
    BY <1>10, <2>3 DEF OnFrame, Early
  <2>5. hMax # H_Max_Master => v = ShortLine /\ field /\ e >= 0
    BY <2>4 DEF ShortAlone
  <2>6. t1 = far + hc - e - hMax
    BY <1>2, <1>7, <2>3, <2>4
  <2>7. n >= 1
    <3>1. CASE n = 0
      <4>1. far = 0 /\ (e >= 0 \/ hMax = H_Max_Master)
        BY <2>3, <2>5, <3>1
      <4> QED
        BY <1>1, <1>2, <2>5, <2>6, <4>1
    <3> QED
      BY <2>2, <3>1
  <2>8. ~(n = 1 /\ hc <= c)
    <3>1. SUFFICES ASSUME n = 1, hc <= c PROVE FALSE
      OBVIOUS
    <3>2. far = H_Max_Master
      BY <2>3, <3>1
    <3> QED
      BY <1>2, <2>5, <2>6, <3>1, <3>2
  <2>9. /\ LinesTo(hc, vt, c)' = n - 1
        /\ ThisFrame(hc, vt, cycles) => ThisFrame(hc, vt, c)'
        /\ ~ThisFrame(hc, vt, cycles) /\ w # 0 => ~ThisFrame(hc, vt, c)'
        /\ w # 0 => w = v + 1 /\ field' = field
        /\ w = 0 => /\ ~ThisFrame(hc, vt, cycles) /\ ThisFrame(hc, vt, c)'
                    /\ field' = ~field
    <3>1. CASE vt > v
      <4>1. n = vt - v /\ ThisFrame(hc, vt, cycles) /\ w = v + 1 /\ field' = field
        BY <1>2, <1>4, <1>5, <2>1, <3>1 DEF LinesTo, ThisFrame, LineAfter, FieldAfter
      <4>2. vt > w \/ (vt = w /\ hc > c)
        BY <1>2, <2>8, <3>1, <4>1
      <4>3. ThisFrame(hc, vt, c)' /\ LinesTo(hc, vt, c)' = vt - w
        BY <1>4, <4>2 DEF ThisFrame, LinesTo
      <4> QED
        BY <1>2, <4>1, <4>3
    <3>2. CASE ~ThisFrame(hc, vt, cycles) /\ v + 1 < vMax
      <4>1. n = vMax - v + vt /\ w = v + 1 /\ field' = field /\ vt <= v
        BY <1>2, <1>4, <1>5, <3>2 DEF LinesTo, ThisFrame, LineAfter, FieldAfter
      <4>2. ~ThisFrame(hc, vt, c)' /\ LinesTo(hc, vt, c)' = vMax - w + vt
        BY <1>2, <1>4, <1>6, <4>1 DEF ThisFrame, LinesTo
      <4> QED
        BY <1>2, <3>2, <4>1, <4>2
    <3>3. CASE ~ThisFrame(hc, vt, cycles) /\ ~(v + 1 < vMax)
      <4>1. v + 1 = vMax
        BY <1>2, <3>3
      <4>2. n = 1 + vt /\ w = 0 /\ field' = ~field
        BY <1>2, <1>4, <1>5, <3>3, <4>1 DEF LinesTo, LineAfter, FieldAfter
      <4>3. vt > 0 \/ (vt = 0 /\ hc > c)
        BY <2>8, <4>2
      <4>4. ThisFrame(hc, vt, c)' /\ LinesTo(hc, vt, c)' = vt
        BY <1>4, <4>2, <4>3 DEF ThisFrame, LinesTo
      <4> QED
        BY <3>3, <4>2, <4>4
    <3>4. CASE vt = v /\ hc > cycles
      BY <1>2, <2>7, <3>4 DEF LinesTo, ThisFrame
    <3> QED
      BY <3>1, <3>2, <3>3, <3>4 DEF ThisFrame
  <2>10. (n - 1) * H_Max_Master = far - H_Max_Master
    BY <2>2, <2>3, NextLine
  <2>11. Early(hc, vt, c, t1)' = e - (H_Max_Master - hMax)
    <3>1. Early(hc, vt, c, t1)' = (n - 1) * H_Max_Master + hc - t1
      BY <2>9 DEF Early
    <3> HIDE DEF n
    <3> QED
      BY <1>2, <2>3, <2>6, <2>10, <3>1
  <2>12. Early(hc, vt, c, t1)' \in -Dot..Dot
    BY <1>2, <2>5, <2>11
  <2>13. Early(hc, vt, c, t1)' >= 0 \/ IF field' THEN v' > ShortLine ELSE ThisFrame(hc, vt, c)'
    <3>1. SUFFICES ASSUME Early(hc, vt, c, t1)' < 0
                   PROVE  IF field' THEN v' > ShortLine ELSE ThisFrame(hc, vt, c)'
      BY <2>12
    <3>2. IF field THEN v >= ShortLine ELSE ThisFrame(hc, vt, cycles)
      BY <1>2, <2>4, <2>5, <2>11, <3>1
    <3>3. CASE field
      <4>1. w # 0 => w > ShortLine /\ field'
        BY <1>2, <2>9, <3>2, <3>3
      <4>2. w = 0 => ThisFrame(hc, vt, c)' /\ ~field'
        BY <1>2, <2>9, <3>3
      <4> QED
        BY <1>4, <4>1, <4>2
    <3>4. CASE ~field
      BY <1>2, <1>4, <2>9, <3>2, <3>4
    <3> QED
      BY <3>3, <3>4
  <2> QED
    BY <1>10, <2>12, <2>13 DEF OnFrame
<1>11. CASE t <= cycles + IRQTriggerCycles
  BY <1>2, <1>3, <1>7, <1>11
<1> QED
  BY <1>1, <1>9, <1>10, <1>11 DEF Aimed

LEMMA NoEventDue == ASSUME TypeOK, ~Due PROVE cycles <= H_Max_Master
<1>1. /\ cycles \in Nat /\ NextEvent \in Int /\ NextEvent <= H_Max_Master
  <2>1. {HDMAInit, RenderPos, WRAMRefreshPos, HBlankStart, HDMAStart} \subseteq 0..H_Max_Master
    BY TimingAssumption
  <2>2. hMax \in Int /\ hMax <= H_Max_Master
    BY Sizes DEF TypeOK
  <2> QED
    BY <2>1, <2>2, Sizes DEF TypeOK, Events, NextEvent, Position
<1> QED
  BY <1>1, Sizes DEF Due

\* What leaves the beam where it is keeps the invariant if the timer that it
\* leaves is aimed for the registers that it leaves.
LEMMA SameBeamAims ==
    ASSUME ClockInv, ClockInv', ShortAlone, DotsInLine, cycles' >= cycles,
           UNCHANGED <<v, hMax, vMax, field>>,
           enabled' \cap {"v", "h"} = {} => irqTimer' = Never,
           CanAim(enabled', irqH', irqV') =>
             irqTimer' < Never /\ Aimed(enabled', irqH', irqV', cycles, irqTimer')
    PROVE  AimInv'
<1>1. ShortAlone'
  BY DEF ShortAlone
<1>2. ASSUME CanAim(enabled, irqH, irqV)'
      PROVE  irqTimer' < Never /\ Aimed(enabled, irqH, irqV, cycles, irqTimer)'
  <2>1. PICK en : en = enabled'
    OBVIOUS
  <2>2. PICK h \in Nat : h = irqH'
    BY Sizes DEF ClockInv, TypeOK
  <2>3. PICK vt \in Nat : vt = irqV'
    BY Sizes DEF ClockInv, TypeOK
  <2>4. PICK t \in Int : t = irqTimer'
    BY DEF ClockInv, TypeOK
  <2>5. PICK d \in Nat : d = cycles'
    BY DEF ClockInv, TypeOK
  <2>6. PICK c \in Nat : c = cycles
    BY DEF ClockInv, TypeOK
  <2>7. CanAim(en, h, vt)
    BY <1>2, <2>1, <2>2, <2>3 DEF CanAim
  <2>8. "h" \in en => h \in HTimes
    BY <2>2, <2>7 DEF CanAim, ClockInv, TypeOK
  <2>9. irqTimer' < Never /\ Aimed(en, h, vt, c, t)
    BY <2>1, <2>2, <2>3, <2>4, <2>6, <2>7
  <2>10. Aimed(en, h, vt, d, t)
    BY <2>5, <2>6, <2>8, <2>9, StaysAimed DEF ClockInv
  <2>11. Aimed(enabled, irqH, irqV, cycles, irqTimer)' <=> Aimed(en, h, vt, d, t)
    BY <2>1, <2>2, <2>3, <2>4, <2>5
       DEF Aimed, OnFrame, OnLine, Early, LinesTo, ThisFrame, TimerDot, HTimerPosition,
           VOnlyPosition
  <2> QED
    BY <2>9, <2>10, <2>11
<1> QED
  BY <1>1, <1>2 DEF AimInv

LEMMA SameTimerAims ==
    ASSUME ClockInv, ClockInv', AimInv, DotsInLine, cycles' >= cycles,
           UNCHANGED <<v, hMax, vMax, field, enabled, irqH, irqV, irqTimer>>
    PROVE  AimInv'
<1>1. CanAim(enabled', irqH', irqV') =>
         irqTimer' < Never /\ Aimed(enabled', irqH', irqV', cycles, irqTimer')
  BY DEF AimInv
<1> QED
  BY <1>1, SameBeamAims DEF AimInv

LEMMA EndOfLineAimInv ==
    ClockInv /\ AimInv /\ DotsInLine /\ EndOfLine => AimInv'
<1> SUFFICES ASSUME ClockInv, AimInv, DotsInLine, EndOfLine PROVE AimInv'
  OBVIOUS
<1>1. UNCHANGED <<enabled, irqH, irqV>>
  BY DEF EndOfLine
<1>2. ShortAlone'
  BY Sizes DEF EndOfLine, ShortAlone, OneDotIf, Short
<1>3. enabled' \cap {"v", "h"} = {} => irqTimer' = Never
  BY <1>1 DEF EndOfLine, AimInv
<1>4. ASSUME CanAim(enabled, irqH, irqV)'
      PROVE  irqTimer' < Never /\ Aimed(enabled, irqH, irqV, cycles, irqTimer)'
  <2>1. PICK en : en = enabled
    OBVIOUS
  <2>2. PICK h \in Nat : h = irqH
    BY Sizes DEF ClockInv, TypeOK
  <2>3. PICK vt \in Nat : vt = irqV
    BY Sizes DEF ClockInv, TypeOK
  <2>4. PICK t \in Int : t = irqTimer
    BY DEF ClockInv, TypeOK
  <2>5. CanAim(en, h, vt)
    BY <1>1, <1>4, <2>1, <2>2, <2>3 DEF CanAim
  <2>6. "h" \in en => h \in HTimes
    BY <2>2, <2>5 DEF CanAim, ClockInv, TypeOK
  <2>7. t < Never /\ Aimed(en, h, vt, cycles, t)
    BY <2>1, <2>2, <2>3, <2>4, <2>5 DEF AimInv
  <2>8. hMax \in Nat
    BY Sizes DEF ClockInv, TypeOK
  <2>9. PICK t1 \in Int : t1 = t - hMax
    BY <2>8
  <2>10. irqTimer' = t1 /\ t1 < Never
    BY <2>4, <2>7, <2>8, <2>9, NeverIsInt DEF EndOfLine
  <2>11. Aimed(en, h, vt, cycles, t1)'
    BY <2>5, <2>6, <2>7, <2>9, EndOfLineAims DEF ClockInv, AimInv
  <2>12. Aimed(enabled, irqH, irqV, cycles, irqTimer)' <=> Aimed(en, h, vt, cycles, t1)'
    BY <1>1, <2>1, <2>2, <2>3, <2>10
       DEF Aimed, OnFrame, OnLine, Early, LinesTo, ThisFrame, TimerDot, HTimerPosition,
           VOnlyPosition
  <2> QED
    BY <2>10, <2>11, <2>12
<1> QED
  BY <1>2, <1>3, <1>4 DEF AimInv

LEMMA NotCanAim == ASSUME NEW en, NEW h, NEW vt, NEW initial, en \cap {"v", "h"} = {}
                   PROVE  UpdateIRQPositions(en, h, vt, initial) = Never
<1>1. "v" \notin en
  OBVIOUS
<1> QED
  BY <1>1 DEF UpdateIRQPositions

\* The timer may be computed at any point between two instructions.
LEMMA ComputedAims ==
    ASSUME ClockInv, ClockInv', AimInv, DotsInLine, ~Due, cycles' >= cycles,
           UNCHANGED <<v, hMax, vMax, field>>, NEW initial,
           irqTimer' = UpdateIRQPositions(enabled', irqH', irqV', initial)
    PROVE  AimInv'
<1>1. PICK en : en = enabled'
  OBVIOUS
<1>2. PICK h \in Nat : h = irqH'
  BY Sizes DEF ClockInv, TypeOK
<1>3. PICK vt \in Nat : vt = irqV'
  BY Sizes DEF ClockInv, TypeOK
<1>4. irqTimer' = UpdateIRQPositions(en, h, vt, initial)
  BY <1>1, <1>2, <1>3
<1>5. cycles <= H_Max_Master
  BY NoEventDue DEF ClockInv
<1>6. ASSUME CanAim(enabled', irqH', irqV')
      PROVE  irqTimer' < Never /\ Aimed(enabled', irqH', irqV', cycles, irqTimer')
  <2>1. CanAim(en, h, vt)
    BY <1>1, <1>2, <1>3, <1>6
  <2>2. "h" \in en => h \in HTimes
    BY <1>2, <2>1 DEF CanAim, ClockInv, TypeOK
  <2>3. /\ UpdateIRQPositions(en, h, vt, initial) < Never
        /\ Aimed(en, h, vt, cycles, UpdateIRQPositions(en, h, vt, initial))
    BY <1>5, <2>1, <2>2, UpdateAims DEF ClockInv
  <2> QED
    BY <1>1, <1>2, <1>3, <1>4, <2>3
<1>7. enabled' \cap {"v", "h"} = {} => irqTimer' = Never
  BY <1>1, <1>4, NotCanAim
<1> QED
  BY <1>6, <1>7, SameBeamAims DEF AimInv

LEMMA StepAims == ClockInv /\ ClockInv' /\ AimInv /\ DotsInLine /\ Step => AimInv'
<1> SUFFICES ASSUME ClockInv, ClockInv', AimInv, DotsInLine, Step PROVE AimInv'
  OBVIOUS
<1>1. cycles \in Nat /\ InterruptCost \in Nat /\ FetchCost \in Nat
  BY ClockAssumption DEF ClockInv, TypeOK
<1>2. CASE LineEvent
  <2>1. PICK n \in HDMACosts :
          cycles' = cycles + (IF event = "refresh" THEN RefreshCycles
                              ELSE IF \/ event = "hdma_init" /\ v = 0
                                      \/ event = "hdma_start" /\ v <= height
                              THEN n ELSE 0)
    BY <1>2 DEF LineEvent
  <2>2. n \in Nat /\ RefreshCycles \in Nat
    BY ClockAssumption
  <2>3. cycles' >= cycles
    BY <1>1, <2>1, <2>2
  <2> QED
    BY <1>2, <2>3, SameTimerAims DEF LineEvent, timer
<1>3. CASE EndOfLine
  BY <1>3, EndOfLineAimInv
<1>4. CASE AcceptNMI
  <2>1. cycles' >= cycles
    BY <1>4, WakeSpends DEF AcceptNMI
  <2> QED
    BY <1>4, <2>1, SameTimerAims DEF AcceptNMI, beam, timer
<1>5. CASE S9xOpcode_NMI
  <2>1. cycles' >= cycles
    BY <1>1, <1>5 DEF S9xOpcode_NMI
  <2> QED
    BY <1>5, <2>1, SameTimerAims DEF S9xOpcode_NMI, beam, timer
<1>6. CASE CheckTimer
  <2>1. UNCHANGED <<beam, enabled, irqH, irqV>> /\ ~Due
    BY <1>6 DEF CheckTimer, At
  <2>2. cycles' >= cycles
    BY <1>1, <1>6, WakeSpends DEF CheckTimer
  <2>3. CASE TimerDue
    <3>1. irqTimer' = UpdateIRQPositions(enabled', irqH', irqV', FALSE)
      BY <1>6, <2>1, <2>3 DEF CheckTimer
    <3> QED
      BY <2>1, <2>2, <3>1, ComputedAims DEF beam
  <2>4. CASE ~TimerDue
    <3>1. irqTimer' = irqTimer
      BY <1>6, <2>4 DEF CheckTimer
    <3> QED
      BY <2>1, <2>2, <3>1, SameTimerAims DEF beam
  <2> QED
    BY <2>3, <2>4
<1>7. CASE S9xOpcode_IRQ
  <2>1. cycles' >= cycles
    BY <1>1, <1>7 DEF S9xOpcode_IRQ
  <2> QED
    BY <1>7, <2>1, SameTimerAims DEF S9xOpcode_IRQ, beam, timer
<1>8. CASE Fetch
  <2>1. cycles' >= cycles
    BY <1>1, <1>8 DEF Fetch
  <2> QED
    BY <1>8, <2>1, SameTimerAims DEF Fetch, beam, timer
<1>9. CASE FrontEnd
  <2>1. cycles' >= cycles
    BY <1>1, <1>9 DEF FrontEnd
  <2> QED
    BY <1>9, <2>1, SameTimerAims DEF FrontEnd, beam, timer
<1> QED
  BY <1>2, <1>3, <1>4, <1>5, <1>6, <1>7, <1>8, <1>9 DEF Step

LEMMA InstructionAims ==
    ClockInv /\ ClockInv' /\ AimInv /\ DotsInLine /\ Instruction => AimInv'
<1> SUFFICES ASSUME ClockInv, ClockInv', AimInv, DotsInLine, Instruction PROVE AimInv'
  OBVIOUS
<1>1. Op => cycles' >= cycles /\ UNCHANGED beam /\ ~Due
  BY SpendIsLater DEF Op, At
<1>2. CASE \/ Plain \/ ReadRDNMI \/ ReadTIMEUP
           \/ \E lines \in Heights, mode \in Interlaces : WriteSETINI(lines, mode)
  <2>1. Op /\ UNCHANGED <<enabled, irqH, irqV, irqTimer>>
    BY <1>2 DEF Plain, ReadRDNMI, ReadTIMEUP, WriteSETINI, timer
  <2> QED
    BY <1>1, <2>1, SameTimerAims DEF beam
<1>3. CASE WAI \/ StartDMA \/ DMAByte \/ EndDMA
  <2>1. cycles' >= cycles
    <3>1. cycles \in Nat /\ DMAUnit \in Nat
      BY ClockAssumption DEF ClockInv, TypeOK
    <3> QED
      BY <1>3, <3>1, SpendIsLater DEF WAI, StartDMA, DMAByte, EndDMA
  <2>2. UNCHANGED <<beam, timer>>
    BY <1>3 DEF WAI, StartDMA, DMAByte, EndDMA
  <2> QED
    BY <2>1, <2>2, SameTimerAims DEF beam, timer
<1>4. ASSUME NEW en \in Enables, WriteNMITIMEN(en) PROVE AimInv'
  <2> DEFINE was == enabled \cap {"v", "h"}
             now == en \cap {"v", "h"}
  <2>1. Op /\ enabled' = en /\ UNCHANGED <<irqH, irqV>>
    BY <1>4 DEF WriteNMITIMEN
  <2>2. CASE now = was
    <3>1. irqTimer' = irqTimer
      BY <1>4, <2>2 DEF WriteNMITIMEN
    <3>2. ("v" \in enabled <=> "v" \in en) /\ ("h" \in enabled <=> "h" \in en)
      BY <2>2
    <3>3. PICK t : t = irqTimer
      OBVIOUS
    <3>4. PICK h : h = irqH
      OBVIOUS
    <3>5. PICK vt : vt = irqV
      OBVIOUS
    <3>6. /\ CanAim(en, h, vt) <=> CanAim(enabled, h, vt)
          /\ Aimed(en, h, vt, cycles, t) <=> Aimed(enabled, h, vt, cycles, t)
      BY <2>2, <3>2 DEF CanAim, Aimed, TimerDot
    <3>7. CanAim(enabled', irqH', irqV') =>
            irqTimer' < Never /\ Aimed(enabled', irqH', irqV', cycles, irqTimer')
      BY <2>1, <3>1, <3>3, <3>4, <3>5, <3>6 DEF AimInv
    <3>8. enabled' \cap {"v", "h"} = {} => irqTimer' = Never
      BY <2>1, <2>2, <3>1 DEF AimInv
    <3> QED
      BY <1>1, <2>1, <3>7, <3>8, SameBeamAims DEF AimInv, beam
  <2>3. CASE now # was
    <3>1. irqTimer' = UpdateIRQPositions(enabled', irqH', irqV', now = {} \/ was = {})
      BY <1>4, <2>1, <2>3 DEF WriteNMITIMEN
    <3>2. PICK i : i = (now = {} \/ was = {})
      OBVIOUS
    <3> QED
      BY <1>1, <2>1, <3>1, <3>2, ComputedAims DEF beam
  <2> QED
    BY <2>2, <2>3
<1>5. ASSUME NEW h \in HTimes, WriteHTIME(h) PROVE AimInv'
  <2>1. Op /\ irqTimer' = UpdateIRQPositions(enabled', irqH', irqV', FALSE)
    BY <1>5 DEF WriteHTIME
  <2> QED
    BY <1>1, <2>1, ComputedAims DEF beam
<1>6. ASSUME NEW vt \in VTimes, WriteVTIME(vt) PROVE AimInv'
  <2>1. Op /\ irqTimer' = UpdateIRQPositions(enabled', irqH', irqV', TRUE)
    BY <1>6 DEF WriteVTIME
  <2> QED
    BY <1>1, <2>1, ComputedAims DEF beam
<1> QED
  BY <1>2, <1>3, <1>4, <1>5, <1>6 DEF Instruction

LEMMA AimAlways == DotsInLine => (Spec => []AimInv)
<1> SUFFICES ASSUME DotsInLine PROVE Spec => []AimInv
  OBVIOUS
<1>1. Init => AimInv
  <2>1. Init => enabled \cap {"v", "h"} = {}
    BY DEF Init
  <2> QED
    BY <2>1 DEF Init, AimInv, ShortAlone, CanAim
<1>2. ClockInv /\ ClockInv' /\ AimInv /\ [Next]_vars => AimInv'
  <2>1. ClockInv /\ ClockInv' /\ AimInv /\ Next => AimInv'
    BY StepAims, InstructionAims DEF Next
  <2>2. ClockInv /\ ClockInv' /\ AimInv /\ UNCHANGED vars => AimInv'
    <3>1. UNCHANGED vars => UNCHANGED <<cycles, v, hMax, vMax, field, enabled, irqH, irqV, irqTimer>>
      BY DEF vars, beam, timer
    <3>2. ClockInv => cycles \in Nat
      BY DEF ClockInv, TypeOK
    <3> QED
      BY <3>1, <3>2, SameTimerAims
  <2> QED
    BY <2>1, <2>2
<1> QED
  BY <1>1, <1>2, ClockInvAlways, PTL DEF Spec
-----------------------------------------------------------------------------
(* The beam followed line by line. BeamAfter is a recursive function: that  *)
(* there is a function its equation defines is shown by induction on how    *)
(* many lines it is defined for, and so is what it gives in closed form.    *)

\* A set that holds 0 and with every number the next holds them all: else to
\* take 1 off would map the missing numbers up to the greatest one into
\* themselves, one to one and not onto.
LEMMA NatSetInduction ==
    ASSUME NEW S, 0 \in S, \A n \in Nat : n \in S => n + 1 \in S
    PROVE  Nat \subseteq S
<1>1. SUFFICES ASSUME NEW x \in Nat, x \notin S PROVE FALSE
  OBVIOUS
<1> DEFINE B == {n \in 0 .. x : n \notin S}
           f == [n \in B |-> n - 1]
<1>2. IsFiniteSet(B)
  <2>1. IsFiniteSet(0 .. x) /\ B \in SUBSET (0 .. x)
    BY FS_Interval
  <2> HIDE DEF B
  <2> QED
    BY <2>1, FS_Subset
<1>3. x \in B /\ B \subseteq 0 .. x
  BY <1>1
<1>4. \A n \in B : n - 1 \in B
  <2>1. TAKE n \in B
  <2>2. n # 0 /\ n - 1 \in Nat /\ n - 1 + 1 = n
    OBVIOUS
  <2>3. n - 1 \notin S
    BY <2>2
  <2> QED
    BY <2>2, <2>3
<1>5. f \in Injection(B, B)
  <2> HIDE DEF B
  <2> QED
    BY <1>3, <1>4 DEF Injection, IsInjective
<1>6. f \in Surjection(B, B)
  <2> HIDE DEF B, f
  <2> QED
    BY <1>2, <1>5, FS_Injection
<1>7. PICK n \in B : f[n] = x
  <2> HIDE DEF B, f
  <2> QED
    BY <1>3, <1>6 DEF Surjection
<1> HIDE DEF B
<1> QED
  BY <1>3, <1>7

Far == 2 * V_Max_Master + 2

NextLineOf(n, b) ==
    [line |-> IF b.line = b.last THEN 0 ELSE b.line + 1,
     odd |-> IF b.line = b.last THEN ~b.odd ELSE b.odd,
     last |-> IF b.line = b.last THEN V_Max_Master - (IF interlace /\ b.odd THEN 0 ELSE 1)
              ELSE b.last,
     time |-> b.time + (IF n = 1 THEN hMax
                        ELSE H_Max_Master - OneDotIf(b.line = ShortLine /\ Short(b.odd)))]

Here == [line |-> v, odd |-> field, last |-> vMax - 1, time |-> 0]

LEMMA BeamIs ==
    /\ BeamAfter[0] = Here
    /\ \A n \in 1..Far : BeamAfter[n] = NextLineOf(n, BeamAfter[n - 1])
<1> USE Sizes
<1> DEFINE Eq(f, m) == f = [n \in 0..m |-> IF n = 0 THEN Here ELSE NextLineOf(n, f[n - 1])]
           S == {m \in Nat : \E f : Eq(f, m)}
<1>1. 0 \in S
  <2> DEFINE f0 == [n \in 0..0 |-> Here]
  <2>1. Eq(f0, 0)
    OBVIOUS
  <2> QED
    BY <2>1
<1>2. ASSUME NEW m \in Nat, m \in S PROVE m + 1 \in S
  <2>1. PICK f : Eq(f, m)
    BY <1>2
  <2> DEFINE R(n) == IF n = 0 THEN Here ELSE NextLineOf(n, f[n - 1])
             g == [n \in 0..(m + 1) |-> R(n)]
  <2>2. \A n \in 0..m : f[n] = R(n)
    BY <2>1
  <2> HIDE DEF R
  <2>3. \A n \in 0..m : g[n] = f[n]
    BY <2>2
  <2>4. \A n \in 0..(m + 1) : R(n) = IF n = 0 THEN Here ELSE NextLineOf(n, g[n - 1])
    <3>1. TAKE n \in 0..(m + 1)
    <3>2. n # 0 => n - 1 \in 0..m
      OBVIOUS
    <3> HIDE DEF g
    <3> QED
      BY <2>3, <3>2 DEF R
  <2>5. Eq(g, m + 1)
    <3>1. [n \in 0..(m + 1) |-> R(n)]
            = [n \in 0..(m + 1) |-> IF n = 0 THEN Here ELSE NextLineOf(n, g[n - 1])]
      BY <2>4
    <3> QED
      BY <3>1
  <2> HIDE DEF g, Eq
  <2> QED
    BY <2>5
<1> HIDE DEF S
<1>3. Far \in S
  BY <1>1, <1>2, NatSetInduction DEF Far
<1>4. PICK f : Eq(f, Far)
  BY <1>3 DEF S
<1>5. BeamAfter = CHOOSE f1 : Eq(f1, Far)
  BY DEF BeamAfter, Far, Here, NextLineOf
<1>6. Eq(BeamAfter, Far)
  BY <1>4, <1>5
<1> HIDE DEF Eq
<1>7. BeamAfter = [n \in 0..Far |-> IF n = 0 THEN Here ELSE NextLineOf(n, BeamAfter[n - 1])]
  BY <1>6 DEF Eq
<1>8. \A n \in 0..Far : BeamAfter[n] = IF n = 0 THEN Here ELSE NextLineOf(n, BeamAfter[n - 1])
  BY <1>7
<1> QED
  BY <1>8 DEF Far

\* How many lines are left of this frame.
Rest == vMax - 1 - v

\* The beam n lines on, and what its time lacks of n whole lines: nothing, or
\* the dot of the one short line that it has passed.
BeamAt(n, b) ==
    /\ n <= Rest => b.line = v + n /\ b.odd = field /\ b.last = vMax - 1
    /\ n > Rest => /\ b.line = n - Rest - 1 /\ b.odd = ~field
                   /\ b.last \in Nat /\ b.last >= V_Max_Master - 1
    /\ \E lack \in {0, Dot} :
          /\ b.time = n * H_Max_Master - lack
          /\ lack # 0 => \/ field /\ v <= ShortLine /\ ShortLine < v + n
                         \/ ~field /\ n > Rest /\ ShortLine < n - Rest - 1

LEMMA BeamMoves ==
    ASSUME TypeOK, ShortAlone, NEW n \in Nat, n < Rest + V_Max_Master,
           NEW b, BeamAt(n, b), n = 0 => b.time = 0
    PROVE  BeamAt(n + 1, NextLineOf(n + 1, b))
<1> USE Sizes
<1>1. /\ v \in Nat /\ vMax \in Nat /\ v < vMax /\ field \in BOOLEAN
      /\ hMax \in {H_Max_Master, H_Max_Master - Dot}
      /\ vMax \in {V_Max_Master, V_Max_Master + 1}
  BY DEF TypeOK
<1>2. PICK r \in Nat : r = Rest /\ r = vMax - 1 - v
  BY <1>1 DEF Rest
<1>3. PICK lack \in {0, Dot} :
          /\ b.time = n * H_Max_Master - lack
          /\ lack # 0 => \/ field /\ v <= ShortLine /\ ShortLine < v + n
                         \/ ~field /\ n > r /\ ShortLine < n - r - 1
  BY <1>2 DEF BeamAt
<1>4. PICK far \in Nat : far = n * H_Max_Master
  OBVIOUS
<1>5. (n + 1) * H_Max_Master = far + H_Max_Master
  BY <1>4
<1> DEFINE c == NextLineOf(n + 1, b)
<1>6. /\ c.line = IF b.line = b.last THEN 0 ELSE b.line + 1
      /\ c.odd = IF b.line = b.last THEN ~b.odd ELSE b.odd
      /\ c.last = IF b.line = b.last THEN V_Max_Master - (IF interlace /\ b.odd THEN 0 ELSE 1)
                  ELSE b.last
      /\ c.time = b.time + (IF n = 0 THEN hMax
                            ELSE H_Max_Master - OneDotIf(b.line = ShortLine /\ Short(b.odd)))
  BY DEF NextLineOf
<1> HIDE DEF c
<1>7. n + 1 <= r => c.line = v + (n + 1) /\ c.odd = field /\ c.last = vMax - 1
  BY <1>1, <1>2, <1>6 DEF BeamAt
<1>8. n + 1 > r => /\ c.line = (n + 1) - r - 1 /\ c.odd = ~field
                   /\ c.last \in Nat /\ c.last >= V_Max_Master - 1
  <2>1. CASE n = r
    <3>1. b.line = b.last /\ b.odd = field
      BY <1>1, <1>2, <2>1 DEF BeamAt
    <3> QED
      BY <1>1, <1>2, <1>6, <2>1, <3>1
  <2>2. CASE n > r
    <3>1. b.line = n - r - 1 /\ b.last >= V_Max_Master - 1 /\ b.odd = ~field /\ b.last \in Nat
      BY <1>2, <2>2 DEF BeamAt
    <3>2. b.line # b.last
      BY <1>2, <3>1
    <3> QED
      BY <1>2, <1>6, <2>2, <3>1, <3>2
  <2> QED
    BY <2>1, <2>2
<1> DEFINE more == IF n = 0 THEN H_Max_Master - hMax
                   ELSE OneDotIf(b.line = ShortLine /\ Short(b.odd))
<1>9. more \in {0, Dot}
  BY <1>1 DEF OneDotIf
<1>10. c.time = far + H_Max_Master - (lack + more)
  BY <1>1, <1>3, <1>4, <1>6, <1>9
<1>11. more # 0 => /\ lack = 0
                   /\ \/ field /\ v <= ShortLine /\ ShortLine < v + (n + 1)
                      \/ ~field /\ n + 1 > r /\ ShortLine < (n + 1) - r - 1
  <2>1. CASE n = 0
    <3>1. lack = 0
      <4>1. far = 0
        BY <1>4, <2>1
      <4> QED
        BY <1>3, <1>4, <2>1, <4>1
    <3> QED
      BY <1>1, <2>1, <3>1 DEF ShortAlone
  <2>2. CASE n # 0 /\ n <= r
    <3>1. b.line = v + n /\ b.odd = field
      BY <1>2, <2>2 DEF BeamAt
    <3> QED
      BY <1>1, <1>2, <1>3, <2>2, <3>1 DEF OneDotIf, Short
  <2>3. CASE n # 0 /\ n > r
    <3>1. b.line = n - r - 1 /\ b.odd = ~field
      BY <1>2, <2>3 DEF BeamAt
    <3>2. more # 0 => b.line = ShortLine /\ b.odd
      BY <2>3 DEF OneDotIf, Short
    <3>3. more # 0 => n - r - 1 = ShortLine /\ ~field
      BY <3>1, <3>2
    <3>4. more # 0 => lack = 0
      BY <1>3, <2>3, <3>3
    <3>5. more # 0 => ~field /\ n + 1 > r /\ ShortLine < (n + 1) - r - 1
      BY <1>2, <2>3, <3>3
    <3> QED
      BY <3>4, <3>5
  <2> QED
    BY <2>1, <2>2, <2>3
<1>12. \E l \in {0, Dot} :
          /\ c.time = (n + 1) * H_Max_Master - l
          /\ l # 0 => \/ field /\ v <= ShortLine /\ ShortLine < v + (n + 1)
                      \/ ~field /\ n + 1 > r /\ ShortLine < (n + 1) - r - 1
  <2> HIDE DEF more
  <2>1. CASE more = 0
    <3>1. c.time = (n + 1) * H_Max_Master - lack
      BY <1>3, <1>4, <1>5, <1>10, <2>1
    <3>2. lack # 0 => \/ field /\ v <= ShortLine /\ ShortLine < v + (n + 1)
                      \/ ~field /\ n + 1 > r /\ ShortLine < (n + 1) - r - 1
      BY <1>1, <1>3
    <3> QED
      BY <1>3, <3>1, <3>2
  <2>2. CASE more # 0
    <3>1. c.time = (n + 1) * H_Max_Master - more
      BY <1>4, <1>5, <1>9, <1>10, <1>11, <2>2
    <3> QED
      BY <1>9, <1>11, <2>2, <3>1
  <2> QED
    BY <2>1, <2>2
<1>13. BeamAt(n + 1, c)
  BY <1>2, <1>7, <1>8, <1>12 DEF BeamAt
<1> QED
  BY <1>13 DEF c

LEMMA BeamFollowed ==
    ASSUME TypeOK, ShortAlone
    PROVE  \A n \in 0..(Rest + V_Max_Master) : BeamAt(n, BeamAfter[n])
<1> USE Sizes
<1>1. PICK r \in Nat : r = Rest /\ r <= V_Max_Master
  BY DEF TypeOK, Rest
<1> DEFINE S == {n \in Nat : n <= r + V_Max_Master => BeamAt(n, BeamAfter[n])}
<1>2. 0 \in S
  <2>1. BeamAfter[0] = Here
    BY BeamIs
  <2>2. v \in Nat /\ 0 * H_Max_Master = 0
    BY DEF TypeOK
  <2>3. BeamAt(0, Here)
    BY <1>1, <2>2 DEF BeamAt, Here
  <2> QED
    BY <2>1, <2>3
<1>3. ASSUME NEW n \in Nat, n \in S PROVE n + 1 \in S
  <2>1. SUFFICES ASSUME n + 1 <= r + V_Max_Master PROVE BeamAt(n + 1, BeamAfter[n + 1])
    OBVIOUS
  <2>2. BeamAt(n, BeamAfter[n])
    BY <1>1, <1>3, <2>1
  <2>3. BeamAfter[n + 1] = NextLineOf(n + 1, BeamAfter[(n + 1) - 1])
    <3>1. n + 1 \in 1..Far
      BY <1>1, <2>1 DEF Far
    <3> QED
      BY <3>1, BeamIs
  <2>4. (n + 1) - 1 = n
    OBVIOUS
  <2>5. n = 0 => BeamAfter[n].time = 0
    BY BeamIs DEF Here
  <2> QED
    BY <1>1, <2>1, <2>2, <2>3, <2>4, <2>5, BeamMoves
<1> HIDE DEF S
<1>4. Nat \subseteq S
  BY <1>2, <1>3, NatSetInduction
<1> QED
  BY <1>1, <1>4 DEF S

\* The position comes next after as many lines as LinesTo counts.
LEMMA MatchIs ==
    ASSUME TypeOK, ShortAlone, "v" \in enabled, irqV < V_Max_Master
    PROVE  LET hc == TimerDot(enabled, irqH)
           IN  \/ irqV = v /\ hc > cycles /\ NextMatch(cycles) = hc
               \/ NextMatch(cycles) = BeamAfter[LinesTo(hc, irqV, cycles)].time + hc
<1> USE Sizes
<1> DEFINE hc == TimerDot(enabled, irqH)
           n == LinesTo(hc, irqV, cycles)
           on(k) == "v" \notin enabled \/ BeamAfter[k].line = irqV
           first == CHOOSE k \in 1..(2 * V_Max_Master + 2) :
                       on(k) /\ \A j \in 1..(k - 1) : ~on(j)
<1>1. NextMatch(cycles) = IF on(0) /\ hc > cycles THEN hc ELSE BeamAfter[first].time + hc
  BY DEF NextMatch, TimerDot
<1>2. /\ v \in Nat /\ vMax \in Nat /\ v < vMax /\ irqV \in Nat
      /\ vMax \in {V_Max_Master, V_Max_Master + 1}
  BY DEF TypeOK
<1>3. PICK r \in Nat : r = Rest /\ r = vMax - 1 - v /\ r <= V_Max_Master
  BY <1>2 DEF Rest
<1>4. on(0) <=> irqV = v
  BY <1>2, BeamIs DEF Here
<1>5. \A k \in 0..(r + V_Max_Master) :
         BeamAfter[k].line = IF k <= r THEN v + k ELSE k - r - 1
  BY <1>3, BeamFollowed DEF BeamAt
<1>6. CASE ~(irqV = v /\ hc > cycles)
  <2>1. n = (IF irqV > v THEN irqV - v ELSE r + 1 + irqV) /\ n \in Nat
    BY <1>2, <1>3, <1>6 DEF LinesTo, ThisFrame
  <2>2. n \in 1..(2 * V_Max_Master + 2) /\ n <= r + V_Max_Master
    BY <1>2, <1>3, <2>1
  <2>3. on(n)
    BY <1>2, <1>3, <1>5, <2>1, <2>2
  <2>4. \A j \in 1..(n - 1) : ~on(j)
    BY <1>2, <1>3, <1>5, <2>1, <2>2
  <2> HIDE DEF on, n
  <2>5. first \in 1..(2 * V_Max_Master + 2) /\ on(first) /\ \A j \in 1..(first - 1) : ~on(j)
    BY <2>2, <2>3, <2>4
  <2>6. first = n
    <3> HIDE DEF first
    <3>1. ~(first < n) /\ ~(n < first)
      BY <2>2, <2>3, <2>4, <2>5
    <3> QED
      BY <2>2, <2>5, <3>1
  <2>7. NextMatch(cycles) = BeamAfter[first].time + hc
    BY <1>1, <1>4, <1>6
  <2> HIDE DEF first
  <2> QED
    BY <2>6, <2>7 DEF n
<1>7. CASE irqV = v /\ hc > cycles
  BY <1>1, <1>4, <1>7
<1> QED
  BY <1>6, <1>7

LEMMA AimedMatches ==
    ASSUME TypeOK, ShortAlone, DotsInLine, AimInv PROVE TimerAimed
<1> USE Sizes
<1> DEFINE hc == TimerDot(enabled, irqH)
           near(c) == irqTimer \in (NextMatch(c) - Dot)..(NextMatch(c) + Dot)
<1>1. /\ v \in Nat /\ cycles \in Nat /\ vMax \in Nat /\ v < vMax /\ field \in BOOLEAN
      /\ hMax \in Nat /\ irqV \in Nat /\ irqH \in Nat /\ irqTimer \in Int
      /\ vMax <= V_Max_Master + 1 /\ vMax >= V_Max_Master
  BY DEF TypeOK
<1>2. PICK r \in Nat : r = Rest /\ r = vMax - 1 - v
  BY <1>1 DEF Rest
<1>3. ASSUME Armed, ~(irqTimer <= cycles + IRQTriggerCycles), "v" \in enabled
      PROVE  near(cycles)
  <2>1. irqV < V_Max_Master /\ CanAim(enabled, irqH, irqV) /\ OnFrame(hc, irqV, cycles, irqTimer)
    BY <1>3 DEF Armed, CanAim, AimInv, Aimed
  <2>2. hc \in Nat
    BY <1>1, <1>3, DotOfTimer DEF Armed, TypeOK
  <2> DEFINE n == LinesTo(hc, irqV, cycles)
  <2>3. n \in 0..(r + V_Max_Master)
    BY <1>1, <1>2, <2>1 DEF LinesTo, ThisFrame
  <2>4. PICK far \in Nat : far = n * H_Max_Master
    BY <2>3
  <2>5. PICK e \in -Dot..Dot : /\ irqTimer = far + hc - e
                               /\ e >= 0 \/ IF field THEN v > ShortLine
                                            ELSE ThisFrame(hc, irqV, cycles)
    <3>1. Early(hc, irqV, cycles, irqTimer) = far + hc - irqTimer
      BY <2>4 DEF Early
    <3>2. irqTimer = far + hc - Early(hc, irqV, cycles, irqTimer)
      BY <1>1, <2>2, <2>4, <3>1
    <3> QED
      BY <2>1, <3>2 DEF OnFrame
  <2>6. CASE irqV = v /\ hc > cycles /\ NextMatch(cycles) = hc
    <3>1. n = 0
      BY <1>1, <2>6 DEF LinesTo, ThisFrame
    <3>2. far = 0
      BY <2>4, <3>1
    <3> QED
      BY <2>2, <2>5, <2>6, <3>2
  <2>7. CASE NextMatch(cycles) = BeamAfter[n].time + hc
    <3>1. BeamAt(n, BeamAfter[n])
      BY <1>2, <2>3, BeamFollowed
    <3>2. PICK lack \in {0, Dot} :
             /\ BeamAfter[n].time = far - lack
             /\ lack # 0 => \/ field /\ v <= ShortLine
                            \/ ~field /\ n > r
      BY <1>2, <2>4, <3>1 DEF BeamAt
    <3>3. ThisFrame(hc, irqV, cycles) => n <= r
      BY <1>1, <1>2, <2>1 DEF LinesTo, ThisFrame
    <3>4. lack # 0 => e >= 0
      BY <1>1, <1>2, <2>3, <2>5, <3>2, <3>3
    <3>5. NextMatch(cycles) = far - lack + hc
      BY <2>7, <3>2
    <3> QED
      BY <2>2, <2>4, <2>5, <3>2, <3>4, <3>5
  <2> QED
    BY <1>3, <2>1, <2>6, <2>7, MatchIs
<1>4. ASSUME Armed, ~(irqTimer <= cycles + IRQTriggerCycles), "v" \notin enabled
      PROVE  near(cycles) \/ near(cycles + IRQTriggerCycles)
  <2>1. OnLine(hc, cycles, irqTimer)
    BY <1>3, <1>4 DEF Armed, CanAim, AimInv, Aimed
  <2>2. hc \in Nat
    BY <1>1, <1>4, DotOfTimer DEF Armed, TypeOK
  <2> DEFINE on(k) == "v" \notin enabled \/ BeamAfter[k].line = irqV
             first == CHOOSE k \in 1..(2 * V_Max_Master + 2) :
                         on(k) /\ \A j \in 1..(k - 1) : ~on(j)
  <2>3. \A c : NextMatch(c) = IF on(0) /\ hc > c THEN hc ELSE BeamAfter[first].time + hc
    BY DEF NextMatch, TimerDot
  <2>4. \A k : on(k)
    BY <1>4
  <2>5. first = 1
    <3>1. 1 \in 1..(2 * V_Max_Master + 2) /\ on(1) /\ \A j \in 1..(1 - 1) : ~on(j)
      BY <2>4
    <3> HIDE DEF on
    <3>2. first \in 1..(2 * V_Max_Master + 2) /\ \A j \in 1..(first - 1) : ~on(j)
      BY <3>1
    <3> HIDE DEF first
    <3>3. first # 1 => 1 \in 1..(first - 1)
      BY <3>2
    <3> QED
      BY <2>4, <3>2, <3>3
  <2>6. BeamAfter[1].time = hMax
    <3>1. BeamAfter[1] = NextLineOf(1, BeamAfter[1 - 1]) /\ BeamAfter[0] = Here
      BY BeamIs DEF Far
    <3>2. 1 - 1 = 0
      OBVIOUS
    <3> QED
      BY <1>1, <3>1, <3>2 DEF NextLineOf, Here
  <2> HIDE DEF on, first
  <2>7. CASE hc > cycles /\ irqTimer \in (hc - Dot)..hc
    <3>1. NextMatch(cycles) = hc
      BY <2>3, <2>4, <2>7
    <3> QED
      BY <2>2, <2>7, <3>1
  <2>8. CASE hc <= cycles + IRQTriggerCycles /\ irqTimer \in (hc + hMax - Dot)..(hc + hMax)
    <3>1. ~(hc > cycles + IRQTriggerCycles)
      BY <1>1, <2>2, <2>8
    <3>2. NextMatch(cycles + IRQTriggerCycles) = hMax + hc
      BY <2>3, <2>5, <2>6, <3>1
    <3> QED
      BY <1>1, <2>2, <2>8, <3>2
  <2> QED
    BY <2>1, <2>7, <2>8 DEF OnLine
<1>5. enabled \cap {"v", "h"} = {} => irqTimer = Never
  BY DEF AimInv
<1> QED
  BY <1>1, <1>3, <1>4, <1>5 DEF TimerAimed

\* However the registers are written and wherever the beam is, the timer is
\* always about to fire or aimed, to a dot, at the next time the beam comes to
\* the programmed position: for lines, frames, costs and registers of every
\* size (S9xUpdateIRQPositions, CyclesUntilNext, the end of the line in
\* cpuexec.cpp). Games are assumed to write to HTIME the dots of a line.
THEOREM TimerAimedInv == DotsInLine => (Spec => []TimerAimed)
<1> SUFFICES ASSUME DotsInLine PROVE Spec => []TimerAimed
  OBVIOUS
<1>1. ClockInv /\ AimInv => TimerAimed
  BY AimedMatches DEF ClockInv, AimInv
<1> QED
  BY <1>1, ClockInvAlways, AimAlways, PTL
=============================================================================
