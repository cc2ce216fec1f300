----------------------------- MODULE CpuEvents -----------------------------
(***************************************************************************)
(* The clock of the emulated machine: S9xMainLoop runs instructions, every *)
(* cycle they cost is followed by the events of the scan line that have    *)
(* become due (S9xDoHEventProcessing), and the IRQ timer and the NMI are   *)
(* positions on the same count of cycles, which the end of each line       *)
(* rebases. What an instruction computes is left out: it costs cycles and  *)
(* may write one of the registers that steer the clock. Times are in half  *)
(* dots; the lines and the events keep the order they have on the machine  *)
(* but are fewer and closer.                                               *)
(***************************************************************************)
EXTENDS Integers

CONSTANTS
    Dot,             \* ONE_DOT_CYCLE
    H_Max_Master, V_Max_Master,
    HDMAInit, RenderPos, WRAMRefreshPos, HBlankStart, HDMAStart,
    RefreshCycles,   \* SNES_WRAM_REFRESH_CYCLES
    ShortLine,       \* 240: one dot short on odd fields that do not interlace
    LongDots,        \* 322 and 326: the dots after these are longer
    SNES_HEIGHT, SNES_HEIGHT_EXTENDED,  \* the lines shown
    Unset,           \* IRQHBeamPos and IRQVBeamPos after a reset, 0x1ff
    ResetCycles,     \* CPU.Cycles after a reset
    IRQTriggerCycles, NMIStart, NMIEdge, NMIDMADelay,
    WakeCost, InterruptCost, FetchCost, OpCosts, HDMACosts, DMAUnit,
    HTimes, VTimes,  \* what a game writes to HTIME and VTIME
    Enables,         \* what it writes to NMITIMEN
    Interlaces,      \* what it writes to SETINI, with a height
    None,            \* NMITriggerPos for no NMI, 0xffff
    MaxLate          \* a DMA is followed no further past an interrupt's time

Heights == {SNES_HEIGHT, SNES_HEIGHT_EXTENDED}

Events == {"hdma_init", "render", "refresh", "hblank", "hdma_start", "h_max"}

ASSUME ClockAssumption ==
    /\ {Dot, SNES_HEIGHT, SNES_HEIGHT_EXTENDED, H_Max_Master, V_Max_Master, ShortLine,
        RefreshCycles, Unset, ResetCycles, IRQTriggerCycles, NMIStart, NMIEdge,
        NMIDMADelay, WakeCost, InterruptCost, FetchCost, DMAUnit, MaxLate} \subseteq Nat
    /\ {HDMAInit, RenderPos, WRAMRefreshPos, HBlankStart, HDMAStart} \subseteq Nat
    /\ OpCosts \subseteq Nat /\ HDMACosts \subseteq Nat
    /\ HTimes \subseteq Nat /\ VTimes \subseteq Nat /\ LongDots \subseteq Nat
    /\ Enables \subseteq SUBSET {"nmi", "v", "h"}
    /\ Interlaces \subseteq BOOLEAN
    /\ Dot <= H_Max_Master /\ V_Max_Master > 0
    /\ NMIStart <= NMIDMADelay /\ NMIEdge <= NMIDMADelay
    /\ None \notin Int

Never == 268435455   \* NextIRQTimer for no IRQ, 0x0fffffff

\* A line is as long as its events and more than a dot, a frame has more than a
\* line, the delay of the interrupt covers a dot, and no frame reaches Never.
ASSUME TimingAssumption ==
    /\ {HDMAInit, RenderPos, WRAMRefreshPos, HBlankStart, HDMAStart} \subseteq 0..H_Max_Master
    /\ Dot <= IRQTriggerCycles /\ Dot < H_Max_Master /\ V_Max_Master > 1
    /\ (2 * V_Max_Master + 2) * H_Max_Master + IRQTriggerCycles < Never

VARIABLES
    cycles, v, event,             \* CPU.Cycles, V_Counter, WhichEvent
    hMax, vMax, field,            \* Timings.H_Max, V_Max, S9xInterlaceField()
    interlace, height,            \* IPPU.Interlace, PPU.ScreenHeight
    enabled, irqH, irqV,          \* NMITIMEN, PPU.IRQHBeamPos, IRQVBeamPos
    irqTimer, irqLine,            \* Timings.NextIRQTimer, CPU.IRQLine
    nmiFlag, nmiPending, nmiPos,  \* bit 7 of $4210, NMIPending, NMITriggerPos
    changing,                     \* IRQ_TRIGGER_NMI in IRQFlagChanging
    waiting, scanKeys,            \* WaitingForInterrupt, SCAN_KEYS_FLAG
    phase                         \* where S9xMainLoop is

beam == <<v, event, hMax, vMax, field>>
screen == <<interlace, height>>
timer == <<enabled, irqH, irqV, irqTimer, irqLine>>
nmi == <<nmiFlag, nmiPending, nmiPos, changing>>
vars == <<cycles, beam, screen, timer, nmi, waiting, scanKeys, phase>>

-----------------------------------------------------------------------------
(* Where the timer's next interrupt is, in cycles from the line's start.   *)

LongDotsBefore(h) == LET n == {d \in LongDots : h > d}
                     IN  IF n = {} THEN 0 ELSE IF n = LongDots THEN 2 ELSE 1

HTimerPosition(h) ==
    h * Dot + IRQTriggerCycles - (IF h = 0 THEN Dot ELSE 0)
            + LongDotsBefore(h) * (Dot \div 2)

VOnlyPosition == IRQTriggerCycles - Dot

Short(odd) == odd /\ ~interlace

OneDotIf(c) == IF c THEN Dot ELSE 0

CyclesUntilNextMaster(hc, vc) ==
    IF vc > v THEN (vc - v) * H_Max_Master + hc
    ELSE IF vc = v /\ hc > cycles THEN hc
    ELSE (V_Max_Master - v + vc) * H_Max_Master + hc

CyclesUntilNext(hc, vc) ==
    IF vc > v THEN
        (vc - v) * H_Max_Master + hc
            - OneDotIf(v <= ShortLine /\ vc > ShortLine /\ Short(field))
    ELSE IF vc = v /\ hc > cycles THEN hc
    ELSE (vMax - v + vc) * H_Max_Master + hc
            - OneDotIf(v <= ShortLine /\ Short(field))
            - OneDotIf(vc > ShortLine /\ Short(~field))

\* What is taken off on the short line, for a position before a long dot.
ShortDots(h) == (2 - LongDotsBefore(h)) * (Dot \div 2)

\* S9xUpdateIRQPositions, for the registers' new contents.
UpdateIRQPositions(en, h, vt, initial) ==
    LET hc == HTimerPosition(h)
        next == CyclesUntilNext(hc, vt)
        later == vt < v \/ (vt = v /\ next > hMax)
    IN  IF "v" \in en /\ vt >= vMax + (IF interlace THEN 1 ELSE 0) THEN Never
        ELSE IF en \cap {"v", "h"} = {} THEN Never
        ELSE IF "v" \notin en THEN
            IF cycles > hc - IRQTriggerCycles
            THEN hc + hMax - (IF v + 1 = ShortLine /\ Short(field) THEN ShortDots(h) ELSE 0)
            ELSE hc - (IF v = ShortLine /\ Short(field) THEN ShortDots(h) ELSE 0)
        ELSE IF "h" \notin en THEN
            IF v = vt /\ initial THEN cycles + VOnlyPosition
            ELSE CyclesUntilNext(VOnlyPosition, vt)
        ELSE next - (IF vt = ShortLine /\ Short(IF later THEN ~field ELSE field)
                     THEN ShortDots(h) ELSE 0)

-----------------------------------------------------------------------------
(* The events of a line. Nothing else runs while one is due.               *)

Position == [hdma_init |-> HDMAInit, render |-> RenderPos,
             refresh |-> WRAMRefreshPos, hblank |-> HBlankStart,
             hdma_start |-> HDMAStart, h_max |-> hMax]

NextEvent == Position[event]

Due == cycles >= NextEvent

Following == [hblank |-> "hdma_start", hdma_start |-> "h_max", h_max |-> "hdma_init",
              hdma_init |-> "render", render |-> "refresh", refresh |-> "hblank"]

Reschedule == event' = Following[event]

\* HDMA takes cycles at the start of a frame and on each line shown; what it
\* does with them is module Hdma. Rendering and the start of the blanking
\* change nothing here.
LineEvent ==
    /\ Due /\ event # "h_max"
    /\ \E n \in HDMACosts :
          cycles' = cycles + (IF event = "refresh" THEN RefreshCycles
                              ELSE IF \/ event = "hdma_init" /\ v = 0
                                      \/ event = "hdma_start" /\ v <= height
                              THEN n ELSE 0)
    /\ Reschedule
    /\ UNCHANGED <<v, hMax, vMax, field, screen, timer, nmi, waiting, scanKeys, phase>>

LineAfter == IF v + 1 >= vMax THEN 0 ELSE v + 1
FieldAfter == IF v + 1 >= vMax THEN ~field ELSE field

EndOfLineForgetsNMI ==
    /\ Due /\ event = "h_max"
    /\ cycles' = cycles - hMax
    /\ v' = LineAfter /\ field' = FieldAfter
    /\ vMax' = IF LineAfter # 0 THEN vMax
               ELSE V_Max_Master + (IF interlace /\ field THEN 1 ELSE 0)
    /\ hMax' = H_Max_Master - OneDotIf(LineAfter = ShortLine /\ Short(FieldAfter))
    /\ irqTimer' = IF irqTimer = Never THEN Never ELSE irqTimer - hMax
    /\ LET blank == LineAfter = height + 1
           rebased == IF nmiPos = None THEN None ELSE nmiPos
       IN  /\ scanKeys' = (scanKeys \/ blank)
           /\ nmiFlag' = (blank \/ (nmiFlag /\ LineAfter # 0))
           /\ nmiPending' = (nmiPending \/ (blank /\ "nmi" \in enabled))
           /\ nmiPos' = IF blank /\ "nmi" \in enabled THEN NMIStart ELSE rebased
    /\ Reschedule
    /\ UNCHANGED <<screen, enabled, irqH, irqV, irqLine, changing, waiting, phase>>

\* HC_HCOUNTER_MAX_EVENT: the counts are rebased by the line that ends, then
\* the length of the line that starts is chosen.
EndOfLine ==
    /\ Due /\ event = "h_max"
    /\ cycles' = cycles - hMax
    /\ v' = LineAfter /\ field' = FieldAfter
    /\ vMax' = IF LineAfter # 0 THEN vMax
               ELSE V_Max_Master + (IF interlace /\ field THEN 1 ELSE 0)
    /\ hMax' = H_Max_Master - OneDotIf(LineAfter = ShortLine /\ Short(FieldAfter))
    /\ irqTimer' = IF irqTimer = Never THEN Never ELSE irqTimer - hMax
    /\ LET blank == LineAfter = height + 1
           rebased == IF nmiPos = None THEN None ELSE nmiPos - hMax
       IN  /\ scanKeys' = (scanKeys \/ blank)
           /\ nmiFlag' = (blank \/ (nmiFlag /\ LineAfter # 0))
           /\ nmiPending' = (nmiPending \/ (blank /\ "nmi" \in enabled))
           /\ nmiPos' = IF blank /\ "nmi" \in enabled THEN NMIStart ELSE rebased
    /\ Reschedule
    /\ UNCHANGED <<screen, enabled, irqH, irqV, irqLine, changing, waiting, phase>>

-----------------------------------------------------------------------------
(* S9xMainLoop, from one instruction to the next. *)

At(p) == phase = p /\ ~Due

NmiDue == nmiPending /\ nmiPos <= cycles

\* CHECK_FOR_IRQ_CHANGE, for an NMI that NMITIMEN asked for.
CheckForChange ==
    /\ nmiPending' = (nmiPending \/ changing)
    /\ nmiPos' = IF changing THEN cycles + NMIEdge ELSE nmiPos
    /\ changing' = FALSE

WakeOnce == waiting' = waiting /\ cycles' = cycles + (IF waiting THEN WakeCost ELSE 0)

Wake == waiting' = FALSE /\ cycles' = cycles + (IF waiting THEN WakeCost ELSE 0)

\* The NMI is accepted. The cycles of the wake pass before its opcode runs.
AcceptNMI ==
    /\ At("top") /\ NmiDue
    /\ nmiPending' = FALSE /\ nmiPos' = None
    /\ Wake
    /\ phase' = "nmi"
    /\ UNCHANGED <<beam, screen, timer, nmiFlag, changing, scanKeys>>

S9xOpcode_NMI ==
    /\ At("nmi")
    /\ CheckForChange
    /\ cycles' = cycles + InterruptCost
    /\ phase' = "timer"
    /\ UNCHANGED <<beam, screen, timer, nmiFlag, waiting, scanKeys>>

TimerDue == cycles >= irqTimer

\* The timer is aimed at its next position before the line is raised.
CheckTimer ==
    /\ At("timer") \/ (At("top") /\ ~NmiDue)
    /\ irqTimer' = IF TimerDue THEN UpdateIRQPositions(enabled, irqH, irqV, FALSE)
                   ELSE irqTimer
    /\ irqLine' = (irqLine \/ TimerDue)
    /\ IF irqLine' THEN Wake ELSE UNCHANGED <<waiting, cycles>>
    /\ phase' = IF irqLine' THEN "irq" ELSE "last"
    /\ UNCHANGED <<beam, screen, enabled, irqH, irqV, nmi, scanKeys>>

\* The I flag is not modelled: an IRQ is taken or masked.
S9xOpcode_IRQ ==
    /\ At("irq")
    /\ \/ CheckForChange /\ cycles' = cycles + InterruptCost
       \/ UNCHANGED <<cycles, nmi>>
    /\ phase' = "last"
    /\ UNCHANGED <<beam, screen, timer, nmiFlag, waiting, scanKeys>>

FetchFirst ==
    /\ At("last")
    /\ CheckForChange
    /\ IF scanKeys /\ ~irqLine THEN phase' = "out" /\ cycles' = cycles
       ELSE phase' = "op" /\ cycles' = cycles + FetchCost
    /\ UNCHANGED <<beam, screen, timer, nmiFlag, waiting, scanKeys>>

\* The main loop is left for the front-end when the frame is over, else the
\* opcode is fetched; the events of these cycles come later.
Fetch ==
    /\ At("last")
    /\ CheckForChange
    /\ IF scanKeys THEN phase' = "out" /\ cycles' = cycles
       ELSE phase' = "op" /\ cycles' = cycles + FetchCost
    /\ UNCHANGED <<beam, screen, timer, nmiFlag, waiting, scanKeys>>

\* The front-end shows the frame, reads the input and comes back.
FrontEnd ==
    /\ At("out")
    /\ scanKeys' = FALSE /\ phase' = "top"
    /\ UNCHANGED <<cycles, beam, screen, timer, nmi, waiting>>

-----------------------------------------------------------------------------
(* Instructions. While the CPU waits, each one is the WAI again. *)

Spend == \E n \in OpCosts : cycles' = cycles + n

Op == At("op") /\ ~waiting /\ Spend /\ phase' = "top" /\ UNCHANGED <<beam, scanKeys>>

Plain == Op /\ UNCHANGED <<screen, timer, nmi, waiting>>

WAI ==
    /\ At("op") /\ Spend /\ phase' = "top"
    /\ waiting' = TRUE
    /\ UNCHANGED <<beam, screen, timer, nmi, scanKeys>>

\* $4200. Turning the timer on or off entirely aims it anew, and an NMI
\* turned on in the blanking comes at once unless RDNMI was read.
WriteNMITIMEN(en) ==
    /\ Op /\ en # enabled
    /\ LET was == enabled \cap {"v", "h"}
           now == en \cap {"v", "h"}
       IN  /\ irqTimer' = IF now = was THEN irqTimer
                          ELSE UpdateIRQPositions(en, irqH, irqV, now = {} \/ was = {})
           /\ irqLine' = (irqLine /\ now # {})
    /\ changing' = (changing \/ ("nmi" \in en \ enabled /\ v >= height + 1 /\ nmiFlag))
    /\ enabled' = en
    /\ UNCHANGED <<screen, irqH, irqV, nmiFlag, nmiPending, nmiPos, waiting>>

\* $4207 and $4208.
WriteHTIME(h) ==
    /\ Op /\ h # irqH
    /\ irqH' = h
    /\ irqTimer' = UpdateIRQPositions(enabled, h, irqV, FALSE)
    /\ UNCHANGED <<screen, enabled, irqV, irqLine, nmi, waiting>>

\* $4209 and $420A.
WriteVTIME(vt) ==
    /\ Op /\ vt # irqV
    /\ irqV' = vt
    /\ irqTimer' = UpdateIRQPositions(enabled, irqH, vt, TRUE)
    /\ UNCHANGED <<screen, enabled, irqH, irqLine, nmi, waiting>>

\* $4210.
ReadRDNMI ==
    /\ Op
    /\ nmiFlag' = FALSE
    /\ UNCHANGED <<screen, timer, nmiPending, nmiPos, changing, waiting>>

\* $4211.
ReadTIMEUP ==
    /\ Op
    /\ irqLine' = FALSE
    /\ UNCHANGED <<screen, enabled, irqH, irqV, irqTimer, nmi, waiting>>

\* $2133. Neither the timer nor the length of the frame is computed again.
WriteSETINI(lines, mode) ==
    /\ Op
    /\ height' = lines /\ interlace' = mode
    /\ UNCHANGED <<timer, nmi, waiting>>

\* $420B: the CPU stands still while the bytes go over, the events go on.
StartDMA ==
    /\ At("op") /\ ~waiting
    /\ phase' = "dma"
    /\ UNCHANGED <<cycles, beam, screen, timer, nmi, waiting, scanKeys>>

DMAByte ==
    /\ At("dma")
    /\ irqTimer >= -MaxLate /\ (nmiPos # None => nmiPos >= -MaxLate)
    /\ cycles' = cycles + DMAUnit
    /\ UNCHANGED <<beam, screen, timer, nmi, waiting, scanKeys, phase>>

\* An NMI that became pending in the transfer, or before it, waits on, except
\* where S9xDoDMA returns early: HDMA took the channel, or WRAM to $2180.
EndDMA ==
    /\ At("dma")
    /\ \/ nmiPos' = IF nmiPending /\ nmiPos # None THEN cycles + NMIDMADelay ELSE nmiPos
       \/ UNCHANGED nmiPos
    /\ Spend /\ phase' = "top"
    /\ UNCHANGED <<beam, screen, timer, nmiFlag, nmiPending, changing, waiting, scanKeys>>

-----------------------------------------------------------------------------
Init ==
    /\ cycles = ResetCycles /\ v = 0 /\ event = "render"
    /\ hMax = H_Max_Master /\ vMax = V_Max_Master /\ field = FALSE
    /\ interlace = FALSE /\ height = SNES_HEIGHT
    /\ enabled = {} /\ irqH = Unset /\ irqV = Unset
    /\ irqTimer = Never /\ irqLine = FALSE
    /\ nmiFlag = FALSE /\ nmiPending = FALSE /\ nmiPos = None /\ changing = FALSE
    /\ waiting = FALSE /\ scanKeys = FALSE /\ phase = "top"

Step ==
    \/ LineEvent \/ EndOfLine
    \/ AcceptNMI \/ S9xOpcode_NMI \/ CheckTimer \/ S9xOpcode_IRQ \/ Fetch \/ FrontEnd

Instruction ==
    \/ Plain \/ WAI
    \/ \E en \in Enables : WriteNMITIMEN(en)
    \/ \E h \in HTimes : WriteHTIME(h)
    \/ \E vt \in VTimes : WriteVTIME(vt)
    \/ ReadRDNMI \/ ReadTIMEUP
    \/ \E lines \in Heights, mode \in Interlaces : WriteSETINI(lines, mode)
    \/ StartDMA \/ DMAByte \/ EndDMA

Next == Step \/ Instruction

\* The emulated clock never stops: front-ends call S9xMainLoop again and again.
Spec == Init /\ [][Next]_vars /\ WF_vars(Next)

-----------------------------------------------------------------------------
(* Properties. *)

\* The clock, the line and the registers keep their types, and no line runs
\* over its end before the event that ends it has been handled.
TypeOK ==
    /\ cycles \in Nat /\ v \in 0..(vMax - 1) /\ event \in Events
    /\ hMax \in {H_Max_Master, H_Max_Master - Dot}
    /\ vMax \in {V_Max_Master, V_Max_Master + 1}
    /\ field \in BOOLEAN /\ interlace \in BOOLEAN /\ height \in Heights
    /\ enabled \in {{}} \cup Enables
    /\ irqH \in {Unset} \cup HTimes /\ irqV \in {Unset} \cup VTimes
    /\ irqTimer \in Int /\ irqLine \in BOOLEAN
    /\ nmiFlag \in BOOLEAN /\ nmiPending \in BOOLEAN /\ changing \in BOOLEAN
    /\ nmiPos \in Int \cup {None} /\ waiting \in BOOLEAN /\ scanKeys \in BOOLEAN
    /\ phase \in {"top", "nmi", "timer", "irq", "last", "out", "op", "dma"}

\* The beam, followed line by line: where it is n lines on, and how long that
\* takes from the start of this line.
BeamAfter[n \in 0..(2 * V_Max_Master + 2)] ==
    IF n = 0 THEN [line |-> v, odd |-> field, last |-> vMax - 1, time |-> 0]
    ELSE LET b == BeamAfter[n - 1]
             wraps == b.line = b.last
             odd == IF wraps THEN ~b.odd ELSE b.odd
             length == IF n = 1 THEN hMax
                       ELSE H_Max_Master - OneDotIf(b.line = ShortLine /\ Short(b.odd))
         IN  [line |-> IF wraps THEN 0 ELSE b.line + 1,
              odd |-> odd,
              last |-> IF wraps THEN V_Max_Master - (IF interlace /\ b.odd THEN 0 ELSE 1)
                       ELSE b.last,
              time |-> b.time + length]

\* When the beam next comes to the programmed position after cycle c of this
\* line. A game that programs only dots loses one that is nearly there.
NextMatch(c) ==
    LET hc == IF "h" \in enabled THEN HTimerPosition(irqH) ELSE VOnlyPosition
        on(n) == "v" \notin enabled \/ BeamAfter[n].line = irqV
    IN  IF on(0) /\ hc > c THEN hc
        ELSE LET n == CHOOSE n \in 1..(2 * V_Max_Master + 2) :
                         on(n) /\ \A k \in 1..(n - 1) : ~on(k)
             IN  BeamAfter[n].time + hc

Armed ==
    /\ enabled \cap {"v", "h"} # {}
    /\ "v" \in enabled => irqV < V_Max_Master
    /\ "h" \in enabled => irqH # Unset

\* However the registers are written and wherever the beam is, across the ends
\* of lines and frames, short lines and long frames, the timer is always about
\* to fire or aimed, to a dot, at the next time the beam comes to the
\* programmed position (S9xUpdateIRQPositions, CyclesUntilNext and the
\* rebasing at the end of each line); with no timer enabled it never fires.
TimerAimed ==
    /\ Armed => \/ irqTimer <= cycles + IRQTriggerCycles
               \/ \E c \in {cycles, cycles + (IF "v" \in enabled THEN 0 ELSE IRQTriggerCycles)} :
                     irqTimer \in (NextMatch(c) - Dot)..(NextMatch(c) + Dot)
    /\ enabled \cap {"v", "h"} = {} => irqTimer = Never

\* A pending NMI has a position, never further off than the delay after a DMA:
\* the ends of lines cannot carry it away, whether the blanking, NMITIMEN or a
\* DMA set it (NMIPending and NMITriggerPos in cpuexec.cpp, ppu.cpp, dma.cpp).
NmiImminent ==
    /\ nmiPending <=> nmiPos # None
    /\ nmiPending => nmiPos <= cycles + NMIDMADelay

\* A CPU that waits with the NMI enabled always wakes: the blanking of this
\* frame or the next makes one pending, and the main loop accepts it.
WaitEnds == (waiting /\ "nmi" \in enabled) ~> ~waiting

\* Unless the game moves the blanking or never ends a DMA, the main loop
\* returns to the front-end frame after frame, whatever interrupts there are.
FramesReturn ==
    (\E h \in Heights : <>[](height = h)) /\ []<>(phase # "dma") => []<>(phase = "out")
=============================================================================
