------------------------------- MODULE Inputs -------------------------------
(***************************************************************************)
(* Firmware that follows the levels of GPIO inputs by their interrupts: on *)
(* a line that is up it samples ISR and IMR of a controller behind it,     *)
(* acknowledges what it sampled, and looks at each of those pins.  Outside *)
(* the handler it masks pins and turns them round; the host moves levels   *)
(* at any moment.                                                          *)
(***************************************************************************)
EXTENDS Gpio

CONSTANTS
  Ports,      \* controllers, 0 for GPIO1
  Trigger,    \* what the firmware set a pin up for, "any" by EDGE_SEL
  MaxMoves,   \* levels the host changes
  MaxTurns,   \* pins the firmware masks, unmasks or turns round
  Nothing     \* the handler at rest

ASSUME TriggerAssumption == Trigger \in [Pins -> {"any", "low", "high", "rising", "falling"}]

VARIABLES
  gpio,      \* the controllers
  sampled,   \* what the handler has sampled and not yet acknowledged
  visits,    \* pins the firmware is about to look at
  seen,      \* pins it found high when it last looked
  moves,     \* levels the host may still change
  turns      \* changes the firmware may still make

inputsVars == <<gpio, sampled, visits, seen, moves, turns>>

(* The lines that are up, of irq_lines.                                    *)
LinesUp ==
  {Line(x[1], x[2]) : x \in {y \in Ports \X {0, 1} : IrqPending(gpio[y[1]], y[2])}}

(* The controllers a handler of the firmware looks at, by its vector.      *)
Behind(line) ==
  IF line = 157 THEN (Ports \ 0 .. 4) \X {0, 1}
  ELSE {x \in (Ports \intersect 0 .. 4) \X {0, 1} : 80 + 2 * x[1] + x[2] = line}

Sample ==
  /\ sampled = Nothing
  /\ \E line \in LinesUp : \E x \in Behind(line) :
        /\ IrqPending(gpio[x[1]], x[2])
        /\ sampled' = [port |-> x[1],
                       pins |-> gpio[x[1]].isr \intersect gpio[x[1]].imr \intersect Half(x[2])]
  /\ UNCHANGED <<gpio, visits, seen, moves, turns>>

Acknowledge ==
  /\ sampled # Nothing /\ sampled' = Nothing
  /\ gpio' = [gpio EXCEPT ![sampled.port] = WriteIsr(@, sampled.pins)]
  /\ visits' = visits \union ({sampled.port} \X sampled.pins)
  /\ UNCHANGED <<seen, moves, turns>>

IsHigh(x) == x[2] \in Psr(gpio[x[1]])

Look ==
  /\ \E x \in visits :
        /\ visits' = visits \ {x}
        /\ seen' = IF IsHigh(x) THEN seen \union {x} ELSE seen \ {x}
  /\ UNCHANGED <<gpio, sampled, moves, turns>>

(* IMR, and GDIR with a look at the pin when it is an input again.         *)
Turn == sampled = Nothing /\ turns > 0 /\ turns' = turns - 1

SetMask ==
  /\ Turn
  /\ \E x \in Ports \X Pins :
        gpio' = [gpio EXCEPT ![x[1]].imr = IF x[2] \in @ THEN @ \ {x[2]} ELSE @ \union {x[2]}]
  /\ UNCHANGED <<sampled, visits, seen, moves>>

TurnRound ==
  /\ Turn
  /\ \E x \in Ports \X Pins :
        IF x[2] \in gpio[x[1]].gdir
        THEN /\ gpio' = [gpio EXCEPT ![x[1]].gdir = @ \ {x[2]}]
             /\ visits' = visits \union {x}
        ELSE /\ gpio' = [gpio EXCEPT ![x[1]].gdir = @ \union {x[2]}]
             /\ UNCHANGED visits
  /\ UNCHANGED <<sampled, seen, moves>>

HostMoves ==
  /\ moves > 0 /\ moves' = moves - 1
  /\ \E x \in Ports \X Pins, level \in BOOLEAN :
        gpio' = [gpio EXCEPT ![x[1]] = SetInput(@, x[2], level)]
  /\ UNCHANGED <<sampled, visits, seen, turns>>

(* After the set-up of the firmware, every pin low.                        *)
InputsInit ==
  /\ gpio = [port \in Ports |->
               [GpioNew EXCEPT !.imr = Pins, !.edge_sel = {p \in Pins : Trigger[p] = "any"},
                               !.icr = [p \in Pins |-> IF Trigger[p] = "any" THEN "low" ELSE Trigger[p]]]]
  /\ sampled = Nothing /\ visits = {} /\ seen = {} /\ moves = MaxMoves /\ turns = MaxTurns

InputsServes == Sample \/ Acknowledge \/ Look
InputsNext   == InputsServes \/ SetMask \/ TurnRound \/ HostMoves

InputsTypes ==
  /\ \A port \in Ports : \A reg \in {"dr", "gdir", "input", "imr", "isr"} : gpio[port][reg] \subseteq Pins
  /\ sampled = Nothing \/ sampled.pins # {}
  /\ visits \union seen \subseteq Ports \X Pins

(* What the firmware believes of an input is true, or the interrupt that   *)
(* corrects it is latched or being handled: no edge is lost between the    *)
(* reading of ISR and its acknowledgement, in the other half, or while the *)
(* pin is masked (src/src/peripherals/gpio.rs:63, :119).                   *)
Believed(x, level) == (x \in seen) = level
Watched(p, level) ==
  Trigger[p] \in (IF level THEN {"any", "rising", "high"} ELSE {"any", "falling", "low"})

InputsAreFollowed ==
  \A x \in Ports \X Pins :
    \/ x[2] \in gpio[x[1]].gdir
    \/ Believed(x, IsHigh(x)) \/ ~Watched(x[2], IsHigh(x))
    \/ x \in visits \/ x[2] \in gpio[x[1]].isr
=============================================================================
