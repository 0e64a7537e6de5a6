-------------------------------- MODULE Gpio --------------------------------
(***************************************************************************)
(* One GPIO controller of src/src/peripherals/gpio.rs.  A register is the  *)
(* set of the pins whose bit is set; ICR1 and ICR2 together map a pin to   *)
(* what it waits for.                                                      *)
(***************************************************************************)
EXTENDS Integers, FiniteSets

CONSTANT Pins

GpioNew ==
  [dr |-> {}, gdir |-> {}, input |-> {}, imr |-> {}, isr |-> {}, edge_sel |-> {},
   icr |-> [p \in Pins |-> "low"]]

(* PSR: the level of a pin, driven by DR or from outside.                  *)
Psr(g) == (g.dr \intersect g.gdir) \union (g.input \ g.gdir)

(* A new level on a pin that was at prev latches its interrupt.            *)
Latches(g, pin, prev, level) ==
  IF pin \in g.edge_sel THEN prev # level
  ELSE CASE g.icr[pin] = "low"     -> ~level
         [] g.icr[pin] = "high"    -> level
         [] g.icr[pin] = "rising"  -> ~prev /\ level
         [] g.icr[pin] = "falling" -> prev /\ ~level

SetInput(g, pin, level) ==
  [g EXCEPT !.input = IF level THEN @ \union {pin} ELSE @ \ {pin},
            !.isr   = IF pin \notin g.gdir /\ Latches(g, pin, pin \in g.input, level)
                      THEN @ \union {pin} ELSE @]

(* Mutant of WriteIsr: any write acknowledges everything.                  *)
ClearIsr(g, pins)  == [g EXCEPT !.isr = IF pins = {} THEN @ ELSE {}]

(* The registers that act on other bits than they are written with.        *)
WriteIsr(g, pins)  == [g EXCEPT !.isr = @ \ pins]
DrSet(g, pins)     == [g EXCEPT !.dr = @ \union pins]
DrClear(g, pins)   == [g EXCEPT !.dr = @ \ pins]
DrToggle(g, pins)  == [g EXCEPT !.dr = (@ \ pins) \union (pins \ @)]
WriteDr(g, pins)   == [g EXCEPT !.dr = pins]

(* The two interrupt lines: pins 0 to 15, pins 16 to 31.                   *)
Half(half) == {p \in Pins : p \div 16 = half}
IrqPending(g, half) == g.isr \intersect g.imr \intersect Half(half) # {}

(* Mutant of Line: GPIO6 has lines of its own.                             *)
LineOfSixth(port, half) == IF port <= 5 THEN 80 + 2 * port + half ELSE 157

(* The line of a controller (0 for GPIO1): GPIO6 to GPIO9 share one.       *)
Line(port, half) == IF port < 5 THEN 80 + 2 * port + half ELSE 157
=============================================================================
