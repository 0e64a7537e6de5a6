------------------------------ MODULE Devices ------------------------------
(***************************************************************************)
(* The devices a board is wired to, each under the driver that uses it:    *)
(* serial buses and the ADC (Wiring), GPIO inputs (Inputs) and the CAN bus *)
(* (Mailboxes).  They share nothing, so a behaviour is about one of them.  *)
(***************************************************************************)
EXTENDS Wiring, Inputs, Mailboxes

VARIABLE about

vars == <<about, wiringVars, inputsVars, mailboxVars>>

Init ==
  /\ about \in {"wiring", "inputs", "mailboxes"}
  /\ WiringInit /\ InputsInit /\ MailboxInit
  /\ about # "wiring" => bench = CHOOSE b \in Benches : TRUE

Only(part) ==
  /\ about = part /\ UNCHANGED about
  /\ part # "wiring"    => UNCHANGED wiringVars
  /\ part # "inputs"    => UNCHANGED inputsVars
  /\ part # "mailboxes" => UNCHANGED mailboxVars

Serves ==
  \/ Only("wiring") /\ WiringServes
  \/ Only("inputs") /\ InputsServes
  \/ Only("mailboxes") /\ MailboxServes

Next ==
  \/ Only("wiring") /\ WiringNext
  \/ Only("inputs") /\ InputsNext
  \/ Only("mailboxes") /\ MailboxNext

(* The firmware is executed, and a host of external controllers takes the  *)
(* trace between the batches it runs.                                      *)
Spec == Init /\ [][Next]_vars /\ WF_vars(Serves)

TypeInvariant == WiringTypes /\ InputsTypes /\ MailboxTypes

(***************************************************************************)
(* Liveness                                                                *)
(***************************************************************************)
(* Whatever waits is served: a transaction ends; when the host and the    *)
(* firmware have moved the last pin, every unmasked pin whose interrupt is *)
(* latched is handled; every accepted frame is read (irq_lines of          *)
(* src/src/peripherals/mod.rs:729, irq_pending and dma_request of the      *)
(* devices).                                                               *)
PinsHandled ==
  visits = {} /\ \A port \in Ports : gpio[port].isr \intersect gpio[port].imr = {}

EventsAreServed ==
  /\ (job # None) ~> (job = None)
  /\ <>[](PinsHandled /\ accepted = Range(frames))
=============================================================================
