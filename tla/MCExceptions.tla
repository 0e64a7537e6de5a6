---------------------------- MODULE MCExceptions ----------------------------
(***************************************************************************)
(* Small firmwares for module Exceptions.                                  *)
(***************************************************************************)
EXTENDS Exceptions

CONSTANTS main, worker   \* model values: threads

MCThreads == {main, worker}

(* Two interrupts, written with one IPR store, and the system handlers:    *)
(* SHPR3 holds PendSV and SysTick, SHPR2 holds SVCall.                     *)
MCPrioWrites ==
  { (16 :> 64 @@ 17 :> 0),
    (PendSV :> 240 @@ SysTick :> 64),
    (SVCall :> 128) }

(* The same firmware with one interrupt. *)
MCOneIrqPrios ==
  { (16 :> 64), (PendSV :> 240 @@ SysTick :> 64), (SVCall :> 128) }
=============================================================================
