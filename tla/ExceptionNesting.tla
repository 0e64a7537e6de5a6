-------------------------- MODULE ExceptionNesting --------------------------
(***************************************************************************)
(* What exception entry and return promise to the firmware, with no        *)
(* stacks, EXC_RETURN values or banked stack pointers: the processor runs  *)
(* a tower of activations.  A thread is at the bottom, one handler         *)
(* activation per exception taken is above it, and only the topmost        *)
(* activation runs.  Entering and leaving a handler changes no register    *)
(* of an activation below it, and a handler may leave another thread at    *)
(* the bottom only by naming it.  Module Exceptions implements this.       *)
(***************************************************************************)
EXTENDS Sequences, SequencesExt

CONSTANTS
  Threads,   \* threads, each with a process stack of its own
  Boot,      \* the thread that runs after reset
  Exc,       \* exception numbers that can be entered
  Regs       \* values of the registers an exception saves

VARIABLES
  thread,      \* the thread at the bottom of the tower
  threadRegs,  \* the registers of every thread, running or not
  handlers     \* the handler activations, outermost first

vars == <<thread, threadRegs, handlers>>

Activation == [exc : Exc, regs : Regs]

Init ==
  /\ thread = Boot
  /\ threadRegs \in [Threads -> Regs]
  /\ handlers = <<>>

(* The topmost activation computes: its own registers change, no others. *)
Work ==
  /\ \E r \in Regs :
       IF handlers = <<>>
         THEN /\ threadRegs' = [threadRegs EXCEPT ![thread] = r]
              /\ UNCHANGED handlers
         ELSE /\ handlers' = [handlers EXCEPT ![Len(handlers)].regs = r]
              /\ UNCHANGED threadRegs
  /\ UNCHANGED thread

(* An exception is taken: a new activation on top, everything below kept. *)
Enter ==
  /\ \E a \in Activation : handlers' = Append(handlers, a)
  /\ UNCHANGED <<thread, threadRegs>>

(* The topmost handler returns: the activation below resumes as it was. *)
Leave ==
  /\ handlers # <<>>
  /\ handlers' = Front(handlers)
  /\ UNCHANGED <<thread, threadRegs>>

(* A handler that interrupted a thread chooses which thread resumes. *)
Schedule ==
  /\ Len(handlers) = 1
  /\ thread' \in Threads
  /\ UNCHANGED <<threadRegs, handlers>>

(* The chip is reset: the tower is gone and the boot thread starts afresh. *)
Restart ==
  /\ thread' = Boot
  /\ threadRegs' \in [Threads -> Regs]
  /\ handlers' = <<>>

Next == Work \/ Enter \/ Leave \/ Schedule \/ Restart

Spec == Init /\ [][Next]_vars
=============================================================================
