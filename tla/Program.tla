------------------------------ MODULE Program -------------------------------
(***************************************************************************)
(* What the emulated core promises a program: its instructions execute one *)
(* after another, each by the raw executor, and an IT block applies to the *)
(* instructions after it the conditions it lists.  There is no ITSTATE, no *)
(* decoded path, no interrupt and no debugger.                             *)
(***************************************************************************)
EXTENDS Decoded, Sequences

VARIABLES
  text,   \* the instruction at each address of the program
  core,   \* what the program sees of the core
  plan    \* conditions of the rest of the IT block, next one first

programVars == <<text, core, plan>>

(* One instruction, skipped where the condition listed for it fails.       *)
Instruction ==
  LET s    == core
      pc   == s.r[PC]
      i    == text[pc]
      next == [s EXCEPT !.r[PC] = Wrap(pc + Width(i))]
      rest == plan
      inIt == rest # <<>>
  IN /\ s.brk = "none" /\ pc \in DOMAIN text
     /\ core' = IF i.op = "it" \/ (inIt /\ ~CondPassed(s, Head(rest)))
                THEN next ELSE Execute(next, i, pc, inIt)
     /\ plan' = IF inIt THEN Tail(rest)
                ELSE IF i.op = "it" THEN Listed(i.cond, i.mask) ELSE <<>>
     /\ UNCHANGED text

Init == plan = <<>>
Spec == Init /\ [][Instruction]_programVars
=============================================================================
