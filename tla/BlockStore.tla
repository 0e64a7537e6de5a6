----------------------------- MODULE BlockStore -----------------------------
(***************************************************************************)
(* What a card promises its driver: the blocks of a write are stored whole *)
(* and in order, each once, from the block it was requested for; what lies *)
(* beyond the end is not stored, and nothing else changes a block.         *)
(***************************************************************************)
EXTENDS Integers, Sequences

CONSTANTS Size, Empty, Requests, None

VARIABLES blocks, request, stored

store == <<blocks, request, stored>>

Init ==
  /\ blocks = [b \in 0 .. Size - 1 |-> Empty]
  /\ request = None /\ stored = 0

Ask ==
  /\ request = None
  /\ request' \in Requests
  /\ UNCHANGED <<blocks, stored>>

Store ==
  /\ request # None
  /\ stored < Len(request.data)
  /\ blocks' = [b \in DOMAIN blocks |->
                  IF b = request.start + stored
                    THEN request.data[stored + 1] ELSE blocks[b]]
  /\ stored' = stored + 1
  /\ UNCHANGED request

(* The driver has stored all blocks, or gives up.                          *)
Withdraw ==
  /\ request # None
  /\ request' = None /\ stored' = 0
  /\ UNCHANGED blocks

Next == Ask \/ Store \/ Withdraw

Spec == Init /\ [][Next]_store
=============================================================================
