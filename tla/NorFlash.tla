------------------------------ MODULE NorFlash ------------------------------
(***************************************************************************)
(* What a NOR flash promises its driver: a program or an erase happens     *)
(* wholly or not at all, at the address it was requested for, and nothing  *)
(* else changes the array.                                                 *)
(***************************************************************************)
EXTENDS Integers, Sequences

CONSTANTS Bits, Size, Sector, Requests, None

VARIABLES cells, request, served

nor == <<cells, request, served>>

Address == 0 .. Size - 1

(* Programming clears the bits that are clear in the data; an erase sets   *)
(* every bit of the sector around the address.                             *)
After(r) ==
  [a \in Address |->
     CASE r.kind = "program" /\ a - r.addr \in 0 .. Len(r.data) - 1 ->
            cells[a] \intersect r.data[a - r.addr + 1]
       [] r.kind = "erase" /\ a \div Sector = r.addr \div Sector -> Bits
       [] OTHER -> cells[a]]

Init ==
  /\ cells = [a \in Address |-> Bits]
  /\ request = None /\ served = FALSE

Ask ==
  /\ request = None
  /\ request' \in Requests
  /\ UNCHANGED <<cells, served>>

Serve ==
  /\ request # None /\ ~served
  /\ cells' = After(request)
  /\ served' = TRUE
  /\ UNCHANGED request

(* The driver has been served, or gives up.                                *)
Withdraw ==
  /\ request # None
  /\ request' = None /\ served' = FALSE
  /\ UNCHANGED cells

Next == Ask \/ Serve \/ Withdraw

Spec == Init /\ [][Next]_nor
=============================================================================
