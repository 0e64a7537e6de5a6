------------------------------- MODULE MCEdma -------------------------------
(***************************************************************************)
(* Firmwares for Edma: three channels, eight bytes of RAM.                 *)
(***************************************************************************)
EXTENDS Edma

(* A channel that moves one byte per request out of the receive FIFO.      *)
Receive(daddr, dlast, csr, linkch) ==
  [EmptyTcd EXCEPT
     !.saddr = UartData, !.nbytes = 1,
     !.daddr = daddr, !.doff = 1, !.dlast = dlast,
     !.citer = 2, !.biter = 2, !.csr = csr, !.linkch = linkch]

(* A channel that moves two bytes per minor loop, in transfers of these    *)
(* widths, and count minor loops per block.                                *)
Copy(saddr, daddr, ssize, dsize, count, dlast, csr, linkch) ==
  [EmptyTcd EXCEPT
     !.saddr = saddr, !.soff = ssize, !.ssize = ssize, !.slast = -2 * count,
     !.nbytes = 2,
     !.daddr = daddr, !.doff = dsize, !.dsize = dsize, !.dlast = dlast,
     !.citer = count, !.biter = count, !.csr = csr, !.linkch = linkch]

Transmit(nbytes, count, csr) ==
  [EmptyTcd EXCEPT
     !.saddr = 5, !.soff = 1, !.slast = -2, !.nbytes = nbytes,
     !.daddr = UartData, !.citer = count, !.biter = count, !.csr = csr]

(* Descriptors in RAM: two receive halves and the copy of each.            *)
HalfA == 100
HalfB == 101
CopyA == 102
CopyB == 103

MCStored ==
  (  HalfA :> Receive(0, HalfB, {"INTMAJOR", "MAJORELINK", "ESG"}, 1)
  @@ HalfB :> Receive(2, HalfA, {"INTMAJOR", "MAJORELINK", "ESG"}, 1)
  @@ CopyA :> Copy(0, 5, 2, 2, 1, CopyB, {"MAJORELINK", "ESG"}, 2)
  @@ CopyB :> Copy(2, 5, 2, 2, 1, CopyA, {"MAJORELINK", "ESG"}, 2))

Plain ==
  [name |-> None, tcd |-> <<>>, mux |-> <<>>, baud |-> {}, mem |-> <<>>,
   receive |-> {}, starts |-> {}, ring |-> 0, block |-> 2,
   guards |-> {}, echo |-> FALSE, oneshot |-> FALSE, announced |-> FALSE, transmit |-> {},
   from |-> 0, to |-> 0, copy |-> 0]

Rx == "LPUART1_RX"
Tx == "LPUART1_TX"

(* Receive into one block, link to a copy, link to a transmission.         *)
Echo ==
  [Plain EXCEPT
     !.name = "echo",
     !.tcd = (0 :> Receive(0, -2, {"INTMAJOR", "MAJORELINK"}, 1)
           @@ 1 :> Copy(0, 5, 2, 2, 1, -2, {"MAJORELINK"}, 2)
           @@ 2 :> Transmit(2, 1, {})),
     !.mux = 0 :> Rx, !.receive = {0}, !.baud = {"RDMAE"},
     !.ring = 2, !.guards = {2, 3, 4, 7}, !.echo = TRUE, !.announced = TRUE]

(* The same over two half buffers that scatter-gather into each other.     *)
PingPong ==
  [Plain EXCEPT
     !.name = "pingpong",
     !.tcd = (0 :> MCStored[HalfA] @@ 1 :> MCStored[CopyA]
           @@ 2 :> Transmit(2, 1, {})),
     !.mux = 0 :> Rx, !.receive = {0}, !.baud = {"RDMAE"},
     !.ring = 4, !.guards = {4, 7}, !.echo = TRUE, !.announced = TRUE]

(* One block per enable in each direction: a receiving channel, and one    *)
(* that empties a buffer at the requests of the transmitter.               *)
Duplex ==
  [Plain EXCEPT
     !.name = "duplex",
     !.tcd = (0 :> Receive(0, -2, {"INTMAJOR", "DREQ"}, 0)
           @@ 2 :> Transmit(1, 2, {"INTMAJOR", "DREQ"})),
     !.mux = (0 :> Rx @@ 2 :> Tx), !.baud = {"RDMAE", "TDMAE"},
     !.mem = (5 :> 8 @@ 6 :> 9), !.receive = {0}, !.transmit = {2},
     !.from = 5, !.ring = 2, !.guards = 2 .. 7,
     !.oneshot = TRUE, !.announced = TRUE]

(* Software-started copies of four bytes, a minor loop per start.          *)
Pattern == [a \in 0 .. 3 |-> 7 + a]

MemCopy(name, ssize, dsize) ==
  [Plain EXCEPT
     !.name = name,
     !.tcd = 1 :> Copy(0, 4, ssize, dsize, 2, -4, {"INTMAJOR"}, 0),
     !.mem = Pattern, !.starts = {1}, !.from = 0, !.to = 4, !.copy = 4]

(* A count of zero wraps to the largest one.                               *)
ZeroCount ==
  [Plain EXCEPT
     !.name = "zerocount",
     !.tcd = 1 :> [Copy(0, 4, 1, 1, 2, -4, {}, 0) EXCEPT !.citer = 0],
     !.mem = Pattern, !.starts = {1}]

MCSetups == {Echo, PingPong, Duplex, ZeroCount,
             MemCopy("copy1", 1, 1), MemCopy("copy2", 2, 2)}

(* What the theorems about these programs assume of them.                  *)
ASSUME ProgramAssumption ==
  \A s \in MCSetups :
    /\ AlignedCopy(s)
    /\ s.ring > 0 => \E c \in Channel : Receives(s, c)
    /\ s.announced => \E c \in Channel :
         /\ ReceivesBlocks(s, c)
         /\ \A o \in Descriptors(s, c) : "INTMAJOR" \in o.csr
    /\ s.oneshot => \E c \in Channel :
         /\ ReceivesBlocks(s, c)
         /\ \A o \in Descriptors(s, c) : "DREQ" \in o.csr
    /\ s.transmit # {} => \E t \in Channel : Transmits(s, t)
    /\ s.echo => \E c, k, t \in Channel, b \in Ram : Echoes(s, c, k, t, b)

(* Copies whose two widths differ.                                         *)
WidthSetups == {MemCopy("narrow", 2, 1), MemCopy("wide", 1, 2)}

(* The receiving channel is above the channel it links to.                 *)
Backward ==
  [Plain EXCEPT
     !.name = "backward",
     !.tcd = (0 :> Copy(0, 5, 2, 2, 1, -2, {}, 0)
           @@ 1 :> Receive(0, -2, {"INTMAJOR", "DREQ", "MAJORELINK"}, 0)),
     !.mux = 1 :> Rx, !.receive = {1}, !.baud = {"RDMAE"},
     !.ring = 2, !.guards = {2, 3, 4, 7}]

BackwardSetups == {Backward}
=============================================================================
