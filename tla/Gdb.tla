--------------------------------- MODULE Gdb ---------------------------------
(***************************************************************************)
(* The GDB server of src/src/gdb/mod.rs between a client and the machine.  *)
(* The server is one thread: it answers a packet at a time, and while it   *)
(* continues the target it looks at the socket between chunks of           *)
(* instructions only.  The client sends one command and waits for the      *)
(* answer, but may send the interrupt byte at any time it waits for a      *)
(* continue, and a packet may arrive damaged.  Handshake queries and reads *)
(* of registers and memory change nothing here and are left out.           *)
(***************************************************************************)
EXTENDS Machine

CONSTANTS
  Scenarios,  \* [text, cores, irqs, attached]: programs and the cores they start on
  Chunk,      \* instructions between two looks at the socket
  MaxSteps,   \* commands a client sends
  MaxDamage,  \* packets that arrive damaged
  Plantable   \* addresses where it sets breakpoints

VARIABLES
  mode,      \* "free": no client; "idle": in next_packet; "running": continuing
  left,      \* instructions left of the chunk
  rx,        \* bytes on their way to the server, as items
  tx,        \* packets and acknowledgements on their way to the client
  sent,      \* the command the client waits for, <<>> for none
  budget     \* [steps, damage]: what the client may still do

serverVars == <<mode, left, rx, tx>>
clientVars == <<sent, budget>>
gdbVars    == <<serverVars, clientVars>>
vars       == <<machineVars, gdbVars>>

(***************************************************************************)
(* The client                                                              *)
(***************************************************************************)
Commands ==
  {<<"c">>, <<"s">>} \union ({"plant"} \X (Plantable \ planted)) \union ({"unplant"} \X planted)

(* A packet, damaged on its way or not.                                    *)
Packet(cmd, damaged) == [cmd |-> cmd, damaged |-> damaged]
InterruptByte == Packet(<<"interrupt">>, FALSE)

Deliver(cmd) ==
  \E damaged \in IF budget.damage > 0 THEN BOOLEAN ELSE {FALSE} :
    /\ rx' = Append(rx, Packet(cmd, damaged))
    /\ budget' = [steps  |-> IF sent = <<>> THEN budget.steps - 1 ELSE budget.steps,
                  damage |-> IF damaged THEN budget.damage - 1 ELSE budget.damage]

Send ==
  /\ mode # "free" /\ sent = <<>> /\ budget.steps > 0
  /\ \E cmd \in Commands : Deliver(cmd) /\ sent' = cmd
  /\ UNCHANGED <<machineVars, mode, left, tx>>

SendInterrupt ==
  /\ sent = <<"c">>
  /\ sent' = <<"interrupt">>
  /\ rx' = Append(rx, InterruptByte)
  /\ UNCHANGED <<machineVars, mode, left, tx, budget>>

(* A "-" asks for the packet again; any stop ends a wait.                  *)
Receive ==
  /\ tx # <<>>
  /\ tx' = Tail(tx)
  /\ IF Head(tx) = "-" /\ sent # <<>>
     THEN Deliver(IF sent = <<"interrupt">> THEN <<"c">> ELSE sent) /\ UNCHANGED sent
     ELSE sent' = <<>> /\ UNCHANGED <<rx, budget>>
  /\ UNCHANGED <<machineVars, mode, left>>

(***************************************************************************)
(* The server                                                              *)
(***************************************************************************)
Reply(packet) == tx' = Append(tx, packet)

(* What the server does to a core that has stopped.                        *)
Rewound(s) ==
  [s EXCEPT !.r[PC] = IF s.brk = "bkpt" THEN Wrap(@ - 2) ELSE @, !.brk = "none"]

Serving == mode = "idle" /\ rx # <<>>
Command == Head(rx).cmd
Sound   == Serving /\ ~Head(rx).damaged

(* next_packet: a wrong checksum is answered "-".                          *)
RejectDamaged ==
  /\ Serving /\ Head(rx).damaged
  /\ rx' = Tail(rx) /\ Reply("-")
  /\ UNCHANGED <<machineVars, clientVars, mode, left>>

(* An interrupt byte that found no running target is answered like "?".    *)
LateInterrupt ==
  /\ Sound /\ Command = <<"interrupt">>
  /\ rx' = Tail(rx) /\ Reply("S05")
  /\ UNCHANGED <<machineVars, clientVars, mode, left>>

(* M: a breakpoint written, or the original instruction restored.          *)
WriteCode ==
  /\ Sound /\ Command[1] \in {"plant", "unplant"}
  /\ planted' = IF Command[1] = "plant" THEN planted \union {Command[2]}
                ELSE planted \ {Command[2]}
  /\ rx' = Tail(rx) /\ Reply("OK")
  /\ UNCHANGED <<text, core, frames, pending, irqs, clientVars, mode, left>>

StepPacket ==
  /\ Sound /\ Command = <<"s">>
  /\ \E before \in {Fetching} : \E after \in {Executed(before)} : StepTo(before, Rewound(after))
  /\ rx' = Tail(rx) /\ Reply("S05")
  /\ UNCHANGED <<clientVars, mode, left>>

ContinuePacket ==
  /\ Sound /\ Command = <<"c">>
  /\ mode' = "running" /\ left' = Chunk /\ rx' = Tail(rx)
  /\ UNCHANGED <<machineVars, clientVars, tx>>

(* One instruction of Rt1060::run; a break cause ends the continue.        *)
RunChunk ==
  /\ mode = "running" /\ left > 0
  /\ \E before \in {Fetching} : \E after \in {Executed(before)} :
        /\ StepTo(before, Rewound(after))
        /\ IF after.brk # "none" THEN mode' = "idle" /\ left' = 0 /\ Reply("S05")
           ELSE left' = left - 1 /\ UNCHANGED <<mode, tx>>
  /\ UNCHANGED <<rx, clientVars>>

(* Mutant of PolledInterrupt: the interrupt byte is looked for behind a    *)
(* packet only.                                                            *)
PolledInterruptBehind == Len(rx) > 1 /\ rx[2] = InterruptByte

PolledInterrupt == rx # <<>> /\ Head(rx) = InterruptByte

(* The look at the socket at the end of a chunk.                           *)
Poll ==
  /\ mode = "running" /\ left = 0
  /\ IF PolledInterrupt THEN mode' = "idle" /\ rx' = Tail(rx) /\ Reply("S02") /\ UNCHANGED left
     ELSE left' = Chunk /\ UNCHANGED <<mode, rx, tx>>
  /\ UNCHANGED <<machineVars, clientVars>>

(***************************************************************************)
(* The session                                                             *)
(***************************************************************************)
FreeStep == mode = "free" /\ Step /\ UNCHANGED gdbVars
Edge     == Interrupt /\ UNCHANGED gdbVars

GdbInit(attached) ==
  /\ mode = (IF attached THEN "idle" ELSE "free")
  /\ left = 0 /\ rx = <<>> /\ tx = <<>> /\ sent = <<>>
  /\ budget = [steps |-> MaxSteps, damage |-> MaxDamage]

Init == \E sc \in Scenarios : MachineInit(sc) /\ GdbInit(sc.attached)

Server == RejectDamaged \/ LateInterrupt \/ WriteCode \/ StepPacket \/ ContinuePacket \/ RunChunk \/ Poll
Next   == FreeStep \/ Edge \/ Send \/ SendInterrupt \/ Receive \/ Server

(* The server's thread runs, and the client reads what it is sent.         *)
Spec == Init /\ [][Next]_vars /\ WF_vars(Server) /\ WF_vars(Receive)

(***************************************************************************)
(* Correctness                                                             *)
(***************************************************************************)
TypeInvariant ==
  /\ MachineTypes
  /\ planted \subseteq Plantable
  /\ mode \in {"free", "idle", "running"} /\ left \in 0 .. Chunk
  /\ mode = "running" => core.brk = "none"

(* Whatever the decoded path, the interrupts and the debugger do, the      *)
(* program executes as Program has it: no instruction is skipped, done     *)
(* twice or done with the flags of another context (src/src/cortex_m/      *)
(* mod.rs:906, decoded.rs:317, gdb/mod.rs:287).                            *)
ImplementsProgram == P!Spec

(* An interrupt byte that is first in the buffer while the target runs     *)
(* stops it (src/src/gdb/mod.rs:305).                                      *)
InterruptStopsTarget ==
  (mode = "running" /\ rx # <<>> /\ Head(rx) = InterruptByte) ~> (mode = "idle")
=============================================================================
