----------------------------- MODULE MCStorage -----------------------------
(***************************************************************************)
(* Instances of Storage for TLC: a flash of two sectors of two bytes, a    *)
(* card of two blocks of two words.                                        *)
(***************************************************************************)
EXTENDS Storage

MCLut ==
  [enable  |-> {},
   status  |-> {"READ"},
   id      |-> {"READ"},
   config  |-> {"WRITE"},
   read    |-> {"READ", "RADDR"},
   program |-> {"WRITE", "RADDR"},
   erase   |-> {"RADDR"}]

MCJedec == <<{"b0"}, {}>>

IpCommand(seq, addr, size) ==
  [seq |-> seq, addr |-> addr, size |-> size, data |-> <<>>]

IpWrite(seq, addr, data) ==
  [seq |-> seq, addr |-> addr, size |-> Len(data), data |-> data]

MCFlashJobs ==
  { IpCommand("enable", 0, 0),
    IpCommand("status", 0, 1),
    IpCommand("id", 0, 2),
    IpCommand("read", 0, 4),
    IpCommand("read", 1, 3),
    IpCommand("erase", 3, 0),
    IpCommand("program", 0, 0),
    IpWrite("config", 0, <<{}>>),
    IpWrite("program", 0, <<{"b0"}, {}>>),
    IpWrite("program", 1, <<{}, {"b0"}, {}>>),
    IpWrite("program", 2, <<{}>>) }

(* The read of a status register or of a flag in the flash.                *)
ShortFlashJobs ==
  {IpCommand("status", 0, 1), IpCommand("read", 1, 1)}
    \union {IpCommand("read", a, 3) : a \in {0, 1}}

CardTransfer(commands, start, count, data) ==
  [commands |-> commands, start |-> start, count |-> count, data |-> data]

MCStartup ==
  CardTransfer(<<0, 8, 55, 41, 2, 3, 9, 7, 55, 51, 6, 55, 6>>, 0, 1, <<>>)

MCCardJobs ==
  { CardTransfer(<<13>>, 0, 1, <<>>),
    CardTransfer(<<17>>, 1, 1, <<>>),
    CardTransfer(<<18, 12>>, 0, 2, <<>>),
    CardTransfer(<<18, 12>>, 1, 2, <<>>),
    CardTransfer(<<24>>, 1, 1, <<1, 0>>),
    CardTransfer(<<55, 23, 25, 12>>, 0, 2, <<0, 1, 1, 1>>),
    CardTransfer(<<25, 12>>, 1, 2, <<0, 1, 0, 0>>) }

MCScr          == <<1>>
MCSwitchStatus == <<0, 1, 0>>
=============================================================================
