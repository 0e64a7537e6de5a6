----------------------------- MODULE MCDevices -----------------------------
(***************************************************************************)
(* Instances of Devices for TLC: two register files of two bytes, words of *)
(* two bits, two inputs of the ADC, three GPIO controllers of which two    *)
(* share a line, three message buffers.                                    *)
(***************************************************************************)
EXTENDS Devices

Bank == 1 :> I2cDevice((0 :> 0) @@ (1 :> 1)) @@ 2 :> I2cDevice((0 :> 1) @@ (1 :> 0))

Bench(kind, external, dma, attached) ==
  [kind |-> kind, external |-> external, dma |-> dma, peers |-> attached]

MCBenches ==
  {Bench("i2c", external, dma, Bank) : external \in BOOLEAN, dma \in BOOLEAN}
    \union {Bench("spi", TRUE, dma, (0 :> <<2, 1>>) @@ (16 :> <<0, 3, 1>>)) : dma \in BOOLEAN}
    \union {Bench("spi", FALSE, dma, <<>>) : dma \in BOOLEAN}
    \union {Bench("spi", FALSE, FALSE, <<(<<2, 1, 3>>)>>)}
    \union {Bench("adc", FALSE, dma, <<>>) : dma \in BOOLEAN}

To(addr, bytes)   == [addr |-> addr, read |-> FALSE, bytes |-> bytes, skip |-> 0, count |-> 0]
From(addr, skip, count) ==
  [addr |-> addr, read |-> TRUE, bytes |-> <<>>, skip |-> skip, count |-> count]

SpiJob(pin, bits, words) == [pin |-> pin, bits |-> bits, words |-> words]

Sampling(slots, channels) ==
  [k \in DOMAIN slots |-> [slot |-> slots[k], channel |-> channels[k]]]

MCJobsOf ==
  [i2c |-> { <<To(1, <<1>>), From(1, 0, 2)>>, <<To(1, <<1, 0, 1>>)>>, <<To(2, <<0, 0>>), From(1, 1, 1)>>,
             <<From(2, 0, 1), To(1, <<0, 1>>)>>, <<To(3, <<0, 1>>)>>, <<From(1, 0, 1), From(3, 1, 1)>> },
   spi |-> { SpiJob(0, 2, <<1, 3>>), SpiJob(16, 2, <<0, 2>>), SpiJob(16, 1, <<3>>) },
   adc |-> { Sampling(<<0, 1>>, <<0, 1>>), Sampling(<<1, 0>>, <<1, 1>>), Sampling(<<0>>, <<3>>) }]

Frame(id, extended, rtr, data) == [id |-> id, extended |-> extended, rtr |-> rtr, data |-> data]

MCIncoming == {Frame(1, FALSE, FALSE, <<1, 2>>), Frame(3, TRUE, FALSE, <<2>>)}
MCOutgoing == {Frame(1, FALSE, FALSE, <<2>>), Frame(3, TRUE, TRUE, <<1, 1>>)}

MCTrigger == (0 :> "any") @@ (16 :> "rising")
=============================================================================
