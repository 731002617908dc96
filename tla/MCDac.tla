------------------------------- MODULE MCDac --------------------------------
(* Dac with a ring of three slots, two packets and a short timer period.   *)
EXTENDS Dac

MCSamples == {0, 1}
MCPackets == {<<1, 1>>, <<1, 1, 1, 1, 1, 1, 1, 1, 1, 1>>}
=============================================================================
