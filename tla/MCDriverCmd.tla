---------------------------- MODULE MCDriverCmd --------------------------------
(* A small instance of DriverCmd: a frequency for every branch of          *)
(* priv_p2p_freq_to_channel, four off a channel and one of no operating    *)
(* class known, and one interface with a configured channel.               *)
EXTENDS DriverCmd

MCFreq == {2413, 2437, 2484, 5180, 5181, 5262, 5500, 5745, 5828, 5900}
MCApFreq == {2437}
MCCapability == {-1, 256 + 37}
MCConfChannel == [i \in Iface |-> IF i = "p2p0" THEN <<81, 6>> ELSE <<0, 0>>]
Channels == {<<81, 1>>, <<81, 6>>, <<81, 11>>, <<115, 36>>}
================================================================================
