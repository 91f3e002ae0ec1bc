---------------------------- MODULE MCPairRadios ----------------------------
(* Two channels on each band, and the fallbacks that set-wifi gives the two. *)
EXTENDS PairRadios

MCChannels == <<{1, 11}, {36, 149}>>
MCFallback == [n \in Nodes |-> IF n = "ap2" THEN <<1, 36>> ELSE <<11, 149>>]
MCNoise == <<1, 0>>
MCAttempts == [n \in Nodes |-> IF n = "ap2" THEN 1 ELSE 2]
=============================================================================
