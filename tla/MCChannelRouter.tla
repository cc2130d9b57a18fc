--------------------------- MODULE MCChannelRouter ---------------------------
(* Instance of ChannelRouter for TLC: three channels compete for two        *)
(* windows, so one channel always takes over, shares or waits.              *)
EXTENDS ChannelRouter

CONSTANTS c1, c2, c3, w1, w2, n1

MCChannel == {c1, c2, c3}
MCWindow == {w1, w2}
MCName == {n1}
=============================================================================
