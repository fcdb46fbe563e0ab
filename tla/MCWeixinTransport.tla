--------------------------- MODULE MCWeixinTransport ---------------------------
(* Small instances of WeixinTransport for TLC.                                 *)
EXTENDS WeixinTransport, TLC

CONSTANTS s1, s2
StopSymmetry == Permutations({s1, s2})
=============================================================================
