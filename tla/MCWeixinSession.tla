---------------------------- MODULE MCWeixinSession ----------------------------
(* Small instances of WeixinSession for TLC: two logins that follow each other *)
(* and up to three logout()/stop() calls.                                      *)
EXTENDS WeixinSession, TLC

CONSTANTS l1, l2, l3, c1, c2, c3
Symmetric == Permutations({l1, l2, l3}) \cup Permutations({c1, c2, c3})
=============================================================================
