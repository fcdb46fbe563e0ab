---------------------------- MODULE MCWebUICleanup ----------------------------
(* Two carriers, the second with a new version, and one clean-up.            *)
EXTENDS WebUICleanup

MCRecordOf == [r \in Promotions |-> r]
MCVersionOf == [r \in Promotions |-> IF r = "d1" THEN "v1" ELSE "v2"]
=============================================================================
