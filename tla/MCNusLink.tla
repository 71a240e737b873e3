----------------------------- MODULE MCNusLink -----------------------------
(* Instances of NusLink for TLC.                                           *)
EXTENDS NusLink

CONSTANTS r1, r2, r3

ThreeReq == {r1, r2, r3}
TwoLong  == {r1, r2}
=============================================================================
