---------------------------- MODULE MCBleSession ----------------------------
(* BleSession for TLC: every operating mode, or CONTINUOUS and none.        *)
EXTENDS BleSession
AllModes  == SUBSET ModeBits
ContModes == {{}, {"CONT"}}
=============================================================================
