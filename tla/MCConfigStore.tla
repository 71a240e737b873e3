--------------------------- MODULE MCConfigStore ----------------------------
(* ConfigStore on two values of each setting, for TLC.                      *)
EXTENDS ConfigStore
=============================================================================
