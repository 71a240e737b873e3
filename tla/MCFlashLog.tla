----------------------------- MODULE MCFlashLog -----------------------------
(* Instances of FlashLog small enough for TLC: three pages of two records. *)
EXTENDS FlashLog
=============================================================================
