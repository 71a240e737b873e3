----------------------------- MODULE WriteBack ------------------------------
(* Settings that are changed in memory and saved later, key by key: what    *)
(* the configuration of the beacon promises its host.  A crash leaves the   *)
(* saved value, or the default when it hits the save.                       *)
CONSTANTS Key, Value,
          Default   \* the default of each key

VARIABLES cur,      \* the value in memory
          saved,    \* the value the next start will load
          unsaved   \* the keys still to be saved

Init ==
  /\ cur \in [Key -> Value]
  /\ saved = cur
  /\ unsaved = {}

\* Some values change, some are saved: whatever differs stays marked.
Work ==
  /\ cur' \in [Key -> Value]
  /\ saved' \in [Key -> Value]
  /\ \A k \in Key : saved'[k] \in {saved[k], cur'[k]}
  /\ unsaved' \in SUBSET Key
  /\ {k \in Key : cur'[k] # saved'[k]} \subseteq unsaved'

Restart ==
  /\ saved' \in [Key -> Value]
  /\ \A k \in Key : saved'[k] \in {saved[k], cur[k], Default[k]}
  /\ cur' = saved'
  /\ unsaved' = {}

Next == Work \/ Restart

Spec == Init /\ [][Next]_<<cur, saved, unsaved>>
=============================================================================
