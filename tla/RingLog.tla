------------------------------ MODULE RingLog ------------------------------
(***************************************************************************)
(* What the flash log promises its readers: a sequence of records, oldest  *)
(* first.  A write appends one record; only when the log is full may it    *)
(* first give up the oldest page of records.  An erase empties the log.    *)
(* Nothing else changes it.                                                *)
(***************************************************************************)
EXTENDS Naturals, Sequences

CONSTANTS Capacity,   \* records the log holds when full
          PageSlots   \* records given up together

VARIABLE log

Init == log = << >>

DropOldestPage(s) == SubSeq(s, PageSlots + 1, Len(s))

Fresh(r) == \A i \in 1..Len(log) : log[i] < r

\* A record is stored after every record already there.
Store == /\ Len(log) < Capacity
         /\ Len(log') = Len(log) + 1
         /\ Fresh(log'[Len(log')])
         /\ log' = Append(log, log'[Len(log')])

\* The log is full: its oldest page goes and the record is stored.
StoreOverOldest == /\ Len(log) = Capacity
                   /\ Len(log') = Len(log) - PageSlots + 1
                   /\ Fresh(log'[Len(log')])
                   /\ log' = Append(DropOldestPage(log), log'[Len(log')])

\* The log is full, its oldest page goes, and storing the record fails.
FailAfterErase == /\ Len(log) = Capacity
                  /\ log' = DropOldestPage(log)

Erase == log' = << >>

Next == Store \/ StoreOverOldest \/ FailAfterErase \/ Erase

Spec == Init /\ [][Next]_log
=============================================================================
