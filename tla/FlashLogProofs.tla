--------------------------- MODULE FlashLogProofs ---------------------------
(* What holds of FlashLog for every size and bound: the writer, flash      *)
(* during a connection, deferred erases, and what a reset finds again.     *)
EXTENDS FlashLog, TLAPS, FiniteSetTheorems

LEMMA PageArith ==
  /\ 0 \in Page /\ 0 \in Slot
  /\ \A p \in Page : NextPage(p) \in Page /\ NextPage(p) # p
  /\ \A s \in Slot : ~(s < 0) /\ s >= 0
BY SizeAssumption DEF Page, Slot, NextPage

\* The target of a write is a data page.
LEMMA TargetIsPage ==
  ASSUME TypeOK, ~(StopsHere)
  PROVE  TargetPage \in Page /\ NextPage(TargetPage) \in Page
BY SizeAssumption DEF TypeOK, TargetPage, AtEnd, Page, NextPage

\* Erasing the target leaves well-typed pages.
LEMMA ErasedType ==
  ASSUME TypeOK
  PROVE  /\ FlashErased \in [Page -> [Slot -> Nat]]
         /\ TornErased \subseteq Page \X Slot
         /\ ReadErased \in Page
<1>1. Blank \in [Slot -> Nat]
  BY DEF Blank, EMPTY
<1>2. FlashErased \in [Page -> [Slot -> Nat]]
  BY <1>1 DEF TypeOK, FlashErased
<1>3. TornErased \subseteq Page \X Slot
  BY DEF TypeOK, TornErased
<1>4. ReadErased \in Page
  BY SizeAssumption DEF TypeOK, ReadErased, NextPage, TargetPage, AtEnd, Page
<1> QED BY <1>2, <1>3, <1>4

\* The part of TypeOK that a record write and a reset change.
StoreTypeOK ==
  /\ flash \in [Page -> [Slot -> Nat]] /\ torn \subseteq Page \X Slot
  /\ write_pg \in 0 .. NPages /\ write_slot \in Slot /\ (AtEnd => write_slot = 0)
  /\ total_records \in Nat /\ read_pg \in Page
  /\ is_full \in BOOLEAN /\ initialized \in BOOLEAN
  /\ serial \in Nat \ {0}

LEMMA WriteRecordFlashType ==
  ASSUME TypeOK, WriteRecordFlash
  PROVE  StoreTypeOK'
<1>1. CASE WriteFull
  BY <1>1 DEF WriteFull, TypeOK, StoreTypeOK, store, AtEnd
<1>2. CASE WriteEraseFails
  <2>1. write_slot = 0 /\ TargetPage \in Page
    BY <1>2, TargetIsPage DEF WriteEraseFails, NeedsErase
  <2> QED BY <1>2, <2>1, SizeAssumption DEF WriteEraseFails, TypeOK, StoreTypeOK, store, AtEnd, Page
<1>3. CASE WriteProgrammed
  <2>1. TargetPage \in Page /\ write_slot \in Slot /\ serial \in Nat \ {0}
    BY <1>3, TargetIsPage DEF WriteProgrammed, TypeOK
  <2>2. flash' \in [Page -> [Slot -> Nat]]
    BY <1>3, <2>1, ErasedType DEF WriteProgrammed
  <2>3. IF write_slot + 1 = PageSlots
        THEN write_pg' = TargetPage + 1 /\ write_slot' = 0
        ELSE write_pg' = TargetPage /\ write_slot' = write_slot + 1
    BY <1>3 DEF WriteProgrammed
  <2>4. write_pg' \in 0 .. NPages /\ write_slot' \in Slot /\ (AtEnd => write_slot = 0)'
    BY <2>1, <2>3, SizeAssumption DEF Page, Slot, AtEnd
  <2>5. /\ torn' \subseteq Page \X Slot /\ read_pg' \in Page
        /\ total_records' \in Nat /\ serial' \in Nat \ {0}
        /\ is_full' \in BOOLEAN /\ initialized' \in BOOLEAN
    BY <1>3, <2>1, ErasedType DEF WriteProgrammed, TypeOK
  <2> QED BY <2>2, <2>4, <2>5 DEF StoreTypeOK
<1>4. CASE WriteProgramFails
  <2>1. TargetPage \in Page /\ write_slot \in Slot /\ serial \in Nat \ {0}
    BY <1>4, TargetIsPage DEF WriteProgramFails, TypeOK
  <2>2. /\ [FlashErased EXCEPT ![TargetPage][write_slot] = serial] \in [Page -> [Slot -> Nat]]
        /\ TornErased \union {<<TargetPage, write_slot>>} \subseteq Page \X Slot
        /\ serial + 1 \in Nat \ {0}
    BY <2>1, ErasedType
  <2>3. flash' \in [Page -> [Slot -> Nat]] /\ torn' \subseteq Page \X Slot /\ serial' \in Nat \ {0}
    BY <1>4, <2>1, <2>2, ErasedType DEF WriteProgramFails
  <2>4. /\ read_pg' \in Page /\ write_pg' = TargetPage /\ write_slot' = write_slot
        /\ total_records' \in Nat /\ is_full' \in BOOLEAN /\ initialized' \in BOOLEAN
    BY <1>4, ErasedType DEF WriteProgramFails, TypeOK
  <2>5. write_pg' \in 0 .. NPages /\ write_slot' \in Slot /\ (AtEnd => write_slot = 0)'
    BY <2>1, <2>4, SizeAssumption DEF Page, AtEnd
  <2> QED BY <2>3, <2>4, <2>5 DEF StoreTypeOK
<1> QED BY <1>1, <1>2, <1>3, <1>4 DEF WriteRecordFlash

LEMMA WriteHeaderType ==
  ASSUME TypeOK, NEW ok \in BOOLEAN, WriteHeader(ok)
  PROVE  header' \in Modes \union {NoHeader}
BY DEF WriteHeader, TypeOK

LEMMA ClearedType ==
  ASSUME TypeOK, NEW k
  PROVE  FlashCleared(k) \in [Page -> [Slot -> Nat]] /\ TornCleared(k) \subseteq Page \X Slot
<1>1. Blank \in [Slot -> Nat]
  BY DEF Blank, EMPTY
<1> QED BY <1>1 DEF TypeOK, FlashCleared, TornCleared

LEMMA ClearType ==
  ASSUME TypeOK, Clear, UNCHANGED serial
  PROVE  StoreTypeOK' /\ header' \in Modes \union {NoHeader}
<1>1. CASE \E k \in 0 .. NPages - 1 :
             /\ flash' = FlashCleared(k) /\ torn' = TornCleared(k)
             /\ UNCHANGED <<header, state>>
  BY <1>1, ClearedType DEF TypeOK, StoreTypeOK, state, AtEnd
<1>2. CASE /\ flash' = FlashCleared(NPages) /\ torn' = TornCleared(NPages)
           /\ write_pg' = 0 /\ write_slot' = 0 /\ total_records' = 0 /\ read_pg' = 0
           /\ is_full' = FALSE
           /\ \E ok \in BOOLEAN : WriteHeader(ok)
           /\ UNCHANGED initialized
  <2>1. header' \in Modes \union {NoHeader}
    BY <1>2, WriteHeaderType
  <2>2. 0 \in Page /\ 0 \in Slot /\ 0 \in 0 .. NPages /\ 0 \in Nat
    BY SizeAssumption DEF Page, Slot
  <2>3. flash' \in [Page -> [Slot -> Nat]] /\ torn' \subseteq Page \X Slot
    BY <1>2, ClearedType
  <2>4. initialized' \in BOOLEAN /\ serial' \in Nat \ {0}
    BY <1>2 DEF TypeOK
  <2> QED BY <1>2, <2>1, <2>2, <2>3, <2>4 DEF StoreTypeOK, AtEnd
<1> QED BY <1>1, <1>2 DEF Clear

\* The scan gives a position and counts within the data pages.
LEMMA InitScanType ==
  ASSUME NEW f, InitScan(f), overflow_mode' \in Modes
  PROVE  /\ write_pg' \in 0 .. NPages /\ write_slot' \in Slot /\ (AtEnd => write_slot = 0)'
         /\ total_records' \in Nat /\ read_pg' \in Page /\ is_full' \in BOOLEAN
<1>1. PICK q \in 0 .. NPages, s \in Slot :
        /\ ScanStop(f, 0, q, s)
        /\ is_full' = (q = NPages /\ overflow_mode' = "STOP")
        /\ write_pg' = IF q = NPages /\ overflow_mode' = "CIRCULAR" THEN 0 ELSE q
        /\ write_slot' = s
        /\ \/ \E a \in q + 1 .. NPages, b \in Slot :
                /\ q + 1 < NPages
                /\ read_pg' = q + 1
                /\ total_records' = (q * PageSlots + s) + ((a - (q + 1)) * PageSlots + b)
           \/ read_pg' = 0 /\ total_records' = q * PageSlots + s
  BY DEF InitScan
<1>2. write_pg' \in 0 .. NPages /\ write_slot' \in Slot /\ (AtEnd => write_slot = 0)'
  BY <1>1, SizeAssumption DEF ScanStop, AtEnd, Slot
<1>3. q * PageSlots + s \in Nat
  <2>1. q \in Nat /\ s \in Nat /\ PageSlots \in Nat
    BY <1>1, SizeAssumption DEF Slot
  <2>2. q * PageSlots \in Nat
    BY <2>1
  <2> QED BY <2>1, <2>2
<1>4. total_records' \in Nat /\ read_pg' \in Page
  <2>1. CASE \E a \in q + 1 .. NPages, b \in Slot :
               /\ q + 1 < NPages
               /\ read_pg' = q + 1
               /\ total_records' = (q * PageSlots + s) + ((a - (q + 1)) * PageSlots + b)
    <3>1. PICK a \in q + 1 .. NPages, b \in Slot :
               /\ q + 1 < NPages
               /\ read_pg' = q + 1
               /\ total_records' = (q * PageSlots + s) + ((a - (q + 1)) * PageSlots + b)
      BY <2>1
    <3>2. a - (q + 1) \in Nat /\ b \in Nat /\ PageSlots \in Nat
      BY <1>1, <3>1, SizeAssumption DEF Slot
    <3>3. (a - (q + 1)) * PageSlots \in Nat
      BY <3>2
    <3>4. total_records' \in Nat
      BY <3>1, <3>2, <3>3, <1>3
    <3>5. read_pg' \in Page
      BY <1>1, <3>1, SizeAssumption DEF Page
    <3> QED BY <3>4, <3>5
  <2>2. CASE read_pg' = 0 /\ total_records' = q * PageSlots + s
    BY <2>2, <1>3, SizeAssumption DEF Page
  <2> QED BY <1>1, <2>1, <2>2
<1> QED BY <1>1, <1>2, <1>4

LEMMA BootType ==
  ASSUME TypeOK, NEW f \in [Page -> [Slot -> Nat]], NEW t \in SUBSET (Page \X Slot),
         NEW h \in Modes \union {NoHeader}, Boot(f, t, h), serial' \in Nat \ {0}
  PROVE  TypeOK'
<1>1. /\ flash' = f /\ torn' = t /\ connected' = FALSE
      /\ queue_len' = 0 /\ flush_left' = 0 /\ erase_pending' = FALSE
      /\ cfg_dirty' \in BOOLEAN /\ boots' \in Nat
  BY DEF Boot, TypeOK
<1>2. /\ header' \in Modes \union {NoHeader} /\ overflow_mode' \in Modes
      /\ write_pg' \in 0 .. NPages /\ write_slot' \in Slot /\ (AtEnd => write_slot = 0)'
      /\ total_records' \in Nat /\ read_pg' \in Page /\ is_full' \in BOOLEAN
      /\ initialized' \in BOOLEAN
  <2>1. CASE h # NoHeader /\ header' = h /\ overflow_mode' = h /\ initialized' = TRUE /\ InitScan(f)
    <3>1. overflow_mode' \in Modes
      BY <2>1
    <3> QED BY <2>1, <3>1, InitScanType
  <2>2. CASE /\ overflow_mode' = "CIRCULAR"
             /\ write_pg' = 0 /\ write_slot' = 0 /\ total_records' = 0
             /\ read_pg' = 0 /\ is_full' = FALSE
             /\ \E ok \in BOOLEAN : header' = (IF ok THEN "CIRCULAR" ELSE NoHeader) /\ initialized' = ok
    <3>1. 0 \in Page /\ 0 \in Slot /\ 0 \in 0 .. NPages
      BY SizeAssumption DEF Page, Slot
    <3>2. header' \in Modes \union {NoHeader} /\ initialized' \in BOOLEAN
      BY <2>2 DEF Modes
    <3> QED BY <2>2, <3>1, <3>2 DEF Modes, AtEnd
  <2>3. \/ h # NoHeader /\ header' = h /\ overflow_mode' = h /\ initialized' = TRUE /\ InitScan(f)
        \/ /\ overflow_mode' = "CIRCULAR"
           /\ write_pg' = 0 /\ write_slot' = 0 /\ total_records' = 0
           /\ read_pg' = 0 /\ is_full' = FALSE
           /\ \E ok \in BOOLEAN : header' = (IF ok THEN "CIRCULAR" ELSE NoHeader) /\ initialized' = ok
    BY DEF Boot
  <2> QED BY <2>1, <2>2, <2>3
<1>3. queue_len' \in 0 .. QueueMax /\ flush_left' \in 0 .. QueueMax
  BY <1>1, SizeAssumption
<1> QED BY <1>1, <1>2, <1>3 DEF TypeOK

\* Every variable stays in its range, whatever fails and however often the
\* device is reset.
THEOREM TypeCorrect == Spec => []TypeOK
<1>1. Init => TypeOK
  <2> SUFFICES ASSUME Init PROVE TypeOK
    OBVIOUS
  <2>1. 0 \in Page /\ 0 \in Slot /\ 0 \in 0 .. NPages /\ 0 \in 0 .. QueueMax
    BY SizeAssumption DEF Page, Slot
  <2>2. flash \in [Page -> [Slot -> Nat]] /\ torn \subseteq Page \X Slot
    BY DEF Init, Blank, EMPTY
  <2>3. header \in Modes \union {NoHeader} /\ overflow_mode \in Modes
    BY ModeAssumption DEF Init
  <2>4. serial \in Nat \ {0} /\ boots \in Nat /\ total_records \in Nat
    BY DEF Init
  <2>5. /\ write_pg \in 0 .. NPages /\ write_slot \in Slot /\ (AtEnd => write_slot = 0)
        /\ read_pg \in Page /\ queue_len \in 0 .. QueueMax /\ flush_left \in 0 .. QueueMax
    BY <2>1 DEF Init
  <2>6. /\ is_full \in BOOLEAN /\ initialized \in BOOLEAN /\ cfg_dirty \in BOOLEAN
        /\ erase_pending \in BOOLEAN /\ connected \in BOOLEAN
    BY DEF Init
  <2> QED BY <2>2, <2>3, <2>4, <2>5, <2>6 DEF TypeOK
<1>2. TypeOK /\ [Next]_vars => TypeOK'
  <2> SUFFICES ASSUME TypeOK, [Next]_vars PROVE TypeOK'
    OBVIOUS
  <2>1. ASSUME WriteRecord, UNCHANGED <<header, overflow_mode, cfg_dirty, flush_left, erase_pending, env>>
        PROVE  TypeOK'
    <3>1. StoreTypeOK' /\ queue_len' \in 0 .. QueueMax
      BY <2>1, WriteRecordFlashType, SizeAssumption
         DEF WriteRecord, TypeOK, StoreTypeOK, store, state, AtEnd
    <3> QED BY <2>1, <3>1 DEF TypeOK, StoreTypeOK, env
  <2>2. CASE Task
    BY <2>2, <2>1 DEF Task
  <2>3. CASE WriteMark
    BY <2>3, <2>1 DEF WriteMark
  <2>4. CASE FlushBegin
    BY <2>4, SizeAssumption DEF FlushBegin, TypeOK, store, state, env, AtEnd
  <2>5. CASE FlushRecord
    <3>1. StoreTypeOK'
      BY <2>5, WriteRecordFlashType DEF FlushRecord
    <3>2. flush_left' \in 0 .. QueueMax
      BY <2>5, SizeAssumption DEF FlushRecord, TypeOK
    <3> QED BY <2>5, <3>1, <3>2 DEF FlushRecord, TypeOK, StoreTypeOK, env
  <2>6. CASE SetConfig
    BY <2>6, ModeAssumption DEF SetConfig, TypeOK, store, state, queue, env, AtEnd
  <2>7. CASE CommitConfig
    <3>1. header' \in Modes \union {NoHeader} /\ cfg_dirty' \in BOOLEAN
      BY <2>7, WriteHeaderType DEF CommitConfig
    <3> QED BY <2>7, <3>1 DEF CommitConfig, TypeOK, store, state, queue, env, AtEnd
  <2>8. CASE DoErase
    BY <2>8, ClearType DEF DoErase, TypeOK, StoreTypeOK, queue, env
  <2>9. CASE OpLogErase
    <3>1. CASE connected
      BY <2>9, <3>1 DEF OpLogErase, TypeOK, store, state, env, AtEnd
    <3>2. CASE ~connected
      BY <2>9, <3>2, ClearType DEF OpLogErase, TypeOK, StoreTypeOK, env
    <3> QED BY <3>1, <3>2
  <2>10. CASE DeferredErase
    BY <2>10, ClearType DEF DeferredErase, TypeOK, StoreTypeOK, env
  <2>11. CASE Reset
    BY <2>11, BootType DEF Reset, TypeOK
  <2>12. CASE CutInClear
    BY <2>12, BootType, ClearedType DEF CutInClear, TypeOK
  <2>13. CASE CutInHeader
    <3>1. NoHeader \in Modes \union {NoHeader}
      OBVIOUS
    <3> QED BY <2>13, <3>1, BootType, ClearedType DEF CutInHeader, TypeOK
  <2>14. CASE CutInWrite
    <3>1. TargetPage \in Page /\ write_slot \in Slot /\ serial \in Nat
      BY <2>14, TargetIsPage DEF CutInWrite, TypeOK
    <3>2. [FlashErased EXCEPT ![TargetPage][write_slot] = serial] \in [Page -> [Slot -> Nat]]
      BY <3>1, ErasedType
    <3>3. TornErased \union {<<TargetPage, write_slot>>} \subseteq Page \X Slot
      BY <3>1, ErasedType
    <3>4. header \in Modes \union {NoHeader} /\ serial + 1 \in Nat \ {0} /\ serial \in Nat \ {0}
      BY DEF TypeOK
    <3> QED BY <2>14, <3>2, <3>3, <3>4, BootType, ErasedType DEF CutInWrite
  <2>15. CASE Connect
    BY <2>15 DEF Connect, TypeOK, store, state, queue, AtEnd
  <2>16. CASE Disconnect
    BY <2>16 DEF Disconnect, TypeOK, store, state, queue, AtEnd
  <2>17. CASE UNCHANGED vars
    BY <2>17 DEF vars, TypeOK, store, state, queue, env, AtEnd
  <2> QED
    BY <2>2, <2>3, <2>4, <2>5, <2>6, <2>7, <2>8, <2>9, <2>10, <2>11, <2>12, <2>13,
       <2>14, <2>15, <2>16, <2>17 DEF Next
<1> QED BY <1>1, <1>2, PTL DEF Spec

-----------------------------------------------------------------------------
(* The records of a page are its first ones, and the writer's page is      *)
(* blank ahead of it.  Inductive with: behind the writer its page is full. *)

WriteBehind == write_slot > 0 => \A s \in Slot : s < write_slot => flash[write_pg][s] # EMPTY

WriterInv == PagePrefix /\ WriteAhead /\ WriteBehind

\* On the target page as the write finds it, once erased if it has to be, the
\* records are exactly the slots before write_slot; the next one may be torn.
LEMMA TargetSlots ==
  ASSUME TypeOK, WriterInv, ~StopsHere
  PROVE  /\ \A s \in Slot : s < write_slot => FlashErased[TargetPage][s] # EMPTY
         /\ \A s \in Slot : s > write_slot => FlashErased[TargetPage][s] = EMPTY
         /\ FlashErased[TargetPage][write_slot] # EMPTY
              => write_slot > 0 /\ <<TargetPage, write_slot>> \in TornErased
         /\ PrefixOf(FlashErased)
<1>0. TargetPage \in Page /\ write_slot \in Slot /\ flash \in [Page -> [Slot -> Nat]] /\ 0 \in Slot
  BY TargetIsPage, SizeAssumption DEF TypeOK, Slot
<1>1. CASE NeedsErase
  <2>1. FlashErased = [flash EXCEPT ![TargetPage] = Blank] /\ write_slot = 0
    BY <1>1 DEF FlashErased, NeedsErase
  <2>2. \A s \in Slot : FlashErased[TargetPage][s] = EMPTY
    BY <1>0, <2>1 DEF Blank
  <2>3. \A p \in Page : p # TargetPage => FlashErased[p] = flash[p]
    BY <1>0, <2>1
  <2>4. PrefixOf(FlashErased)
    BY <2>2, <2>3 DEF WriterInv, PagePrefix, PrefixOf
  <2>5. \A s \in Slot : ~(s < 0)
    BY SizeAssumption DEF Slot
  <2> QED BY <1>0, <2>1, <2>2, <2>4, <2>5
<1>2. CASE ~NeedsErase
  <2>1. FlashErased = flash /\ TornErased = torn
    BY <1>2 DEF FlashErased, TornErased
  <2>2. CASE write_slot = 0
    <3>1. flash[TargetPage][0] = EMPTY
      BY <1>2, <2>2 DEF NeedsErase
    <3>2. \A s \in Slot : s > 0 => flash[TargetPage][s] = EMPTY
      BY <1>0, <3>1 DEF WriterInv, PagePrefix, PrefixOf
    <3>3. \A s \in Slot : ~(s < 0)
      BY SizeAssumption DEF Slot
    <3> QED BY <2>1, <2>2, <3>1, <3>2, <3>3 DEF WriterInv, PagePrefix
  <2>3. CASE write_slot > 0
    <3>1. TargetPage = write_pg
      BY <1>0, <2>3 DEF TypeOK, TargetPage, Slot
    <3>2. \A s \in Slot : s > write_slot => flash[write_pg][s] = EMPTY
      <4>1. \A s \in Slot : s > write_slot => s >= write_slot /\ s # write_slot
        BY <1>0 DEF Slot
      <4> QED BY <2>3, <4>1 DEF WriterInv, WriteAhead
    <3>3. flash[write_pg][write_slot] # EMPTY => <<write_pg, write_slot>> \in torn
      BY <1>0, <2>3 DEF WriterInv, WriteAhead, Slot
    <3> QED BY <2>1, <2>3, <3>1, <3>2, <3>3 DEF WriterInv, WriteBehind, PagePrefix
  <2> QED BY <1>0, <2>2, <2>3 DEF Slot
<1> QED BY <1>1, <1>2

LEMMA WriteRecordFlashWriter ==
  ASSUME TypeOK, WriterInv, WriteRecordFlash
  PROVE  WriterInv'
<1>1. CASE WriteFull
  BY <1>1 DEF WriteFull, WriterInv, PagePrefix, PrefixOf, WriteAhead, WriteBehind, store
<1>2. CASE WriteEraseFails
  BY <1>2 DEF WriteEraseFails, NeedsErase, WriterInv, PagePrefix, PrefixOf, WriteAhead, WriteBehind, store
<1>3. ASSUME ~StopsHere, serial < MaxSerial, FlashErased[TargetPage][write_slot] = EMPTY,
             flash' = [FlashErased EXCEPT ![TargetPage][write_slot] = serial]
      PROVE  /\ PagePrefix'
             /\ \A s \in Slot : s <= write_slot => flash'[TargetPage][s] # EMPTY
             /\ \A s \in Slot : s > write_slot => flash'[TargetPage][s] = EMPTY
  <2>1. TargetPage \in Page /\ write_slot \in Slot /\ FlashErased \in [Page -> [Slot -> Nat]]
        /\ serial # EMPTY
    BY <1>3, TargetIsPage, ErasedType DEF TypeOK, EMPTY
  <2>2. /\ flash'[TargetPage][write_slot] = serial
        /\ \A s \in Slot : s # write_slot => flash'[TargetPage][s] = FlashErased[TargetPage][s]
        /\ \A p \in Page : p # TargetPage => flash'[p] = FlashErased[p]
    BY <1>3, <2>1
  <2>3. /\ \A s \in Slot : s < write_slot => FlashErased[TargetPage][s] # EMPTY
        /\ \A s \in Slot : s > write_slot => FlashErased[TargetPage][s] = EMPTY
        /\ PrefixOf(FlashErased)
    BY <1>3, TargetSlots
  <2>4. \A s \in Slot : s <= write_slot => flash'[TargetPage][s] # EMPTY
    BY <2>1, <2>2, <2>3 DEF Slot
  <2>5. \A s \in Slot : s > write_slot => flash'[TargetPage][s] = EMPTY
    BY <2>1, <2>2, <2>3 DEF Slot
  <2>6. PagePrefix'
    <3>1. SUFFICES ASSUME NEW p \in Page, NEW s \in Slot, NEW t \in Slot,
                          s < t, flash'[p][t] # EMPTY
                   PROVE  flash'[p][s] # EMPTY
      BY DEF PagePrefix, PrefixOf
    <3>2. CASE p = TargetPage
      BY <2>1, <2>4, <2>5, <3>1, <3>2 DEF Slot
    <3>3. CASE p # TargetPage
      BY <2>2, <2>3, <3>1, <3>3 DEF PrefixOf
    <3> QED BY <3>2, <3>3
  <2> QED BY <2>4, <2>5, <2>6
<1>4. CASE WriteProgrammed
  <2>1. /\ PagePrefix'
        /\ \A s \in Slot : s <= write_slot => flash'[TargetPage][s] # EMPTY
        /\ \A s \in Slot : s > write_slot => flash'[TargetPage][s] = EMPTY
    BY <1>3, <1>4 DEF WriteProgrammed
  <2>2. \/ write_slot' = 0
        \/ write_pg' = TargetPage /\ write_slot' = write_slot + 1
    BY <1>4 DEF WriteProgrammed
  <2>3. write_slot \in Slot
    BY DEF TypeOK
  <2>4. WriteAhead' /\ WriteBehind'
    BY <2>1, <2>2, <2>3 DEF WriteAhead, WriteBehind, Slot
  <2> QED BY <2>1, <2>4 DEF WriterInv
<1>5. CASE WriteProgramFails
  <2>1. write_pg' = TargetPage /\ write_slot' = write_slot /\ ~StopsHere /\ write_slot \in Slot
    BY <1>5 DEF WriteProgramFails, TypeOK
  <2>2. CASE flash' = FlashErased /\ torn' = TornErased
    <3>1. /\ \A s \in Slot : s < write_slot => flash'[TargetPage][s] # EMPTY
          /\ \A s \in Slot : s > write_slot => flash'[TargetPage][s] = EMPTY
          /\ flash'[TargetPage][write_slot] # EMPTY => <<TargetPage, write_slot>> \in torn'
          /\ PrefixOf(flash')
      BY <2>1, <2>2, TargetSlots
    <3>2. PagePrefix'
      BY <3>1 DEF PagePrefix, PrefixOf
    <3>3. WriteBehind'
      BY <2>1, <3>1 DEF WriteBehind
    <3>4. WriteAhead'
      BY <2>1, <3>1 DEF WriteAhead, Slot
    <3> QED BY <3>2, <3>3, <3>4 DEF WriterInv
  <2>3. CASE /\ FlashErased[TargetPage][write_slot] = EMPTY
             /\ serial < MaxSerial
             /\ flash' = [FlashErased EXCEPT ![TargetPage][write_slot] = serial]
             /\ torn' = TornErased \union {<<TargetPage, write_slot>>}
    <3>1. /\ PagePrefix'
          /\ \A s \in Slot : s <= write_slot => flash'[TargetPage][s] # EMPTY
          /\ \A s \in Slot : s > write_slot => flash'[TargetPage][s] = EMPTY
      BY <1>3, <2>1, <2>3
    <3>2. WriteBehind'
      BY <2>1, <3>1 DEF WriteBehind, Slot
    <3>3. WriteAhead'
      BY <2>1, <2>3, <3>1 DEF WriteAhead, Slot
    <3> QED BY <3>1, <3>2, <3>3 DEF WriterInv
  <2> QED BY <1>5, <2>2, <2>3 DEF WriteProgramFails
<1> QED BY <1>1, <1>2, <1>4, <1>5 DEF WriteRecordFlash

\* After a reset the writer stands where the scan stopped.
LEMMA BootWriter ==
  ASSUME NEW f \in [Page -> [Slot -> Nat]], NEW t, NEW h, Boot(f, t, h), PrefixOf(f)
  PROVE  WriterInv'
<1>1. flash' = f /\ PagePrefix'
  BY DEF Boot, PagePrefix, PrefixOf
<1>2. CASE write_slot' = 0
  BY <1>1, <1>2 DEF WriterInv, WriteAhead, WriteBehind
<1>3. CASE InitScan(f)
  <2>1. PICK q \in 0 .. NPages, s \in Slot :
          /\ ScanStop(f, 0, q, s)
          /\ write_pg' = IF q = NPages /\ overflow_mode' = "CIRCULAR" THEN 0 ELSE q
          /\ write_slot' = s
    BY <1>3 DEF InitScan
  <2>2. CASE q = NPages
    BY <1>2, <2>1, <2>2 DEF ScanStop
  <2>3. CASE q # NPages
    <3>1. q \in Page /\ write_pg' = q /\ f[q][s] = EMPTY
      BY <2>1, <2>3, SizeAssumption DEF ScanStop, Page
    <3>2. \A b \in Slot : b < s => f[q][b] # EMPTY
      BY <2>1, <3>1, SizeAssumption DEF ScanStop, Before, Page
    <3>3. \A b \in Slot : b >= s => f[q][b] = EMPTY
      BY <2>1, <3>1 DEF PrefixOf, Slot
    <3> QED BY <1>1, <2>1, <3>1, <3>2, <3>3 DEF WriterInv, WriteAhead, WriteBehind
  <2> QED BY <2>2, <2>3
<1> QED BY <1>2, <1>3 DEF Boot

LEMMA ClearedPrefix ==
  ASSUME TypeOK, PagePrefix, NEW k
  PROVE  PrefixOf(FlashCleared(k))
BY DEF TypeOK, PagePrefix, PrefixOf, FlashCleared, Blank

LEMMA ClearWriter ==
  ASSUME TypeOK, WriterInv, Clear, "clear_erase" \notin Faults
  PROVE  WriterInv'
<1>1. flash' = FlashCleared(NPages) /\ write_slot' = 0
  BY DEF Clear
<1>2. PagePrefix'
  BY <1>1, ClearedPrefix DEF WriterInv, PagePrefix, PrefixOf
<1> QED BY <1>1, <1>2 DEF WriterInv, WriteAhead, WriteBehind

\* The inductive invariant itself.
LEMMA WriterInvariant ==
  ASSUME "clear_erase" \notin Faults
  PROVE  Spec => []WriterInv
<1>1. Init => WriterInv
  BY DEF Init, WriterInv, PagePrefix, PrefixOf, WriteAhead, WriteBehind, Blank
<1>2. TypeOK /\ WriterInv /\ [Next]_vars => WriterInv'
  <2> SUFFICES ASSUME TypeOK, WriterInv, [Next]_vars PROVE WriterInv'
    OBVIOUS
  <2>1. ASSUME UNCHANGED <<flash, torn, write_pg, write_slot>> PROVE WriterInv'
    BY <2>1 DEF WriterInv, PagePrefix, PrefixOf, WriteAhead, WriteBehind
  <2>2. ASSUME WriteRecord PROVE WriterInv'
    BY <2>1, <2>2, WriteRecordFlashWriter DEF WriteRecord, store, state
  <2>3. CASE Task
    BY <2>3, <2>2 DEF Task
  <2>4. CASE WriteMark
    BY <2>4, <2>2 DEF WriteMark
  <2>5. CASE FlushRecord
    BY <2>5, WriteRecordFlashWriter DEF FlushRecord
  <2>6. CASE FlushBegin \/ SetConfig \/ CommitConfig \/ Connect \/ Disconnect
    BY <2>1, <2>6 DEF FlushBegin, SetConfig, CommitConfig, Connect, Disconnect, store, state
  <2>7. CASE DoErase
    BY <2>7, ClearWriter DEF DoErase
  <2>8. CASE OpLogErase
    BY <2>1, <2>8, ClearWriter DEF OpLogErase, store, state
  <2>9. CASE DeferredErase
    BY <2>9, ClearWriter DEF DeferredErase
  <2>10. flash \in [Page -> [Slot -> Nat]] /\ PrefixOf(flash)
    BY DEF TypeOK, WriterInv, PagePrefix
  <2>11. CASE Reset
    BY <2>10, <2>11, BootWriter DEF Reset
  <2>12. CASE CutInClear
    BY <2>12, BootWriter, ClearedPrefix, ClearedType DEF CutInClear, WriterInv
  <2>13. CASE CutInHeader
    BY <2>10, <2>13, BootWriter, ClearedPrefix, ClearedType DEF CutInHeader, WriterInv
  <2>14. CASE CutInWrite
    <3>1. ~StopsHere
      BY <2>14 DEF CutInWrite
    <3>2. PrefixOf(FlashErased) /\ FlashErased \in [Page -> [Slot -> Nat]]
      BY <3>1, TargetSlots, ErasedType
    <3>3. CASE Boot(FlashErased, TornErased, header)
      BY <3>2, <3>3, BootWriter
    <3>4. CASE /\ FlashErased[TargetPage][write_slot] = EMPTY
               /\ Boot([FlashErased EXCEPT ![TargetPage][write_slot] = serial],
                       TornErased \union {<<TargetPage, write_slot>>}, header)
      <4> DEFINE g == [FlashErased EXCEPT ![TargetPage][write_slot] = serial]
      <4>1. TargetPage \in Page /\ write_slot \in Slot /\ serial \in Nat /\ serial # EMPTY
        BY <3>1, TargetIsPage DEF TypeOK, EMPTY
      <4>2. g \in [Page -> [Slot -> Nat]]
        BY <3>2, <4>1
      <4>3. /\ g[TargetPage][write_slot] # EMPTY
            /\ \A s \in Slot : s # write_slot => g[TargetPage][s] = FlashErased[TargetPage][s]
            /\ \A p \in Page : p # TargetPage => g[p] = FlashErased[p]
        BY <3>2, <4>1
      <4>4. /\ \A s \in Slot : s < write_slot => FlashErased[TargetPage][s] # EMPTY
            /\ \A s \in Slot : s > write_slot => FlashErased[TargetPage][s] = EMPTY
        BY <3>1, TargetSlots
      <4>5. PrefixOf(g)
        <5>1. SUFFICES ASSUME NEW p \in Page, NEW s \in Slot, NEW u \in Slot,
                              s < u, g[p][u] # EMPTY
                       PROVE  g[p][s] # EMPTY
          BY DEF PrefixOf
        <5>2. CASE p = TargetPage
          BY <4>1, <4>3, <4>4, <5>1, <5>2 DEF Slot
        <5>3. CASE p # TargetPage
          BY <3>2, <4>3, <5>1, <5>3 DEF PrefixOf
        <5> QED BY <5>2, <5>3
      <4> HIDE DEF g
      <4>6. Boot(g, TornErased \union {<<TargetPage, write_slot>>}, header)
        BY <3>4 DEF g
      <4> QED BY <4>2, <4>5, <4>6, BootWriter
    <3> QED BY <2>14, <3>3, <3>4 DEF CutInWrite
  <2>15. CASE UNCHANGED vars
    BY <2>1, <2>15 DEF vars, store, state
  <2> QED
    BY <2>3, <2>4, <2>5, <2>6, <2>7, <2>8, <2>9, <2>11, <2>12, <2>13, <2>14, <2>15 DEF Next
<1> QED BY <1>1, <1>2, TypeCorrect, PTL DEF Spec

\* Unless an erase of FlashLog_Clear fails, the records of a page are its first
\* ones and the writer always has blank flash, or its own torn record, ahead:
\* after any write fault, reset, power cut or loss of the header.
THEOREM WriterStands ==
  ASSUME "clear_erase" \notin Faults
  PROVE  Spec => []WriterReady
<1>1. WriterInv => WriterReady
  BY DEF WriterInv, WriterReady
<1> QED BY <1>1, WriterInvariant, PTL

-----------------------------------------------------------------------------
(* Flash and the client.                                                   *)

\* A client that connects waits for the flush to end.
FlushAlone == flush_left > 0 => ~connected

LEMMA FlushAloneKept ==
  ASSUME TypeOK, FlushAlone, [Next]_vars
  PROVE  FlushAlone'
<1>1. CASE Task \/ WriteMark \/ SetConfig \/ CommitConfig \/ DoErase \/ OpLogErase
           \/ DeferredErase \/ UNCHANGED vars
  <2>1. UNCHANGED <<flush_left, connected>>
    BY <1>1 DEF Task, WriteMark, SetConfig, CommitConfig, DoErase, OpLogErase,
       DeferredErase, queue, env, vars
  <2> QED BY <2>1 DEF FlushAlone
<1>2. CASE FlushBegin
  BY <1>2 DEF FlushBegin, FlushAlone, env
<1>3. CASE FlushRecord
  BY <1>3 DEF FlushRecord, FlushAlone, env
<1>4. CASE Reset \/ CutInClear \/ CutInHeader \/ CutInWrite
  <2>1. connected' = FALSE
    BY <1>4 DEF Reset, CutInClear, CutInHeader, CutInWrite, Boot
  <2> QED BY <2>1 DEF FlushAlone
<1>5. CASE Connect
  BY <1>5 DEF Connect, Idle, FlushAlone, queue
<1>6. CASE Disconnect
  BY <1>6 DEF Disconnect, FlushAlone
<1> QED BY <1>1, <1>2, <1>3, <1>4, <1>5, <1>6 DEF Next

\* Whatever fails, no record is programmed while a client is connected: records
\* are queued then, and a flush that is under way keeps clients out.
THEOREM LinkKeepsFlashQuiet == Spec => NoWriteWhileConnected
<1>1. Init => FlushAlone
  BY DEF Init, FlushAlone
<1>2. TypeOK /\ FlushAlone /\ [Next]_vars => FlushAlone'
  BY FlushAloneKept
<1>3. TypeOK /\ FlushAlone /\ [Next]_vars => [serial' # serial => ~connected]_vars
  <2> SUFFICES ASSUME TypeOK, FlushAlone, Next, serial' # serial PROVE ~connected
    OBVIOUS
  <2>1. ASSUME WriteRecord PROVE ~connected
    BY <2>1 DEF WriteRecord
  <2>2. CASE Task \/ WriteMark
    BY <2>1, <2>2 DEF Task, WriteMark
  <2>3. CASE FlushRecord
    BY <2>3 DEF FlushRecord, FlushAlone
  <2>4. CASE CutInWrite
    BY <2>4 DEF CutInWrite
  <2>5. ~(FlushBegin \/ SetConfig \/ CommitConfig \/ DoErase \/ OpLogErase
          \/ DeferredErase \/ Reset \/ CutInClear \/ CutInHeader \/ Connect \/ Disconnect)
    BY DEF FlushBegin, SetConfig, CommitConfig, DoErase, OpLogErase, DeferredErase,
       Reset, CutInClear, CutInHeader, Connect, Disconnect
  <2> QED BY <2>2, <2>3, <2>4, <2>5 DEF Next
<1> QED BY <1>1, <1>2, <1>3, TypeCorrect, PTL DEF Spec, NoWriteWhileConnected

-----------------------------------------------------------------------------
(* What the log keeps through faults, resets and power cuts: the position  *)
(* that FlashLog_Init finds is the one that was lost.                      *)

\* The mode stays, no program fails half-way except in a power cut, and neither
\* FlashLog_Clear nor a header write fails or is cut.
BootAssumptions ==
  /\ NewModes = {}
  /\ \A k \in {"torn", "clear_erase", "cut_clear", "header", "cut_header"} : k \notin Faults

\* The records are the slots before slot s of page p.
OpenAt(f, p, s) ==
  \A a \in Page, b \in Slot : f[a][b] # EMPTY <=> a < p \/ (a = p /\ b < s)

\* Page p, the writer's, is the only one that is not full.
RingAt(f, p, s) == \A a \in Page, b \in Slot : f[a][b] # EMPTY <=> a # p \/ b < s

AllFull(f) == \A a \in Page, b \in Slot : f[a][b] # EMPTY

Position(f, p, s) == OpenAt(f, p, s) /\ p \in 0 .. NPages /\ s \in Slot /\ (p = NPages => s = 0)

\* Where the records are, said by the position in RAM.
Packed ==
  \/ /\ OpenAt(flash, write_pg, write_slot) /\ read_pg = 0
     /\ total_records = write_pg * PageSlots + write_slot
  \/ /\ overflow_mode = "CIRCULAR" /\ read_pg = NextPage(TargetPage)
     /\ RingAt(flash, TargetPage, write_slot)
  \/ overflow_mode = "CIRCULAR" /\ AllFull(flash) /\ write_slot = 0

KeptInv == header = overflow_mode /\ Packed

\* The scan of a log that was never closed stops where its records end.
LEMMA ScanOpen ==
  ASSUME NEW f, NEW p, NEW s, Position(f, p, s),
         NEW q \in 0 .. NPages, NEW u \in Slot, ScanStop(f, 0, q, u)
  PROVE  q = p /\ u = s
<1>1. /\ q = NPages => u = 0
      /\ q # NPages => q \in Page /\ f[q][u] = EMPTY
      /\ p # NPages => p \in Page /\ f[p][s] = EMPTY
      /\ 0 \in Slot
  BY SizeAssumption DEF ScanStop, Position, OpenAt, Page, Slot
<1>2. ~(p < q \/ (p = q /\ s < u))
  <2>1. SUFFICES ASSUME p < q \/ (p = q /\ s < u) PROVE FALSE
    OBVIOUS
  <2>2. p \in Page
    BY <1>1, <2>1, SizeAssumption DEF Position, Page, Slot
  <2>3. f[p][s] # EMPTY
    BY <2>1, <2>2 DEF ScanStop, Before, Position, Page
  <2> QED BY <1>1, <2>2, <2>3, SizeAssumption DEF Page
<1>3. ~(q < p \/ (q = p /\ u < s))
  <2>1. SUFFICES ASSUME q < p \/ (q = p /\ u < s) PROVE FALSE
    OBVIOUS
  <2>2. q \in Page
    BY <1>1, <2>1, SizeAssumption DEF Position, Page, Slot
  <2> QED BY <1>1, <2>1, <2>2, SizeAssumption DEF Position, OpenAt, Page
<1> QED BY <1>2, <1>3, SizeAssumption DEF Position, Slot

\* The scan of a closed ring stops on the writer's page.
LEMMA ScanRing ==
  ASSUME NEW f, NEW p \in Page, NEW s \in Slot, RingAt(f, p, s),
         NEW q \in 0 .. NPages, NEW u \in Slot, ScanStop(f, 0, q, u)
  PROVE  q = p /\ u = s
<1>1. f[p][s] = EMPTY
  BY DEF RingAt, Slot
<1>2. ~(p < q \/ (p = q /\ s < u))
  BY <1>1 DEF ScanStop, Before, Page
<1>3. q \in Page /\ f[q][u] = EMPTY
  BY <1>2, SizeAssumption DEF ScanStop, Page
<1>4. q = p /\ ~(u < s)
  BY <1>3 DEF RingAt
<1> QED BY <1>2, <1>4, SizeAssumption DEF Slot

\* What a reset makes of the records it finds.
LEMMA BootPacked ==
  ASSUME NEW f, NEW t, NEW h \in Modes, Boot(f, t, h)
  PROVE  /\ header' = h /\ overflow_mode' = h /\ flash' = f
         /\ \A p, s : Position(f, p, s) =>
              Packed' /\ (p # NPages => read_pg' = 0)
         /\ \A p \in Page, s \in Slot : h = "CIRCULAR" /\ RingAt(f, p, s) =>
              Packed' /\ read_pg' = NextPage(p)
<1>1. h # NoHeader
  BY DEF Modes, NoHeader
<1>2. header' = h /\ overflow_mode' = h /\ flash' = f /\ InitScan(f)
  BY <1>1 DEF Boot
<1>3. PICK q \in 0 .. NPages, u \in Slot :
        /\ ScanStop(f, 0, q, u)
        /\ write_pg' = IF q = NPages /\ overflow_mode' = "CIRCULAR" THEN 0 ELSE q
        /\ write_slot' = u
        /\ IF overflow_mode' = "CIRCULAR" /\ q + 1 < NPages /\ f[q + 1][0] # EMPTY
           THEN read_pg' = q + 1
           ELSE read_pg' = 0 /\ total_records' = q * PageSlots + u
  BY <1>2 DEF InitScan
<1>4. ASSUME NEW p, NEW s, Position(f, p, s) PROVE Packed' /\ (p # NPages => read_pg' = 0)
  <2>1. q = p /\ u = s
    BY <1>3, <1>4, ScanOpen
  <2>2. OpenAt(f, p, s)
    BY <1>4 DEF Position
  <2>3. ~(q + 1 < NPages /\ f[q + 1][0] # EMPTY)
    <3>1. SUFFICES ASSUME q + 1 < NPages PROVE f[q + 1][0] = EMPTY
      OBVIOUS
    <3>2. q + 1 \in Page /\ 0 \in Slot /\ ~(q + 1 < q) /\ q + 1 # q
      BY <3>1, SizeAssumption DEF Page, Slot
    <3> QED BY <2>1, <2>2, <3>2 DEF OpenAt
  <2>4. read_pg' = 0 /\ total_records' = q * PageSlots + u
    BY <1>3, <2>3
  <2>5. CASE p = NPages /\ h = "CIRCULAR"
    <3>1. \A a \in Page : a < p
      BY <2>5, SizeAssumption DEF Page
    <3>2. AllFull(f) /\ u = 0
      BY <1>4, <2>1, <2>2, <2>5, <3>1 DEF OpenAt, AllFull, Position
    <3>3. AllFull(flash)' /\ write_slot' = 0 /\ overflow_mode' = "CIRCULAR"
      BY <1>2, <1>3, <2>5, <3>2 DEF AllFull
    <3> QED BY <2>5, <3>3 DEF Packed
  <2>6. CASE ~(p = NPages /\ h = "CIRCULAR")
    <3>1. write_pg' = p /\ write_slot' = s
      BY <1>2, <1>3, <2>1, <2>6
    <3> QED BY <1>2, <2>1, <2>2, <2>4, <3>1 DEF Packed, OpenAt
  <2> QED BY <2>4, <2>5, <2>6
<1>5. ASSUME NEW p \in Page, NEW s \in Slot, h = "CIRCULAR", RingAt(f, p, s)
      PROVE  Packed' /\ read_pg' = NextPage(p)
  <2>1. q = p /\ u = s
    BY <1>3, <1>5, ScanRing
  <2>2. write_pg' = p /\ write_slot' = s /\ p # NPages
    BY <1>3, <2>1, SizeAssumption DEF Page
  <2>3. TargetPage' = p
    BY <2>2 DEF TargetPage, AtEnd
  <2>4. read_pg' = NextPage(p)
    <3>1. CASE p + 1 = NPages
      BY <1>3, <2>1, <3>1, SizeAssumption DEF NextPage, Page
    <3>2. CASE p + 1 # NPages
      <4>1. p + 1 \in Page /\ 0 \in Slot /\ p + 1 # p /\ p + 1 < NPages
        BY <3>2, SizeAssumption DEF Page, Slot
      <4>2. f[p + 1][0] # EMPTY
        BY <1>5, <4>1 DEF RingAt
      <4> QED BY <1>2, <1>3, <1>5, <2>1, <3>2, <4>1, <4>2 DEF NextPage
    <3> QED BY <3>1, <3>2
  <2>5. NextPage(TargetPage)' = NextPage(p)
    BY <2>3 DEF NextPage
  <2> QED BY <1>2, <1>5, <2>2, <2>3, <2>4, <2>5 DEF Packed, RingAt
<1> QED BY <1>2, <1>4, <1>5

LEMMA BlankErased ==
  ASSUME TypeOK, TargetPage \in Page
  PROVE  NeedsErase => /\ write_slot = 0
                       /\ \A b \in Slot : FlashErased[TargetPage][b] = EMPTY
                       /\ \A a \in Page : a # TargetPage => FlashErased[a] = flash[a]
BY DEF TypeOK, NeedsErase, FlashErased, Blank

\* What a write finds, once it has erased what it has to.
LEMMA ErasedPacked ==
  ASSUME TypeOK, Packed, ~StopsHere
  PROVE  /\ TargetPage \in Page /\ write_slot \in Slot
         /\ \/ /\ ~NeedsErase /\ TargetPage = write_pg
               /\ OpenAt(FlashErased, TargetPage, write_slot) /\ ReadErased = 0
               /\ total_records = TargetPage * PageSlots + write_slot
            \/ /\ overflow_mode = "CIRCULAR" /\ ReadErased = NextPage(TargetPage)
               /\ RingAt(FlashErased, TargetPage, write_slot)
<1>1. TargetPage \in Page /\ write_slot \in Slot /\ 0 \in Slot
  BY TargetIsPage, PageArith DEF TypeOK
<1>2. CASE OpenAt(flash, write_pg, write_slot) /\ write_pg # NPages /\ read_pg = 0
           /\ total_records = write_pg * PageSlots + write_slot
  <2>1. TargetPage = write_pg
    BY <1>2 DEF TargetPage, AtEnd
  <2>2. write_slot = 0 => flash[TargetPage][0] = EMPTY
    BY <1>1, <1>2, <2>1 DEF OpenAt, Page
  <2>3. ~NeedsErase
    BY <2>2 DEF NeedsErase
  <2> QED BY <1>1, <1>2, <2>1, <2>3 DEF FlashErased, ReadErased
<1>3. CASE overflow_mode = "CIRCULAR" /\ read_pg = NextPage(TargetPage)
           /\ RingAt(flash, TargetPage, write_slot)
  <2>1. write_slot = 0 => flash[TargetPage][0] = EMPTY
    BY <1>1, <1>3 DEF RingAt
  <2>2. ~NeedsErase
    BY <2>1 DEF NeedsErase
  <2> QED BY <1>1, <1>3, <2>2 DEF FlashErased, ReadErased
<1>4. CASE AllFull(flash) /\ write_slot = 0 /\ overflow_mode = "CIRCULAR"
  <2>1. NeedsErase
    BY <1>1, <1>4 DEF NeedsErase, AllFull
  <2>2. RingAt(FlashErased, TargetPage, write_slot)
    BY <1>1, <1>4, <2>1, BlankErased, PageArith DEF RingAt, AllFull
  <2> QED BY <1>1, <1>4, <2>1, <2>2 DEF ReadErased
<1>5. CASE OpenAt(flash, write_pg, write_slot) /\ write_pg = NPages
  <2>1. AllFull(flash)
    BY <1>5, SizeAssumption DEF OpenAt, AllFull, Page
  <2>2. overflow_mode = "CIRCULAR" /\ write_slot = 0
    BY <1>5 DEF StopsHere, AtEnd, TypeOK, Modes
  <2> QED BY <1>4, <2>1, <2>2
<1> QED BY <1>2, <1>3, <1>4, <1>5 DEF Packed

\* One more record in the next slot.
LEMMA OneMore ==
  ASSUME NEW f, NEW g, NEW p \in Page, NEW s \in Slot,
         g[p][s] # EMPTY, \A a \in Page, b \in Slot : a # p \/ b # s => g[a][b] = f[a][b]
  PROVE  /\ OpenAt(f, p, s) /\ s + 1 # PageSlots => Position(g, p, s + 1)
         /\ OpenAt(f, p, s) /\ s + 1 = PageSlots => Position(g, p + 1, 0)
         /\ RingAt(f, p, s) /\ s + 1 # PageSlots => RingAt(g, p, s + 1) /\ s + 1 \in Slot
         /\ RingAt(f, p, s) /\ s + 1 = PageSlots => AllFull(g)
<1>1. /\ g[p][s] # EMPTY
      /\ \A a \in Page, b \in Slot : a # p \/ b # s => g[a][b] = f[a][b]
  OBVIOUS
<1>2. /\ \A b \in Slot : b < s + 1 <=> b < s \/ b = s
      /\ s + 1 # PageSlots => s + 1 \in Slot
      /\ s + 1 = PageSlots => \A b \in Slot : b < s \/ b = s
      /\ 0 \in Slot /\ \A b \in Slot : ~(b < 0)
  BY SizeAssumption DEF Slot
<1>3. /\ \A a \in Page : a < p + 1 <=> a < p \/ a = p
      /\ \A a \in Page : a # p + 1 \/ a = p + 1
      /\ p \in 0 .. NPages /\ p + 1 \in 0 .. NPages /\ p # NPages
      /\ \A a \in Page : a < p => a # p
  BY SizeAssumption DEF Page
<1>4. ASSUME OpenAt(f, p, s), s + 1 # PageSlots PROVE Position(g, p, s + 1)
  BY <1>1, <1>2, <1>3, <1>4 DEF OpenAt, Position
<1>5. ASSUME OpenAt(f, p, s), s + 1 = PageSlots PROVE Position(g, p + 1, 0)
  BY <1>1, <1>2, <1>3, <1>5 DEF OpenAt, Position
<1>6. ASSUME RingAt(f, p, s), s + 1 # PageSlots PROVE RingAt(g, p, s + 1)
  BY <1>1, <1>2, <1>6 DEF RingAt
<1>7. ASSUME RingAt(f, p, s), s + 1 = PageSlots PROVE AllFull(g)
  BY <1>1, <1>2, <1>7 DEF RingAt, AllFull
<1> QED BY <1>2, <1>4, <1>5, <1>6, <1>7

LEMMA ProgrammedPacked ==
  ASSUME TypeOK, Packed, WriteProgrammed, UNCHANGED overflow_mode
  PROVE  Packed'
<1> DEFINE s == write_slot
           p == TargetPage
<1>1. /\ p \in Page /\ s \in Slot /\ serial \in Nat \ {0} /\ ~StopsHere
      /\ FlashErased \in [Page -> [Slot -> Nat]]
      /\ flash' = [FlashErased EXCEPT ![p][s] = serial]
      /\ read_pg' = ReadErased /\ total_records' = total_records + 1
      /\ IF s + 1 = PageSlots THEN write_pg' = p + 1 /\ write_slot' = 0
                              ELSE write_pg' = p /\ write_slot' = s + 1
  BY ErasedPacked, ErasedType DEF WriteProgrammed, TypeOK
<1> HIDE DEF s, p
<1>2. p \in Nat /\ s \in Nat /\ PageSlots \in Nat /\ p # NPages /\ p * PageSlots \in Nat
  BY <1>1, SizeAssumption DEF Page, Slot
<1>m. /\ OpenAt(FlashErased, p, s) /\ s + 1 # PageSlots => OpenAt(flash', p, s + 1)
      /\ OpenAt(FlashErased, p, s) /\ s + 1 = PageSlots => OpenAt(flash', p + 1, 0)
      /\ RingAt(FlashErased, p, s) /\ s + 1 # PageSlots => RingAt(flash', p, s + 1)
      /\ RingAt(FlashErased, p, s) /\ s + 1 = PageSlots => AllFull(flash')
  <2> DEFINE g == [FlashErased EXCEPT ![p][s] = serial]
  <2>1. /\ g = flash' /\ g[p][s] # EMPTY
        /\ \A a \in Page, b \in Slot : a # p \/ b # s => g[a][b] = FlashErased[a][b]
    BY <1>1 DEF EMPTY
  <2> HIDE DEF g
  <2>2. /\ OpenAt(FlashErased, p, s) /\ s + 1 # PageSlots => Position(g, p, s + 1)
        /\ OpenAt(FlashErased, p, s) /\ s + 1 = PageSlots => Position(g, p + 1, 0)
        /\ RingAt(FlashErased, p, s) /\ s + 1 # PageSlots => RingAt(g, p, s + 1)
        /\ RingAt(FlashErased, p, s) /\ s + 1 = PageSlots => AllFull(g)
    BY <1>1, <2>1, OneMore
  <2> QED BY <2>1, <2>2 DEF Position
<1>3. CASE OpenAt(FlashErased, p, s) /\ ReadErased = 0 /\ total_records = p * PageSlots + s
  <2>1. CASE s + 1 # PageSlots
    <3>1. OpenAt(flash', p, s + 1)
      BY <1>m, <1>3, <2>1
    <3>2. total_records' = p * PageSlots + (s + 1)
      BY <1>1, <1>2, <1>3
    <3> QED BY <1>1, <1>3, <2>1, <3>1, <3>2 DEF Packed, OpenAt
  <2>2. CASE s + 1 = PageSlots
    <3>1. OpenAt(flash', p + 1, 0)
      BY <1>m, <1>3, <2>2
    <3>2. (p + 1) * PageSlots + 0 = p * PageSlots + PageSlots
      BY <1>2
    <3>3. total_records' = (p + 1) * PageSlots + 0
      BY <1>1, <1>2, <1>3, <2>2, <3>2
    <3> QED BY <1>1, <1>3, <2>2, <3>1, <3>3 DEF Packed, OpenAt
  <2> QED BY <2>1, <2>2
<1>4. CASE overflow_mode = "CIRCULAR" /\ ReadErased = NextPage(p) /\ RingAt(FlashErased, p, s)
  <2>1. CASE s + 1 # PageSlots
    <3>1. RingAt(flash', p, s + 1)
      BY <1>m, <1>4, <2>1
    <3>2. TargetPage' = p
      BY <1>1, <1>2, <2>1 DEF TargetPage, AtEnd
    <3>3. NextPage(TargetPage)' = NextPage(p)
      BY <3>2 DEF NextPage
    <3> QED BY <1>1, <1>4, <2>1, <3>1, <3>2, <3>3 DEF Packed, RingAt
  <2>2. CASE s + 1 = PageSlots
    <3>1. AllFull(flash')
      BY <1>m, <1>4, <2>2
    <3>2. AllFull(flash)' /\ write_slot' = 0 /\ overflow_mode' = "CIRCULAR"
      BY <1>1, <1>4, <2>2, <3>1 DEF AllFull
    <3> QED BY <3>2 DEF Packed
  <2> QED BY <2>1, <2>2
<1> QED BY <1>1, <1>3, <1>4, ErasedPacked DEF s, p

LEMMA WritePacked ==
  ASSUME TypeOK, Packed, WriteRecordFlash, UNCHANGED overflow_mode, "torn" \notin Faults
  PROVE  Packed'
<1>1. CASE WriteFull
  BY <1>1 DEF WriteFull, store, Packed, TargetPage, AtEnd, NextPage
<1>2. ASSUME ~StopsHere, ~WriteProgrammed,
             flash' = FlashErased, write_pg' = TargetPage, UNCHANGED <<write_slot, total_records>>,
             read_pg' = ReadErased
      PROVE  Packed'
  <2>1. TargetPage \in Page /\ TargetPage # NPages
    BY <1>2, ErasedPacked, SizeAssumption DEF Page
  <2>2. TargetPage' = TargetPage
    BY <1>2, <2>1 DEF TargetPage, AtEnd
  <2>3. NextPage(TargetPage)' = NextPage(TargetPage)
    BY <2>2 DEF NextPage
  <2>4. CASE /\ OpenAt(FlashErased, TargetPage, write_slot) /\ ReadErased = 0
             /\ total_records = TargetPage * PageSlots + write_slot
    BY <1>2, <2>4 DEF Packed, OpenAt
  <2>5. CASE /\ overflow_mode = "CIRCULAR" /\ ReadErased = NextPage(TargetPage)
             /\ RingAt(FlashErased, TargetPage, write_slot)
    BY <1>2, <2>2, <2>3, <2>5 DEF Packed, RingAt
  <2> QED BY <1>2, <2>4, <2>5, ErasedPacked
<1>3. CASE WriteEraseFails
  <2>1. /\ ~StopsHere /\ NeedsErase /\ write_slot' = 0 /\ flash' = flash
        /\ overflow_mode' = overflow_mode
    BY <1>3 DEF WriteEraseFails, NeedsErase, store
  <2>2. TargetPage \in Page /\ 0 \in Slot /\ flash[TargetPage][0] # EMPTY
    BY <2>1, ErasedPacked, PageArith DEF NeedsErase
  <2>3. ~(OpenAt(flash, write_pg, write_slot) /\ write_pg # NPages)
    BY <2>1, <2>2 DEF OpenAt, TargetPage, AtEnd, NeedsErase, Page
  <2>4. ~RingAt(flash, TargetPage, write_slot)
    BY <2>1, <2>2 DEF RingAt, NeedsErase
  <2>5. AllFull(flash) /\ overflow_mode = "CIRCULAR"
    <3>1. CASE OpenAt(flash, write_pg, write_slot) /\ write_pg = NPages
      BY <2>1, <3>1, SizeAssumption DEF OpenAt, AllFull, Page, StopsHere, AtEnd, TypeOK, Modes
    <3> QED BY <2>3, <2>4, <3>1 DEF Packed
  <2> QED BY <2>1, <2>5 DEF Packed, AllFull
<1>4. CASE WriteProgrammed
  BY <1>4, ProgrammedPacked
<1>5. CASE WriteProgramFails /\ ~WriteProgrammed
  BY <1>2, <1>5 DEF WriteProgramFails
<1> QED BY <1>1, <1>3, <1>4, <1>5 DEF WriteRecordFlash

LEMMA ClearPacked ==
  ASSUME TypeOK, Clear, UNCHANGED overflow_mode, header = overflow_mode,
         "clear_erase" \notin Faults, "header" \notin Faults
  PROVE  KeptInv'
<1>1. /\ flash' = FlashCleared(NPages) /\ write_pg' = 0 /\ write_slot' = 0
      /\ read_pg' = 0 /\ total_records' = 0 /\ header' = overflow_mode
  BY DEF Clear, WriteHeader
<1>2. \A p \in Page, s \in Slot : flash'[p][s] = EMPTY /\ ~(p < 0) /\ ~(s < 0)
  BY <1>1, SizeAssumption DEF FlashCleared, Page, Slot, Blank
<1>3. 0 * PageSlots + 0 = 0
  BY SizeAssumption
<1> QED BY <1>1, <1>2, <1>3 DEF KeptInv, Packed, OpenAt

\* A reset that finds the pages as they are.
LEMMA ResetPacked ==
  ASSUME TypeOK, KeptInv, Reset
  PROVE  KeptInv'
<1>1. header \in Modes /\ Boot(flash, torn, header) /\ write_slot \in Slot
  BY DEF TypeOK, KeptInv, Reset
<1>2. /\ header' = overflow_mode'
      /\ \A p, s : Position(flash, p, s) => Packed'
      /\ \A p \in Page, s \in Slot : header = "CIRCULAR" /\ RingAt(flash, p, s) => Packed'
  BY <1>1, BootPacked
<1>3. CASE OpenAt(flash, write_pg, write_slot)
  <2>1. Position(flash, write_pg, write_slot)
    BY <1>3 DEF Position, TypeOK, AtEnd
  <2> QED BY <1>2, <2>1 DEF KeptInv
<1>4. CASE overflow_mode = "CIRCULAR" /\ RingAt(flash, TargetPage, write_slot)
  <2>1. TargetPage \in Page
    BY <1>4, TargetIsPage DEF StopsHere
  <2> QED BY <1>1, <1>2, <1>4, <2>1 DEF KeptInv
<1>5. CASE AllFull(flash)
  <2>1. Position(flash, NPages, 0)
    BY <1>5, SizeAssumption DEF Position, OpenAt, AllFull, Page, Slot
  <2> QED BY <1>2, <2>1 DEF KeptInv
<1> QED BY <1>3, <1>4, <1>5 DEF KeptInv, Packed

\* Power fails in a record write.
LEMMA CutPacked ==
  ASSUME TypeOK, KeptInv, CutInWrite
  PROVE  KeptInv'
<1> DEFINE g == [FlashErased EXCEPT ![TargetPage][write_slot] = serial]
<1>1. ~StopsHere /\ header \in Modes /\ header = overflow_mode
  BY DEF CutInWrite, TypeOK, KeptInv
<1>2. TargetPage \in Page /\ write_slot \in Slot /\ TargetPage # NPages
  BY <1>1, ErasedPacked, SizeAssumption DEF KeptInv, Page
<1>3. \/ OpenAt(FlashErased, TargetPage, write_slot)
      \/ header = "CIRCULAR" /\ RingAt(FlashErased, TargetPage, write_slot)
  BY <1>1, ErasedPacked DEF KeptInv
<1>4. CASE Boot(FlashErased, TornErased, header)
  <2>1. /\ header' = overflow_mode'
        /\ Position(FlashErased, TargetPage, write_slot) => Packed'
        /\ header = "CIRCULAR" /\ RingAt(FlashErased, TargetPage, write_slot) => Packed'
    BY <1>1, <1>2, <1>4, BootPacked
  <2>2. TargetPage \in 0 .. NPages
    BY <1>2, SizeAssumption DEF Page
  <2> QED BY <1>2, <1>3, <2>1, <2>2 DEF KeptInv, Position
<1>5. CASE Boot(g, TornErased \union {<<TargetPage, write_slot>>}, header)
  <2>1. FlashErased \in [Page -> [Slot -> Nat]] /\ serial \in Nat \ {0}
    BY ErasedType DEF TypeOK
  <2>2. /\ g[TargetPage][write_slot] # EMPTY
        /\ \A a \in Page, b \in Slot :
              a # TargetPage \/ b # write_slot => g[a][b] = FlashErased[a][b]
    BY <1>2, <2>1 DEF EMPTY
  <2> HIDE DEF g
  <2>3. \/ \E p, s : Position(g, p, s)
        \/ header = "CIRCULAR" /\ \E p \in Page, s \in Slot : RingAt(g, p, s)
        \/ AllFull(g)
    BY <1>2, <1>3, <2>2, OneMore
  <2>4. AllFull(g) => Position(g, NPages, 0)
    BY SizeAssumption DEF Position, OpenAt, AllFull, Page, Slot
  <2>5. /\ header' = overflow_mode'
        /\ \A p, s : Position(g, p, s) => Packed'
        /\ \A p \in Page, s \in Slot : header = "CIRCULAR" /\ RingAt(g, p, s) => Packed'
    BY <1>1, <1>5, BootPacked
  <2> QED BY <2>3, <2>4, <2>5 DEF KeptInv
<1> QED BY <1>4, <1>5 DEF CutInWrite

\* The shape of the log through faults, resets and power cuts.
LEMMA KeptInvariant ==
  ASSUME BootAssumptions
  PROVE  Spec => []KeptInv
<1>a. /\ NewModes = {} /\ "torn" \notin Faults /\ "clear_erase" \notin Faults
      /\ "cut_clear" \notin Faults /\ "header" \notin Faults /\ "cut_header" \notin Faults
  BY DEF BootAssumptions
<1>1. Init => KeptInv
  <2> SUFFICES ASSUME Init PROVE KeptInv
    OBVIOUS
  <2>1. \A p \in Page, s \in Slot : flash[p][s] = EMPTY /\ ~(p < 0) /\ ~(s < 0)
    BY SizeAssumption DEF Init, Page, Slot, Blank
  <2>2. 0 * PageSlots + 0 = 0
    BY SizeAssumption
  <2> QED BY <2>1, <2>2 DEF Init, KeptInv, Packed, OpenAt
<1>2. TypeOK /\ KeptInv /\ [Next]_vars => KeptInv'
  <2> SUFFICES ASSUME TypeOK, KeptInv, [Next]_vars PROVE KeptInv'
    OBVIOUS
  <2>1. ASSUME UNCHANGED <<flash, header, state, overflow_mode>> PROVE KeptInv'
    BY <2>1 DEF KeptInv, Packed, state, TargetPage, AtEnd, NextPage
  <2>2. ASSUME WriteRecord, UNCHANGED <<header, overflow_mode>> PROVE KeptInv'
    BY <1>a, <2>1, <2>2, WritePacked DEF WriteRecord, store, KeptInv
  <2>3. CASE Task
    BY <2>3, <2>2 DEF Task
  <2>4. CASE WriteMark
    BY <2>4, <2>2 DEF WriteMark
  <2>5. CASE FlushRecord
    BY <1>a, <2>5, WritePacked DEF FlushRecord, KeptInv
  <2>6. CASE FlushBegin \/ Connect \/ Disconnect
    BY <2>1, <2>6 DEF FlushBegin, Connect, Disconnect, store
  <2>7. CASE SetConfig
    BY <1>a, <2>7 DEF SetConfig
  <2>8. CASE CommitConfig
    <3>1. header' = overflow_mode
      BY <1>a, <2>8 DEF CommitConfig, WriteHeader
    <3>2. header' = header
      BY <3>1 DEF KeptInv
    <3> QED BY <2>1, <2>8, <3>2 DEF CommitConfig, store
  <2>9. CASE DoErase
    BY <1>a, <2>9, ClearPacked DEF DoErase, KeptInv
  <2>10. CASE OpLogErase
    BY <1>a, <2>1, <2>10, ClearPacked DEF OpLogErase, KeptInv, store
  <2>11. CASE DeferredErase
    BY <1>a, <2>11, ClearPacked DEF DeferredErase, KeptInv
  <2>12. CASE Reset
    BY <2>12, ResetPacked
  <2>13. CASE CutInWrite
    BY <2>13, CutPacked
  <2>14. ~(CutInClear \/ CutInHeader)
    BY <1>a DEF CutInClear, CutInHeader
  <2>15. CASE UNCHANGED vars
    BY <2>1, <2>15 DEF vars, store
  <2> QED
    BY <2>3, <2>4, <2>5, <2>6, <2>7, <2>8, <2>9, <2>10, <2>11, <2>12, <2>13, <2>14, <2>15
       DEF Next
<1> QED BY <1>1, <1>2, TypeCorrect, PTL DEF Spec

LEMMA SlotsOfPages ==
  ASSUME NEW n \in Nat, NEW m \in Nat
  PROVE  /\ IsFiniteSet((0 .. n - 1) \X (0 .. m - 1))
         /\ Cardinality((0 .. n - 1) \X (0 .. m - 1)) = n * m
<1>1. /\ IsFiniteSet(0 .. n - 1) /\ Cardinality(0 .. n - 1) = n
      /\ IsFiniteSet(0 .. m - 1) /\ Cardinality(0 .. m - 1) = m
  BY FS_Interval
<1> DEFINE S == 0 .. n - 1
           T == 0 .. m - 1
<1>2. IsFiniteSet(S) /\ IsFiniteSet(T) /\ Cardinality(S) = n /\ Cardinality(T) = m
  BY <1>1
<1> HIDE DEF S, T
<1>3. IsFiniteSet(S \X T) /\ Cardinality(S \X T) = Cardinality(S) * Cardinality(T)
  BY <1>2, FS_Product
<1> QED BY <1>2, <1>3 DEF S, T

\* Counting the records of a log of one of the shapes.
LEMMA PackedRetains ==
  ASSUME TypeOK, Packed
  PROVE  RetainsLast
<1> DEFINE Held == {x \in Page \X Slot : flash[x[1]][x[2]] # EMPTY}
<1>1. /\ IsFiniteSet(Page \X Slot) /\ Cardinality(Page \X Slot) = NPages * PageSlots
      /\ NPages * PageSlots \in Nat
  <2>1. NPages \in Nat /\ PageSlots \in Nat
    BY SizeAssumption
  <2>2. NPages * PageSlots \in Nat
    BY <2>1
  <2> QED BY <2>1, <2>2, SlotsOfPages DEF Page, Slot
<1>2. IsFiniteSet(Held) /\ Cardinality(Held) \in Nat
  BY <1>1, FS_Subset, FS_CardinalityType
<1>3. CASE /\ OpenAt(flash, write_pg, write_slot)
           /\ total_records = write_pg * PageSlots + write_slot
  <2> DEFINE A == (0 .. write_pg - 1) \X Slot
             B == {write_pg} \X (0 .. write_slot - 1)
  <2>1. write_pg \in Nat /\ write_slot \in Nat /\ PageSlots \in Nat /\ write_pg <= NPages
        /\ NPages \in Nat /\ write_slot < PageSlots
    BY SizeAssumption DEF TypeOK, Slot
  <2>2. IsFiniteSet(A) /\ Cardinality(A) = write_pg * PageSlots
    BY <2>1, SlotsOfPages DEF Slot
  <2>3. IsFiniteSet(B) /\ Cardinality(B) = write_slot
    <3>1. IsFiniteSet({write_pg}) /\ Cardinality({write_pg}) = 1
      BY FS_Singleton
    <3>2. IsFiniteSet(0 .. write_slot - 1) /\ Cardinality(0 .. write_slot - 1) = write_slot
      BY <2>1, FS_Interval
    <3> QED BY <2>1, <3>1, <3>2, FS_Product
  <2>4. A \cap B = {}
    BY <2>1
  <2>5. IsFiniteSet(A \cup B) /\ Cardinality(A \cup B) = write_pg * PageSlots + write_slot
    <3>1. write_pg * PageSlots \in Nat
      BY <2>1
    <3>2. Cardinality(A \cap B) = 0
      BY <2>4, FS_EmptySet
    <3> HIDE DEF A, B
    <3>3. /\ IsFiniteSet(A \cup B)
          /\ Cardinality(A \cup B) = Cardinality(A) + Cardinality(B) - Cardinality(A \cap B)
      BY <2>2, <2>3, FS_Union
    <3> QED BY <2>1, <2>2, <2>3, <3>1, <3>2, <3>3
  <2>6. A \cup B \subseteq Held
    <3>1. A \subseteq Held
      BY <1>3, <2>1 DEF OpenAt, Page, Slot
    <3>2. B \subseteq Held
      <4>1. SUFFICES ASSUME NEW b \in 0 .. write_slot - 1 PROVE <<write_pg, b>> \in Held
        OBVIOUS
      <4>2. b \in Slot /\ b < write_slot /\ write_slot # 0
        BY <2>1 DEF Slot
      <4>3. write_pg \in Page
        BY <2>1, <4>2 DEF TypeOK, AtEnd, Page
      <4> QED BY <1>3, <4>2, <4>3 DEF OpenAt
    <3> QED BY <3>1, <3>2
  <2>7. Cardinality(A \cup B) <= Cardinality(Held)
    BY <1>2, <2>6, FS_Subset
  <2>8. Cardinality(Held) >= total_records
    BY <1>2, <1>3, <2>1, <2>5, <2>7
  <2> QED BY <2>8 DEF RetainsLast
<1>4. ASSUME NEW t \in Page, \A a \in Page, b \in Slot : a # t => flash[a][b] # EMPTY
      PROVE  RetainsLast
  <2> DEFINE R == Page \ {t}
  <2>1. IsFiniteSet(Page) /\ Cardinality(Page) = NPages /\ NPages \in Nat /\ NPages >= 2
    BY FS_Interval, SizeAssumption DEF Page
  <2>2. IsFiniteSet(R) /\ Cardinality(R) = NPages - 1
    BY <1>4, <2>1, FS_RemoveElement
  <2>3. IsFiniteSet(Slot) /\ Cardinality(Slot) = PageSlots /\ PageSlots \in Nat
    BY FS_Interval, SizeAssumption DEF Slot
  <2>4. IsFiniteSet(R \X Slot) /\ Cardinality(R \X Slot) = (NPages - 1) * PageSlots
    <3> HIDE DEF R
    <3> QED BY <2>2, <2>3, FS_Product
  <2>5. (NPages - 1) * PageSlots = NSlots - PageSlots
    BY <2>1, <2>3 DEF NSlots
  <2>6. R \X Slot \subseteq Held
    BY <1>4
  <2>7. Cardinality(R \X Slot) <= Cardinality(Held)
    BY <1>2, <2>6, FS_Subset
  <2>8. Cardinality(Held) >= NSlots - PageSlots
    BY <1>1, <1>2, <2>3, <2>4, <2>5, <2>7 DEF NSlots
  <2> QED BY <2>8 DEF RetainsLast
<1>5. CASE RingAt(flash, TargetPage, write_slot) /\ overflow_mode = "CIRCULAR"
  <2>1. TargetPage \in Page
    BY <1>5, TargetIsPage DEF StopsHere
  <2> QED BY <1>4, <1>5, <2>1 DEF RingAt
<1>6. CASE AllFull(flash)
  BY <1>4, <1>6, PageArith DEF AllFull
<1> QED BY <1>3, <1>5, <1>6 DEF Packed

\* Through failing erases and writes, resets and power cuts in a write, and however
\* often the log was scanned, cleared or went round the ring: it holds what it has
\* counted, or all pages but one.
THEOREM RecordsRetained ==
  ASSUME BootAssumptions
  PROVE  Spec => []RetainsLast
<1>1. TypeOK /\ KeptInv => RetainsLast
  BY PackedRetains DEF KeptInv
<1> QED BY <1>1, KeptInvariant, TypeCorrect, PTL

\* A reset that finds an EMPTY slot shows the host what it could read before:
\* FlashLog_Init finds read_start_slot again.
THEOREM ResetRecovers ==
  ASSUME BootAssumptions
  PROVE  Spec => RebootRecovers
<1>1. ASSUME TypeOK, KeptInv, Reset, \E p \in Page, s \in Slot : flash[p][s] = EMPTY
      PROVE  Download' = Download
  <2>1. header \in Modes /\ Boot(flash, torn, header) /\ header = overflow_mode
        /\ write_slot \in Slot
    BY <1>1 DEF TypeOK, KeptInv, Reset
  <2>2. /\ overflow_mode' = overflow_mode /\ flash' = flash
        /\ \A p, s : Position(flash, p, s) /\ p # NPages => read_pg' = 0
        /\ \A p \in Page, s \in Slot :
              header = "CIRCULAR" /\ RingAt(flash, p, s) => read_pg' = NextPage(p)
    BY <2>1, BootPacked
  <2>3. overflow_mode = "CIRCULAR" => read_pg' = read_pg
    <3>1. CASE OpenAt(flash, write_pg, write_slot) /\ read_pg = 0
      <4>1. Position(flash, write_pg, write_slot)
        BY <1>1, <3>1 DEF Position, TypeOK, AtEnd
      <4>2. write_pg # NPages
        BY <1>1, <3>1, SizeAssumption DEF OpenAt, Page
      <4> QED BY <2>2, <3>1, <4>1, <4>2
    <3>2. CASE /\ overflow_mode = "CIRCULAR" /\ RingAt(flash, TargetPage, write_slot)
               /\ read_pg = NextPage(TargetPage)
      <4>1. TargetPage \in Page
        BY <1>1, <3>2, TargetIsPage DEF StopsHere
      <4> QED BY <2>1, <2>2, <3>2, <4>1
    <3>3. ~AllFull(flash)
      BY <1>1 DEF AllFull
    <3> QED BY <1>1, <3>1, <3>2, <3>3 DEF KeptInv, Packed
  <2>4. ReadBase' = ReadBase
    BY <2>2, <2>3 DEF ReadBase
  <2> QED BY <2>2, <2>4 DEF Download, ReadRecord
<1> QED BY <1>1, KeptInvariant, TypeCorrect, PTL DEF RebootRecovers

\* A log in STOP mode whose mode does not change never loses a record to a write: the
\* writer stands behind the last record and stops at the end of the pages.
THEOREM StopKeeps ==
  ASSUME BootAssumptions
  PROVE  Spec => StopKeepsRecords
<1>a. "torn" \notin Faults
  BY DEF BootAssumptions
<1>1. ASSUME TypeOK, KeptInv, overflow_mode = "STOP", WriteRecordFlash,
             NEW p \in Page, NEW s \in Slot, flash[p][s] # EMPTY
      PROVE  flash'[p][s] = flash[p][s]
  <2>1. CASE WriteFull \/ WriteEraseFails
    BY <2>1 DEF WriteFull, WriteEraseFails, store
  <2>2. CASE ~StopsHere
    <3>1. FlashErased = flash
      BY <1>1, <2>2, ErasedPacked DEF KeptInv, FlashErased
    <3>2. CASE WriteProgrammed
      <4>1. /\ flash[TargetPage][write_slot] = EMPTY
            /\ flash' = [flash EXCEPT ![TargetPage][write_slot] = serial]
        BY <3>1, <3>2 DEF WriteProgrammed
      <4> QED BY <1>1, <4>1 DEF TypeOK
    <3>3. CASE WriteProgramFails
      BY <1>a, <3>1, <3>3 DEF WriteProgramFails
    <3>4. CASE WriteFull \/ WriteEraseFails
      BY <2>1, <3>4
    <3> QED BY <1>1, <3>2, <3>3, <3>4 DEF WriteRecordFlash
  <2>3. CASE StopsHere
    BY <1>1, <2>1, <2>3 DEF WriteRecordFlash, WriteProgrammed, WriteProgramFails
  <2> QED BY <2>2, <2>3
<1>2. ASSUME TypeOK, KeptInv, overflow_mode = "STOP", Task \/ WriteMark \/ FlushRecord
      PROVE  \A p \in Page, s \in Slot :
                flash[p][s] # EMPTY /\ <<p, s>> \notin torn => flash'[p][s] = flash[p][s]
  <2>1. WriteRecordFlash \/ UNCHANGED flash
    BY <1>2 DEF Task, WriteMark, FlushRecord, WriteRecord, store
  <2> QED BY <1>1, <1>2, <2>1
<1> QED BY <1>2, KeptInvariant, TypeCorrect, PTL DEF StopKeepsRecords
=============================================================================
