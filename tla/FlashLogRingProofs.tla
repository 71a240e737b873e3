------------------------- MODULE FlashLogRingProofs -------------------------
(* Why a circular log that is not reset is read oldest record first, and   *)
(* is, as a download gives it, the log that RingLog promises.              *)
EXTENDS FlashLogProofs, Integers, SequenceTheorems

\* The device is circular and stays so, is not reset, and no operation fails
\* half-way.
RingAssumptions ==
  /\ InitModes \subseteq {"CIRCULAR"} /\ NewModes \subseteq {"CIRCULAR"}
  /\ MaxBoots = 0
  /\ "torn" \notin Faults /\ "clear_erase" \notin Faults

FullPage(p)  == \A s \in Slot : flash[p][s] # EMPTY
BlankPage(p) == \A s \in Slot : flash[p][s] = EMPTY

\* The ring was never closed: full pages, the writer's, blank pages.
Open ==
  /\ read_pg = 0
  /\ \A p \in Page : p < TargetPage => FullPage(p)
  /\ \A p \in Page : p > TargetPage => BlankPage(p)
  /\ write_slot = 0 => BlankPage(TargetPage)

\* The writer is on the page erased last, the oldest is the one after it.
Closed ==
  /\ read_pg = NextPage(TargetPage)
  /\ \A p \in Page : p # TargetPage => FullPage(p)
  /\ write_slot = 0 => BlankPage(TargetPage)

\* No EMPTY slot is left; the next write erases the oldest page.
Boundary ==
  /\ write_slot = 0
  /\ read_pg = TargetPage
  /\ \A p \in Page : FullPage(p)

\* Serial numbers grow along the ring and stay below the next one.
Grows == \A p, q \in Page, s, t \in Slot :
  flash[p][s] # EMPTY /\ flash[q][t] # EMPTY /\ Earlier(p, s, q, t) => flash[p][s] < flash[q][t]
Below == \A p \in Page, s \in Slot : flash[p][s] < serial

RingInv ==
  /\ overflow_mode = "CIRCULAR" /\ torn = {}
  /\ Open \/ Closed \/ Boundary
  /\ Grows /\ Below

\* Shape and order give the order a reader sees.
LEMMA RingInvOrder ==
  ASSUME TypeOK, WriterInv, RingInv
  PROVE  RingInOrder
<1> SUFFICES ASSUME NEW p \in Page, NEW q \in Page, NEW s \in Slot, NEW t \in Slot,
                    Earlier(p, s, q, t), flash[q][t] # EMPTY
             PROVE  flash[p][s] # EMPTY /\ flash[p][s] < flash[q][t]
  BY DEF RingInOrder
<1>1. SUFFICES flash[p][s] # EMPTY
  BY DEF RingInv, Grows
<1>2. TargetPage \in Page /\ write_slot \in Slot /\ read_pg \in Page /\ ~StopsHere
  <2>1. ~StopsHere
    BY DEF RingInv, StopsHere
  <2> QED BY <2>1, TargetIsPage DEF TypeOK
<1>3. CASE p = q
  <2>1. RingPos(p) \in Int /\ RingPos(q) = RingPos(p)
    BY <1>2, <1>3, SizeAssumption DEF RingPos, Page
  <2>2. s < t
    BY <2>1 DEF Earlier
  <2> QED BY <1>3, <2>2 DEF WriterInv, PagePrefix, PrefixOf
<1>4. CASE p # q
  <2>1. RingPos(p) < RingPos(q)
    BY <1>4 DEF Earlier
  <2>2. CASE Open
    <3>1. p < q
      BY <1>2, <2>1, <2>2, SizeAssumption DEF Open, RingPos, Page
    <3>2. q <= TargetPage
      BY <1>2, <2>2 DEF Open, BlankPage, Page
    <3>3. p < TargetPage
      BY <1>2, <3>1, <3>2 DEF Page
    <3> QED BY <2>2, <3>3 DEF Open, FullPage
  <2>3. CASE Closed
    <3>1. p # TargetPage
      BY <1>2, <2>1, <2>3, SizeAssumption DEF Closed, RingPos, NextPage, Page
    <3> QED BY <2>3, <3>1 DEF Closed, FullPage
  <2>4. CASE Boundary
    BY <2>4 DEF Boundary, FullPage
  <2> QED BY <2>2, <2>3, <2>4 DEF RingInv
<1> QED BY <1>3, <1>4

\* After the erase the write may need, the ring is open or closed on the
\* target page, and still in order.
LEMMA ErasedRing ==
  ASSUME TypeOK, WriterInv, RingInv
  PROVE  /\ TargetPage \in Page /\ ~StopsHere
         /\ TornErased = {}
         /\ \A p \in Page, s \in Slot : FlashErased[p][s] = EMPTY \/ FlashErased[p][s] = flash[p][s]
         /\ \/ /\ ReadErased = 0
               /\ \A p \in Page : p < TargetPage => \A s \in Slot : FlashErased[p][s] # EMPTY
               /\ \A p \in Page : p > TargetPage => \A s \in Slot : FlashErased[p][s] = EMPTY
               /\ read_pg = ReadErased
            \/ /\ ReadErased = NextPage(TargetPage)
               /\ \A p \in Page : p # TargetPage => \A s \in Slot : FlashErased[p][s] # EMPTY
               /\ read_pg = ReadErased \/ (read_pg = TargetPage /\ NeedsErase)
         /\ write_slot = 0 => \A s \in Slot : FlashErased[TargetPage][s] = EMPTY
<1>1. TargetPage \in Page /\ write_slot \in Slot /\ ~StopsHere /\ flash \in [Page -> [Slot -> Nat]]
  <2>1. ~StopsHere
    BY DEF RingInv, StopsHere
  <2> QED BY <2>1, TargetIsPage DEF TypeOK
<1>2. CASE NeedsErase
  <2>1. Boundary
    <3>1. ~BlankPage(TargetPage) /\ write_slot = 0
      BY <1>2, PageArith DEF NeedsErase, BlankPage
    <3> QED BY <3>1 DEF RingInv, Open, Closed
  <2>2. /\ FlashErased = [flash EXCEPT ![TargetPage] = Blank]
        /\ ReadErased = NextPage(TargetPage) /\ TornErased = {}
    BY <1>2 DEF FlashErased, ReadErased, TornErased, RingInv
  <2>3. /\ \A s \in Slot : FlashErased[TargetPage][s] = EMPTY
        /\ \A p \in Page : p # TargetPage => FlashErased[p] = flash[p]
    BY <1>1, <2>2 DEF Blank
  <2>4. \A p \in Page, s \in Slot : FlashErased[p][s] = EMPTY \/ FlashErased[p][s] = flash[p][s]
    BY <2>3
  <2> QED BY <1>1, <1>2, <2>1, <2>2, <2>3, <2>4 DEF Boundary, FullPage
<1>3. CASE ~NeedsErase
  <2>1. FlashErased = flash /\ ReadErased = read_pg /\ TornErased = {}
    BY <1>3 DEF FlashErased, ReadErased, TornErased, RingInv
  <2>2. ~Boundary
    BY <1>1, <1>3, PageArith DEF NeedsErase, Boundary, FullPage
  <2> QED BY <1>1, <2>1, <2>2 DEF RingInv, Open, Closed, FullPage, BlankPage
<1> QED BY <1>2, <1>3

\* Moving the start of the ring past its first page keeps the order of the
\* other pages.
LEMMA EarlierMoves ==
  ASSUME TypeOK, NEW a \in Page, read_pg = a, read_pg' = NextPage(a),
         NEW p \in Page, NEW q \in Page, NEW s \in Slot, NEW t \in Slot,
         p # a, q # a, Earlier(p, s, q, t)'
  PROVE  Earlier(p, s, q, t)
<1>1. CASE p = q /\ s < t
  BY <1>1 DEF Earlier
<1>2. CASE RingPos(p)' < RingPos(q)'
  BY <1>2, SizeAssumption DEF Earlier, RingPos, NextPage, Page
<1> QED BY <1>1, <1>2 DEF Earlier

\* Erasing keeps the order.
LEMMA ErasedGrows ==
  ASSUME TypeOK, WriterInv, RingInv, read_pg' = ReadErased,
         NEW p \in Page, NEW q \in Page, NEW s \in Slot, NEW t \in Slot,
         FlashErased[p][s] # EMPTY, FlashErased[q][t] # EMPTY, Earlier(p, s, q, t)'
  PROVE  FlashErased[p][s] < FlashErased[q][t]
<1>1. FlashErased[p][s] = flash[p][s] /\ FlashErased[q][t] = flash[q][t]
  BY ErasedRing
<1>2. Earlier(p, s, q, t)
  <2>1. CASE read_pg = ReadErased
    BY <2>1 DEF Earlier, RingPos
  <2>2. CASE read_pg = TargetPage /\ NeedsErase
    <3>1. TargetPage \in Page /\ ReadErased = NextPage(TargetPage)
      BY <2>2, ErasedRing DEF ReadErased, RingInv
    <3>2. p # TargetPage /\ q # TargetPage
      BY <2>2, ErasedRing DEF NeedsErase
    <3> QED BY <2>2, <3>1, <3>2, EarlierMoves
  <2> QED BY <2>1, <2>2, ErasedRing
<1> QED BY <1>1, <1>2 DEF RingInv, Grows

LEMMA ProgrammedRing ==
  ASSUME TypeOK, WriterInv, RingInv, WriteProgrammed, UNCHANGED overflow_mode
  PROVE  RingInv'
<1>1. /\ TargetPage \in Page /\ write_slot \in Slot /\ serial \in Nat \ {0}
      /\ FlashErased \in [Page -> [Slot -> Nat]]
  BY ErasedRing, ErasedType DEF TypeOK
<1>2. /\ flash'[TargetPage][write_slot] = serial
      /\ \A p \in Page, s \in Slot : p # TargetPage \/ s # write_slot => flash'[p][s] = FlashErased[p][s]
      /\ read_pg' = ReadErased /\ serial' = serial + 1
  BY <1>1 DEF WriteProgrammed
<1>3. overflow_mode' = "CIRCULAR" /\ torn' = {}
  BY ErasedRing DEF WriteProgrammed, RingInv
<1>4. \A p \in Page, s \in Slot : flash'[p][s] \in Nat /\ FlashErased[p][s] < serial
  BY <1>1, <1>2, ErasedRing DEF RingInv, Below, TypeOK, EMPTY
<1>5. Below'
  BY <1>1, <1>2, <1>4 DEF Below
<1>6. Grows'
  <2>1. SUFFICES ASSUME NEW p \in Page, NEW q \in Page, NEW s \in Slot, NEW t \in Slot,
                        flash'[p][s] # EMPTY, flash'[q][t] # EMPTY, Earlier(p, s, q, t)'
                 PROVE  flash'[p][s] < flash'[q][t]
    BY DEF Grows
  <2>2. CASE q = TargetPage /\ t = write_slot
    <3>1. p # q \/ s # t
      <4>1. ReadErased \in Int /\ p \in Int /\ NPages \in Int /\ s \in Int
        BY ErasedType, SizeAssumption DEF Page, Slot
      <4>2. RingPos(p)' \in Int
        BY <1>2, <4>1 DEF RingPos
      <4>3. ASSUME p = q, s = t PROVE FALSE
        BY <2>1, <4>1, <4>2, <4>3 DEF Earlier
      <4> QED BY <4>3
    <3> QED BY <1>1, <1>2, <1>4, <2>2, <3>1
  <2>3. CASE ~(q = TargetPage /\ t = write_slot) /\ ~(p = TargetPage /\ s = write_slot)
    BY <1>2, <2>1, <2>3, ErasedGrows
  <2>4. CASE ~(q = TargetPage /\ t = write_slot) /\ p = TargetPage /\ s = write_slot
    <3>1. FlashErased[q][t] # EMPTY
      BY <1>2, <2>1, <2>4
    <3>2. q # TargetPage
      <4>1. \A u \in Slot : u > write_slot => FlashErased[TargetPage][u] = EMPTY
        BY TargetSlots, ErasedRing
      <4>2. ASSUME q = TargetPage PROVE t > write_slot
        <5>1. RingPos(q)' \in Int /\ p = q
          BY <1>2, <2>4, <4>2, ErasedRing, ErasedType, SizeAssumption DEF RingPos, Page
        <5> QED BY <2>1, <2>4, <5>1 DEF Earlier
      <4> QED BY <3>1, <4>1, <4>2
    <3>3. RingPos(p)' < RingPos(q)'
      BY <2>1, <2>4, <3>2 DEF Earlier
    <3>4. CASE /\ ReadErased = 0
               /\ \A a \in Page : a > TargetPage => \A u \in Slot : FlashErased[a][u] = EMPTY
      BY <1>1, <1>2, <2>4, <3>1, <3>2, <3>3, <3>4 DEF RingPos, Page
    <3>5. CASE ReadErased = NextPage(TargetPage)
      BY <1>1, <1>2, <2>4, <3>2, <3>3, <3>5, SizeAssumption DEF RingPos, NextPage, Page
    <3> QED BY <3>4, <3>5, ErasedRing
  <2> QED BY <2>2, <2>3, <2>4
<1>7. (Open \/ Closed \/ Boundary)'
  <2>1. \A s \in Slot : s < write_slot => FlashErased[TargetPage][s] # EMPTY
    BY TargetSlots, ErasedRing
  <2>2. \A p \in Page, s \in Slot : FlashErased[p][s] # EMPTY => flash'[p][s] # EMPTY
    BY <1>1, <1>2, <1>4 DEF EMPTY
  <2>3. \A p \in Page : p # TargetPage => \A s \in Slot : flash'[p][s] = FlashErased[p][s]
    BY <1>2
  <2>4. CASE write_slot + 1 # PageSlots
    <3>1. write_pg' = TargetPage /\ write_slot' = write_slot + 1 /\ write_slot' # 0
      BY <1>1, <2>4 DEF WriteProgrammed, Slot
    <3>2. TargetPage' = TargetPage
      <4>1. TargetPage # NPages
        BY <1>1, SizeAssumption DEF Page
      <4>2. write_pg' # NPages
        BY <3>1, <4>1
      <4> QED BY <3>1, <4>2 DEF TargetPage, AtEnd
    <3>3. CASE /\ ReadErased = 0
               /\ \A p \in Page : p < TargetPage => \A s \in Slot : FlashErased[p][s] # EMPTY
               /\ \A p \in Page : p > TargetPage => \A s \in Slot : FlashErased[p][s] = EMPTY
      <4>1. \A p \in Page : p > TargetPage => p # TargetPage
        BY <1>1 DEF Page
      <4>2. Open'
        BY <1>2, <2>2, <2>3, <3>1, <3>2, <3>3, <4>1 DEF Open, FullPage, BlankPage
      <4> QED BY <4>2
    <3>4. CASE /\ ReadErased = NextPage(TargetPage)
               /\ \A p \in Page : p # TargetPage => \A s \in Slot : FlashErased[p][s] # EMPTY
      <4>1. NextPage(TargetPage)' = NextPage(TargetPage)
        BY <3>2 DEF NextPage
      <4>2. Closed'
        BY <1>2, <2>2, <3>1, <3>2, <3>4, <4>1 DEF Closed, FullPage
      <4> QED BY <4>2
    <3> QED BY <3>3, <3>4, ErasedRing
  <2>5. CASE write_slot + 1 = PageSlots
    <3>1. write_pg' = TargetPage + 1 /\ write_slot' = 0
      BY <2>5 DEF WriteProgrammed
    <3>2. TargetPage' = NextPage(TargetPage)
      BY <1>1, <3>1, SizeAssumption DEF TargetPage, AtEnd, NextPage, Page
    <3>3. \A s \in Slot : flash'[TargetPage][s] # EMPTY
      <4>1. \A s \in Slot : s < write_slot \/ s = write_slot
        BY <1>1, <2>5, SizeAssumption DEF Slot
      <4> QED BY <1>1, <1>2, <2>1, <2>2, <4>1 DEF EMPTY
    <3>4. CASE /\ ReadErased = 0
               /\ \A p \in Page : p < TargetPage => \A s \in Slot : FlashErased[p][s] # EMPTY
               /\ \A p \in Page : p > TargetPage => \A s \in Slot : FlashErased[p][s] = EMPTY
      <4>1. \A p \in Page : p < TargetPage \/ p = TargetPage \/ p > TargetPage
        BY <1>1 DEF Page
      <4>2. CASE TargetPage + 1 = NPages
        <5>1. TargetPage' = 0
          BY <3>2, <4>2 DEF NextPage
        <5>2. \A p \in Page : p < TargetPage \/ p = TargetPage
          BY <1>1, <4>2, SizeAssumption DEF Page
        <5>3. Boundary'
          BY <1>2, <2>2, <3>1, <3>3, <3>4, <5>1, <5>2 DEF Boundary, FullPage
        <5> QED BY <5>3
      <4>3. CASE TargetPage + 1 # NPages
        <5>1. TargetPage' = TargetPage + 1 /\ TargetPage' \in Page
          BY <1>1, <3>2, <4>3, PageArith DEF NextPage
        <5>2. \A p \in Page : /\ p < TargetPage' => p < TargetPage \/ p = TargetPage
                              /\ p > TargetPage' => p > TargetPage /\ p # TargetPage
          BY <1>1, <5>1 DEF Page
        <5>3. TargetPage' > TargetPage /\ TargetPage' # TargetPage
          BY <1>1, <5>1 DEF Page
        <5>4. BlankPage(TargetPage)'
          BY <2>3, <3>4, <5>1, <5>3 DEF BlankPage
        <5>5. Open'
          BY <1>2, <2>2, <2>3, <3>1, <3>3, <3>4, <5>2, <5>4 DEF Open, FullPage, BlankPage
        <5> QED BY <5>5
      <4> QED BY <4>2, <4>3
    <3>5. CASE /\ ReadErased = NextPage(TargetPage)
               /\ \A p \in Page : p # TargetPage => \A s \in Slot : FlashErased[p][s] # EMPTY
      BY <1>2, <2>2, <3>1, <3>2, <3>3, <3>5 DEF Boundary, FullPage
    <3> QED BY <3>4, <3>5, ErasedRing
  <2> QED BY <2>4, <2>5
<1> QED BY <1>3, <1>5, <1>6, <1>7 DEF RingInv

LEMMA ProgramFailsRing ==
  ASSUME TypeOK, WriterInv, RingInv, WriteProgramFails, UNCHANGED overflow_mode, "torn" \notin Faults
  PROVE  RingInv'
<1>1. /\ flash' = FlashErased /\ torn' = TornErased /\ serial' = serial
      /\ read_pg' = ReadErased /\ write_pg' = TargetPage /\ write_slot' = write_slot
  BY DEF WriteProgramFails
<1>2. TargetPage' = TargetPage /\ TargetPage \in Page
  BY <1>1, ErasedRing, SizeAssumption DEF TargetPage, AtEnd, Page
<1>3. overflow_mode' = "CIRCULAR" /\ torn' = {}
  BY <1>1, ErasedRing DEF RingInv
<1>4. Below'
  BY <1>1, ErasedRing DEF RingInv, Below, TypeOK, EMPTY
<1>5. Grows'
  BY <1>1, ErasedGrows DEF Grows
<1>6. (Open \/ Closed)'
  <2>1. NextPage(TargetPage)' = NextPage(TargetPage)
    BY <1>2 DEF NextPage
  <2> QED BY <1>1, <1>2, <2>1, ErasedRing DEF Open, Closed, FullPage, BlankPage
<1> QED BY <1>3, <1>4, <1>5, <1>6 DEF RingInv

LEMMA WriteRecordFlashRing ==
  ASSUME TypeOK, WriterInv, RingInv, WriteRecordFlash, UNCHANGED overflow_mode, "torn" \notin Faults
  PROVE  RingInv'
<1>1. CASE WriteFull
  BY <1>1, ErasedRing DEF WriteFull
<1>2. CASE WriteEraseFails
  <2>1. /\ UNCHANGED <<flash, torn, write_slot, read_pg, serial, overflow_mode>>
        /\ write_pg' = TargetPage
    BY <1>2 DEF WriteEraseFails, store
  <2>2. TargetPage' = TargetPage /\ NextPage(TargetPage)' = NextPage(TargetPage)
    BY <2>1, ErasedRing, SizeAssumption DEF TargetPage, AtEnd, Page, NextPage
  <2>3. Open' = Open /\ Closed' = Closed /\ Boundary' = Boundary
    BY <2>1, <2>2 DEF Open, Closed, Boundary, FullPage, BlankPage
  <2>4. Grows' /\ Below'
    BY <2>1 DEF RingInv, Grows, Below, Earlier, RingPos
  <2> QED BY <2>1, <2>3, <2>4 DEF RingInv
<1>3. CASE WriteProgrammed
  BY <1>3, ProgrammedRing
<1>4. CASE WriteProgramFails
  BY <1>4, ProgramFailsRing
<1> QED BY <1>1, <1>2, <1>3, <1>4 DEF WriteRecordFlash

LEMMA ClearRing ==
  ASSUME TypeOK, RingInv, Clear, UNCHANGED <<overflow_mode, serial>>, "clear_erase" \notin Faults
  PROVE  RingInv'
<1>1. /\ flash' = FlashCleared(NPages) /\ torn' = TornCleared(NPages)
      /\ write_pg' = 0 /\ write_slot' = 0 /\ read_pg' = 0
  BY DEF Clear
<1>2. \A p \in Page, s \in Slot : flash'[p][s] = EMPTY
  BY <1>1, SizeAssumption DEF FlashCleared, Page, Blank
<1>3. TargetPage' = 0 /\ 0 \in Page /\ \A p \in Page : ~(p < 0)
  BY <1>1, SizeAssumption DEF TargetPage, AtEnd, Page
<1>4. Open'
  BY <1>1, <1>2, <1>3 DEF Open, FullPage, BlankPage
<1>5. Grows' /\ Below'
  BY <1>2 DEF Grows, Below, TypeOK, EMPTY
<1>6. torn' = {}
  BY <1>1 DEF RingInv, TornCleared
<1> QED BY <1>4, <1>5, <1>6 DEF RingInv

\* The shape and the order last.
LEMMA RingInvariant ==
  ASSUME RingAssumptions
  PROVE  Spec => [](TypeOK /\ WriterInv /\ RingInv)
<1>a. /\ InitModes \subseteq {"CIRCULAR"} /\ NewModes \subseteq {"CIRCULAR"} /\ MaxBoots = 0
      /\ "torn" \notin Faults /\ "clear_erase" \notin Faults
  BY DEF RingAssumptions
<1>1. Init => RingInv
  <2> SUFFICES ASSUME Init PROVE RingInv
    OBVIOUS
  <2>1. \A p \in Page, s \in Slot : flash[p][s] = EMPTY
    BY DEF Init, Blank
  <2>2. TargetPage = 0 /\ 0 \in Page /\ \A p \in Page : ~(p < 0)
    BY SizeAssumption DEF Init, TargetPage, AtEnd, Page
  <2>3. Open
    BY <2>1, <2>2 DEF Init, Open, FullPage, BlankPage
  <2>4. Grows /\ Below
    BY <2>1 DEF Init, Grows, Below, EMPTY
  <2> QED BY <1>a, <2>3, <2>4 DEF Init, RingInv
<1>2. TypeOK /\ WriterInv /\ RingInv /\ [Next]_vars => RingInv'
  <2> SUFFICES ASSUME TypeOK, WriterInv, RingInv, [Next]_vars PROVE RingInv'
    OBVIOUS
  <2>1. ASSUME UNCHANGED <<flash, torn, write_pg, write_slot, read_pg, serial, overflow_mode>>
        PROVE  RingInv'
    <3>1. TargetPage' = TargetPage /\ NextPage(TargetPage)' = NextPage(TargetPage)
      BY <2>1 DEF TargetPage, AtEnd, NextPage
    <3>2. Open' = Open /\ Closed' = Closed /\ Boundary' = Boundary
      BY <2>1, <3>1 DEF Open, Closed, Boundary, FullPage, BlankPage
    <3>3. Grows' /\ Below'
      BY <2>1 DEF RingInv, Grows, Below, Earlier, RingPos
    <3> QED BY <2>1, <3>2, <3>3 DEF RingInv
  <2>2. ASSUME WriteRecord, UNCHANGED overflow_mode PROVE RingInv'
    BY <1>a, <2>1, <2>2, WriteRecordFlashRing DEF WriteRecord, store, state
  <2>3. CASE Task
    BY <2>3, <2>2 DEF Task
  <2>4. CASE WriteMark
    BY <2>4, <2>2 DEF WriteMark
  <2>5. CASE FlushRecord
    BY <1>a, <2>5, WriteRecordFlashRing DEF FlushRecord
  <2>6. CASE FlushBegin \/ CommitConfig \/ Connect \/ Disconnect
    BY <2>1, <2>6 DEF FlushBegin, CommitConfig, Connect, Disconnect, store, state
  <2>7. CASE SetConfig
    <3>1. overflow_mode' = overflow_mode
      BY <1>a, <2>7 DEF SetConfig, RingInv
    <3> QED BY <2>1, <2>7, <3>1 DEF SetConfig, store, state
  <2>8. CASE DoErase
    BY <1>a, <2>8, ClearRing DEF DoErase
  <2>9. CASE OpLogErase
    BY <1>a, <2>1, <2>9, ClearRing DEF OpLogErase, store, state
  <2>10. CASE DeferredErase
    BY <1>a, <2>10, ClearRing DEF DeferredErase
  <2>11. ~(boots < MaxBoots)
    BY <1>a DEF TypeOK
  <2>12. CASE Reset \/ CutInClear \/ CutInHeader \/ CutInWrite
    BY <2>11, <2>12 DEF Reset, CutInClear, CutInHeader, CutInWrite, Boot
  <2>13. CASE UNCHANGED vars
    BY <2>1, <2>13 DEF vars, store, state
  <2> QED
    BY <2>3, <2>4, <2>5, <2>6, <2>7, <2>8, <2>9, <2>10, <2>12, <2>13 DEF Next
<1>3. Spec => []WriterInv
  BY <1>a, WriterInvariant
<1> QED BY <1>1, <1>2, <1>3, TypeCorrect, PTL DEF Spec

\* A circular log that is not reset, whatever erase and program operations fail,
\* holds its records in the order they were written from read_start_slot on,
\* with the EMPTY slots behind them: FlashLog_ReadRecord gives the oldest first.
THEOREM RingReadsInOrder ==
  ASSUME RingAssumptions
  PROVE  Spec => []RingInOrder
<1>1. TypeOK /\ WriterInv /\ RingInv => RingInOrder
  BY RingInvOrder
<1> QED BY <1>1, RingInvariant, PTL

-----------------------------------------------------------------------------
(* What FlashLog_ReadRecord computes.                                      *)

LEMMA MulLess ==
  ASSUME NEW m \in Nat, NEW j \in Nat, NEW k \in Nat, j < k
  PROVE  j * m + m <= k * m
<1>1. (k - j) * m = k * m - j * m
  OBVIOUS
<1>2. (k - j) * m >= m
  <2>1. k - j - 1 \in Nat /\ (k - j - 1) * m \in Nat
    OBVIOUS
  <2>2. (k - j - 1) * m = (k - j) * m - m
    OBVIOUS
  <2> QED BY <2>1, <2>2
<1> QED BY <1>1, <1>2
LEMMA DivDef ==
  ASSUME NEW m \in Nat, m >= 1, NEW n \in Nat
  PROVE n \div m \in Nat /\ n % m \in 0 .. m-1 /\ n = (n \div m)*m + (n % m)
OBVIOUS
LEMMA DivUnique ==
  ASSUME NEW m \in Nat, m >= 1, NEW q \in Nat, NEW r \in 0 .. m - 1
  PROVE  (q * m + r) \div m = q /\ (q * m + r) % m = r
OBVIOUS
LEMMA ModSmall ==
  ASSUME NEW m \in Nat, m >= 1, NEW r \in 0 .. m - 1
  PROVE  r % m = r /\ (r + m) % m = r
OBVIOUS

\* Record number k * PageSlots + s is in slot s of the k-th page.
Number(k, s) == k * PageSlots + s

LEMMA NumberOrder ==
  ASSUME NEW k \in Nat, NEW l \in Nat, NEW s \in Slot, NEW t \in Slot
  PROVE  /\ Number(k, s) \in Nat
         /\ Number(k, s) < Number(l, t) <=> k < l \/ (k = l /\ s < t)
         /\ k < NPages => Number(k, s) < NSlots
         /\ Number(NPages, 0) = NSlots
<1>1. k * PageSlots \in Nat /\ l * PageSlots \in Nat /\ PageSlots \in Nat /\ NPages \in Nat
      /\ NPages * PageSlots \in Nat
  BY SizeAssumption
<1>2. /\ k < l => k * PageSlots + PageSlots <= l * PageSlots
      /\ l < k => l * PageSlots + PageSlots <= k * PageSlots
      /\ k < NPages => k * PageSlots + PageSlots <= NPages * PageSlots
  BY <1>1, MulLess
<1> QED BY <1>1, <1>2 DEF Number, Slot, NSlots

LEMMA NumberOf ==
  ASSUME NEW i \in 0 .. NSlots - 1
  PROVE  \E k \in Page, s \in Slot : i = Number(k, s)
<1>1. PageSlots \in Nat /\ PageSlots >= 1 /\ NPages \in Nat /\ NSlots \in Int /\ i \in Nat
  BY SizeAssumption DEF NSlots
<1> DEFINE k == i \div PageSlots
           s == i % PageSlots
<1>2. k \in Nat /\ s \in Slot /\ i = k * PageSlots + s
  BY <1>1, DivDef DEF Slot
<1> HIDE DEF k, s
<1>3. k < NPages
  <2>1. SUFFICES ASSUME k >= NPages PROVE FALSE
    BY <1>1, <1>2
  <2>2. k * PageSlots >= NPages * PageSlots
    <3>1. k * PageSlots \in Int /\ NPages * PageSlots \in Int
      BY <1>1, <1>2
    <3>2. k = NPages \/ NPages < k
      BY <1>1, <1>2, <2>1
    <3> QED BY <1>1, <1>2, <3>1, <3>2, MulLess
  <2> QED BY <1>1, <1>2, <2>2 DEF NSlots, Slot
<1> QED BY <1>1, <1>2, <1>3 DEF Page, Number

\* The k-th page a reader visits when read_start_slot is on page base, and record i.
Around(base, k) == IF base + k < NPages THEN base + k ELSE base + k - NPages

At(f, base, i) == LET phys == (base * PageSlots + i) % NSlots
                  IN  f[phys \div PageSlots][phys % PageSlots]

LEMMA AtNumber ==
  ASSUME NEW f, NEW base \in Page, NEW k \in Page, NEW s \in Slot
  PROVE  Around(base, k) \in Page /\ At(f, base, Number(k, s)) = f[Around(base, k)][s]
<1> DEFINE p == Around(base, k)
           phys == (base * PageSlots + Number(k, s)) % NSlots
<1>1. PageSlots \in Nat /\ PageSlots >= 1 /\ NPages \in Nat /\ base \in Nat /\ k \in Nat /\ s \in Nat
      /\ base * PageSlots \in Nat /\ k * PageSlots \in Nat /\ NSlots \in Nat
  BY SizeAssumption DEF Page, Slot, NSlots
<1>2. p \in Page /\ p \in Nat
  BY <1>1 DEF Page, Around
<1>3. Number(p, s) \in 0 .. NSlots - 1 /\ NSlots >= 1
  BY <1>1, <1>2, NumberOrder DEF Page
<1>4. base * PageSlots + Number(k, s) = Number(base + k, s)
  BY <1>1 DEF Number
<1>5. phys = Number(p, s)
  <2>1. CASE base + k < NPages
    <3>1. Number(base + k, s) = Number(p, s)
      BY <2>1 DEF Around
    <3> QED BY <1>1, <1>3, <1>4, <3>1, ModSmall
  <2>2. CASE ~(base + k < NPages)
    <3>1. base + k = p + NPages
      BY <1>1, <2>2 DEF Around
    <3>2. Number(p + NPages, s) = Number(p, s) + NSlots
      <4>1. (p + NPages) * PageSlots = p * PageSlots + NPages * PageSlots /\ p * PageSlots \in Nat
        BY <1>1, <1>2
      <4> QED BY <1>1, <1>2, <4>1 DEF Number, NSlots
    <3> QED BY <1>1, <1>3, <1>4, <3>1, <3>2, ModSmall
  <2> QED BY <2>1, <2>2
<1>6. phys \div PageSlots = p /\ phys % PageSlots = s
  <2> HIDE DEF p, phys
  <2>1. phys = p * PageSlots + s /\ s \in 0 .. PageSlots - 1
    BY <1>5 DEF Number, Slot
  <2> QED BY <1>1, <1>2, <2>1, DivUnique
<1> QED BY <1>2, <1>6 DEF At

Entry(f, base, i) == IF i >= NSlots THEN EMPTY ELSE At(f, base, i)

\* Download, as a function of the pages and the page it starts on.
Reading(f, base) ==
  LET len == CHOOSE n \in 0 .. NSlots :
               Entry(f, base, n) = EMPTY /\ \A i \in 0 .. n - 1 : Entry(f, base, i) # EMPTY
  IN  [i \in 1 .. len |-> Entry(f, base, i - 1)]

LEMMA DownloadReads ==
  /\ Download = Reading(flash, ReadBase)
  /\ Download' = Reading(flash', ReadBase')
BY DEF Download, Reading, ReadRecord, Entry, At

\* From page base on the records are the slots before slot s of the k-th page.
Ends(f, base, k, s) ==
  /\ k \in 0 .. NPages /\ s \in Slot /\ (k = NPages => s = 0)
  /\ \A a \in Page, b \in Slot : f[Around(base, a)][b] # EMPTY <=> a < k \/ (a = k /\ b < s)

Contents(f, base, n) == [i \in 1 .. n |-> At(f, base, i - 1)]

LEMMA EndsAt ==
  ASSUME NEW f, NEW base \in Page, NEW k, NEW s, Ends(f, base, k, s)
  PROVE  /\ Number(k, s) \in 0 .. NSlots
         /\ \A i \in 0 .. NSlots - 1 : At(f, base, i) # EMPTY <=> i < Number(k, s)
<1>1. k \in Nat /\ s \in Slot /\ k <= NPages /\ (k = NPages => s = 0)
  BY SizeAssumption DEF Ends
<1>2. Number(k, s) \in Nat /\ NSlots \in Nat /\ Number(k, s) <= NSlots
  <2>1. Number(k, s) \in Nat /\ NSlots \in Nat
    BY <1>1, NumberOrder, SizeAssumption DEF NSlots
  <2>2. CASE k = NPages
    BY <1>1, <2>1, <2>2, NumberOrder
  <2>3. CASE k # NPages
    <3>1. k < NPages
      BY <1>1, <2>3, SizeAssumption
    <3>2. Number(k, s) < NSlots
      BY <1>1, <3>1, NumberOrder
    <3> QED BY <2>1, <3>2
  <2> QED BY <2>2, <2>3
<1>3. ASSUME NEW i \in 0 .. NSlots - 1 PROVE At(f, base, i) # EMPTY <=> i < Number(k, s)
  <2>1. PICK a \in Page, b \in Slot : i = Number(a, b)
    BY NumberOf
  <2>2. At(f, base, i) = f[Around(base, a)][b]
    BY <2>1, AtNumber
  <2>3. i < Number(k, s) <=> a < k \/ (a = k /\ b < s)
    <3>1. a \in Nat
      BY DEF Page
    <3> QED BY <1>1, <2>1, <3>1, NumberOrder
  <2> QED BY <2>2, <2>3 DEF Ends
<1> QED BY <1>2, <1>3

LEMMA ReadingIs ==
  ASSUME NEW f, NEW base \in Page, NEW k, NEW s, Ends(f, base, k, s)
  PROVE  Reading(f, base) = Contents(f, base, Number(k, s))
<1> DEFINE n == Number(k, s)
           Len0(m) == Entry(f, base, m) = EMPTY /\ \A i \in 0 .. m - 1 : Entry(f, base, i) # EMPTY
           len == CHOOSE m \in 0 .. NSlots : Len0(m)
<1>1. n \in 0 .. NSlots /\ NSlots \in Nat
  BY EndsAt, SizeAssumption DEF NSlots
<1>2. \A i \in 0 .. NSlots - 1 : Entry(f, base, i) = At(f, base, i)
  BY <1>1 DEF Entry
<1>3. \A i \in 0 .. NSlots - 1 : Entry(f, base, i) # EMPTY <=> i < n
  BY <1>2, EndsAt
<1>4. Entry(f, base, NSlots) = EMPTY
  BY <1>1 DEF Entry
<1> HIDE DEF n
<1>5. Len0(n)
  BY <1>1, <1>3, <1>4
<1>6. \A m \in 0 .. NSlots : Len0(m) => m = n
  <2>1. SUFFICES ASSUME NEW m \in 0 .. NSlots, Len0(m) PROVE m = n
    OBVIOUS
  <2>2. ~(m < n)
    BY <1>1, <1>3, <2>1
  <2>3. ~(n < m)
    BY <1>1, <1>3, <1>4, <1>5, <2>1
  <2> QED BY <1>1, <2>2, <2>3
<1>7. len \in 0 .. NSlots /\ Len0(len)
  BY <1>1, <1>5
<1>8. len = n
  BY <1>6, <1>7
<1>9. Reading(f, base) = [i \in 1 .. len |-> Entry(f, base, i - 1)]
  BY DEF Reading
<1>10. \A i \in 1 .. n : Entry(f, base, i - 1) = At(f, base, i - 1)
  BY <1>1, <1>2
<1> QED BY <1>8, <1>9, <1>10 DEF Contents, n

\* The pages in a reader's order.
LEMMA AroundArith ==
  ASSUME NEW base \in Page
  PROVE  /\ \A a \in Page : Around(base, a) \in Page
         /\ \A p \in Page : \E a \in Page : Around(base, a) = p
         /\ \A a, b \in Page : Around(base, a) = Around(base, b) => a = b
         /\ \A a \in Page : Around(0, a) = a
         /\ \A a \in Page : Around(NextPage(base), a) = base <=> a = NPages - 1
         /\ \A a \in Page : a # NPages - 1 =>
               a + 1 \in Page /\ Around(NextPage(base), a) = Around(base, a + 1)
<1>1. NPages \in Nat /\ NPages >= 2 /\ base \in 0 .. NPages - 1
  BY SizeAssumption DEF Page
<1>2. ASSUME NEW p \in Page PROVE \E a \in Page : Around(base, a) = p
  <2>1. CASE p >= base
    <3>1. p - base \in Page /\ Around(base, p - base) = p
      BY <1>1, <1>2, <2>1 DEF Page, Around
    <3> QED BY <3>1
  <2>2. CASE p < base
    <3>1. p - base + NPages \in Page /\ Around(base, p - base + NPages) = p
      BY <1>1, <1>2, <2>2 DEF Page, Around
    <3> QED BY <3>1
  <2> QED BY <1>1, <1>2, <2>1, <2>2 DEF Page
<1>3. \A a \in Page : Around(base, a) \in Page /\ Around(0, a) = a
  BY <1>1 DEF Page, Around
<1>4. \A a, b \in Page : Around(base, a) = Around(base, b) => a = b
  BY <1>1 DEF Page, Around
<1>5. \A a \in Page : Around(NextPage(base), a) = base <=> a = NPages - 1
  BY <1>1 DEF Page, Around, NextPage
<1>6. \A a \in Page : a # NPages - 1 =>
               a + 1 \in Page /\ Around(NextPage(base), a) = Around(base, a + 1)
  BY <1>1 DEF Page, Around, NextPage
<1> QED BY <1>2, <1>3, <1>4, <1>5, <1>6

\* Once the page is erased, the next slot to be written is where the reader ends.
LEMMA ErasedEnds ==
  ASSUME TypeOK, WriterInv, RingInv
  PROVE  \E k \in Page : /\ Ends(FlashErased, ReadErased, k, write_slot)
                         /\ Around(ReadErased, k) = TargetPage
                         /\ NeedsErase => k = NPages - 1
<1>1. /\ TargetPage \in Page /\ write_slot \in Slot /\ ~StopsHere /\ ReadErased \in Page
      /\ NPages \in Nat /\ NPages >= 2
  BY ErasedRing, ErasedType, SizeAssumption DEF TypeOK
<1>2. \A s \in Slot : FlashErased[TargetPage][s] # EMPTY <=> s < write_slot
  <2>1. /\ \A s \in Slot : s < write_slot => FlashErased[TargetPage][s] # EMPTY
        /\ \A s \in Slot : s > write_slot => FlashErased[TargetPage][s] = EMPTY
        /\ FlashErased[TargetPage][write_slot] = EMPTY
    BY <1>1, TargetSlots, ErasedRing
  <2> QED BY <1>1, <2>1 DEF Slot
<1>3. CASE /\ ReadErased = 0 /\ read_pg = ReadErased
           /\ \A p \in Page : p < TargetPage => \A s \in Slot : FlashErased[p][s] # EMPTY
           /\ \A p \in Page : p > TargetPage => \A s \in Slot : FlashErased[p][s] = EMPTY
  <2>1. \A a \in Page : Around(ReadErased, a) = a
    BY <1>1, <1>3, AroundArith
  <2>2. \A a \in Page : a < TargetPage \/ a = TargetPage \/ a > TargetPage
    BY <1>1 DEF Page
  <2>3. \A a \in Page : a > TargetPage => ~(a < TargetPage) /\ a # TargetPage
    BY <1>1 DEF Page
  <2>4. \A a \in Page, b \in Slot :
          FlashErased[a][b] # EMPTY <=> a < TargetPage \/ (a = TargetPage /\ b < write_slot)
    BY <1>2, <1>3, <2>2, <2>3
  <2>5. Ends(FlashErased, ReadErased, TargetPage, write_slot)
    BY <1>1, <2>1, <2>4 DEF Ends, Page
  <2>6. NeedsErase => TargetPage = NPages - 1
    <3>1. SUFFICES ASSUME NeedsErase PROVE FALSE
      OBVIOUS
    <3>2. ReadErased = NextPage(TargetPage)
      BY <3>1 DEF ReadErased, RingInv
    <3>3. flash[TargetPage][0] # EMPTY /\ write_slot = 0 /\ 0 \in Slot
      BY <3>1, PageArith DEF NeedsErase
    <3>4. Boundary
      BY <3>3 DEF RingInv, Open, Closed, BlankPage
    <3>5. NextPage(TargetPage) # TargetPage
      BY <1>1, PageArith
    <3> QED BY <1>3, <3>2, <3>4, <3>5 DEF Boundary
  <2> QED BY <1>1, <2>1, <2>5, <2>6
<1>4. CASE /\ ReadErased = NextPage(TargetPage)
           /\ \A p \in Page : p # TargetPage => \A s \in Slot : FlashErased[p][s] # EMPTY
  <2> DEFINE k == NPages - 1
  <2>1. k \in Page /\ k \in 0 .. NPages /\ k # NPages
    BY <1>1 DEF Page
  <2>2. \A a \in Page : /\ Around(ReadErased, a) \in Page
                        /\ Around(ReadErased, a) = TargetPage <=> a = k
                        /\ a < k <=> a # k
    <3>1. \A a \in Page : a < k <=> a # k
      BY <1>1 DEF Page
    <3> QED BY <1>1, <1>4, <3>1, AroundArith
  <2> HIDE DEF k
  <2>3. \A a \in Page, b \in Slot :
          FlashErased[Around(ReadErased, a)][b] # EMPTY <=> a < k \/ (a = k /\ b < write_slot)
    BY <1>2, <1>4, <2>2
  <2>4. Ends(FlashErased, ReadErased, k, write_slot) /\ Around(ReadErased, k) = TargetPage
    BY <1>1, <2>1, <2>2, <2>3 DEF Ends
  <2> QED BY <2>1, <2>4 DEF k
<1> QED BY <1>3, <1>4, ErasedRing

\* Where a reader ends: at the next slot, or, when the next write erases, after all.
LEMMA RingEnds ==
  ASSUME TypeOK, WriterInv, RingInv
  PROVE  /\ read_pg \in Page /\ ReadBase = read_pg
         /\ \E k, s : Ends(flash, read_pg, k, s)
         /\ NeedsErase => Ends(flash, read_pg, NPages, 0) /\ read_pg = TargetPage
                          /\ ReadErased = NextPage(read_pg)
<1>1. read_pg \in Page /\ ReadBase = read_pg
  BY DEF TypeOK, ReadBase, RingInv
<1>2. CASE ~NeedsErase
  <2>1. FlashErased = flash /\ ReadErased = read_pg
    BY <1>2 DEF FlashErased, ReadErased
  <2> QED BY <1>1, <1>2, <2>1, ErasedEnds
<1>3. CASE NeedsErase
  <2>1. flash[TargetPage][0] # EMPTY /\ write_slot = 0 /\ 0 \in Slot
    BY <1>3, PageArith DEF NeedsErase
  <2>2. TargetPage \in Page
    BY ErasedRing
  <2>3. Boundary
    BY <2>1, <2>2 DEF RingInv, Open, Closed, BlankPage
  <2>4. ReadErased = NextPage(read_pg)
    BY <1>3, <2>3 DEF ReadErased, RingInv, Boundary
  <2>5. \A a \in Page : a < NPages
    BY SizeAssumption DEF Page
  <2>6. NPages \in 0 .. NPages
    BY SizeAssumption
  <2>7. Ends(flash, read_pg, NPages, 0)
    BY <1>1, <2>1, <2>3, <2>5, <2>6, AroundArith DEF Ends, Boundary, FullPage
  <2> QED BY <1>1, <2>3, <2>4, <2>7 DEF Boundary
<1> QED BY <1>2, <1>3

\* The order of the ring is the order of the record numbers.
LEMMA RingPosAround ==
  ASSUME read_pg \in Page, NEW a \in Page
  PROVE  RingPos(Around(read_pg, a)) = a
BY SizeAssumption DEF RingPos, Around, Page

\* A download of a circular log that is not reset is the whole log, the oldest record
\* first, whatever erase and program operations fail: no -1 hides a record, and none
\* is given twice or out of order.
THEOREM DownloadWhole ==
  ASSUME RingAssumptions
  PROVE  Spec => []DownloadIsLog
<1>1. ASSUME TypeOK, WriterInv, RingInv PROVE DownloadIsLog
  <2>1. PICK k, s : Ends(flash, read_pg, k, s)
    BY <1>1, RingEnds
  <2> DEFINE n == Number(k, s)
  <2>2. /\ Download = [i \in 1 .. n |-> At(flash, read_pg, i - 1)] /\ n \in 0 .. NSlots
        /\ \A i \in 0 .. NSlots - 1 : At(flash, read_pg, i) # EMPTY <=> i < n
        /\ read_pg \in Page /\ NSlots \in Nat
    <3>1. read_pg \in Page /\ ReadBase = read_pg /\ NSlots \in Nat
      BY <1>1, RingEnds, SizeAssumption DEF NSlots
    <3>2. /\ n \in 0 .. NSlots
          /\ \A i \in 0 .. NSlots - 1 : At(flash, read_pg, i) # EMPTY <=> i < n
      BY <2>1, <3>1, EndsAt
    <3>3. Download = Reading(flash, read_pg)
      BY <3>1, DownloadReads
    <3>4. Reading(flash, read_pg) = Contents(flash, read_pg, n)
      BY <2>1, <3>1, ReadingIs
    <3> QED BY <3>1, <3>2, <3>3, <3>4 DEF Contents
  <2> HIDE DEF n
  <2>3. \A i \in 1 .. n : i - 1 \in 0 .. NSlots - 1 /\ i - 1 < n
    BY <2>2
  <2>4. ReadOldestFirst
    <3>1. SUFFICES ASSUME NEW i \in 1 .. n, NEW j \in 1 .. n, i < j
                   PROVE  At(flash, read_pg, i - 1) < At(flash, read_pg, j - 1)
      BY <2>2 DEF ReadOldestFirst
    <3>2. PICK a \in Page, b \in Slot : i - 1 = Number(a, b)
      BY <2>3, NumberOf
    <3>3. PICK c \in Page, d \in Slot : j - 1 = Number(c, d)
      BY <2>3, NumberOf
    <3> DEFINE p == Around(read_pg, a)
               q == Around(read_pg, c)
    <3>4. /\ p \in Page /\ q \in Page
          /\ At(flash, read_pg, i - 1) = flash[p][b] /\ At(flash, read_pg, j - 1) = flash[q][d]
      BY <2>2, <3>2, <3>3, AtNumber
    <3>5. flash[p][b] # EMPTY /\ flash[q][d] # EMPTY
      BY <2>2, <2>3, <3>4
    <3>6. a < c \/ (a = c /\ b < d)
      <4>1. Number(a, b) < Number(c, d)
        BY <3>1, <3>2, <3>3, <2>2
      <4>2. a \in Nat /\ c \in Nat
        BY DEF Page
      <4> QED BY <4>1, <4>2, NumberOrder
    <3>7. RingPos(p) = a /\ RingPos(q) = c
      BY <2>2, RingPosAround
    <3> HIDE DEF p, q
    <3>8. Earlier(p, b, q, d)
      <4>1. CASE a < c
        BY <3>7, <4>1 DEF Earlier
      <4>2. CASE a = c /\ b < d
        <5>1. p = q
          BY <4>2 DEF p, q
        <5> QED BY <4>2, <5>1 DEF Earlier
      <4> QED BY <3>6, <4>1, <4>2
    <3> QED BY <1>1, <3>4, <3>5, <3>8 DEF RingInv, Grows
  <2>5. DownloadComplete
    <3>1. ASSUME NEW i \in 1 .. n PROVE At(flash, read_pg, i - 1) \in Stored
      <4>1. PICK a \in Page, b \in Slot : i - 1 = Number(a, b)
        BY <2>3, NumberOf
      <4>2. /\ At(flash, read_pg, i - 1) = flash[Around(read_pg, a)][b]
            /\ Around(read_pg, a) \in Page
        BY <2>2, <4>1, AtNumber
      <4>3. At(flash, read_pg, i - 1) # EMPTY
        BY <2>2, <2>3
      <4> QED BY <4>2, <4>3 DEF Stored
    <3>2. ASSUME NEW p \in Page, NEW b \in Slot, flash[p][b] # EMPTY
          PROVE  \E i \in 1 .. n : flash[p][b] = At(flash, read_pg, i - 1)
      <4>1. PICK a \in Page : Around(read_pg, a) = p
        BY <2>2, AroundArith
      <4>2. At(flash, read_pg, Number(a, b)) = flash[p][b]
        BY <2>2, <4>1, AtNumber
      <4>3. Number(a, b) \in 0 .. NSlots - 1
        <5>1. a \in Nat /\ a < NPages
          BY SizeAssumption DEF Page
        <5> QED BY <2>2, <5>1, NumberOrder
      <4>4. Number(a, b) < n
        BY <2>2, <3>2, <4>2, <4>3
      <4>5. Number(a, b) + 1 \in 1 .. n /\ (Number(a, b) + 1) - 1 = Number(a, b)
        BY <2>2, <4>3, <4>4
      <4> QED BY <4>2, <4>5
    <3>3. {Download[i] : i \in DOMAIN Download} = {At(flash, read_pg, i - 1) : i \in 1 .. n}
      BY <2>2
    <3>4. Stored = {At(flash, read_pg, i - 1) : i \in 1 .. n}
      <4>1. \A x \in Stored : x \in {At(flash, read_pg, i - 1) : i \in 1 .. n}
        BY <3>2 DEF Stored
      <4> QED BY <3>1, <4>1
    <3> QED BY <3>3, <3>4 DEF DownloadComplete
  <2> QED BY <2>4, <2>5 DEF DownloadIsLog
<1> QED BY <1>1, RingInvariant, PTL

-----------------------------------------------------------------------------
(* The log its readers are promised.                                       *)

LEMMA AtNat ==
  ASSUME NEW f \in [Page -> [Slot -> Nat]], NEW base \in Page, NEW i \in 0 .. NSlots - 1
  PROVE  At(f, base, i) \in Nat
<1>1. PICK a \in Page, b \in Slot : i = Number(a, b)
  BY NumberOf
<1>2. Around(base, a) \in Page /\ At(f, base, i) = f[Around(base, a)][b]
  BY <1>1, AtNumber
<1> QED BY <1>2

LEMMA ContentsSeq ==
  ASSUME NEW f \in [Page -> [Slot -> Nat]], NEW base \in Page, NEW n \in 0 .. NSlots
  PROVE  /\ Contents(f, base, n) \in Seq(Nat) /\ Len(Contents(f, base, n)) = n
         /\ \A i \in 1 .. n : Contents(f, base, n)[i] = At(f, base, i - 1)
<1>1. n \in Nat /\ NSlots \in Nat
  BY SizeAssumption DEF NSlots
<1>2. \A i \in 1 .. n : At(f, base, i - 1) \in Nat
  <2>1. \A i \in 1 .. n : i - 1 \in 0 .. NSlots - 1
    BY <1>1
  <2> QED BY <2>1, AtNat
<1>3. Contents(f, base, n) \in [1 .. n -> Nat]
  BY <1>2 DEF Contents
<1>4. Contents(f, base, n) \in Seq(Nat)
  BY <1>1, <1>3
<1> QED BY <1>1, <1>3, <1>4 DEF Contents

\* One more record at the end.
LEMMA ContentsAppend ==
  ASSUME NEW f \in [Page -> [Slot -> Nat]], NEW g \in [Page -> [Slot -> Nat]],
         NEW base \in Page, NEW n \in 0 .. NSlots - 1,
         \A i \in 0 .. NSlots - 1 : i < n => At(g, base, i) = At(f, base, i)
  PROVE  Contents(g, base, n + 1) = Append(Contents(f, base, n), At(g, base, n))
<1> DEFINE c == Contents(f, base, n)
           d == Contents(g, base, n + 1)
<1>1. NSlots \in Nat /\ n \in 0 .. NSlots /\ n + 1 \in 0 .. NSlots /\ n \in Nat
  BY SizeAssumption DEF NSlots
<1>2. /\ c \in Seq(Nat) /\ Len(c) = n
      /\ \A i \in 1 .. n : c[i] = At(f, base, i - 1)
  BY <1>1, ContentsSeq
<1>3. /\ d \in Seq(Nat) /\ Len(d) = n + 1
      /\ \A i \in 1 .. n + 1 : d[i] = At(g, base, i - 1)
  BY <1>1, ContentsSeq
<1>4. At(g, base, n) \in Nat
  BY AtNat
<1>5. \A i \in 1 .. n : d[i] = c[i]
  <2>1. \A i \in 1 .. n : i \in 1 .. n + 1 /\ i - 1 \in 0 .. NSlots - 1 /\ i - 1 < n
    BY <1>1
  <2> QED BY <1>2, <1>3, <2>1
<1>6. d[n + 1] = At(g, base, n)
  BY <1>1, <1>3
<1> HIDE DEF c, d
<1>7. d = Append(c, At(g, base, n))
  BY <1>1, <1>2, <1>3, <1>4, <1>5, <1>6
<1> QED BY <1>7 DEF c, d

\* Without the oldest page, the records start one page further.
LEMMA ContentsDrop ==
  ASSUME NEW f \in [Page -> [Slot -> Nat]], NEW g \in [Page -> [Slot -> Nat]],
         NEW base \in Page, \A p \in Page : p # base => g[p] = f[p]
  PROVE  Contents(g, NextPage(base), Number(NPages - 1, 0))
           = SubSeq(Contents(f, base, NSlots), PageSlots + 1, NSlots)
<1> DEFINE n == Number(NPages - 1, 0)
           c == Contents(f, base, NSlots)
           d == Contents(g, NextPage(base), n)
           e == SubSeq(c, PageSlots + 1, NSlots)
<1>1. NSlots \in Nat /\ PageSlots \in Nat /\ PageSlots >= 1 /\ NPages \in Nat /\ NPages >= 2
      /\ NextPage(base) \in Page /\ 0 \in Page /\ 0 \in Slot /\ NPages - 1 \in Page
  BY SizeAssumption, PageArith DEF NSlots, Page
<1>2. n = NSlots - PageSlots /\ n \in 0 .. NSlots - 1
  <2>1. (NPages - 1) * PageSlots = NPages * PageSlots - PageSlots
    BY <1>1
  <2>2. n \in Nat
    BY <1>1, NumberOrder
  <2> QED BY <1>1, <2>1, <2>2 DEF Number, NSlots
<1>3. ASSUME NEW i \in 0 .. NSlots - 1, i < n
      PROVE  i + PageSlots \in 0 .. NSlots - 1 /\ At(g, NextPage(base), i) = At(f, base, i + PageSlots)
  <2>1. PICK a \in Page, b \in Slot : i = Number(a, b)
    BY NumberOf
  <2>2. a # NPages - 1
    <3>1. SUFFICES ASSUME a = NPages - 1 PROVE FALSE
      OBVIOUS
    <3>2. a \in Nat /\ ~(b < 0)
      BY <1>1 DEF Page, Slot
    <3> QED BY <1>1, <1>3, <2>1, <3>1, <3>2, NumberOrder
  <2>3. a + 1 \in Page /\ Around(NextPage(base), a) = Around(base, a + 1)
    BY <2>2, AroundArith
  <2>4. Around(base, a + 1) \in Page /\ Around(base, a + 1) # base
    <3>1. Around(base, 0) = base
      BY <1>1 DEF Around, Page
    <3>2. a + 1 # 0
      BY DEF Page
    <3> QED BY <1>1, <2>3, <3>1, <3>2, AroundArith
  <2>5. i + PageSlots = Number(a + 1, b)
    <3>1. (a + 1) * PageSlots = a * PageSlots + PageSlots /\ a * PageSlots \in Nat /\ b \in Nat
      BY <1>1 DEF Page, Slot
    <3> QED BY <1>1, <2>1, <3>1 DEF Number
  <2>6. At(g, NextPage(base), i) = g[Around(base, a + 1)][b]
    BY <1>1, <2>1, <2>3, AtNumber
  <2>7. At(f, base, i + PageSlots) = f[Around(base, a + 1)][b]
    BY <2>3, <2>5, AtNumber
  <2>8. i + PageSlots \in 0 .. NSlots - 1
    BY <1>1, <1>2, <1>3
  <2> QED BY <2>4, <2>6, <2>7, <2>8
<1> HIDE DEF n
<1>4. /\ d \in Seq(Nat) /\ Len(d) = n
      /\ \A i \in 1 .. n : d[i] = At(g, NextPage(base), i - 1)
  <2>1. n \in 0 .. NSlots
    BY <1>1, <1>2
  <2> HIDE DEF d
  <2> QED BY <1>1, <2>1, ContentsSeq DEF d
<1>5. /\ c \in Seq(Nat) /\ Len(c) = NSlots
      /\ \A i \in 1 .. NSlots : c[i] = At(f, base, i - 1)
  <2>1. NSlots \in 0 .. NSlots
    BY <1>1
  <2> QED BY <2>1, ContentsSeq
<1> HIDE DEF c, d
<1>6. /\ e \in Seq(Nat) /\ Len(e) = n
      /\ \A i \in 1 .. n : e[i] = c[i + PageSlots]
  <2>1. PageSlots + 1 \in Int /\ NSlots \in Int /\ \A i \in PageSlots + 1 .. NSlots : c[i] \in Nat
    BY <1>1, <1>5, ElementOfSeq
  <2>2. /\ e \in Seq(Nat)
        /\ Len(e) = IF PageSlots + 1 <= NSlots THEN NSlots - (PageSlots + 1) + 1 ELSE 0
        /\ \A i \in 1 .. NSlots - (PageSlots + 1) + 1 : e[i] = c[(PageSlots + 1) + i - 1]
    BY <2>1, SubSeqProperties
  <2> HIDE DEF e
  <2>3. NSlots - (PageSlots + 1) + 1 = n
    BY <1>1, <1>2
  <2>4. \A i \in 1 .. n : (PageSlots + 1) + i - 1 = i + PageSlots
    BY <1>1, <1>2
  <2> QED BY <1>1, <1>2, <2>2, <2>3, <2>4
<1> HIDE DEF e
<1>7. \A i \in 1 .. n : d[i] = e[i]
  <2>1. SUFFICES ASSUME NEW i \in 1 .. n PROVE d[i] = e[i]
    OBVIOUS
  <2>2. i - 1 \in 0 .. NSlots - 1 /\ i - 1 < n /\ i + PageSlots \in 1 .. NSlots
        /\ i + PageSlots - 1 = (i - 1) + PageSlots
    BY <1>1, <1>2
  <2>3. d[i] = At(g, NextPage(base), i - 1) /\ e[i] = c[i + PageSlots]
    BY <1>4, <1>6
  <2>4. c[i + PageSlots] = At(f, base, (i - 1) + PageSlots)
    <3> DEFINE j == i + PageSlots
    <3>1. j \in 1 .. NSlots /\ j - 1 = (i - 1) + PageSlots
      BY <1>1, <2>2
    <3> HIDE DEF j
    <3>2. c[j] = At(f, base, j - 1)
      BY <1>5, <3>1
    <3> QED BY <3>1, <3>2 DEF j
  <2>5. At(g, NextPage(base), i - 1) = At(f, base, (i - 1) + PageSlots)
    BY <1>3, <2>2
  <2> QED BY <2>3, <2>4, <2>5
<1>8. d = e
  BY <1>4, <1>6, <1>7, SeqEqual
<1> QED BY <1>8 DEF c, d, e, n

\* A download is a sequence of records the flash holds.
LEMMA DownloadSeq ==
  ASSUME TypeOK, WriterInv, RingInv
  PROVE  /\ Download \in Seq(Nat)
         /\ \A i \in 1 .. Len(Download) :
              \E p \in Page, s \in Slot : Download[i] = flash[p][s]
<1>1. PICK k, s : Ends(flash, read_pg, k, s)
  BY RingEnds
<1> DEFINE m == Number(k, s)
<1>2. read_pg \in Page /\ m \in 0 .. NSlots /\ flash \in [Page -> [Slot -> Nat]]
  BY <1>1, RingEnds, EndsAt DEF TypeOK
<1>3. Download = Contents(flash, read_pg, m)
  <2>1. Download = Reading(flash, read_pg)
    BY RingEnds, DownloadReads
  <2> QED BY <1>1, <1>2, <2>1, ReadingIs
<1> HIDE DEF m
<1>4. /\ Download \in Seq(Nat) /\ Len(Download) = m
      /\ \A i \in 1 .. m : Download[i] = At(flash, read_pg, i - 1)
  BY <1>2, <1>3, ContentsSeq
<1>5. ASSUME NEW i \in 1 .. m PROVE \E p \in Page, b \in Slot : Download[i] = flash[p][b]
  <2>1. i - 1 \in 0 .. NSlots - 1
    BY <1>2, SizeAssumption DEF NSlots
  <2>2. PICK c \in Page, d \in Slot : i - 1 = Number(c, d)
    BY <2>1, NumberOf
  <2>3. Around(read_pg, c) \in Page /\ At(flash, read_pg, i - 1) = flash[Around(read_pg, c)][d]
    BY <1>2, <2>2, AtNumber
  <2> QED BY <1>4, <2>3
<1> QED BY <1>4, <1>5

\* What a record write finds once the erase it may need is done: the log, or, when it
\* was full, the log without its oldest page; and room for a record.
LEMMA ErasedLog ==
  ASSUME TypeOK, WriterInv, RingInv
  PROVE  \E k \in Page, n \in 0 .. NSlots - 1 :
           /\ n = Number(k, write_slot) /\ Ends(FlashErased, ReadErased, k, write_slot)
           /\ Around(ReadErased, k) = TargetPage
           /\ \/ ~NeedsErase /\ Download = Contents(FlashErased, ReadErased, n)
              \/ /\ Len(Download) = NSlots
                 /\ Contents(FlashErased, ReadErased, n) = SubSeq(Download, PageSlots + 1, NSlots)
<1>1. PICK k \in Page : /\ Ends(FlashErased, ReadErased, k, write_slot)
                        /\ Around(ReadErased, k) = TargetPage
                        /\ NeedsErase => k = NPages - 1
  BY ErasedEnds
<1> DEFINE n == Number(k, write_slot)
<1>2. n \in 0 .. NSlots - 1 /\ NSlots \in Nat
  <2>1. k \in Nat /\ k < NPages /\ write_slot \in Slot /\ NSlots \in Nat
    BY SizeAssumption DEF Page, NSlots, TypeOK
  <2> QED BY <2>1, NumberOrder
<1>3. /\ read_pg \in Page /\ ReadBase = read_pg /\ ReadErased \in Page /\ TargetPage \in Page
      /\ flash \in [Page -> [Slot -> Nat]] /\ Download = Reading(flash, read_pg)
  BY RingEnds, ErasedType, ErasedRing, DownloadReads DEF TypeOK
<1>4. CASE ~NeedsErase
  <2>1. FlashErased = flash /\ ReadErased = read_pg
    BY <1>4 DEF FlashErased, ReadErased
  <2>2. Reading(flash, read_pg) = Contents(flash, read_pg, n)
    BY <1>1, <1>3, <2>1, ReadingIs
  <2> QED BY <1>1, <1>2, <1>3, <1>4, <2>1, <2>2
<1>5. CASE NeedsErase
  <2>1. Ends(flash, read_pg, NPages, 0) /\ read_pg = TargetPage /\ ReadErased = NextPage(read_pg)
    BY <1>5, RingEnds
  <2>2. Number(NPages, 0) = NSlots /\ write_slot = 0
    <3>1. 0 \in Slot /\ NPages \in Nat
      BY SizeAssumption, PageArith
    <3> QED BY <1>5, <3>1, NumberOrder DEF NeedsErase
  <2>3. Download = Contents(flash, read_pg, NSlots)
    BY <1>3, <2>1, <2>2, ReadingIs
  <2>4. Len(Download) = NSlots
    <3>1. NSlots \in 0 .. NSlots
      BY <1>2
    <3>2. Len(Contents(flash, read_pg, NSlots)) = NSlots
      BY <1>3, <3>1, ContentsSeq
    <3> QED BY <2>3, <3>2
  <2>5. /\ FlashErased \in [Page -> [Slot -> Nat]]
        /\ \A p \in Page : p # read_pg => FlashErased[p] = flash[p]
    <3>1. FlashErased = [flash EXCEPT ![TargetPage] = Blank]
      BY <1>5 DEF FlashErased
    <3> QED BY <1>3, <2>1, <3>1, ErasedType
  <2>6. Contents(FlashErased, ReadErased, n) = SubSeq(Download, PageSlots + 1, NSlots)
    <3>1. n = Number(NPages - 1, 0)
      BY <1>1, <1>5, <2>2
    <3> HIDE DEF n
    <3> QED BY <1>3, <2>1, <2>3, <2>5, <3>1, ContentsDrop
  <2> QED BY <1>1, <1>2, <2>4, <2>6
<1> QED BY <1>4, <1>5

LEMMA ProgrammedStores ==
  ASSUME TypeOK, WriterInv, RingInv, WriteProgrammed, UNCHANGED overflow_mode
  PROVE  Ring!Store \/ Ring!StoreOverOldest
<1>1. PICK k \in Page, n \in 0 .. NSlots - 1 :
           /\ n = Number(k, write_slot) /\ Ends(FlashErased, ReadErased, k, write_slot)
           /\ Around(ReadErased, k) = TargetPage
           /\ \/ ~NeedsErase /\ Download = Contents(FlashErased, ReadErased, n)
              \/ /\ Len(Download) = NSlots
                 /\ Contents(FlashErased, ReadErased, n) = SubSeq(Download, PageSlots + 1, NSlots)
  BY ErasedLog
<1> DEFINE E == Contents(FlashErased, ReadErased, n)
<1>2. /\ TargetPage \in Page /\ write_slot \in Slot /\ serial \in Nat \ {0} /\ ReadErased \in Page
      /\ FlashErased \in [Page -> [Slot -> Nat]] /\ NSlots \in Nat /\ PageSlots \in Nat
      /\ PageSlots >= 1 /\ NPages \in Nat /\ k \in Nat /\ k < NPages
  BY SMTT(25), ErasedRing, ErasedType, SizeAssumption DEF TypeOK, NSlots, Page
<1>3. /\ flash'[TargetPage][write_slot] = serial
      /\ \A p \in Page, s \in Slot : p # TargetPage \/ s # write_slot => flash'[p][s] = FlashErased[p][s]
      /\ read_pg' = ReadErased /\ flash' \in [Page -> [Slot -> Nat]]
  BY <1>2 DEF WriteProgrammed
<1>4. ReadBase' = ReadErased
  BY <1>3 DEF RingInv, ReadBase
<1>5. PICK l, s : Ends(flash', ReadErased, l, s) /\ Number(l, s) = n + 1
  <2>1. \A a \in Page, b \in Slot :
          flash'[Around(ReadErased, a)][b] # EMPTY <=> a < k \/ (a = k /\ b <= write_slot)
    <3>1. SUFFICES ASSUME NEW a \in Page, NEW b \in Slot
                   PROVE flash'[Around(ReadErased, a)][b] # EMPTY <=> a < k \/ (a = k /\ b <= write_slot)
      OBVIOUS
    <3>2. CASE a = k /\ b = write_slot
      <4>1. flash'[Around(ReadErased, a)][b] = serial /\ serial # EMPTY
        BY <1>1, <1>2, <1>3, <3>2 DEF EMPTY
      <4>2. b <= write_slot
        BY <1>2, <3>2 DEF Slot
      <4> QED BY <3>2, <4>1, <4>2
    <3>3. CASE ~(a = k /\ b = write_slot)
      <4>1. Around(ReadErased, a) \in Page /\ (a # k => Around(ReadErased, a) # TargetPage)
        BY <1>1, <1>2, AroundArith
      <4>2. flash'[Around(ReadErased, a)][b] = FlashErased[Around(ReadErased, a)][b]
        BY <1>1, <1>3, <3>3, <4>1
      <4>3. FlashErased[Around(ReadErased, a)][b] # EMPTY <=> a < k \/ (a = k /\ b < write_slot)
        BY <1>1 DEF Ends
      <4>4. a = k => (b < write_slot <=> b <= write_slot)
        BY <1>2, <3>3 DEF Slot
      <4> QED BY <4>2, <4>3, <4>4
    <3> QED BY <3>2, <3>3
  <2>2. CASE write_slot + 1 # PageSlots
    <3>1. write_slot + 1 \in Slot /\ k \in 0 .. NPages /\ k # NPages
      BY <1>2, <2>2 DEF Slot
    <3>2. \A b \in Slot : b <= write_slot <=> b < write_slot + 1
      BY <1>2 DEF Slot
    <3>3. Ends(flash', ReadErased, k, write_slot + 1)
      BY <2>1, <3>1, <3>2 DEF Ends
    <3>4. Number(k, write_slot + 1) = n + 1
      <4>1. k * PageSlots \in Nat /\ write_slot \in Nat
        BY <1>2 DEF Slot
      <4> QED BY <1>1, <4>1 DEF Number
    <3> QED BY <3>3, <3>4
  <2>3. CASE write_slot + 1 = PageSlots
    <3>1. 0 \in Slot /\ k + 1 \in 0 .. NPages
      BY <1>2 DEF Slot
    <3>2. \A a \in Page, b \in Slot : /\ a < k \/ (a = k /\ b <= write_slot) <=> a < k + 1
                                      /\ ~(b < 0)
      BY <1>2, <2>3 DEF Slot, Page
    <3>3. Ends(flash', ReadErased, k + 1, 0)
      BY <2>1, <3>1, <3>2 DEF Ends
    <3>4. Number(k + 1, 0) = n + 1
      <4>1. (k + 1) * PageSlots = k * PageSlots + PageSlots /\ k * PageSlots \in Nat /\ write_slot \in Nat
        BY <1>2 DEF Slot
      <4> QED BY <1>1, <1>2, <2>3, <4>1 DEF Number
    <3> QED BY <3>3, <3>4
  <2> QED BY <2>2, <2>3
<1>6. Download' = Contents(flash', ReadErased, n + 1)
  <2>1. Download' = Reading(flash', ReadErased)
    BY <1>4, DownloadReads
  <2> QED BY <1>2, <1>5, <2>1, ReadingIs
<1>7. At(flash', ReadErased, n) = serial
  BY <1>1, <1>2, <1>3, AtNumber
<1>8. \A i \in 0 .. NSlots - 1 : i < n => At(flash', ReadErased, i) = At(FlashErased, ReadErased, i)
  <2>1. SUFFICES ASSUME NEW i \in 0 .. NSlots - 1, i < n
                 PROVE At(flash', ReadErased, i) = At(FlashErased, ReadErased, i)
    OBVIOUS
  <2>2. PICK a \in Page, b \in Slot : i = Number(a, b)
    BY NumberOf
  <2>3. ~(a = k /\ b = write_slot)
    BY <1>1, <2>1, <2>2
  <2>4. Around(ReadErased, a) \in Page /\ (a # k => Around(ReadErased, a) # TargetPage)
    BY <1>1, <1>2, AroundArith
  <2>5. flash'[Around(ReadErased, a)][b] = FlashErased[Around(ReadErased, a)][b]
    BY <1>1, <1>3, <2>3, <2>4
  <2>6. /\ At(flash', ReadErased, i) = flash'[Around(ReadErased, a)][b]
        /\ At(FlashErased, ReadErased, i) = FlashErased[Around(ReadErased, a)][b]
    BY <1>2, <2>2, AtNumber
  <2> QED BY <2>5, <2>6
<1>9. Download' = Append(E, serial)
  <2>1. Contents(flash', ReadErased, n + 1) = Append(E, At(flash', ReadErased, n))
    BY <1>2, <1>3, <1>8, ContentsAppend
  <2> HIDE DEF E
  <2> QED BY <1>6, <1>7, <2>1
<1>10. E \in Seq(Nat) /\ Len(E) = n
  <2>1. n \in 0 .. NSlots
    BY <1>2
  <2> QED BY <1>2, <2>1, ContentsSeq
<1>11. Len(Download') = n + 1 /\ Download'[Len(Download')] = serial
  <2> HIDE DEF E
  <2> QED BY <1>2, <1>9, <1>10
<1>12. \A i \in 1 .. Len(Download) : Download[i] < serial
  BY DownloadSeq DEF RingInv, Below
<1>13. Ring!Fresh(Download'[Len(Download')])
  BY <1>11, <1>12 DEF Ring!Fresh
<1>14. CASE ~NeedsErase /\ Download = E
  <2>1. Len(Download) = n /\ n < NSlots
    BY <1>2, <1>10, <1>14
  <2>2. Download' = Append(Download, Download'[Len(Download')])
    BY <1>9, <1>11, <1>14
  <2> QED BY <1>11, <1>13, <2>1, <2>2 DEF Ring!Store
<1>15. CASE Len(Download) = NSlots /\ E = SubSeq(Download, PageSlots + 1, NSlots)
  <2>1. E = Ring!DropOldestPage(Download)
    BY <1>15 DEF Ring!DropOldestPage
  <2>2. Len(Download') = Len(Download) - PageSlots + 1
    <3>1. NSlots >= PageSlots + 1
      <4>1. 1 \in Nat /\ 1 < NPages /\ 0 \in Slot /\ 0 * PageSlots = 0 /\ 1 * PageSlots = PageSlots
        BY <1>2, SizeAssumption, PageArith
      <4> QED BY <1>2, <4>1, MulLess DEF NSlots
    <3>2. Len(E) = NSlots - PageSlots
      <4>1. Download \in Seq(Nat)
        BY DownloadSeq
      <4>2. \A i \in PageSlots + 1 .. NSlots : Download[i] \in Nat
        BY <1>2, <1>15, <4>1, ElementOfSeq
      <4>3. PageSlots + 1 \in Int /\ NSlots \in Int
        BY <1>2
      <4>4. Len(SubSeq(Download, PageSlots + 1, NSlots))
              = IF PageSlots + 1 <= NSlots THEN NSlots - (PageSlots + 1) + 1 ELSE 0
        BY <4>2, <4>3, SubSeqProperties
      <4> QED BY <1>2, <1>15, <3>1, <4>4
    <3> QED BY <1>2, <1>10, <1>11, <1>15, <3>2
  <2>3. Download' = Append(Ring!DropOldestPage(Download), Download'[Len(Download')])
    BY <1>9, <1>11, <2>1
  <2> QED BY <1>11, <1>13, <1>15, <2>2, <2>3 DEF Ring!StoreOverOldest
<1> QED BY <1>1, <1>14, <1>15

LEMMA FailedStores ==
  ASSUME TypeOK, WriterInv, RingInv, WriteProgramFails, UNCHANGED overflow_mode, "torn" \notin Faults
  PROVE  Ring!FailAfterErase \/ UNCHANGED Download
<1>1. PICK k \in Page, n \in 0 .. NSlots - 1 :
           /\ n = Number(k, write_slot) /\ Ends(FlashErased, ReadErased, k, write_slot)
           /\ \/ ~NeedsErase /\ Download = Contents(FlashErased, ReadErased, n)
              \/ /\ Len(Download) = NSlots
                 /\ Contents(FlashErased, ReadErased, n) = SubSeq(Download, PageSlots + 1, NSlots)
  BY ErasedLog
<1>2. Download' = Contents(FlashErased, ReadErased, n)
  <2>1. flash' = FlashErased /\ read_pg' = ReadErased /\ ReadErased \in Page
    BY ErasedType DEF WriteProgramFails
  <2>2. Download' = Reading(FlashErased, ReadErased)
    BY <2>1, DownloadReads DEF RingInv, ReadBase
  <2> QED BY <1>1, <2>1, <2>2, ReadingIs
<1> QED BY <1>1, <1>2 DEF Ring!FailAfterErase, Ring!DropOldestPage

\* A log of blank pages reads as the empty one.
LEMMA BlankReads ==
  ASSUME NEW f, \A p \in Page, s \in Slot : f[p][s] = EMPTY
  PROVE  Reading(f, 0) = << >>
<1>1. 0 \in Page /\ 0 \in Slot /\ 0 \in 0 .. NPages /\ NPages # 0
  BY SizeAssumption, PageArith DEF Page
<1>2. \A a \in Page, b \in Slot : Around(0, a) \in Page /\ ~(a < 0) /\ ~(b < 0)
  BY <1>1, AroundArith DEF Page, Slot
<1>3. Ends(f, 0, 0, 0)
  BY <1>1, <1>2 DEF Ends
<1>4. Number(0, 0) = 0
  BY SizeAssumption DEF Number
<1>5. Reading(f, 0) = Contents(f, 0, 0)
  BY <1>1, <1>3, <1>4, ReadingIs
<1> QED BY <1>5 DEF Contents

\* The circular log, not reset, is the log its readers are promised, whatever erase
\* and program operations fail: a write appends one record, and gives up the oldest
\* page only when no EMPTY slot is left; an erase empties the log; nothing else
\* changes what is read.
THEOREM RingImplementsLog ==
  ASSUME RingAssumptions
  PROVE  Spec => RefinesRingLog
<1>a. /\ NewModes \subseteq {"CIRCULAR"} /\ MaxBoots = 0
      /\ "torn" \notin Faults /\ "clear_erase" \notin Faults
  BY DEF RingAssumptions
<1>1. ASSUME Init PROVE Ring!Init
  <2>1. \A p \in Page, s \in Slot : flash[p][s] = EMPTY
    BY <1>1 DEF Init, Blank
  <2>2. ReadBase = 0
    BY <1>1 DEF Init, ReadBase
  <2> QED BY <2>1, <2>2, BlankReads, DownloadReads DEF Ring!Init
<1>2. ASSUME TypeOK, WriterInv, RingInv, [Next]_vars PROVE [Ring!Next]_Download
  <2>1. ASSUME UNCHANGED <<flash, read_pg, overflow_mode>> PROVE UNCHANGED Download
    <3>1. ReadBase' = ReadBase
      BY <2>1 DEF ReadBase
    <3> QED BY <2>1, <3>1, DownloadReads
  <2>2. ASSUME WriteRecordFlash, UNCHANGED overflow_mode PROVE [Ring!Next]_Download
    <3>1. CASE WriteFull \/ WriteEraseFails
      BY <2>1, <2>2, <3>1 DEF WriteFull, WriteEraseFails, store
    <3>2. CASE WriteProgrammed
      BY <2>2, <1>2, <3>2, ProgrammedStores DEF Ring!Next
    <3>3. CASE WriteProgramFails
      BY <1>a, <1>2, <2>2, <3>3, FailedStores DEF Ring!Next
    <3> QED BY <2>2, <3>1, <3>2, <3>3 DEF WriteRecordFlash
  <2>3. ASSUME Clear, UNCHANGED overflow_mode PROVE [Ring!Next]_Download
    <3>1. flash' = FlashCleared(NPages) /\ read_pg' = 0
      BY <1>a, <2>3 DEF Clear
    <3>2. \A p \in Page, s \in Slot : flash'[p][s] = EMPTY
      BY <3>1, SizeAssumption DEF FlashCleared, Page, Blank
    <3>3. ReadBase' = 0
      BY <3>1 DEF ReadBase
    <3>4. Download' = << >>
      BY <3>2, <3>3, BlankReads, DownloadReads
    <3> QED BY <3>4 DEF Ring!Next, Ring!Erase
  <2>4. ASSUME WriteRecord, UNCHANGED overflow_mode PROVE [Ring!Next]_Download
    BY <2>1, <2>2, <2>4 DEF WriteRecord, store, state
  <2>5. CASE Task
    BY <2>4, <2>5 DEF Task
  <2>6. CASE WriteMark
    BY <2>4, <2>6 DEF WriteMark
  <2>7. CASE FlushRecord
    BY <2>2, <2>7 DEF FlushRecord
  <2>8. CASE FlushBegin \/ CommitConfig \/ Connect \/ Disconnect
    BY <2>1, <2>8 DEF FlushBegin, CommitConfig, Connect, Disconnect, store, state
  <2>9. CASE SetConfig
    <3>1. overflow_mode' = overflow_mode
      BY <1>a, <1>2, <2>9 DEF SetConfig, RingInv
    <3> QED BY <2>1, <2>9, <3>1 DEF SetConfig, store, state
  <2>10. CASE DoErase
    BY <2>3, <2>10 DEF DoErase
  <2>11. CASE OpLogErase
    BY <2>1, <2>3, <2>11 DEF OpLogErase, store, state
  <2>12. CASE DeferredErase
    BY <2>3, <2>12 DEF DeferredErase
  <2>13. ~(boots < MaxBoots)
    BY <1>a, <1>2 DEF TypeOK
  <2>14. CASE Reset \/ CutInClear \/ CutInHeader \/ CutInWrite
    BY <2>13, <2>14 DEF Reset, CutInClear, CutInHeader, CutInWrite, Boot
  <2>15. CASE UNCHANGED vars
    BY <2>1, <2>15 DEF vars, store, state
  <2> QED
    BY <1>2, <2>5, <2>6, <2>7, <2>8, <2>9, <2>10, <2>11, <2>12, <2>14, <2>15 DEF Next
<1> QED BY <1>1, <1>2, RingInvariant, PTL DEF Spec, RefinesRingLog, Ring!Spec
=============================================================================
