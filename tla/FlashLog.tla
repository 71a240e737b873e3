------------------------------ MODULE FlashLog ------------------------------
(***************************************************************************)
(* The sensor log of the beacon firmware (Core/Src/flash_log.c): records   *)
(* on flash pages 62-67, the header with the log's configuration on page   *)
(* 61, the position kept in RAM, the queue that takes records while a BLE  *)
(* client is connected, and FlashLog_Init, which finds the position again  *)
(* after a reset.                                                          *)
(*                                                                         *)
(* An address is a page and a slot in the page, so that "page aligned" is  *)
(* slot 0 and LOG_DATA_END is page NPages.  A record is the serial number  *)
(* of its programming: the greater one was written later.  A flash cell    *)
(* programs only when erased (hardware), and an erase that fails leaves    *)
(* the page as it was.                                                     *)
(***************************************************************************)
EXTENDS Naturals, Sequences, FiniteSets

CONSTANTS NPages,      \* data pages (6 in the device)
          PageSlots,   \* LOG_ENTRIES_PER_PAGE (128)
          QueueMax,    \* BLE_LOG_QUEUE_MAX (64)
          InitModes,   \* overflow modes the device may start with
          NewModes,    \* overflow modes the host may switch to
          Faults,      \* the kinds of failure that may happen
          MaxSerial,   \* bound: records programmed
          MaxBoots     \* bound: resets

\* Operations that fail and say so, and those a power cut interrupts.
FaultKinds == {"write_erase", "program", "torn", "clear_erase", "header",
               "cut_write", "cut_clear", "cut_header"}
Modes == {"STOP", "CIRCULAR"}

ASSUME SizeAssumption == /\ NPages \in Nat /\ NPages >= 2
                         /\ PageSlots \in Nat /\ PageSlots >= 1
                         /\ QueueMax \in Nat /\ MaxSerial \in Nat /\ MaxBoots \in Nat
ASSUME ModeAssumption == InitModes \subseteq Modes /\ NewModes \subseteq Modes
ASSUME FaultAssumption == Faults \subseteq FaultKinds

VARIABLES
  \* flash
  flash,           \* flash[p][s]: the record in slot s of data page p, or EMPTY
  torn,            \* the slots of which only the first double word was programmed
  header,          \* overflow mode stored in page 61, or NoHeader
  \* g_log_state
  write_pg, write_slot,   \* write_addr
  total_records,
  read_pg,         \* page of read_start_slot, which is always a page start
  is_full, initialized,
  \* other RAM
  overflow_mode,   \* g_log_cfg.overflow_mode
  cfg_dirty,       \* g_log_cfg_dirty
  queue_len,       \* s_ble_queue_len
  flush_left,      \* records FlashLog_FlushBleQueue still has to write
  erase_pending,   \* g_log_erase_pending
  \* environment
  connected,       \* BLE_IsConnected()
  serial,          \* serial number of the next record programmed
  boots            \* resets so far

store   == <<flash, torn>>
state   == <<write_pg, write_slot, total_records, read_pg, is_full, initialized>>
queue   == <<queue_len, flush_left, erase_pending>>
env     == <<connected, boots>>
vars    == <<store, header, state, overflow_mode, cfg_dirty, queue, env, serial>>

EMPTY    == 0
NoHeader == "none"
Page     == 0 .. NPages - 1
Slot     == 0 .. PageSlots - 1
NSlots   == NPages * PageSlots      \* LOG_ENTRIES_MAX
Blank    == [s \in Slot |-> EMPTY]

NextPage(p) == IF p + 1 = NPages THEN 0 ELSE p + 1

-----------------------------------------------------------------------------
(* Programming one record.                                                 *)

AtEnd == write_pg = NPages

StopsHereMutant == FALSE   \* the mode is not looked at
StopsHere == AtEnd /\ overflow_mode = "STOP"

\* Where the record goes: a write position at the end wraps to the start.
TargetPage == IF AtEnd THEN 0 ELSE write_pg

\* The target starts a page that still holds records.
NeedsErase == write_slot = 0 /\ flash[TargetPage][0] # EMPTY

\* What erasing the target page leaves, and the oldest page it makes.
FlashErasedMutant ==       \* the page after it is erased ahead
  IF NeedsErase THEN [flash EXCEPT ![TargetPage] = Blank, ![NextPage(TargetPage)] = Blank]
  ELSE flash
FlashErased == IF NeedsErase THEN [flash EXCEPT ![TargetPage] = Blank] ELSE flash
TornErased  == IF NeedsErase THEN {t \in torn : t[1] # TargetPage} ELSE torn
ReadErasedMutant == read_pg                      \* never moved
ReadErasedMutant2 ==                             \* not moved past the page
  IF NeedsErase /\ overflow_mode = "CIRCULAR" THEN TargetPage ELSE read_pg
ReadErased  == IF NeedsErase /\ overflow_mode = "CIRCULAR"
               THEN NextPage(TargetPage) ELSE read_pg

\* STOP mode and no page left.
WriteFull ==
  /\ StopsHere
  /\ is_full' = TRUE
  /\ UNCHANGED <<store, write_pg, write_slot, total_records, read_pg, initialized, serial>>

\* The page erase fails: the position has wrapped, nothing else happened.
WriteEraseFails ==
  /\ ~StopsHere
  /\ "write_erase" \in Faults /\ NeedsErase
  /\ write_pg' = TargetPage
  /\ UNCHANGED <<store, write_slot, total_records, read_pg, is_full, initialized, serial>>

\* Flash_WriteBlock programs both double words and the position advances.
WriteProgrammed ==
  /\ ~StopsHere
  /\ FlashErased[TargetPage][write_slot] = EMPTY
  /\ serial < MaxSerial
  /\ flash' = [FlashErased EXCEPT ![TargetPage][write_slot] = serial]
  /\ torn' = TornErased
  /\ read_pg' = ReadErased
  /\ IF write_slot + 1 = PageSlots
     THEN write_pg' = TargetPage + 1 /\ write_slot' = 0
     ELSE write_pg' = TargetPage /\ write_slot' = write_slot + 1
  /\ total_records' = total_records + 1
  /\ serial' = serial + 1
  /\ UNCHANGED <<is_full, initialized>>

WriteProgramFailsMutant == \* the position advances before the write
  /\ ~StopsHere
  /\ "program" \in Faults
  /\ flash' = FlashErased /\ torn' = TornErased /\ read_pg' = ReadErased
  /\ IF write_slot + 1 = PageSlots
     THEN write_pg' = TargetPage + 1 /\ write_slot' = 0
     ELSE write_pg' = TargetPage /\ write_slot' = write_slot + 1
  /\ UNCHANGED <<total_records, serial, is_full, initialized>>

\* Flash_WriteBlock fails: before the first double word (no access, or the
\* slot is not erased), or between the first and the second.
WriteProgramFails ==
  /\ ~StopsHere
  /\ \/ /\ "program" \in Faults \/ FlashErased[TargetPage][write_slot] # EMPTY
        /\ flash' = FlashErased
        /\ torn' = TornErased
        /\ serial' = serial
     \/ /\ "torn" \in Faults
        /\ FlashErased[TargetPage][write_slot] = EMPTY
        /\ serial < MaxSerial
        /\ flash' = [FlashErased EXCEPT ![TargetPage][write_slot] = serial]
        /\ torn' = TornErased \union {<<TargetPage, write_slot>>}
        /\ serial' = serial + 1
  /\ read_pg' = ReadErased
  /\ write_pg' = TargetPage
  /\ UNCHANGED <<write_slot, total_records, is_full, initialized>>

\* _write_record_v2_flash
WriteRecordFlash ==
  WriteFull \/ WriteEraseFails \/ WriteProgrammed \/ WriteProgramFails

-----------------------------------------------------------------------------
(* Taking a record, and flushing the queue.                                *)

Idle == flush_left = 0

WriteRecordMutant ==       \* room for one more
  \/ /\ connected /\ queue_len <= QueueMax
     /\ queue_len' = queue_len + 1
     /\ UNCHANGED <<store, state, serial>>
  \/ /\ ~connected /\ WriteRecordFlash /\ UNCHANGED queue_len

\* _write_record_v2: to RAM while a client is connected, dropped when the
\* queue is full, else to flash.
WriteRecord ==
  \/ /\ connected /\ queue_len < QueueMax
     /\ queue_len' = queue_len + 1
     /\ UNCHANGED <<store, state, serial>>
  \/ /\ connected /\ queue_len >= QueueMax
     /\ UNCHANGED <<store, state, serial, queue_len>>
  \/ /\ ~connected
     /\ WriteRecordFlash
     /\ UNCHANGED queue_len

\* FlashLog_Task takes a record that is due.
Task ==
  /\ Idle /\ initialized
  /\ ~(is_full /\ overflow_mode = "STOP")
  /\ WriteRecord
  /\ UNCHANGED <<header, overflow_mode, cfg_dirty, flush_left, erase_pending, env>>

\* FlashLog_WriteMark, FlashLog_WriteNow: on demand, and without the test for
\* a full log.
WriteMark ==
  /\ Idle /\ initialized
  /\ WriteRecord
  /\ UNCHANGED <<header, overflow_mode, cfg_dirty, flush_left, erase_pending, env>>

FlushBeginMutant ==        \* flushes without asking for the link
  /\ Idle /\ queue_len > 0
  /\ flush_left' = queue_len /\ queue_len' = 0
  /\ UNCHANGED <<store, header, state, overflow_mode, cfg_dirty, erase_pending, env, serial>>

\* FlashLog_FlushBleQueue empties the queue, then writes what it held.
FlushBegin ==
  /\ Idle /\ ~connected /\ queue_len > 0
  /\ flush_left' = queue_len
  /\ queue_len' = 0
  /\ UNCHANGED <<store, header, state, overflow_mode, cfg_dirty, erase_pending, env, serial>>

\* One queued record: whether it could be written is not looked at.
FlushRecord ==
  /\ flush_left > 0
  /\ WriteRecordFlash
  /\ flush_left' = flush_left - 1
  /\ UNCHANGED <<header, overflow_mode, cfg_dirty, queue_len, erase_pending, env>>

-----------------------------------------------------------------------------
(* The header page and the configuration.                                  *)

\* _write_header_page: erase, then program; either may fail.
WriteHeader(ok) ==
  \/ ok /\ header' = overflow_mode
  \/ ~ok /\ "header" \in Faults /\ header' \in {header, NoHeader}

\* FlashLog_SetConfig
SetConfig ==
  /\ Idle
  /\ \E m \in NewModes : overflow_mode' = m
  /\ cfg_dirty' = TRUE
  /\ UNCHANGED <<store, header, state, queue, env, serial>>

\* FlashLog_CommitConfig
CommitConfig ==
  /\ Idle /\ cfg_dirty
  /\ \E ok \in BOOLEAN : WriteHeader(ok) /\ cfg_dirty' = ~ok
  /\ UNCHANGED <<store, state, overflow_mode, queue, env, serial>>

-----------------------------------------------------------------------------
(* Erasing the log.                                                        *)

\* The first k data pages erased.
FlashCleared(k) == [p \in Page |-> IF p < k THEN Blank ELSE flash[p]]
TornCleared(k)  == {t \in torn : t[1] >= k}

ClearMutant ==             \* read_start_slot is not reset
  /\ flash' = FlashCleared(NPages) /\ torn' = TornCleared(NPages)
  /\ write_pg' = 0 /\ write_slot' = 0 /\ total_records' = 0 /\ is_full' = FALSE
  /\ WriteHeader(TRUE)
  /\ UNCHANGED <<read_pg, initialized>>

\* FlashLog_Clear: page after page, giving up at the first that fails.  The
\* result of the header write is not looked at.
Clear ==
  \/ \E k \in 0 .. NPages - 1 :
       /\ "clear_erase" \in Faults
       /\ flash' = FlashCleared(k) /\ torn' = TornCleared(k)
       /\ UNCHANGED <<header, state>>
  \/ /\ flash' = FlashCleared(NPages) /\ torn' = TornCleared(NPages)
     /\ write_pg' = 0 /\ write_slot' = 0
     /\ total_records' = 0
     /\ read_pg' = 0
     /\ is_full' = FALSE
     /\ \E ok \in BOOLEAN : WriteHeader(ok)
     /\ UNCHANGED initialized

\* _do_erase: at once, with or without a client.
DoErase ==
  /\ Idle
  /\ Clear
  /\ UNCHANGED <<overflow_mode, cfg_dirty, queue, env, serial>>

\* _op_log_erase: put off while a client is connected.
OpLogErase ==
  /\ Idle
  /\ IF connected
     THEN erase_pending' = TRUE /\ UNCHANGED <<store, header, state>>
     ELSE Clear /\ UNCHANGED erase_pending
  /\ UNCHANGED <<overflow_mode, cfg_dirty, queue_len, flush_left, env, serial>>

\* The main loop's deferred block: the queue has been flushed, the request is
\* forgotten, then the log is cleared.
DeferredErase ==
  /\ Idle /\ ~connected /\ queue_len = 0 /\ erase_pending
  /\ erase_pending' = FALSE
  /\ Clear
  /\ UNCHANGED <<overflow_mode, cfg_dirty, queue_len, flush_left, env, serial>>

-----------------------------------------------------------------------------
(* Resets.                                                                 *)

\* Records before the first EMPTY slot, in address order from page p.
Before(f, p, q, s) == \A a \in Page, b \in Slot :
   (a >= p /\ (a < q \/ (a = q /\ b < s))) => f[a][b] # EMPTY

\* The scan from page p stops at slot s of page q (q = NPages: it found no
\* EMPTY slot).
ScanStop(f, p, q, s) ==
  /\ q \in p .. NPages
  /\ IF q = NPages THEN s = 0 ELSE s \in Slot /\ f[q][s] = EMPTY
  /\ Before(f, p, q, s)

InitScanMutant(f) ==       \* records after the write page are not looked for
  \E q \in 0 .. NPages, s \in Slot :
    /\ ScanStop(f, 0, q, s)
    /\ is_full' = (q = NPages /\ overflow_mode' = "STOP")
    /\ write_pg' = IF q = NPages /\ overflow_mode' = "CIRCULAR" THEN 0 ELSE q
    /\ write_slot' = s
    /\ read_pg' = 0 /\ total_records' = q * PageSlots + s

\* FlashLog_Init on a valid header.  Circular mode looks for records that
\* survive on the pages after the write page.
InitScan(f) ==
  \E q \in 0 .. NPages, s \in Slot :
    /\ ScanStop(f, 0, q, s)
    /\ is_full' = (q = NPages /\ overflow_mode' = "STOP")
    /\ write_pg' = IF q = NPages /\ overflow_mode' = "CIRCULAR" THEN 0 ELSE q
    /\ write_slot' = s
    /\ IF /\ overflow_mode' = "CIRCULAR"
          /\ q + 1 < NPages
          /\ f[q + 1][0] # EMPTY
       THEN \E a \in q + 1 .. NPages, b \in Slot :
              /\ ScanStop(f, q + 1, a, b)
              /\ read_pg' = q + 1
              /\ total_records' = (q * PageSlots + s) + ((a - (q + 1)) * PageSlots + b)
       ELSE read_pg' = 0 /\ total_records' = q * PageSlots + s

\* A reset finds f and t in the data pages and h in the header page.  RAM
\* is lost; FlashLog_Init runs before anything else touches the log.  Loading
\* the saved configuration before that may have marked the log's dirty.
Boot(f, t, h) ==
  /\ boots < MaxBoots
  /\ boots' = boots + 1
  /\ flash' = f /\ torn' = t
  /\ connected' = FALSE
  /\ queue_len' = 0 /\ flush_left' = 0 /\ erase_pending' = FALSE
  /\ cfg_dirty' \in BOOLEAN
  /\ \/ /\ h # NoHeader
        /\ header' = h
        /\ overflow_mode' = h
        /\ initialized' = TRUE
        /\ InitScan(f)
     \/ /\ h = NoHeader
        /\ overflow_mode' = "CIRCULAR"
        /\ write_pg' = 0 /\ write_slot' = 0 /\ total_records' = 0
        /\ read_pg' = 0 /\ is_full' = FALSE
        /\ \E ok \in BOOLEAN :
             /\ header' = IF ok THEN "CIRCULAR" ELSE NoHeader
             /\ ok \/ "header" \in Faults
             /\ initialized' = ok

\* OP_REBOOT, a reset or a power cut between two operations.
Reset == Boot(flash, torn, header) /\ UNCHANGED serial

\* Power fails while FlashLog_Clear erases.
CutInClear ==
  /\ "cut_clear" \in Faults
  /\ \E k \in 1 .. NPages : Boot(FlashCleared(k), TornCleared(k), header)
  /\ UNCHANGED serial

\* Power fails between the erase and the programming of the header, in
\* FlashLog_CommitConfig or at the end of FlashLog_Clear.
CutInHeader ==
  /\ "cut_header" \in Faults
  /\ \/ cfg_dirty /\ Boot(flash, torn, NoHeader)
     \/ Boot(FlashCleared(NPages), TornCleared(NPages), NoHeader)
  /\ UNCHANGED serial

\* Power fails in a record write: after the page erase, or after the first
\* double word.
CutInWrite ==
  /\ "cut_write" \in Faults
  /\ initialized /\ ~connected
  /\ ~StopsHere
  /\ \/ NeedsErase /\ Boot(FlashErased, TornErased, header) /\ UNCHANGED serial
     \/ /\ FlashErased[TargetPage][write_slot] = EMPTY
        /\ serial < MaxSerial
        /\ Boot([FlashErased EXCEPT ![TargetPage][write_slot] = serial],
                TornErased \union {<<TargetPage, write_slot>>}, header)
        /\ serial' = serial + 1

-----------------------------------------------------------------------------
(* The BLE link, as far as the log sees it (app_ble.c).                    *)

Connect ==
  /\ Idle /\ ~connected
  /\ connected' = TRUE
  /\ UNCHANGED <<store, header, state, overflow_mode, cfg_dirty, queue, boots, serial>>

Disconnect ==
  /\ connected
  /\ connected' = FALSE
  /\ UNCHANGED <<store, header, state, overflow_mode, cfg_dirty, queue, boots, serial>>

-----------------------------------------------------------------------------

\* A device whose log was erased and whose header was written.
Init ==
  /\ flash = [p \in Page |-> Blank] /\ torn = {}
  /\ overflow_mode \in InitModes /\ header = overflow_mode
  /\ write_pg = 0 /\ write_slot = 0 /\ total_records = 0 /\ read_pg = 0
  /\ is_full = FALSE /\ initialized = TRUE
  /\ cfg_dirty = FALSE
  /\ queue_len = 0 /\ flush_left = 0 /\ erase_pending = FALSE
  /\ connected = FALSE /\ serial = 1 /\ boots = 0

Next ==
  \/ Task \/ WriteMark \/ FlushBegin \/ FlushRecord
  \/ SetConfig \/ CommitConfig
  \/ DoErase \/ OpLogErase \/ DeferredErase
  \/ Reset \/ CutInClear \/ CutInHeader \/ CutInWrite
  \/ Connect \/ Disconnect

Spec == Init /\ [][Next]_vars

-----------------------------------------------------------------------------
(* What a host reads.                                                      *)

\* The page logical record 0 is on.
ReadBase == IF overflow_mode = "CIRCULAR" THEN read_pg ELSE 0

\* FlashLog_ReadRecord: the record, or EMPTY for its -1.
ReadRecord(idx) ==
  LET phys == (ReadBase * PageSlots + idx) % NSlots
  IN  IF idx >= NSlots THEN EMPTY ELSE flash[phys \div PageSlots][phys % PageSlots]

\* The records a host gets asking for 0, 1, 2, ... until the first -1.
Download ==
  LET len == CHOOSE n \in 0 .. NSlots :
               ReadRecord(n) = EMPTY /\ \A i \in 0 .. n - 1 : ReadRecord(i) # EMPTY
  IN  [i \in 1 .. len |-> ReadRecord(i - 1)]

Stored == {flash[p][s] : p \in Page, s \in Slot} \ {EMPTY}

-----------------------------------------------------------------------------
(* Properties.                                                             *)

\* Every variable stays in the range the firmware's types and tests give it:
\* the position on the data pages or just past them, the queue within its array.
TypeOK ==
  /\ flash \in [Page -> [Slot -> Nat]] /\ torn \subseteq Page \X Slot
  /\ header \in Modes \union {NoHeader} /\ overflow_mode \in Modes
  /\ write_pg \in 0 .. NPages /\ write_slot \in Slot /\ (AtEnd => write_slot = 0)
  /\ total_records \in Nat /\ read_pg \in Page
  /\ is_full \in BOOLEAN /\ initialized \in BOOLEAN /\ cfg_dirty \in BOOLEAN
  /\ queue_len \in 0 .. QueueMax /\ flush_left \in 0 .. QueueMax
  /\ erase_pending \in BOOLEAN /\ connected \in BOOLEAN
  /\ serial \in Nat \ {0} /\ boots \in Nat

\* A download returns the records in the order they were written: what the
\* mapping of FlashLog_ReadRecord through read_start_slot is for.
ReadOldestFirst == \A i, j \in DOMAIN Download : i < j => Download[i] < Download[j]

\* A download reaches every stored record: no -1 hides records behind it.
DownloadComplete == Stored = {Download[i] : i \in DOMAIN Download}

\* A download is the log: every stored record, once, the oldest first.
DownloadIsLog == ReadOldestFirst /\ DownloadComplete

\* Pages in the order FlashLog_ReadRecord visits them.
RingPos(p) == IF p >= read_pg THEN p - read_pg ELSE p + NPages - read_pg

Earlier(p, s, q, t) == RingPos(p) < RingPos(q) \/ (p = q /\ s < t)

\* From read_start_slot around the ring, the records come first, in the order
\* they were written, and the EMPTY slots after them.
RingInOrder ==
  \A p, q \in Page, s, t \in Slot :
    Earlier(p, s, q, t) /\ flash[q][t] # EMPTY
      => flash[p][s] # EMPTY /\ flash[p][s] < flash[q][t]

PrefixOf(f) ==
  \A p \in Page : \A s, t \in Slot : s < t /\ f[p][t] # EMPTY => f[p][s] # EMPTY

\* The records of a page are its first ones, so that the scan of FlashLog_Init,
\* which stops at the first EMPTY slot, misses none on that page.
PagePrefix == PrefixOf(flash)

\* Ahead of the write position its page is blank, so the next record can be
\* programmed; only a record cut in half can be in the way.
WriteAhead ==
  write_slot > 0 =>
    \A s \in Slot : s >= write_slot /\ flash[write_pg][s] # EMPTY
                     => s = write_slot /\ <<write_pg, s>> \in torn

\* What a scan after a reset and the next write rely on, whatever failed before.
WriterReady == PagePrefix /\ WriteAhead

\* Whatever the faults and resets, the log holds as many records as it has
\* counted since it was last scanned or cleared, up to all pages but one.
RetainsLast ==
  LET held == Cardinality({x \in Page \X Slot : flash[x[1]][x[2]] # EMPTY})
  IN  held >= total_records \/ held >= NSlots - PageSlots

\* A reset between two operations that finds an EMPTY slot and a header with
\* the current mode shows the host exactly the records it could read before.
RebootRecovers ==
  [][ /\ Reset
      /\ header = overflow_mode
      /\ \E p \in Page, s \in Slot : flash[p][s] = EMPTY
      => Download' = Download ]_vars

\* In STOP mode writing a record never destroys one.
StopKeepsRecords ==
  [][ overflow_mode = "STOP" /\ (Task \/ WriteMark \/ FlushRecord)
      => \A p \in Page, s \in Slot :
           flash[p][s] # EMPTY /\ <<p, s>> \notin torn => flash'[p][s] = flash[p][s] ]_vars

\* No record is programmed while a client is connected: a flash write then
\* costs the link.
NoWriteWhileConnected == [][serial' # serial => ~connected]_vars

\* The flash log is the log its readers are promised.
Ring == INSTANCE RingLog WITH Capacity <- NSlots, log <- Download
RefinesRingLog == Ring!Spec
=============================================================================
