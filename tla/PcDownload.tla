----------------------------- MODULE PcDownload -----------------------------
(***************************************************************************)
(* The download of the log by the PC program: a chain of workers that read *)
(* up to Batch records at an offset, retries when nothing comes, what ends *)
(* the chain, and the polling that is paused meanwhile.  Nothing keeps a   *)
(* second chain (the Data and the Events tab both have a button) from      *)
(* starting: chains share offset, total, retries and records.              *)
(*                                                                         *)
(* The beacon's log holds the records with serial numbers first..last; a   *)
(* circular log erases its oldest page to go on.  Two records in a row     *)
(* have the same timestamp and fill the same row.                          *)
(***************************************************************************)
EXTENDS Naturals, Sequences, FiniteSets, SequencesExt

CONSTANTS Capacity, Page,   \* records the log and one page hold
          Batch,            \* BATCH
          MaxRetries,       \* MAX_DL_RETRIES
          Chains,           \* bound: chains of workers at a time
          MaxSerial,        \* bound: records the beacon writes
          MaxStarts         \* bound: downloads and erasings started

VARIABLES
    connected, polling, stat,            \* stat: log_used of the latest poll
    total, offset, retries, records,     \* _dl_total, _dl_offset, ...
    rows,                                \* what the tables show
    chain,                               \* the workers and timers of each chain
    erasing,                             \* the worker of "Erase log" is running
    circular, first, last, doomed,       \* the beacon's log; its erasing is pending
    starts, single, from                 \* history: how often it was asked; no two
                                         \* chains at a time; `first` at the start,
                                         \* 0 once records were erased under it
dl   == <<total, offset, retries, records, rows>>
log  == <<circular, first, last, doomed>>
vars == <<connected, polling, stat, dl, chain, erasing, log, starts, single, from>>

Used   == last + 1 - first
Idle   == [at |-> "idle"]
Fmt    == [at |-> "fmt"]                             \* cmd_log_info in a worker
Shot   == [at |-> "shot"]                            \* QTimer.singleShot
Read(off, count) == [at |-> "read", off |-> off, count |-> count]
Got(data)        == [at |-> "got", data |-> data]
Empty  == 0                                          \* a record of type EMPTY

Least(a, b) == IF a < b THEN a ELSE b

\* _merge_by_ts: one row for the records of a timestamp, in the order of the first of each.
Ts(n)      == n \div 2
Firsts(s)  == {i \in 1..Len(s) : \A j \in 1..i - 1 : Ts(s[j]) # Ts(s[i])}
InOrder(S) == CHOOSE q \in [1..Cardinality(S) -> S] :
                \A i, j \in 1..Cardinality(S) : i < j => q[i] < q[j]
Merge(s) == LET firsts == InOrder(Firsts(s))
            IN  [k \in 1..Len(firsts) |->
                   [ts     |-> Ts(s[firsts[k]]),
                    fields |-> {n \in ToSet(s) : Ts(n) = Ts(s[firsts[k]])}]]

-----------------------------------------------------------------------------
\* _dl_finish, in chain c, with the records rs.
Finish(c, rs) ==
    /\ chain' = [chain EXCEPT ![c] = Idle]
    /\ rows' = Merge(rs)
    /\ polling' = (polling \/ connected)

\* _dl_batch, in chain c, with the offset off and the total tot.
NextBatch(c, off, tot, rs) ==
    IF tot <= off
      THEN Finish(c, rs)
      ELSE /\ chain' = [chain EXCEPT ![c] = Read(off, Least(Batch, tot - off))]
           /\ UNCHANGED <<rows, polling>>

\* _start_download: the total is what the latest poll said.
StartDownload(c) ==
    /\ connected /\ chain[c] = Idle /\ starts < MaxStarts
    /\ starts' = starts + 1
    /\ IF stat = 0
         THEN /\ polling' = TRUE
              /\ UNCHANGED <<dl, chain, single, from>>
         ELSE /\ polling' = FALSE
              /\ total' = Least(stat, Capacity)
              /\ offset' = 0 /\ retries' = 0 /\ records' = <<>>
              /\ chain' = [chain EXCEPT ![c] = Fmt]
              /\ single' = (single /\ \A d \in Chains : chain[d] = Idle)
              /\ from' = first
              /\ UNCHANGED rows
    /\ UNCHANGED <<connected, stat, erasing, log>>

FmtDone(c) ==
    /\ chain[c] = Fmt
    /\ NextBatch(c, offset, total, records)
    /\ UNCHANGED <<connected, stat, total, offset, retries, records, erasing, log,
                   starts, single, from>>

ShotFires(c) ==
    /\ chain[c] = Shot
    /\ NextBatch(c, offset, total, records)
    /\ UNCHANGED <<connected, stat, total, offset, retries, records, erasing, log,
                   starts, single, from>>

\* read_log: nothing when it fails or there is no transport; else the records at the
\* offset, and after the last one nothing or records of type EMPTY.
LogAt(off, count) ==
    LET there == IF first + off <= last THEN Least(count, last + 1 - (first + off)) ELSE 0
        data  == [i \in 1..there |-> first + off + i - 1]
    IN  {data, data \o [i \in 1..count - there |-> Empty]}

ReadReturns(c) ==
    /\ chain[c].at = "read"
    /\ \E data \in {<<>>} \cup (IF connected THEN LogAt(chain[c].off, chain[c].count)
                                             ELSE {}) :
         chain' = [chain EXCEPT ![c] = Got(data)]
    /\ UNCHANGED <<connected, polling, stat, dl, erasing, log, starts, single, from>>

\* The session ends between the worker's look at _transport and its use: the worker
\* fails, which nobody handles.
WorkerDies(c) ==
    /\ chain[c].at \in {"fmt", "read"} /\ ~connected
    /\ chain' = [chain EXCEPT ![c] = Idle]
    /\ UNCHANGED <<connected, polling, stat, dl, erasing, log, starts, single, from>>

NoRecordsMutant(c) ==        \* the last retry gives up without ending the download
    /\ chain[c] = Got(<<>>)
    /\ IF retries < (IF circular /\ offset > 0 THEN 1 ELSE MaxRetries)
         THEN /\ retries' = retries + 1
              /\ chain' = [chain EXCEPT ![c] = Shot]
         ELSE /\ chain' = [chain EXCEPT ![c] = Idle]
              /\ UNCHANGED retries
    /\ UNCHANGED <<connected, polling, stat, total, offset, records, rows, erasing, log,
                   starts, single, from>>

\* _on_dl_batch with no record: one retry at the end of a circular log, else three.
NoRecords(c) ==
    /\ chain[c] = Got(<<>>)
    /\ IF retries < (IF circular /\ offset > 0 THEN 1 ELSE MaxRetries)
         THEN /\ retries' = retries + 1
              /\ chain' = [chain EXCEPT ![c] = Shot]
              /\ UNCHANGED <<rows, polling>>
         ELSE /\ Finish(c, records)
              /\ UNCHANGED retries
    /\ UNCHANGED <<connected, stat, total, offset, records, erasing, log, starts, single, from>>

\* The records of a batch are the first n, those before an EMPTY one.
Received(data, n) == /\ \A i \in 1..n : data[i] # Empty
                     /\ n < Len(data) => data[n + 1] = Empty

SomeRecordsMutant(c) ==      \* it counts what it asked for
    /\ chain[c].at = "got" /\ chain[c].data # <<>>
    /\ \E n \in 0..Len(chain[c].data) :
         LET taken == SubSeq(chain[c].data, 1, n)
             off   == offset + Least(Batch, total - offset)
         IN  /\ Received(chain[c].data, n)
             /\ records' = records \o taken
             /\ offset' = off /\ retries' = 0
             /\ UNCHANGED total
             /\ NextBatch(c, off, total, records \o taken)
    /\ UNCHANGED <<connected, stat, erasing, log, starts, single, from>>

\* _on_dl_batch: the records up to the first EMPTY one, which ends the log.
SomeRecords(c) ==
    /\ chain[c].at = "got" /\ chain[c].data # <<>>
    /\ \E n \in 0..Len(chain[c].data) :
         LET taken == SubSeq(chain[c].data, 1, n)
             off   == offset + n
             tot   == IF n < Len(chain[c].data) THEN off ELSE total
         IN  /\ Received(chain[c].data, n)
             /\ records' = records \o taken
             /\ offset' = off /\ total' = tot /\ retries' = 0
             /\ NextBatch(c, off, tot, records \o taken)
    /\ UNCHANGED <<connected, stat, erasing, log, starts, single, from>>
-----------------------------------------------------------------------------
(* _erase_log: the beacon says "deferred"; what was downloaded is forgotten, also   *)
(* under a download.                                                               *)

EraseLog ==
    /\ connected /\ ~erasing /\ starts < MaxStarts
    /\ starts' = starts + 1
    /\ erasing' = TRUE /\ polling' = FALSE
    /\ UNCHANGED <<connected, stat, dl, chain, log, single, from>>

EraseDone ==
    /\ erasing
    /\ erasing' = FALSE
    /\ polling' = (polling \/ connected)
    /\ \/ /\ connected /\ doomed' = TRUE
          /\ records' = <<>> /\ rows' = <<>> /\ offset' = 0 /\ total' = 0
          /\ single' = (single /\ \A c \in Chains : chain[c] = Idle)
          /\ UNCHANGED retries
       \/ UNCHANGED <<doomed, dl, single>>
    /\ UNCHANGED <<connected, stat, chain, circular, first, last, starts, from>>
-----------------------------------------------------------------------------
(* The session, the polling and the beacon. *)

Poll ==
    /\ polling /\ connected
    /\ stat' = Used
    /\ UNCHANGED <<connected, polling, dl, chain, erasing, log, starts, single, from>>

Disconnect ==
    /\ connected
    /\ connected' = FALSE /\ polling' = FALSE
    /\ UNCHANGED <<stat, dl, chain, erasing, log, starts, single, from>>

\* A new session and its start-up reading.
Connect ==
    /\ ~connected
    /\ connected' = TRUE /\ polling' = TRUE /\ stat' = Used
    /\ UNCHANGED <<dl, chain, erasing, log, starts, single, from>>

\* The beacon writes a record; a full log stops or gives up its oldest page.
BeaconWrites ==
    /\ last < MaxSerial
    /\ Used < Capacity \/ circular
    /\ last' = last + 1
    /\ IF Used < Capacity
         THEN UNCHANGED <<first, from>>
         ELSE first' = first + Page /\ from' = 0
    /\ UNCHANGED <<connected, polling, stat, dl, chain, erasing, circular, doomed, starts, single>>

\* At once, or after the client on Bluetooth has left.
BeaconErases ==
    /\ doomed
    /\ doomed' = FALSE
    /\ first' = last + 1 /\ from' = 0
    /\ UNCHANGED <<connected, polling, stat, dl, chain, erasing, circular, last,
                   starts, single>>
-----------------------------------------------------------------------------
\* In a session, with an answer from before the log was erased.
Init ==
    /\ connected = TRUE /\ polling = TRUE /\ stat = Capacity
    /\ total = 0 /\ offset = 0 /\ retries = 0 /\ records = <<>> /\ rows = <<>>
    /\ chain = [c \in Chains |-> Idle]
    /\ circular \in BOOLEAN /\ first = 1 /\ last = 1
    /\ erasing = FALSE /\ doomed = FALSE
    /\ starts = 0 /\ single = TRUE /\ from = 0

ChainStep(c) == \/ FmtDone(c) \/ ShotFires(c) \/ ReadReturns(c)
                \/ NoRecords(c) \/ SomeRecords(c)

Next == \/ \E c \in Chains : StartDownload(c) \/ ChainStep(c) \/ WorkerDies(c)
        \/ EraseLog \/ EraseDone \/ Poll \/ Disconnect \/ Connect
        \/ BeaconWrites \/ BeaconErases

Spec == Init /\ [][Next]_vars
-----------------------------------------------------------------------------
Task == {Idle, Fmt, Shot} \cup [at : {"read"}, off : Nat, count : 1..Batch]
            \cup [at : {"got"}, data : Seq(0..MaxSerial)]

TypeOK ==
    /\ connected \in BOOLEAN /\ polling \in BOOLEAN /\ circular \in BOOLEAN
    /\ erasing \in BOOLEAN /\ doomed \in BOOLEAN
    /\ stat \in 0..Capacity /\ total \in Nat /\ offset \in Nat
    /\ retries \in 0..MaxRetries
    /\ records \in Seq(1..MaxSerial)
    /\ chain \in [Chains -> Task]
    /\ first \in 1..MaxSerial + 1 /\ last \in 0..MaxSerial
    /\ starts \in 0..MaxStarts /\ single \in BOOLEAN /\ from \in 0..MaxSerial + 1

\* The records of one download are those of the log, in order: none twice, and none
\* skipped unless the beacon erased a page meanwhile; and the rows keep each timestamp
\* once, in order.
DownloadExact ==
    single =>
        /\ \A i \in 1..Len(records) - 1 : records[i] < records[i + 1]
        /\ from # 0 => \A i \in 1..Len(records) : records[i] = from + i - 1
        /\ \A i \in 1..Len(rows) - 1 : rows[i].ts < rows[i + 1].ts

\* The polling is off in a session only while a download or an erasing is under way
\* that turns it on again.
PausedForAReason ==
    connected /\ ~polling => erasing \/ \E c \in Chains : chain[c] # Idle
=============================================================================
