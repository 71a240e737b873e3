-------------------------- MODULE ConfigStoreProofs --------------------------
(* Theorems about ConfigStore, for all values of the settings, all commands  *)
(* and, unless a theorem says otherwise, all failures.                       *)
EXTENDS ConfigStore, TLAPS

-----------------------------------------------------------------------------
(* What saving and starting do.                                            *)

LEMMA FailedWriteType ==
  ASSUME NEW S, NEW old \in S \union {NoData}
  PROVE  FailedWrite(old) \subseteq S \union {NoData}
  BY DEF FailedWrite

LEMMA NoFailedWrite ==
  ASSUME "erase" \notin Faults, "program" \notin Faults, NEW old
  PROVE  FailedWrite(old) = {}
  BY DEF FailedWrite

LEMMA CommitResultsType ==
  ASSUME page61 \in Iv \union {NoData}, NEW v \in Iv, NEW d \in BOOLEAN,
         NEW r \in CommitResults(v, d)
  PROVE  r.page \in Iv \union {NoData} /\ r.dirty \in BOOLEAN
<1>1. CASE d = TRUE
  <2>1. \/ r = [page |-> v, dirty |-> FALSE]
        \/ \E p \in FailedWrite(page61) : r = [page |-> p, dirty |-> TRUE]
    BY <1>1 DEF CommitResults
  <2>2. FailedWrite(page61) \subseteq Iv \union {NoData}
    BY FailedWriteType
  <2>3. CASE r = [page |-> v, dirty |-> FALSE]
    BY <2>3
  <2>4. ASSUME NEW p \in FailedWrite(page61), r = [page |-> p, dirty |-> TRUE]
        PROVE  r.page \in Iv \union {NoData} /\ r.dirty \in BOOLEAN
    BY <2>2, <2>4
  <2> QED  BY <2>1, <2>3, <2>4
<1>2. CASE d = FALSE
  <2>1. r = [page |-> page61, dirty |-> FALSE]
    BY <1>2 DEF CommitResults
  <2> QED  BY <2>1
<1> QED  BY <1>1, <1>2

\* A commit of the log's configuration leaves no difference that is not known.
LEMMA CommitResultsKnown ==
  ASSUME NEW v \in Iv, NEW d \in BOOLEAN, NEW r \in CommitResults(v, d),
         page61 \notin {v, NoData} => d
  PROVE  r.page \notin {v, NoData} => r.dirty
<1>1. CASE d = TRUE
  <2>1. \/ r = [page |-> v, dirty |-> FALSE]
        \/ \E p \in FailedWrite(page61) : r = [page |-> p, dirty |-> TRUE]
    BY <1>1 DEF CommitResults
  <2> QED  BY <2>1
<1>2. CASE d = FALSE
  BY <1>2 DEF CommitResults
<1> QED  BY <1>1, <1>2

\* Without failing writes a commit leaves the configuration on page 61.
LEMMA CommitResultsWritten ==
  ASSUME "erase" \notin Faults, "program" \notin Faults,
         NEW v \in Iv, NEW d \in BOOLEAN, NEW r \in CommitResults(v, d),
         page61 # v => d
  PROVE  r.page = v
<1>1. CASE d = TRUE
  BY <1>1, NoFailedWrite DEF CommitResults
<1>2. CASE d = FALSE
  BY <1>2 DEF CommitResults
<1> QED  BY <1>1, <1>2

\* Every restart finds on each page what was there, what was being saved, or
\* nothing that can be read.
LEMMA RestartBoots ==
  ASSUME TypeOK, Restart
  PROVE  \E a \in {page60, Built, NoData}, b \in {page61, iv, NoData}, c \in {page59, desc, NoData} :
           Boot(a, b, c)
<1>a. ASSUME NEW old PROVE FailedWrite(old) \subseteq {old, NoData}
  BY DEF FailedWrite
<1>b. ASSUME NEW r \in CommitResults(iv, log_dirty)
      PROVE  r.page \in {page61, iv, NoData}
  <2>1. \/ r = [page |-> iv, dirty |-> FALSE]
        \/ \E p \in FailedWrite(page61) : r = [page |-> p, dirty |-> TRUE]
        \/ r = [page |-> page61, dirty |-> FALSE]
    BY <1>b DEF CommitResults
  <2> QED  BY <2>1, <1>a
<1>1. CASE OpReboot
  <2>1. PICK r \in (IF "log" \in pending THEN CommitResults(iv, log_dirty) ELSE Unwritten),
             p \in (IF "config" \in pending THEN {Built} \union FailedWrite(page60) ELSE {page60}) :
          Boot(p, r.page, page59)
    BY <1>1 DEF OpReboot
  <2>2. r.page \in {page61, iv, NoData}
    BY <1>b DEF Unwritten
  <2>3. p \in {page60, Built, NoData}
    BY <1>a
  <2> QED  BY <2>1, <2>2, <2>3
<1>2. CASE UartReset
  BY <1>2 DEF UartReset
<1>3. CASE Shutdown
  <2>1. PICK d \in {desc} \union FailedWrite(page59) : Boot(page60, page61, d)
    BY <1>3 DEF Shutdown
  <2>2. d \in {page59, desc, NoData}
    BY <1>a
  <2> QED  BY <2>1, <2>2
<1>4. CASE CutInSave
  <2>1. CASE \E b \in {page61} \union (IF log_dirty THEN {iv} ELSE {}) : Boot(NoData, b, page59)
    BY <2>1
  <2>2. CASE \E a \in {page60} \union (IF "config" \in pending THEN {Built} ELSE {}) :
               Boot(a, NoData, page59)
    BY <2>2
  <2>3. CASE Boot(page60, page61, NoData)
    BY <2>3
  <2> QED  BY <1>4, <2>1, <2>2, <2>3 DEF CutInSave
<1> QED  BY <1>1, <1>2, <1>3, <1>4 DEF Restart

LEMMA RestartBootsTyped ==
  ASSUME TypeOK, Restart
  PROVE  \E a \in Config \union {NoData}, b \in Iv \union {NoData}, c \in Desc \union {NoData} :
           Boot(a, b, c)
<1>1. PICK a \in {page60, Built, NoData}, b \in {page61, iv, NoData}, c \in {page59, desc, NoData} :
        Boot(a, b, c)
  BY RestartBoots
<1>2. a \in Config \union {NoData}
  BY DEF Built, Config, TypeOK
<1>3. b \in Iv \union {NoData} /\ c \in Desc \union {NoData}
  BY DEF TypeOK
<1> QED  BY <1>1, <1>2, <1>3

-----------------------------------------------------------------------------
(* Types.                                                                  *)

LEMMA BootType ==
  ASSUME NEW a \in Config \union {NoData}, NEW b \in Iv \union {NoData},
         NEW c \in Desc \union {NoData}, Boot(a, b, c)
  PROVE  TypeOK'
<1> USE ValueAssumption DEF Boot
<1>1. LoadedTx(a) \in Tx
  BY DEF LoadedTx, Config
<1>2. LoadedIv(b) \in Iv
  BY DEF LoadedIv
<1>3. staging' \in Config
  BY DEF Config
<1>4. page61' \in Iv \union {NoData}
  BY DEF FailedWrite
<1>5. desc' \in Desc
  OBVIOUS
<1> QED  BY <1>1, <1>2, <1>3, <1>4, <1>5 DEF TypeOK

LEMMA CommandType ==
  ASSUME TypeOK, Command
  PROVE  TypeOK'
<1> USE DEF TypeOK, config, stage, pages, Pending
<1>0. Built \in Config
  BY DEF Built, Config
<1>a. ASSUME NEW v \in Iv, NEW d \in BOOLEAN, CommitLog(v, d)
      PROVE  page61' \in Iv \union {NoData} /\ log_dirty' \in BOOLEAN
  BY <1>a, CommitResultsType DEF CommitLog
<1>b. ASSUME NEW c \in Config, SaveConfig(c)
      PROVE  page60' \in Config \union {NoData}
  BY <1>b, FailedWriteType DEF SaveConfig
<1>c. ASSUME NEW d \in Desc, SaveDesc(d)
      PROVE  page59' \in Desc \union {NoData}
  BY <1>c, FailedWriteType DEF SaveDesc
<1>1. CASE SetTx            BY <1>1 DEF SetTx
<1>2. CASE SetInterval      BY <1>2 DEF SetInterval
<1>3. CASE SetAccelInterval BY <1>3, <1>a DEF SetAccelInterval
<1>4. CASE LogSet           BY <1>4 DEF LogSet
<1>5. CASE LogSave          BY <1>5, <1>a DEF LogSave
<1>6. CASE CfgWrite         BY <1>6 DEF CfgWrite
<1>7. CASE Save             BY <1>7, <1>0, <1>a, <1>b DEF Save
<1>8. CASE UartSave         BY <1>8, <1>0, <1>b DEF UartSave
<1>9. CASE ConfigWrite      BY <1>9 DEF ConfigWrite, Config
<1>10. CASE ConfigCommit    BY <1>10, FailedWriteType DEF ConfigCommit
<1>11. CASE ConfigReset     BY <1>11, ValueAssumption DEF ConfigReset, Config
<1>12. CASE DescSet         BY <1>12 DEF DescSet
<1>13. CASE DescCommit      BY <1>13, <1>c DEF DescCommit
<1>14. CASE DescSave        BY <1>14, <1>c DEF DescSave
<1>15. CASE LogErase        BY <1>15, FailedWriteType DEF LogErase, ClearedHeader
<1> QED  BY <1>1, <1>2, <1>3, <1>4, <1>5, <1>6, <1>7, <1>8, <1>9, <1>10,
            <1>11, <1>12, <1>13, <1>14, <1>15 DEF Command

LEMMA MainLoopType ==
  ASSUME TypeOK, MainLoop
  PROVE  TypeOK'
<1> USE DEF TypeOK, config, stage, pages, Pending
<1>0. Built \in Config
  BY DEF Built, Config
<1>1. CASE Deferred
  <2> USE <1>1 DEF Deferred, DeferredSaves
  <2>1. page60' \in Config \union {NoData}
    BY <1>0, FailedWriteType DEF SaveConfig
  <2>2. PICK r \in (IF "log" \in pending THEN CommitResults(iv, log_dirty) ELSE Unwritten) :
          /\ log_dirty' = r.dirty
          /\ page61' \in IF "erase" \in pending THEN ClearedHeader(r.page) ELSE {r.page}
    OBVIOUS
  <2>3. r.page \in Iv \union {NoData} /\ r.dirty \in BOOLEAN
    BY CommitResultsType DEF Unwritten
  <2>4. page61' \in Iv \union {NoData}
    BY <2>2, <2>3, FailedWriteType DEF ClearedHeader
  <2>5. page59' \in Desc \union {NoData}
    BY FailedWriteType DEF SaveDesc
  <2> QED  BY <2>1, <2>2, <2>3, <2>4, <2>5
<1>2. CASE SkipBlock     BY <1>2 DEF SkipBlock
<1>3. CASE RestOfLoop    BY <1>3 DEF RestOfLoop
<1>4. CASE PeriodicSave  BY <1>4, FailedWriteType DEF PeriodicSave, SaveDesc
<1>5. CASE ContSave      BY <1>5, <1>0, FailedWriteType DEF ContSave, SaveConfig
<1>6. CASE LeaveCont     BY <1>6 DEF LeaveCont
<1> QED  BY <1>1, <1>2, <1>3, <1>4, <1>5, <1>6 DEF MainLoop

\* What is in RAM and on the pages has its type after any commands, failures
\* and restarts: nothing unreadable is ever loaded.
THEOREM TypeCorrect == Spec => []TypeOK
<1>1. Init => TypeOK
  <2> SUFFICES ASSUME Init PROVE TypeOK
    OBVIOUS
  <2>1. Built \in Config
    BY DEF Init, Built, Config
  <2> QED  BY <2>1 DEF Init, TypeOK, Pending
<1>2. TypeOK /\ [Next]_vars => TypeOK'
  <2> SUFFICES ASSUME TypeOK, [Next]_vars PROVE TypeOK'
    OBVIOUS
  <2>1. CASE Command      BY <2>1, CommandType
  <2>2. CASE Restart      BY <2>2, RestartBootsTyped, BootType
  <2>3. CASE MainLoop     BY <2>3, MainLoopType
  <2>4. CASE Connect      BY <2>4 DEF Connect, TypeOK, config, stage, pages
  <2>5. CASE Disconnect   BY <2>5 DEF Disconnect, TypeOK, config, stage, pages
  <2>6. CASE UNCHANGED vars  BY <2>6 DEF vars, TypeOK, config, stage, pages
  <2> QED  BY <2>1, <2>2, <2>3, <2>4, <2>5, <2>6 DEF Next
<1> QED  BY <1>1, <1>2, PTL DEF Spec

-----------------------------------------------------------------------------
(* A header is never thought clean when it is not.                         *)

\* A header that can be read and differs from the log's configuration is known
\* to: the dirty flag is up.
HeaderKnown == page61 \notin {iv, NoData} => log_dirty

LEMMA BootKnown ==
  ASSUME NEW a \in Config \union {NoData}, NEW b \in Iv \union {NoData},
         NEW c \in Desc \union {NoData}, Boot(a, b, c)
  PROVE  HeaderKnown'
<1>1. page61' \in {iv', NoData}
  BY DEF Boot, LoadedIv, FailedWrite
<1> QED  BY <1>1 DEF HeaderKnown

LEMMA HeaderKnownStep ==
  ASSUME TypeOK, HeaderKnown, [Next]_vars
  PROVE  HeaderKnown'
<1> USE DEF config, stage, pages
<1>0. iv \in Iv /\ log_dirty \in BOOLEAN
  BY DEF TypeOK
<1>a. ASSUME NEW v \in Iv, NEW d \in BOOLEAN, CommitLog(v, d), iv' = v,
             page61 \notin {v, NoData} => d
      PROVE  HeaderKnown'
  <2>1. PICK r \in CommitResults(v, d) : page61' = r.page /\ log_dirty' = r.dirty
    BY <1>a DEF CommitLog
  <2>2. r.page \notin {v, NoData} => r.dirty
    BY <1>a, CommitResultsKnown
  <2> QED  BY <1>a, <2>1, <2>2 DEF HeaderKnown
<1>b. ASSUME UNCHANGED iv, UNCHANGED log_dirty, page61' \in {page61, iv, NoData}
      PROVE  HeaderKnown'
  BY <1>b DEF HeaderKnown
<1>c. ASSUME log_dirty' = TRUE
      PROVE  HeaderKnown'
  BY <1>c DEF HeaderKnown
<1>d. ASSUME NEW old PROVE FailedWrite(old) \subseteq {old, NoData}
  BY DEF FailedWrite
<1>1. CASE Command
  <2>1. CASE SetTx            BY <2>1, <1>b DEF SetTx
  <2>2. CASE SetInterval      BY <2>2, <1>c DEF SetInterval
  <2>3. CASE SetAccelInterval
    <3>1. PICK v \in Iv :
            /\ iv' = v
            /\ IF connected
               THEN log_dirty' = TRUE
               ELSE CommitLog(v, TRUE)
      BY <2>3 DEF SetAccelInterval
    <3> QED  BY <3>1, <1>a, <1>c
  <2>4. CASE LogSet           BY <2>4, <1>c DEF LogSet
  <2>5. CASE LogSave          BY <2>5, <1>0, <1>a DEF LogSave, HeaderKnown
  <2>6. CASE CfgWrite
    <3>1. page61' = page61 /\ log_dirty' = (log_dirty \/ iv' # iv)
      BY <2>6 DEF CfgWrite
    <3> QED  BY <3>1 DEF HeaderKnown
  <2>7. CASE Save
    <3>1. CASE connected
      BY <3>1, <2>7, <1>b DEF Save
    <3>2. CASE ~connected
      BY <3>2, <2>7, <1>0, <1>a DEF Save, HeaderKnown
    <3> QED  BY <3>1, <3>2
  <2>8. CASE UartSave         BY <2>8, <1>b DEF UartSave
  <2>9. CASE ConfigWrite
    <3>1. UNCHANGED iv /\ UNCHANGED log_dirty /\ UNCHANGED page61
      BY <2>9 DEF ConfigWrite
    <3> QED  BY <3>1, <1>b
  <2>10. CASE ConfigCommit
    <3>1. UNCHANGED iv /\ UNCHANGED log_dirty /\ UNCHANGED page61
      BY <2>10 DEF ConfigCommit
    <3> QED  BY <3>1, <1>b
  <2>11. CASE ConfigReset
    <3>1. UNCHANGED iv /\ UNCHANGED log_dirty /\ UNCHANGED page61
      BY <2>11 DEF ConfigReset
    <3> QED  BY <3>1, <1>b
  <2>12. CASE DescSet         BY <2>12, <1>b DEF DescSet
  <2>13. CASE DescCommit
    <3>1. UNCHANGED iv /\ UNCHANGED log_dirty /\ UNCHANGED page61
      BY <2>13 DEF DescCommit
    <3> QED  BY <3>1, <1>b
  <2>14. CASE DescSave
    <3>1. UNCHANGED iv /\ UNCHANGED log_dirty /\ UNCHANGED page61
      BY <2>14 DEF DescSave
    <3> QED  BY <3>1, <1>b
  <2>15. CASE LogErase
    <3>1. UNCHANGED iv /\ UNCHANGED log_dirty
      BY <2>15 DEF LogErase
    <3>2. page61' \in {page61, iv, NoData}
      BY <2>15, <1>d DEF LogErase, ClearedHeader
    <3> QED  BY <3>1, <3>2, <1>b
  <2> QED  BY <1>1, <2>1, <2>2, <2>3, <2>4, <2>5, <2>6, <2>7, <2>8, <2>9, <2>10,
              <2>11, <2>12, <2>13, <2>14, <2>15 DEF Command
<1>2. CASE Restart      BY <1>2, RestartBootsTyped, BootKnown
<1>3. CASE MainLoop
  <2>1. CASE Deferred
    <3>1. PICK r \in (IF "log" \in pending THEN CommitResults(iv, log_dirty) ELSE Unwritten) :
            /\ log_dirty' = r.dirty
            /\ page61' \in IF "erase" \in pending THEN ClearedHeader(r.page) ELSE {r.page}
      BY <2>1 DEF Deferred, DeferredSaves
    <3>2. r.page \notin {iv, NoData} => r.dirty
      BY <1>0, CommitResultsKnown DEF Unwritten, HeaderKnown
    <3>3. page61' \in {r.page, iv, NoData}
      BY <3>1, <1>d DEF ClearedHeader
    <3>4. iv' = iv
      BY <2>1 DEF Deferred
    <3> QED  BY <3>1, <3>2, <3>3, <3>4 DEF HeaderKnown
  <2>2. CASE SkipBlock     BY <2>2, <1>b DEF SkipBlock
  <2>3. CASE RestOfLoop    BY <2>3, <1>b DEF RestOfLoop
  <2>4. CASE PeriodicSave  BY <2>4, <1>b DEF PeriodicSave
  <2>5. CASE ContSave      BY <2>5, <1>b DEF ContSave
  <2>6. CASE LeaveCont     BY <2>6, <1>b DEF LeaveCont
  <2> QED  BY <1>3, <2>1, <2>2, <2>3, <2>4, <2>5, <2>6 DEF MainLoop
<1>4. CASE Connect      BY <1>4, <1>b DEF Connect
<1>5. CASE Disconnect   BY <1>5, <1>b DEF Disconnect
<1>6. CASE UNCHANGED vars  BY <1>6, <1>b DEF vars
<1> QED  BY <1>1, <1>2, <1>3, <1>4, <1>5, <1>6 DEF Next

LEMMA HeaderKnownAlways == Spec => []HeaderKnown
<1>1. Init => HeaderKnown
  BY DEF Init, HeaderKnown
<1>2. TypeOK /\ HeaderKnown /\ [Next]_vars => HeaderKnown'
  BY HeaderKnownStep
<1> QED  BY <1>1, <1>2, TypeCorrect, PTL DEF Spec

-----------------------------------------------------------------------------
(* What leaves a setting unsaved, and unknown to be.                       *)

\* A restart loads what is on the pages, so it leaves nothing.
LEMMA BootLeavesNothing ==
  ASSUME NEW a \in Config \union {NoData}, NEW b \in Iv \union {NoData},
         NEW c \in Desc \union {NoData}, Boot(a, b, c)
  PROVE  LoadedTx(page60)' = tx' /\ LoadedIv(page61)' = iv'
<1>1. page60' = a /\ tx' = LoadedTx(a) /\ iv' = LoadedIv(b)
  BY DEF Boot
<1>2. page61' \in IF b = NoData THEN {DefaultIv} \union FailedWrite(NoData) ELSE {b}
  BY DEF Boot
<1>3. LoadedIv(page61)' = iv'
  <2>1. CASE b = NoData
    <3>1. page61' \in {DefaultIv, NoData} /\ iv' = DefaultIv
      BY <2>1, <1>1, <1>2 DEF FailedWrite, LoadedIv
    <3> QED  BY <3>1 DEF LoadedIv
  <2>2. CASE b # NoData
    BY <2>2, <1>1, <1>2 DEF LoadedIv
  <2> QED  BY <2>1, <2>2
<1> QED  BY <1>1, <1>3 DEF LoadedTx

\* What a commit leaves of the header is the configuration, a failed write that
\* is known to have failed, or what was there.
LEMMA CommitLeaves ==
  ASSUME NEW v, NEW d \in BOOLEAN, NEW r \in CommitResults(v, d)
  PROVE  \/ r.page = v
         \/ d /\ r.dirty = TRUE /\ r.page \in FailedWrite(page61)
         \/ ~d /\ r.dirty = FALSE /\ r.page = page61
<1>1. CASE d = TRUE
  <2>1. \/ r = [page |-> v, dirty |-> FALSE]
        \/ \E p \in FailedWrite(page61) : r = [page |-> p, dirty |-> TRUE]
    BY <1>1 DEF CommitResults
  <2> QED  BY <1>1, <2>1
<1>2. CASE d = FALSE
  <2>1. r = [page |-> page61, dirty |-> FALSE]
    BY <1>2 DEF CommitResults
  <2> QED  BY <1>2, <2>1
<1> QED  BY <1>1, <1>2

\* The step that commits v: written, failed and known, or nothing done.
LEMMA CommitStep ==
  ASSUME NEW v \in Iv, NEW d \in BOOLEAN, CommitLog(v, d)
  PROVE  \/ LoadedIv(page61)' = v
         \/ d /\ log_dirty' = TRUE /\ page61' \in FailedWrite(page61)
         \/ ~d /\ log_dirty' = FALSE /\ page61' = page61
<1>1. PICK r \in CommitResults(v, d) : page61' = r.page /\ log_dirty' = r.dirty
  BY DEF CommitLog
<1>2. r.page = v => LoadedIv(page61)' = v
  BY <1>1, ValueAssumption DEF LoadedIv
<1> QED  BY <1>1, <1>2, CommitLeaves

\* The same of the deferred block, which then erases the log if asked to.
LEMMA DeferredStep ==
  ASSUME TypeOK, HeaderKnown, Deferred
  PROVE  \/ LoadedIv(page61)' = iv
         \/ page61' \in FailedWrite(page61) /\ ("erase" \notin pending => log_dirty' = TRUE)
         \/ page61' = page61 /\ log_dirty' = log_dirty /\ ("log" \in pending => ~log_dirty)
         \/ page61' = NoData /\ "erase" \in pending /\ page61' \in FailedWrite(page61)
<1>0. iv \in Iv /\ log_dirty \in BOOLEAN /\ iv # NoData
  BY ValueAssumption DEF TypeOK
<1>1. PICK r \in (IF "log" \in pending THEN CommitResults(iv, log_dirty) ELSE Unwritten) :
        /\ log_dirty' = r.dirty
        /\ page61' \in IF "erase" \in pending THEN ClearedHeader(r.page) ELSE {r.page}
  BY DEF Deferred, DeferredSaves
<1>2. \/ r.page = iv
      \/ r.dirty = TRUE /\ r.page \in FailedWrite(page61)
      \/ r.page = page61 /\ r.dirty = log_dirty /\ ("log" \in pending => ~log_dirty)
  <2>1. CASE "log" \in pending
    BY <2>1, <1>0, CommitLeaves
  <2>2. CASE "log" \notin pending
    BY <2>2 DEF Unwritten
  <2> QED  BY <2>1, <2>2
<1>3. CASE "erase" \notin pending
  <2>1. page61' = r.page
    BY <1>1, <1>3
  <2> QED  BY <1>0, <1>1, <1>2, <1>3, <2>1 DEF LoadedIv
<1>4. CASE "erase" \in pending
  <2>1. page61' = iv \/ page61' \in FailedWrite(r.page)
    BY <1>1, <1>4 DEF ClearedHeader
  <2>2. CASE page61' = iv
    BY <2>2, <1>0 DEF LoadedIv
  <2>3. CASE page61' = NoData /\ "program" \in Faults
    BY <2>3, <1>4 DEF FailedWrite
  <2>4. CASE page61' = r.page
    BY <2>4, <1>0, <1>1, <1>2, <1>4 DEF LoadedIv
  <2> QED  BY <2>1, <2>2, <2>3, <2>4 DEF FailedWrite
<1> QED  BY <1>3, <1>4

LEMMA SilentStep ==
  ASSUME TypeOK, HeaderKnown, [Next]_vars, Silent', ~ClearFails
  PROVE  Silent
<1> USE DEF config, stage, pages
<1>0. iv \in Iv /\ log_dirty \in BOOLEAN
  BY DEF TypeOK
<1>a. ASSUME UNCHANGED <<iv, log_dirty, page61>> PROVE Silent
  BY <1>a DEF Silent, LoadedIv
<1>b. ASSUME log_dirty' = TRUE PROVE Silent
  BY <1>b DEF Silent
<1>c. ASSUME NEW v \in Iv, NEW d \in BOOLEAN, CommitLog(v, d), iv' = v,
             d \/ (v = iv /\ d = log_dirty)
      PROVE  Silent
  <2>1. CASE LoadedIv(page61)' = v
    BY <2>1, <1>c DEF Silent
  <2>2. CASE log_dirty' = TRUE
    BY <2>2, <1>b
  <2>3. CASE ~d /\ log_dirty' = FALSE /\ page61' = page61
    BY <2>3, <1>a, <1>c
  <2> QED  BY <1>c, <2>1, <2>2, <2>3, CommitStep
<1>1. CASE Command
  <2>1. CASE SetInterval \/ LogSet
    BY <2>1, <1>b DEF SetInterval, LogSet
  <2>2. CASE SetAccelInterval
    <3>1. PICK v \in Iv :
            /\ iv' = v
            /\ IF connected THEN log_dirty' = TRUE ELSE CommitLog(v, TRUE)
      BY <2>2 DEF SetAccelInterval
    <3> QED  BY <3>1, <1>b, <1>c
  <2>3. CASE LogSave
    BY <2>3, <1>0, <1>c DEF LogSave
  <2>4. CASE CfgWrite
    <3>1. page61' = page61 /\ log_dirty' = (log_dirty \/ iv' # iv)
      BY <2>4 DEF CfgWrite
    <3> QED  BY <3>1, <1>0 DEF Silent, LoadedIv
  <2>5. CASE Save
    BY <2>5, <1>0, <1>a, <1>c DEF Save
  <2>6. CASE LogErase
    <3>1. UNCHANGED <<iv, log_dirty>> /\ (page61' = page61 \/ page61' \in ClearedHeader(page61))
      BY <2>6 DEF LogErase
    <3>2. page61' # NoData
      BY <2>6 DEF ClearFails
    <3>3. page61' \in {page61, iv}
      BY <3>1, <3>2 DEF ClearedHeader, FailedWrite
    <3> QED  BY <3>1, <3>2, <3>3, <1>a DEF Silent, LoadedIv
  <2>7. CASE SetTx \/ UartSave \/ ConfigWrite \/ ConfigCommit \/ ConfigReset
             \/ DescSet \/ DescCommit \/ DescSave
    <3>1. UNCHANGED <<iv, log_dirty, page61>>
      BY <2>7 DEF SetTx, UartSave, ConfigWrite, ConfigCommit, ConfigReset, DescSet, DescCommit, DescSave
    <3> QED  BY <3>1, <1>a
  <2> QED  BY <1>1, <2>1, <2>2, <2>3, <2>4, <2>5, <2>6, <2>7 DEF Command
<1>2. CASE Restart
  BY <1>2, RestartBootsTyped, BootLeavesNothing DEF Silent
<1>3. CASE Deferred
  <2>1. iv' = iv /\ (page61' = NoData => "erase" \notin pending)
    BY <1>3 DEF Deferred, ClearFails
  <2>2. CASE LoadedIv(page61)' = iv
    BY <2>1, <2>2 DEF Silent
  <2>3. CASE page61' \in FailedWrite(page61) /\ ("erase" \notin pending => log_dirty' = TRUE)
    <3>1. CASE "erase" \notin pending
      BY <2>3, <3>1, <1>b
    <3>2. CASE "erase" \in pending /\ page61' = page61 /\ page61 # NoData
      <4>1. page61' # iv' /\ ~log_dirty'
        BY <3>2 DEF Silent, LoadedIv
      <4>2. HeaderKnown'
        BY <1>3, HeaderKnownStep DEF Next, MainLoop
      <4> QED  BY <3>2, <4>1, <4>2 DEF HeaderKnown
    <3> QED  BY <2>1, <2>3, <3>1, <3>2 DEF FailedWrite
  <2>4. CASE page61' = page61 /\ log_dirty' = log_dirty
    BY <2>1, <2>4, <1>a
  <2>5. CASE page61' = NoData /\ "erase" \in pending
    BY <2>1, <2>5
  <2> QED  BY <1>3, <2>2, <2>3, <2>4, <2>5, DeferredStep
<1>4. CASE SkipBlock \/ RestOfLoop \/ PeriodicSave \/ ContSave \/ LeaveCont
  <2>1. UNCHANGED <<iv, log_dirty, page61>>
    BY <1>4 DEF SkipBlock, RestOfLoop, PeriodicSave, ContSave, LeaveCont
  <2> QED  BY <2>1, <1>a
<1>5. CASE Connect \/ Disconnect \/ UNCHANGED vars
  BY <1>5, <1>a DEF Connect, Disconnect, vars
<1> QED  BY <1>1, <1>2, <1>3, <1>4, <1>5 DEF Next, MainLoop

\* The only failure after which the log's configuration is taken for written when
\* it is not is that of the header FlashLog_Clear writes: true of every command,
\* every save and every restart.
THEOREM NeverSilent == Spec => NoSilentCommit
<1>1. TypeOK /\ HeaderKnown /\ [Next]_vars => [Silent' => Silent \/ ClearFails]_vars
  BY SilentStep
<1> QED  BY <1>1, TypeCorrect, HeaderKnownAlways, PTL DEF Spec, NoSilentCommit

LEMMA TxLeftStep ==
  ASSUME TypeOK, [Next]_vars, TxLeft', ~TxLeft
  PROVE  CfgWrite \/ ConfigReset \/ (ConfigCommit /\ ~connected) \/ ConfigFails
<1> USE DEF config, stage, pages
<1>0. Built \in Config /\ Built.tx = tx /\ Built # NoData
  BY ValueAssumption DEF Built, Config, TypeOK
<1>a. ASSUME UNCHANGED <<tx, page60>>, pending \subseteq pending' PROVE FALSE
  BY <1>a DEF TxLeft, LoadedTx
<1>b. ASSUME "config" \in pending' PROVE FALSE
  BY <1>b DEF TxLeft
<1>c. ASSUME UNCHANGED tx, SaveConfig(Built) PROVE page60' \in FailedWrite(page60)
  <2>1. page60' # Built
    BY <1>0, <1>c DEF TxLeft, LoadedTx
  <2> QED  BY <1>c, <2>1 DEF SaveConfig
<1>1. CASE Command
  <2>1. CASE SetTx \/ SetInterval \/ SetAccelInterval
    BY <2>1, <1>b DEF SetTx, SetInterval, SetAccelInterval
  <2>2. CASE UartSave
    BY <2>2, <1>c DEF UartSave, ConfigFails
  <2>3. CASE Save
    BY <2>3, <1>b, <1>c DEF Save, ConfigFails
  <2>4. CASE ConfigCommit /\ connected
    BY <2>4, <1>b DEF ConfigCommit
  <2>5. CASE LogSet \/ LogSave \/ ConfigWrite \/ DescSet \/ DescCommit \/ DescSave \/ LogErase
    <3>1. UNCHANGED <<tx, page60>> /\ pending \subseteq pending'
      BY <2>5 DEF LogSet, LogSave, ConfigWrite, DescSet, DescCommit, DescSave, LogErase
    <3> QED  BY <3>1, <1>a
  <2> QED  BY <1>1, <2>1, <2>2, <2>3, <2>4, <2>5 DEF Command
<1>2. CASE Restart
  BY <1>2, RestartBootsTyped, BootLeavesNothing DEF TxLeft
<1>3. CASE Deferred
  <2>1. CASE "config" \in pending
    BY <2>1, <1>3, <1>c DEF Deferred, DeferredSaves, ConfigFails
  <2>2. CASE "config" \notin pending
    <3>1. UNCHANGED <<tx, page60>>
      BY <2>2, <1>3 DEF Deferred, DeferredSaves
    <3> QED  BY <2>2, <3>1 DEF TxLeft, LoadedTx
  <2> QED  BY <2>1, <2>2
<1>4. CASE ContSave
  BY <1>4, <1>c DEF ContSave, ConfigFails
<1>5. CASE SkipBlock \/ RestOfLoop \/ PeriodicSave \/ LeaveCont
  BY <1>5, <1>a DEF SkipBlock, RestOfLoop, PeriodicSave, LeaveCont
<1>6. CASE Connect \/ Disconnect \/ UNCHANGED vars
  BY <1>6, <1>a DEF Connect, Disconnect, vars
<1> QED  BY <1>1, <1>2, <1>3, <1>4, <1>5, <1>6 DEF Next, MainLoop

LEMMA IvLeftStep ==
  ASSUME TypeOK, HeaderKnown, [Next]_vars, IvLeft', ~IvLeft
  PROVE  SetInterval \/ LogSet \/ CfgWrite \/ HeaderFails \/ Silent
<1> USE DEF config, stage, pages
<1>0. iv \in Iv /\ log_dirty \in BOOLEAN
  BY DEF TypeOK
<1>a. ASSUME UNCHANGED <<iv, page61>>, "log" \in pending => "log" \in pending' PROVE FALSE
  BY <1>a DEF IvLeft, LoadedIv
<1>b. ASSUME "log" \in pending' PROVE FALSE
  BY <1>b DEF IvLeft
<1>c. ASSUME NEW v \in Iv, NEW d \in BOOLEAN, CommitLog(v, d), iv' = v,
             d \/ (v = iv /\ pending \subseteq pending')
      PROVE  page61' \in FailedWrite(page61)
  <2>1. LoadedIv(page61)' # v
    BY <1>c DEF IvLeft
  <2>2. CASE ~d /\ page61' = page61
    BY <2>2, <1>a, <1>c
  <2> QED  BY <1>c, <2>1, <2>2, CommitStep
<1>1. CASE Command
  <2>1. CASE SetAccelInterval
    <3>1. PICK v \in Iv :
            /\ iv' = v
            /\ IF connected THEN "log" \in pending' ELSE CommitLog(v, TRUE)
      BY <2>1 DEF SetAccelInterval
    <3> QED  BY <2>1, <3>1, <1>b, <1>c DEF HeaderFails
  <2>2. CASE LogSave
    BY <2>2, <1>0, <1>c DEF LogSave, HeaderFails
  <2>3. CASE Save
    <3>1. CASE connected
      BY <2>3, <3>1, <1>b DEF Save
    <3>2. CASE ~connected
      BY <2>3, <3>2, <1>0, <1>c DEF Save, HeaderFails
    <3> QED  BY <3>1, <3>2
  <2>4. CASE LogErase
    <3>1. UNCHANGED iv /\ pending \subseteq pending' /\ (page61' = page61 \/ page61' \in ClearedHeader(page61))
      BY <2>4 DEF LogErase
    <3>2. page61' # iv
      BY <3>1, <1>0, ValueAssumption DEF IvLeft, LoadedIv
    <3> QED  BY <2>4, <3>1, <3>2, <1>a DEF HeaderFails, ClearedHeader
  <2>5. CASE SetTx \/ UartSave \/ ConfigWrite \/ ConfigCommit \/ ConfigReset
             \/ DescSet \/ DescCommit \/ DescSave
    <3>1. UNCHANGED <<iv, page61>> /\ ("log" \in pending => "log" \in pending')
      BY <2>5 DEF SetTx, UartSave, ConfigWrite, ConfigCommit, ConfigReset, DescSet, DescCommit, DescSave
    <3> QED  BY <3>1, <1>a
  <2> QED  BY <1>1, <2>1, <2>2, <2>3, <2>4, <2>5 DEF Command
<1>2. CASE Restart
  BY <1>2, RestartBootsTyped, BootLeavesNothing DEF IvLeft
<1>3. CASE Deferred
  <2>1. UNCHANGED iv /\ LoadedIv(page61)' # iv
    BY <1>3 DEF Deferred, IvLeft
  <2>2. CASE page61' \in FailedWrite(page61)
    BY <1>3, <2>2 DEF HeaderFails
  <2>3. CASE page61' = page61 /\ ("log" \in pending => ~log_dirty)
    <3>1. LoadedIv(page61) # iv
      BY <2>1, <2>3 DEF LoadedIv
    <3>2. "log" \in pending
      BY <3>1 DEF IvLeft
    <3> QED  BY <2>3, <3>1, <3>2 DEF Silent
  <2> QED  BY <1>3, <2>1, <2>2, <2>3, DeferredStep
<1>4. CASE SkipBlock \/ RestOfLoop \/ PeriodicSave \/ ContSave \/ LeaveCont
  <2>1. UNCHANGED <<iv, page61>> /\ ("log" \in pending => "log" \in pending')
    BY <1>4 DEF SkipBlock, RestOfLoop, PeriodicSave, ContSave, LeaveCont
  <2> QED  BY <2>1, <1>a
<1>5. CASE Connect \/ Disconnect \/ UNCHANGED vars
  BY <1>5, <1>a DEF Connect, Disconnect, vars
<1> QED  BY <1>1, <1>2, <1>3, <1>4, <1>5 DEF Next, MainLoop

\* A setting is left in RAM only, with nobody asked to save it, by the commands
\* that ask nobody and by the saves that fail or are skipped, and by nothing
\* else: for every set of commands and failures.
THEOREM SettingsCovered == Spec => SettingsStored
<1>1. ASSUME TypeOK, HeaderKnown, [Next]_vars
      PROVE  [/\ TxLeft' => TxLeft \/ CfgWrite \/ ConfigReset \/ (ConfigCommit /\ ~connected) \/ ConfigFails
              /\ IvLeft' => IvLeft \/ SetInterval \/ LogSet \/ CfgWrite \/ HeaderFails \/ Silent]_vars
  BY <1>1, TxLeftStep, IvLeftStep
<1> QED  BY <1>1, TypeCorrect, HeaderKnownAlways, PTL DEF Spec, SettingsStored

-----------------------------------------------------------------------------
(* Commands that request a save of what they change, writes that succeed   *)
(* unless power fails.                                                     *)

Saving ==
  /\ "sensor_interval" \notin Commands /\ "log_set" \notin Commands
  /\ "cfg_write" \notin Commands /\ "staging" \notin Commands
  /\ "erase" \notin Faults /\ "program" \notin Faults

\* The header is then always there, so a clean configuration is a saved one.
HeaderThere == page61 # NoData

\* A setting that the next start would not load has a save pending.
TxCovered == LoadedTx(page60) # tx => "config" \in pending
LogCovered == LoadedIv(page61) # iv => "log" \in pending

Covered == TxCovered /\ LogCovered /\ HeaderThere

LEMMA BootCovered ==
  ASSUME Saving, NEW a \in Config \union {NoData}, NEW b \in Iv \union {NoData},
         NEW c \in Desc \union {NoData}, Boot(a, b, c)
  PROVE  Covered'
<1>1. page60' = a /\ tx' = LoadedTx(a)
  BY DEF Boot
<1>2. LoadedTx(page60)' = tx'
  BY <1>1 DEF LoadedTx
<1>3. page61' = LoadedIv(b) /\ iv' = LoadedIv(b)
  BY NoFailedWrite DEF Boot, LoadedIv, Saving
<1>4. LoadedIv(b) # NoData
  BY ValueAssumption DEF LoadedIv
<1>5. LoadedIv(page61)' = iv'
  BY <1>3, <1>4 DEF LoadedIv
<1> QED  BY <1>2, <1>3, <1>4, <1>5 DEF Covered, TxCovered, LogCovered, HeaderThere

\* What the other actions may do to the two pages.
TxSaved  == page60' = Built /\ UNCHANGED tx
TxKept   == UNCHANGED page60 /\ UNCHANGED tx /\ ("config" \in pending => "config" \in pending')
TxMarked == UNCHANGED page60 /\ "config" \in pending'
LogSaved  == page61' = iv'
LogKept   == UNCHANGED page61 /\ UNCHANGED iv /\ ("log" \in pending => "log" \in pending')
LogMarked == UNCHANGED page61 /\ "log" \in pending'

LEMMA StepCovered ==
  ASSUME TypeOK, TypeOK', Covered, TxSaved \/ TxKept \/ TxMarked, LogSaved \/ LogKept \/ LogMarked
  PROVE  Covered'
<1>1. TxCovered'
  <2>1. CASE TxSaved
    <3>1. Built \in Config /\ Built.tx = tx
      BY DEF Built, Config, TypeOK
    <3>2. LoadedTx(page60)' = tx'
      BY <2>1, <3>1, ValueAssumption DEF TxSaved, LoadedTx, Config
    <3> QED  BY <3>2 DEF TxCovered
  <2>2. CASE TxKept
    BY <2>2 DEF TxKept, Covered, TxCovered, LoadedTx
  <2>3. CASE TxMarked
    BY <2>3 DEF TxMarked, TxCovered
  <2> QED  BY <2>1, <2>2, <2>3
<1>2. HeaderThere' /\ LogCovered'
  <2>0. iv' # NoData
    BY ValueAssumption DEF TypeOK
  <2>1. CASE LogSaved
    BY <2>0, <2>1 DEF LogSaved, HeaderThere, LogCovered, LoadedIv
  <2>2. CASE LogKept
    BY <2>2 DEF LogKept, Covered, HeaderThere, LogCovered, LoadedIv
  <2>3. CASE LogMarked
    BY <2>3 DEF LogMarked, Covered, HeaderThere, LogCovered
  <2> QED  BY <2>1, <2>2, <2>3
<1> QED  BY <1>1, <1>2 DEF Covered

\* Every action but the restarts does one of these to each page.
LEMMA CommandSteps ==
  ASSUME Saving, TypeOK, Covered, Command
  PROVE  (TxSaved \/ TxKept \/ TxMarked) /\ (LogSaved \/ LogKept \/ LogMarked)
<1> USE DEF Saving, config, stage, pages, TxSaved, TxKept, TxMarked, LogSaved, LogKept, LogMarked
<1>1. CASE SetTx            BY <1>1 DEF SetTx
<1>2. CASE SetAccelInterval
  <2>1. PICK v \in Iv :
          /\ iv' = v
          /\ IF connected
             THEN pending' = pending \union {"config", "log"} /\ UNCHANGED page61
             ELSE CommitLog(v, TRUE) /\ pending' = pending \union {"config"}
    BY <1>2 DEF SetAccelInterval
  <2>2. UNCHANGED page60
    BY <1>2 DEF SetAccelInterval
  <2>3. CASE connected
    BY <2>1, <2>2, <2>3
  <2>4. CASE ~connected
    <3>1. PICK r \in CommitResults(v, TRUE) : page61' = r.page
      BY <2>1, <2>4 DEF CommitLog
    <3>2. r.page = v
      BY CommitResultsWritten
    <3> QED  BY <2>1, <2>2, <2>4, <3>1, <3>2
  <2> QED  BY <2>3, <2>4
<1>3. CASE UartSave         BY <1>3, NoFailedWrite DEF UartSave, SaveConfig
<1>4. CASE DescSet          BY <1>4 DEF DescSet
<1>5. CASE DescCommit
  <2>1. UNCHANGED <<tx, iv, page60, page61>> /\ pending \subseteq pending'
    BY <1>5 DEF DescCommit
  <2> QED  BY <2>1
<1>6. CASE DescSave
  <2>1. UNCHANGED <<tx, iv, page60, page61, pending>>
    BY <1>6 DEF DescSave
  <2> QED  BY <2>1
<1>7. CASE LogErase
  <2>1. UNCHANGED <<tx, iv, page60>> /\ pending \subseteq pending'
    BY <1>7 DEF LogErase
  <2>2. page61' \in {page61, iv}
    BY <1>7, NoFailedWrite DEF LogErase, ClearedHeader
  <2> QED  BY <2>1, <2>2
<1> QED  BY <1>1, <1>2, <1>3, <1>4, <1>5, <1>6, <1>7
         DEF Command, SetInterval, LogSet, LogSave, CfgWrite, Save, ConfigWrite, ConfigCommit, ConfigReset

LEMMA MainLoopSteps ==
  ASSUME Saving, TypeOK, HeaderKnown, Covered, MainLoop
  PROVE  (TxSaved \/ TxKept \/ TxMarked) /\ (LogSaved \/ LogKept \/ LogMarked)
<1> USE DEF Saving, config, stage, pages, TxSaved, TxKept, TxMarked, LogSaved, LogKept, LogMarked
<1>1. CASE Deferred
  <2>1. TxSaved \/ TxKept
    BY <1>1, NoFailedWrite DEF Deferred, DeferredSaves, SaveConfig
  <2>2. PICK r \in (IF "log" \in pending THEN CommitResults(iv, log_dirty) ELSE Unwritten) :
          page61' \in IF "erase" \in pending THEN ClearedHeader(r.page) ELSE {r.page}
    BY <1>1 DEF Deferred, DeferredSaves
  <2>3. CASE "log" \in pending
    <3>1. page61 # iv => log_dirty
      BY DEF HeaderKnown, Covered, HeaderThere
    <3>2. r.page = iv
      BY <2>3, <3>1, CommitResultsWritten DEF TypeOK
    <3>3. page61' = iv
      BY <2>2, <3>2, NoFailedWrite DEF ClearedHeader
    <3> QED  BY <1>1, <2>1, <3>3 DEF Deferred
  <2>4. CASE "log" \notin pending
    <3>1. r.page = page61
      BY <2>4 DEF Unwritten
    <3>2. page61' \in {page61, iv}
      BY <2>2, <3>1, NoFailedWrite DEF ClearedHeader
    <3> QED  BY <1>1, <2>1, <2>4, <3>2 DEF Deferred
  <2> QED  BY <2>3, <2>4
<1>2. CASE SkipBlock     BY <1>2 DEF SkipBlock
<1>3. CASE RestOfLoop    BY <1>3 DEF RestOfLoop
<1>4. CASE PeriodicSave  BY <1>4 DEF PeriodicSave
<1>5. CASE ContSave      BY <1>5, NoFailedWrite DEF ContSave, SaveConfig
<1>6. CASE LeaveCont     BY <1>6 DEF LeaveCont
<1> QED  BY <1>1, <1>2, <1>3, <1>4, <1>5, <1>6 DEF MainLoop

LEMMA InitCovered == Init => Covered
<1> SUFFICES ASSUME Init PROVE Covered
  OBVIOUS
<1>1. Built \in Config /\ Built.tx = tx /\ iv # NoData
  BY ValueAssumption DEF Init, Built, Config
<1>2. LoadedTx(page60) = tx
  BY <1>1, ValueAssumption DEF Init, LoadedTx, Config
<1>3. LoadedIv(page61) = iv /\ page61 # NoData
  BY <1>1 DEF Init, LoadedIv
<1> QED  BY <1>2, <1>3 DEF Covered, TxCovered, LogCovered, HeaderThere

LEMMA NextCovered ==
  ASSUME Saving, TypeOK, TypeOK', HeaderKnown, Covered, [Next]_vars
  PROVE  Covered'
<1>1. CASE Command      BY <1>1, CommandSteps, StepCovered
<1>2. CASE Restart      BY <1>2, RestartBootsTyped, BootCovered
<1>3. CASE MainLoop     BY <1>3, MainLoopSteps, StepCovered
<1>4. CASE Connect \/ Disconnect \/ UNCHANGED vars
  <2>1. TxKept /\ LogKept
    BY <1>4 DEF Connect, Disconnect, vars, config, stage, pages, TxKept, LogKept
  <2> QED  BY <2>1, StepCovered
<1> QED  BY <1>1, <1>2, <1>3, <1>4 DEF Next

LEMMA CoveredAlways ==
  ASSUME Saving
  PROVE  Spec => []Covered
<1>1. Init => Covered
  BY InitCovered
<1>2. TypeOK /\ TypeOK' /\ HeaderKnown /\ Covered /\ [Next]_vars => Covered'
  BY NextCovered
<1> QED  BY <1>1, <1>2, TypeCorrect, HeaderKnownAlways, PTL DEF Spec

\* OP_REBOOT starts the device with the settings it had.
THEOREM RebootKeeps ==
  ASSUME Saving
  PROVE  Spec => RebootKeepsSettings
<1>1. ASSUME TypeOK, HeaderKnown, Covered, OpReboot
      PROVE  tx' = tx /\ iv' = iv
  <2> USE <1>1
  <2>1. PICK r \in (IF "log" \in pending THEN CommitResults(iv, log_dirty) ELSE Unwritten),
             p \in (IF "config" \in pending THEN {Built} \union FailedWrite(page60) ELSE {page60}) :
          Boot(p, r.page, page59)
    BY DEF OpReboot
  <2>2. tx' = LoadedTx(p) /\ iv' = LoadedIv(r.page)
    BY <2>1 DEF Boot
  <2>3. LoadedTx(p) = tx
    <3>1. CASE "config" \in pending
      <4>1. p = Built
        BY <3>1, <2>1, NoFailedWrite DEF Saving
      <4>2. Built \in Config /\ Built.tx = tx
        BY DEF Built, Config, TypeOK
      <4> QED  BY <4>1, <4>2, ValueAssumption DEF LoadedTx, Config
    <3>2. CASE "config" \notin pending
      BY <3>2, <2>1 DEF Covered, TxCovered
    <3> QED  BY <3>1, <3>2
  <2>4. LoadedIv(r.page) = iv
    <3>1. CASE "log" \in pending
      <4>1. page61 # iv => log_dirty
        BY DEF HeaderKnown, Covered, HeaderThere
      <4>2. r.page = iv
        BY <3>1, <2>1, <4>1, CommitResultsWritten DEF TypeOK, Saving
      <4> QED  BY <4>2, ValueAssumption DEF LoadedIv, TypeOK
    <3>2. CASE "log" \notin pending
      <4>1. r.page = page61
        BY <3>2, <2>1 DEF Unwritten
      <4> QED  BY <3>2, <4>1 DEF Covered, LogCovered
    <3> QED  BY <3>1, <3>2
  <2> QED  BY <2>2, <2>3, <2>4
<1>2. TypeOK /\ HeaderKnown /\ Covered /\ [Next]_vars => [OpReboot => tx' = tx /\ iv' = iv]_vars
  BY <1>1
<1> QED  BY <1>2, TypeCorrect, HeaderKnownAlways, CoveredAlways, PTL DEF Spec, RebootKeepsSettings

-----------------------------------------------------------------------------
(* The pages implement a write-back store.                                 *)

LEMMA InitBack ==
  ASSUME Init, TypeOK
  PROVE  Back!Init
<1>1. LoadedTx(page60) = tx
  <2>1. Built \in Config /\ Built.tx = tx
    BY DEF Built, Config, TypeOK
  <2> QED  BY <2>1, ValueAssumption DEF Init, LoadedTx, Config
<1>2. LoadedIv(page61) = iv
  BY ValueAssumption DEF Init, LoadedIv
<1>3. tx \in Tx /\ iv \in Iv /\ pending = {}
  BY DEF Init
<1> QED  BY <1>1, <1>2, <1>3 DEF Back!Init

\* A step that does one of the listed things to each page is Work.
LEMMA WorkBack ==
  ASSUME TypeOK, TypeOK', Covered', TxSaved \/ TxKept \/ TxMarked, LogSaved \/ LogKept \/ LogMarked
  PROVE  Back!Work
<1>0. tx' \in Tx /\ iv' \in Iv
  BY DEF TypeOK
<1>1. LoadedTx(page60)' \in Tx /\ LoadedIv(page61)' \in Iv
  BY ValueAssumption DEF TypeOK, LoadedTx, LoadedIv, Config
<1>2. LoadedTx(page60)' \in {LoadedTx(page60), tx'}
  <2>1. Built \in Config /\ Built.tx = tx
    BY DEF Built, Config, TypeOK
  <2>2. CASE TxSaved
    BY <2>1, <2>2, ValueAssumption DEF TxSaved, LoadedTx, Config
  <2>3. CASE TxKept \/ TxMarked
    BY <2>3 DEF TxKept, TxMarked, LoadedTx
  <2> QED  BY <2>2, <2>3
<1>3. LoadedIv(page61)' \in {LoadedIv(page61), iv'}
  <2>1. CASE LogSaved
    BY <2>1, <1>0, ValueAssumption DEF LogSaved, LoadedIv
  <2>2. CASE LogKept \/ LogMarked
    BY <2>2 DEF LogKept, LogMarked, LoadedIv
  <2> QED  BY <2>1, <2>2
<1>4. /\ LoadedTx(page60)' # tx' => "config" \in pending'
      /\ LoadedIv(page61)' # iv' => "log" \in pending'
  BY DEF Covered, TxCovered, LogCovered
<1> QED  BY <1>0, <1>1, <1>2, <1>3, <1>4 DEF Back!Work

LEMMA RestartBack ==
  ASSUME Saving, TypeOK, TypeOK', Restart
  PROVE  Back!Restart
<1>1. PICK a \in {page60, Built, NoData}, b \in {page61, iv, NoData}, c \in {page59, desc, NoData} :
        Boot(a, b, c)
  BY RestartBoots
<1>2. tx' \in Tx /\ iv' \in Iv /\ pending' = {}
  BY <1>1 DEF TypeOK, Boot
<1>3. page60' = a /\ tx' = LoadedTx(a) /\ iv' = LoadedIv(b)
  BY <1>1 DEF Boot
<1>4. LoadedTx(page60)' = tx'
  BY <1>3 DEF LoadedTx
<1>5. LoadedIv(page61)' = iv'
  <2>1. page61' = LoadedIv(b)
    BY <1>1, NoFailedWrite DEF Boot, LoadedIv, Saving
  <2> QED  BY <2>1, <1>2, <1>3, ValueAssumption DEF LoadedIv
<1>6. tx' \in {LoadedTx(page60), tx, DefaultTx}
  <2>1. Built \in Config /\ Built.tx = tx
    BY DEF Built, Config, TypeOK
  <2> QED  BY <1>3, <2>1 DEF LoadedTx
<1>7. iv' \in {LoadedIv(page61), iv, DefaultIv}
  BY <1>3 DEF LoadedIv
<1> QED  BY <1>2, <1>4, <1>5, <1>6, <1>7 DEF Back!Restart

\* A host sees settings that a restart may lose only together with a mark that
\* they are unsaved, and that come back as saved, as set, or as the default.
THEOREM StoreImplementsWriteBack ==
  ASSUME Saving
  PROVE  Spec => ImplementsWriteBack
<1>1. Init => Back!Init
  <2>1. Init => TypeOK
    <3> SUFFICES ASSUME Init PROVE TypeOK
      OBVIOUS
    <3>1. Built \in Config
      BY DEF Init, Built, Config
    <3> QED  BY <3>1 DEF Init, TypeOK, Pending
  <2> QED  BY <2>1, InitBack
<1>2. ASSUME TypeOK, TypeOK', HeaderKnown, Covered, Covered', [Next]_vars
      PROVE  Back!Next
  <2> USE <1>2
  <2>1. CASE Command      BY <2>1, CommandSteps, WorkBack DEF Back!Next
  <2>2. CASE Restart      BY <2>2, RestartBack DEF Back!Next
  <2>3. CASE MainLoop     BY <2>3, MainLoopSteps, WorkBack DEF Back!Next
  <2>4. CASE Connect \/ Disconnect \/ UNCHANGED vars
    <3>1. TxKept /\ LogKept
      BY <2>4 DEF Connect, Disconnect, vars, config, stage, pages, TxKept, LogKept
    <3> QED  BY <3>1, WorkBack DEF Back!Next
  <2> QED  BY <2>1, <2>2, <2>3, <2>4 DEF Next
<1> QED  BY <1>1, <1>2, TypeCorrect, HeaderKnownAlways, CoveredAlways, PTL
         DEF Spec, ImplementsWriteBack, Back!Spec
=============================================================================
