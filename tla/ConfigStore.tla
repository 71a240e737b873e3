---------------------------- MODULE ConfigStore -----------------------------
(***************************************************************************)
(* The settings of the beacon firmware and the flash pages that keep them: *)
(* the configuration on page 60 (Core/Src/flash_config.c), the log's part  *)
(* of it again in the header on page 61 (flash_log.c), the hardware        *)
(* descriptor on page 59 (hw_desc.c); the commands that change and save    *)
(* them (cmd_layer.c, proto_uart.c, svc_uart_cmd.c); and the block of the  *)
(* main loop that does what was put off while a BLE client was connected   *)
(* (main.c).                                                               *)
(*                                                                         *)
(* A configuration is two values: tx, everything only page 60 keeps, and   *)
(* iv, the LogConfig_t that page 61 keeps too.  A page that was erased and *)
(* not programmed, or not to the end, fails its magic or CRC: NoData.      *)
(***************************************************************************)
EXTENDS Naturals

CONSTANTS Tx,          \* values of tx
          ContTx,      \* those whose tx_mode is TX_MODE_CONT
          Iv,          \* values of iv
          Desc,        \* values of the hardware descriptor
          DefaultTx, DefaultIv, DefaultDesc,
          NoData,
          Commands,    \* the groups of commands the host uses
          Faults       \* the kinds of failure that may happen

CommandKinds == {"tx_set", "sensor_interval", "accel_interval", "log_set", "cfg_write",
                 "uart_save", "staging", "desc", "log_erase", "reboot", "restart"}
FaultKinds == {"erase", "program", "cut"}

ASSUME ValueAssumption ==
  /\ DefaultTx \in Tx /\ DefaultIv \in Iv /\ DefaultDesc \in Desc /\ ContTx \subseteq Tx
  /\ NoData \notin Iv /\ NoData \notin Desc /\ NoData \notin [tx : Tx, iv : Iv]
ASSUME KindAssumption == Commands \subseteq CommandKinds /\ Faults \subseteq FaultKinds

VARIABLES
  tx, iv,          \* the runtime globals; g_log_cfg
  desc,            \* g_hw_desc
  staging, staging_dirty,   \* g_cfg_staging
  log_dirty,       \* g_log_cfg_dirty
  pending,         \* g_..._pending: "config", "log", "desc", "erase"
  page60, page61, page59,   \* flash
  loop,            \* where the main loop is
  connected        \* BLE_IsConnected()

config  == <<tx, iv>>
stage   == <<staging, staging_dirty>>
pages   == <<page60, page61, page59>>
vars    == <<config, desc, stage, log_dirty, pending, pages, loop, connected>>

Config  == [tx : Tx, iv : Iv]
Pending == {"config", "log", "desc", "erase"}

\* _build_v2
Built == [tx |-> tx, iv |-> iv]

-----------------------------------------------------------------------------
(* Writing a page: erase, program, verify.                                 *)

\* What a write that fails leaves.
FailedWrite(old) ==
  (IF "erase" \in Faults THEN {old} ELSE {}) \union
  (IF "program" \in Faults THEN {NoData} ELSE {})

\* _write_v2_to_flash
SaveConfig(c) == page60' \in {c} \union FailedWrite(page60)

\* HwDesc_Save
SaveDesc(d) == page59' \in {d} \union FailedWrite(page59)

\* The header and the dirty flag FlashLog_CommitConfig leaves: it does
\* nothing for a clean configuration, and a failure leaves it dirty.
CommitResultsMutant(v, dirty) ==  \* clean although not written
  IF dirty THEN {[page |-> p, dirty |-> FALSE] : p \in {v} \union FailedWrite(page61)}
  ELSE {[page |-> page61, dirty |-> FALSE]}
CommitResults(v, dirty) ==
  IF dirty
  THEN {[page |-> v, dirty |-> FALSE]} \union {[page |-> p, dirty |-> TRUE] : p \in FailedWrite(page61)}
  ELSE {[page |-> page61, dirty |-> FALSE]}

CommitLog(v, dirty) ==
  \E r \in CommitResults(v, dirty) : page61' = r.page /\ log_dirty' = r.dirty

\* The header FlashLog_Clear leaves of old: it gives up before it, or writes it.
ClearedHeader(old) == {iv} \union FailedWrite(old)

-----------------------------------------------------------------------------
(* Start.                                                                  *)

\* What the next start finds: FlashConfig_Load, FlashLog_Init.  The log's
\* part of page 60 is loaded first and then replaced by the header's.
LoadedTx(p60) == IF p60 = NoData THEN DefaultTx ELSE p60.tx
LoadedIvMutant(p61) == p61            \* the magic is not looked at
LoadedIv(p61) == IF p61 = NoData THEN DefaultIv ELSE p61

\* A reset finds p60, p61 and p59 in flash.  RAM is lost.  The staging buffer
\* is built between FlashConfig_Load and FlashLog_Init.
Boot(p60, p61, p59) ==
  /\ page60' = p60 /\ page59' = p59
  /\ tx' = LoadedTx(p60) /\ iv' = LoadedIv(p61)
  /\ desc' = IF p59 = NoData THEN DefaultDesc ELSE p59
  /\ staging' = IF p60 = NoData THEN [tx |-> DefaultTx, iv |-> DefaultIv] ELSE p60
  /\ staging_dirty' = FALSE
  /\ log_dirty' = (p60 # NoData)
  /\ page61' \in IF p61 = NoData THEN {DefaultIv} \union FailedWrite(NoData) ELSE {p61}
  /\ pending' = {} /\ connected' = FALSE /\ loop' = "block"

-----------------------------------------------------------------------------
(* Commands that change settings.                                          *)

\* OP_TX_SET, OP_TX_SCHEDULE_SET, OP_BLE_SET, OP_WAKE_CFG_SET, OP_ACCEL_CFG_SET,
\* OP_SENSOR_ENABLE and the UART commands: saved by the main loop.
SetTx ==
  /\ "tx_set" \in Commands
  /\ tx' \in Tx
  /\ pending' = pending \union {"config"}
  /\ UNCHANGED <<iv, desc, stage, log_dirty, pages, loop, connected>>

\* OP_SENSOR_INTERVAL for temperature, battery and light.
SetInterval ==
  /\ "sensor_interval" \in Commands
  /\ iv' \in Iv
  /\ log_dirty' = TRUE
  /\ pending' = pending \union {"config"}
  /\ UNCHANGED <<tx, desc, stage, pages, loop, connected>>

\* OP_SENSOR_INTERVAL and OP_SENSOR_ENABLE for the accelerometer.
SetAccelInterval ==
  /\ "accel_interval" \in Commands
  /\ \E v \in Iv :
       /\ iv' = v
       /\ IF connected
          THEN /\ log_dirty' = TRUE
               /\ pending' = pending \union {"config", "log"}
               /\ UNCHANGED page61
          ELSE /\ CommitLog(v, TRUE)
               /\ pending' = pending \union {"config"}
  /\ UNCHANGED <<tx, desc, stage, page60, page59, loop, connected>>

\* The UART "log" settings, and "log save".
LogSet ==
  /\ "log_set" \in Commands
  /\ iv' \in Iv
  /\ log_dirty' = TRUE
  /\ UNCHANGED <<tx, desc, stage, pending, pages, loop, connected>>

LogSave ==
  /\ "log_set" \in Commands
  /\ CommitLog(iv, log_dirty)
  /\ UNCHANGED <<config, desc, stage, pending, page60, page59, loop, connected>>

\* CFG!: applied to the globals, saved by SAVE!.
CfgWrite ==
  /\ "cfg_write" \in Commands
  /\ tx' \in Tx
  /\ iv' \in Iv
  /\ log_dirty' = (log_dirty \/ iv' # iv)
  /\ UNCHANGED <<desc, stage, pending, pages, loop, connected>>

\* SAVE!: the saves already pending stay so.
Save ==
  /\ "cfg_write" \in Commands
  /\ IF connected
     THEN pending' = pending \union {"config", "log"} /\ UNCHANGED <<page60, page61, log_dirty>>
     ELSE CommitLog(iv, log_dirty) /\ SaveConfig(Built) /\ UNCHANGED pending
  /\ UNCHANGED <<config, desc, stage, page59, loop, connected>>

\* The UART "save", with or without a client.
UartSaveMutant ==          \* the wrong buffer
  /\ "uart_save" \in Commands
  /\ pending' = pending \ {"config"}
  /\ SaveConfig(staging)
  /\ UNCHANGED <<config, desc, stage, log_dirty, page61, page59, loop, connected>>
UartSave ==
  /\ "uart_save" \in Commands
  /\ pending' = pending \ {"config"}
  /\ SaveConfig(Built)
  /\ UNCHANGED <<config, desc, stage, log_dirty, page61, page59, loop, connected>>

-----------------------------------------------------------------------------
(* The staging buffer.                                                     *)

\* OP_CONFIG_WRITE
ConfigWrite ==
  /\ "staging" \in Commands
  /\ \/ \E v \in Tx : staging' = [staging EXCEPT !.tx = v]
     \/ \E v \in Iv : staging' = [staging EXCEPT !.iv = v]
  /\ staging_dirty' = TRUE
  /\ UNCHANGED <<config, desc, log_dirty, pending, pages, loop, connected>>

\* OP_CONFIG_COMMIT
ConfigCommit ==
  /\ "staging" \in Commands
  /\ IF connected
     THEN pending' = pending \union {"config"} /\ UNCHANGED <<page60, staging_dirty>>
     ELSE /\ \/ page60' = staging /\ staging_dirty' = FALSE
             \/ page60' \in FailedWrite(page60) /\ UNCHANGED staging_dirty
          /\ UNCHANGED pending
  /\ UNCHANGED <<config, desc, staging, log_dirty, page61, page59, loop, connected>>

\* OP_CONFIG_RESET: the globals but not the log's configuration.
ConfigReset ==
  /\ "staging" \in Commands
  /\ tx' = DefaultTx
  /\ staging' = [tx |-> DefaultTx, iv |-> iv]
  /\ staging_dirty' = TRUE
  /\ UNCHANGED <<iv, desc, log_dirty, pending, pages, loop, connected>>

-----------------------------------------------------------------------------
(* The hardware descriptor and the log's erasure.                          *)

\* OP_HWDESC_SET
DescSet ==
  /\ "desc" \in Commands
  /\ desc' \in Desc
  /\ UNCHANGED <<config, stage, log_dirty, pending, pages, loop, connected>>

\* OP_HWDESC_COMMIT
DescCommit ==
  /\ "desc" \in Commands
  /\ IF connected
     THEN pending' = pending \union {"desc"} /\ UNCHANGED page59
     ELSE SaveDesc(desc) /\ UNCHANGED pending
  /\ UNCHANGED <<config, desc, stage, log_dirty, page60, page61, loop, connected>>

\* HWSAVE!, and TAG! and UPTIMECLR! that change the descriptor too: at once,
\* with or without a client.
DescSave ==
  /\ "desc" \in Commands
  /\ \E d \in Desc : desc' = d /\ SaveDesc(d)
  /\ UNCHANGED <<config, stage, log_dirty, pending, page60, page61, loop, connected>>

\* The erasure of the log, as far as the header goes: OP_LOG_ERASE puts it off
\* while a client is connected; ERASE! and "log clear" do not.
LogErase ==
  /\ "log_erase" \in Commands
  /\ \/ connected /\ pending' = pending \union {"erase"} /\ UNCHANGED page61
     \/ page61' \in ClearedHeader(page61) /\ UNCHANGED pending
  /\ UNCHANGED <<config, desc, stage, log_dirty, page60, page59, loop, connected>>

-----------------------------------------------------------------------------
(* Resets.                                                                 *)

Unwritten == {[page |-> page61, dirty |-> log_dirty]}

\* OP_REBOOT saves the configuration and the log's, then resets.
OpRebootMutant ==          \* the log's is forgotten
  /\ "reboot" \in Commands
  /\ \E p \in IF "config" \in pending THEN {Built} \union FailedWrite(page60) ELSE {page60} :
       Boot(p, page61, page59)
OpReboot ==
  /\ "reboot" \in Commands
  /\ \E r \in IF "log" \in pending THEN CommitResults(iv, log_dirty) ELSE Unwritten,
        p \in IF "config" \in pending THEN {Built} \union FailedWrite(page60) ELSE {page60} :
       Boot(p, r.page, page59)

\* The UART "reset": nothing is saved.
UartReset == "restart" \in Commands /\ Boot(page60, page61, page59)

\* Shutdown, by a long press or by "sleep", saves the descriptor only; the
\* next press starts the device again.
Shutdown ==
  /\ "restart" \in Commands
  /\ \E d \in {desc} \union FailedWrite(page59) : Boot(page60, page61, d)

\* Power fails between the erase of a page and the end of its programming,
\* after a page saved before it by the same command or block.
CutInSave ==
  /\ "cut" \in Faults
  /\ \/ /\ "config" \in pending \/ Commands \intersect {"cfg_write", "uart_save", "staging"} # {}
        /\ \E b \in {page61} \union (IF log_dirty THEN {iv} ELSE {}) : Boot(NoData, b, page59)
     \/ /\ log_dirty \/ "log_erase" \in Commands
        /\ \E a \in {page60} \union (IF "config" \in pending THEN {Built} ELSE {}) :
             Boot(a, NoData, page59)
     \/ Boot(page60, page61, NoData)

-----------------------------------------------------------------------------
(* The main loop.                                                          *)

\* What the deferred block saves of the configuration, the log's and the
\* descriptor, and the header it leaves after a deferred erase.
DeferredSavesMutant ==     \* the log's request is forgotten with the configuration's
  /\ IF "config" \in pending THEN SaveConfig(Built) ELSE UNCHANGED page60
  /\ UNCHANGED <<page61, log_dirty>>
  /\ IF "desc" \in pending THEN SaveDesc(desc) ELSE UNCHANGED page59
  /\ pending' = {}
DeferredSaves ==
  /\ IF "config" \in pending THEN SaveConfig(Built) ELSE UNCHANGED page60
  /\ \E r \in IF "log" \in pending THEN CommitResults(iv, log_dirty) ELSE Unwritten :
       /\ log_dirty' = r.dirty
       /\ page61' \in IF "erase" \in pending THEN ClearedHeader(r.page) ELSE {r.page}
  /\ IF "desc" \in pending THEN SaveDesc(desc) ELSE UNCHANGED page59
  /\ pending' = {}

\* Past the block: no client, CPU2 idle, and each request is forgotten when
\* it is tried.
DeferredMutant ==          \* entered for the configuration only
  /\ loop = "block" /\ ~connected /\ "config" \in pending
  /\ DeferredSaves
  /\ loop' = "rest"
  /\ UNCHANGED <<config, desc, stage, connected>>
Deferred ==
  /\ loop = "block" /\ ~connected
  /\ DeferredSaves
  /\ loop' = "rest"
  /\ UNCHANGED <<config, desc, stage, connected>>

\* Past the block without doing it: a client, or CPU2 is busy.
SkipBlock ==
  /\ loop = "block"
  /\ loop' = "rest"
  /\ UNCHANGED <<config, desc, stage, log_dirty, pending, pages, connected>>

\* The rest of an iteration; in mode CONT the program stays in a loop of its
\* own until the mode changes.
RestOfLoop ==
  /\ loop = "rest"
  /\ loop' = IF tx \in ContTx THEN "cont" ELSE "block"
  /\ UNCHANGED <<config, desc, stage, log_dirty, pending, pages, connected>>

\* The periodic save of the descriptor.
PeriodicSave ==
  /\ loop = "rest" /\ ~connected
  /\ SaveDesc(desc)
  /\ UNCHANGED <<config, desc, stage, log_dirty, pending, page60, page61, loop, connected>>

\* The CONT loop looks at one of the requests.
ContSave ==
  /\ loop = "cont" /\ tx \in ContTx
  /\ "config" \in pending /\ ~connected
  /\ pending' = pending \ {"config"}
  /\ SaveConfig(Built)
  /\ UNCHANGED <<config, desc, stage, log_dirty, page61, page59, loop, connected>>

LeaveCont ==
  /\ loop = "cont" /\ tx \notin ContTx
  /\ loop' = "block"
  /\ UNCHANGED <<config, desc, stage, log_dirty, pending, pages, connected>>

Connect ==
  /\ ~connected /\ connected' = TRUE
  /\ UNCHANGED <<config, desc, stage, log_dirty, pending, pages, loop>>

Disconnect ==
  /\ connected /\ connected' = FALSE
  /\ UNCHANGED <<config, desc, stage, log_dirty, pending, pages, loop>>

-----------------------------------------------------------------------------

\* A device started from a saved configuration.
Init ==
  /\ tx \in Tx /\ iv \in Iv /\ desc \in Desc
  /\ page60 = Built /\ page61 = iv /\ page59 = desc
  /\ staging = Built /\ staging_dirty = FALSE
  /\ log_dirty = TRUE
  /\ pending = {} /\ connected = FALSE /\ loop = "block"

Command ==
  \/ SetTx \/ SetInterval \/ SetAccelInterval \/ LogSet \/ LogSave
  \/ CfgWrite \/ Save \/ UartSave
  \/ ConfigWrite \/ ConfigCommit \/ ConfigReset
  \/ DescSet \/ DescCommit \/ DescSave \/ LogErase

Restart == OpReboot \/ UartReset \/ Shutdown \/ CutInSave

MainLoop == Deferred \/ SkipBlock \/ RestOfLoop \/ PeriodicSave \/ ContSave \/ LeaveCont

Next == Command \/ Restart \/ MainLoop \/ Connect \/ Disconnect

Spec == Init /\ [][Next]_vars

\* The main loop goes round, and CPU2 is idle at some of the passes of the
\* deferred block that find no client.
FairSpec ==
  /\ Spec
  /\ WF_vars(SkipBlock) /\ WF_vars(RestOfLoop) /\ WF_vars(LeaveCont)
  /\ SF_vars(Deferred) /\ SF_vars(ContSave)

-----------------------------------------------------------------------------
(* Properties.                                                             *)

\* Every variable has a value of its type.
TypeOK ==
  /\ tx \in Tx /\ iv \in Iv /\ desc \in Desc
  /\ staging \in Config /\ staging_dirty \in BOOLEAN /\ log_dirty \in BOOLEAN
  /\ pending \subseteq Pending
  /\ page60 \in Config \union {NoData} /\ page61 \in Iv \union {NoData}
  /\ page59 \in Desc \union {NoData}
  /\ loop \in {"block", "rest", "cont"} /\ connected \in BOOLEAN

\* A setting that the next start would not load and nobody is asked to save
\* (g_config_save_pending, g_log_cfg_save_pending).
TxLeft == LoadedTx(page60) # tx /\ "config" \notin pending
IvLeft == LoadedIv(page61) # iv /\ "log" \notin pending

\* A log configuration that is not on page 61 while FlashLog_CommitConfig takes
\* it for written: it returns 0 and writes nothing.
Silent == LoadedIv(page61) # iv /\ ~log_dirty

\* The saves of this step that failed, whose result the code forgets or only
\* reports.
ConfigFails == page60' \in FailedWrite(page60) /\ (Save \/ UartSave \/ Deferred \/ ContSave)
HeaderFails == page61' \in FailedWrite(page61)
               /\ (SetAccelInterval \/ LogSave \/ Save \/ LogErase \/ Deferred)

\* A setting is left in RAM only, with nobody asked to save it, by these and by
\* nothing else, whatever the commands, saves, failures, resets and power cuts:
\*   - CFG!, "log" and OP_SENSOR_INTERVAL, which request no save of what they
\*     change on the page a start reads it from, and OP_CONFIG_RESET;
\*   - OP_CONFIG_COMMIT, which saves the staging buffer, not the settings;
\*   - a save that fails, or that FlashLog_CommitConfig skips silently.
SettingsStored ==
  [][/\ TxLeft' => TxLeft \/ CfgWrite \/ ConfigReset \/ (ConfigCommit /\ ~connected) \/ ConfigFails
     /\ IvLeft' => IvLeft \/ SetInterval \/ LogSet \/ CfgWrite \/ HeaderFails \/ Silent]_vars

\* FlashLog_Clear ignores the result of its header write (flash_log.c:525).
ClearFails == page61' = NoData /\ (LogErase \/ (Deferred /\ "erase" \in pending))

\* The log's configuration comes to be taken for written when it is not by one
\* failure only: the erasure of the log that leaves page 61 blank.  Whatever
\* other command or write fails, the next commit tries again.
NoSilentCommit == [][Silent' => Silent \/ ClearFails]_vars

\* OP_REBOOT starts the device with the settings it had.
RebootKeepsSettings == [][OpReboot => tx' = tx /\ iv' = iv]_vars

\* Whatever was put off is done, provided the deferred block is passed
\* without a client again and again.
PassedAlone == loop = "block" /\ ~connected
DeferredDone == []<>PassedAlone => \A k \in Pending : k \in pending ~> k \notin pending

\* The pages are the stable copy of a write-back store.
Back == INSTANCE WriteBack WITH
          Key <- {"tx", "iv"}, Value <- Tx \union Iv,
          Default <- [k \in {"tx", "iv"} |-> IF k = "tx" THEN DefaultTx ELSE DefaultIv],
          cur <- [k \in {"tx", "iv"} |-> IF k = "tx" THEN tx ELSE iv],
          saved <- [k \in {"tx", "iv"} |->
                      IF k = "tx" THEN LoadedTx(page60) ELSE LoadedIv(page61)],
          unsaved <- {k \in {"tx", "iv"} :
                        IF k = "tx" THEN "config" \in pending ELSE "log" \in pending}
ImplementsWriteBack == Back!Spec
=============================================================================
