SPECIFICATION Spec
CONSTANTS
  Tx = {t1, t2}
  ContTx = {t2}
  Iv = {i1, i2}
  Desc = {d1, d2}
  DefaultTx = t1
  DefaultIv = i1
  DefaultDesc = d1
  NoData = NoData
  Commands = {"tx_set", "accel_interval", "uart_save", "desc", "log_erase", "reboot", "restart"}
  Faults = {"cut"}
INVARIANT TypeOK
PROPERTY SettingsStored
PROPERTY RebootKeepsSettings
PROPERTY ImplementsWriteBack
