SPECIFICATION FairSpec
CONSTANTS
  Tx = {t1, t2}
  ContTx = {t2}
  Iv = {i1, i2}
  Desc = {d1}
  DefaultTx = t1
  DefaultIv = i1
  DefaultDesc = d1
  NoData = NoData
  Commands = {"tx_set", "sensor_interval", "accel_interval", "log_set", "cfg_write", "uart_save", "staging", "desc", "log_erase", "reboot", "restart"}
  Faults = {"erase", "program", "cut"}
PROPERTY SettingsStored
PROPERTY NoSilentCommit
PROPERTY DeferredDone
