SPECIFICATION AnySpec
CONSTANTS
  MaxInterval = 1
  FirstIv = 1
  Workers = {w1, w2}
  Capacity = 3
  Page = 1
  Batch = 2
  MaxRetries = 2
  Chains = {1, 2}
  MaxSerial = 5
  MaxStarts = 2
  MaxSends = 4
  MaxLines = 2
  Pages = {67, 68}
  Rows = 2
  MaxReads = 3
  MaxWire = 1
  MaxTimers = 1
  Keys <- TwoKeys
  Main = main
  MaxRequests = 3
INVARIANTS TypesOK SettledShowsBeacon AppliedIsSaved DownloadExact PausedForAReason ReportIsTrue PageIsShown LabelIsTrue EndsAsAnswered MainReadsNothing
VIEW Seen
SYMMETRY Symmetry
CHECK_DEADLOCK FALSE
