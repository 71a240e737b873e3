SPECIFICATION Spec
CONSTANTS
    Ble = {b1, b2}
    Serial = {s1}
    None = None
    AutoReconnect = TRUE
    MaxScans = 2
    MaxInbox = 2
INVARIANTS TypeOK BooksBalance
PROPERTIES SignalsEndOwnSession KeepsLooking SessionPolls
CONSTRAINT Uncrossed
