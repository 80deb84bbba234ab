\* The same page with two waiting, for what ADR 0059 says of searching again.
SPECIFICATION ConnectSpec
CONSTANTS
  x = x
  y = y
  z = z
  Records <- MCRecords
  Gone = Gone
  None = None
  Filters <- MCFilters
  Connected <- MCConnected
  Links <- MCLinks
  MaxHistory = 2
  MaxPending = 2
INVARIANTS NeverLockedOut
