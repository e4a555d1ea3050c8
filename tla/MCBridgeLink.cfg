\* Two crashes or resets, and more snapshots than the buffer holds.
SPECIFICATION FairSpec
CONSTANTS
  Sockets = {a, b}
  NoSocket = NoSocket
  MaxDelay = 2
  MaxBuffered = 2
  MaxSnapshots = 4
  MaxInbox = 2
  MaxBreaks = 2
  DegradedAfter = 1
  LostAfter = 2
INVARIANTS
  TypeOK
  OneLifeline
  HelloComesFirst
  SnapshotsInOrder
PROPERTIES
  LostIsNotResurrected
  Reconnects
