SPECIFICATION Spec
CONSTANTS
  Contents <- MCContents
  Size <- MCSize
  Empty = Empty
  Cut = Cut
  Mixed = Mixed
  Gone = Gone
  Unread = Unread
  Attempts = 3
  MaxChanges = 2
INVARIANT NeverEmpty
