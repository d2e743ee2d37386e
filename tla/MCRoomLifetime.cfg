CONSTANTS
  r1 = r1
  r2 = r2
  r3 = r3
  a = a
  b = b
  c1 = c1
  c2 = c2
  closer = closer
  NoRoom = NoRoom
  Rooms = {r1, r2}
  Names = {a}
  NameOf <- MCNameOf
  Callers = {c1, c2}
  Stuck = {c2}
  MaxBroadcasts = 1
SPECIFICATION Spec
INVARIANTS TypeOK HashedAlive RefsCounted PinnedAlive ProducerInside SweepsInside
PROPERTIES OwnEntryDeleted
CHECK_DEADLOCK FALSE
SYMMETRY SameName
