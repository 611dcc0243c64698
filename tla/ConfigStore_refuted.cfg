SPECIFICATION ConfigSpec
CONSTANTS
  Unset = Unset
  Broken = Broken
  Stores = {a, b}
  Names = {n1, n2}
  RemoteNames = {k1}
  Locks = {l1}
  Hub3s = {h1}
  Remotes = {r1, r2}
  Unlucky = {}
  MaxEntries = 2
  MaxUnsaved = 0
CHECK_DEADLOCK FALSE
INVARIANTS
  EveryDefaultExists
PROPERTIES
  SyncingKeepsRemotes
  PruningSparesHub3s
  RemovedStaysRemoved
