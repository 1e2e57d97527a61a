\* A reader of the event and one of the list, an update, a delete and a create, every fault.
SPECIFICATION FairSpec
CONSTANTS
  s1 = s1  l1 = l1  l2 = l2
  w1 = w1  w2 = w2  w3 = w3
  Readers = {s1, l1}
  Kind <- MCKind
  Writers = {w1, w2, w3}
  Write <- MCWrite
  MaxVersion = 4
  Faults = {"crash", "redis_restart"}
  MaxRestarts = 1
  Missing = Missing
INVARIANTS TypeOK CurrentListIsFresh ListsShowBumpedWrites
PROPERTIES CacheConverges
