\* A call, its retry and a call with another payload, and every fault.
SPECIFICATION FairSpec
CONSTANTS
  r1 = r1  r2 = r2  r3 = r3  r4 = r4
  Requests = {r1, r2, r4}
  Payload <- MCPayload
  Faults = {"ttl", "error", "crash"}
  NoRecord = NoRecord
  NoAnswer = NoAnswer
INVARIANTS TypeOK ExecutedOnce
PROPERTIES CompletedStays ImplementsOnce KeyComesFree
