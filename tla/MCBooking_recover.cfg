\* One Redis database under fairness: a fault while tickets are reserved, released and refunded.
SPECIFICATION FairSpec
CONSTANTS
  a = a  b = b
  t1 = t1  t2 = t2  t3 = t3  t4 = t4
  b1 = b1  b2 = b2  c1 = c1  c2 = c2  p1 = p1  d1 = d1  r1 = r1  s1 = s1  g1 = g1
  None = None
  Types = {a}
  Tickets = {t1, t2}
  TypeOf <- OneType
  Capacity0 <- TwoSeats
  MaxQuantity = 2
  Buyers = {b1}
  Payers = {}
  Cancelers = {}
  Admins = {}
  Releasers = {r1}
  Sweepers = {s1}
  Collectors = {g1}
  Target <- AllTargetA
  ApiDb = 0
  WorkerDb = 0
  Faults = {"crash", "task_error", "slow_commit"}
  MaxFaults = 1
INVARIANTS RefundedOnce
PROPERTIES HungReleased GhostsReclaimed
