\* The wiring as deployed, one process of every kind, one fault of any kind.
SPECIFICATION Spec
CONSTANTS
  a = a  b = b
  t1 = t1  t2 = t2  t3 = t3  t4 = t4
  b1 = b1  b2 = b2  c1 = c1  c2 = c2  p1 = p1  d1 = d1  r1 = r1  s1 = s1  g1 = g1
  None = None
  Types = {a}
  Tickets = {t1, t2}
  TypeOf <- OneType
  Capacity0 <- TwoSeats
  MaxQuantity = 2
  Buyers = {b1}
  Payers = {p1}
  Cancelers = {c1}
  Admins = {}
  Releasers = {r1}
  Sweepers = {s1}
  Collectors = {g1}
  Target <- AllTargetA
  ApiDb = 0
  WorkerDb = 1
  Faults = {"crash", "db_error", "task_error", "redis_restart"}
  MaxFaults = 1
SYMMETRY TicketSymmetry
INVARIANTS TypeOK LockDiscipline DeadlocksNeedADeleteOrTwoSweeps
PROPERTIES ImplementsLedger
