\* The wiring as deployed under fairness: deletes, release jobs of two types, one of which may be
\* lost, and the sweep that has both types in one batch, from a later state on.
SPECIFICATION LaterSpec
CONSTANTS
  a = a  b = b
  t1 = t1  t2 = t2  t3 = t3  t4 = t4
  b1 = b1  b2 = b2  c1 = c1  c2 = c2  p1 = p1  d1 = d1  r1 = r1  s1 = s1  g1 = g1
  None = None
  Types = {a, b}
  Tickets = {t1, t2, t3}
  TypeOf <- TwoTypes
  Capacity0 <- TwoSeats
  MaxQuantity = 2
  Buyers = {b1}
  Payers = {}
  Cancelers = {c1}
  Admins = {}
  Releasers = {r1}
  Sweepers = {s1}
  Collectors = {}
  Target <- TargetBoth
  ApiDb = 0
  WorkerDb = 1
  Faults = {"task_error"}
  MaxFaults = 1
PROPERTIES HungReleasedUnlessExcess CallsEnd
