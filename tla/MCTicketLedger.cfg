\* Three tickets of a type with up to two seats, one of another.
SPECIFICATION Spec
CONSTANTS
  a = a  b = b
  t1 = t1  t2 = t2  t3 = t3  t4 = t4
  Types = {a, b}
  Tickets = {t1, t2, t3, t4}
  TypeOf <- MCTypeOf
  MaxQuantity = 2
SYMMETRY SameType
INVARIANTS TypeOK Balanced NoOversellWithoutExcess RowsHaveTypes
PROPERTIES NeverRevived
