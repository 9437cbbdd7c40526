SPECIFICATION Spec
CONSTANTS
  c1 = c1
  c2 = c2
  c3 = c3
  Columns = {c1, c2, c3}
  Fields = {c1, c2}
  Absent = Absent
  MaxOps = 4
  MaxRows = 2
INVARIANTS
  TypeOK
  StatementsExact
  AllOrNothing
  MigrateExact
