\* The documented use, every use with a schema that can be read, and one that cannot.
SPECIFICATION Spec
CONSTANTS
  t1 = t1
  t2 = t2
  Absent = Absent
  Tables <- TwoTables
  Shapes <- TheShapes
  TableInfo <- TheTableInfo
  Programs <- EachUse
  MaxNest = 2
INVARIANTS TypeOK RowsCarryTheirNames MissedOnce
