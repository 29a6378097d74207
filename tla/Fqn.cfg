\* The four levels service, database, schema and table, with names of up to two
\* characters.
SPECIFICATION Spec
CONSTANTS
  Dot = Dot
  Quote = Quote
  a = a
  Others = {a}
  MaxLength = 2
  MaxDepth = 4
INVARIANTS
  Unambiguous
  AppendIsBuild
\* A table has no child.
CHECK_DEADLOCK FALSE
