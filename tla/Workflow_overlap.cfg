\* Two runs that overlap in any way, over two versions of the source, with up
\* to two faults.  Runs are interchangeable.
SPECIFICATION Spec
CONSTANTS
  r1 = r1
  r2 = r2
  svc = svc
  db = db
  db2 = db2
  public = public
  sales = sales
  orders = orders
  items = items
  invoices = invoices
  Name = {svc, db, db2, public, sales, orders, items, invoices}
  Runs = {r1, r2}
  Snapshot <- TwoVersions
  MaxFaults = 2
  Serial = FALSE
SYMMETRY Symmetry
INVARIANTS
  TypeOK
  ParentsFirst
  NothingMissed
PROPERTIES
  ImplementsSync
\* Every run ends, and no run need be started again.
CHECK_DEADLOCK FALSE
