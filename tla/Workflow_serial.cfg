\* Two runs one after the other, over two versions of the source, with up to
\* three faults, under fairness: what a rerun does to what the run before it left
\* behind.  No symmetry, for the liveness property.
SPECIFICATION FairSpec
CONSTANTS
  r1 = r1
  r2 = r2
  svc = svc
  db = db
  db2 = db2
  public = public
  sales = sales
  orders = orders
  items = items
  invoices = invoices
  Name = {svc, db, db2, public, sales, orders, items, invoices}
  Runs = {r1, r2}
  Snapshot <- TwoVersions
  MaxFaults = 3
  Serial = TRUE
INVARIANTS
  NoLostUpdate
PROPERTIES
  OnlyStraysRegress
  RerunIdempotent
  RunsEnd
\* Every run ends, and no run need be started again.
CHECK_DEADLOCK FALSE
