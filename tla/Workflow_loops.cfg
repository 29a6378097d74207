\* One run over a tree whose databases and schemas have children of the same
\* names, with up to four faults: the nested loops and their bookkeeping.
SPECIFICATION Spec
CONSTANTS
  r1 = r1
  r2 = r2
  svc = svc
  db = db
  db2 = db2
  public = public
  sales = sales
  orders = orders
  items = items
  invoices = invoices
  Name = {svc, db, db2, public, sales, orders, items, invoices}
  Runs = {r1}
  Snapshot <- OneWideVersion
  MaxFaults = 4
  Serial = FALSE
INVARIANTS
  Genuine
  FaithfulReport
\* Every run ends, and no run need be started again.
CHECK_DEADLOCK FALSE
