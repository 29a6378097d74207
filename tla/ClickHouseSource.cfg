\* A database and a system database of two tables or views each, under changes
\* without end between three catalogs, under fairness; views are not included.
SPECIFICATION FairSpec
CONSTANTS
  default = default
  system = system
  shop = shop
  items = items
  orders = orders
  id = id
  name = name
  day = day
  NoDatabase = NoDatabase
  Default = default
  DbNames = {default}
  SystemSchemas = {system}
  Database = shop
  SchemaNames <- SystemAndShop
  TableNames <- ItemsAndOrders
  Definitions <- TableAndView
  MaxChanges = 2
  SchemaFilter <- Everything
  TableFilter <- Everything
  IncludeTables = TRUE
  IncludeViews = FALSE
INVARIANTS
  TypeOK
  StableIsExact
  OneMoment
PROPERTIES
  PoolReleased
\* Nothing is left to do once the command has ended.
CHECK_DEADLOCK FALSE
