\* A schema and a system schema of two tables or views each, that are dropped,
\* created and replaced, any number of times between three catalogs, under
\* fairness; views are not included.
SPECIFICATION FairSpec
CONSTANTS
  default = default
  sys = sys
  shop = shop
  items = items
  orders = orders
  id = id
  name = name
  NoDatabase = NoDatabase
  Default = default
  DbNames = {default}
  SystemSchemas = {sys}
  Database = shop
  SchemaNames <- ShopAndSys
  TableNames <- ItemsAndOrders
  Definitions <- TableAndView
  MaxChanges = 2
  SchemaFilter <- Everything
  TableFilter <- Everything
  IncludeTables = TRUE
  IncludeViews = FALSE
INVARIANTS
  TypeOK
  StableIsExact
  ChangingIsRegular
PROPERTIES
  PoolReleased
\* Nothing is left to do once the command has ended.
CHECK_DEADLOCK FALSE
