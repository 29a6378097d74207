\* A table whose key is not in the order of its columns; nothing changes.
SPECIFICATION Spec
CONSTANTS
  default = default
  system = system
  shop = shop
  items = items
  orders = orders
  id = id
  name = name
  day = day
  NoDatabase = NoDatabase
  Default = default
  DbNames = {default}
  SystemSchemas = {system}
  Database = NoDatabase
  SchemaNames <- SystemAndShop
  TableNames <- ItemsAndOrders
  Definitions <- TableAndView
  MaxChanges = 0
  SchemaFilter <- Everything
  TableFilter <- Everything
  IncludeTables = TRUE
  IncludeViews = FALSE
INVARIANTS
  KeyInOrder
\* Nothing is left to do once the command has ended.
CHECK_DEADLOCK FALSE
