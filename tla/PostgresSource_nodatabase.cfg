\* No database is configured, nor are all of them.
SPECIFICATION Spec
CONSTANTS
  postgres = postgres
  app = app
  information_schema = information_schema
  public = public
  scratch = scratch
  audit = audit
  items = items
  orders = orders
  id = id
  name = name
  other = other
  NoDatabase = NoDatabase
  Postgres = postgres
  SystemSchemas = {information_schema}
  DbNames = {postgres}
  Database = NoDatabase
  IngestAllDatabases = FALSE
  Private = {}
  SchemaNames <- OneSchema
  TableNames <- OrdersOnly
  Definitions <- TableAndView
  MaxChanges = 1
  SchemaFilter <- Everything
  TableFilter <- Everything
  IncludeTables = TRUE
  IncludeViews = TRUE
PROPERTIES
  PrepareValidates
\* The source has nothing to do once Extract has returned.
CHECK_DEADLOCK FALSE
