\* A table whose key changes between the query for its columns and the query
\* for its key.
SPECIFICATION Spec
CONSTANTS
  postgres = postgres
  app = app
  information_schema = information_schema
  public = public
  scratch = scratch
  audit = audit
  items = items
  orders = orders
  id = id
  name = name
  other = other
  NoDatabase = NoDatabase
  Postgres = postgres
  SystemSchemas = {information_schema}
  DbNames = {postgres}
  Database = postgres
  IngestAllDatabases = FALSE
  Private = {}
  SchemaNames <- OneSchema
  TableNames <- OrdersOnly
  Definitions <- TwoTables
  MaxChanges = 1
  SchemaFilter <- Everything
  TableFilter <- Everything
  IncludeTables = TRUE
  IncludeViews = TRUE
INVARIANTS
  KeyNamesColumns
\* The source has nothing to do once Extract has returned.
CHECK_DEADLOCK FALSE
