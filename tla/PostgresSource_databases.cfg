\* All databases of the server, two of them, each with up to three schemas, a
\* system schema and one that is filtered out among them.
SPECIFICATION Spec
CONSTANTS
  postgres = postgres
  app = app
  information_schema = information_schema
  public = public
  scratch = scratch
  audit = audit
  items = items
  orders = orders
  id = id
  name = name
  other = other
  NoDatabase = NoDatabase
  Postgres = postgres
  SystemSchemas = {information_schema}
  DbNames = {postgres, app}
  Database = app
  IngestAllDatabases = TRUE
  Private = {}
  SchemaNames <- ThreeSchemas
  TableNames <- OrdersOnly
  Definitions <- TableOnly
  MaxChanges = 1
  SchemaFilter <- NoScratch
  TableFilter <- Everything
  IncludeTables = TRUE
  IncludeViews = TRUE
INVARIANTS
  TypeOK
  StableIsExact
  HandlesClosed
PROPERTIES
  PrepareValidates
\* The source has nothing to do once Extract has returned.
CHECK_DEADLOCK FALSE
