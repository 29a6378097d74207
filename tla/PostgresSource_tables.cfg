\* Three tables of one schema, of which a filter keeps two, that are dropped,
\* created, altered and replaced by views, any number of times between three
\* catalogs, under fairness.
SPECIFICATION FairSpec
CONSTANTS
  postgres = postgres
  app = app
  information_schema = information_schema
  public = public
  scratch = scratch
  audit = audit
  items = items
  orders = orders
  id = id
  name = name
  other = other
  NoDatabase = NoDatabase
  Postgres = postgres
  SystemSchemas = {information_schema}
  DbNames = {postgres}
  Database = postgres
  IngestAllDatabases = FALSE
  Private = {}
  SchemaNames <- OneSchema
  TableNames <- ThreeTables
  Definitions <- TableAndView
  MaxChanges = 2
  SchemaFilter <- Everything
  TableFilter <- NoAudit
  IncludeTables = TRUE
  IncludeViews = FALSE
INVARIANTS
  StableIsExact
  ChangingIsRegular
PROPERTIES
  ExtractEnds
\* The source has nothing to do once Extract has returned.
CHECK_DEADLOCK FALSE
