SPECIFICATION Spec
CONSTANTS
  Alerts = {3}
  Drafts = {1, 2}
  None = 0
  MaxEvents = 3
  Warehouse <- MCWarehouse
  maxDescribedTables = 2
  describeConcurrency = 2
  maxContextLines = 3
  Asks = {1, 2, 3, 4, 5, 6}
  Arrivals <- MCArrivals
  Callers = {"jane", "joe"}
  Budget = 2
  Window = 2
  MaxClock = 3
  Requests = {1, 2}
  Shapes <- MCShapes
  ColumnTypes = {"int32", "int64", "uint64", "date", "binary"}
  Limits = {0, 1, 3, 4}
  defaultMaxRows = 2
  maxMaxRows = 3
  FloatExact = 8
  Lookups = {1, 2, 3}
  Boxes = {"b", "c"}
  MaxBoxChanges = 2
  MaxDeploys = 2
  Configs <- MCConfigs
  maxErrorContextBytes = 6
  maxFailedModelLines = 2
  maxMessageBytes = 1
  MaxText = 7
  MaxNodes = 3
  MaxTables = 3
INVARIANTS HandledOnce Limited TenantBound GridExact OneKeySet AdvertisedServed SecretsStay
PROPERTIES AsksEnd StopEnds
CHECK_DEADLOCK FALSE
