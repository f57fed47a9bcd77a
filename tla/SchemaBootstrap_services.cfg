SPECIFICATION FairSpec
CHECK_DEADLOCK FALSE
CONSTANTS
  api1 = api1
  api2 = api2
  consumer = consumer
  Service = {api1, api2, consumer}
  Table <- MCTable
  Index <- MCIndex
  Tables <- SortedTables
  Indexes <- Declared
  Provided <- InitSql
  Volumes <- Phases
  MaxCrashes = 2
INVARIANTS
  SchemaBeforeTraffic
  TablesWhole
PROPERTIES
  EveryServiceStarts
