SPECIFICATION CsvSpec
CONSTANTS
  Events <- MCEvents
  Supported <- MCSupported
  PMUs <- MCPMUs
  BaseEvents = 3
  MaxGroupEvents = 5
  MaxRequested = 5
  MaxRows = 4
  MaxTick = 2
INVARIANTS
  EventsPlacedOnce
  ColumnsOwnEvents
  ScaledRight
