SPECIFICATION Spec
CONSTANTS
  MaxRows = 3
  MaxWrites = 3
  MaxClock = 3
  MaxFailures = 1
INVARIANTS TypeOK UserRowsFound ExtractionBound TemplatesFound
PROPERTIES RowsServed
CHECK_DEADLOCK FALSE
