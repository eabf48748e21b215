\* Every text of up to two rows, with integers from -12 to 11; two endpoints
\* of the second row go into a run of their own.
SPECIFICATION IngestSpec
CONSTANTS
  Digit <- MCDigit
  PositiveLimit = 11
  EndpointIdsPerRun = 3
  WriterBufferBytes = 3
  RawRecordBytes = 2
  IdRecordBytes = 1
  CsvByteLimit = 12
INVARIANTS ParsesExactlyTheGrammar RunsHoldTheText IngestFitsItsPlan HeaderOnlyWhenWhole FailureLeavesNothing
CHECK_DEADLOCK FALSE
