\* Up to five edges: runs of three, passes of two, batches and buffers smaller.
SPECIFICATION Spec
CONSTANTS
  Inputs <- MCInputs
  EndpointIds = 2
  Fragments = {1, 64}
  IdFanIn = 2
  IdBufferRecords = 2
  RawEdgesPerRun = 3
  RawIoRecords = 2
  EdgeBufferRecords = 1
  CopyRecords = 2
  EdgeBatch = 2
  VertexLimit = 10
  EdgeSlice = 1
  MaxTaskEdges = 2
  MaxTaskVertices = 2
INVARIANTS GraphIsOfTheInput NothingIsRefused InputSurvives AdmittedPhasesFit
CHECK_DEADLOCK FALSE
