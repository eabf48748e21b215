\* Up to four destinations of up to five edges, hubs of two and three slices;
\* up to three destinations are opened again, against every task record.
SPECIFICATION StorageSpec
CONSTANTS
  EdgeSlice = 2
  MaxTaskEdges = 3
  MaxTaskVertices = 2
  MaxCount = 5
  DestinationLimit = 4
  MaxDestinations = 3
  Offers <- MCOffers
INVARIANTS BuiltIsCanonical OpensWhatWasBuilt
CHECK_DEADLOCK FALSE
