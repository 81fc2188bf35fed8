SPECIFICATION ReportSpec

CONSTANTS
  gcs = gcs
  d1 = d1
  Gcs <- gcs
  Drones <- OneDrone
  Self <- d1
  Role = "SCOUT"
  SilentConsensus = FALSE
  MaxTx = 1
  MaxRounds = 2
  MaxArrivals = 1
  MaxPending = 1

INVARIANT TasksOutliveTheirUse
