SPECIFICATION FairSpec

CONSTANTS
  gcs = gcs
  d1 = d1
  d2 = d2
  Gcs <- gcs
  Drones <- DronePair
  Self <- d1
  Role = "SCOUT"
  SilentConsensus = FALSE
  MaxTx = 2
  MaxRounds = 2
  MaxArrivals = 3
  MaxPending = 2

INVARIANT NoMissionInEmergency
