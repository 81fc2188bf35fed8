SPECIFICATION GcsSpec

CONSTANTS
  gcs = gcs
  d1 = d1
  d2 = d2
  Gcs <- gcs
  Self <- gcs
  Drones <- DronePair
  Role = "SCOUT"
  SilentConsensus = FALSE
  MaxTx = 1
  MaxRounds = 1
  MaxArrivals = 4
  MaxPending = 1
  PeersGetLost = TRUE
  TornReads = FALSE
  MaxEpochs = 1

SYMMETRY AnyDrones

INVARIANT GcsTypeOK
INVARIANT NoOrderForAborted
PROPERTY CommitSpec
