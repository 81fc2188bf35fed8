SPECIFICATION GcsFairSpec

CONSTANTS
  gcs = gcs
  d1 = d1
  d2 = d2
  Gcs <- gcs
  Self <- gcs
  Drones <- DronePair
  Role = "SCOUT"
  SilentConsensus = FALSE
  MaxTx = 2
  MaxRounds = 1
  MaxArrivals = 4
  MaxPending = 2
  PeersGetLost = FALSE
  TornReads = FALSE
  MaxEpochs = 1

INVARIANT RoundIsAlive
INVARIANT NoOrderForAborted
PROPERTY OrderNeedsUnanimity
PROPERTY CommitSpec
PROPERTY VotingEnds
