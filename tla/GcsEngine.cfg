SPECIFICATION Spec

CONSTANTS
  gcs = gcs
  d1 = d1
  d2 = d2
  Gcs <- gcs
  Drones <- DronePair
  Self <- gcs
  Role = "SCOUT"
  SilentConsensus = FALSE
  MaxTx = 2
  MaxRounds = 2
  MaxArrivals = 3
  MaxPending = 2

SYMMETRY OtherDrones

INVARIANT EnteredOnce
PROPERTY OutcomeFollowsVotes
