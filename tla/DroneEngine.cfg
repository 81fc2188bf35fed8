SPECIFICATION VehicleSpec

CONSTANTS
  gcs = gcs
  d1 = d1
  d2 = d2
  Gcs <- gcs
  Drones <- DronePair
  Self <- d1
  Role = "SCOUT"
  SilentConsensus = FALSE
  MaxTx = 2
  MaxRounds = 4
  MaxArrivals = 3
  MaxPending = 1
  Target <- BothSides
  Tolerance = 1
  MaxStep = 4

INVARIANT TypeOK
INVARIANT EnteredOnce
INVARIANT IdleAlone
INVARIANT EmergencySequenceFirst
INVARIANT ReportedTypeIsActive
INVARIANT OneVotePerTransaction
PROPERTY LandingOnlyAfterFailSafe
PROPERTY MissionLeavesQueue
PROPERTY EmergencyLands
INVARIANT VehicleTypeOK
INVARIANT StoppedUnlessFlying
PROPERTY NeverPassesTarget
PROPERTY MissionEndsAtTarget
PROPERTY EngineSpec
