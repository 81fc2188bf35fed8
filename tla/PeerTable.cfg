SPECIFICATION FairSpec

CONSTANTS
  Peers = {p1}
  Threshold = 3
  Timeout = 5
  SeqModulus = 16
  MaxDelay = 2
  MinDown = 3
  MaxLag = 1
  MaxSeq = 8
  MaxRuns = 3

INVARIANT TypeOK
INVARIANT BlackoutBounded
INVARIANT OfflineMeansSilent
PROPERTY AcceptedInOrder
PROPERTY DeathIsNoticed
