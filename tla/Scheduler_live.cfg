SPECIFICATION FairSpec
CONSTANTS
  N = 3
  lane1 = lane1
  lane2 = lane2
  Lanes = {lane1, lane2}
  NoLane = NoLane
  Batches <- LiveBatches
  MaxInterrupts = 2
PROPERTIES
  CallEnds
