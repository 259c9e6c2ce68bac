SPECIFICATION Spec
CONSTANTS
  N = 3
  lane1 = lane1
  lane2 = lane2
  Lanes = {lane1, lane2}
  NoLane = NoLane
  Batches <- SmallBatches
  MaxInterrupts = 1
INVARIANTS
  LaneExclusive
  ConsumerSeesEvidence
  EvidenceOrdered
  CallComplete
PROPERTIES
  PublishedIsFinal
