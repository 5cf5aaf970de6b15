SPECIFICATION FairSpec
CONSTANTS
  Requests = {r1, r2}
  Classes = {"read", "write"}
  BarrierKinds = {}
  Limit = 1
  MaxVersion = 3
  MaxUncertain = 0
PROPERTIES
  PendingPublished
