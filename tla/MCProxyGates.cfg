SPECIFICATION Spec
CONSTANTS
  Requests = {r1, r2}
  Classes = {"delete"}
  BarrierKinds = {"mutations", "source"}
  Limit = 1
  MaxVersion = 3
  MaxUncertain = 1
SYMMETRY Symmetric
INVARIANTS
  CountsExact
  DrainedStaysDrained
  HeldBundleOpen
  NoLostWakeup
PROPERTIES
  NeverGoesBack
