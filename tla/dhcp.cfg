SPECIFICATION FairSpec
CONSTANTS
  Servers = {"a", "b"}
  Pool <- MCPool
  Modes <- MCModes
  Lease = 7
  Margin = 5
  Life = 1
  Assumed = 0
  MaxNet = 2
  Zero = "0.0.0.0"
  Default = "default"
INVARIANTS
  BoundHasLease
PROPERTIES
  EventuallyBound
