CONSTANTS
  k1 = k1
  a = a
  b = b
  p1 = p1
  p2 = p2
  NoKey = NoKey
  Keys <- MCOneKey
  Tags <- MCTags
  Threads <- MCThreads
  PoliciesOf <- MCSlidingPolicies
  MaxSets = 2
  MaxClock = 2
SPECIFICATION FairSpec
PROPERTIES
  ExpiredLeaves
  SweeperStops
  ExactInvalidation
