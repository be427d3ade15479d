CONSTANTS
  k1 = k1
  a = a
  b = b
  p1 = p1
  p2 = p2
  NoKey = NoKey
  NoTag = NoTag
  Keys <- MCKeys
  Tags <- MCTags
  Threads <- MCThreads
  PoliciesOf <- MCPolicies
  MaxSets = 2
  MayFail = TRUE
SPECIFICATION Spec
SYMMETRY Symmetry
INVARIANTS
  TypeOK
  ListedUnlessRaced
  SurvivorsRaced
  ClearLeavesNothingOld
  LeaseOwnUnlessExposed
