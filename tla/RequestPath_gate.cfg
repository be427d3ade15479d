CONSTANTS
  o1 = o1
  o2 = o2
  o3 = o3
  a = a
  b = b
  NoOrigin = NoOrigin
  Star = Star
  Origins <- MCOrigins
  Schemes <- MCSchemes
  Verified <- MCSchemes
  Layers <- MCLayers
  GroupLists <- MCGroupLists
  OptionLists <- MCOptionLists
  Keys <- MCKeys
  RawKeys <- MCRawKeys
  CorsOptions <- MCCors
  Documented <- DocumentedA
  Hooks <- OneHook
  Fields <- MCFields
  Requests <- MCRequests
  Names <- MCNames
  MaxInherited = 4
  MaxEndpoints = 1
  MaxRequests = 2
SPECIFICATION Spec
CHECK_DEADLOCK FALSE
INVARIANT
  ContractIsGate
