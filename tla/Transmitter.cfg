SPECIFICATION FairSpec
CONSTANTS
  Prebuffer = 2
  LiveLimit = 3
  FullLimit = 4
  Burst = 2
  MaxOvers = 3
INVARIANTS
  TypeOK
  NothingStale
  CarrierFollowsKey
  AmplifierOff
PROPERTY
  RunEnds
