SPECIFICATION FairSpec
CONSTANTS
  None = None
  Torn = Torn
  n1 = n1
  n2 = n2
  Node = {n1, n2}
INVARIANTS
  TypeOK
  AtMostOneLeader
  InfoFileIntact
  OwnedRedisUnderLock
  LeaderPublished
PROPERTIES
  InfoFileNamesHolder
  OrphansComeFromDeath
  Implements
  FollowersLearnLeader
  RedisRestarted
  ShutdownEnds
