CONSTANTS
  DayLen = 3
  Budget = 8
  FieldSize = 1
  MaxTTL = 2
  Zones <- SomeZones
  LocalTimes = {0, 1, 2, 3}
  Messages <- SomeMessages
  ShardCount = 3
  Launches <- SomeLaunches
  MaxClock = 7
  MaxErrors = 1
SPECIFICATION FairSpec
INVARIANTS FirstOccurrence OncePerDate EveryShardOnce
 
