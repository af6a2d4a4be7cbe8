SPECIFICATION FairSpec
CONSTANTS
  Threads = {t1, t2}
  NoThread = none
  Types = {audio, text}
  Capacities = {1, 2}
  MaxQueues = 2
  MaxEvents = 3
INVARIANTS
  TypeOK
  FanOutComplete
  OrderedWindow
  NoHollowEvent
PROPERTIES
  RegistryReleased
