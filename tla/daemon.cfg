SPECIFICATION HSpec
CONSTANTS
  Pid = {1, 2, 3, 4}
  NoPid = NoPid
  Absent = Absent
  Garbage = Garbage
  Shells <- AllShells
INVARIANTS DaemonTypeOK NoStaleFile OneNodeLeft SomeoneServes KillReachesNode SettingsInRange
PROPERTIES CommandsEnd ChildAsAsked
CHECK_DEADLOCK FALSE
