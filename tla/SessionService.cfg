SPECIFICATION FairSpec
CONSTANTS
  p1 = p1
  p2 = p2
  c1 = c1
  c2 = c2
  Procs = {p1}
  Clients = {c1}
  DurableKinds = {"event"}
  Nobody = Nobody
  SnapshotInterval = 2
  MaxEvents = 6
  MaxLive = 1
  MaxCrashes = 2
INVARIANTS TypeOK ReloadIsComplete LiveStateIsFold WatchIsExact LiveEventsInPlace
PROPERTIES ImplementsJournal EventsReachWatchers
CHECK_DEADLOCK FALSE
