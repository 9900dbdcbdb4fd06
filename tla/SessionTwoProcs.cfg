SPECIFICATION Spec
CONSTANTS
  p1 = p1
  p2 = p2
  c1 = c1
  c2 = c2
  Procs = {p1, p2}
  Clients = {}
  DurableKinds = {"event"}
  Nobody = Nobody
  SnapshotInterval = 2
  MaxEvents = 6
  MaxLive = 0
  MaxCrashes = 2
INVARIANT Resumable
CHECK_DEADLOCK FALSE
