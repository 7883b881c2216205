SPECIFICATION MCSpec
CONSTANTS
  c1 = c1
  c2 = c2
  c3 = c3
  None = None
  Clients = {c1, c2, c3}
  Trees = {"shared"}
  Outcomes = {"changed", "read", "failed", "partial"}
  MaxSessions = 2
  MaxIdle = 2
  MaxTick = 7
  WatchCapacity = 2
  MaxWatches = 2
  MaxRevision = 6
INVARIANTS ReservationsBacked RevisionHeld SessionLimit QueuesContiguous EvidenceExact
PROPERTIES SessionAdvances ReservationsEnd
CHECK_DEADLOCK FALSE
