\* Behaviours end with the bounds on time and events.
SPECIFICATION ServicesSpec
CONSTANTS
  p1 = p1  p2 = p2
  VerifyTime = 1
  BatchTime = 1
  MaxAge = 1
  MinRenewalAge = 2
  Fresh = 1
  Fallback = 1
  Due = 3
  Expiry = 6
  MaxQueue = 1
  MaxPolls = 1
  MaxFaults = 2
  Spot <- MCSpot
  Chunk <- MCChunk
  Viewports <- MCViewports
  Heartbeat = 1
  TTL = 2
  MaxResults = 1
  Scenes <- MCScenes
  MaxEvents = 9
  MaxAsked = 2
INVARIANTS HealthIsTrue OwnersTakeOver
PROPERTIES PresenceIsTrue AnsweredChangesStayShown
CHECK_DEADLOCK FALSE
