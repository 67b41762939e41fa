SPECIFICATION LeaseSpec
CONSTANTS
  Policy = {"p", "q"}
  MaxOwners = 2
  MaxMishaps = 2
  Session = {"s", "t"}
  Buffer = 2
  MaxTroubles = 2
  Route = {"r1", "r2"}
  Failures = 2
  Recoveries = 2
  Budget = 1
  MaxEdits = 1
  Client = {"c1", "c2", "c3"}
  Address <- MCAddress
  Reserved <- MCReserved
  LeaseTime = 2
  OfferTime = 1
  DeclineTime = 1
  MaxClock = 3
  MaxIncidents = 1
INVARIANTS OpenMeansVerified
CHECK_DEADLOCK FALSE
