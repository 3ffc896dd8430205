SPECIFICATION LiveSpec
CONSTANTS
  a1 = a1
  b1 = b1
  Bots = {a1, b1}
  Trusts <- OneWay
  Ttl = 1
  MaxAge = 1
  Skew = 1
  MsgAge = 0
  ReplayTtl = 1
  MaxInFlight = 1
  MaxFaults = 2
  MaxChallenges = 4
INVARIANTS PendingIsLive
PROPERTIES DepartureHolds AnsweredOnce EventuallyAuthenticated
