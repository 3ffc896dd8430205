SPECIFICATION FairSpec
CONSTANTS
  x = x  y = y  r1 = r1  r2 = r2  r3 = r3
  Bots = {x, y}  Requests = {r1, r2, r3}  BotOf <- TwoBots
  MaxTotal = 1  MaxOf <- OneEach  QueueOf <- OneEach
INVARIANTS LimitsHold NoVainWait
PROPERTIES RoundRobin CallsReturn
