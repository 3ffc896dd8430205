SPECIFICATION FairSpec
CONSTANTS
  c1 = c1  c3 = c3  r = r  q = q  x = x  y = y  k = k  same = same  other = other
  NoKey = NoKey  Loop = Loop
  KeyOf <- Keys  BodyOf <- Bodies  TargetOf <- Targets
  Callers = {}  Runs = {r, q}  Peers = {x, y}
  MaxEvents <- OneEach  MaxStops = 0  MaxForgets = 1
PROPERTY EventuallyPublished
