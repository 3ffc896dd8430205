SPECIFICATION Spec
CONSTANTS
  c1 = c1  c3 = c3  r = r  q = q  x = x  y = y  k = k  same = same  other = other
  NoKey = NoKey  Loop = Loop
  KeyOf <- Keys  BodyOf <- Bodies  TargetOf <- Targets
  Callers = {c1, c3}  Runs = {r}  Peers = {x}
  MaxEvents <- EventBound  MaxStops = 1  MaxForgets = 0
INVARIANTS RunOrder AccountIsTrue OneMessagePerKey
