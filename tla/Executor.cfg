SPECIFICATION Spec
CONSTANTS
  a = a  b = b  c = c  d = d  p = p  q = q  s1 = s1  s2 = s2  NoMsg = NoMsg
  Msgs = {a, b, c, d}  Stream <- FourStream  Kind <- Mixed
  Peers = {p}  Sender <- SessionSender
  Shards = {s1, s2}  Shard <- SplitShard
  Role = "agent"  Unsupported = {}
  MaxRunning = 1  MaxQueued = 0  MaxAckPending = 1
  MaxDeltas = 1  MaxStops = 1  MaxFailures = 1
INVARIANTS BacklogBounded RunsAreOrdered VerdictHonest
PROPERTIES LifecycleSpec NothingForgotten
