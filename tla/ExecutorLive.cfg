SPECIFICATION FairWatchSpec
CONSTANTS
  a = a  d = d  b = b  c = c  p = p  q = q  s1 = s1  s2 = s2  NoMsg = NoMsg
  Msgs = {a, b}  Stream <- PairStream  Kind <- Mixed
  Peers = {p}  Sender <- SessionSender
  Shards = {s1}  Shard <- SessionShard
  Role = "agent"  Unsupported = {}
  MaxRunning = 1  MaxQueued = 1  MaxAckPending = 1
  MaxDeltas = 0  MaxStops = 1  MaxFailures = 1

INVARIANT BeginsInTurn
PROPERTY EventuallyDone
