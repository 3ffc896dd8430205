SPECIFICATION FairAdapterSpec
CONSTANTS
  p = p  q = q  g = g  NoSession = 0  NoKey = NoKey  NoAgent = NoAgent
  Products = {"codex", "opencode", "pi", "openclaw", "webhook"}
  MaxDeliveries = 2  Inbox <- FollowUps  Senders = {p, q}  SessionKeys = {1}
  AllowedAgents = {g}
  MaxRunning = 1  PipeSize = 1  DeltaCap = 2  MaxItems = 1
  MaxTurns = 2  MaxSays = 2  MaxLosses = 1
INVARIANTS VerdictIsEarned AnswerIsWhole ConversationsApart
PROPERTY EveryDeliveryReturns
CHECK_DEADLOCK FALSE
