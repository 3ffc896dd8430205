SPECIFICATION FairSpec
CONSTANTS
  bot1 = bot1  bot2 = bot2  agent = agent  space = space
  Bots = {bot1, bot2}  Instances = {agent}  Workspaces = {space}
  NoInstance = NoInstance  NoWorkspace = NoWorkspace
  MaxCalls = 3  MaxRefs = 1  MaxHalts = 1  MaxFaults = 1
INVARIANTS OwnersApart CatalogSound RunsAsIntended ShutdownIsQuiet
PROPERTIES ShutdownEnds
CHECK_DEADLOCK FALSE
