SPECIFICATION LiveDashboardSpec
CONSTANTS
  agent = agent
  console = console
  name = name
  harness = harness
  Names = {agent, console}
  Catalogs = {{agent}, {agent, console}}
  Console = {console}
  Prefix = Prefix
  Matches = {agent, console}
  Nobody = Nobody
  Nothing = Nothing
  Fields = {name, harness}
  AgentOnly = {harness}
  Optional = {name}
  MaxCommands = 2
  MaxEvents = 2
INVARIANTS BotsKeptApart
PROPERTIES OthersWorkStays EventuallyCurrent
CHECK_DEADLOCK FALSE
