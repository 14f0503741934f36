\* Three calls, two at a time; one fault: a stop of the process, or a step that fails.
SPECIFICATION Spec
CONSTANTS
  shop = shop  lab = lab  ledgers = ledgers  shopYaml = shopYaml  labYaml = labYaml
  Ids = {lab, shop}
  ById <- MCById
  Configs <- MCConfigs
  Defs <- MCDefs
  Files <- MCFiles
  Gen <- MCGen
  Clients = {c1, c2}
  MaxCalls = 3
  MaxFaults = 1
  NoDef = NoDef  NoModel = NoModel  NoGrounder = NoGrounder
  Nobody = Nobody  Torn = Torn  Missing = Missing
SYMMETRY Interchangeable
INVARIANTS TypeOK RawSQLGate DefaultNeverMoves EditsAreLive RegistryKept
CHECK_DEADLOCK FALSE
