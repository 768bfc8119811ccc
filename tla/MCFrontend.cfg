SPECIFICATION FrontendSpec
CONSTANTS
  S5Pairs = {1}
  S5Wrappers = 1
  S5Conns = 2
  S5Requests = 1
  S5Events = 2
  S5Retries = 1
  DiscVersions = 2
  DiscFaults = 1
  DiscCommands = 2
  Methods = {"get_config", "connect_tunnel", "forget_account", "register_diagnostic", "run_diagnostic", "test_gateways", "list_gateways", "store_account"}
  RpcCalls = 2
  INTERVAL = 2
  TIMEOUT = 1
  STRIKES = 2
  REGISTER_DIAGNOSTIC_TIMEOUT = 2
  RUN_DIAGNOSTIC_TIMEOUT = 3
  ACCOUNT_READ_TIMEOUT = 1
  TENTATIVE_GATEWAYS_TIMEOUT = 1
  TEST_DEADLINE = 2
  MUTATION_BOUND = 2
  START_BOUND = 2
  RpcHangs = FALSE
  ConfVersions = {0, 1, 2, 3, 4, 5, 6, 7, 8, 9}
  ConfTouched = {"killswitch", "stealth_api"}
  ConfSets = 1
  ConfFaults = 2
  PageTasks = {1, 2}
  MAX_POLLS = 1
  PageBudget = 2
  PageFlows = {"connect", "service", "account"}
  SetSlots = {1, 2}
  SetSaves = 2
  SetFaults = 1
  Resolvers = {r1, r2}
  MAX_CUSTOM_DNS_SERVERS = 1
  Touched = {"legacy_split_tunnel"}
  Ports = {p1}
  PickSides = {"entry"}
  PickCountries = {"A", "B"}
  NoBridge = {"B"}
  Circumvention = TRUE
  PickClicks = 3
  PickFaults = 1
CHECK_DEADLOCK FALSE
INVARIANTS
  CallsConsistent FilesSafe 
PROPERTIES
  Socks5Ordered 
