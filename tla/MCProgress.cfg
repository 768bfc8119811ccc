SPECIFICATION ProgressSpec
CONSTANTS
  FwHosts <- McHosts
  Policies = {"blocked"}
  FwBudget = 1
  Domains = {}
  Clients = {}
  DnsBudget = 1
  DnsWork = 1
  S5Pairs = {1}
  S5Wrappers = 1
  S5Conns = 1
  S5Requests = 1
  S5Events = 2
  S5Retries = 1
  DiscVersions = 2
  DiscFaults = 1
  DiscCommands = 1
  Methods = {"connect_tunnel", "forget_account", "run_diagnostic", "test_gateways", "list_gateways"}
  RpcCalls = 1
  INTERVAL = 2
  TIMEOUT = 1
  STRIKES = 2
  REGISTER_DIAGNOSTIC_TIMEOUT = 2
  RUN_DIAGNOSTIC_TIMEOUT = 3
  ACCOUNT_READ_TIMEOUT = 1
  TENTATIVE_GATEWAYS_TIMEOUT = 1
  TEST_DEADLINE = 2
  MUTATION_BOUND = 2
  START_BOUND = 2
  RpcHangs = TRUE
  PageTasks = {1}
  MAX_POLLS = 1
  PageBudget = 2
  PageFlows = {"connect"}
CHECK_DEADLOCK FALSE
PROPERTIES
  RouterSettles ServicesSettle CallsProgress 
