SPECIFICATION BackendSpec
CONSTANTS
  MaxDevice = 2
  MAX_SYNCING_ATTEMPTS = 0
  ZK_NYM_MAX_FAILS = 0
  AccountBudget = 1
  ZkIds = {1, 2}
  ZkBatch = 2
  ZkFaults = 2
  ZkDbErrors = {}
  ApiTasks = {1, 2}
  ApiEndpoints = {"get_account", "request_zk_nym", "confirm_zk_nym_download_by_id", "update_device", "get_gateways"}
  Offsets <- McOffsets
  MAX_ACCEPTABLE_SKEW_SECONDS = 2
  NYM_VPN_API_TIMEOUT = 2
  ApiRetries = 1
  ApiFaults = 2
  GwTypes = {entry}
  MAX_CACHE_AGE = 1
  MAX_STALE_SERVE_AGE = 2
  LOOKUP_INTEREST_WINDOW = 2
  DirNetworks = 2
  DirWork = 2
  DirFaults = 1
  g1 = g1
  g2 = g2
  g3 = g3
  Identities = {g1, g2, g3}
  Kinds <- McKinds
  EntryPoints <- McEntryPoints
  ExitPoints <- McExitPoints
  CriteriaSets = {{"asn", "family", "subnet"}}
  ProbeRetries = 1
  QUERY_FAILURES_TO_ESCALATE = 2
  BANDWIDTH_FAILURE_SESSIONS = 2
  Outdated = {"exit"}
  SessionEvents = 2
  MaxTunnels = 4
  Consumptions = {0, 5, 60, 400}
  Ticket = 1000
  Checks = 4
  Word = 65536
CHECK_DEADLOCK FALSE
INVARIANTS
  AccountConsistent TicketsSafe  DirectoryConsistent SelectionCorrect SessionCorrect 
PROPERTIES
  ConnectVouched
