SPECIFICATION RouterSpec
CONSTANTS
  FwHosts <- McHosts
  Policies = {"blocked", "connected"}
  FwBudget = 2
  UciConfigs = {"guest", "island", "broken"}
  RulePolicies <- McRulePolicies
  RuleChanges = 1
  Domains = {d1}
  Clients = {}
  DnsBudget = 1
  DnsWork = 2
  RtSessions = 2
  RtFaults = 1
CHECK_DEADLOCK FALSE
INVARIANTS
  FirewallConsistent RulesCorrect  RoutesConsistent
PROPERTIES
  OnlyTheFlushOpens DnsSteps
