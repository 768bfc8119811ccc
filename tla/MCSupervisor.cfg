SPECIFICATION Spec
CONSTANTS
    MaxInfrastructureErrors = 2
    MaxConfig = 2
    MaxCommands = 2
    MaxEvents = 2
    Saves = {TRUE}
INVARIANTS
  SettingsOrdered NeverStranded SupervisorInSync
