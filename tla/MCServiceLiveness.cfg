SPECIFICATION FairSpec
CONSTANTS
    MaxInfrastructureErrors = 2
    MaxConfig = 1
    MaxCommands = 1
    MaxEvents = 1
    Saves = {TRUE}
PROPERTIES
  AlwaysOnRetries ServiceSettles
