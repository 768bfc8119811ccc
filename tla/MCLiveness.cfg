SPECIFICATION FairSpec
CONSTANTS
    Gateways = {g1}
    EntryPoints = {e1}
    NoGateway = NoGateway
    NoPair = NoPair
    Flapping = FALSE
    Faults = {}
    Settings <- SelectionSettings
PROPERTIES
  MachineSettles
