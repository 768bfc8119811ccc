SPECIFICATION Spec
CONSTANTS
    Gateways = {g1}
    EntryPoints = {e1}
    NoGateway = NoGateway
    NoPair = NoPair
    Flapping = FALSE
    Faults = {"crash"}
    Settings <- ContractSettings
INVARIANTS
  StateContract MachineConsistent
PROPERTIES
  NeverOpens KeepsKillSwitch
