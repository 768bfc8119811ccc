SPECIFICATION Spec
CONSTANTS
    Gateways = {g1, g2}
    EntryPoints = {e1, e2}
    NoGateway = NoGateway
    NoPair = NoPair
    Flapping = TRUE
    Faults = {"dns", "crash"}
    Settings <- SelectionSettings
SYMMETRY GatewaySymmetry
INVARIANTS
  SessionWhole SelectionCurrent
