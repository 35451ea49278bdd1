SPECIFICATION Spec
CONSTANTS
    a1 = a1
    a2 = a2
    IdOrder <- MCTwo
    Codex = {a2}
    Runs = {r1, r2}
    None = None
    MaxInfraRetries = 1
    CooldownFor = 2
    SessionMin = 1
    MaxChanges = 2
SYMMETRY RunSymmetry
CHECK_DEADLOCK FALSE
INVARIANT FleetSound
PROPERTY RefusedRests
