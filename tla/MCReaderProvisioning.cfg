\* Two configurations, four failures.
SPECIFICATION Spec
CONSTANTS
    Configs = {a, b}
    None = None
    ZeroKey = ZeroKey
    MaxFaults = 4
SYMMETRY ConfigSymmetry
INVARIANTS AcknowledgedIsWhole RunsWhenProvisioned ClearedIsBlank
