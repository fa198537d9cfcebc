CONSTANTS
    Keys = {k1, k2, k3}
    Workers = {w1}
    Serial = TRUE
    FirstOctet = 2
    MaxOctet = 5
    RowWriters = {"reserve", "refresh"}
    MaxFaults = 2
SPECIFICATION Spec
SYMMETRY Interchangeable
INVARIANTS NoSharedAddress ImportRepeatable
CHECK_DEADLOCK FALSE
