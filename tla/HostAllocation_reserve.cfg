CONSTANTS
    Keys = {k1, k2}
    Workers = {w1}
    Serial = TRUE
    FirstOctet = 2
    MaxOctet = 3
    RowWriters = {"reserve"}
    MaxFaults = 0
SPECIFICATION Spec
SYMMETRY Interchangeable
PROPERTY NewAddressIsFree
CHECK_DEADLOCK FALSE
