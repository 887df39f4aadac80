SPECIFICATION Spec
CONSTANTS
    v0 = v0
    v1 = v1
    v2 = v2
    None = None
    MaxWord = 6
    Vcpus <- MCVcpus
    Slices <- MCSlices
PROPERTIES
    ShortestLeftFound
CHECK_DEADLOCK FALSE
