SPECIFICATION Spec
CONSTANTS
    p0 = p0
    p1 = p1
    a0 = a0
    a1 = a1
    b0 = b0
    None = None
    Boot = p0
    Pcpus = {p0, p1}
    Vcpus = {a0, a1, b0}
    PcpuOf <- MCPcpuOf
    VmOf <- MCVmOf
    First = {a0}
    Spis = {spi}
    Softs = {sgi}
    NumLr = 1
    MaxPending = 2
    SoftBound <- MCSoftBound
INVARIANTS TypeOK NoStray ActiveIsOwed OneCopy
PROPERTIES SwitchKeeps SpiServed
