SPECIFICATION SpecSuspendSmp
CONSTANTS
    p0 = p0
    p1 = p1
    a0 = a0
    a1 = a1
    a2 = a2
    b0 = b0
    k0 = k0
    l0 = l0
    None = None
    Pcpus <- MCPcpus
    Vcpus <- MCVcpus
    PcpuOf <- MCPcpuOf
    VmOf <- MCVmOf
    Boot <- MCBoot
    Backup <- MCBackup
INVARIANT StopsTheVm
