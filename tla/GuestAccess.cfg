SPECIFICATION Spec
CONSTANTS
    \* Stage2, Vdevs
    L1Entry = 2
    Entry = 2
    SecondBase = 2
    ThirdBase = 6
    PgtableSize = 14
    NrVms = 2
    Mmap <- MCMmap
    Shm <- MCShm
    Unmapped = Unmapped
    Devices = {"sysreg", "sp804", "sample"}
    PageOf <- MCPageOf
    Values = {1, 2, 3, 4, 5, 6, 7, 8, 9, 10, 11, 12, 13, 14, 15, 16, 17}
    Written <- MCWritten
    Junk = Junk
    Nothing = Nothing
    GicdPage = 2
    UartPage = 3
    Driven = {"memory", "gicd", "timer", "uart", "optee"}
    \* VGicd
    NumVcpus = 2
    Virqs = {27, 37, 40}
    Banked = {27}
    Preset <- MCPreset
    Invalid = Invalid
    \* VTimer
    Long = 32
    Word = 8
    MaxCount = 9
    \* Console
    NrGuests = 2
    Key = Key
    Char = Char
    FifoSize = 2
    MaxTyped = 4
    \* OpteeRpc
    u = u
    None = None
    Threads = {s, t, u}
    VmOf <- MCVmOf
    NrClients = 2
    NumPcpus = 2
    ShmSize = 4
CHECK_DEADLOCK FALSE
INVARIANTS ReadsOwnWrites EnabledIsRouted TvalDeadline MsgIsThere
PROPERTIES ImplementsIpaMap TypedIsRead NoEarlyReturn WokenReturns
