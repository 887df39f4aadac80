SPECIFICATION Spec
CONSTANTS
    Total = 3
    Chunk = 1
    Spi = Spi
    Soft = Soft
    None = None
    Irqs = {Spi, Soft}
    MaxWrites = 1
    MaxSnapshots = 3
INVARIANTS TypeOK CopyBounds NoGhostAfterCopy ActiveIsOwed
PROPERTY ImplementsBackgroundCopy
