SPECIFICATION Spec
CONSTANTS
    Total = 4
    Chunk = 2
    Spi = Spi
    Soft = Soft
    None = None
    Irqs = {Soft}
    MaxWrites = 1
    MaxSnapshots = 1
INVARIANTS NoGhost
