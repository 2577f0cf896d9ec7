SPECIFICATION Spec
CONSTANTS
    Bits = 2
    MaxLevel = 3
    Middle = 2
    Levels = {1}
    Lengths = {1, 3}
    Periods = {1, 2}
    MinPeriod = 2
    MaxPeriod = 7
    Dividers = {0, 1}
    Shifts = {1, 2}
    MaxDecay = 3
    Volumes = {0, 2}
    First = 1
    Registers = {"control", "prg"}
    Item = {i1, i2}
    Null = Null
    Cap = 3
    MaxLatch = 5
    Size = 3
    Rates = {1, 2}
    Wants = {1, 3}
    MaxWritten = 9
    Pcs = {p1, p2}
    MaxBreakpoints = 2
INVARIANTS
    TypeOK
    InterruptFresh
    SweepBounded
    MuteExact
    OverrunBounded
PROPERTIES
    SamplesEnd
    NoteDies
    ImplementsSerialPort
    KeepsLastItems
    ImplementsScanlineCounter
    PlaysInOrder
    BreakpointHolds
    PauseLasts
    RunGetsThrough
