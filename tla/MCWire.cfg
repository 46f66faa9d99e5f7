SPECIFICATION Spec
CONSTANTS
    Base = 8
    PackageMaxLength = 55
    ReadSize = 14
    MinRead = 40
    Traffic <- SmallTraffic
    MaxBreaks = 1
CHECK_DEADLOCK FALSE
INVARIANT BufferBounded
INVARIANT Framed
INVARIANT PositionKept
