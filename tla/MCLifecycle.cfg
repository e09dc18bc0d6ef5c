CONSTANT
    Models <- MCModels

SPECIFICATION Spec

INVARIANTS
    KnownFaults
    NothingLeaked
    HandshakesClosed
    DmaIntoHeldMemory
    ConfiguredWhenEnabled
    QuietWhenDisabled

CHECK_DEADLOCK FALSE
