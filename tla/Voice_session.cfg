SPECIFICATION Spec
CONSTANTS
    Conns = {c1, c2}
    None = None
    Turns = 2
    MaxMessages = 5
INVARIANTS
    TypeOK
    ResourcesAreReleased
    OnlyOverlapsBreak
    CoreGetsTheTranscript
    MemoryIsOfTheLast
PROPERTIES
    EveryEndIsFinal
CHECK_DEADLOCK FALSE
