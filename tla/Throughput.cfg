CONSTANTS
    NClients = 2
    Durations = {1}
    DurMax = 1
    Tries = 2
    DataMax = 2
    QueueMax = 2
    LostMax = 1
    WorkersMax = 2
SPECIFICATION Spec
INVARIANTS
    CountsOwn
    FreshNeverUnderflows
    TestWatched
PROPERTIES
    TestKept
