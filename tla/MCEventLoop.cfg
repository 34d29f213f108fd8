\* The loop: one socket, two tasks, two triggers; tasks schedule tasks.  Delay
\* queue: two entries, up to three additions, delays that tie and that cross a
\* second, a clock set back once.  Handlers: two sockets and the handle 0, which
\* is refused, room for three descriptors, handlers remove only themselves.
\* Arithmetic: differences beyond the range of an int included.
CONSTANTS
    Tasks = {t1, t2}
    NoTask = NoTask
    Handles = {0, 1}
    Events = {"read"}
    Addresses = {a1, a2}
    End = End
    RemoveOthers = FALSE
    max_trigger_count = 2
    Procs = {p1}
    Empty = Empty
    Signals = TRUE
    MILLION = 2
    IntRange = 64
    UllRange = 32
    Delays = {0, 1, 3}
    Eternity = 20
    Sentinel = Sentinel
    MaxReal = 4
    MaxAdds = 3
    Backsteps = {2}
    SetHandles = {0, 1, 2}
    SetAddresses = {a1, a2, a3}
    MaxSecs = 5
SPECIFICATION LoopSpec
INVARIANTS ListExact WalkExact  TriggersCalled
PROPERTIES TimersSpec LoopServes
CHECK_DEADLOCK FALSE
