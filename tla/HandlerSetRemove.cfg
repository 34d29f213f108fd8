\* Handlers may remove other sockets.
CONSTANTS
    Handles = {0, 1, 2}
    Events = {"read", "write"}
    Addresses = {a1, a2, a3}
    End = End
    RemoveOthers = TRUE
SPECIFICATION Spec
INVARIANT IteratorLive
