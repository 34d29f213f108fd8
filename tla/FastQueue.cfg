\* Three slots: the ring wraps, and holds at most two values.
CONSTANTS
    Size = 3
    Values = {v1, v2}
    Raw = Raw
    Moved = Moved
    Nothing = Nothing
SPECIFICATION Spec
INVARIANTS TypeOK SlotsSafe ObserversRight
PROPERTY FifoSpec
CHECK_DEADLOCK FALSE
