\* The destructor against its comment.
CONSTANTS
    Size = 3
    Values = {v1, v2}
    Raw = Raw
    Moved = Moved
    Nothing = Nothing
SPECIFICATION Spec
INVARIANT DestructsAll
CHECK_DEADLOCK FALSE
