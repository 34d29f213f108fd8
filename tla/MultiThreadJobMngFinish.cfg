\* Two workers that end together.
CONSTANTS
    Workers = {w1, w2}
    Jobs = {j1}
    NoJob = NoJob
SPECIFICATION Spec
INVARIANT FinishComplete
CHECK_DEADLOCK FALSE
