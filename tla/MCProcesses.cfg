\* Two sons; a pass takes no more than MaxHear, as in a pool of at most 15 (2 s
\* per restart, 30 s to be heard), and sons run when fork has returned.  Two
\* instances of an application, started three times in all.  Two threads whose log
\* rolls over twice, with one backup, and one signal.
CONSTANTS
    Count = 2
    Pids = {p1, p2, p3}
    NoPid = NoPid
    MaxHear = 2
    TermSleep = 1
    EarlyTouch = FALSE
    Instances = {i1, i2}
    MaxStarts = 3
    Threads = {t1, t2}
    Frame = frame
SPECIFICATION ProcSpec
INVARIANTS  PidsRight OneRuns
PROPERTIES  Replaced  StopLogged
CHECK_DEADLOCK FALSE
