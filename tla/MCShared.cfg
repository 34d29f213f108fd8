\* Two threads in two units; two creations may throw.  A second address for
\* holders and for objects is there to be used if a second one were made.
\* Two messages of two bytes over a connection with room for two; two calls that
\* connect.  Three processes and one semaphore, set once, two of them die; no
\* signal reaches a SemHolder that waits.
\* CallsEnd speaks of threads that wait for ever, so of deadlock as well.
CONSTANTS
    Threads = {t1, t2}
    Units = {u1, u2}
    Holders = {h1, h2}
    Objects = {o1, o2}
    Null = Null
    MaxThrows = 2
    Length = 2
    Capacity = 2
    Timeout = 1
    MaxMessages = 2
    MaxConnects = 2
    Procs = {q1, q2, q3}
    Leader = q1
    MAX_TRIES = 2
    SetOnce = TRUE
    HolderSignals = FALSE
    MaxDeaths = 2
SPECIFICATION SharedSpec
INVARIANTS TypeOK OneOnly PublishedReads FramesIntact MutexExact
PROPERTIES SameForAll CallsEnd
CHECK_DEADLOCK FALSE
