\* Log: two threads that roll over by day (a day is one unit of time), two backups;
\* time passes between messages, not within the writing of one; the log of kinds has
\* two hours of two units a day.  Database: MySQL; calls of up to four statements or
\* rows in batches of two; sessions lost and the server away.  Results: three handles
\* of each drive.  Configuration: two names, two items a file, two files.  Redis: four
\* calls, two outages.  Queue: two processes, three messages of two types, room for
\* one byte.  Memory: three processes, three segments.  Stream: five bytes of two
\* values; calls of up to three bytes.
CONSTANTS
    Threads = {t1, t2}
    Kinds = {"DAY"}
    TensPerHour = 1
    HoursPerDay = 1
    DEFAULT_BACKUP_LOG_COUNT = 2
    Delays = FALSE
    OpenFails = TRUE
    MaxTime = 4
    MaxMessages = 4
    MaxRestarts = 1
    KindTens = 2
    KindHours = 2
    KindTime = 6
    KindMessages = 3
    Drive = "mysql"
    MAX_MULTI_INSERT_COUNT = 2
    MaxLength = 4
    MaxCalls = 3
    MaxFaults = 2
    Drives = {"mysql", "sqlite"}
    Tables <- MCTables
    NullValue = "no value"
    MaxHandles = 3
    Names = {"n1", "n2"}
    MaxCount = 2
    MaxItems = 2
    MaxFiles = 2
    MaxConns = 3
    RedisCalls = 4
    MaxOutages = 2
    Procs = {"p1", "p2"}
    Types = {1, 2}
    WORD = 1
    Sizes = {0, 1, 2}
    Room = 1
    MaxSends = 3
    MaxQueues = 2
    QueueFails = 1
    QueueKills = 1
    Users = {"p1", "p2", "p3"}
    Addresses = {1, 2}
    MaxSegs = 3
    MemoryFails = 1
    MemoryKills = 1
    Bytes = {1, 2}
    StreamLength = 5
SPECIFICATION MCSpec
INVARIANTS  AllOrNone RowsStored IpcExact ResultsExact ConversionsExact
PROPERTIES StreamExact PacketExact
CHECK_DEADLOCK FALSE
