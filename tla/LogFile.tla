------------------------------- MODULE LogFile ------------------------------
(***************************************************************************)
(* The log file that rolls over with time: HLog (src/src/hlog.cpp),        *)
(* LogFile and LogfileRollbackStrategy (src/src/detail/log).  Threads      *)
(* stamp a message, look whether its time asks for another file than the   *)
(* open one, roll over under a mutex if so, and write.                     *)
(*                                                                         *)
(* Time is counted in units of ten minutes.  A file of the file system is  *)
(* a number (its inode); a name is the period of the strategy, with or     *)
(* without "bak"; a message is a number, and what is kept of it is its     *)
(* time and the file it was written to.                                    *)
(***************************************************************************)
EXTENDS Integers, Sequences, FiniteSets

CONSTANTS Threads,
          Kinds,              \* roll-over types to consider
          TensPerHour, HoursPerDay,
          DEFAULT_BACKUP_LOG_COUNT,
          Delays,             \* whether time may pass within a Write
          OpenFails,          \* whether open may fail
          MaxTime, MaxMessages, MaxRestarts   \* bounds

None == "none"
LogAssumption == /\ None \notin Threads
                 /\ {TensPerHour, HoursPerDay} \subseteq Nat \ {0}
                 /\ {MaxTime, MaxMessages, MaxRestarts, DEFAULT_BACKUP_LOG_COUNT} \subseteq Nat
                 /\ Kinds \subseteq {"DAY", "HOUR", "HALF-HOUR", "10MIN"}
                 /\ {Delays, OpenFails} \subseteq BOOLEAN

VARIABLES now,
          m_value, m_mtTime, m_backup_logs,   \* of the log file
          mutex,      \* the thread that rolls over, if any
          pc, stamp,  \* per thread: place, and the time of its message
          rolling,    \* the names a roll over computed: from, to
          fd,         \* the file that is open
          dir,        \* the directory: which file a name stands for
          files,      \* how many files were created
          written,    \* the messages written: their times and files
          failed,     \* whether some open failed
          restarts

strategy == <<m_value, m_mtTime>>
state    == <<strategy, m_backup_logs>>
disk     == <<fd, dir, files, written, failed>>
lfVars   == <<now, m_value, m_mtTime, m_backup_logs, mutex, pc, stamp, rolling,
              fd, dir, files, written, failed, restarts>>

HourOf(t) == t \div TensPerHour
DayOf(t)  == HourOf(t) \div HoursPerDay

\* GetHalfHourType, as NeedRollback and GetFileName call it: with the hour.
HalfHourType(hour) == IF hour < 30 THEN 0 ELSE 1

\* What NeedRollback compares of two times, and GetFileName puts into a name.
Period(k, t) ==
    CASE k = "DAY"       -> <<DayOf(t)>>
      [] k = "HOUR"      -> <<DayOf(t), HourOf(t) % HoursPerDay>>
      [] k = "HALF-HOUR" -> <<DayOf(t), HourOf(t) % HoursPerDay, HalfHourType(HourOf(t) % HoursPerDay)>>
      [] OTHER           -> <<DayOf(t), HourOf(t) % HoursPerDay, t % TensPerHour>>

NeedRollback(t)  == Period(m_value, t) # Period(m_value, m_mtTime)

\* GetFileName, with no end or one, and whether there is a file of a name.
Bare == ""
FileName(t, end) == <<Period(m_value, t), end>>
Exists(n)        == n \in DOMAIN dir

\* open with O_CREAT and O_APPEND.
OpenFile(n) == /\ files' = IF Exists(n) THEN files ELSE files + 1
               /\ fd' = IF Exists(n) THEN dir[n] ELSE files + 1
               /\ dir' = [m \in DOMAIN dir \cup {n} |-> IF Exists(m) THEN dir[m] ELSE files + 1]

\* HLog::Init, in an empty directory.
Init == /\ now = 0
        /\ m_value \in Kinds /\ m_mtTime = 0 /\ m_backup_logs = <<>>
        /\ mutex = None /\ pc = [t \in Threads |-> "idle"] /\ stamp = [t \in Threads |-> 0]
        /\ rolling = <<>>
        /\ fd = 1 /\ files = 1
        /\ dir = [n \in {FileName(0, Bare)} |-> 1]
        /\ written = {} /\ failed = FALSE /\ restarts = 0

Goto(t, s) == pc' = [pc EXCEPT ![t] = s]

\* A message is made, with the time of now.
WriteLog(t) == /\ pc[t] = "idle" /\ Cardinality(written) < MaxMessages
               /\ stamp' = [stamp EXCEPT ![t] = now]
               /\ Goto(t, "look")
               /\ UNCHANGED <<now, state, mutex, rolling, disk, restarts>>

\* rollBack looks first without the mutex.
Look(t) == /\ pc[t] = "look"
           /\ Goto(t, IF NeedRollback(stamp[t]) THEN "lock" ELSE "write")
           /\ UNCHANGED <<now, state, mutex, stamp, rolling, disk, restarts>>

\* doRollback: the mutex ...
LockMutex(t) == /\ pc[t] = "lock" /\ mutex = None
                /\ mutex' = t /\ Goto(t, "second")
                /\ UNCHANGED <<now, state, stamp, rolling, disk, restarts>>

\* Mutant: no second look.
DoRollbackAlways(t) ==
    /\ pc[t] = "second"
    /\ rolling' = <<FileName(m_mtTime, Bare), FileName(m_mtTime, "bak")>>
    /\ m_mtTime' = now
    /\ Goto(t, "dup")
    /\ UNCHANGED <<now, m_value, m_backup_logs, mutex, stamp, disk, restarts>>

\* Mutant: the time is not touched before the files are switched.
DoRollbackLate(t) ==
    /\ pc[t] = "second"
    /\ IF NeedRollback(stamp[t])
       THEN /\ rolling' = <<FileName(m_mtTime, Bare), FileName(m_mtTime, "bak")>>
            /\ Goto(t, "dup") /\ UNCHANGED mutex
       ELSE mutex' = None /\ Goto(t, "write") /\ UNCHANGED rolling
    /\ UNCHANGED <<now, state, stamp, disk, restarts>>

\* ... the second look; the names; Rollback takes the time of now.
DoRollback(t) ==
    /\ pc[t] = "second"
    /\ IF NeedRollback(stamp[t])
       THEN /\ rolling' = <<FileName(m_mtTime, Bare), FileName(m_mtTime, "bak")>>
            /\ m_mtTime' = now
            /\ Goto(t, "dup") /\ UNCHANGED mutex
       ELSE mutex' = None /\ Goto(t, "write") /\ UNCHANGED <<rolling, m_mtTime>>
    /\ UNCHANGED <<now, m_value, m_backup_logs, stamp, disk, restarts>>

\* Dup2: the descriptor that all threads write to becomes another file.  If
\* open fails, which is ignored, it stays what it is.
Dup2(t) == /\ pc[t] = "dup"
           /\ \/ OpenFile(FileName(m_mtTime, Bare)) /\ UNCHANGED failed
              \/ OpenFails /\ failed' = TRUE /\ UNCHANGED <<fd, dir, files>>
           /\ Goto(t, "rename")
           /\ UNCHANGED <<now, state, mutex, stamp, rolling, written, restarts>>

Renamed(from, to) ==
    IF Exists(from)
    THEN [n \in (DOMAIN dir \ {from}) \cup {to} |-> IF n = to THEN dir[from] ELSE dir[n]]
    ELSE dir
Without(d, n) == [m \in DOMAIN d \ {n} |-> d[m]]

\* The old name becomes a backup; a backup too many is removed.
RenameAndRemove(t) ==
    /\ pc[t] = "rename"
    /\ LET d    == Renamed(rolling[1], rolling[2])
           logs == Append(m_backup_logs, rolling[2])
           full == Len(logs) > DEFAULT_BACKUP_LOG_COUNT /\ m_value = "DAY"
       IN  /\ dir' = IF full THEN Without(d, Head(logs)) ELSE d
           /\ m_backup_logs' = IF full THEN Tail(logs) ELSE logs
    /\ mutex' = None /\ rolling' = <<>>
    /\ Goto(t, "write")
    /\ UNCHANGED <<now, m_value, m_mtTime, stamp, fd, files, written, failed, restarts>>

\* WriteString.
Write(t) == /\ pc[t] = "write"
            /\ written' = written \cup {[id |-> Cardinality(written), at |-> stamp[t], file |-> fd]}
            /\ Goto(t, "idle")
            /\ stamp' = [stamp EXCEPT ![t] = 0]
            /\ UNCHANGED <<now, state, mutex, rolling, fd, dir, files, failed, restarts>>

Tick == /\ now < MaxTime
        /\ Delays \/ \A t \in Threads : pc[t] = "idle"
        /\ now' = now + 1
        /\ UNCHANGED <<state, mutex, pc, stamp, rolling, disk, restarts>>

\* The process ends, wherever its threads are, and is started again.
Restart == /\ restarts < MaxRestarts
           /\ restarts' = restarts + 1
           /\ m_mtTime' = now /\ m_backup_logs' = <<>>
           /\ mutex' = None /\ rolling' = <<>>
           /\ pc' = [t \in Threads |-> "idle"] /\ stamp' = [t \in Threads |-> 0]
           /\ OpenFile(FileName(now, Bare))
           /\ UNCHANGED <<now, m_value, written, failed>>

\* A thread goes on with a message it has begun.
Step(t) == \/ Look(t) \/ LockMutex(t) \/ DoRollback(t) \/ Dup2(t)
           \/ RenameAndRemove(t) \/ Write(t)

Next == \/ \E t \in Threads : WriteLog(t) \/ Step(t)
        \/ Tick \/ Restart

Spec == Init /\ [][Next]_lfVars

-----------------------------------------------------------------------------
(* Properties *)

\* Every variable keeps its type.
TypeOK == /\ now \in 0..MaxTime /\ m_value \in Kinds /\ m_mtTime \in 0..MaxTime
          /\ mutex \in Threads \cup {None} /\ fd \in 1..files /\ \A n \in DOMAIN dir : dir[n] \in 1..files
          /\ pc \in [Threads -> {"idle", "look", "lock", "second", "dup", "rename", "write"}]
          /\ stamp \in [Threads -> 0..MaxTime]
          /\ \A m \in written : m.at \in 0..MaxTime /\ m.file \in 1..files

\* The backups of the last DEFAULT_BACKUP_LOG_COUNT roll overs are there: none
\* is removed before its time, and no more are kept.
KeepsBackups ==
    /\ m_value = "DAY" => Len(m_backup_logs) <= DEFAULT_BACKUP_LOG_COUNT
    /\ ~failed => \A k \in 1..Len(m_backup_logs) : Exists(m_backup_logs[k])

\* While no roll over is under way, the open file is found under the name of
\* its period, however many threads wanted to roll over at once.
OpenFileNamed == mutex = None /\ ~failed =>
    LET n == FileName(m_mtTime, Bare) IN Exists(n) /\ dir[n] = fd

\* No message vanishes with a file that another one replaced: the file of
\* every message has a name, until so many roll overs came after it that its
\* backup was due to be removed: one fewer than the backups kept, because a
\* message written while another thread rolls over can be in the file of the
\* period before its own.  (After a failed open the threads write on to
\* a file that is already a backup, and is removed as one.)
NothingLost == ~failed => \A m \in written :
    \/ \E n \in DOMAIN dir : dir[n] = m.file
    \/ /\ m_value = "DAY"
       /\ DayOf(m_mtTime) - DayOf(m.at) >= DEFAULT_BACKUP_LOG_COUNT

\* What a roll-over type is called.
Called(k, t) == CASE k = "DAY" -> DayOf(t) [] k = "HOUR" -> HourOf(t)
                  [] k = "HALF-HOUR" -> (2 * t) \div TensPerHour [] OTHER -> t

\* The messages of one file are of one day, hour, half hour or ten minutes,
\* whichever the roll-over type says.
FilesOfOnePeriod == ~failed => \A m, n \in written :
    m.file = n.file => Called(m_value, m.at) = Called(m_value, n.at)
=============================================================================
