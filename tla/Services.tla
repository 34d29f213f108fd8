------------------------------ MODULE Services ------------------------------
(***************************************************************************)
(* The log, System V queues and shared memory, database connections, their *)
(* results and their configuration, the Redis client and the data stream.  *)
(* They share no state: a behaviour is one of the part that part names, or *)
(* of one of the conversions that MCServices adds.                         *)
(*                                                                         *)
(* The log of kinds is of one thread and of every roll-over type whose     *)
(* period is computed right.                                               *)
(***************************************************************************)
EXTENDS Integers

CONSTANTS (* LogFile, and the log of kinds *)
          Threads, Kinds, TensPerHour, HoursPerDay, DEFAULT_BACKUP_LOG_COUNT, Delays,
          OpenFails, MaxTime, MaxMessages, MaxRestarts,
          KindTens, KindHours, KindTime, KindMessages,
          (* DbConnection *)
          Drive, MAX_MULTI_INSERT_COUNT, MaxLength, MaxCalls, MaxFaults,
          (* DbResult, DbConnConfig *)
          Drives, Tables, NullValue, MaxHandles,
          Names, MaxCount, MaxItems, MaxFiles, MaxConns,
          (* RedisClient *)
          RedisCalls, MaxOutages,
          (* MessageQueue, SharedMemory *)
          Procs, Types, WORD, Sizes, Room, MaxSends, MaxQueues, QueueFails, QueueKills,
          Users, Addresses, MaxSegs, MemoryFails, MemoryKills,
          (* DataStream *)
          Bytes, StreamLength

VARIABLES part,
          now, m_value, m_mtTime, m_backup_logs, mutex, pc, stamp, rolling, fd, dir,
          files, written, failed, restarts,
          m_st, sess, db, up, faults, calls, job, next, dpc, ret,
          vch, nReadPos, result, held, past,
          context, alive, items, call, n, rpc, reply, answer, outages, quiet, applied,
          given, withdrawn,
          qid, queue, queues, q_id, qpc, ask, sends, qfails, qkills, last, gone,
          sid, segs, maps, s_id, m_shm_ptr, spc, sfails, skills,
          drive, r_st, m_bConnected, open, made, lost, res, stmt, whole,
          m_db_conns, conns, leaked, file, i, jj, conn_count, cpc, cret, read

Log      == INSTANCE LogFile
Writer   == CHOOSE t \in Threads : TRUE
KindsLog == INSTANCE LogFile WITH
                Threads <- {Writer}, Kinds <- {"DAY", "HOUR", "10MIN"},
                TensPerHour <- KindTens, HoursPerDay <- KindHours,
                MaxTime <- KindTime, MaxMessages <- KindMessages
Db     == INSTANCE DbConnection WITH pc <- dpc
Stream == INSTANCE DataStream WITH MaxLength <- StreamLength, Careless <- {}
Redis  == INSTANCE RedisClient WITH MaxCalls <- RedisCalls
Queue  == INSTANCE MessageQueue WITH
              MaxFails <- QueueFails, MaxKills <- QueueKills,
              m_id <- q_id, fails <- qfails, kills <- qkills
Memory == INSTANCE SharedMemory WITH
              Procs <- Users, MaxFails <- MemoryFails, MaxKills <- MemoryKills,
              m_id <- s_id, fails <- sfails, kills <- skills
Conns  == INSTANCE DbConnConfig WITH files <- read
Result == INSTANCE DbResult WITH m_st <- r_st

ASSUME ServicesAssumption ==
    /\ Log!LogAssumption /\ KindsLog!LogAssumption /\ Db!DbAssumption
    /\ Stream!StreamAssumption /\ Redis!RedisAssumption
    /\ Queue!QueueAssumption /\ Memory!MemoryAssumption
    /\ Conns!ConfigAssumption /\ Result!ResultAssumption

logVars == <<now, m_value, m_mtTime, m_backup_logs, mutex, pc, stamp, rolling, fd, dir,
             files, written, failed, restarts>>
dbVars  == <<m_st, sess, db, up, faults, calls, job, next, dpc, ret>>
dsVars  == <<vch, nReadPos, result, held, past>>
rdVars  == <<context, alive, items, call, n, rpc, reply, answer, outages, quiet, applied,
             given, withdrawn>>
ipcVars == <<qid, queue, queues, q_id, qpc, ask, sends, qfails, qkills, last, gone>>
shmVars == <<sid, segs, maps, s_id, m_shm_ptr, spc, sfails, skills>>
resVars == <<drive, r_st, m_bConnected, open, made, lost, res, stmt, whole>>
cfgVars == <<m_db_conns, conns, leaked, file, i, jj, conn_count, cpc, cret, read>>
servVars == <<part, logVars, dbVars, rdVars, dsVars, ipcVars, shmVars, resVars, cfgVars>>

ServInit ==
    /\ part \in {"log", "kinds", "db", "redis", "stream", "queue", "memory", "result", "conns",
                 "codec", "text", "packet"}
    /\ IF part = "kinds" THEN KindsLog!Init ELSE Log!Init
    /\ Db!Init /\ Stream!Init /\ Conns!Init
    /\ Redis!Init /\ (part # "redis" => alive)
    /\ Queue!Init /\ (part # "queue" => queues = 0)
    /\ Memory!Init /\ (part # "memory" => segs = 0)
    /\ Result!Init /\ (part # "result" => drive = CHOOSE d \in Drives : TRUE)
ServNext ==
    /\ UNCHANGED part
    /\ part \notin {"log", "kinds"} => UNCHANGED logVars
    /\ part # "db"                  => UNCHANGED dbVars
    /\ part # "redis"               => UNCHANGED rdVars
    /\ part # "stream"              => UNCHANGED dsVars
    /\ part # "queue"               => UNCHANGED ipcVars
    /\ part # "memory"              => UNCHANGED shmVars
    /\ part # "result"              => UNCHANGED resVars
    /\ part # "conns"               => UNCHANGED cfgVars
    /\ \/ part = "log"    /\ Log!Next
       \/ part = "kinds"  /\ KindsLog!Next
       \/ part = "db"     /\ Db!Next
       \/ part = "redis"  /\ Redis!Next
       \/ part = "stream" /\ Stream!Next
       \/ part = "queue"  /\ Queue!Next
       \/ part = "memory" /\ Memory!Next
       \/ part = "result" /\ Result!Next
       \/ part = "conns"  /\ Conns!Next
ServSpec == ServInit /\ [][ServNext]_servVars

-----------------------------------------------------------------------------

\* LogFile: while no roll over is under way the open file is found under the name
\* of its period, the backups that are due are there and no others, and no message
\* vanishes with a file that another one replaced; and the messages of one file
\* are of one day, hour or ten minutes, whichever the roll-over type says.
LogKept == /\ part = "log" => /\ Log!TypeOK /\ Log!OpenFileNamed
                              /\ Log!KeepsBackups /\ Log!NothingLost
           /\ part = "kinds" => KindsLog!FilesOfOnePeriod

\* DbConnection: a MultiExec that returned OK has all its statements in the
\* database, one that failed none, as long as the session stays; and no
\* transaction is left open for the next call, whatever is lost.
AllOrNone == (faults = 0 => Db!AllOrNone) /\ Db!TypeOK /\ Db!NoneLeftOpen

\* DbConnection: an Execute or MultiInsert that returned OK has put in every row,
\* whatever was lost, tried again or refused on the way; each once and in order
\* as long as the session stays.  RedisClient: a command is executed once at most,
\* an item taken out reaches one caller at most and is lost only with its reply,
\* and the call after one that failed finds a good context.
RowsStored == /\ (faults = 0 => Db!OnceEach) /\ Db!NoneMissing
              /\ Redis!OnceAtMost /\ Redis!Heals

\* MessageQueue: a message is received once at most and in the order in which those
\* of its type were sent, and the ones that are not there any more were received or
\* cleared or went with their queue, which a process that knew it before cannot use.
\* SharedMemory: a process has exactly the memory mapped that its object points to,
\* of the segment whose id it has; a removed segment is not found again.
IpcExact == /\ Queue!TypeOK /\ Queue!OnceInOrder /\ Queue!StaleStays
            /\ Memory!TypeOK /\ Memory!MappedExactly /\ Memory!OldStaysOld

\* DbResult: a result is of one statement, however often it was used before and
\* wherever the connection was lost, and a drive has the handle that is open.
\* DbConnConfig: every name has the connections that the files that were read said,
\* each once, and no connection is lost but those of a call that failed.
ResultsExact == /\ Result!TypeOK /\ Result!OneStatement /\ Result!HandlesExact
                /\ Conns!TypeOK /\ Conns!ConnsExact

\* DataStream: it holds exactly the bytes that were put in and not taken out,
\* whatever was read, rewound, inserted, erased and compacted before, and a read
\* gives the oldest of them.
StreamExact == [](Stream!TypeOK /\ Stream!HoldsExactly) /\ Stream!ReadsOldest
=============================================================================
