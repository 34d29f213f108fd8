---------------------------- MODULE DbConnection ----------------------------
(***************************************************************************)
(* A database connection, src/db: MultiExec and MultiInsert of             *)
(* dbconnectionbase over Execute of HMysqlConnection, which pings,         *)
(* reconnects and tries again when a statement fails, or of                *)
(* HSqliteConnection.  The server (external) runs statements in a session; *)
(* the session can be lost before or after a statement was executed, and   *)
(* the server can be away when the client reconnects.                      *)
(*                                                                         *)
(* A statement is a sequence of rows that it puts into the database; a row *)
(* is the number of the call it belongs to and its place in the call.      *)
(***************************************************************************)
EXTENDS Naturals, Sequences

CONSTANTS Drive,                     \* "mysql" or "sqlite"
          MAX_MULTI_INSERT_COUNT,
          MaxLength,                 \* bound: statements or rows of a call
          MaxCalls, MaxFaults        \* bounds

DbAssumption == /\ Drive \in {"mysql", "sqlite"}
                /\ MAX_MULTI_INSERT_COUNT \in Nat \ {0}
                /\ {MaxLength, MaxCalls, MaxFaults} \subseteq Nat

VARIABLES m_st,       \* whether there is a handle: initialised and connected
          sess,       \* the session at the server: alive, in a transaction, its rows
          db,         \* the rows that are in the database for good
          up,         \* whether the server can be reached
          faults,
          calls, job, \* the number of the call, its kind and length
          next,       \* the first row of the call that is not yet executed
          pc, ret     \* place in the call; whether the last one returned OK

client == <<m_st, calls, job, next, pc, ret>>
server == <<sess, db, up, faults>>
dbVars == <<m_st, sess, db, up, faults, calls, job, next, pc, ret>>

Fresh == [alive |-> TRUE, trans |-> FALSE, rows |-> <<>>]
Gone  == [alive |-> FALSE, trans |-> FALSE, rows |-> <<>>]
CallKinds == {"Execute", "MultiExec", "MultiInsert"}

Init == /\ m_st = TRUE /\ sess = Fresh /\ db = <<>> /\ up = TRUE /\ faults = 0
        /\ calls = 0 /\ job = [kind |-> "Execute", length |-> 0] /\ next = 1
        /\ pc = "idle" /\ ret = TRUE

-----------------------------------------------------------------------------
(* The server *)

Begin    == [type |-> "begin", rows |-> <<>>]
Commit   == [type |-> "commit", rows |-> <<>>]
Rollback == [type |-> "rollback", rows |-> <<>>]

\* What executing a statement does to session and database.
After(stmt) ==
    CASE stmt.type = "begin"    -> [sess |-> [sess EXCEPT !.trans = TRUE], db |-> db]
      [] stmt.type = "commit"   -> [sess |-> Fresh, db |-> db \o sess.rows]
      [] stmt.type = "rollback" -> [sess |-> Fresh, db |-> db]
      [] stmt.type = "insert"   ->
           IF sess.trans THEN [sess |-> [sess EXCEPT !.rows = @ \o stmt.rows], db |-> db]
           ELSE [sess |-> sess, db |-> db \o stmt.rows]

Outcome(ok, s, d, lost) == [ok |-> ok, sess |-> s, db |-> d, lost |-> lost]

\* What can come of sending a statement: it is executed and the answer comes
\* back; an insertion is refused; or the session is lost before or after the
\* statement is executed.
Sends(stmt) ==
    IF ~(m_st /\ sess.alive) THEN {Outcome(FALSE, sess, db, 0)}
    ELSE {Outcome(TRUE, After(stmt).sess, After(stmt).db, 0)}
         \cup (IF stmt.type = "insert" THEN {Outcome(FALSE, sess, db, 0)} ELSE {})
         \cup (IF faults < MaxFaults
               THEN {Outcome(FALSE, Gone, d, 1) : d \in {db, After(stmt).db}} ELSE {})

Send(stmt, o) == /\ o \in Sends(stmt)
                 /\ sess' = o.sess /\ db' = o.db /\ faults' = faults + o.lost
                 /\ UNCHANGED up

ServerDown == /\ up /\ faults < MaxFaults
              /\ up' = FALSE /\ sess' = Gone /\ faults' = faults + 1
              /\ UNCHANGED <<db, client>>
ServerUp   == ~up /\ up' = TRUE /\ UNCHANGED <<sess, db, faults, client>>

-----------------------------------------------------------------------------
(* The client *)

Rows(from, to) == [k \in 1..(to - from + 1) |-> <<calls, from + k - 1>>]

\* The last row of the statement that begins with a row: MultiInsert takes
\* MAX_MULTI_INSERT_COUNT rows at a time, the others are one row each.
BatchEnd(from) == LET full == from + MAX_MULTI_INSERT_COUNT - 1
                  IN  IF job.kind # "MultiInsert" THEN from
                      ELSE IF full <= job.length THEN full ELSE job.length

\* What is executed next.
Statement == [type |-> "insert", rows |-> Rows(next, BatchEnd(next))]

Return(v) == pc' = "idle" /\ ret' = v
Goto(s)   == pc' = s /\ UNCHANGED ret

\* A call: an Execute has one statement, the others any number.
Call(kind, n) == /\ pc = "idle" /\ calls < MaxCalls
                 /\ kind = "Execute" => n = 1
                 /\ calls' = calls + 1 /\ job' = [kind |-> kind, length |-> n] /\ next' = 1
                 /\ IF kind = "MultiExec" THEN Goto("begin")
                    ELSE IF n = 0 THEN Return(TRUE) ELSE Goto("exec")
                 /\ UNCHANGED <<m_st, server>>

BeginTransaction == /\ pc = "begin"
                    /\ \E o \in Sends(Begin) :
                         /\ Send(Begin, o)
                         /\ IF o.ok THEN Goto(IF job.length = 0 THEN "commit" ELSE "exec")
                            ELSE Return(FALSE)
                    /\ UNCHANGED <<m_st, calls, job, next>>

\* Mutant: the last statement of a MultiExec is forgotten.
ExecutedShort(end) == /\ next' = end + 1
                      /\ IF job.kind = "MultiExec" /\ end + 1 >= job.length THEN Goto("commit")
                         ELSE IF end < job.length THEN Goto("exec") ELSE Return(TRUE)

\* The statement that ends with a row returned OK.
Executed(end) == /\ next' = end + 1
                 /\ IF end < job.length THEN Goto("exec")
                    ELSE IF job.kind = "MultiExec" THEN Goto("commit") ELSE Return(TRUE)

\* It failed.
Failed == /\ IF job.kind = "MultiExec" THEN Goto("rollback") ELSE Return(FALSE)
          /\ UNCHANGED next

\* Execute.  HSqliteConnection compares what sqlite3_step returns, SQLITE_DONE
\* or SQLITE_ROW if it went well, with SQLITE_OK.  HMysqlConnection asks why
\* the statement failed.
Execute == /\ pc = "exec"
           /\ \E o \in Sends(Statement) :
                /\ Send(Statement, o)
                /\ IF Drive = "mysql" /\ o.ok THEN Executed(BatchEnd(next))
                   ELSE IF Drive = "sqlite" \/ ~m_st THEN Failed
                        ELSE Goto("ping") /\ UNCHANGED next
           /\ UNCHANGED <<m_st, calls, job>>

\* Ping; if it fails, Reconnect, which leaves no handle if it fails in turn.
Ping == /\ pc = "ping"
        /\ IF sess.alive THEN Failed /\ UNCHANGED <<m_st, sess>>
           ELSE /\ m_st' = up
                /\ IF up THEN sess' = Fresh /\ Goto("again") /\ UNCHANGED next
                   ELSE Failed /\ UNCHANGED sess
        /\ UNCHANGED <<db, up, faults, calls, job>>

\* Mutant: what the second try returned is not looked at.
ExecuteAgainBlind == /\ pc = "again"
                     /\ \E o \in Sends(Statement) : Send(Statement, o)
                     /\ Executed(BatchEnd(next))
                     /\ UNCHANGED <<m_st, calls, job>>

ExecuteAgain == /\ pc = "again"
                /\ \E o \in Sends(Statement) :
                     /\ Send(Statement, o)
                     /\ IF o.ok THEN Executed(BatchEnd(next)) ELSE Failed
                /\ UNCHANGED <<m_st, calls, job>>

RollBack == /\ pc = "rollback"
            /\ \E o \in Sends(Rollback) : Send(Rollback, o)
            /\ Return(FALSE)
            /\ UNCHANGED <<m_st, calls, job, next>>

CommitTransaction == /\ pc = "commit"
                     /\ \E o \in Sends(Commit) : Send(Commit, o) /\ Return(o.ok)
                     /\ UNCHANGED <<m_st, calls, job, next>>

Step == \/ BeginTransaction \/ Execute \/ Ping \/ ExecuteAgain \/ RollBack \/ CommitTransaction
Next == \/ \E kind \in CallKinds, n \in 0..MaxLength : Call(kind, n)
        \/ Step \/ ServerDown \/ ServerUp

Spec == Init /\ [][Next]_dbVars

-----------------------------------------------------------------------------
(* Properties *)

\* Every variable keeps its type.
TypeOK == /\ {m_st, up, ret} \subseteq BOOLEAN
          /\ sess.alive \in BOOLEAN /\ sess.trans \in BOOLEAN
          /\ calls \in 0..MaxCalls /\ faults \in 0..MaxFaults
          /\ next \in 1..(job.length + 1)
          /\ pc \in {"idle", "begin", "exec", "ping", "again", "rollback", "commit"}

Idle    == pc = "idle" /\ calls > 0
Mine    == Rows(1, job.length)
Missing == {k \in 1 .. job.length : \A j \in DOMAIN db : db[j] # <<calls, k>>}

\* What the call has in the database is these rows, each once and in their order.
Stored(rows) == LET before == Len(db) - Len(rows)
                IN  /\ before >= 0 /\ rows = SubSeq(db, before + 1, Len(db))
                    /\ \A k \in 1 .. before : db[k][1] # calls

\* A MultiExec that returned OK has all its statements in the database, one
\* that failed none: the rows of a transaction come and go together.  (Only
\* the answer to the commit itself may be lost: all, and a failure returned.)
AllOrNone == Idle /\ job.kind = "MultiExec" =>
    \/ Stored(IF ret THEN Mine ELSE <<>>)
    \/ ~ret /\ faults > 0 /\ Stored(Mine)

\* An Execute or MultiInsert that returned OK has put in each row once, in order.
OnceEach == Idle /\ job.kind # "MultiExec" /\ ret => Stored(Mine)

\* An Execute or MultiInsert that returned OK has put in every row, whatever
\* was lost, tried again or refused on the way.
NoneMissing == Idle /\ job.kind # "MultiExec" /\ ret => Missing = {}

\* No transaction is left open between two calls, for the next call to get into.
NoneLeftOpen == Idle => ~sess.trans
=============================================================================
