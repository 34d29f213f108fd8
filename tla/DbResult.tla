------------------------------ MODULE DbResult ------------------------------
(***************************************************************************)
(* The handle of a database drive and the results that a caller keeps:     *)
(* mysql_drive and sqlite_drive (src/db/mysqldrive.cpp, sqlitedrive.cpp)   *)
(* fill an HDBRes (src/db/hdbres.{h,cpp}), which the caller uses again for *)
(* the next statement.  The library (external) may lose the connection     *)
(* while rows are fetched, and may fail to connect.                        *)
(*                                                                         *)
(* A statement is the table it selects, a header and rows as wide, or      *)
(* NoTable for one that selects nothing.  A handle is a number.            *)
(***************************************************************************)
EXTENDS Naturals, FiniteSets, Sequences, Functions

CONSTANTS Drives,         \* of "mysql" and "sqlite"
          Tables,         \* what statements select
          NullValue,      \* the SQL value NULL
          MaxHandles      \* bound

NoTable == [header |-> <<>>, rows |-> <<>>]

\* Rows are as wide as the header, and columns have different names.
IsTable(t) == /\ t = [header |-> t.header, rows |-> t.rows]
              /\ t.header \in Seq(Range(t.header)) /\ IsInjective(t.header)
              /\ t.rows \in Seq(Range(t.rows))
              /\ \A row \in Range(t.rows) :
                   row \in Seq(Range(row)) /\ Len(row) = Len(t.header)
ResultAssumption == /\ Drives \subseteq {"mysql", "sqlite"} /\ MaxHandles \in Nat \ {0}
                    /\ \A t \in Tables : IsTable(t)

VARIABLES drive,                 \* which one it is
          m_st, m_bConnected,    \* of the drive; 0 is nullptr
          open,                  \* the library: per handle that is open, whether connected
          made, lost,            \* handles that were made; that nobody can close any more
          res,                   \* the caller's HDBRes
          stmt, whole            \* history: the statement in res, and whether all of it is

handle == <<drive, m_st, m_bConnected, open, made, lost>>
result == <<res, stmt, whole>>
drVars == <<drive, m_st, m_bConnected, open, made, lost, res, stmt, whole>>

IsInited  == m_st # 0
HasHandle == IsInited /\ (drive = "mysql" => m_bConnected)
Without(h) == [k \in DOMAIN open \ {h} |-> open[k]]
With(h, v) == [k \in DOMAIN open \cup {h} |-> IF k = h THEN v ELSE open[k]]

\* A mysql_drive has a handle from the start, a sqlite_drive when it connects.
Init == /\ drive \in Drives /\ made = IF drive = "mysql" THEN 1 ELSE 0
        /\ m_st = made /\ open = [k \in 1 .. made |-> FALSE] /\ m_bConnected = FALSE
        /\ lost = 0
        /\ res = NoTable /\ stmt = NoTable /\ whole = TRUE

-----------------------------------------------------------------------------
(* The handle *)

\* mysql_drive::Connect: a handle that cannot be connected, or is connected, is
\* given up without being closed.  sqlite_drive::Connect keeps none that failed.
Connect(ok) ==
    /\ IF drive = "mysql"
       THEN /\ IsInited /\ UNCHANGED made
            /\ IF ok /\ ~open[m_st]
               THEN m_bConnected' = TRUE /\ open' = With(m_st, TRUE) /\ UNCHANGED <<m_st, lost>>
               ELSE m_st' = 0 /\ lost' = lost + 1 /\ UNCHANGED <<m_bConnected, open>>
       ELSE /\ ~IsInited /\ made < MaxHandles /\ made' = made + 1
            /\ open' = With(made', ok)
            /\ IF ok THEN m_st' = made' /\ UNCHANGED lost ELSE lost' = lost + 1 /\ UNCHANGED m_st
            /\ UNCHANGED m_bConnected
    /\ UNCHANGED <<drive, result>>

\* Disconnect closes the handle it has.
Disconnect == /\ IsInited
              /\ open' = Without(m_st) /\ m_st' = 0 /\ m_bConnected' = FALSE
              /\ UNCHANGED <<drive, made, lost, result>>

\* mysql_drive::Reconnect: Disconnect, init and Connect; without a connection it throws.
Reconnect(ok) ==
    /\ drive = "mysql" /\ HasHandle /\ made < MaxHandles /\ made' = made + 1
    /\ open' = [k \in (DOMAIN open \ {m_st}) \cup {made'} |-> IF k = made' THEN ok ELSE open[k]]
    /\ m_bConnected' = ok
    /\ IF ok THEN m_st' = made' /\ UNCHANGED lost ELSE m_st' = 0 /\ lost' = lost + 1
    /\ UNCHANGED <<drive, result>>

-----------------------------------------------------------------------------
(* The result *)

\* HDBRes::GetValue(key, row): the value under the first column of that name.
Column(key) == CHOOSE j \in DOMAIN res.header :
                 res.header[j] = key /\ \A k \in 1 .. j - 1 : res.header[k] # key
GetValue(key, row) == res.rows[row][Column(key)]

\* What becomes of a value: mysql_drive writes NULL out.
Text(v) == IF v = NullValue THEN "NULL" ELSE v
Texts(rows) == [i \in DOMAIN rows |-> [j \in DOMAIN rows[i] |-> Text(rows[i][j])]]

\* Mutant: Clear is forgotten.
saveResOnto(t, n) == [header |-> t.header, rows |-> res.rows \o Texts(SubSeq(t.rows, 1, n))]
\* saveRes clears the result, sets the header and adds the rows that are fetched
\* until there is none, or there is an error.
saveRes(t, n) == [header |-> t.header, rows |-> Texts(SubSeq(t.rows, 1, n))]

\* mysql_drive::StoreResult, after Execute.  mysql_store_result fetches all or gives
\* nullptr, which a statement that selects nothing gives, too: the result stays.
StoreResult(t, ok) == /\ drive = "mysql" /\ HasHandle
                      /\ IF ok /\ t # NoTable
                         THEN res' = saveRes(t, Len(t.rows)) /\ stmt' = t /\ whole' = TRUE
                         ELSE UNCHANGED result
                      /\ UNCHANGED handle

\* mysql_drive::UseResult fetches row by row; an error ends it like the last row.
UseResult(t, n) == /\ drive = "mysql" /\ HasHandle
                   /\ IF t # NoTable
                      THEN /\ n <= Len(t.rows) /\ res' = saveRes(t, n)
                           /\ stmt' = t /\ whole' = (n = Len(t.rows))
                      ELSE n = 0 /\ UNCHANGED result
                   /\ UNCHANGED handle

\* sqlite_drive::GetResult clears the result first; an error of a step ends the rows
\* like the last one; the header comes with the first row.  A NULL, of which it makes
\* a string, throws.
GetResult(t, n) ==
    /\ drive = "sqlite" /\ HasHandle /\ n <= Len(t.rows)
    /\ LET throws == \E i \in 1 .. n : \E j \in DOMAIN t.header : t.rows[i][j] = NullValue IN
       /\ res' = IF throws \/ n = 0 THEN NoTable
                 ELSE [header |-> t.header, rows |-> SubSeq(t.rows, 1, n)]
       /\ stmt' = (IF throws \/ n = 0 THEN NoTable ELSE t)
       /\ whole' = (~throws /\ n = Len(t.rows))
    /\ UNCHANGED handle

Next == \/ Disconnect
        \/ \E ok \in BOOLEAN : Connect(ok) \/ Reconnect(ok)
        \/ \E t \in Tables \cup {NoTable} :
             \/ \E ok \in BOOLEAN : StoreResult(t, ok)
             \/ \E n \in 0 .. Len(t.rows) : UseResult(t, n) \/ GetResult(t, n)
Spec == Init /\ [][Next]_drVars

-----------------------------------------------------------------------------
(* Properties *)

\* Every variable keeps its type.
TypeOK == m_st \in 0 .. MaxHandles /\ DOMAIN open \subseteq 1 .. made /\ made <= MaxHandles

\* However a result is used again, and wherever the connection is lost, it is of one
\* statement: its header, the first of its rows, all if nothing was lost, each as
\* wide as the header, and every value found under its column.
OneStatement ==
    /\ res.header = stmt.header /\ Len(res.rows) <= Len(stmt.rows)
    /\ res.rows = SubSeq(Texts(stmt.rows), 1, Len(res.rows))
    /\ whole => Len(res.rows) = Len(stmt.rows)
    /\ \A i \in DOMAIN res.rows, j \in DOMAIN res.header :
         /\ Len(res.rows[i]) = Len(res.header)
         /\ GetValue(res.header[j], i) = Text(stmt.rows[i][j])

\* The handle a drive has is open, and connected when it is taken for connected;
\* and of the others, none is open but those of connects that failed.
HandlesExact ==
    /\ IsInited => m_st \in DOMAIN open /\ (HasHandle => open[m_st])
    /\ Cardinality(DOMAIN open \ {m_st}) = lost
=============================================================================
