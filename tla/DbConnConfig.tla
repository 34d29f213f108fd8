---------------------------- MODULE DbConnConfig ----------------------------
(***************************************************************************)
(* DbConnConfig (src/db/dbconnconfig.{h,cpp}): the connections of a        *)
(* configuration file, per database name, made when the file is read, any  *)
(* number of files one after the other, and given out by name and index.   *)
(* A connection may fail to be made in the middle of a file.               *)
(*                                                                         *)
(* A file is a sequence of items: a database's type and name, and whether  *)
(* the path it needs is there.  Other faults of a file (not there, no JSON,*)
(* no array of items, no type or name) end the call before or at an item   *)
(* like a type that is not supported.                                      *)
(***************************************************************************)
EXTENDS Naturals, Sequences, FiniteSets

CONSTANTS Names, MaxCount,   \* bound: connections per name and file
          MaxItems, MaxFiles, MaxConns     \* bounds

ConfigAssumption == MaxCount \in Nat \ {0} /\ {MaxItems, MaxFiles, MaxConns} \subseteq Nat
min_db_count == 1

VARIABLES m_db_conns,       \* per name: the connections, numbers in the order they were made
          conns, leaked,    \* how many were made; those nobody deletes
          file, i, jj, conn_count, cpc, cret,   \* a call: its file, place and counts; what it returned
          files             \* history: the files that were read to the end, and their counts

cfVars == <<m_db_conns, conns, leaked, file, i, jj, conn_count, cpc, cret, files>>

Items == [type : {"SQLITE", "MYSQL"}, name : Names, path : BOOLEAN]

Init == /\ m_db_conns = [n \in {} |-> <<>>] /\ conns = 0 /\ leaked = {}
        /\ file = <<>> /\ i = 1 /\ jj = 0 /\ conn_count = 0 /\ cpc = "idle" /\ cret = "none"
        /\ files = <<>>

\* InitFromConfigFile with a count of at least one.
InitFromConfigFile(f, count) ==
    /\ cpc = "idle" /\ Len(files) < MaxFiles
    /\ file' = f /\ i' = 1 /\ jj' = 0
    /\ conn_count' = IF count < min_db_count THEN min_db_count ELSE count
    /\ cpc' = "item" /\ cret' = "none"
    /\ UNCHANGED <<m_db_conns, conns, leaked, files>>

Return(r) == /\ cpc' = "idle" /\ cret' = r /\ file' = <<>> /\ i' = 1 /\ jj' = 0
             /\ conn_count' = 0

\* The file is at its end, or the item cannot be used: the connections made for the
\* items before it stay.
Finish == /\ cpc = "item" /\ i > Len(file) /\ Return("OK")
          /\ files' = Append(files, [file |-> file, count |-> conn_count])
          /\ UNCHANGED <<m_db_conns, conns, leaked>>
Refuse == /\ cpc = "item" /\ i <= Len(file)
          /\ ~(file[i].type = "SQLITE" /\ file[i].path) /\ Return("INVL_PARA")
          /\ UNCHANGED <<m_db_conns, conns, leaked, files>>

\* AddConn puts a connection behind the others of its name.
AddConn(str, ptr) == [n \in DOMAIN m_db_conns \cup {str} |->
                        IF n # str THEN m_db_conns[n]
                        ELSE IF str \in DOMAIN m_db_conns THEN Append(m_db_conns[str], ptr)
                        ELSE <<ptr>>]

\* One connection of an item is made; one that cannot be connected is not deleted.
Usable == cpc = "item" /\ i <= Len(file) /\ file[i].type = "SQLITE" /\ file[i].path
Connected == /\ Usable /\ conns < MaxConns /\ conns' = conns + 1
             /\ m_db_conns' = AddConn(file[i].name, conns')
             /\ IF jj + 1 < conn_count THEN jj' = jj + 1 /\ UNCHANGED i
                ELSE jj' = 0 /\ i' = i + 1
             /\ UNCHANGED <<leaked, file, conn_count, cpc, cret, files>>
ConnectFails == /\ Usable /\ conns < MaxConns /\ conns' = conns + 1
                /\ leaked' = leaked \cup {conns'} /\ Return("DEP_ERROR")
                /\ UNCHANGED <<m_db_conns, files>>

\* GetConn, and so Query and Exec: the connection, or it throws.
GetConn(str, index) == IF str \in DOMAIN m_db_conns /\ index < Len(m_db_conns[str])
                       THEN m_db_conns[str][index + 1] ELSE 0

\* The destructor deletes the connections, and a new object starts.
Destroy == /\ cpc = "idle" /\ m_db_conns # [n \in {} |-> <<>>]
           /\ m_db_conns' = [n \in {} |-> <<>>] /\ files' = <<>>
           /\ leaked' = {} /\ conns' = 0 /\ cret' = "none"
           /\ UNCHANGED <<file, i, jj, conn_count, cpc>>

Next == \/ \E n \in 0 .. MaxItems : \E f \in [1 .. n -> Items], c \in 0 .. MaxCount :
             InitFromConfigFile(f, c)
        \/ Finish \/ Refuse \/ Connected \/ ConnectFails \/ Destroy
Spec == Init /\ [][Next]_cfVars

-----------------------------------------------------------------------------
(* Properties *)

\* Every variable keeps its type.
TypeOK == DOMAIN m_db_conns \subseteq Names /\ conns \in 0 .. MaxConns /\ leaked \subseteq 1 .. conns

Listed == {x \in Names \X (1 .. MaxConns) : x[1] \in DOMAIN m_db_conns /\ x[2] <= Len(m_db_conns[x[1]])}

Promised(n) == {x \in (1 .. MaxFiles) \X (1 .. MaxItems) \X (1 .. MaxCount) :
                  /\ x[1] \in DOMAIN files /\ x[2] \in DOMAIN files[x[1]].file
                  /\ files[x[1]].file[x[2]].name = n /\ x[3] <= files[x[1]].count}

\* Every connection is in one place of one list or leaked, so that none is deleted
\* twice and none that failed is given out, however files name a database again and
\* wherever they fail; and a file that was read to the end has all its connections,
\* on top of those of the files before it.
ConnsExact ==
    /\ \A x, y \in Listed : x # y => m_db_conns[x[1]][x[2]] # m_db_conns[y[1]][y[2]]
    /\ {m_db_conns[x[1]][x[2]] : x \in Listed} = (1 .. conns) \ leaked
    /\ \A n \in Names : \A x \in 1 .. Cardinality(Promised(n)) :
         GetConn(n, x - 1) \in (1 .. conns) \ leaked
=============================================================================
