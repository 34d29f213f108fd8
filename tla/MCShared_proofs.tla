--------------------------- MODULE MCShared_proofs ---------------------------
(***************************************************************************)
(* What MCShared checks of the semaphore, of the TCP connection and of the *)
(* singleton on a small instance, for any processes, messages, lengths and *)
(* timeouts, threads, units and addresses.                                 *)
(***************************************************************************)
EXTENDS MCShared, Sequences, FiniteSetTheorems, SequenceTheorems, TLAPS

-----------------------------------------------------------------------------
(* Semaphore *)

\* A process is inside exactly between a granted operation and the one that gives
\* back, and the kernel would undo that one operation for it; the value is what
\* the Setall of the leader gave unless somebody is inside.  Who has passed Init has
\* a semaphore that is there.
SemInv ==
    /\ Sem!TypeOK
    /\ \A p \in Procs : inside[p] <=> mpc[p] = "inside"
    /\ \A p \in Procs : undo[p] = IF inside[p] THEN 1 ELSE 0
    /\ \A p \in Procs : mpc[p] \notin {"start", "open"} => inited[p] /\ exists
    /\ \A p, q \in Procs : inside[p] /\ inside[q] => p = q
    /\ setDone => exists
    /\ ~setDone => \A p \in Procs : ~inside[p]
    /\ semval = IF setDone /\ \A p \in Procs : ~inside[p] THEN 1 ELSE 0

\* Before anybody called Init nobody is inside and the value is 0.
LEMMA SemInitInv ==
  ASSUME Sem!SemaphoreAssumption, Sem!Init
  PROVE  SemInv
  BY DEF Sem!SemaphoreAssumption, Sem!Init, SemInv, Sem!TypeOK

\* Every step of a process, of the kernel and of the leader keeps SemInv, if the
\* leader sets the semaphore once and no signal reaches a SemHolder that waits.
LEMMA SemNextInv ==
  ASSUME Sem!SemaphoreAssumption, SetOnce, ~HolderSignals, SemInv,
         [Sem!Next]_semVars
  PROVE  SemInv'
  <1> USE DEF Sem!Goto, Sem!kernel, SemInv, Sem!TypeOK, Sem!SemaphoreAssumption
  <1>1. ASSUME NEW p \in Procs, Sem!create(p)
        PROVE  SemInv'
    <2>1. CASE exists
      BY <1>1, <2>1 DEF Sem!create
    <2>2. CASE ~exists /\ semid' = 1
      <3>0. /\ inited' = [inited EXCEPT ![p] = semid' > 0] /\ (semid' > 0) = TRUE
            /\ mpc' = [mpc EXCEPT ![p] = IF semid' > 0 THEN "ready" ELSE "start"]
        BY <1>1, <2>2 DEF Sem!create
      <3>1. /\ inited' = [inited EXCEPT ![p] = TRUE]
            /\ mpc' = [mpc EXCEPT ![p] = "ready"]
        BY <3>0, Zenon
      <3>2. /\ exists' = TRUE /\ semval' = 0 /\ undo' = [q \in Procs |-> 0]
            /\ UNCHANGED <<tries, inside, setDone>>
        BY <1>1, <2>2 DEF Sem!create
      <3>3. mpc[p] = "start" /\ ~setDone /\ \A q \in Procs : ~inside[q]
        BY <1>1, <2>2 DEF Sem!create
      <3> QED
        BY <2>2, <3>1, <3>2, <3>3
    <2>3. CASE ~exists /\ semid' = 0
      BY <1>1, <2>3 DEF Sem!create
    <2> QED
      BY <1>1, <2>1, <2>2, <2>3 DEF Sem!create
  <1>2. ASSUME NEW p \in Procs, Sem!open(p)
        PROVE  SemInv'
    BY <1>2 DEF Sem!open
  <1>3. ASSUME NEW p \in Procs, Sem!Lock(p)
        PROVE  SemInv'
    BY <1>3 DEF Sem!Lock
  <1>4. ASSUME NEW p \in Procs, Sem!Unlock(p)
        PROVE  SemInv'
    BY <1>4 DEF Sem!Unlock
  <1>5. ASSUME NEW p \in Procs, Sem!Interrupted(p)
        PROVE  SemInv'
    BY <1>5 DEF Sem!Interrupted
  <1>6. ASSUME NEW p \in Procs, Sem!Die(p)
        PROVE  SemInv'
    BY <1>6 DEF Sem!Die
  <1>7. ASSUME NEW p \in Procs, NEW how \in {"lock", "holder"}, Sem!Call(p, how)
        PROVE  SemInv'
    BY <1>7 DEF Sem!Call
  <1>8. CASE Sem!Setall
    BY <1>8 DEF Sem!Setall
  <1>9. CASE Sem!Stat
    BY <1>9 DEF Sem!Stat
  <1>10. CASE UNCHANGED semVars
    BY <1>10 DEF semVars
  <1> QED
    BY <1>1, <1>2, <1>3, <1>4, <1>5, <1>6, <1>7, <1>8, <1>9, <1>10
    DEF Sem!Next, Sem!Step

\* The instances have the number of elements of the standard module.
LEMMA SemCardinality == \A S : Sem!Cardinality(S) = Cardinality(S)
  BY DEF Sem!Cardinality, Cardinality

\* With at most one process inside, the value and the number inside add up.
LEMMA SemInvExact ==
  ASSUME SemInv
  PROVE  MutexExact
  <1>1. CASE \A p \in Procs : ~inside[p]
    <2>1. Sem!Inside = {}
      BY <1>1 DEF Sem!Inside
    <2> QED
      BY <1>1, <2>1, FS_EmptySet, SemCardinality
      DEF SemInv, MutexExact, Sem!MutexExact, Sem!InitedInside
  <1>2. ASSUME NEW p \in Procs, inside[p]
        PROVE  MutexExact
    <2>1. Sem!Inside = {p}
      BY <1>2 DEF Sem!Inside, SemInv
    <2>2. Sem!Cardinality(Sem!Inside) = 1
      BY <2>1, FS_Singleton, SemCardinality
    <2>3. semval = 0 /\ setDone
      BY <1>2 DEF SemInv
    <2>4. inited[p] /\ exists
      BY <1>2 DEF SemInv
    <2>5. Sem!TypeOK
      BY DEF SemInv
    <2>6. Sem!MutexExact
      BY <2>2, <2>3 DEF Sem!MutexExact
    <2> QED
      BY <2>1, <2>4, <2>5, <2>6 DEF MutexExact, Sem!InitedInside
  <1> QED
    BY <1>1, <1>2

\* HSemaphore as a mutex: for any processes, however often they start, race in Init,
\* are interrupted in Lock and die anywhere, one is inside or the value is 1.
THEOREM SemaphoreExact ==
  ASSUME SetOnce, ~HolderSignals
  PROVE  Sem!Spec => []MutexExact
  <1>1. Sem!Init => SemInv
    BY SemInitInv, SharedAssumption
  <1>2. SemInv /\ [Sem!Next]_(Sem!semVars) => SemInv'
    BY SemNextInv, SharedAssumption DEF Sem!semVars, semVars
  <1>3. SemInv => MutexExact
    BY SemInvExact
  <1> QED
    BY <1>1, <1>2, <1>3, PTL DEF Sem!Spec

\* The same in the composition that the run checks.
THEOREM MutexAlways ==
  ASSUME SetOnce, ~HolderSignals
  PROVE  SharedSpec => []MutexExact
  <1>1. SharedInit => SemInv
    BY SemInitInv, SharedAssumption DEF SharedInit
  <1>2. SemInv /\ [SharedNext]_<<part, lsVars, tcpVars, semVars>> => SemInv'
    <2> SUFFICES ASSUME SemInv, [SharedNext]_<<part, lsVars, tcpVars, semVars>>
                 PROVE  SemInv'
      OBVIOUS
    <2>1. [Sem!Next]_semVars
      BY DEF SharedNext
    <2> QED
      BY <2>1, SemNextInv, SharedAssumption
  <1>3. SemInv => MutexExact
    BY SemInvExact
  <1> QED
    BY <1>1, <1>2, <1>3, PTL DEF SharedSpec

-----------------------------------------------------------------------------
(* TcpSocket *)

\* The place of a byte in the stream that the client writes, and the number of
\* bytes of it that the server has read.
Pos(b)   == (b[1] - 1) * Length + b[2]
ReadUpTo == Len(frames) * Length + (IF spc = "idle" THEN 0 ELSE Len(rbuf))

Bytes == (1 .. MaxMessages) \X (1 .. Length)
Fresh == {"none", "TIME_OUT", "NETWORK_ERROR", "SYS_FAILED"}

TcpTypes ==
    /\ Tcp!TypeOK
    /\ msg \in 0 .. MaxMessages /\ taken \in Nat
    /\ rbuf \in Seq(Bytes) /\ Len(rbuf) <= Length
    /\ frames \in Seq(Seq(Bytes))
    /\ cret \in Fresh \cup {"OK", "all", "thrown", "error"}
    /\ sret \in {"none", "full", "short"}

\* Nothing is written or read before there is a connection, and the server reads
\* only what it has not closed.  A client that has not connected has written
\* nothing; one that says so has a connection.
Connected ==
    /\ conn # "established" => ~sfd
    /\ cpc \in {"try", "select", "check"} => cret \in Fresh
    /\ cpc \in {"wselect", "write", "blocked"} => cret \in {"OK", "all"} /\ msg > 0
    /\ cret \notin Fresh => conn = "established"
    /\ cret \in Fresh => msg = 0
    /\ cpc = "idle" /\ cret = "OK" => msg = 0
    /\ cpc = "idle" /\ cret = "all" => msg > 0 /\ sent = Length
    /\ spc # "idle" => sfd /\ sret # "short"
    /\ conn # "established" => frames = <<>> /\ pipe = <<>> /\ sret = "none" /\ spc = "idle"

\* The bytes that the kernel took are the first ones of the stream; those that are
\* on the way are the ones after what the server has read, as long as it goes on
\* reading; what it has of a message is the beginning of the next one.
Stream ==
    /\ taken = IF msg = 0 THEN 0 ELSE (msg - 1) * Length + sent
    /\ sfd /\ sret # "short" =>
         /\ taken = ReadUpTo + Len(pipe)
         /\ \A i \in 1 .. Len(pipe) : Pos(pipe[i]) = ReadUpTo + i
    /\ spc # "idle" => \A j \in 1 .. Len(rbuf) : rbuf[j] = <<Len(frames) + 1, j>>
    /\ \A i \in 1 .. Len(frames) : frames[i] = Tcp!Message(i)

TcpInv == TcpTypes /\ Connected /\ Stream

\* Before the client has called anything the stream is empty.
LEMMA TcpInitInv ==
  ASSUME Tcp!TcpAssumption, Tcp!Init
  PROVE  TcpInv
  BY DEF Tcp!TcpAssumption, Tcp!Init, Tcp!TypeOK, TcpInv, TcpTypes, Connected, Stream,
         Bytes, Fresh, ReadUpTo

\* What a step that moves no byte leaves of the stream, unless it opens the
\* connection, when nothing has been written.
LEMMA StreamKept ==
  ASSUME Tcp!TcpAssumption, TcpInv,
         UNCHANGED <<pipe, msg, sent, taken, spc, rbuf, frames, sret>>,
         sfd' => sfd \/ conn # "established"
  PROVE  Stream'
  <1>1. CASE sfd' => sfd
    BY <1>1 DEF TcpInv, Stream, ReadUpTo
  <1>2. CASE conn # "established"
    <2>1. msg = 0 /\ frames = <<>> /\ pipe = <<>> /\ spc = "idle" /\ taken = 0
      BY <1>2 DEF TcpInv, TcpTypes, Connected, Stream
    <2> QED
      BY <2>1 DEF TcpInv, Stream, ReadUpTo, Tcp!TcpAssumption
  <1> QED
    BY <1>1, <1>2

\* Steps that move no byte: the calls that connect, the selects, the clocks, the
\* network.
LEMMA TcpQuiet ==
  ASSUME Tcp!TcpAssumption, TcpInv,
         \/ Tcp!Connect \/ Tcp!ConnectWithTimeOut \/ Tcp!TryConnect \/ Tcp!ConnectSelect
         \/ Tcp!ConnectCheck \/ Tcp!WriteSelect \/ Tcp!ClientSignal \/ Tcp!ClientClose
         \/ Tcp!Answer \/ Tcp!NetChange \/ Tcp!ClientTick \/ Tcp!ServerTick
         \/ UNCHANGED tcpVars
  PROVE  TcpInv'
  <1> USE DEF Tcp!TcpAssumption, Tcp!TypeOK, TcpTypes, Connected,
              Fresh, Tcp!Return, Tcp!client, Tcp!server, Tcp!Loop
  <1>1. CASE Tcp!Connect
    <2>1. TcpTypes'
      BY <1>1 DEF TcpInv, Tcp!Connect, Tcp!MayConnect
    <2>2. Connected'
      BY <1>1 DEF TcpInv, Tcp!Connect, Tcp!MayConnect
    <2>3. Stream'
      BY <1>1, StreamKept DEF Tcp!Connect, Tcp!MayConnect
    <2> QED
      BY <2>1, <2>2, <2>3 DEF TcpInv
  <1>2. CASE Tcp!ConnectWithTimeOut
    <2>1. TcpTypes'
      BY <1>2 DEF TcpInv, Tcp!ConnectWithTimeOut, Tcp!MayConnect
    <2>2. Connected'
      BY <1>2 DEF TcpInv, Tcp!ConnectWithTimeOut, Tcp!MayConnect
    <2>3. Stream'
      BY <1>2, StreamKept DEF Tcp!ConnectWithTimeOut, Tcp!MayConnect
    <2> QED
      BY <2>1, <2>2, <2>3 DEF TcpInv
  <1>3. CASE Tcp!TryConnect
    <2>1. TcpTypes'
      BY <1>3 DEF TcpInv, Tcp!TryConnect
    <2>2. Connected'
      <3>1. CASE conn' = "established" /\ cpc' = "idle" /\ cret' = "OK"
        <4>1. sfd => sfd'
          BY <1>3, <3>1 DEF TcpInv, Tcp!TryConnect
        <4>2. UNCHANGED <<msg, spc, sret, frames, pipe>> /\ cret \in Fresh
          BY <1>3 DEF TcpInv, Tcp!TryConnect
        <4> QED
          BY <3>1, <4>1, <4>2 DEF TcpInv
      <3>2. CASE conn # "established" /\ cpc' = "select" /\ UNCHANGED <<cret, sfd>>
        BY <1>3, <3>2 DEF TcpInv, Tcp!TryConnect
      <3> QED
        BY <1>3, <3>1, <3>2 DEF Tcp!TryConnect
    <2>3. Stream'
      BY <1>3, StreamKept DEF Tcp!TryConnect
    <2> QED
      BY <2>1, <2>2, <2>3 DEF TcpInv
  <1>4. CASE Tcp!ConnectSelect
    <2>1. TcpTypes'
      BY <1>4 DEF TcpInv, Tcp!ConnectSelect
    <2>2. Connected'
      BY <1>4 DEF TcpInv, Tcp!ConnectSelect
    <2>3. Stream'
      BY <1>4, StreamKept DEF Tcp!ConnectSelect
    <2> QED
      BY <2>1, <2>2, <2>3 DEF TcpInv
  <1>5. CASE Tcp!ConnectCheck
    <2>1. TcpTypes'
      BY <1>5 DEF TcpInv, Tcp!ConnectCheck
    <2>2. Connected'
      BY <1>5 DEF TcpInv, Tcp!ConnectCheck
    <2>3. Stream'
      BY <1>5, StreamKept DEF Tcp!ConnectCheck
    <2> QED
      BY <2>1, <2>2, <2>3 DEF TcpInv
  <1>6. CASE Tcp!WriteSelect
    <2>1. TcpTypes'
      BY <1>6 DEF TcpInv, Tcp!WriteSelect
    <2>2. Connected'
      BY <1>6 DEF TcpInv, Tcp!WriteSelect
    <2>3. Stream'
      BY <1>6, StreamKept DEF Tcp!WriteSelect
    <2> QED
      BY <2>1, <2>2, <2>3 DEF TcpInv
  <1>7. CASE Tcp!ClientSignal
    <2>1. TcpTypes'
      BY <1>7 DEF TcpInv, Tcp!ClientSignal
    <2>2. Connected'
      BY <1>7 DEF TcpInv, Tcp!ClientSignal
    <2>3. Stream'
      BY <1>7, StreamKept DEF Tcp!ClientSignal
    <2> QED
      BY <2>1, <2>2, <2>3 DEF TcpInv
  <1>8. CASE Tcp!ClientClose
    <2>1. TcpTypes'
      BY <1>8 DEF TcpInv, Tcp!ClientClose
    <2>2. Connected'
      BY <1>8 DEF TcpInv, Tcp!ClientClose
    <2>3. Stream'
      BY <1>8, StreamKept DEF Tcp!ClientClose
    <2> QED
      BY <2>1, <2>2, <2>3 DEF TcpInv
  <1>9. CASE Tcp!Answer
    <2>1. TcpTypes'
      BY <1>9 DEF TcpInv, Tcp!Answer
    <2>2. Connected'
      BY <1>9 DEF TcpInv, Tcp!Answer
    <2>3. Stream'
      BY <1>9, StreamKept DEF Tcp!Answer
    <2> QED
      BY <2>1, <2>2, <2>3 DEF TcpInv
  <1>10. CASE Tcp!NetChange
    <2>1. TcpTypes'
      BY <1>10 DEF TcpInv, Tcp!NetChange
    <2>2. Connected'
      BY <1>10 DEF TcpInv, Tcp!NetChange
    <2>3. Stream'
      BY <1>10, StreamKept DEF Tcp!NetChange
    <2> QED
      BY <2>1, <2>2, <2>3 DEF TcpInv
  <1>11. CASE Tcp!ClientTick
    <2>1. TcpTypes'
      BY <1>11 DEF TcpInv, Tcp!ClientTick
    <2>2. Connected'
      BY <1>11 DEF TcpInv, Tcp!ClientTick
    <2>3. Stream'
      BY <1>11, StreamKept DEF Tcp!ClientTick
    <2> QED
      BY <2>1, <2>2, <2>3 DEF TcpInv
  <1>12. CASE Tcp!ServerTick
    <2>1. TcpTypes'
      BY <1>12 DEF TcpInv, Tcp!ServerTick
    <2>2. Connected'
      BY <1>12 DEF TcpInv, Tcp!ServerTick
    <2>3. Stream'
      BY <1>12, StreamKept DEF Tcp!ServerTick
    <2> QED
      BY <2>1, <2>2, <2>3 DEF TcpInv
  <1>13. CASE UNCHANGED tcpVars
    <2>1. TcpTypes'
      BY <1>13 DEF TcpInv, tcpVars
    <2>2. Connected'
      BY <1>13 DEF TcpInv, tcpVars
    <2>3. Stream'
      BY <1>13, StreamKept DEF tcpVars
    <2> QED
      BY <2>1, <2>2, <2>3 DEF TcpInv
  <1> QED
    BY <1>1, <1>2, <1>3, <1>4, <1>5, <1>6, <1>7, <1>8, <1>9, <1>10, <1>11, <1>12, <1>13

\* Places in the stream: a message ends before a later one begins.
LEMMA LaterMessage ==
  ASSUME NEW l \in Nat, NEW x \in Nat, NEW y \in Nat, x < y
  PROVE  x * l + l <= y * l
  <1>1. PICK d \in Nat : y = (x + 1) + d
    <2>1. y - (x + 1) \in Nat /\ y = (x + 1) + (y - (x + 1))
      OBVIOUS
    <2> QED
      BY <2>1
  <1>2. y * l = (x * l + l) + d * l
    BY <1>1
  <1>3. d * l \in Nat /\ x * l \in Nat
    OBVIOUS
  <1> QED
    BY <1>2, <1>3

\* A byte is the one that its place says.
LEMMA ByteAt ==
  ASSUME Tcp!TcpAssumption, NEW b \in Bytes, NEW n \in Nat, NEW k \in 1 .. Length,
         Pos(b) = n * Length + k
  PROVE  b = <<n + 1, k>>
  <1>1. Length \in Nat /\ MaxMessages \in Nat
    BY DEF Tcp!TcpAssumption
  <1>2. /\ b = <<b[1], b[2]>> /\ b[1] \in 1 .. MaxMessages /\ b[2] \in 1 .. Length
    BY DEF Bytes
  <1>3. PICK m \in Nat, j \in 1 .. Length : m = b[1] - 1 /\ j = b[2]
    BY <1>1, <1>2
  <1>4. m * Length + j = n * Length + k
    BY <1>3 DEF Pos
  <1>5. m * Length \in Nat /\ n * Length \in Nat
    BY <1>1
  <1>6. ~(m < n)
    <2> SUFFICES ASSUME m < n PROVE FALSE
      OBVIOUS
    <2>1. m * Length + Length <= n * Length
      BY <1>1, LaterMessage
    <2> QED
      BY <1>1, <1>4, <1>5, <2>1
  <1>7. ~(n < m)
    <2> SUFFICES ASSUME n < m PROVE FALSE
      OBVIOUS
    <2>1. n * Length + Length <= m * Length
      BY <1>1, LaterMessage
    <2> QED
      BY <1>1, <1>4, <1>5, <2>1
  <1>8. m = n
    BY <1>6, <1>7
  <1>9. j = k
    BY <1>1, <1>4, <1>5, <1>8
  <1> QED
    BY <1>1, <1>2, <1>3, <1>8, <1>9

\* A part of a sequence.
LEMMA Middle ==
  ASSUME NEW S, NEW s \in Seq(S), NEW a \in Nat, NEW k \in Nat, a + k <= Len(s)
  PROVE  /\ SubSeq(s, a + 1, a + k) \in Seq(S)
         /\ Len(SubSeq(s, a + 1, a + k)) = k
         /\ \A i \in 1 .. k : SubSeq(s, a + 1, a + k)[i] = s[a + i]
  <1>1. \A i \in a + 1 .. a + k : s[i] \in S
    OBVIOUS
  <1>2. PICK m \in Int, n \in Int : m = a + 1 /\ n = a + k
    OBVIOUS
  <1>3. /\ SubSeq(s, m, n) \in Seq(S)
        /\ Len(SubSeq(s, m, n)) = IF m <= n THEN n - m + 1 ELSE 0
        /\ \A i \in 1 .. n - m + 1 : SubSeq(s, m, n)[i] = s[m + i - 1]
    BY <1>1, <1>2, SubSeqProperties, SMTT(30)
  <1>4. Len(SubSeq(s, m, n)) = k
    BY <1>2, <1>3
  <1>5. \A i \in 1 .. k : SubSeq(s, m, n)[i] = s[a + i]
    BY <1>2, <1>3
  <1> QED
    BY <1>2, <1>3, <1>4, <1>5

\* The kernel takes bytes: they follow those that are on the way.
LEMMA TakeStream ==
  ASSUME Tcp!TcpAssumption, TcpInv, cpc \in {"write", "blocked"},
         NEW k \in 1 .. Tcp!Least(Tcp!Space, Length - sent), Tcp!Take(k),
         UNCHANGED <<msg, sfd, spc, rbuf, sret, frames>>
  PROVE  /\ pipe' \in Seq(Bytes) /\ Len(pipe') <= Capacity
         /\ sent' \in 0 .. Length /\ taken' \in Nat
         /\ Stream'
  <1> DEFINE new == SubSeq(Tcp!Message(msg), sent + 1, sent + k)
  <1>1. /\ msg \in 1 .. MaxMessages /\ sent \in 0 .. Length /\ taken \in Nat
        /\ pipe \in Seq(Bytes) /\ Length \in Nat /\ Capacity \in Nat
    BY DEF Tcp!TcpAssumption, TcpInv, TcpTypes, Tcp!TypeOK, Connected, Bytes
  <1>2. /\ k \in Nat /\ k > 0 /\ sent + k \in 1 .. Length
        /\ Len(pipe) + k <= Capacity
    BY <1>1 DEF Tcp!Least, Tcp!Space
  <1>3. /\ new \in Seq(Bytes) /\ Len(new) = k
        /\ \A i \in 1 .. k : new[i] = <<msg, sent + i>>
    <2>1. /\ Tcp!Message(msg) \in Seq(Bytes) /\ Len(Tcp!Message(msg)) = Length
          /\ \A j \in 1 .. Length : Tcp!Message(msg)[j] = <<msg, j>>
      BY <1>1 DEF Tcp!Message, Bytes
    <2> HIDE DEF Bytes, Tcp!Message
    <2>2. sent \in Nat /\ sent + k <= Len(Tcp!Message(msg))
      BY <1>1, <1>2, <2>1
    <2>3. /\ new \in Seq(Bytes) /\ Len(new) = k
          /\ \A i \in 1 .. k : new[i] = Tcp!Message(msg)[sent + i]
      BY <1>2, <2>1, <2>2, Middle, SMTT(30)
    <2>4. \A i \in 1 .. k : sent + i \in 1 .. Length
      BY <1>1, <1>2
    <2> QED
      BY <2>1, <2>3, <2>4
  <1>4. pipe' = pipe \o new /\ sent' = sent + k /\ taken' = taken + k
    BY DEF Tcp!Take
  <1> HIDE DEF new
  <1>5. /\ pipe' \in Seq(Bytes) /\ Len(pipe') = Len(pipe) + k
        /\ \A i \in 1 .. Len(pipe) : pipe'[i] = pipe[i]
        /\ \A i \in Len(pipe) + 1 .. Len(pipe') : pipe'[i] = <<msg, sent + (i - Len(pipe))>>
    <2>1. /\ pipe \o new \in Seq(Bytes) /\ Len(pipe \o new) = Len(pipe) + Len(new)
          /\ \A i \in 1 .. Len(pipe) + Len(new) :
                (pipe \o new)[i] = IF i <= Len(pipe) THEN pipe[i] ELSE new[i - Len(pipe)]
      BY <1>1, <1>3, ConcatProperties
    <2>2. Len(pipe) \in Nat
      BY <1>1
    <2> QED
      BY <1>2, <1>3, <1>4, <2>1, <2>2
  <1>6. taken = (msg - 1) * Length + sent
    BY <1>1 DEF TcpInv, Stream
  <1>7. taken' = (msg' - 1) * Length + sent'
    <2>1. (msg - 1) * Length \in Int
      BY <1>1
    <2> QED
      BY <1>1, <1>2, <1>4, <1>6, <2>1
  <1>8. ASSUME sfd, sret # "short"
        PROVE  /\ taken' = ReadUpTo + Len(pipe')
               /\ \A i \in 1 .. Len(pipe') : Pos(pipe'[i]) = ReadUpTo + i
    <2>1. /\ taken = ReadUpTo + Len(pipe) /\ ReadUpTo \in Nat
          /\ \A i \in 1 .. Len(pipe) : Pos(pipe[i]) = ReadUpTo + i
      <3>1. Len(frames) * Length \in Nat /\ Len(rbuf) \in Nat
        BY <1>1 DEF TcpInv, TcpTypes
      <3> QED
        BY <1>8, <3>1 DEF TcpInv, Stream, ReadUpTo
    <2>2. taken' = ReadUpTo + Len(pipe')
      BY <1>1, <1>2, <1>4, <1>5, <2>1
    <2>3. ASSUME NEW i \in Len(pipe) + 1 .. Len(pipe')
          PROVE  Pos(pipe'[i]) = ReadUpTo + i
      <3> DEFINE base == (msg - 1) * Length
      <3>1. Pos(pipe'[i]) = base + (sent + (i - Len(pipe)))
        BY <1>5, <2>3 DEF Pos
      <3>2. base \in Int /\ Len(pipe) \in Nat /\ i \in Int
        BY <1>1, <1>2, <1>5, SMTT(30)
      <3>3. taken = base + sent
        BY <1>6
      <3> HIDE DEF base
      <3>4. base + (sent + (i - Len(pipe))) = ReadUpTo + i
        BY <1>1, <2>1, <3>2, <3>3
      <3> QED
        BY <3>1, <3>4, Zenon
    <2>4. ASSUME NEW i \in 1 .. Len(pipe')
          PROVE  Pos(pipe'[i]) = ReadUpTo + i
      <3>1. i \in 1 .. Len(pipe) \/ i \in Len(pipe) + 1 .. Len(pipe')
        BY <1>1, <1>2, <1>5
      <3>2. CASE i \in 1 .. Len(pipe)
        <4>1. pipe'[i] = pipe[i] /\ Pos(pipe[i]) = ReadUpTo + i
          BY <1>5, <2>1, <3>2
        <4> QED
          BY <4>1, Zenon
      <3> QED
        BY <2>3, <3>1, <3>2
    <2> QED
      BY <2>2, <2>4
  <1>9. ReadUpTo' = ReadUpTo
    BY DEF ReadUpTo
  <1>10. Stream'
    BY <1>1, <1>7, <1>8, <1>9 DEF TcpInv, Stream
  <1> QED
    BY <1>1, <1>2, <1>4, <1>5, <1>10

\* The two parts of a sequence that is read from its front.
LEMMA FrontAndRest ==
  ASSUME NEW S, NEW s \in Seq(S), NEW k \in Nat, k <= Len(s)
  PROVE  /\ SubSeq(s, 1, k) \in Seq(S) /\ Len(SubSeq(s, 1, k)) = k
         /\ \A i \in 1 .. k : SubSeq(s, 1, k)[i] = s[i]
         /\ SubSeq(s, k + 1, Len(s)) \in Seq(S)
         /\ Len(SubSeq(s, k + 1, Len(s))) = Len(s) - k
         /\ \A i \in 1 .. Len(s) - k : SubSeq(s, k + 1, Len(s))[i] = s[k + i]
  <1>1. 0 + 1 = 1 /\ 0 + k = k /\ \A i \in 1 .. k : 0 + i = i
    OBVIOUS
  <1>2. /\ SubSeq(s, 0 + 1, 0 + k) \in Seq(S) /\ Len(SubSeq(s, 0 + 1, 0 + k)) = k
        /\ \A i \in 1 .. k : SubSeq(s, 0 + 1, 0 + k)[i] = s[0 + i]
    BY Middle
  <1>3. PICK d \in Nat : d = Len(s) - k /\ k + d = Len(s)
    <2>1. Len(s) - k \in Nat /\ k + (Len(s) - k) = Len(s)
      OBVIOUS
    <2> QED
      BY <2>1
  <1>4. /\ SubSeq(s, k + 1, k + d) \in Seq(S) /\ Len(SubSeq(s, k + 1, k + d)) = d
        /\ \A i \in 1 .. d : SubSeq(s, k + 1, k + d)[i] = s[k + i]
    BY <1>3, Middle
  <1> QED
    BY <1>1, <1>2, <1>3, <1>4

\* The server reads bytes: they are the next ones of the message that it reads, and
\* those that stay on the way follow them.
LEMMA ReadStream ==
  ASSUME Tcp!TcpAssumption, TcpInv, spc = "read",
         NEW k \in 1 .. Tcp!Least(Len(pipe), Length - Len(rbuf)),
         rbuf' = rbuf \o SubSeq(pipe, 1, k), pipe' = SubSeq(pipe, k + 1, Len(pipe)),
         spc' # "idle", UNCHANGED <<msg, sent, taken, sfd, sret, frames>>
  PROVE  /\ pipe' \in Seq(Bytes) /\ Len(pipe') <= Capacity
         /\ rbuf' \in Seq(Bytes) /\ Len(rbuf') <= Length
         /\ Stream'
  <1> DEFINE front == SubSeq(pipe, 1, k)
             n     == Len(frames)
  <1>1. /\ pipe \in Seq(Bytes) /\ rbuf \in Seq(Bytes) /\ taken \in Nat
        /\ Len(pipe) <= Capacity /\ Length \in Nat /\ Capacity \in Nat /\ n \in Nat
        /\ Len(pipe) \in Nat /\ Len(rbuf) \in Nat
    BY DEF Tcp!TcpAssumption, TcpInv, TcpTypes, Tcp!TypeOK, Bytes
  <1>2. /\ k \in Nat /\ k > 0 /\ k <= Len(pipe) /\ Len(rbuf) + k <= Length
    BY <1>1 DEF Tcp!Least
  <1>3. /\ sfd /\ sret # "short" /\ taken = ReadUpTo + Len(pipe)
        /\ \A i \in 1 .. Len(pipe) : Pos(pipe[i]) = ReadUpTo + i
        /\ \A j \in 1 .. Len(rbuf) : rbuf[j] = <<n + 1, j>>
    BY DEF TcpInv, Connected, Stream
  <1>4. ReadUpTo = n * Length + Len(rbuf) /\ ReadUpTo \in Nat
    <2>1. ReadUpTo = n * Length + Len(rbuf)
      BY DEF ReadUpTo
    <2>2. n * Length \in Nat
      BY <1>1
    <2> QED
      BY <1>1, <2>1, <2>2
  <1>5. /\ front \in Seq(Bytes) /\ Len(front) = k
        /\ \A i \in 1 .. k : front[i] = pipe[i]
        /\ pipe' \in Seq(Bytes) /\ Len(pipe') = Len(pipe) - k
        /\ \A i \in 1 .. Len(pipe) - k : pipe'[i] = pipe[k + i]
    BY <1>1, <1>2, FrontAndRest
  <1>6. \A i \in 1 .. k : front[i] = <<n + 1, Len(rbuf) + i>>
    <2> SUFFICES ASSUME NEW i \in 1 .. k
                 PROVE  pipe[i] = <<n + 1, Len(rbuf) + i>>
      BY <1>5
    <2>1. i \in 1 .. Len(pipe) /\ Len(rbuf) + i \in 1 .. Length
      BY <1>1, <1>2
    <2>2. pipe[i] \in Bytes
      BY <1>1, <2>1
    <2>3. PICK y \in 1 .. Length : y = Len(rbuf) + i
      BY <2>1
    <2>4. Pos(pipe[i]) = n * Length + y
      <3>1. Pos(pipe[i]) = ReadUpTo + i
        BY <1>3, <2>1
      <3>2. n * Length \in Nat
        BY <1>1
      <3> QED
        BY <1>1, <1>4, <2>3, <3>1, <3>2
    <2>5. pipe[i] = <<n + 1, y>>
      BY <1>1, <2>2, <2>4, ByteAt
    <2> QED
      BY <2>3, <2>5
  <1> HIDE DEF front
  <1>7. /\ rbuf' \in Seq(Bytes) /\ Len(rbuf') = Len(rbuf) + k
        /\ \A i \in 1 .. Len(rbuf) + k :
              rbuf'[i] = IF i <= Len(rbuf) THEN rbuf[i] ELSE front[i - Len(rbuf)]
    <2>1. rbuf' = rbuf \o front
      BY DEF front
    <2>2. /\ rbuf \o front \in Seq(Bytes) /\ Len(rbuf \o front) = Len(rbuf) + Len(front)
          /\ \A i \in 1 .. Len(rbuf) + Len(front) :
                (rbuf \o front)[i] = IF i <= Len(rbuf) THEN rbuf[i] ELSE front[i - Len(rbuf)]
      BY ONLY <1>1, <1>5, ConcatProperties
    <2> QED
      BY <1>5, <2>1, <2>2
  <1>8. \A j \in 1 .. Len(rbuf') : rbuf'[j] = <<Len(frames') + 1, j>>
    <2> SUFFICES ASSUME NEW j \in 1 .. Len(rbuf) + k
                 PROVE  rbuf'[j] = <<n + 1, j>>
      BY <1>7
    <2>1. CASE j <= Len(rbuf)
      BY <1>1, <1>3, <1>7, <2>1
    <2>2. CASE ~(j <= Len(rbuf))
      <3>1. j - Len(rbuf) \in 1 .. k /\ Len(rbuf) + (j - Len(rbuf)) = j
        BY <1>1, <1>2, <2>2
      <3> QED
        BY <1>6, <1>7, <2>2, <3>1
    <2> QED
      BY <2>1, <2>2
  <1>9. ReadUpTo' = ReadUpTo + k
    <2>1. ReadUpTo' = n * Length + Len(rbuf')
      BY DEF ReadUpTo
    <2> QED
      BY <1>1, <1>2, <1>4, <1>7, <2>1
  <1>10. taken' = ReadUpTo' + Len(pipe')
    <2>1. taken = ReadUpTo + Len(pipe) /\ taken' = taken /\ Len(pipe') = Len(pipe) - k
      BY <1>3, <1>5
    <2> QED
      <3>1. ReadUpTo \in Nat
        BY <1>4
      <3> QED
        BY ONLY <1>1, <1>2, <1>9, <2>1, <3>1
  <1>11. \A i \in 1 .. Len(pipe') : Pos(pipe'[i]) = ReadUpTo' + i
    <2> SUFFICES ASSUME NEW i \in 1 .. Len(pipe) - k
                 PROVE  Pos(pipe'[i]) = ReadUpTo' + i
      BY <1>5
    <2>1. k + i \in 1 .. Len(pipe) /\ (ReadUpTo + k) + i = ReadUpTo + (k + i)
      BY <1>1, <1>2, <1>4
    <2>2. Pos(pipe[k + i]) = ReadUpTo' + i
      BY <1>3, <1>9, <2>1
    <2> QED
      BY <1>5, <2>2
  <1>12. Stream'
    BY <1>8, <1>10, <1>11 DEF TcpInv, Stream
  <1>13. Len(pipe') <= Capacity /\ Len(rbuf') <= Length
    BY ONLY <1>1, <1>2, <1>5, <1>7
  <1> QED
    BY <1>5, <1>7, <1>12, <1>13

\* A ReadAllWithTimeout returns: a message that was read in full is the next one;
\* after one that was not the server reads no more.
LEMMA ReturnStream ==
  ASSUME Tcp!TcpAssumption, TcpInv, spc # "idle", Tcp!ReadReturn(rbuf),
         UNCHANGED <<pipe, msg, sent, taken, sfd, rbuf>>
  PROVE  /\ frames' \in Seq(Seq(Bytes)) /\ sret' \in {"none", "full", "short"}
         /\ Stream'
  <1> DEFINE n == Len(frames)
  <1>1. /\ frames \in Seq(Seq(Bytes)) /\ rbuf \in Seq(Bytes)
        /\ Length \in Nat /\ n \in Nat /\ n * Length \in Nat
    BY DEF Tcp!TcpAssumption, TcpInv, TcpTypes
  <1>2. /\ sfd /\ sret # "short" /\ taken = ReadUpTo + Len(pipe)
        /\ \A i \in 1 .. Len(pipe) : Pos(pipe[i]) = ReadUpTo + i
        /\ \A j \in 1 .. Len(rbuf) : rbuf[j] = <<n + 1, j>>
        /\ \A i \in 1 .. n : frames[i] = Tcp!Message(i)
    BY DEF TcpInv, Connected, Stream
  <1>3. CASE Len(rbuf) # Length
    <2>1. sret' = "short" /\ frames' = frames /\ spc' = "idle"
      BY <1>3 DEF Tcp!ReadReturn
    <2> QED
      BY <1>1, <2>1 DEF TcpInv, Stream
  <1>4. CASE Len(rbuf) = Length
    <2>1. sret' = "full" /\ frames' = Append(frames, rbuf) /\ spc' = "idle"
      BY <1>4 DEF Tcp!ReadReturn
    <2>2. rbuf = Tcp!Message(n + 1)
      <3>1. rbuf = [j \in 1 .. Length |-> rbuf[j]]
        BY <1>1, <1>4
      <3>2. \A j \in 1 .. Length : rbuf[j] = <<n + 1, j>>
        BY <1>2, <1>4
      <3> QED
        BY ONLY <3>1, <3>2 DEF Tcp!Message
    <2>3. /\ frames' \in Seq(Seq(Bytes)) /\ Len(frames') = n + 1
          /\ \A i \in 1 .. n : frames'[i] = frames[i]
          /\ frames'[n + 1] = rbuf
      BY <1>1, <2>1, AppendProperties
    <2>4. \A i \in 1 .. Len(frames') : frames'[i] = Tcp!Message(i)
      <3> SUFFICES ASSUME NEW i \in 1 .. n + 1
                   PROVE  frames'[i] = Tcp!Message(i)
        BY <2>3
      <3>1. i \in 1 .. n \/ i = n + 1
        BY <1>1
      <3> QED
        BY <1>2, <2>2, <2>3, <3>1
    <2>5. ReadUpTo' = ReadUpTo
      <3>1. ReadUpTo = n * Length + Length
        BY <1>4 DEF ReadUpTo
      <3>2. ReadUpTo' = (n + 1) * Length + 0
        BY <2>1, <2>3 DEF ReadUpTo
      <3> QED
        BY ONLY <1>1, <3>1, <3>2
    <2>6. Stream'
      BY <1>2, <2>1, <2>4, <2>5 DEF TcpInv, Stream
    <2> QED
      BY <2>1, <2>3, <2>6
  <1> QED
    BY <1>3, <1>4

\* Every step of the client, the server, the network and the clocks keeps TcpInv.
LEMMA TcpNextInv ==
  ASSUME Tcp!TcpAssumption, TcpInv, [Tcp!Next]_tcpVars
  PROVE  TcpInv'
  <1> USE DEF Tcp!TcpAssumption, Tcp!TypeOK, TcpTypes, Connected, Bytes,
              Fresh, Tcp!Return, Tcp!client, Tcp!server, Tcp!Loop
  <1>1. ASSUME NEW t \in BOOLEAN, Tcp!WriteAll(t)
        PROVE  TcpInv'
    <2>1. TcpTypes'
      BY <1>1 DEF TcpInv, Tcp!WriteAll
    <2>2. Connected'
      BY <1>1 DEF TcpInv, Tcp!WriteAll
    <2>3. taken' = (msg' - 1) * Length + sent'
      <3>1. msg \in Nat /\ msg' = msg + 1 /\ sent' = 0 /\ taken' = taken
        BY <1>1 DEF TcpInv, Tcp!WriteAll
      <3>2. CASE msg = 0
        BY <3>1, <3>2 DEF TcpInv, Stream
      <3>3. CASE msg # 0
        <4>1. sent = Length
          BY <1>1, <3>3 DEF TcpInv, Tcp!WriteAll
        <4>2. taken = (msg - 1) * Length + Length
          BY <3>3, <4>1 DEF TcpInv, Stream
        <4>3. Length \in Nat
          OBVIOUS
        <4> QED
          BY ONLY <3>1, <4>2, <4>3
      <3> QED
        BY <3>2, <3>3
    <2>4. ReadUpTo' = ReadUpTo
      BY <1>1 DEF Tcp!WriteAll, ReadUpTo
    <2>5. Stream'
      <3>1. /\ msg' # 0
            /\ UNCHANGED <<pipe, taken, sfd, spc, rbuf, sret, frames>>
        BY <1>1 DEF TcpInv, Tcp!WriteAll
      <3> QED
        BY <2>3, <2>4, <3>1 DEF TcpInv, Stream
    <2> QED
      BY <2>1, <2>2, <2>5 DEF TcpInv
  <1>2. CASE Tcp!Write \/ Tcp!Blocked
    <2>1. ASSUME NEW k \in 1 .. Tcp!Least(Tcp!Space, Length - sent), Tcp!Take(k),
                 cpc \in {"write", "blocked"},
                 UNCHANGED <<net, conn, left, msg, Tcp!server>>,
                 IF sent + k = Length THEN Tcp!Return("all")
                 ELSE cpc' \in {"wselect", "write", "blocked"} /\ cret' = cret
          PROVE  TcpInv'
      <3>1. /\ pipe' \in Seq(Bytes) /\ Len(pipe') <= Capacity
            /\ sent' \in 0 .. Length /\ taken' \in Nat /\ Stream'
        BY <2>1, TakeStream
      <3>2. TcpTypes'
        BY <2>1, <3>1 DEF TcpInv
      <3>3. sent' = sent + k
        BY <2>1 DEF Tcp!Take
      <3>4. Connected'
        BY <2>1, <3>3 DEF TcpInv
      <3> QED
        BY <3>1, <3>2, <3>4 DEF TcpInv
    <2>2. ASSUME cpc \in {"write", "blocked"},
                 UNCHANGED <<net, conn, left, msg, Tcp!server, pipe, sent, taken>>,
                 \/ Tcp!Return("error")
                 \/ cpc' = "blocked" /\ cret' = cret
          PROVE  TcpInv'
      <3>1. TcpTypes'
        BY <2>2 DEF TcpInv
      <3>2. Connected'
        BY <2>2 DEF TcpInv
      <3>3. Stream'
        BY <2>2, StreamKept
      <3> QED
        BY <3>1, <3>2, <3>3 DEF TcpInv
    <2>3. CASE Tcp!Write
      BY <2>1, <2>2, <2>3 DEF Tcp!Write
    <2>4. CASE Tcp!Blocked
      BY <2>1, <2>2, <2>4 DEF Tcp!Blocked
    <2> QED
      BY <1>2, <2>3, <2>4
  <1>3. ASSUME NEW t \in BOOLEAN, Tcp!ReadAllWithTimeout(t)
        PROVE  TcpInv'
    <2>1. /\ spc = "idle" /\ sfd /\ sret # "short" /\ rbuf' = <<>> /\ sleft' = Timeout
          /\ spc' \in {"rselect", "read"}
          /\ UNCHANGED <<net, conn, pipe, Tcp!client, sfd, sret, frames>>
      BY <1>3 DEF Tcp!ReadAllWithTimeout, Tcp!ReadLoop
    <2>2. TcpTypes'
      BY <2>1 DEF TcpInv
    <2>3. Connected'
      BY <2>1 DEF TcpInv
    <2>4. ReadUpTo' = ReadUpTo
      BY <2>1 DEF ReadUpTo
    <2>5. Stream'
      BY <2>1, <2>4 DEF TcpInv, Stream
    <2> QED
      BY <2>2, <2>3, <2>5 DEF TcpInv
  <1>4. ASSUME spc # "idle", Tcp!ReadReturn(rbuf),
               UNCHANGED <<net, conn, pipe, Tcp!client, sfd, stimed, sleft, rbuf>>
        PROVE  TcpInv'
    <2>1. /\ frames' \in Seq(Seq(Bytes)) /\ sret' \in {"none", "full", "short"}
          /\ Stream'
      BY <1>4, ReturnStream
    <2>2. spc' = "idle"
      BY <1>4 DEF Tcp!ReadReturn
    <2>3. TcpTypes'
      BY <1>4, <2>1, <2>2 DEF TcpInv
    <2>4. Connected'
      BY <1>4, <2>2 DEF TcpInv
    <2> QED
      BY <2>1, <2>3, <2>4 DEF TcpInv
  <1>5. CASE Tcp!ReadSelect
    <2>1. CASE spc' = "read" /\ UNCHANGED <<sret, frames>>
      <3>1. /\ spc = "rselect"
            /\ UNCHANGED <<net, conn, pipe, Tcp!client, sfd, stimed, sleft, rbuf>>
        BY <1>5 DEF Tcp!ReadSelect
      <3>2. TcpTypes' /\ Connected'
        BY <2>1, <3>1 DEF TcpInv
      <3>3. ReadUpTo' = ReadUpTo
        BY <2>1, <3>1 DEF ReadUpTo
      <3>4. Stream'
        BY <2>1, <3>1, <3>3 DEF TcpInv, Stream
      <3> QED
        BY <3>2, <3>4 DEF TcpInv
    <2> QED
      BY <1>4, <1>5, <2>1 DEF Tcp!ReadSelect
  <1>6. CASE Tcp!ServerSignal
    BY <1>4, <1>6 DEF Tcp!ServerSignal
  <1>7. CASE Tcp!Read
    <2>1. ASSUME NEW k \in 1 .. Tcp!Least(Len(pipe), Length - Len(rbuf)),
                 rbuf' = rbuf \o SubSeq(pipe, 1, k), pipe' = SubSeq(pipe, k + 1, Len(pipe)),
                 Tcp!ReadLoop(stimed), UNCHANGED <<sret, frames, net, conn, Tcp!client, sfd, stimed>>
          PROVE  TcpInv'
      <3>1. spc = "read" /\ spc' \in {"rselect", "read"} /\ sleft' = Timeout
        BY <1>7, <2>1 DEF Tcp!Read, Tcp!ReadLoop
      <3>2. /\ pipe' \in Seq(Bytes) /\ Len(pipe') <= Capacity
            /\ rbuf' \in Seq(Bytes) /\ Len(rbuf') <= Length /\ Stream'
        BY <2>1, <3>1, ReadStream
      <3>3. UNCHANGED <<sret, frames, net, conn, Tcp!client, sfd, stimed>>
        BY <2>1
      <3>4. TcpTypes'
        BY ONLY TcpInv, Tcp!TcpAssumption, <3>1, <3>2, <3>3 DEF TcpInv
      <3>5. Connected'
        BY ONLY TcpInv, <3>1, <3>3 DEF TcpInv
      <3> QED
        BY <3>2, <3>4, <3>5 DEF TcpInv
    <2> QED
      BY <1>4, <1>7, <2>1 DEF Tcp!Read
  <1>8. CASE Tcp!ServerClose
    <2>1. TcpTypes'
      BY <1>8 DEF TcpInv, Tcp!ServerClose
    <2>2. Connected'
      BY <1>8 DEF TcpInv, Tcp!ServerClose
    <2>3. Stream'
      BY <1>8 DEF TcpInv, Stream, Tcp!ServerClose
    <2> QED
      BY <2>1, <2>2, <2>3 DEF TcpInv
  <1> QED
    BY <1>1, <1>2, <1>3, <1>5, <1>6, <1>7, <1>8, TcpQuiet
    DEF Tcp!Next, Tcp!ClientStep, Tcp!ServerStep

\* What the run checks of the connection follows from TcpInv.
LEMMA TcpInvIntact ==
  ASSUME Tcp!TcpAssumption, TcpInv
  PROVE  FramesIntact
  <1>1. Tcp!TypeOK /\ Tcp!ConnectedMeansIt
    BY DEF TcpInv, TcpTypes, Connected, Fresh, Tcp!ConnectedMeansIt
  <1>2. cpc = "idle" /\ cret = "all" => taken = msg * Length
    <2> SUFFICES ASSUME cpc = "idle", cret = "all"
                 PROVE  taken = msg * Length
      OBVIOUS
    <2>1. msg \in Nat /\ Length \in Nat /\ taken = (msg - 1) * Length + Length
      BY DEF TcpInv, TcpTypes, Connected, Stream, Fresh, Tcp!TcpAssumption
    <2> QED
      BY ONLY <2>1
  <1>3. \A i \in DOMAIN frames : frames[i] = Tcp!Message(i)
    <2>1. DOMAIN frames = 1 .. Len(frames)
      BY DEF TcpInv, TcpTypes
    <2> QED
      BY <2>1 DEF TcpInv, Stream
  <1> QED
    BY <1>1, <1>2, <1>3 DEF FramesIntact, Tcp!FramesIntact

\* HTcpSocket: for messages of any length over a connection with any room, however
\* bytes are split and whatever times out, is interrupted or is closed, what is
\* reported connected is, and messages arrive whole and in order.
THEOREM ConnectionIntact == Tcp!Spec => []FramesIntact
  <1>1. Tcp!Init => TcpInv
    BY TcpInitInv, SharedAssumption
  <1>2. TcpInv /\ [Tcp!Next]_(Tcp!tcpVars) => TcpInv'
    BY TcpNextInv, SharedAssumption DEF Tcp!tcpVars, Tcp!client, Tcp!server, tcpVars
  <1>3. TcpInv => FramesIntact
    BY TcpInvIntact, SharedAssumption
  <1> QED
    BY <1>1, <1>2, <1>3, PTL DEF Tcp!Spec

\* The same in the composition that the run checks.
THEOREM FramesAlways == SharedSpec => []FramesIntact
  <1>1. SharedInit => TcpInv
    BY TcpInitInv, SharedAssumption DEF SharedInit
  <1>2. TcpInv /\ [SharedNext]_<<part, lsVars, tcpVars, semVars>> => TcpInv'
    <2> SUFFICES ASSUME TcpInv, [SharedNext]_<<part, lsVars, tcpVars, semVars>>
                 PROVE  TcpInv'
      OBVIOUS
    <2>1. [Tcp!Next]_tcpVars
      BY DEF SharedNext
    <2> QED
      BY <2>1, TcpNextInv, SharedAssumption
  <1>3. TcpInv => FramesIntact
    BY TcpInvIntact, SharedAssumption
  <1> QED
    BY <1>1, <1>2, <1>3, PTL DEF SharedSpec

-----------------------------------------------------------------------------
(* LazySingleton: one holder and one object are made, m_instance is read   *)
(* only when it is set for good, and all get the same object.              *)

InEntry    == {"check_entry", "make", "store_entry"}
InHolder   == {"check", "new", "assign", "living"}
HasHolder  == {"store_cache", "state", "lock", "read"} \cup InHolder

\* The mutexes exclude: who is between lock and unlock is their owner.
Exclusion == \A t \in Threads :
    /\ pc[t] \in InEntry  => entryOwner = t
    /\ pc[t] \in InHolder => holderOwner[holder[t]] = t

\* The entry points to the holder that was made, unless the thread that makes
\* it is still on its way there.
EntryInv ==
    /\ \A h \in made : \/ m_ptr = h
                       \/ /\ m_ptr = Null /\ entryOwner \in Threads
                          /\ pc[entryOwner] = "store_entry" /\ holder[entryOwner] = h
    /\ m_ptr # Null => m_ptr \in made
    /\ \A t \in Threads : /\ pc[t] \in {"make", "store_entry"} => m_ptr = Null
                          /\ pc[t] = "store_entry" => holder[t] \in made

\* Caches and threads know no holder but that of the entry.
KnownInv ==
    /\ \A u \in Units : cache[u] # Null => cache[u] = m_ptr
    /\ \A t \in Threads : pc[t] \in HasHolder => holder[t] # Null /\ holder[t] = m_ptr
    /\ \A t \in Threads : pc[t] \notin {"idle"} => unit[t] \in Units

\* A holder that lives has an object.
LivingInv ==
    \A h \in Holders : m_state[h] = "Living" => m_ptr = h /\ m_instance[h] \in built

\* An object that was built is that of the living holder, or its creator is
\* still on its way there.
BuiltInv ==
    \A o \in built :
       /\ m_ptr # Null
       /\ \/ m_state[m_ptr] = "Living" /\ m_instance[m_ptr] = o
          \/ /\ holderOwner[m_ptr] \in Threads
             /\ pc[holderOwner[m_ptr]] \in {"assign", "living"}
             /\ object[holderOwner[m_ptr]] = o

\* What the creator of the object, and a reader, knows.
CreatorInv == \A t \in Threads :
    /\ pc[t] \in {"new", "assign", "living"} => m_state[holder[t]] = "Dead"
    /\ pc[t] \in {"assign", "living"} => object[t] \in built
    /\ pc[t] = "living" => m_instance[holder[t]] = object[t]
    /\ pc[t] = "read" => m_state[holder[t]] = "Living"

\* The inductive invariant.
IInv == TypeOK /\ Exclusion /\ EntryInv /\ KnownInv /\ LivingInv /\ BuiltInv /\ CreatorInv

-----------------------------------------------------------------------------
(* Every step keeps it: first the types, then what the first creation is   *)
(* about, then what the second one is about.                               *)

USE SingletonAssumption DEF InEntry, InHolder, HasHolder

\* The initial state, before any Get.
LEMMA InitIInv == Init => IInv
  BY DEF Init, IInv, TypeOK, Places, Exclusion, EntryInv, KnownInv, LivingInv, BuiltInv, CreatorInv

\* Get keeps the invariant.
LEMMA GetKeeps == \A t \in Threads, u \in Units : IInv /\ Get(t, u) => IInv'
  <1> SUFFICES ASSUME NEW t \in Threads, NEW u \in Units, IInv, Get(t, u) PROVE IInv'
    OBVIOUS
  <1> USE DEF IInv, TypeOK, Get, Goto, entry, hold
  <1>1. TypeOK'
    BY DEF Places, KnownInv
  <1>2. Exclusion' /\ EntryInv' /\ KnownInv'
    BY DEF Exclusion, EntryInv, KnownInv
  <1>3. LivingInv' /\ BuiltInv' /\ CreatorInv'
    BY DEF Exclusion, EntryInv, KnownInv, LivingInv, BuiltInv, CreatorInv
  <1> QED
    BY <1>1, <1>2, <1>3

\* LoadCache keeps the invariant.
LEMMA LoadCacheKeeps == \A t \in Threads : IInv /\ LoadCache(t) => IInv'
  <1> SUFFICES ASSUME NEW t \in Threads, IInv, LoadCache(t) PROVE IInv'
    OBVIOUS
  <1> USE DEF IInv, TypeOK, LoadCache, Goto, entry, hold
  <1>1. TypeOK'
    BY DEF Places, KnownInv
  <1>2. Exclusion' /\ EntryInv' /\ KnownInv'
    BY DEF Exclusion, EntryInv, KnownInv
  <1>3. LivingInv' /\ BuiltInv' /\ CreatorInv'
    BY DEF Exclusion, EntryInv, KnownInv, LivingInv, BuiltInv, CreatorInv
  <1> QED
    BY <1>1, <1>2, <1>3

\* LoadEntry keeps the invariant.
LEMMA LoadEntryKeeps == \A t \in Threads : IInv /\ LoadEntry(t) => IInv'
  <1> SUFFICES ASSUME NEW t \in Threads, IInv, LoadEntry(t) PROVE IInv'
    OBVIOUS
  <1> USE DEF IInv, TypeOK, LoadEntry, Goto, entry, hold
  <1>1. TypeOK'
    BY DEF Places, KnownInv
  <1>2. Exclusion' /\ EntryInv' /\ KnownInv'
    BY DEF Exclusion, EntryInv, KnownInv
  <1>3. LivingInv' /\ BuiltInv' /\ CreatorInv'
    BY DEF Exclusion, EntryInv, KnownInv, LivingInv, BuiltInv, CreatorInv
  <1> QED
    BY <1>1, <1>2, <1>3

\* LockEntry keeps the invariant.
LEMMA LockEntryKeeps == \A t \in Threads : IInv /\ LockEntry(t) => IInv'
  <1> SUFFICES ASSUME NEW t \in Threads, IInv, LockEntry(t) PROVE IInv'
    OBVIOUS
  <1> USE DEF IInv, TypeOK, LockEntry, Goto, locals, hold
  <1>1. TypeOK'
    BY DEF Places, KnownInv
  <1>2. Exclusion' /\ EntryInv' /\ KnownInv'
    BY DEF Exclusion, EntryInv, KnownInv
  <1>3. LivingInv' /\ BuiltInv' /\ CreatorInv'
    BY DEF Exclusion, EntryInv, KnownInv, LivingInv, BuiltInv, CreatorInv
  <1> QED
    BY <1>1, <1>2, <1>3

\* CheckEntry keeps the invariant.
LEMMA CheckEntryKeeps == \A t \in Threads : IInv /\ CheckEntry(t) => IInv'
  <1> SUFFICES ASSUME NEW t \in Threads, IInv, CheckEntry(t) PROVE IInv'
    OBVIOUS
  <1> USE DEF IInv, TypeOK, CheckEntry, Goto, hold
  <1>1. TypeOK'
    BY DEF Places, KnownInv
  <1>2. Exclusion' /\ EntryInv' /\ KnownInv'
    BY DEF Exclusion, EntryInv, KnownInv
  <1>3. LivingInv' /\ BuiltInv' /\ CreatorInv'
    BY DEF Exclusion, EntryInv, KnownInv, LivingInv, BuiltInv, CreatorInv
  <1> QED
    BY <1>1, <1>2, <1>3

\* Make keeps the invariant.
LEMMA MakeKeeps == \A t \in Threads : IInv /\ Make(t) => IInv'
  <1> SUFFICES ASSUME NEW t \in Threads, IInv, Make(t) PROVE IInv'
    OBVIOUS
  <1> USE DEF IInv, TypeOK, Make, Goto, hold
  <1>1. TypeOK'
    BY DEF Places, KnownInv
  <1>2. Exclusion' /\ EntryInv' /\ KnownInv'
    BY DEF Exclusion, EntryInv, KnownInv
  <1>3. LivingInv' /\ BuiltInv' /\ CreatorInv'
    BY DEF Exclusion, EntryInv, KnownInv, LivingInv, BuiltInv, CreatorInv
  <1> QED
    BY <1>1, <1>2, <1>3

\* StoreEntry keeps the invariant.
LEMMA StoreEntryKeeps == \A t \in Threads : IInv /\ StoreEntry(t) => IInv'
  <1> SUFFICES ASSUME NEW t \in Threads, IInv, StoreEntry(t) PROVE IInv'
    OBVIOUS
  <1> USE DEF IInv, TypeOK, StoreEntry, Goto, locals, hold
  <1>1. TypeOK'
    BY DEF Places, KnownInv
  <1>2. Exclusion' /\ EntryInv' /\ KnownInv'
    BY DEF Exclusion, EntryInv, KnownInv
  <1>3. LivingInv' /\ BuiltInv' /\ CreatorInv'
    BY DEF Exclusion, EntryInv, KnownInv, LivingInv, BuiltInv, CreatorInv
  <1> QED
    BY <1>1, <1>2, <1>3

\* StoreCache keeps the invariant.
LEMMA StoreCacheKeeps == \A t \in Threads : IInv /\ StoreCache(t) => IInv'
  <1> SUFFICES ASSUME NEW t \in Threads, IInv, StoreCache(t) PROVE IInv'
    OBVIOUS
  <1> USE DEF IInv, TypeOK, StoreCache, Goto, locals, entry, hold
  <1>1. TypeOK'
    BY DEF Places, KnownInv
  <1>2. Exclusion' /\ EntryInv' /\ KnownInv'
    BY DEF Exclusion, EntryInv, KnownInv
  <1>3. LivingInv' /\ BuiltInv' /\ CreatorInv'
    BY DEF Exclusion, EntryInv, KnownInv, LivingInv, BuiltInv, CreatorInv
  <1> QED
    BY <1>1, <1>2, <1>3

\* LoadState keeps the invariant.
LEMMA LoadStateKeeps == \A t \in Threads : IInv /\ LoadState(t) => IInv'
  <1> SUFFICES ASSUME NEW t \in Threads, IInv, LoadState(t) PROVE IInv'
    OBVIOUS
  <1> USE DEF IInv, TypeOK, LoadState, Goto, locals, entry, hold
  <1>1. TypeOK'
    BY DEF Places, KnownInv
  <1>2. Exclusion' /\ EntryInv' /\ KnownInv'
    BY DEF Exclusion, EntryInv, KnownInv
  <1>3. LivingInv' /\ BuiltInv' /\ CreatorInv'
    BY DEF Exclusion, EntryInv, KnownInv, LivingInv, BuiltInv, CreatorInv
  <1> QED
    BY <1>1, <1>2, <1>3

\* Lock keeps the invariant.
LEMMA LockKeeps == \A t \in Threads : IInv /\ Lock(t) => IInv'
  <1> SUFFICES ASSUME NEW t \in Threads, IInv, Lock(t) PROVE IInv'
    OBVIOUS
  <1> USE DEF IInv, TypeOK, Lock, Goto, locals, entry
  <1>1. TypeOK'
    BY DEF Places, KnownInv
  <1>2. Exclusion' /\ EntryInv' /\ KnownInv'
    BY DEF Exclusion, EntryInv, KnownInv
  <1>3. LivingInv' /\ BuiltInv' /\ CreatorInv'
    BY DEF Exclusion, EntryInv, KnownInv, LivingInv, BuiltInv, CreatorInv
  <1> QED
    BY <1>1, <1>2, <1>3

\* Check keeps the invariant.
LEMMA CheckKeeps == \A t \in Threads : IInv /\ Check(t) => IInv'
  <1> SUFFICES ASSUME NEW t \in Threads, IInv, Check(t) PROVE IInv'
    OBVIOUS
  <1> USE DEF IInv, TypeOK, Check, Goto, Unlock, locals, entry
  <1>1. TypeOK'
    BY DEF Places, KnownInv
  <1>2. Exclusion' /\ EntryInv' /\ KnownInv'
    BY DEF Exclusion, EntryInv, KnownInv
  <1>3. LivingInv' /\ BuiltInv' /\ CreatorInv'
    BY DEF Exclusion, EntryInv, KnownInv, LivingInv, BuiltInv, CreatorInv
  <1> QED
    BY <1>1, <1>2, <1>3

\* New keeps the invariant.
LEMMA NewKeeps == \A t \in Threads : IInv /\ New(t) => IInv'
  <1> SUFFICES ASSUME NEW t \in Threads, IInv, New(t) PROVE IInv'
    OBVIOUS
  <1> USE DEF IInv, TypeOK, New, Goto, entry
  <1>1. TypeOK'
    BY DEF Places, KnownInv
  <1>2. Exclusion' /\ EntryInv' /\ KnownInv'
    BY DEF Exclusion, EntryInv, KnownInv
  <1>3. LivingInv' /\ BuiltInv' /\ CreatorInv'
    BY DEF Exclusion, EntryInv, KnownInv, LivingInv, BuiltInv, CreatorInv
  <1> QED
    BY <1>1, <1>2, <1>3

\* Assign keeps the invariant.
LEMMA AssignKeeps == \A t \in Threads : IInv /\ Assign(t) => IInv'
  <1> SUFFICES ASSUME NEW t \in Threads, IInv, Assign(t) PROVE IInv'
    OBVIOUS
  <1> USE DEF IInv, TypeOK, Assign, Goto, locals, entry
  <1>1. TypeOK'
    BY DEF Places, KnownInv
  <1>2. Exclusion' /\ EntryInv' /\ KnownInv'
    BY DEF Exclusion, EntryInv, KnownInv
  <1>3. LivingInv' /\ BuiltInv' /\ CreatorInv'
    BY DEF Exclusion, EntryInv, KnownInv, LivingInv, BuiltInv, CreatorInv
  <1> QED
    BY <1>1, <1>2, <1>3

\* Living keeps the invariant.
LEMMA LivingKeeps == \A t \in Threads : IInv /\ Living(t) => IInv'
  <1> SUFFICES ASSUME NEW t \in Threads, IInv, Living(t) PROVE IInv'
    OBVIOUS
  <1> USE DEF IInv, TypeOK, Living, Goto, Unlock, locals, entry
  <1>1. TypeOK'
    BY DEF Places, KnownInv
  <1>2. Exclusion' /\ EntryInv' /\ KnownInv'
    BY DEF Exclusion, EntryInv, KnownInv
  <1>3. LivingInv' /\ BuiltInv' /\ CreatorInv'
    BY DEF Exclusion, EntryInv, KnownInv, LivingInv, BuiltInv, CreatorInv
  <1> QED
    BY <1>1, <1>2, <1>3

\* Throw keeps the invariant.
LEMMA ThrowKeeps == \A t \in Threads : IInv /\ Throw(t) => IInv'
  <1> SUFFICES ASSUME NEW t \in Threads, IInv, Throw(t) PROVE IInv'
    OBVIOUS
  <1> USE DEF IInv, TypeOK, Throw, Goto, Leave, Unlock
  <1>1. TypeOK'
    BY DEF Places, KnownInv
  <1>2. Exclusion' /\ EntryInv' /\ KnownInv'
    BY DEF Exclusion, EntryInv, KnownInv
  <1>3. LivingInv' /\ BuiltInv' /\ CreatorInv'
    BY DEF Exclusion, EntryInv, KnownInv, LivingInv, BuiltInv, CreatorInv
  <1> QED
    BY <1>1, <1>2, <1>3

\* Read keeps the invariant.
LEMMA ReadKeeps == \A t \in Threads : IInv /\ Read(t) => IInv'
  <1> SUFFICES ASSUME NEW t \in Threads, IInv, Read(t) PROVE IInv'
    OBVIOUS
  <1> USE DEF IInv, TypeOK, Read, Goto, Leave, entry, hold
  <1>1. TypeOK'
    BY DEF Places, KnownInv
  <1>2. Exclusion' /\ EntryInv' /\ KnownInv'
    BY DEF Exclusion, EntryInv, KnownInv
  <1>3. LivingInv' /\ BuiltInv' /\ CreatorInv'
    BY DEF Exclusion, EntryInv, KnownInv, LivingInv, BuiltInv, CreatorInv
  <1> QED
    BY <1>1, <1>2, <1>3
\* Every step of every thread keeps the invariant.
LEMMA NextIInv == IInv /\ [Next]_lsVars => IInv'
  <1> SUFFICES ASSUME IInv, [Next]_lsVars PROVE IInv'
    OBVIOUS
  <1>1. CASE \E t \in Threads, u \in Units : Get(t, u)
    BY <1>1, GetKeeps
  <1>2. CASE \E t \in Threads : LoadCache(t)
    BY <1>2, LoadCacheKeeps
  <1>3. CASE \E t \in Threads : LoadEntry(t)
    BY <1>3, LoadEntryKeeps
  <1>4. CASE \E t \in Threads : LockEntry(t)
    BY <1>4, LockEntryKeeps
  <1>5. CASE \E t \in Threads : CheckEntry(t)
    BY <1>5, CheckEntryKeeps
  <1>6. CASE \E t \in Threads : Make(t)
    BY <1>6, MakeKeeps
  <1>7. CASE \E t \in Threads : StoreEntry(t)
    BY <1>7, StoreEntryKeeps
  <1>8. CASE \E t \in Threads : StoreCache(t)
    BY <1>8, StoreCacheKeeps
  <1>9. CASE \E t \in Threads : LoadState(t)
    BY <1>9, LoadStateKeeps
  <1>10. CASE \E t \in Threads : Lock(t)
    BY <1>10, LockKeeps
  <1>11. CASE \E t \in Threads : Check(t)
    BY <1>11, CheckKeeps
  <1>12. CASE \E t \in Threads : New(t)
    BY <1>12, NewKeeps
  <1>13. CASE \E t \in Threads : Assign(t)
    BY <1>13, AssignKeeps
  <1>14. CASE \E t \in Threads : Living(t)
    BY <1>14, LivingKeeps
  <1>15. CASE \E t \in Threads : Throw(t)
    BY <1>15, ThrowKeeps
  <1>16. CASE \E t \in Threads : Read(t)
    BY <1>16, ReadKeeps
  <1>17. CASE UNCHANGED lsVars
    BY <1>17 DEF lsVars, IInv, TypeOK, Exclusion, EntryInv, KnownInv, LivingInv, BuiltInv, CreatorInv
  <1> QED
    BY <1>1, <1>2, <1>3, <1>4, <1>5, <1>6, <1>7, <1>8, <1>9, <1>10, <1>11, <1>12, <1>13, <1>14, <1>15, <1>16, <1>17 DEF Next, Step

\* The invariant holds in every reachable state.
THEOREM Inductive == Spec => []IInv
  BY InitIInv, NextIInv, PTL DEF Spec

-----------------------------------------------------------------------------

\* Every variable keeps its type; a cache never holds anything but a holder.
THEOREM TypeCorrect == Spec => []TypeOK
  <1>1. IInv => TypeOK
    BY DEF IInv
  <1> QED
    BY <1>1, Inductive, PTL

\* One holder is made, however many units and threads ask for it at once.
THEOREM HolderIsOne == Spec => []OneHolder
  <1>1. IInv => OneHolder
    BY DEF IInv, TypeOK, EntryInv, OneHolder
  <1> QED
    BY <1>1, Inductive, PTL

\* One object is built, whatever threads meet in create_instance and however
\* many creations throw.
THEOREM InstanceIsOne == Spec => []OneInstance
  <1>1. IInv => OneInstance
    BY DEF IInv, TypeOK, Exclusion, KnownInv, BuiltInv, CreatorInv, OneInstance
  <1> QED
    BY <1>1, Inductive, PTL

\* One holder and one object are made, for any threads, units and exceptions.
THEOREM SingletonIsOne == Spec => []OneOnly
  BY HolderIsOne, InstanceIsOne, PTL DEF OneOnly

\* m_instance is read only after its writer published it.
THEOREM ReadsArePublished == Spec => []PublishedReads
  <1>1. IInv => PublishedReads
    BY DEF IInv, TypeOK, Exclusion, KnownInv, LivingInv, CreatorInv, PublishedReads
  <1> QED
    BY <1>1, Inductive, PTL

\* Every Get that returns gives the one object that was built.
THEOREM SameObject == Spec => SameForAll
  <1> DEFINE A == \A t \in Threads : pc[t] = "read" /\ pc'[t] = "idle" => built = {got'[t]}
  <1>1. ASSUME IInv, [Next]_lsVars PROVE [A]_lsVars
    <2> SUFFICES ASSUME NEW t \in Threads, pc[t] = "read", pc'[t] = "idle", Next
                 PROVE  built = {got'[t]}
      BY <1>1
    <2>1. Read(t)
      BY <1>1 DEF IInv, TypeOK, Next, Step, Goto, Leave, Get, LoadCache, LoadEntry, LockEntry,
                  CheckEntry, Make, StoreEntry, StoreCache, LoadState, Lock, Check, New, Assign,
                  Living, Throw, Read
    <2>2. got'[t] = m_instance[m_ptr] /\ m_instance[m_ptr] \in built
      BY <1>1, <2>1 DEF Read, IInv, TypeOK, KnownInv, LivingInv, CreatorInv
    <2>3. \A o, p \in built : o = p
      BY <1>1 DEF IInv, TypeOK, Exclusion, KnownInv, BuiltInv, CreatorInv
    <2> QED
      BY <2>2, <2>3
  <1> QED
    BY <1>1, Inductive, PTL DEF Spec, SameForAll
=============================================================================
