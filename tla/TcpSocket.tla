------------------------------ MODULE TcpSocket ------------------------------
(***************************************************************************)
(* A TCP connection between a client and a server that use HTcpSocket      *)
(* (src/src/hsocket.{h,cpp} on src/src/internal/fd_in.{h,cpp}): the client *)
(* connects with or without a timeout and writes messages with WriteAll or *)
(* SendAll, the server reads them with ReadAllWithTimeout.  Both stop and  *)
(* close after a call that did not do all it was asked for.                *)
(*                                                                         *)
(* A system call is one step.  The kernel takes and gives any part of the  *)
(* bytes, and its buffer holds Capacity of them; a message has Length      *)
(* bytes, the byte j of message m is <<m, j>>.  select counts the timeval  *)
(* down as Linux does.  net is down while connect fails at once.           *)
(***************************************************************************)
EXTENDS Integers, Sequences

CONSTANTS Length, Capacity, Timeout,
          MaxMessages,     \* bound on the messages written
          MaxConnects      \* bound on the calls that connect

TcpAssumption == /\ Length \in Nat \ {0} /\ Capacity \in Nat \ {0}
                 /\ Timeout \in Nat \ {0}
                 /\ MaxMessages \in Nat /\ MaxConnects \in Nat

VARIABLES net, conn, pipe,           \* the network: connection, bytes on the way
          cfd, nonblock, cpc, errno, \* the client's socket and where it is
          timed, left,               \* its timeout: given or not, and what is left
          msg, sent,                 \* the message it writes, and how far
          cret,                      \* what its last call returned
          sfd, spc, stimed, sleft, got, sret,   \* the server likewise
          frames,                    \* history: the messages it read in full
          taken, connects            \* history: bytes the kernel took, calls made

client == <<cfd, nonblock, cpc, errno, timed, left, msg, sent, cret, taken, connects>>
server == <<sfd, spc, stimed, sleft, got, sret, frames>>
tcpVars == <<net, conn, pipe, client, server>>

Least(a, b) == IF a < b THEN a ELSE b
Message(m) == [j \in 1 .. Length |-> <<m, j>>]
Space == Capacity - Len(pipe)

Init == /\ net \in {"up", "down"} /\ conn = "none" /\ pipe = <<>>
        /\ cfd = TRUE /\ nonblock = FALSE /\ cpc = "idle" /\ errno = "none"
        /\ timed = FALSE /\ left = 0 /\ msg = 0 /\ sent = 0 /\ cret = "none"
        /\ sfd = FALSE /\ spc = "idle" /\ stimed = FALSE /\ sleft = 0
        /\ got = <<>> /\ sret = "none" /\ frames = <<>> /\ taken = 0 /\ connects = 0

Return(r) == cpc' = "idle" /\ cret' = r

-----------------------------------------------------------------------------
(* Connect and ConnectWithTimeOut *)

MayConnect == /\ cpc = "idle" /\ cfd /\ connects < MaxConnects
              /\ cret \in {"none", "TIME_OUT", "NETWORK_ERROR", "SYS_FAILED"}
              /\ connects' = connects + 1

\* HSocket::Connect on a blocking socket waits until the network has answered.
Connect == /\ MayConnect /\ conn = "none" /\ ~nonblock
           /\ \/ net = "up" /\ conn' = "established" /\ sfd' = TRUE /\ Return("OK")
              \/ Return("SYS_FAILED") /\ UNCHANGED <<conn, sfd>>
           /\ UNCHANGED <<net, pipe, cfd, nonblock, errno, timed, left, msg, sent, taken>>
           /\ UNCHANGED <<spc, stimed, sleft, got, sret, frames>>

\* The socket is made non-blocking for the call.  SetNonblocked(false) at its
\* end leaves it so: flags | ~O_NONBLOCK has the bit that flags had.
ConnectWithTimeOut ==
    /\ MayConnect
    /\ nonblock' = TRUE /\ left' = Timeout /\ cpc' = "try"
    /\ UNCHANGED <<net, conn, pipe, cfd, errno, timed, msg, sent, cret, taken, server>>

\* connect: done, under way, or failed at once.  One that was done meanwhile says
\* so, whether or not the server has closed since.
TryConnect ==
    /\ cpc = "try"
    /\ \/ /\ conn = "established" \/ (conn = "none" /\ net = "up")
          /\ conn' = "established" /\ sfd' = (conn = "none" \/ sfd)
          /\ Return("OK") /\ UNCHANGED errno
       \/ /\ conn = "connecting" \/ (conn = "none" /\ net = "up")
          /\ conn' = "connecting" /\ errno' = "EINPROGRESS"
          /\ cpc' = "select" /\ UNCHANGED <<cret, sfd>>
       \/ /\ conn = "failed" \/ (conn = "none" /\ net = "down")
          /\ conn' = "none" /\ errno' \in {"EHOSTUNREACH", "ECONNREFUSED"}
          /\ cpc' = "select" /\ UNCHANGED <<cret, sfd>>
    /\ UNCHANGED <<net, pipe, cfd, nonblock, timed, left, msg, sent, taken, connects>>
    /\ UNCHANGED <<spc, stimed, sleft, got, sret, frames>>

\* Mutant: the call goes on after the timeout.
ConnectSelectOn ==
    /\ cpc = "select"
    /\ conn # "connecting" \/ left = 0
    /\ cpc' = IF conn # "connecting" THEN "check" ELSE "try"
    /\ UNCHANGED <<net, conn, pipe, cfd, nonblock, errno, timed, left, msg, sent, cret, taken,
                   connects, server>>

\* select: a socket that is not connecting is writable; EINTR starts it again.
ConnectSelect ==
    /\ cpc = "select"
    /\ \/ conn # "connecting" /\ cpc' = "check" /\ UNCHANGED cret
       \/ conn = "connecting" /\ left = 0 /\ Return("TIME_OUT")
    /\ UNCHANGED <<net, conn, pipe, cfd, nonblock, errno, timed, left, msg, sent, taken,
                   connects, server>>

\* SO_ERROR is read once; without an error connect is tried again.
ConnectCheck ==
    /\ cpc = "check"
    /\ IF errno = "EHOSTUNREACH" \/ conn = "failed"
       THEN Return("NETWORK_ERROR") ELSE cpc' = "try" /\ UNCHANGED cret
    /\ conn' = IF errno # "EHOSTUNREACH" /\ conn = "failed" THEN "none" ELSE conn
    /\ UNCHANGED <<net, pipe, cfd, nonblock, errno, timed, left, msg, sent, taken,
                   connects, server>>

\* The network answers, or changes.
Answer == /\ conn = "connecting"
          /\ \/ net = "up" /\ conn' = "established" /\ sfd' = TRUE
             \/ conn' = "failed" /\ UNCHANGED sfd
          /\ UNCHANGED <<net, pipe, client, spc, stimed, sleft, got, sret, frames>>
NetChange == /\ net' = IF net = "up" THEN "down" ELSE "up"
             /\ UNCHANGED <<conn, pipe, client, server>>

-----------------------------------------------------------------------------
(* WriteAll and SendAll *)

\* The top of the loop.
Loop(t) == IF t THEN "wselect" ELSE "write"

WriteAll(t) ==
    /\ cpc = "idle" /\ cfd /\ cret \in {"OK", "all"} /\ msg < MaxMessages
    /\ msg' = msg + 1 /\ sent' = 0 /\ timed' = t /\ left' = Timeout
    /\ cpc' = Loop(t)
    /\ UNCHANGED <<net, conn, pipe, cfd, nonblock, errno, cret, taken, connects, server>>

Writable == Space > 0 \/ ~sfd

\* select for writing; a timeout throws.
WriteSelect ==
    /\ cpc = "wselect"
    /\ \/ Writable /\ cpc' = "write" /\ UNCHANGED cret
       \/ ~Writable /\ left = 0 /\ Return("thrown")
    /\ UNCHANGED <<net, conn, pipe, cfd, nonblock, errno, timed, left, msg, sent, taken,
                   connects, server>>

\* The kernel takes the next k bytes of the message.
Take(k) == /\ pipe' = pipe \o SubSeq(Message(msg), sent + 1, sent + k)
           /\ sent' = sent + k /\ taken' = taken + k

\* write: a non-blocking one takes what there is room for, a blocking one waits.
Write ==
    /\ cpc = "write"
    /\ \/ /\ nonblock /\ sfd
          /\ \E k \in 1 .. Least(Space, Length - sent) :
                /\ Take(k)
                /\ IF sent + k = Length THEN Return("all")
                                        ELSE cpc' = Loop(timed) /\ UNCHANGED cret
       \/ /\ ~sfd \/ (nonblock /\ Space = 0)
          /\ Return("error") /\ UNCHANGED <<pipe, sent, taken>>
       \/ /\ ~nonblock /\ sfd
          /\ cpc' = "blocked" /\ UNCHANGED <<cret, pipe, sent, taken>>
    /\ UNCHANGED <<net, conn, cfd, nonblock, errno, timed, left, msg, connects, server>>

\* In a blocking write: bytes are taken as room is made, until all are or the
\* connection ends.
Blocked ==
    /\ cpc = "blocked"
    /\ \/ /\ sfd
          /\ \E k \in 1 .. Least(Space, Length - sent) :
                /\ Take(k)
                /\ IF sent + k = Length THEN Return("all") ELSE UNCHANGED <<cpc, cret>>
       \/ ~sfd /\ Return("error") /\ UNCHANGED <<pipe, sent, taken>>
    /\ UNCHANGED <<net, conn, cfd, nonblock, errno, timed, left, msg, connects, server>>

\* A signal: select fails, which throws; a blocking write returns what it wrote,
\* or fails if that is nothing.
ClientSignal ==
    /\ \/ cpc = "wselect" /\ Return("thrown")
       \/ cpc = "blocked" /\ (Return("error") \/ (cpc' = Loop(timed) /\ sent > 0 /\ UNCHANGED cret))
    /\ UNCHANGED <<net, conn, pipe, cfd, nonblock, errno, timed, left, msg, sent, taken,
                   connects, server>>

-----------------------------------------------------------------------------
(* ReadAllWithTimeout *)

\* Every ReadWithTimeOut begins with the whole timeout.
ReadLoop(t) == spc' = (IF t THEN "rselect" ELSE "read") /\ sleft' = Timeout

ReadAllWithTimeout(t) ==
    /\ spc = "idle" /\ sfd /\ sret \in {"none", "full"}
    /\ got' = <<>> /\ stimed' = t /\ ReadLoop(t)
    /\ UNCHANGED <<net, conn, pipe, client, sfd, sret, frames>>

\* It returns how many bytes it has, whether or not an exception ended it.
ReadReturn(buf) ==
    /\ spc' = "idle"
    /\ sret' = IF Len(buf) = Length THEN "full" ELSE "short"
    /\ frames' = IF Len(buf) = Length THEN Append(frames, buf) ELSE frames

Readable == pipe # <<>> \/ ~cfd

\* select for reading; a timeout throws, and ReadAllWithTimeout catches.
ReadSelect ==
    /\ spc = "rselect"
    /\ \/ Readable /\ spc' = "read" /\ UNCHANGED <<sret, frames>>
       \/ ~Readable /\ sleft = 0 /\ ReadReturn(got)
    /\ UNCHANGED <<net, conn, pipe, client, sfd, stimed, sleft, got>>

\* A signal: select fails, which throws, or a read that waits fails.
ServerSignal == /\ spc = "rselect" \/ (spc = "read" /\ ~Readable)
                /\ ReadReturn(got)
                /\ UNCHANGED <<net, conn, pipe, client, sfd, stimed, sleft, got>>

\* Mutant: pos stays, and what is read next is put in front of what was read.
ReadNoAdvance ==
    /\ spc = "read"
    /\ \/ \E k \in 1 .. Least(Len(pipe), Length - Len(got)) :
             /\ got' = SubSeq(pipe, 1, k) \o got
             /\ pipe' = SubSeq(pipe, k + 1, Len(pipe))
             /\ ReadLoop(stimed)
             /\ UNCHANGED <<sret, frames>>
       \/ /\ Len(got) = Length \/ (pipe = <<>> /\ ~cfd)
          /\ ReadReturn(got)
          /\ UNCHANGED <<pipe, got, sleft>>
    /\ UNCHANGED <<net, conn, client, sfd, stimed>>

\* read: any of the bytes there are, none at the end of the stream, and none
\* when the buffer is full, which ends the loop.
Read ==
    /\ spc = "read"
    /\ \/ \E k \in 1 .. Least(Len(pipe), Length - Len(got)) :
             /\ got' = got \o SubSeq(pipe, 1, k)
             /\ pipe' = SubSeq(pipe, k + 1, Len(pipe))
             /\ ReadLoop(stimed)
             /\ UNCHANGED <<sret, frames>>
       \/ /\ Len(got) = Length \/ (pipe = <<>> /\ ~cfd)
          /\ ReadReturn(got)
          /\ UNCHANGED <<pipe, got, sleft>>
    /\ UNCHANGED <<net, conn, client, sfd, stimed>>

-----------------------------------------------------------------------------

\* Close by the client: the server reads what is on the way, then the end.
ClientClose == /\ cpc = "idle" /\ cfd /\ conn = "established"
               /\ cfd' = FALSE
               /\ UNCHANGED <<net, conn, pipe, nonblock, cpc, errno, timed, left, msg, sent,
                              cret, taken, connects, server>>
\* Close by the server: what is on the way is lost, writing fails.
ServerClose == /\ spc = "idle" /\ sfd
               /\ sfd' = FALSE /\ pipe' = <<>>
               /\ UNCHANGED <<net, conn, client, spc, stimed, sleft, got, sret, frames>>

\* Time passes for a select that waits.
ClientTick == /\ left > 0
              /\ \/ cpc = "select" /\ conn = "connecting"
                 \/ cpc = "wselect" /\ ~Writable
              /\ left' = left - 1
              /\ UNCHANGED <<net, conn, pipe, cfd, nonblock, cpc, errno, timed, msg, sent,
                             cret, taken, connects, server>>
ServerTick == /\ sleft > 0 /\ spc = "rselect" /\ ~Readable
              /\ sleft' = sleft - 1
              /\ UNCHANGED <<net, conn, pipe, client, sfd, spc, stimed, got, sret, frames>>

ClientStep == TryConnect \/ ConnectSelect \/ ConnectCheck \/ WriteSelect \/ Write \/ Blocked
ServerStep == ReadSelect \/ Read

Next == \/ Connect \/ ConnectWithTimeOut \/ (\E t \in BOOLEAN : WriteAll(t))
        \/ (\E t \in BOOLEAN : ReadAllWithTimeout(t))
        \/ ClientStep \/ ServerStep \/ ClientSignal \/ ServerSignal \/ ClientClose \/ ServerClose
        \/ Answer \/ NetChange \/ ClientTick \/ ServerTick

\* Calls go on and time passes; nobody has to call, and the network owes nothing.
Fairness == /\ WF_tcpVars(ClientStep) /\ WF_tcpVars(ServerStep)
            /\ WF_tcpVars(ClientTick) /\ WF_tcpVars(ServerTick)
Spec == Init /\ [][Next]_tcpVars /\ Fairness

-----------------------------------------------------------------------------
(* Properties *)

\* Every variable keeps its type.
TypeOK ==
    /\ net \in {"up", "down"} /\ conn \in {"none", "connecting", "failed", "established"}
    /\ pipe \in Seq((1 .. MaxMessages) \X (1 .. Length)) /\ Len(pipe) <= Capacity
    /\ cpc \in {"idle", "try", "select", "check", "wselect", "write", "blocked"}
    /\ spc \in {"idle", "rselect", "read"}
    /\ left \in 0 .. Timeout /\ sleft \in 0 .. Timeout /\ sent \in 0 .. Length

\* A connection that was reported is there, also when the answer came late or an
\* earlier call timed out.
ConnectedMeansIt == cpc = "idle" /\ cret = "OK" => conn = "established"

\* However bytes are split, a WriteAll that returned all of a message has handed
\* over each of its bytes once, and a ReadAllWithTimeout that returned the length
\* of a message has read that message, not a mixture of two.
FramesIntact ==
    /\ cpc = "idle" /\ cret = "all" => taken = msg * Length
    /\ \A i \in DOMAIN frames : frames[i] = Message(i)

\* A call with a timeout ends, whatever the peer does, and so does one on a
\* non-blocking socket; ConnectWithTimeOut if connect stops failing at once.
CallsEnd ==
    /\ <>[](net = "up") => (cpc # "idle" /\ nonblock ~> cpc = "idle")
    /\ spc # "idle" /\ stimed ~> spc = "idle"
=============================================================================
