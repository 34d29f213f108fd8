------------------------------ MODULE MCShared ------------------------------
(***************************************************************************)
(* What is shared: by threads the object of a singleton, by processes a    *)
(* System V semaphore, by hosts a TCP connection, checked in one run.      *)
(* They share no state: a behaviour is one of the part that part names.    *)
(***************************************************************************)
EXTENDS LazySingleton

CONSTANTS Length, Capacity, Timeout, MaxMessages, MaxConnects,
          Procs, Leader, MAX_TRIES, SetOnce, HolderSignals, MaxDeaths

VARIABLES part,
          net, conn, pipe, cfd, nonblock, cpc, errno, timed, left, msg, sent, cret,
          sfd, spc, stimed, sleft, rbuf, sret, frames, taken, connects,
          exists, semid, semval, otime, undo, mpc, inited, tries, inside, setret,
          setDone, deaths

Tcp == INSTANCE TcpSocket WITH got <- rbuf
Sem == INSTANCE Semaphore

ASSUME SharedAssumption == Tcp!TcpAssumption /\ Sem!SemaphoreAssumption

tcpVars == <<net, conn, pipe, cfd, nonblock, cpc, errno, timed, left, msg, sent, cret,
             sfd, spc, stimed, sleft, rbuf, sret, frames, taken, connects>>
semVars == <<exists, semid, semval, otime, undo, mpc, inited, tries, inside, setret,
             setDone, deaths>>

SharedInit == /\ Init /\ Tcp!Init /\ Sem!Init
              /\ part \in {"singleton", "tcp", "sem"}
              /\ part # "tcp" => net = "up"
SharedNext == /\ \/ part = "singleton" /\ Next     /\ UNCHANGED <<tcpVars, semVars>>
                 \/ part = "tcp"       /\ Tcp!Next /\ UNCHANGED <<lsVars, semVars>>
                 \/ part = "sem"       /\ Sem!Next /\ UNCHANGED <<lsVars, tcpVars>>
              /\ UNCHANGED part

\* Threads in Get go on, calls on sockets and semaphores go on, time passes, and
\* the kernel hands a semaphore that is free again and again to who waits for it.
SharedSpec ==
    /\ SharedInit /\ [][SharedNext]_<<part, lsVars, tcpVars, semVars>>
    /\ Fairness
    /\ WF_tcpVars(part = "tcp" /\ Tcp!ClientStep) /\ WF_tcpVars(part = "tcp" /\ Tcp!ServerStep)
    /\ WF_tcpVars(part = "tcp" /\ Tcp!ClientTick) /\ WF_tcpVars(part = "tcp" /\ Tcp!ServerTick)
    /\ \A p \in Procs : SF_semVars(part = "sem" /\ Sem!Step(p))

-----------------------------------------------------------------------------

\* TcpSocket: a connection that was reported is there, and messages that were
\* written and read in full arrive whole and in order, however bytes are split
\* and whatever times out, is interrupted or is closed.
FramesIntact == Tcp!TypeOK /\ Tcp!ConnectedMeansIt /\ Tcp!FramesIntact

\* Semaphore: one process is in the protected code or the semaphore is free for
\* one, however Init races and wherever processes die.
MutexExact == Sem!TypeOK /\ Sem!MutexExact /\ Sem!InitedInside

\* TcpSocket: a call with a timeout ends, whatever the peer does, and so does one
\* on a non-blocking socket; ConnectWithTimeOut if connect stops failing at once.
\* Semaphore: who waits for it when it has been set gets it, or dies or is
\* interrupted.  LazySingleton: a Get ends, with the object or with the exception of
\* a creation.
CallsEnd == Tcp!CallsEnd /\ Sem!LockGranted /\ GetEnds
=============================================================================
