---------------------------- MODULE MessageQueue ----------------------------
(***************************************************************************)
(* HMessageQueue (src/src/hmessagequeue.{h,cpp}, on                        *)
(* src/src/internal/ipcbase_in.h): processes that find a System V message  *)
(* queue by its key, each through an object of its own.  The queue and its *)
(* messages stay when processes die.  One system call is one step, and one *)
(* that must wait is pending.                                              *)
(*                                                                         *)
(* A message is its number, its type and the length of what follows the    *)
(* type; a size counts the type, as Send wants it.                         *)
(***************************************************************************)
EXTENDS Integers, Sequences, FiniteSets

CONSTANTS Procs, Types,
          WORD,            \* sizeof(HLN), the length of a type
          Sizes,           \* sizes given to Send
          Room,            \* msg_qbytes
          MaxSends, MaxQueues, MaxFails, MaxKills   \* bounds

QueueAssumption == /\ Types \subseteq Nat \ {0} /\ WORD \in Nat \ {0} /\ Sizes \subseteq Nat
                   /\ {Room, MaxSends, MaxFails, MaxKills} \subseteq Nat
                   /\ MaxQueues \in Nat \ {0}

VARIABLES qid, queue, queues,   \* the kernel's queue of the key: its id, its messages; ids given
          m_id,                 \* per process: of its object
          qpc, ask,             \* per process: place, arguments of a pending call
          sends, fails, kills,  \* how many of each
          last, gone            \* history: per type, the last number received; how many were
                                \* received, cleared or removed
kernel  == <<qid, queue, queues>>
process == <<m_id, qpc, ask>>
mqVars  == <<kernel, process, sends, fails, kills, last, gone>>

NoId  == -1
NoAsk == [type |-> 0, size |-> 0]

\* The first queue of a kernel has the id 0.
Init == /\ qid = NoId /\ queue = <<>> /\ queues \in {0, 1}
        /\ m_id = [p \in Procs |-> NoId]
        /\ qpc = [p \in Procs |-> "idle"] /\ ask = [p \in Procs |-> NoAsk]
        /\ sends = 0 /\ fails = 0 /\ kills = 0 /\ gone = 0
        /\ last = [t \in Types |-> 0]

\* The bytes of the first k messages; msg_cbytes, those of all.
Sums(q) == LET sum[k \in 0 .. Len(q)] == IF k = 0 THEN 0 ELSE sum[k - 1] + q[k].len IN sum
CBytes  == Sums(queue)[Len(queue)]

HasInited(p) == m_id[p] # NoId
Reaches(p)   == qid # NoId /\ m_id[p] = qid
Fail         == fails < MaxFails /\ fails' = fails + 1

At(p, s, a) == qpc' = [qpc EXCEPT ![p] = s] /\ ask' = [ask EXCEPT ![p] = a]
Returns(p)  == At(p, "idle", NoAsk)

\* msgget with IPC_CREAT finds the queue or makes one.
Get == IF qid # NoId THEN UNCHANGED kernel
       ELSE queues < MaxQueues /\ qid' = queues /\ queues' = queues + 1 /\ UNCHANGED queue

\* Init is create; when that fails, and but for IPC_EXCL not with EEXIST, ...
create(p) == /\ qpc[p] = "idle" /\ ~HasInited(p)
             /\ \/ /\ Get /\ m_id' = [m_id EXCEPT ![p] = qid'] /\ Returns(p)
                   /\ UNCHANGED fails
                \/ Fail /\ At(p, "open", NoAsk) /\ UNCHANGED <<kernel, m_id>>
             /\ UNCHANGED <<sends, kills, last, gone>>

\* ... open tries again: the default flag has IPC_CREAT, too.  It takes the id 0 for
\* a failure.
open(p) == /\ qpc[p] = "open"
           /\ \/ Get /\ m_id' = IF qid' > 0 THEN [m_id EXCEPT ![p] = qid'] ELSE m_id
              \/ UNCHANGED <<kernel, m_id>>
           /\ Returns(p) /\ UNCHANGED <<sends, fails, kills, last, gone>>

\* What Send tells the kernel; a size without room for the type wraps round.
SendLen(size) == size - WORD

\* msgsnd puts the message in as soon as there is room; of a length that wrapped
\* round, or to a queue that is gone, it fails.
Refused(p, size) == ~Reaches(p) \/ SendLen(size) \notin 0 .. Room
Full(size)       == CBytes + SendLen(size) > Room
Sent(p, type, size) ==
    /\ IF Refused(p, size) THEN UNCHANGED <<queue, sends>>
       ELSE /\ sends' = sends + 1
            /\ queue' = Append(queue, [n |-> sends', type |-> type, len |-> SendLen(size),
                                       size |-> size])
    /\ Returns(p) /\ UNCHANGED <<qid, queues, m_id, fails, kills, last, gone>>

\* Send waits for room; with IPC_NOWAIT it fails instead, which changes nothing.
Send(p, type, size) ==
    /\ qpc[p] = "idle" /\ sends < MaxSends
    /\ IF ~Refused(p, size) /\ Full(size)
       THEN /\ At(p, "send", [type |-> type, size |-> size])
            /\ UNCHANGED <<kernel, m_id, sends, fails, kills, last, gone>>
       ELSE Sent(p, type, size)
SendWaited(p) == /\ qpc[p] = "send" /\ sends < MaxSends
                 /\ Refused(p, ask[p].size) \/ ~Full(ask[p].size)
                 /\ Sent(p, ask[p].type, ask[p].size)

\* The messages of which msgrcv takes the first, for a type, for 0, which is any, and
\* for a negative number, which bounds the type and wants the lowest.
Fits(type) == {i \in DOMAIN queue :
                 CASE type = 0 -> TRUE
                   [] type > 0 -> queue[i].type = type
                   [] OTHER    -> /\ queue[i].type <= -type
                                  /\ \A j \in DOMAIN queue : queue[j].type >= queue[i].type}

\* msgrcv without MSG_NOERROR: a message longer than the room for it stays, and the
\* call fails.
Received(p, type, size) ==
    /\ LET i == CHOOSE k \in Fits(type) : \A j \in Fits(type) : k <= j IN
       IF Reaches(p) /\ Fits(type) # {} /\ queue[i].len <= size
       THEN /\ queue' = SubSeq(queue, 1, i - 1) \o SubSeq(queue, i + 1, Len(queue))
            /\ last' = [last EXCEPT ![queue[i].type] = queue[i].n] /\ gone' = gone + 1
       ELSE UNCHANGED <<queue, last, gone>>
    /\ Returns(p) /\ UNCHANGED <<qid, queues, m_id, sends, fails, kills>>

\* Recv waits for a message, or with IPC_NOWAIT fails instead.
Recv(p, type, size) ==
    /\ qpc[p] = "idle"
    /\ IF Reaches(p) /\ Fits(type) = {}
       THEN /\ At(p, "recv", [type |-> type, size |-> size])
            /\ UNCHANGED <<kernel, m_id, sends, fails, kills, last, gone>>
       ELSE Received(p, type, size)
RecvWaited(p) == /\ qpc[p] = "recv"
                 /\ ~Reaches(p) \/ Fits(ask[p].type) # {}
                 /\ Received(p, ask[p].type, ask[p].size)

\* A signal ends a call that waits.
Interrupted(p) == /\ qpc[p] \in {"send", "recv"} /\ Fail /\ Returns(p)
                  /\ UNCHANGED <<kernel, m_id, sends, kills, last, gone>>

\* ClearMessage takes messages, cut to its buffer, until there is none.
ClearMessage(p) == /\ qpc[p] \in {"idle", "clear"}
                   /\ IF Reaches(p) /\ queue # <<>>
                      THEN /\ queue' = Tail(queue) /\ gone' = gone + 1
                           /\ At(p, "clear", NoAsk)
                      ELSE Returns(p) /\ UNCHANGED <<queue, gone>>
                   /\ UNCHANGED <<qid, queues, m_id, sends, fails, kills, last>>

\* Remove: IPC_RMID; the object keeps the id.
Remove(p) == /\ qpc[p] = "idle" /\ Reaches(p)
             /\ qid' = NoId /\ queue' = <<>> /\ gone' = gone + Len(queue)
             /\ UNCHANGED <<queues, process, sends, fails, kills, last>>

\* A process dies, whatever it waits for, and another takes its place.
Die(p) == /\ kills < MaxKills /\ HasInited(p) /\ kills' = kills + 1
          /\ m_id' = [m_id EXCEPT ![p] = NoId] /\ Returns(p)
          /\ UNCHANGED <<kernel, sends, fails, last, gone>>

\* A call that was begun goes on.
Step(p) == \/ open(p) \/ SendWaited(p) \/ RecvWaited(p)
           \/ qpc[p] = "clear" /\ ClearMessage(p)

Asked == Types \cup {0} \cup {-t : t \in Types}

Next == \E p \in Procs :
          \/ create(p) \/ Step(p) \/ ClearMessage(p) \/ Remove(p)
          \/ Interrupted(p) \/ Die(p)
          \/ \E type \in Types, size \in Sizes : Send(p, type, size)
          \/ \E type \in Asked, size \in {s - WORD : s \in Sizes} \cap Nat :
                Recv(p, type, size)

Spec == Init /\ [][Next]_mqVars

-----------------------------------------------------------------------------
(* Properties *)

\* Every variable keeps its type.
TypeOK == /\ {qid} \cup {m_id[p] : p \in Procs} \subseteq {NoId} \cup 0 .. MaxQueues
          /\ queues \in 0 .. MaxQueues /\ last \in [Types -> 0 .. MaxSends]
          /\ qpc \in [Procs -> {"idle", "open", "send", "recv", "clear"}]

\* A message that Send took is in the queue, or was received, or was cleared or
\* removed with its queue; the ones of one type are received in the order of their
\* sends, so each once, whatever types others ask for and whoever dies, fails or is
\* interrupted; and each fits into the room its sender left for the text.
OnceInOrder ==
    /\ Len(queue) + gone = sends
    /\ \A i \in DOMAIN queue :
         /\ queue[i].n > last[queue[i].type] /\ queue[i].len + WORD = queue[i].size
         /\ \A j \in 1 .. i - 1 : queue[j].n < queue[i].n
    /\ CBytes <= Room

\* An object that outlived its queue never reaches the one that was made after it.
StaleStays == /\ \A p \in Procs : HasInited(p) => m_id[p] < queues
              /\ qid # NoId => \A p \in Procs : m_id[p] <= qid
=============================================================================
