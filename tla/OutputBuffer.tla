---------------------------- MODULE OutputBuffer ----------------------------
(***************************************************************************)
(* What is gathered to be written in one call: HIOOutputBuffer with its    *)
(* header, an HOutputPacketBuffer (src/src/houtputpacketbuffer.{h,cpp}),   *)
(* and HIOBuffer (src/src/hiobuffer.{h,cpp}).                              *)
(*                                                                         *)
(* A word is a number of WORD bytes, each below BASE; a host keeps the     *)
(* lowest byte first, the network the highest.                             *)
(***************************************************************************)
EXTENDS Naturals, Sequences, SequencesExt

CONSTANTS BASE, WORD,
          HEADER_LENGTH, IO_COUNT, IO_SIZE,   \* sizes of the header, of m_vec, of an HIOBuffer
          Words, Pieces                       \* words and pieces that are put in

OutputAssumption == /\ {BASE, WORD, HEADER_LENGTH, IO_COUNT, IO_SIZE} \subseteq Nat
                    /\ Words \subseteq 0 .. BASE^WORD - 1 /\ Pieces \subseteq Seq(0 .. BASE - 1)

VARIABLES m_buf, m_current_pos,        \* the header
          m_index, m_vec,              \* the pieces; the first is the header's
          outgoing,                    \* what was given to writev last
          ioBuf, m_pos, m_avalable,    \* the HIOBuffer
          puts, ios, appended          \* history: what was put into each since its Reset

header == <<m_buf, m_current_pos>>
vector == <<m_index, m_vec>>
io     == <<ioBuf, m_pos, m_avalable>>
obVars == <<header, vector, io, outgoing, puts, ios, appended>>

Nothing   == <<>>
Zeros(n)  == [k \in 1 .. n |-> 0]
Joined(s) == FoldLeft(LAMBDA a, b : a \o b, <<>>, s)

Init == /\ m_buf = Zeros(HEADER_LENGTH) /\ m_current_pos = 0
        /\ m_index = 1 /\ m_vec = [k \in 1 .. IO_COUNT |-> Nothing]
        /\ ioBuf = Zeros(IO_SIZE) /\ m_pos = 0 /\ m_avalable = IO_SIZE
        /\ outgoing = <<>> /\ puts = <<>> /\ ios = <<>> /\ appended = <<>>

\* The bytes of a word on a host, and htonl, which turns them round, as ntohl does.
HostBytes(w) == [k \in 1 .. WORD |-> (w \div BASE^(k - 1)) % BASE]
htonl(bytes) == Reverse(bytes)
WordOf(bytes) == FoldLeft(LAMBDA a, b : a * BASE + b, 0, Reverse(bytes))

\* memmove to a place.
Moved(buf, at, data) == [k \in DOMAIN buf |-> IF k - at \in DOMAIN data THEN data[k - at] ELSE buf[k]]

\* Enqueue does not look whether there is room: its caller does.
Enqueue(data) == /\ m_current_pos + Len(data) <= HEADER_LENGTH
                 /\ m_buf' = Moved(m_buf, m_current_pos, data)
                 /\ m_current_pos' = m_current_pos + Len(data)
EnqueueWord(w) == /\ Enqueue(htonl(HostBytes(w)))
                  /\ puts' = Append(puts, w) /\ UNCHANGED <<vector, io, outgoing, ios, appended>>

\* InsertWord writes over a word that is there, as a length that is known at last;
\* ExtractWord reads one.
InsertWord(w, k) == /\ k \in DOMAIN puts
                    /\ m_buf' = Moved(m_buf, (k - 1) * WORD, htonl(HostBytes(w)))
                    /\ puts' = [puts EXCEPT ![k] = w]
                    /\ UNCHANGED <<m_current_pos, vector, io, outgoing, ios, appended>>
ExtractWord(position) == WordOf(htonl(SubSeq(m_buf, position + 1, position + WORD)))

\* AddIo keeps where a piece is; a full vector refuses it.
AddIo(piece) == /\ m_index < IO_COUNT
                /\ m_vec' = [m_vec EXCEPT ![m_index + 1] = piece] /\ m_index' = m_index + 1
                /\ ios' = Append(ios, piece)
                /\ UNCHANGED <<header, io, outgoing, puts, appended>>

Data == SubSeq(m_buf, 1, m_current_pos)

\* WriteIo puts the header first and gives all to writev.
WriteIo == /\ m_vec' = [m_vec EXCEPT ![1] = Data]
           /\ outgoing' = SubSeq(m_vec', 1, m_index)
           /\ UNCHANGED <<header, m_index, io, puts, ios, appended>>

GetDataLength == Len(Joined(SubSeq(m_vec, 1, m_index)))

\* Mutant: the end of the header stays.
ResetPart == /\ m_index' = 1 /\ m_vec' = [k \in 1 .. IO_COUNT |-> Nothing]
             /\ puts' = <<>> /\ ios' = <<>> /\ outgoing' = <<>>
             /\ UNCHANGED <<header, io, appended>>

\* Reset leaves the bytes of the header, and forgets where it ends and the pieces.
Reset == /\ m_index' = 1 /\ m_current_pos' = 0 /\ m_vec' = [k \in 1 .. IO_COUNT |-> Nothing]
         /\ puts' = <<>> /\ ios' = <<>> /\ outgoing' = <<>>
         /\ UNCHANGED <<m_buf, io, appended>>

\* HIOBuffer::Append drops what it takes to be too long: it compares the end of the
\* data with what is left, so that it refuses much that has room.
AppendStr(str) == /\ Len(str) + m_pos <= m_avalable
                  /\ ioBuf' = Moved(ioBuf, m_pos, str)
                  /\ m_pos' = m_pos + Len(str) /\ m_avalable' = m_avalable - Len(str)
                  /\ appended' = appended \o str
                  /\ UNCHANGED <<header, vector, outgoing, puts, ios>>

\* A read into PosWrite() of at most AvalableLength() bytes, and SetPos by as many.
SetPos(data) == /\ Len(data) <= m_avalable
                /\ ioBuf' = Moved(ioBuf, m_pos, data)
                /\ m_pos' = m_pos + Len(data) /\ m_avalable' = m_avalable - Len(data)
                /\ appended' = appended \o data
                /\ UNCHANGED <<header, vector, outgoing, puts, ios>>

IoReset == /\ ioBuf' = Zeros(IO_SIZE) /\ m_pos' = 0 /\ m_avalable' = IO_SIZE /\ appended' = <<>>
           /\ UNCHANGED <<header, vector, outgoing, puts, ios>>

Next == \/ \E w \in Words : EnqueueWord(w) \/ \E k \in DOMAIN puts : InsertWord(w, k)
        \/ \E piece \in Pieces : AddIo(piece) \/ AppendStr(piece) \/ SetPos(piece)
        \/ WriteIo \/ Reset \/ IoReset
Spec == Init /\ [][Next]_obVars

-----------------------------------------------------------------------------
(* Properties *)

\* Every variable keeps its type.
TypeOK == m_current_pos \in 0 .. HEADER_LENGTH /\ m_index \in 1 .. IO_COUNT /\ m_pos \in 0 .. IO_SIZE

Network(words) == Joined([k \in DOMAIN words |-> Reverse(HostBytes(words[k]))])

\* The header is the words that were put in, in network order, each where it was put
\* even when others were patched, and read back as it was; nothing put in before a
\* Reset is left in it or among the pieces.
HeaderExact ==
    /\ Data = Network(puts)
    /\ \A k \in DOMAIN puts : ExtractWord((k - 1) * WORD) = puts[k]
    /\ SubSeq(m_vec, 2, m_index) = ios

\* The HIOBuffer holds what was appended or read into it, and never more than it
\* has room for.
IoExact == /\ SubSeq(ioBuf, 1, m_pos) = appended /\ m_pos + m_avalable = IO_SIZE

\* What is written is the words put in so far and every piece in order, and as long
\* as GetDataLength says then.
WritesAll == [][outgoing' \notin {outgoing, <<>>} =>
                  /\ Joined(outgoing') = Network(puts) \o Joined(ios)
                  /\ GetDataLength' = Len(Joined(outgoing'))]_obVars
=============================================================================
