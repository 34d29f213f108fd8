----------------------------- MODULE MCServices -----------------------------
(***************************************************************************)
(* Services, the packet that is written, and the conversions of values to  *)
(* bytes and text, checked in one run.                                     *)
(*                                                                         *)
(* A byte has three bits for the serialization, so that every form of a    *)
(* size and of a number is written and read, and a vector grows by three   *)
(* bytes; for the packet it has one bit, and a word two bytes.             *)
(***************************************************************************)
EXTENDS Services

VARIABLES sample,
          m_buf, m_current_pos, m_index, m_vec, outgoing, ioBuf, m_pos, m_avalable, puts,
          ios, appended

Url    == INSTANCE UrlEncode WITH
              Marks <- {0, 32, 37, 43, 45, 47, 48, 57, 58, 65, 70, 71, 97, 102, 128, 255},
              SafeSets <- {{}, {47, 58}}
Codec  == INSTANCE Serialize WITH
              BITS <- 3, Chunk <- 3, VarBytes <- 3, MaxBytes <- 4,
              Sizes <- {0, 3, 4, 5, 6, 7, 8, 19, 20, 63, 64, 83, 84, 100,
                        340, 511, 512, 4095, 4096, 4097}

Out    == INSTANCE OutputBuffer WITH
              BASE <- 2, WORD <- 2, HEADER_LENGTH <- 4, IO_COUNT <- 3, IO_SIZE <- 4,
              Words <- {1, 3}, Pieces <- {<<1>>, <<0, 1>>}

\* Two columns and no, one and two rows of them, one with a NULL in it; and a table of one column.
MCTables == {[header |-> <<"a", "b">>, rows |-> r] :
               r \in {<<>>, <<<<"1", "2">>>>, <<<<"2", "1">>, <<"1", "no value">>>>}}
            \cup {[header |-> <<"b">>, rows |-> <<<<"1">>, <<"2">>>>]}
Cwd     == <<"/", "c", "/", "d">>
NameLen == 4
MIN_CONTENT_LENGTH == 10
MaxLines  == 3
ConfLines == {<<"a", "=", "b">>, <<"a", " ", "=", " ", "b", "a">>, <<"a", "=">>,
              <<";", ";", "a", "=", "b">>, <<"b", "=", "a", "=", "b">>,
              <<"b", "a">>, <<"=", "=", "=">>,
              <<" ", "b", "=", "a", " ", "a", "b", "a", "b", "a", "b">>}
\* Ip4Addr, with the HStr it is built on.
Addr   == INSTANCE Ip4Addr WITH
              Octets <- {0, 10, 99, 255}, Ports <- {0, 9, 80, 256, 65535}, MaxIfs <- 2,
              OctetTexts <- {<<"0">>, <<"9">>, <<"1", "0">>, <<"0", "8">>,
                             <<"2", "5", "5">>, <<"2", "5", "6">>}
Span   == INSTANCE TimeSpan WITH
              Spans <- {s * d : s \in {-1, 1},
                                d \in {0, 1, 59, 60, 61, 3599, 3600, 3661, 86399, 86400,
                                       90061, 1000000}},
              Times <- {100000 + 300 * k : k \in 0 .. 24} \cup {88199, 88200, 89999},
              Zones <- {0, 3600, 20700}, Usecs <- {0, 1, 499, 500, 999, 1000, 1001, 999999}

ASSUME ConversionsAssumption ==
    /\ Codec!SerializeAssumption /\ Url!UrlAssumption /\ Addr!TextAssumption
    /\ Addr!AddrAssumption /\ Span!SpanAssumption /\ Out!OutputAssumption

outVars == <<m_buf, m_current_pos, m_index, m_vec, outgoing, ioBuf, m_pos, m_avalable, puts,
             ios, appended>>

MCInit == ServInit /\ Codec!Init /\ Out!Init
MCNext == \/ ServNext /\ UNCHANGED <<sample, outVars>>
          \/ /\ part = "codec" /\ Codec!Pick
             /\ UNCHANGED <<servVars, outVars>>
          \/ /\ part = "text"
             /\ \/ Url!Pick \/ Addr!Pick \/ Addr!PickConf \/ Addr!PickName
                \/ Addr!PickAddr \/ Span!Pick
             /\ UNCHANGED <<servVars, outVars>>
          \/ part = "packet" /\ Out!Next /\ UNCHANGED <<servVars, sample>>
MCSpec == MCInit /\ [][MCNext]_<<servVars, sample, outVars>>

-----------------------------------------------------------------------------

\* OutputBuffer: the header and the buffer have exactly what was put into them, and
\* what is written is the header and then every piece.
PacketExact == /\ [](part = "packet" => Out!TypeOK /\ Out!HeaderExact /\ Out!IoExact)
               /\ Out!WritesAll

\* Serialize: sizes, numbers and values of every form are read back as they were
\* written, in as many bytes as was said, whatever follows them.
\* UrlEncode: a text is decoded to what was encoded, and what passes for encoded is
\* decoded.  HStr: what is split is joined to what it was, and nothing that is to be
\* trimmed, removed or replaced stays.  Configuration: a key has the value of the last
\* line that names it.  Names: a path is its file name appended to its parent.
\* Ip4Addr: an address is read back from its text and its integer.  TimeSpan: spans
\* are made of their parts, half hours follow each other, distances are exact.
ConversionsExact == /\ Codec!SizesExact /\ Codec!VarIntsExact /\ Codec!ValuesExact
                    /\ Url!TextsExact /\ Addr!StringsExact /\ Addr!ConfExact /\ Addr!NamesExact
                    /\ Addr!AddressesExact /\ Span!TimesExact
=============================================================================
