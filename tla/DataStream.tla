----------------------------- MODULE DataStream ------------------------------
(***************************************************************************)
(* CDataStream (src/src/hserialize.h): a vector of bytes that is written   *)
(* at its end and read at nReadPos.  The bytes before nReadPos have been   *)
(* read and are kept until the buffer is cleared or compacted, so that     *)
(* Rewind can give them back and insert can write over them.               *)
(*                                                                         *)
(* held is what a user counts on: the bytes that were put in and not yet   *)
(* taken out, with what every call promises to do to them.                 *)
(***************************************************************************)
EXTENDS Integers, Sequences

CONSTANTS Bytes,
          MaxLength,   \* bound on vch
          Careless     \* calls made where they do not what they say: "ignore"
                       \* up to the very end of a stream that was read from, and
                       \* "shift" of a stream that was read from

StreamAssumption == MaxLength \in Nat /\ Careless \subseteq {"ignore", "shift"}

VARIABLES vch, nReadPos,
          result,      \* the bytes, or the answer, that the last call returned
          held,        \* history: the bytes that the stream holds
          past         \* history: the bytes taken from the front that Rewind can reach

dsVars == <<vch, nReadPos, result, held, past>>

\* From nReadPos on: begin() up to end().
Unread == SubSeq(vch, nReadPos + 1, Len(vch))
size   == Len(vch) - nReadPos

Init == vch = <<>> /\ nReadPos = 0 /\ result = <<>> /\ held = <<>> /\ past = <<>>

Words(k) == UNION {[1 .. i -> Bytes] : i \in 1 .. k}
Drop(s, n)  == SubSeq(s, n + 1, Len(s))
First(s, n) == SubSeq(s, 1, n)
Final(s, n) == IF n <= Len(s) THEN SubSeq(s, Len(s) - n + 1, Len(s)) ELSE s

\* The history after n bytes were taken from the front: a stream that is empty
\* forgets what it gave.
Taken(n) == /\ held' = Drop(held, n)
            /\ past' = IF n >= Len(held) THEN <<>> ELSE past \o First(held, n)

write(w) == /\ Len(vch) + Len(w) <= MaxLength
            /\ vch' = vch \o w
            /\ held' = held \o w
            /\ result' = <<>>
            /\ UNCHANGED <<nReadPos, past>>

\* Mutant: the buffer is cleared only when too much was asked for.
readLate(n) ==
    LET next == nReadPos + n IN
    /\ result' = [i \in 1 .. n |-> IF i <= size THEN vch[nReadPos + i] ELSE 0]
    /\ IF next > Len(vch) + 1 THEN vch' = <<>> /\ nReadPos' = 0
                              ELSE nReadPos' = next /\ UNCHANGED vch
    /\ Taken(n)

\* What the stream does not have is read as zeros; at the end of the buffer it
\* is cleared.
read(n) ==
    LET next == nReadPos + n IN
    /\ result' = [i \in 1 .. n |-> IF i <= size THEN vch[nReadPos + i] ELSE 0]
    /\ IF next >= Len(vch) THEN vch' = <<>> /\ nReadPos' = 0
                           ELSE nReadPos' = next /\ UNCHANGED vch
    /\ Taken(n)

\* The assignment to nReadPos is under the inner if.
ignore(n) ==
    LET next == nReadPos + n IN
    /\ "ignore" \in Careless \/ next # Len(vch) \/ nReadPos = 0
    /\ IF next >= Len(vch)
       THEN vch' = <<>> /\ nReadPos' = IF next > Len(vch) THEN 0 ELSE nReadPos
       ELSE nReadPos' = next /\ UNCHANGED vch
    /\ result' = <<>>
    /\ Taken(n)

\* erase(it) of the byte after the first k, or of n bytes there.
eraseOne(k) ==
    /\ k < size
    /\ IF k = 0
       THEN IF nReadPos + 1 >= Len(vch) THEN vch' = <<>> /\ nReadPos' = 0
                                        ELSE nReadPos' = nReadPos + 1 /\ UNCHANGED vch
       ELSE /\ vch' = First(vch, nReadPos + k) \o Drop(vch, nReadPos + k + 1)
            /\ UNCHANGED nReadPos
    /\ result' = <<>>
    /\ IF k = 0 THEN Taken(1)
                ELSE held' = First(held, k) \o Drop(held, k + 1) /\ UNCHANGED past

erase(k, n) ==
    /\ k + n <= size
    /\ CASE k = 0 /\ n = size  -> vch' = <<>> /\ nReadPos' = 0
         [] k = 0 /\ n # size  -> nReadPos' = nReadPos + n /\ UNCHANGED vch
         [] OTHER -> /\ vch' = First(vch, nReadPos + k) \o Drop(vch, nReadPos + k + n)
                     /\ UNCHANGED nReadPos
    /\ result' = <<>>
    /\ IF k = 0 THEN Taken(n)
                ELSE held' = First(held, k) \o Drop(held, k + n) /\ UNCHANGED past

\* insert(it, first, last) after the first k bytes; over bytes that were read,
\* at the front, when there is room.
insert(k, w) ==
    LET n == Len(w) IN
    /\ k <= size /\ Len(vch) + n <= MaxLength
    /\ IF k = 0 /\ n <= nReadPos
       THEN /\ vch' = First(vch, nReadPos - n) \o w \o Unread
            /\ nReadPos' = nReadPos - n
            /\ past' = First(past, Len(past) - n)
       ELSE /\ vch' = First(vch, nReadPos + k) \o w \o Drop(vch, nReadPos + k)
            /\ UNCHANGED <<nReadPos, past>>
    /\ held' = First(held, k) \o w \o Drop(held, k)
    /\ result' = <<>>

Compact == /\ vch' = Unread /\ nReadPos' = 0
           /\ past' = <<>> /\ result' = <<>>
           /\ UNCHANGED held

\* Rewind returns whether it could.
Rewind(n) ==
    /\ result' = <<IF n <= nReadPos THEN 1 ELSE 0>>
    /\ nReadPos' = IF n <= nReadPos THEN nReadPos - n ELSE nReadPos
    /\ IF n <= nReadPos
       THEN held' = Final(past, n) \o held /\ past' = First(past, Len(past) - n)
       ELSE UNCHANGED <<held, past>>
    /\ UNCHANGED vch

\* GetAndClear appends the bytes to the caller's vector, and clear().
GetAndClear == /\ result' = Unread
               /\ vch' = <<>> /\ nReadPos' = 0
               /\ held' = <<>> /\ past' = <<>>

\* operator+= another stream, of which pos bytes have been read.
append(b, pos) == /\ Len(vch) + Len(b) - pos <= MaxLength
                  /\ vch' = vch \o Drop(b, pos)
                  /\ held' = held \o Drop(b, pos)
                  /\ result' = <<>>
                  /\ UNCHANGED <<nReadPos, past>>

\* stream << stream: CDataStream::Serialize writes all of the other vch.
shift(b, pos) == /\ "shift" \in Careless \/ pos = 0
                 /\ Len(vch) + Len(b) <= MaxLength
                 /\ vch' = vch \o b
                 /\ held' = held \o Drop(b, pos)
                 /\ result' = <<>>
                 /\ UNCHANGED <<nReadPos, past>>

Amounts == 0 .. 3
Next == \/ \E w \in Words(2) : write(w) \/ (\E k \in 0 .. 2 : insert(k, w))
        \/ \E n \in Amounts : read(n) \/ ignore(n) \/ Rewind(n)
        \/ \E k \in 0 .. 2 : eraseOne(k) \/ (\E n \in 1 .. 2 : erase(k, n))
        \/ \E b \in Words(2), pos \in 0 .. 1 : append(b, pos) \/ shift(b, pos)
        \/ Compact \/ GetAndClear

Spec == Init /\ [][Next]_dsVars

-----------------------------------------------------------------------------
(* Properties *)

\* The read position is in the buffer.
TypeOK == /\ vch \in Seq(Bytes) /\ Len(vch) <= MaxLength
          /\ nReadPos \in 0 .. Len(vch)
          /\ held \in Seq(Bytes) /\ past \in Seq(Bytes)

\* A "double ended buffer", to which a stream is written "like stream += stream":
\* after any calls it holds exactly the bytes that were put in and not taken out,
\* in their order, and what Rewind reaches is what was taken last.
HoldsExactly == Unread = held /\ vch = past \o held

\* A read gives the oldest bytes that the stream holds, then zeros.
OldestRead  == \A n \in Amounts : read(n) =>
                 \A i \in 1 .. n : result'[i] = IF i <= Len(held) THEN held[i] ELSE 0
ReadsOldest == [][OldestRead]_dsVars
=============================================================================
