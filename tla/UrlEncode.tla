------------------------------ MODULE UrlEncode ------------------------------
(***************************************************************************)
(* UrlEncode (src/crypto/urlencode.cpp) and Hex (src/crypto/hex.cpp) over  *)
(* texts, sequences of bytes 0 .. 255.  A failed assert is Aborted.        *)
(***************************************************************************)
EXTENDS Integers, Sequences, SequencesExt

CONSTANTS Marks,       \* bytes of which texts of two and three bytes are made
          SafeSets     \* the sets of characters given as safes

UrlAssumption == Marks \subseteq 0 .. 255 /\ SafeSets \subseteq SUBSET (0 .. 255)

VARIABLE sample

Space == 32
Percent == 37
Plus == 43
Digit == 48 .. 57
Upper == 65 .. 90
Lower == 97 .. 122
Marked == {45, 46, 95, 126}      \* - . _ ~

Aborted == <<-1>>

ToHex(x) == IF x > 9 THEN x + 55 ELSE x + 48

\* FromHex asserts for any other character.
FromHex(x) == CASE x \in Upper -> x - 65 + 10
                [] x \in Lower -> x - 97 + 10
                [] x \in Digit -> x - 48
HexLike == Upper \cup Lower \cup Digit

Encode(str, safes) ==
    FoldLeft(LAMBDA dst, c :
                 dst \o IF c \in Digit \cup Upper \cup Lower \cup Marked \cup safes THEN <<c>>
                        ELSE IF c = Space THEN <<Plus>>
                        ELSE <<Percent, ToHex(c \div 16), ToHex(c % 16)>>,
             <<>>, str)

\* The loop of Decode from position i on; a byte of the result has eight bits.
Decode(str) ==
    LET from[i \in 1 .. Len(str) + 1] ==
          IF i > Len(str) THEN <<>>
          ELSE IF str[i] = Plus THEN LET d == from[i + 1] IN IF d = Aborted THEN d ELSE <<Space>> \o d
          ELSE IF str[i] # Percent THEN LET d == from[i + 1] IN IF d = Aborted THEN d ELSE <<str[i]>> \o d
          ELSE IF i + 2 > Len(str) THEN Aborted
          ELSE IF {str[i + 1], str[i + 2]} \subseteq HexLike
               THEN LET d == from[i + 3] IN
                    IF d = Aborted THEN d
                    ELSE <<(FromHex(str[i + 1]) * 16 + FromHex(str[i + 2])) % 256>> \o d
               ELSE Aborted
    IN  from[1]

\* Of a text of two bytes or more; of a shorter one the code reads before the text.
IsUrlEncode(str) ==
    /\ Percent \notin {str[Len(str) - 1], str[Len(str)]}
    /\ \A i \in 1 .. Len(str) :
          str[i] = Percent => {str[i + 1], str[i + 2]} \subseteq Upper \cup Digit

\* hexbyte_map, in lower case, and HexStr(ptr, len).
hexmap(x) == IF x > 9 THEN x + 87 ELSE x + 48
HexStr(str) == FlattenSeq([i \in DOMAIN str |-> <<hexmap(str[i] \div 16), hexmap(str[i] % 16)>>])

-----------------------------------------------------------------------------

Init == sample = [k |-> "none"]
Texts == {<<>>} \cup [1 .. 1 -> 0 .. 255] \cup [1 .. 2 -> Marks] \cup [1 .. 3 -> Marks]
Pick == /\ sample.k = "none"
        /\ \E str \in Texts, safes \in SafeSets :
              sample' = [k |-> "text", of |-> str, safes |-> safes]
Spec == Init /\ [][Pick]_sample

\* A text is decoded to what was encoded, what Encode makes passes IsUrlEncode, and
\* what passes it is decoded without a failed assert, as long as neither of the
\* characters with a meaning is among the safe ones.  HexStr keeps the text: its
\* digits are read back by FromHex.
TextsExact ==
    sample.k = "text" =>
        LET e == Encode(sample.of, sample.safes)
            h == HexStr(sample.of)
        IN  /\ Decode(e) = sample.of
            /\ Len(e) >= 2 => IsUrlEncode(e)
            /\ Len(sample.of) >= 2 /\ IsUrlEncode(sample.of) => Decode(sample.of) # Aborted
            /\ Len(h) = 2 * Len(sample.of)
            /\ \A i \in DOMAIN sample.of :
                  FromHex(h[2 * i - 1]) * 16 + FromHex(h[2 * i]) = sample.of[i]
=============================================================================
