------------------------------ MODULE Serialize ------------------------------
(***************************************************************************)
(* The serialization of values (src/src/hserialize.h, the templates before *)
(* CDataStream).  A value is written according to its type; a type is      *)
(*   [k |-> "int", n |-> bytes]    the integers and floats, as in memory   *)
(*   [k |-> "varint", n |-> bytes] an unsigned integer in VARINT           *)
(*   [k |-> "bool"], [k |-> "string"]                                      *)
(*   [k |-> "vector", of |-> T], [k |-> "set", of |-> T]                   *)
(*   [k |-> "pair", a |-> T, b |-> U]                                      *)
(*   [k |-> "map", a |-> T, b |-> U]  a sequence of pairs, keys ascending  *)
(*   [k |-> "object", of |-> <<T, ...>>]  a class with IMPLEMENT_SERIALIZE *)
(* A byte has BITS bits, 8 in the code; with fewer the limits of the       *)
(* formats are near enough to be tried.                                    *)
(***************************************************************************)
EXTENDS Integers, Sequences, SequencesExt, FiniteSetsExt

CONSTANTS BITS,    \* bits of a byte: 8 in the code
          Chunk,   \* 5000000: bytes a vector grows by while it is read
          (* samples: sizes and numbers at and around every limit of the formats *)
          Sizes,
          VarBytes,    \* bytes of the type of a VARINT
          MaxBytes     \* length of the byte sequences that are read as VARINT

VARIABLE sample

SerializeAssumption == BITS \in Nat \ {0, 1, 2} /\ Chunk \in Nat \ {0}

B    == 2 ^ BITS            \* 0x100
High == 2 ^ (BITS - 1)      \* 0x80, the bit that says that another digit follows

\* WRITEDATA of an object of k bytes: little endian.
WriteData(n, k) == [i \in 1 .. k |-> (n \div B ^ (i - 1)) % B]
Value(bytes)    == FoldLeftDomain(LAMBDA v, i : v + bytes[i] * B ^ (i - 1), 0, bytes)

\* READDATA from a CDataStream: what is missing at its end is read as zero.
ReadData(s, k) == [data |-> [i \in 1 .. k |-> IF i <= Len(s) THEN s[i] ELSE 0],
                   rest |-> SubSeq(s, k + 1, Len(s))]

-----------------------------------------------------------------------------
(* Compact size *)

GetSizeOfCompactSize(n) == CASE n < B - 3 -> 1
                             [] n \in B - 3 .. B ^ 2 - 1 -> 3
                             [] n \in B ^ 2 .. B ^ 4 - 1 -> 5
                             [] OTHER -> 9

WriteCompactSize(n) == CASE n < B - 3 -> <<n>>
                         [] n \in B - 3 .. B ^ 2 - 1 -> <<B - 3>> \o WriteData(n, 2)
                         [] n \in B ^ 2 .. B ^ 4 - 1 -> <<B - 2>> \o WriteData(n, 4)
                         [] OTHER -> <<B - 1>> \o WriteData(n, 8)

\* Mutant: the mark of two bytes is taken for a size.
ReadCompactSizeOff(s) ==
    LET mark == ReadData(s, 1)
        x    == ReadData(mark.rest, 2 ^ (mark.data[1] - (B - 4)))
    IN  IF mark.data[1] <= B - 3 THEN [val |-> mark.data[1], rest |-> mark.rest]
                                 ELSE [val |-> Value(x.data), rest |-> x.rest]

ReadCompactSize(s) ==
    LET mark == ReadData(s, 1)
        x    == ReadData(mark.rest, 2 ^ (mark.data[1] - (B - 4)))
    IN  IF mark.data[1] < B - 3 THEN [val |-> mark.data[1], rest |-> mark.rest]
                                ELSE [val |-> Value(x.data), rest |-> x.rest]

-----------------------------------------------------------------------------
(* Variable-length integers *)

RECURSIVE GetSizeOfVarInt(_)
GetSizeOfVarInt(n) == IF n < High THEN 1 ELSE 1 + GetSizeOfVarInt(n \div High - 1)

\* The digits are found from the last to the first and written the other way.
RECURSIVE Digits(_, _)
Digits(n, mark) == IF n < High THEN <<n + mark>>
                   ELSE Append(Digits(n \div High - 1, High), (n % High) + mark)
WriteVarInt(n) == Digits(n, 0)

\* Arithmetic of an unsigned type of k bytes.
RECURSIVE ReadDigits(_, _, _)
ReadDigits(s, n, k) ==
    LET c == ReadData(s, 1)
        m == ((n * High) % B ^ k) + (c.data[1] % High)
    IN  IF c.data[1] >= High THEN ReadDigits(c.rest, (m + 1) % B ^ k, k)
                             ELSE [val |-> m, rest |-> c.rest]
ReadVarInt(s, k) == ReadDigits(s, 0, k)

-----------------------------------------------------------------------------
(* Values *)

\* The order in which a container is walked: a set by its keys.
Walk(T, v) == IF T.k = "set" THEN SetToSortSeq(v, <) ELSE v

\* What a container holds, as the walk finds it.
Item(T) == CASE T.k = "map"    -> [k |-> "pair", a |-> T.a, b |-> T.b]
             [] T.k = "string" -> [k |-> "int", n |-> 1]
             [] OTHER          -> T.of
Containers == {"string", "vector", "set", "map"}

RECURSIVE GetSerializeSize(_, _)
GetSerializeSize(T, v) ==
    CASE T.k = "int"    -> T.n
      [] T.k = "bool"   -> 1
      [] T.k = "varint" -> GetSizeOfVarInt(v)
      [] T.k = "pair"   -> GetSerializeSize(T.a, v[1]) + GetSerializeSize(T.b, v[2])
      [] T.k = "object" -> FoldLeftDomain(LAMBDA z, i : z + GetSerializeSize(T.of[i], v[i]), 0, v)
      [] T.k \in Containers ->
            FoldLeft(LAMBDA z, x : z + GetSerializeSize(Item(T), x),
                     GetSizeOfCompactSize(Len(Walk(T, v))), Walk(T, v))

RECURSIVE Serialize(_, _)
Serialize(T, v) ==
    CASE T.k = "int"    -> WriteData(v, T.n)
      [] T.k = "bool"   -> <<IF v THEN 1 ELSE 0>>
      [] T.k = "varint" -> WriteVarInt(v)
      [] T.k = "pair"   -> Serialize(T.a, v[1]) \o Serialize(T.b, v[2])
      [] T.k = "object" -> FoldLeftDomain(LAMBDA z, i : z \o Serialize(T.of[i], v[i]), <<>>, v)
      [] T.k \in Containers ->
            FoldLeft(LAMBDA z, x : z \o Serialize(Item(T), x),
                     WriteCompactSize(Len(Walk(T, v))), Walk(T, v))

\* A vector of n elements of type T that has i of them grows by a block.  The
\* size in memory of what is no number is not modelled: Chunk counts elements.
Grown(T, i, n) == LET block == IF T.k = "int" THEN 1 + (Chunk - 1) \div T.n ELSE Chunk
                  IN  IF i + block > n THEN n ELSE i + block

RECURSIVE Unserialize(_, _)
RECURSIVE ReadItems(_, _, _)
RECURSIVE ReadBlocks(_, _, _, _)

\* k values of type T, one after another.
ReadItems(T, s, k) ==
    IF k = 0 THEN [val |-> <<>>, rest |-> s]
    ELSE LET x == Unserialize(T, s)
             r == ReadItems(T, x.rest, k - 1)
         IN  [val |-> <<x.val>> \o r.val, rest |-> r.rest]

\* The loop over the blocks of a vector that has v and will have n elements.
ReadBlocks(T, s, v, n) ==
    IF Len(v) = n THEN [val |-> v, rest |-> s]
    ELSE LET r == ReadItems(T, s, Grown(T, Len(v), n) - Len(v))
         IN  ReadBlocks(T, r.rest, v \o r.val, n)

\* m.insert(mi, item) of a map keeps the pair that is there.
Insert(m, item) == IF \E i \in DOMAIN m : m[i][1] = item[1] THEN m
                   ELSE LET before == SelectSeq(m, LAMBDA p : p[1] < item[1])
                        IN  before \o <<item>> \o SubSeq(m, Len(before) + 1, Len(m))

\* The sizes of containers are read into an unsigned int.
ReadSize(s) == LET n == ReadCompactSize(s) IN [n EXCEPT !.val = @ % B ^ 4]

Unserialize(T, s) ==
    CASE T.k = "int"    -> LET r == ReadData(s, T.n) IN [val |-> Value(r.data), rest |-> r.rest]
      [] T.k = "bool"   -> LET r == ReadData(s, 1) IN [val |-> r.data[1] # 0, rest |-> r.rest]
      [] T.k = "varint" -> ReadVarInt(s, T.n)
      [] T.k = "pair"   -> LET x == Unserialize(T.a, s)
                               y == Unserialize(T.b, x.rest)
                           IN  [val |-> <<x.val, y.val>>, rest |-> y.rest]
      [] T.k = "object" -> FoldLeft(LAMBDA z, U : LET x == Unserialize(U, z.rest) IN
                                        [val |-> Append(z.val, x.val), rest |-> x.rest],
                                    [val |-> <<>>, rest |-> s], T.of)
      [] T.k = "vector" -> LET n == ReadSize(s) IN ReadBlocks(T.of, n.rest, <<>>, n.val)
      [] T.k \in {"string", "set", "map"} ->
            LET n == ReadSize(s)
                r == ReadItems(Item(T), n.rest, n.val)
            IN  [r EXCEPT !.val = CASE T.k = "string" -> @
                                    [] T.k = "set"    -> Range(@)
                                    [] T.k = "map"    -> FoldLeft(Insert, <<>>, @)]

-----------------------------------------------------------------------------
(* Samples: sizes and numbers, short sequences of bytes, and values of types *)
(* that contain each other *)

Num(k) == [k |-> "int", n |-> k]
Pair   == [k |-> "pair", a |-> Num(1), b |-> Num(2)]
Byte   == 0 .. B - 1
Few    == {0, 1, B - 1}
Strings(k) == UNION {[1 .. i -> Few] : i \in 0 .. k}
Maps == {<<>>} \cup {<<<<i, x>>>> : i \in Few, x \in Few}
          \cup {<<<<0, x>>, <<1, y>>, <<B - 1, z>>>> : x, y, z \in Few}

\* Samples of objects: a type with a value of it.
Objects ==
    {<<Num(2), x>> : x \in {0, B - 1, B, B ^ 2 - 1}}
    \cup {<<[k |-> "string"], s>> : s \in Strings(3)}
    \cup {<<[k |-> "string"], [i \in 1 .. n |-> 1]>> : n \in {B - 4, B - 3, B ^ 2 - 1, B ^ 2}}
    \cup {<<[k |-> "vector", of |-> Num(2)], s>> : s \in Strings(5)}
    \cup {<<[k |-> "vector", of |-> Pair], s>> : s \in UNION {[1 .. i -> {<<0, 1>>, <<1, 0>>}] : i \in 0 .. 5}}
    \cup {<<[k |-> "set", of |-> Num(1)], s>> : s \in SUBSET Few}
    \cup {<<[k |-> "map", a |-> Num(1), b |-> Num(2)], m>> : m \in Maps}
    \cup {<<[k |-> "object", of |-> <<[k |-> "bool"], [k |-> "varint", n |-> 2],
                                      [k |-> "string"], Pair>>], <<f, x, s, p>>>> :
            f \in BOOLEAN, x \in {0, High - 1, High, B ^ 2 - 1}, s \in Strings(2),
            p \in {<<0, 0>>, <<1, B>>}}

\* The number that a[] encodes, by the formula of the comment on VARINT; the
\* sum goes over all bytes but the last.
Encoded(a) ==
    LET last == Len(a) IN
    FoldLeftDomain(LAMBDA v, i : IF i = last THEN v + (a[i] % High)
                                 ELSE v + High ^ (last - i) * ((a[i] % High) + 1), 0, a)

\* A sequence of bytes that is the encoding of one number.
Complete(a) == \A i \in DOMAIN a : a[i] < High <=> i = Len(a)

Init == sample = [k |-> "none"]
Pick == /\ sample.k = "none"
        /\ \/ \E n \in Sizes : sample' = [k |-> "size", of |-> n]
           \/ \E a \in UNION {[1 .. i -> Byte] : i \in 1 .. MaxBytes} :
                 Complete(a) /\ sample' = [k |-> "bytes", of |-> a]
           \/ \E o \in Objects : sample' = [k |-> "object", of |-> o]
Spec == Init /\ [][Pick]_sample

Trailer == <<B - 1, 0>>     \* bytes that follow the value in the stream

\* A size is read back as it was written, in as many bytes as said.
SizesExact ==
    sample.k = "size" =>
        LET n == sample.of
            w == WriteCompactSize(n)
        IN  /\ Len(w) = GetSizeOfCompactSize(n)
            /\ ReadCompactSize(w \o Trailer) = [val |-> n, rest |-> Trailer]

\* "Every integer has exactly one encoding", the one that the formula says, and
\* it fits the array of WriteVarInt.
VarIntsExact ==
    /\ sample.k = "size" /\ sample.of < B ^ VarBytes =>
         LET n == sample.of
             w == WriteVarInt(n)
         IN  /\ Len(w) = GetSizeOfVarInt(n) /\ Encoded(w) = n
             /\ Len(w) <= (VarBytes * BITS + BITS - 2) \div (BITS - 1)
             /\ ReadVarInt(w \o Trailer, VarBytes) = [val |-> n, rest |-> Trailer]
    /\ sample.k = "bytes" /\ Encoded(sample.of) < B ^ VarBytes =>
         LET r == ReadVarInt(sample.of, VarBytes)
         IN  r.val = Encoded(sample.of) /\ WriteVarInt(r.val) = sample.of

\* A value is read back as it was written, whatever follows it, and takes as many
\* bytes as GetSerializeSize says, however containers nest and vectors are split.
ValuesExact ==
    sample.k = "object" =>
        LET T == sample.of[1]
            v == sample.of[2]
            w == Serialize(T, v)
        IN  /\ Len(w) = GetSerializeSize(T, v)
            /\ Unserialize(T, w \o Trailer) = [val |-> v, rest |-> Trailer]
=============================================================================
