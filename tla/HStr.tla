-------------------------------- MODULE HStr --------------------------------
(***************************************************************************)
(* HStr (src/src/hstr.{h,cpp}): texts that are split, joined, trimmed,     *)
(* searched and replaced; and what is made of them, the names of files and *)
(* the lines of a configuration.  A text is a sequence of characters, a    *)
(* character a string of length one; positions count from one, and 0 is    *)
(* npos.                                                                   *)
(***************************************************************************)
EXTENDS Naturals, FiniteSets, Sequences, SequencesExt

CONSTANTS Cwd,          \* getcwd: an absolute path that does not end in "/"
          NameLen,      \* the longest path that is sampled
          MIN_CONTENT_LENGTH,   \* a configuration of no more characters is an error
          ConfLines, MaxLines   \* sampled lines, and how many a content has
TextAssumption == {NameLen, MIN_CONTENT_LENGTH, MaxLines} \subseteq Nat

VARIABLE sample

\* std::string::find from a position on; the empty key is found at once.
Find(s, key, from) ==
    LET at == {p \in from .. Len(s) + 1 - Len(key) : SubSeq(s, p, p + Len(key) - 1) = key}
    IN  IF at = {} THEN 0 ELSE CHOOSE p \in at : \A q \in at : p <= q

IsIn(s, key)        == Find(s, key, 1) # 0
IsBeginWith(s, key) == Find(s, key, 1) = 1

\* Split of a text and a key that are not empty: the test after the loop, of npos with
\* the last position, never fails, so that the rest is always a piece.
Split(s, key) ==
    LET from[beg \in 1 .. Len(s) + 1] ==
          LET pos == Find(s, key, beg) IN
          IF pos = 0 THEN <<SubSeq(s, beg, Len(s))>>
          ELSE <<SubSeq(s, beg, pos - 1)>> \o from[pos + Len(key)]
    IN  from[1]

RemoveRight(s, len) == IF len >= Len(s) THEN <<>> ELSE SubSeq(s, 1, Len(s) - len)
RemoveLeft(s, len)  == IF len > Len(s) THEN <<>> ELSE SubSeq(s, len + 1, Len(s))

\* V2Str puts l behind every text and takes one character off the end.
V2Str(strs, l) == LET res == FoldLeft(LAMBDA a, b : a \o b \o l, <<>>, strs)
                  IN  IF l = <<>> THEN res ELSE RemoveRight(res, 1)

s_tr_str == {" ", "\n", "\r", "\t"}

\* find_first_not_of and find_last_not_of a set of characters.
Others(s, cs) == {p \in DOMAIN s : s[p] \notin cs}
Ltrim(s, csz) == LET at == Others(s, s_tr_str \cup csz) IN
                 IF at = {} THEN <<>>
                 ELSE SubSeq(s, CHOOSE p \in at : \A q \in at : p <= q, Len(s))
Rtrim(s, csz) == LET at == Others(s, s_tr_str \cup csz) IN
                 IF at = {} THEN <<>>
                 ELSE SubSeq(s, 1, CHOOSE p \in at : \A q \in at : p >= q)
Trim(s, csz)  == Rtrim(Ltrim(s, csz), csz)

Digits == {"0", "1", "2", "3", "4", "5", "6", "7", "8", "9"}
IsAllDigit(s)        == Others(s, Digits) = {}
IsAllDigitAndDos(s)  == Others(s, Digits \cup {"."}) = {}

\* Replace, of the first place, and Remove; where the key is not found, or something
\* is empty, the text stays, and the call fails.
Replace(s, srcKey, dstKey) ==
    LET pos == Find(s, srcKey, 1) IN
    IF s = <<>> \/ srcKey = <<>> \/ dstKey = <<>> \/ pos = 0 THEN s
    ELSE SubSeq(s, 1, pos - 1) \o dstKey \o SubSeq(s, pos + Len(srcKey), Len(s))
RemoveKey(s, key) ==
    LET pos == Find(s, key, 1) IN
    IF s = <<>> \/ key = <<>> \/ pos = 0 THEN s
    ELSE SubSeq(s, 1, pos - 1) \o SubSeq(s, pos + Len(key), Len(s))

\* Replaces and Removes go on from the start until the call fails: Removes after no
\* more calls than there are characters, and Replaces too if the new text shares no
\* character with the key; if the new text has the key in it, it never ends.
Replaces(s, srcKey, dstKey) == FoldLeft(LAMBDA t, c : Replace(t, srcKey, dstKey), s, s)
Removes(s, key)             == FoldLeft(LAMBDA t, c : RemoveKey(t, key), s, s)

\* Counter goes on one character behind the last place.
Counter(s, key) ==
    LET from[pos \in 1 .. Len(s) + 1] ==
          LET p == Find(s, key, pos) IN
          IF p = 0 \/ p > Len(s) THEN 0 ELSE 1 + from[p + 1]
    IN  from[1]

-----------------------------------------------------------------------------
(* Samples: texts of up to five characters, and keys of one and two *)

Alphabet == {"a", "b", " "}
Texts(n) == UNION {[1 .. k -> Alphabet] : k \in 1 .. n}

Init == sample = [k |-> "none"]
Pick == /\ sample.k = "none"
        /\ \E s \in Texts(5), key \in Texts(2) : sample' = [k |-> "str", of |-> s, key |-> key]

Concat(a) == FoldLeft(LAMBDA x, y : x \o y, <<>>, a)

\* The pieces of a split text, joined by the key, are the text, none has the key in
\* it, and there is one more than there are keys one after the other; what V2Str
\* joins by one character, Split takes apart; of a key of one character, Counter
\* counts each.
SplitsExact(s, key) ==
    LET ps == Split(s, key) IN
    /\ Concat([i \in DOMAIN ps |-> IF i = 1 THEN ps[i] ELSE key \o ps[i]]) = s
    /\ \A i \in DOMAIN ps : ~IsIn(ps[i], key)
    /\ Len(key) = 1 => V2Str(ps, key) = s /\ Counter(s, key) = Len(ps) - 1
    /\ Counter(s, key) = Cardinality({p \in 1 .. Len(s) + 1 - Len(key) :
                                        SubSeq(s, p, p + Len(key) - 1) = key})

\* A trimmed text has nothing to trim at either end, and is the text without blanks
\* at its ends, whichever end is trimmed first.
TrimExact(s, cs) ==
    LET t == Trim(s, cs) IN
    /\ t = Ltrim(Rtrim(s, cs), cs) /\ Trim(t, cs) = t
    /\ t # <<>> => {t[1], t[Len(t)]} \cap (s_tr_str \cup cs) = {}
    /\ \E l \in 0 .. Len(s) : \E r \in 0 .. Len(s) - l :
         /\ t = SubSeq(s, l + 1, Len(s) - r)
         /\ \A p \in 1 .. Len(s) : p <= l \/ p > Len(s) - r => s[p] \in s_tr_str \cup cs

\* Where Replaces ends the key is gone, also where a replacement or a removal joined
\* two parts to a new key; nothing but keys went.
ReplacesExact(s, key) ==
    /\ ~IsIn(Replaces(s, key, <<"x">>), key) /\ ~IsIn(Removes(s, key), key)
    /\ (Len(s) - Len(Removes(s, key))) % Len(key) = 0
    /\ Concat(Split(s, key)) = Concat(Split(Replaces(s, key, <<"x">>), <<"x">>))
    /\ Len(key) = 1 => Removes(s, key) = SelectSeq(s, LAMBDA c : c # key[1])

\* All of these, of every sample.
StringsExact == sample.k = "str" =>
    /\ SplitsExact(sample.of, sample.key)
    /\ TrimExact(sample.of, {sample.key[1]}) /\ TrimExact(sample.of, {})
    /\ ReplacesExact(sample.of, sample.key)

-----------------------------------------------------------------------------
(* fsname (src/src/detail/fsname_detail.cpp) and the names of files and    *)
(* directories made of it (src/src/hfilename.cpp): paths that are joined   *)
(* and taken apart.  A path is a text.                                     *)

Root == "/"
Dot  == "."

IsRootBegin(path) == path # <<>> /\ path[1] = Root
IsRootEnd(path)   == path # <<>> /\ path[Len(path)] = Root
IsAbsolute(path)  == IsRootBegin(path)
IsJustOnlyFileName(path) == ~IsIn(path, <<Root>>)

\* strrchr: the last place of a character, 0 for none.
Last1(s, c) == LET at == {p \in DOMAIN s : s[p] = c} IN
               IF at = {} THEN 0 ELSE CHOOSE p \in at : \A q \in at : q <= p

\* fsname::Append.
AppendPath(name, new_path) ==
    LET dir  == IF name = <<>> THEN Cwd ELSE name
        left == IF IsRootEnd(dir) THEN RemoveRight(dir, 1) ELSE dir
        tail == IF IsRootBegin(new_path) THEN RemoveLeft(new_path, 1) ELSE new_path
    IN  IF new_path = <<>> THEN name ELSE left \o <<Root>> \o tail

\* realpath, of a path whose directories are all there and none of which is a link.
Step(dirs, d) == CASE d \in {<<>>, <<Dot>>} -> dirs
                   [] d = <<Dot, Dot>>      -> SubSeq(dirs, 1, Len(dirs) - 1)
                   [] OTHER                 -> Append(dirs, d)
realpath(path) ==
    LET dirs == FoldLeft(Step, <<>>, Split(Cwd \o <<Root>> \o path, <<Root>>))
    IN  IF dirs = <<>> THEN <<Root>>
        ELSE FoldLeft(LAMBDA p, d : p \o <<Root>> \o d, <<>>, dirs)

\* dirname, of a path without two "/" in a row.
dirname(path) ==
    LET p    == IF Len(path) > 1 /\ IsRootEnd(path) THEN RemoveRight(path, 1) ELSE path
        last == Last1(p, Root)
    IN  CASE last = 0 -> <<Dot>> [] last = 1 -> <<Root>> [] OTHER -> SubSeq(p, 1, last - 1)

SetAsAbsolute(path) ==
    IF IsAbsolute(path) THEN path
    ELSE IF IsJustOnlyFileName(path) THEN AppendPath(Cwd, path)
    ELSE realpath(path)

GetParentPath(path) ==
    LET res == SetAsAbsolute(path)
    IN  dirname(IF IsRootEnd(res) THEN RemoveRight(res, 1) ELSE res)

FileName(path) == SubSeq(path, Last1(path, Root) + 1, Len(path))
FileNameOnly(path) ==
    LET strFileName == FileName(path)
        pos         == Last1(strFileName, Dot)
    IN  IF pos = 0 THEN strFileName ELSE SubSeq(strFileName, 1, pos - 1)

\* The last "." is compared with the first "/", not with the last one.
GetFileExternName(path) ==
    LET po_pos   == Last1(path, Dot)
        root_pos == Find(path, <<Root>>, 1)
    IN  IF po_pos = 0 \/ po_pos < root_pos THEN <<>> ELSE SubSeq(path, po_pos + 1, Len(path))

-----------------------------------------------------------------------------
(* Samples: every path of a few characters, and every name of a file *)

Paths == {p \in UNION {[1 .. n -> {"a", Dot, Root}] : n \in 1 .. NameLen} :
            ~IsIn(p, <<Root, Root>>)}
PickName == /\ sample.k = "none"
            /\ \E dir \in Paths, path \in Paths :
                  sample' = [k |-> "name", dir |-> dir, path |-> path]

\* A path appended to a directory is found under it: its parts are those of the
\* directory and those of the path, no two "/" meet, and its file name and its
\* extension are those of the path.
JoinsExact(dir, path) ==
    LET joined == AppendPath(dir, path) IN
    /\ ~IsIn(joined, <<Root, Root>>)
    /\ IsAbsolute(joined) <=> IsAbsolute(dir)
    /\ SelectSeq(Split(joined, <<Root>>), LAMBDA d : d # <<>>)
         = SelectSeq(Split(dir, <<Root>>) \o Split(path, <<Root>>), LAMBDA d : d # <<>>)
    /\ IsIn(path, <<Dot>>) /\ ~IsIn(path, <<Root>>) =>
         /\ FileName(joined) = path
         /\ FileNameOnly(joined) \o <<Dot>> \o GetFileExternName(joined) = path

\* The parent of a path that was appended to a directory is that directory, and of
\* a path that is not absolute what it is of the absolute one; every absolute path
\* but the root is its file name appended to its parent, so that going to the
\* parent again and again ends at the root.
Bare(path) == IF Len(path) > 1 /\ IsRootEnd(path) THEN RemoveRight(path, 1) ELSE path
ParentsExact(dir, path) ==
    LET abs == SetAsAbsolute(dir)
        up  == GetParentPath(abs)
    IN  /\ IsAbsolute(abs)
        /\ IsAbsolute(dir) /\ ~IsIn(path, <<Root>>) =>
              GetParentPath(AppendPath(dir, path)) = Bare(dir)
        /\ abs # <<Root>> =>
              /\ GetParentPath(dir) = up /\ IsAbsolute(up)
              /\ AppendPath(up, FileName(Bare(abs))) = Bare(abs)

\* All of these, of every sample.
NamesExact == sample.k = "name" =>
    JoinsExact(sample.dir, sample.path) /\ ParentsExact(sample.dir, sample.path)

-----------------------------------------------------------------------------
(* HNormalConfig (src/src/hnormalconf.{h,cpp}) and the map of texts behind *)
(* it (src/src/hmstr.cpp): a file of lines "key = value" is read into a    *)
(* map, and a second file over the first.                                  *)

\* HMstr::SetValue, GetValue and Exists.
SetValue(conf, key, val) ==
    [x \in DOMAIN conf \cup {key} |-> IF x = key THEN val ELSE conf[x]]
Exists(conf, key)           == key \in DOMAIN conf
GetValue(conf, key, defVal) == IF Exists(conf, key) THEN conf[key] ELSE defVal

isNoteLine(l) == Len(l) < 3 \/ SubSeq(l, 1, 2) = <<";", ";">>

\* One line: the value is what stands between the first "=" and the second.
LoadLine(conf, l) ==
    LET vs == Split(l, <<"=">>) IN
    IF isNoteLine(l) \/ Len(vs) < 2 THEN conf
    ELSE SetValue(conf, Trim(vs[1], {}), Trim(vs[2], {}))

\* LoadConfig of what HFileStr read; the map keeps what it had.
LoadConfig(conf, content) ==
    IF Len(content) <= MIN_CONTENT_LENGTH THEN conf
    ELSE FoldLeft(LoadLine, conf, Split(content, <<"\n">>))

-----------------------------------------------------------------------------
(* Samples: a content of some of the lines is loaded, and then another one *)

Blank == [x \in {} |-> <<>>]       \* after the constructor and after Clear

Contents == UNION {[1 .. n -> ConfLines] : n \in 1 .. MaxLines}
PickConf == /\ sample.k = "none"
            /\ \E a \in Contents, l \in ConfLines :
                  sample' = [k |-> "conf", first |-> a, then |-> l]

\* By the places of the "=" in it: a line names a key, and says a value.
Equals(l)     == {p \in DOMAIN l : l[p] = "="}
Key(l)        == LET p == CHOOSE p \in Equals(l) : \A q \in Equals(l) : p <= q
                 IN  Trim(SubSeq(l, 1, p - 1), {})
Says(l, val)  == \E p \in Equals(l), e \in Equals(l) \cup {Len(l) + 1} :
                    /\ Cardinality({q \in Equals(l) : q < e}) = 1 /\ p < e
                    /\ Trim(SubSeq(l, p + 1, e - 1), {}) = val
NamesKey(l, key) == /\ Len(l) >= 3 /\ {l[1], l[2]} # {";"}
                    /\ Equals(l) # {} /\ Key(l) = key

\* A key has the value that the last line that names it says, over both files; a
\* file that is too short, a note and a line without "=" change nothing, and a key
\* that no line names is not there.
ConfExact == sample.k = "conf" =>
    LET A    == V2Str(sample.first, <<"\n">>)
        B    == sample.then
        all  == (IF Len(A) > MIN_CONTENT_LENGTH THEN sample.first ELSE <<>>)
                \o (IF Len(B) > MIN_CONTENT_LENGTH THEN <<B>> ELSE <<>>)
        conf == LoadConfig(LoadConfig(Blank, A), B)
        at(key) == {i \in DOMAIN all : NamesKey(all[i], key)}
    IN  /\ \A i \in DOMAIN all : Len(all[i]) >= 3 /\ Equals(all[i]) # {} =>
              (at(Key(all[i])) # {} <=> Exists(conf, Key(all[i])))
        /\ \A key \in DOMAIN conf : \E i \in at(key) :
              /\ \A j \in at(key) : j <= i
              /\ Says(all[i], GetValue(conf, key, <<"?">>))
=============================================================================
