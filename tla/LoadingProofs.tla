---------------------------- MODULE LoadingProofs ----------------------------
(***************************************************************************)
(* Proofs that a torrent is loaded as what its source says, for plain      *)
(* torrents, of any number of files, announces, keys and bytes, cut after  *)
(* any lexeme; and that the hash is of the bytes of info, for all torrents *)
(* in which the program can find info.                                     *)
(***************************************************************************)
EXTENDS StartupProofs

InfoKeys == {"pieces", "files", "piece length", "name", "md5sum", "length"}

NoKeyIn(lexemes) ==
  \A i \in DOMAIN lexemes : lexemes[i].type = "STR" => lexemes[i].str \notin InfoKeys \union Keys

(* A plain torrent: before the keys of info that the program knows are     *)
(* pairs of an unknown key and a string or a number; after them, in info   *)
(* and after it, is anything in which no string is a known key, as the     *)
(* reader loses its place there; and path is the last key of a file.       *)
Plain(t) ==
  /\ t.single \in BOOLEAN
  /\ t.files \in Seq([length: Nat, md5sum: STRING, path: Seq(STRING)]) /\ t.files # << >>
  /\ t.single => Len(t.files) = 1
  /\ t.first \in Seq(Lexeme) /\ Len(t.first) % 2 = 0
  /\ \A i \in DOMAIN t.first :
       /\ t.first[i].type \in {"STR", "INT"}
       /\ i % 2 = 1 => t.first[i].type = "STR" /\ t.first[i].str \notin InfoKeys
  /\ t.last \in Seq(Lexeme) /\ NoKeyIn(t.last)
  /\ t.after \in Seq(Lexeme) /\ NoKeyIn(t.after)
  /\ t.file_last = << >>
-----------------------------------------------------------------------------
(* Where the keys stand in the source of a torrent.                        *)
ListLexemes(t) ==
  When(t.announce_list # << >>,
       << Str("announce-list") >>
       \o List(FlattenSeq([i \in DOMAIN t.announce_list |-> List(Strs(t.announce_list[i]))])))
DateLexemes(t) == When(t.date # 0, << Str("creation date"), Num(t.date) >>)
FilesLexemes(t) ==
  IF t.single THEN SizeAndMd5(t.files[1]) ELSE << Str("files") >> \o List(FileDicts(t))

AtList(t)    == 1 + Len(Pair("announce", t.announce))
AtComment(t) == AtList(t) + Len(ListLexemes(t))
AtDate(t)    == AtComment(t) + Len(Pair("comment", t.comment))
AtInfo(t)    == AtDate(t) + Len(DateLexemes(t))
AtFirst(t)   == AtInfo(t) + 2
AtFiles(t)   == AtFirst(t) + Len(t.first)
AtName(t)    == AtFiles(t) + Len(FilesLexemes(t))
AtLast(t)    == AtName(t) + 6

FileOffset(t) ==
  LET o[k \in 0 .. Len(t.files)] ==
        IF k = 0 THEN 0 ELSE o[k - 1] + Len(FileDict(t, t.files[k]))
  IN  o
AtFile(t, i) == AtFiles(t) + 2 + FileOffset(t)[i - 1]
-----------------------------------------------------------------------------
(* The members of the torrent.                                             *)
Members(url, lists, comment, date, size, pieces, name, dir, files, sha1) ==
  [str           |-> [k \in {"announce", "comment"} |-> IF k = "announce" THEN url ELSE comment],
   creation_date |-> date,
   announce_list |-> lists,
   piece_size    |-> size,
   pieces        |-> pieces,
   dir_name      |-> name,
   dir_path      |-> dir,
   files         |-> files,
   info_sha1     |-> sha1]

Read(c, url, lists, comment, date) ==
  /\ reading = "process" /\ current_token = c
  /\ tf = Members(url, lists, comment, date, 0, 0, "", << >>, << >>, << >>)

TheList == FlattenSeq(torrent.announce_list)

ReadInfo(c, files, name, size) ==
  /\ current_token = c
  /\ tf = Members(torrent.announce, TheList, torrent.comment, torrent.date,
                  size, 0, name, << >>, files, << >>)

InfoFile(length, md5sum, path) == [path |-> path, md5sum |-> md5sum, size |-> length]

FilesTo(k) ==
  [i \in 1 .. k |-> InfoFile(torrent.files[i].length, torrent.files[i].md5sum, torrent.files[i].path)]

FilesRead ==
  IF torrent.single THEN << InfoFile(torrent.files[1].length, torrent.files[1].md5sum, << >>) >>
  ELSE FilesTo(Len(torrent.files))

Begun == << InfoFile(0, "", << >>) >>

TopPhase ==
  \/ Read(0, "", << >>, "", 0)
  \/ Read(1, "", << >>, "", 0)
  \/ Read(AtList(torrent), torrent.announce, << >>, "", 0)
  \/ Read(AtComment(torrent), torrent.announce, TheList, "", 0)
  \/ Read(AtDate(torrent), torrent.announce, TheList, torrent.comment, 0)
  \/ Read(AtInfo(torrent), torrent.announce, TheList, torrent.comment, torrent.date)

FirstPhase(m) ==
  /\ reading = "fill_info" /\ m \in 0 .. Len(torrent.first) /\ m % 2 = 0
  /\ ReadInfo(AtFirst(torrent) + m, Begun, "", 0)

SizePhase ==
  /\ reading = "fill_info" /\ torrent.single
  /\ ReadInfo(AtFiles(torrent) + 2, << InfoFile(torrent.files[1].length, "", << >>) >>, "", 0)

NextFilePhase(i) ==
  /\ i \in 1 .. (Len(torrent.files) + 1) /\ ~torrent.single
  /\ reading = IF i = 1 THEN "first_file" ELSE "next_file"
  /\ ReadInfo(AtFile(torrent, i), IF i = 1 THEN Begun ELSE FilesTo(i - 1), "", 0)

FilePhase(i) ==
  LET f == torrent.files[i]
  IN  /\ i \in 1 .. Len(torrent.files) /\ ~torrent.single
      /\ reading = "file"
      /\ \/ ReadInfo(AtFile(torrent, i) + 1, Append(FilesTo(i - 1), InfoFile(0, "", << >>)), "", 0)
         \/ ReadInfo(AtFile(torrent, i) + 3, Append(FilesTo(i - 1), InfoFile(f.length, "", << >>)), "", 0)
         \/ ReadInfo(AtFile(torrent, i) + 3 + Len(Pair("md5sum", f.md5sum)),
                     Append(FilesTo(i - 1), InfoFile(f.length, f.md5sum, << >>)), "", 0)
         \/ ReadInfo(AtFile(torrent, i + 1), FilesTo(i), "", 0)

NamePhase ==
  /\ reading = "fill_info"
  /\ \/ ReadInfo(AtName(torrent), FilesRead, "", 0)
     \/ ReadInfo(AtName(torrent) + 2, FilesRead, torrent.name, 0)
     \/ ReadInfo(AtName(torrent) + 4, FilesRead, torrent.name, torrent.piece_length)

OnTrack ==
  \/ TopPhase
  \/ \E m \in 0 .. Len(torrent.first) : FirstPhase(m)
  \/ SizePhase
  \/ \E i \in 1 .. (Len(torrent.files) + 1) : NextFilePhase(i)
  \/ \E i \in 1 .. Len(torrent.files) : FilePhase(i)
  \/ NamePhase

PiecesRead ==
  /\ reading = "fill_info" /\ current_token >= AtLast(torrent) /\ kept >= AtLast(torrent)
  /\ torrent.pieces % SHA1_PIECE_LENGTH = 0
  /\ tf = Members(torrent.announce, TheList, torrent.comment, torrent.date, torrent.piece_length,
                  torrent.pieces \div SHA1_PIECE_LENGTH, torrent.name, << >>, FilesRead, << >>)

InfoRead ==
  /\ reading \in {"process", "sha1", "offsets", "loaded"}
  /\ reading # "loaded" => current_token >= AtLast(torrent)
  /\ torrent.pieces % SHA1_PIECE_LENGTH = 0
  /\ tf = Members(torrent.announce, TheList, torrent.comment, torrent.date, torrent.piece_length,
                  torrent.pieces \div SHA1_PIECE_LENGTH, torrent.name,
                  IF Len(torrent.files) = 1 THEN << >> ELSE << torrent.name >>,
                  IF Len(torrent.files) = 1
                  THEN << [FilesRead[1] EXCEPT !.path = Append(@, torrent.name)] >>
                  ELSE FilesRead,
                  tf.info_sha1)

(* The source ended before the pieces were read.                           *)
Walking == {"process", "fill_info", "first_file", "next_file", "file", "sha1", "offsets"}

Past ==
  /\ reading \in Walking
  /\ current_token >= kept
  /\ "pieces" \in DOMAIN tf /\ tf.pieces = 0

LoadInv ==
  /\ reading \in Walking => parse(Source) # << >> /\ tokens = parse(Source)[1]
  /\ \/ reading = "parse" /\ current_token = 0
        /\ tf = Members("", << >>, "", 0, 0, 0, "", << >>, << >>, << >>)
     \/ OnTrack \/ Past \/ PiecesRead \/ InfoRead
     \/ reading \in {"refused", "crashed"}
-----------------------------------------------------------------------------
(* Sequences, of whatever elements.                                        *)
IsSeq(x) == \E S : x \in Seq(S)

LEMMA SeqFacts ==
  ASSUME NEW x, IsSeq(x)
  PROVE  Len(x) \in Nat /\ DOMAIN x = 1 .. Len(x) /\ x = [i \in 1 .. Len(x) |-> x[i]]
<1>1. PICK S : x \in Seq(S)
  BY DEF IsSeq
<1> QED
  BY <1>1

LEMMA SeqIn ==
  ASSUME NEW x, IsSeq(x), NEW T, \A i \in 1 .. Len(x) : x[i] \in T
  PROVE  x \in Seq(T)
<1>1. Len(x) \in Nat /\ x = [i \in 1 .. Len(x) |-> x[i]]
  BY SeqFacts
<1>2. x \in [1 .. Len(x) -> T]
  BY <1>1
<1> QED
  BY <1>1, <1>2

(* One after the other.                                                    *)
LEMMA Joined ==
  ASSUME NEW a, IsSeq(a), NEW b, IsSeq(b)
  PROVE  /\ IsSeq(a \o b) /\ Len(a \o b) = Len(a) + Len(b)
         /\ \A i \in 1 .. Len(a) : (a \o b)[i] = a[i]
         /\ \A i \in 1 .. Len(b) : (a \o b)[Len(a) + i] = b[i]
<1> DEFINE S == {a[i] : i \in 1 .. Len(a)} \union {b[i] : i \in 1 .. Len(b)}
<1>1. a \in Seq(S) /\ b \in Seq(S)
  <2>1. \A i \in 1 .. Len(a) : a[i] \in S
    OBVIOUS
  <2>2. \A i \in 1 .. Len(b) : b[i] \in S
    OBVIOUS
  <2> HIDE DEF S
  <2> QED
    BY <2>1, <2>2, SeqIn
<1> HIDE DEF S
<1>2. /\ a \o b \in Seq(S) /\ Len(a \o b) = Len(a) + Len(b)
      /\ Len(a) \in Nat /\ Len(b) \in Nat
      /\ \A i \in 1 .. (Len(a) + Len(b)) :
           (a \o b)[i] = IF i <= Len(a) THEN a[i] ELSE b[i - Len(a)]
  BY <1>1, ConcatProperties, LenProperties
<1>3. IsSeq(a \o b)
  BY <1>2 DEF IsSeq
<1>4. ASSUME NEW i \in 1 .. Len(a) PROVE (a \o b)[i] = a[i]
  <2>1. i \in 1 .. (Len(a) + Len(b)) /\ i <= Len(a)
    BY <1>2
  <2> QED
    BY <1>2, <2>1
<1>5. ASSUME NEW i \in 1 .. Len(b) PROVE (a \o b)[Len(a) + i] = b[i]
  <2>1. Len(a) + i \in 1 .. (Len(a) + Len(b)) /\ ~(Len(a) + i <= Len(a)) /\ Len(a) + i - Len(a) = i
    BY <1>2
  <2> DEFINE n == Len(a) + i
  <2> HIDE DEF n
  <2>2. n \in 1 .. (Len(a) + Len(b)) /\ ~(n <= Len(a)) /\ n - Len(a) = i
    BY <2>1 DEF n
  <2>3. (a \o b)[n] = b[i]
    BY <1>2, <2>2
  <2> QED
    BY <2>3 DEF n
<1> QED
  BY <1>2, <1>3, <1>4, <1>5

LEMMA ShortSeqs ==
  ASSUME NEW x, NEW y
  PROVE  /\ IsSeq(<< >>) /\ Len(<< >>) = 0
         /\ IsSeq(<< x >>) /\ Len(<< x >>) = 1
         /\ IsSeq(<< x, y >>) /\ Len(<< x, y >>) = 2
<1>1. << >> \in Seq({x, y}) /\ << x >> \in Seq({x, y}) /\ << x, y >> \in Seq({x, y})
  OBVIOUS
<1> QED
  BY <1>1, Zenon DEF IsSeq

LEMMA PlaceInside ==
  ASSUME NEW a \in Nat, NEW k \in Nat \ {0}, NEW b \in Nat, a + k <= b
  PROVE  a + k \in 1 .. b /\ \A n \in Nat : a + k <= b + n
OBVIOUS

(* Sequences made flat: where each of them is.                             *)
Lengths(ss) == [i \in 1 .. Len(ss) |-> Len(ss[i])]

LEMMA Flattened ==
  ASSUME NEW ss, IsSeq(ss), \A i \in 1 .. Len(ss) : IsSeq(ss[i]),
         NEW off, SumsOf(Lengths(ss), Len(ss), off)
  PROVE  /\ IsSeq(FlattenSeq(ss)) /\ Len(FlattenSeq(ss)) = off[Len(ss)]
         /\ \A i \in 1 .. Len(ss) : \A k \in 1 .. Len(ss[i]) : FlattenSeq(ss)[off[i - 1] + k] = ss[i][k]
<1> DEFINE N == Len(ss)
<1> DEFINE S == UNION {{ss[i][k] : k \in 1 .. Len(ss[i])} : i \in 1 .. N}
<1> DEFINE D == Seq(S)
<1>1. N \in Nat /\ \A i \in 1 .. N : Len(ss[i]) \in Nat
  BY SeqFacts
<1>2. \A i \in 1 .. N : ss[i] \in D
  <2>1. ASSUME NEW i \in 1 .. N, NEW k \in 1 .. Len(ss[i]) PROVE ss[i][k] \in S
    OBVIOUS
  <2> HIDE DEF S
  <2> QED
    BY <2>1, SeqIn
<1>3. ss \in Seq(D)
  <2> HIDE DEF D
  <2> QED
    BY <1>2, SeqIn
<1> HIDE DEF S
<1>4. PICK f \in [0 .. N -> D] : Flattens(f, ss)
  BY <1>3, Flattening
<1>5. f[0] = << >> /\ f[N] = FlattenSeq(ss) /\ \A i \in 1 .. N : f[i] = f[i - 1] \o ss[i]
  BY <1>4 DEF Flattens
<1>6. /\ off \in [0 .. N -> Nat] /\ off[0] = 0
      /\ \A i \in 1 .. N : off[i] = off[i - 1] + Len(ss[i])
  BY DEF SumsOf, Lengths
<1>7. \A i \in 0 .. N : IsSeq(f[i])
  BY <1>4 DEF IsSeq
<1> HIDE DEF N, D
<1>8. ASSUME NEW i \in 1 .. N
      PROVE  /\ i - 1 \in 0 .. N /\ Len(f[i - 1]) \in Nat /\ Len(f[i]) = Len(f[i - 1]) + Len(ss[i])
             /\ \A k \in 1 .. Len(f[i - 1]) : f[i][k] = f[i - 1][k]
             /\ \A k \in 1 .. Len(ss[i]) : f[i][Len(f[i - 1]) + k] = ss[i][k]
  <2>1. i - 1 \in 0 .. N
    BY <1>1
  <2>2. f[i] = f[i - 1] \o ss[i] /\ IsSeq(f[i - 1]) /\ IsSeq(ss[i])
    BY <1>5, <1>7, <2>1 DEF N
  <2> DEFINE a == f[i - 1]
  <2> DEFINE b == ss[i]
  <2>3. IsSeq(a) /\ IsSeq(b) /\ f[i] = a \o b
    BY <2>2
  <2> HIDE DEF a, b
  <2>4. /\ Len(a \o b) = Len(a) + Len(b)
        /\ \A k \in 1 .. Len(a) : (a \o b)[k] = a[k]
        /\ \A k \in 1 .. Len(b) : (a \o b)[Len(a) + k] = b[k]
    BY <2>3, Joined
  <2>5. Len(a) \in Nat
    BY <2>3, SeqFacts
  <2> QED
    BY <2>1, <2>3, <2>4, <2>5 DEF a, b
<1> DEFINE Good(i) ==
      /\ Len(f[i]) = off[i]
      /\ \A j \in 1 .. i : \A k \in 1 .. Len(ss[j]) : off[j - 1] + k <= off[i] /\ f[i][off[j - 1] + k] = ss[j][k]
<1> DEFINE B == {i \in 0 .. N : ~Good(i)}
<1>9. B = {}
  <2> SUFFICES ASSUME B # {} PROVE FALSE
    OBVIOUS
  <2>1. PICK i \in B : \A n \in B : i <= n
    <3>1. B \in SUBSET Nat
      BY <1>1
    <3> HIDE DEF B
    <3> QED
      BY <3>1, Least
  <2>2. i \in 0 .. N /\ ~Good(i)
    OBVIOUS
  <2>3. \A n \in 0 .. N : n < i => Good(n)
    BY <1>1, <2>1, <2>2
  <2> HIDE DEF B
  <2>4. CASE i = 0
    <3>1. Len(f[i]) = off[i]
      BY <1>5, <1>6, <2>4
    <3>2. \A j \in 1 .. i : FALSE
      BY <2>4
    <3> QED
      BY <2>2, <3>1, <3>2
  <2>5. CASE i # 0
    <3>1. i \in 1 .. N /\ i - 1 \in 0 .. N /\ i - 1 < i
      BY <1>1, <2>2, <2>5
    <3>2. Good(i - 1)
      BY <2>3, <3>1
    <3>3. off[i] = off[i - 1] + Len(ss[i]) /\ off[i] \in Nat /\ off[i - 1] \in Nat /\ Len(ss[i]) \in Nat
      BY <1>1, <1>6, <3>1
    <3>4. Len(f[i]) = off[i]
      BY <1>8, <3>1, <3>2, <3>3
    <3>5. ASSUME NEW j \in 1 .. i, NEW k \in 1 .. Len(ss[j])
          PROVE  off[j - 1] + k <= off[i] /\ f[i][off[j - 1] + k] = ss[j][k]
      <4>1. CASE j = i
        <5>1. off[i - 1] + k <= off[i]
          BY <3>3, <4>1
        <5>2. f[i][Len(f[i - 1]) + k] = ss[i][k]
          BY <1>8, <3>1, <4>1
        <5>3. Len(f[i - 1]) = off[i - 1]
          BY <3>2
        <5> QED
          BY <4>1, <5>1, <5>2, <5>3
      <4>2. CASE j # i
        <5>1. j \in 1 .. (i - 1) /\ j - 1 \in 0 .. N /\ j \in 1 .. N
          BY <1>1, <3>1, <4>2
        <5>2. off[j - 1] + k <= off[i - 1] /\ f[i - 1][off[j - 1] + k] = ss[j][k]
          BY <3>2, <5>1
        <5>3. off[j - 1] \in Nat /\ k \in Nat \ {0}
          <6>1. Len(ss[j]) \in Nat
            BY <1>1, <5>1
          <6> QED
            BY <1>6, <5>1, <6>1
        <5>4. off[j - 1] + k \in 1 .. Len(f[i - 1])
          <6>1. Len(f[i - 1]) = off[i - 1]
            BY <3>2
          <6>2. off[j - 1] + k <= off[i - 1] /\ off[i - 1] \in Nat
            BY <3>3, <5>2
          <6> QED
            BY <5>3, <6>1, <6>2, PlaceInside
        <5>5. f[i][off[j - 1] + k] = f[i - 1][off[j - 1] + k]
          BY <1>8, <3>1, <5>4
        <5>6. off[j - 1] + k <= off[i]
          <6>1. off[j - 1] + k <= off[i - 1]
            BY <5>2
          <6>2. off[i] = off[i - 1] + Len(ss[i]) /\ off[i - 1] \in Nat /\ Len(ss[i]) \in Nat
            BY <3>3
          <6> QED
            BY <5>3, <6>1, <6>2, PlaceInside
        <5> QED
          BY <5>2, <5>5, <5>6
      <4> QED
        BY <4>1, <4>2
    <3> QED
      BY <2>2, <3>4, <3>5
  <2> QED
    BY <2>4, <2>5
<1>10. N \in 0 .. N
  BY <1>1
<1>11. Good(N)
  BY <1>9, <1>10
<1> QED
  BY <1>5, <1>7, <1>10, <1>11 DEF N
-----------------------------------------------------------------------------
(* The lexeme that token c is of, and what stands in the source there.     *)
TheSource == Encode(torrent)
Lex(c)    == TheSource[c + 1]

Stands(c, x) ==
  /\ c \in Nat /\ c + Len(x) <= Len(TheSource)
  /\ \A k \in 1 .. Len(x) : TheSource[c + k] = x[k]

LEMMA StandsApart ==
  ASSUME NEW c, NEW a, IsSeq(a), NEW b, IsSeq(b), Stands(c, a \o b), Len(TheSource) \in Nat
  PROVE  Stands(c, a) /\ Stands(c + Len(a), b)
<1>1. Len(a) \in Nat /\ Len(b) \in Nat /\ c \in Nat
  BY SeqFacts DEF Stands
<1>2. /\ Len(a \o b) = Len(a) + Len(b)
      /\ \A i \in 1 .. Len(a) : (a \o b)[i] = a[i]
      /\ \A i \in 1 .. Len(b) : (a \o b)[Len(a) + i] = b[i]
  BY Joined
<1>3. ASSUME NEW k \in 1 .. Len(a) PROVE TheSource[c + k] = a[k]
  <2>1. k \in 1 .. Len(a \o b)
    BY <1>1, <1>2
  <2> QED
    BY <1>2, <2>1 DEF Stands
<1>4. ASSUME NEW k \in 1 .. Len(b) PROVE TheSource[c + Len(a) + k] = b[k]
  <2>1. Len(a) + k \in 1 .. Len(a \o b)
    BY <1>1, <1>2
  <2>2. TheSource[c + (Len(a) + k)] = b[k]
    BY <1>2, <2>1 DEF Stands
  <2>3. c + (Len(a) + k) = c + Len(a) + k
    BY <1>1
  <2> QED
    BY <2>2, <2>3
<1>5. c + Len(a) \in Nat /\ c + Len(a) <= Len(TheSource) /\ c + Len(a) + Len(b) <= Len(TheSource)
  BY <1>1, <1>2 DEF Stands
<1> QED
  BY <1>1, <1>3, <1>4, <1>5 DEF Stands

LEMMA OneStands ==
  ASSUME NEW c, NEW x, Stands(c, << x >>)
  PROVE  c \in Nat /\ Lex(c) = x /\ c < Len(TheSource)
BY DEF Stands, Lex

LEMMA TwoStand ==
  ASSUME NEW c, NEW x, NEW y, Stands(c, << x, y >>)
  PROVE  c \in Nat /\ Lex(c) = x /\ Lex(c + 1) = y /\ c + 1 < Len(TheSource)
BY DEF Stands, Lex

LEMMA SourceSeq == ASSUME ReadInv PROVE TheSource \in Seq(Lexeme) /\ IsSeq(TheSource) /\ Len(TheSource) \in Nat
<1>1. TheSource \in Seq(Lexeme)
  BY SourceCut DEF CutFrom, TheSource
<1>2. IsSeq(TheSource)
  BY <1>1, Zenon DEF IsSeq
<1> QED
  BY <1>1, <1>2, SeqFacts

LEMMA SourceStands == ASSUME ReadInv PROVE Stands(0, TheSource)
BY SourceSeq DEF Stands

(* The parts of a source are sequences.                                    *)
LEMMA PairSeq == ASSUME NEW k, NEW v PROVE IsSeq(Pair(k, v))
<1>1. IsSeq(<< >>) /\ IsSeq(<< Str(k), Str(v) >>)
  BY ShortSeqs
<1> QED
  BY <1>1, Zenon DEF Pair, When

LEMMA ListSeq == ASSUME NEW x, IsSeq(x) PROVE IsSeq(List(x)) /\ Len(List(x)) = Len(x) + 2
<1> DEFINE l == << Mark("l") >>
<1> DEFINE e == << Mark("e") >>
<1>1. IsSeq(l) /\ IsSeq(e) /\ Len(l) = 1 /\ Len(e) = 1 /\ Len(x) \in Nat
  BY ShortSeqs, SeqFacts
<1>2. List(x) = (l \o x) \o e
  BY DEF List
<1> HIDE DEF l, e
<1>3. IsSeq(l \o x) /\ Len(l \o x) = Len(l) + Len(x)
  BY <1>1, Joined
<1>4. IsSeq((l \o x) \o e) /\ Len((l \o x) \o e) = Len(l \o x) + Len(e)
  BY <1>1, <1>3, Joined
<1> QED
  BY <1>1, <1>2, <1>3, <1>4

LEMMA DictSeq ==
  ASSUME NEW x, IsSeq(x)
  PROVE  /\ IsSeq(Dict(x)) /\ Len(Dict(x)) = Len(x) + 2
         /\ IsSeq(<< Mark("d") >> \o x) /\ Len(<< Mark("d") >> \o x) = Len(x) + 1
<1> DEFINE d == << Mark("d") >>
<1> DEFINE e == << Mark("e") >>
<1>1. IsSeq(d) /\ IsSeq(e) /\ Len(d) = 1 /\ Len(e) = 1 /\ Len(x) \in Nat
  BY ShortSeqs, SeqFacts
<1>2. Dict(x) = (d \o x) \o e
  BY DEF Dict
<1> HIDE DEF d, e
<1>3. IsSeq(d \o x) /\ Len(d \o x) = Len(d) + Len(x)
  BY <1>1, Joined
<1>4. IsSeq((d \o x) \o e) /\ Len((d \o x) \o e) = Len(d \o x) + Len(e)
  BY <1>1, <1>3, Joined
<1>5. Len(Dict(x)) = Len(x) + 2 /\ Len(d \o x) = Len(x) + 1
  BY <1>1, <1>2, <1>3, <1>4
<1> QED
  BY <1>2, <1>3, <1>4, <1>5 DEF d

LEMMA StrsSeq == ASSUME NEW x, IsSeq(x) PROVE IsSeq(Strs(x)) /\ Len(Strs(x)) = Len(x)
<1>1. Len(x) \in Nat /\ Strs(x) = [i \in 1 .. Len(x) |-> Str(x[i])]
  BY SeqFacts DEF Strs
<1> DEFINE S == {Str(x[i]) : i \in 1 .. Len(x)}
<1>2. Strs(x) \in [1 .. Len(x) -> S]
  BY <1>1
<1> HIDE DEF S
<1>3. Strs(x) \in Seq(S) /\ Len(Strs(x)) = Len(x)
  BY <1>1, <1>2
<1> QED
  BY <1>3 DEF IsSeq

(* A list, where it stands.                                                *)
LEMMA ListStands ==
  ASSUME NEW c, NEW x, IsSeq(x), Stands(c, List(x)), Len(TheSource) \in Nat
  PROVE  /\ Stands(c, << Mark("l") >>) /\ Stands(c + 1, x)
         /\ Stands(c + 1 + Len(x), << Mark("e") >>)
<1> DEFINE l == << Mark("l") >>
<1> DEFINE e == << Mark("e") >>
<1>1. IsSeq(l) /\ IsSeq(e) /\ Len(l) = 1 /\ Len(x) \in Nat /\ c \in Nat
  BY ShortSeqs, SeqFacts DEF Stands
<1>2. List(x) = (l \o x) \o e
  BY DEF List
<1> HIDE DEF l, e
<1>3. IsSeq(l \o x) /\ Len(l \o x) = Len(l) + Len(x)
  BY <1>1, Joined
<1>4. Stands(c, l \o x) /\ Stands(c + Len(l \o x), e)
  <2>1. Stands(c, (l \o x) \o e)
    BY <1>2
  <2> QED
    BY <1>1, <1>3, <2>1, StandsApart
<1>5. Stands(c, l) /\ Stands(c + Len(l), x)
  BY <1>1, <1>4, StandsApart
<1>6. c + Len(l \o x) = c + 1 + Len(x)
  BY <1>1, <1>3
<1> QED
  BY <1>1, <1>4, <1>5, <1>6 DEF l, e

(* Three parts, where they stand.                                          *)
LEMMA ThreeParts ==
  ASSUME NEW x, IsSeq(x), NEW y, IsSeq(y), NEW z, IsSeq(z)
  PROVE  /\ IsSeq(x \o y \o z) /\ Len(x \o y \o z) = Len(x) + Len(y) + Len(z)
         /\ \A c : Stands(c, x \o y \o z) /\ Len(TheSource) \in Nat =>
              Stands(c, x) /\ Stands(c + Len(x), y) /\ Stands(c + Len(x) + Len(y), z)
<1>1. IsSeq(x \o y) /\ Len(x \o y) = Len(x) + Len(y)
  BY Joined
<1> DEFINE xy == x \o y
<1>2. IsSeq(xy \o z) /\ Len(xy \o z) = Len(xy) + Len(z)
  <2>1. IsSeq(xy)
    BY <1>1
  <2> HIDE DEF xy
  <2> QED
    BY <2>1, Joined
<1>3. Len(x) \in Nat /\ Len(y) \in Nat
  BY SeqFacts
<1>4. ASSUME NEW c, Stands(c, x \o y \o z), Len(TheSource) \in Nat
      PROVE  Stands(c, x) /\ Stands(c + Len(x), y) /\ Stands(c + Len(x) + Len(y), z)
  <2>1. Stands(c, xy) /\ Stands(c + Len(xy), z)
    <3>1. Stands(c, xy \o z) /\ IsSeq(xy)
      BY <1>1, <1>4
    <3> HIDE DEF xy
    <3> QED
      BY <1>4, <3>1, StandsApart
  <2>2. Stands(c, x) /\ Stands(c + Len(x), y)
    BY <1>4, <2>1, StandsApart
  <2>3. c + Len(xy) = c + Len(x) + Len(y)
    BY <1>1, <1>3, <2>2 DEF Stands
  <2> HIDE DEF xy
  <2> QED
    BY <2>1, <2>2, <2>3
<1>5. Len(x \o y \o z) = Len(x) + Len(y) + Len(z)
  BY <1>1, <1>2
<1> QED
  BY <1>2, <1>4, <1>5

LEMMA DictStands ==
  ASSUME NEW c, NEW x, IsSeq(x), Stands(c, Dict(x)), Len(TheSource) \in Nat
  PROVE  /\ Stands(c, << Mark("d") >>) /\ Stands(c + 1, x)
         /\ Stands(c + 1 + Len(x), << Mark("e") >>)
<1> DEFINE d == << Mark("d") >>
<1> DEFINE e == << Mark("e") >>
<1>1. IsSeq(d) /\ IsSeq(e) /\ Len(d) = 1
  BY ShortSeqs
<1>2. Dict(x) = d \o x \o e
  BY DEF Dict
<1> HIDE DEF d, e
<1>3. Stands(c, d) /\ Stands(c + Len(d), x) /\ Stands(c + Len(d) + Len(x), e)
  <2>1. Stands(c, d \o x \o e)
    BY <1>2
  <2> QED
    BY <1>1, <2>1, ThreeParts
<1> QED
  BY <1>1, <1>3 DEF d, e

(* The dictionary of a file.                                               *)
LEMMA SizeSeq ==
  ASSUME NEW f
  PROVE  /\ IsSeq(SizeAndMd5(f)) /\ Len(SizeAndMd5(f)) = 2 + Len(Pair("md5sum", f.md5sum))
         /\ Len(Pair("md5sum", f.md5sum)) \in Nat
         /\ \A c : Stands(c, SizeAndMd5(f)) /\ Len(TheSource) \in Nat =>
              /\ Stands(c, << Str("length"), Num(f.length) >>)
              /\ Stands(c + 2, Pair("md5sum", f.md5sum))
<1> DEFINE x == << Str("length"), Num(f.length) >>
<1> DEFINE y == Pair("md5sum", f.md5sum)
<1>1. IsSeq(x) /\ Len(x) = 2
  BY ShortSeqs
<1>2. IsSeq(y) /\ Len(y) \in Nat
  BY PairSeq, SeqFacts
<1>3. SizeAndMd5(f) = x \o y
  BY DEF SizeAndMd5
<1> HIDE DEF x, y
<1>4. IsSeq(x \o y) /\ Len(x \o y) = Len(x) + Len(y)
  BY <1>1, <1>2, Joined
<1>5. ASSUME NEW c, Stands(c, SizeAndMd5(f)), Len(TheSource) \in Nat
      PROVE  Stands(c, x) /\ Stands(c + 2, y)
  <2>1. Stands(c, x \o y)
    BY <1>3, <1>5
  <2>2. Stands(c, x) /\ Stands(c + Len(x), y)
    BY <1>1, <1>2, <1>5, <2>1, StandsApart
  <2> QED
    BY <1>1, <2>2
<1>6. Len(SizeAndMd5(f)) = 2 + Len(y)
  BY <1>1, <1>3, <1>4
<1> QED
  BY <1>2, <1>3, <1>4, <1>5, <1>6 DEF x, y

LEMMA FileDictSeq ==
  ASSUME NEW t, NEW f, IsSeq(f.path), t.file_last = << >>
  PROVE  LET md5 == Len(Pair("md5sum", f.md5sum))
         IN  /\ IsSeq(FileDict(t, f)) /\ Len(FileDict(t, f)) = 7 + md5 + Len(f.path)
             /\ md5 \in Nat /\ Len(f.path) \in Nat
             /\ \A c : Stands(c, FileDict(t, f)) /\ Len(TheSource) \in Nat =>
                  /\ Stands(c, << Mark("d") >>)
                  /\ Stands(c + 1, << Str("length"), Num(f.length) >>)
                  /\ Stands(c + 3, Pair("md5sum", f.md5sum))
                  /\ Stands(c + 3 + md5, << Str("path") >>)
                  /\ Stands(c + 4 + md5, List(Strs(f.path)))
                  /\ Stands(c + 6 + md5 + Len(f.path), << Mark("e") >>)
<1> DEFINE x == SizeAndMd5(f)
<1> DEFINE y == << Str("path") >>
<1> DEFINE z == List(Strs(f.path))
<1> DEFINE o == t.file_last
<1> DEFINE md5 == Len(Pair("md5sum", f.md5sum))
<1> DEFINE n == Len(f.path)
<1>1. IsSeq(x) /\ Len(x) = 2 + md5 /\ md5 \in Nat
  BY SizeSeq
<1>2. IsSeq(y) /\ Len(y) = 1 /\ IsSeq(o) /\ Len(o) = 0
  BY ShortSeqs
<1>3. IsSeq(z) /\ Len(z) = n + 2 /\ n \in Nat
  BY ListSeq, StrsSeq, SeqFacts
<1>4. FileDict(t, f) = Dict((x \o y \o z) \o o)
  BY DEF FileDict
<1> HIDE DEF x, y, z, o, md5, n
<1>5. IsSeq(x \o y \o z) /\ Len(x \o y \o z) = Len(x) + Len(y) + Len(z)
  <2>1. IsSeq(x) /\ IsSeq(y) /\ IsSeq(z)
    BY <1>1, <1>2, <1>3
  <2> QED
    BY <2>1, ThreeParts
<1> DEFINE p == x \o y \o z
<1>6. IsSeq(p) /\ Len(p) = 5 + md5 + n
  BY <1>1, <1>2, <1>3, <1>5
<1> DEFINE b == p \o o
<1>7. IsSeq(b) /\ Len(b) = 5 + md5 + n
  <2> HIDE DEF p
  <2>1. IsSeq(p \o o) /\ Len(p \o o) = Len(p) + Len(o)
    BY <1>2, <1>6, Joined
  <2> QED
    BY <1>1, <1>2, <1>3, <1>6, <2>1
<1>8. FileDict(t, f) = Dict(b)
  BY <1>4
<1> HIDE DEF b
<1>9. IsSeq(FileDict(t, f)) /\ Len(FileDict(t, f)) = 7 + md5 + n
  <2>1. IsSeq(Dict(b)) /\ Len(Dict(b)) = Len(b) + 2
    BY <1>7, DictSeq
  <2>2. Len(b) + 2 = 7 + md5 + n
    BY <1>1, <1>3, <1>7
  <2> QED
    BY <1>8, <2>1, <2>2
<1>10. ASSUME NEW c, Stands(c, FileDict(t, f)), Len(TheSource) \in Nat
      PROVE  /\ Stands(c, << Mark("d") >>)
             /\ Stands(c + 1, << Str("length"), Num(f.length) >>)
             /\ Stands(c + 3, Pair("md5sum", f.md5sum))
             /\ Stands(c + 3 + md5, y) /\ Stands(c + 4 + md5, z)
             /\ Stands(c + 6 + md5 + n, << Mark("e") >>)
  <2>1. /\ Stands(c, << Mark("d") >>) /\ Stands(c + 1, b)
        /\ Stands(c + 1 + Len(b), << Mark("e") >>)
    BY <1>7, <1>8, <1>10, DictStands
  <2>2. Stands(c + 1, p)
    <3>1. Stands(c + 1, p \o o)
      BY <2>1 DEF b
    <3> HIDE DEF p
    <3> QED
      BY <1>2, <1>6, <1>10, <3>1, StandsApart
  <2>3. /\ Stands(c + 1, x) /\ Stands(c + 1 + Len(x), y)
        /\ Stands(c + 1 + Len(x) + Len(y), z)
    BY <1>1, <1>2, <1>3, <1>10, <2>2, ThreeParts
  <2>4. Stands(c + 1, << Str("length"), Num(f.length) >>) /\ Stands(c + 1 + 2, Pair("md5sum", f.md5sum))
    BY <1>10, <2>3, SizeSeq DEF x
  <2>5. c \in Nat
    BY <1>10 DEF Stands
  <2>6. /\ c + 1 + 2 = c + 3 /\ c + 1 + Len(x) = c + 3 + md5
        /\ c + 1 + Len(x) + Len(y) = c + 4 + md5 /\ c + 1 + Len(b) = c + 6 + md5 + n
    BY <1>1, <1>2, <1>3, <1>7, <2>5
  <2> QED
    BY <2>1, <2>3, <2>4, <2>6
<1> QED
  BY <1>1, <1>3, <1>9, <1>10 DEF y, z, md5, n

LEMMA FlatSeq ==
  ASSUME NEW ss, IsSeq(ss), \A i \in 1 .. Len(ss) : IsSeq(ss[i])
  PROVE  IsSeq(FlattenSeq(ss))
<1>1. Len(ss) \in Nat /\ \A i \in 1 .. Len(ss) : Len(ss[i]) \in Nat
  BY SeqFacts
<1>2. Lengths(ss) \in [1 .. Len(ss) -> Nat]
  BY <1>1 DEF Lengths
<1>3. PICK off : SumsOf(Lengths(ss), Len(ss), off)
  BY <1>1, <1>2, SumsExist
<1> QED
  BY <1>3, Flattened

LEMMA MappedSeq ==
  ASSUME NEW x, IsSeq(x), NEW y, y = [i \in DOMAIN x |-> y[i]]
  PROVE  IsSeq(y) /\ Len(y) = Len(x)
<1>1. Len(x) \in Nat /\ DOMAIN x = 1 .. Len(x)
  BY SeqFacts
<1> DEFINE S == {y[i] : i \in 1 .. Len(x)}
<1>2. y \in [1 .. Len(x) -> S]
  BY <1>1
<1> HIDE DEF S
<1>3. y \in Seq(S) /\ Len(y) = Len(x)
  BY <1>1, <1>2
<1> QED
  BY <1>3 DEF IsSeq

(* The types of what a torrent says.                                       *)
LEMMA AnnounceTypes ==
  ASSUME ReadInv
  PROVE  /\ torrent.announce_list \in Seq(Seq(STRING)) /\ IsSeq(torrent.announce_list)
         /\ \A i \in 1 .. Len(torrent.announce_list) :
              torrent.announce_list[i] \in Seq(STRING) /\ IsSeq(torrent.announce_list[i])
<1> DEFINE A == Seq(STRING)
<1>1. torrent.announce_list \in Seq(A)
  BY SourcesAssumption DEF ReadInv
<1>2. \A x \in A : IsSeq(x)
  BY DEF IsSeq
<1> HIDE DEF A
<1>3. IsSeq(torrent.announce_list)
  BY <1>1, Zenon DEF IsSeq
<1>4. \A i \in 1 .. Len(torrent.announce_list) : torrent.announce_list[i] \in A
  BY <1>1
<1> QED
  BY <1>1, <1>2, <1>3, <1>4 DEF A

LEMMA PlainTypes ==
  ASSUME ReadInv, Plain(torrent)
  PROVE  /\ IsSeq(torrent.files) /\ Len(torrent.files) \in Nat \ {0}
         /\ \A i \in 1 .. Len(torrent.files) :
              torrent.files[i].path \in Seq(STRING) /\ IsSeq(torrent.files[i].path)
         /\ IsSeq(torrent.first) /\ IsSeq(torrent.last) /\ IsSeq(torrent.after)
<1> DEFINE A == Seq(STRING)
<1> DEFINE F == [length: Nat, md5sum: STRING, path: A]
<1> DEFINE L == Lexeme
<1>1. torrent.files \in Seq(F) /\ torrent.files # << >>
  BY DEF Plain
<1>2. torrent.first \in Seq(L) /\ torrent.last \in Seq(L) /\ torrent.after \in Seq(L)
  BY DEF Plain
<1>3. \A f \in F : f.path \in A
  <2> HIDE DEF A
  <2> QED
    OBVIOUS
<1>4. \A x \in A : IsSeq(x)
  BY DEF IsSeq
<1> HIDE DEF A, F, L
<1>5. IsSeq(torrent.files) /\ IsSeq(torrent.first) /\ IsSeq(torrent.last) /\ IsSeq(torrent.after)
  BY <1>1, <1>2, Zenon DEF IsSeq
<1>6. Len(torrent.files) \in Nat /\ \A i \in 1 .. Len(torrent.files) : torrent.files[i] \in F
  BY <1>1
<1>7. Len(torrent.files) # 0
  BY <1>1, EmptySeq
<1> QED
  BY <1>3, <1>4, <1>5, <1>6, <1>7 DEF A

FileDictsOf(t) == [i \in DOMAIN t.files |-> FileDict(t, t.files[i])]

LEMMA FileDictsSeq ==
  ASSUME ReadInv, Plain(torrent)
  PROVE  LET ss == FileDictsOf(torrent)
         IN  /\ IsSeq(ss) /\ Len(ss) = Len(torrent.files) /\ \A i \in 1 .. Len(ss) : IsSeq(ss[i])
             /\ \A i \in 1 .. Len(ss) : ss[i] = FileDict(torrent, torrent.files[i])
             /\ FileDicts(torrent) = FlattenSeq(ss) /\ IsSeq(FlattenSeq(ss))
<1> DEFINE ss == FileDictsOf(torrent)
<1>1. IsSeq(torrent.files) /\ \A i \in 1 .. Len(torrent.files) : IsSeq(torrent.files[i].path)
  BY PlainTypes
<1>2. DOMAIN torrent.files = 1 .. Len(torrent.files)
  BY <1>1, SeqFacts
<1>3. ss = [i \in DOMAIN torrent.files |-> ss[i]]
      /\ \A i \in 1 .. Len(torrent.files) : ss[i] = FileDict(torrent, torrent.files[i])
  BY <1>2 DEF FileDictsOf
<1>4. FileDicts(torrent) = FlattenSeq(ss)
  BY DEF FileDicts, FileDictsOf
<1> HIDE DEF ss
<1>5. IsSeq(ss) /\ Len(ss) = Len(torrent.files)
  BY <1>1, <1>3, MappedSeq
<1>6. \A i \in 1 .. Len(torrent.files) : IsSeq(FileDict(torrent, torrent.files[i]))
  <2>1. torrent.file_last = << >>
    BY DEF Plain
  <2> QED
    BY <1>1, <2>1, FileDictSeq
<1>7. \A i \in 1 .. Len(ss) : IsSeq(ss[i])
  BY <1>3, <1>5, <1>6
<1>8. IsSeq(FlattenSeq(ss))
  BY <1>5, <1>7, FlatSeq
<1> QED
  BY <1>3, <1>4, <1>5, <1>7, <1>8 DEF ss

AnnounceLists(t) == [i \in DOMAIN t.announce_list |-> List(Strs(t.announce_list[i]))]

LEMMA AnnounceListsSeq ==
  ASSUME ReadInv
  PROVE  LET ss == AnnounceLists(torrent)
         IN  /\ IsSeq(ss) /\ Len(ss) = Len(torrent.announce_list) /\ IsSeq(FlattenSeq(ss))
             /\ \A i \in 1 .. Len(ss) : IsSeq(ss[i]) /\ ss[i] = List(Strs(torrent.announce_list[i]))
<1> DEFINE ss == AnnounceLists(torrent)
<1> DEFINE lists == torrent.announce_list
<1>1. IsSeq(lists) /\ \A i \in 1 .. Len(lists) : IsSeq(lists[i])
  BY AnnounceTypes
<1>2. DOMAIN lists = 1 .. Len(lists)
  BY <1>1, SeqFacts
<1>3. ss = [i \in DOMAIN lists |-> ss[i]] /\ \A i \in 1 .. Len(lists) : ss[i] = List(Strs(lists[i]))
  BY <1>2 DEF AnnounceLists
<1> HIDE DEF ss, lists
<1>4. IsSeq(ss) /\ Len(ss) = Len(lists)
  BY <1>1, <1>3, MappedSeq
<1>5. \A i \in 1 .. Len(lists) : IsSeq(List(Strs(lists[i])))
  BY <1>1, StrsSeq, ListSeq
<1>6. \A i \in 1 .. Len(ss) : IsSeq(ss[i])
  BY <1>3, <1>4, <1>5
<1>7. IsSeq(FlattenSeq(ss))
  BY <1>4, <1>6, FlatSeq
<1> QED
  BY <1>3, <1>4, <1>6, <1>7 DEF ss, lists

LEMMA TopSeqs ==
  ASSUME ReadInv
  PROVE  IsSeq(ListLexemes(torrent)) /\ IsSeq(DateLexemes(torrent))
<1>1. IsSeq(<< >>)
  BY ShortSeqs
<1>2. IsSeq(ListLexemes(torrent))
  <2> DEFINE k == << Str("announce-list") >>
  <2> DEFINE l == FlattenSeq(AnnounceLists(torrent))
  <2>1. ListLexemes(torrent) = << >> \/ ListLexemes(torrent) = k \o List(l)
    BY Zenon DEF ListLexemes, When, AnnounceLists
  <2>2. IsSeq(k)
    BY ShortSeqs
  <2>3. IsSeq(l)
    BY AnnounceListsSeq
  <2> HIDE DEF k, l
  <2>4. IsSeq(List(l))
    BY <2>3, ListSeq
  <2>5. IsSeq(k \o List(l))
    BY <2>2, <2>4, Joined
  <2> QED
    BY <1>1, <2>1, <2>5
<1>3. IsSeq(DateLexemes(torrent))
  <2>1. IsSeq(<< Str("creation date"), Num(torrent.date) >>)
    BY ShortSeqs
  <2> QED
    BY <1>1, <2>1, Zenon DEF DateLexemes, When
<1> QED
  BY <1>2, <1>3

LEMMA FilesSeq == ASSUME ReadInv, Plain(torrent) PROVE IsSeq(FilesLexemes(torrent))
<1> DEFINE k == << Str("files") >>
<1> DEFINE l == FileDicts(torrent)
<1>1. FilesLexemes(torrent) = SizeAndMd5(torrent.files[1]) \/ FilesLexemes(torrent) = k \o List(l)
  BY Zenon DEF FilesLexemes
<1>2. IsSeq(k)
  BY ShortSeqs
<1>3. IsSeq(l)
  BY FileDictsSeq
<1> HIDE DEF k, l
<1>4. IsSeq(List(l))
  BY <1>3, ListSeq
<1>5. IsSeq(k \o List(l))
  BY <1>2, <1>4, Joined
<1>6. IsSeq(SizeAndMd5(torrent.files[1]))
  BY SizeSeq
<1> QED
  BY <1>1, <1>5, <1>6

InfoValues(t) ==
  << Str("name"), Str(t.name), Str("piece length"), Num(t.piece_length),
     Str("pieces"), Bytes("hashes", t.pieces) >>

(* Before info, where its dictionary begins, in it, and after it.          *)
LEMMA BeforeInfoStands ==
  ASSUME ReadInv
  PROVE  /\ IsSeq(BeforeInfo(torrent)) /\ Len(BeforeInfo(torrent)) = AtInfo(torrent) + 1
         /\ AtList(torrent) \in Nat /\ AtComment(torrent) \in Nat /\ AtDate(torrent) \in Nat
         /\ AtInfo(torrent) \in Nat
         /\ Stands(0, BeforeInfo(torrent)) =>
              /\ Stands(0, << Mark("d") >>)
              /\ Stands(1, Pair("announce", torrent.announce))
              /\ Stands(AtList(torrent), ListLexemes(torrent))
              /\ Stands(AtComment(torrent), Pair("comment", torrent.comment))
              /\ Stands(AtDate(torrent), DateLexemes(torrent))
              /\ Stands(AtInfo(torrent), << Str("info") >>)
<1> DEFINE t == torrent
<1> DEFINE d == << Mark("d") >>
<1> DEFINE a == Pair("announce", t.announce)
<1> DEFINE l == ListLexemes(t)
<1> DEFINE c == Pair("comment", t.comment)
<1> DEFINE e == DateLexemes(t)
<1> DEFINE i == << Str("info") >>
<1>1. IsSeq(d) /\ IsSeq(a) /\ IsSeq(l) /\ IsSeq(c) /\ IsSeq(e) /\ IsSeq(i)
  BY ShortSeqs, PairSeq, TopSeqs
<1>2. Len(d) = 1 /\ Len(i) = 1
  BY ShortSeqs
<1>3. BeforeInfo(t) = ((d \o a \o l) \o c \o e) \o i
  BY DEF BeforeInfo, ListLexemes, DateLexemes
<1>4. /\ AtList(t) = 1 + Len(a) /\ AtComment(t) = AtList(t) + Len(l)
      /\ AtDate(t) = AtComment(t) + Len(c) /\ AtInfo(t) = AtDate(t) + Len(e)
  BY DEF AtList, AtComment, AtDate, AtInfo
<1>5. Len(TheSource) \in Nat
  BY SourceSeq
<1> HIDE DEF t, d, a, l, c, e, i
<1>6. Len(a) \in Nat /\ Len(l) \in Nat /\ Len(c) \in Nat /\ Len(e) \in Nat
  BY <1>1, SeqFacts
<1> DEFINE x == d \o a \o l
<1>7. IsSeq(x) /\ Len(x) = Len(d) + Len(a) + Len(l)
  BY <1>1, ThreeParts
<1>8. Stands(0, x) => Stands(0, d) /\ Stands(0 + Len(d), a) /\ Stands(0 + Len(d) + Len(a), l)
  BY <1>1, <1>5, ThreeParts
<1> HIDE DEF x
<1> DEFINE y == x \o c \o e
<1>9. IsSeq(y) /\ Len(y) = Len(x) + Len(c) + Len(e)
  BY <1>1, <1>7, ThreeParts
<1>10. Stands(0, y) => Stands(0, x) /\ Stands(0 + Len(x), c) /\ Stands(0 + Len(x) + Len(c), e)
  BY <1>1, <1>5, <1>7, ThreeParts
<1> HIDE DEF y
<1>11. IsSeq(y \o i) /\ Len(y \o i) = Len(y) + Len(i)
  BY <1>1, <1>9, Joined
<1>12. Stands(0, y \o i) => Stands(0, y) /\ Stands(0 + Len(y), i)
  BY <1>1, <1>5, <1>9, StandsApart
<1>13. BeforeInfo(t) = y \o i
  BY <1>3 DEF x, y
<1>14. AtList(t) \in Nat /\ AtComment(t) \in Nat /\ AtDate(t) \in Nat /\ AtInfo(t) \in Nat
  BY <1>4, <1>6
<1>15. /\ 0 + Len(d) = 1 /\ 0 + Len(d) + Len(a) = AtList(t)
       /\ 0 + Len(x) = AtComment(t) /\ 0 + Len(x) + Len(c) = AtDate(t)
       /\ 0 + Len(y) = AtInfo(t) /\ Len(y) + Len(i) = AtInfo(t) + 1
  BY <1>2, <1>4, <1>6, <1>7, <1>9
<1>16. Stands(0, BeforeInfo(t)) =>
         /\ Stands(0, d) /\ Stands(1, a) /\ Stands(AtList(t), l)
         /\ Stands(AtComment(t), c) /\ Stands(AtDate(t), e) /\ Stands(AtInfo(t), i)
  <2> SUFFICES ASSUME Stands(0, BeforeInfo(t))
               PROVE  /\ Stands(0, d) /\ Stands(1, a) /\ Stands(AtList(t), l)
                      /\ Stands(AtComment(t), c) /\ Stands(AtDate(t), e) /\ Stands(AtInfo(t), i)
    OBVIOUS
  <2>1. Stands(0, y) /\ Stands(AtInfo(t), i)
    BY <1>12, <1>13, <1>15
  <2>2. Stands(0, x) /\ Stands(AtComment(t), c) /\ Stands(AtDate(t), e)
    BY <1>10, <1>15, <2>1
  <2>3. Stands(0, d) /\ Stands(1, a) /\ Stands(AtList(t), l)
    BY <1>8, <1>15, <2>2
  <2> QED
    BY <2>1, <2>2, <2>3
<1> QED
  BY <1>11, <1>13, <1>14, <1>15, <1>16 DEF t, d, a, l, c, e, i

LEMMA InfoStands ==
  ASSUME ReadInv, Plain(torrent)
  PROVE  /\ IsSeq(InfoDict(torrent))
         /\ Len(InfoDict(torrent)) = AtLast(torrent) - AtInfo(torrent) + Len(torrent.last)
         /\ AtFirst(torrent) \in Nat /\ AtFiles(torrent) \in Nat /\ AtName(torrent) \in Nat
         /\ AtLast(torrent) \in Nat /\ Len(torrent.last) \in Nat /\ Len(torrent.first) \in Nat
         /\ Stands(AtInfo(torrent) + 1, InfoDict(torrent)) =>
              /\ Stands(AtInfo(torrent) + 1, << Mark("d") >>)
              /\ Stands(AtFirst(torrent), torrent.first)
              /\ Stands(AtFiles(torrent), FilesLexemes(torrent))
              /\ Stands(AtName(torrent), InfoValues(torrent))
              /\ Stands(AtLast(torrent), torrent.last)
              /\ Stands(AtLast(torrent) + Len(torrent.last), << Mark("e") >>)
<1> DEFINE t == torrent
<1> DEFINE a == t.first
<1> DEFINE f == FilesLexemes(t)
<1> DEFINE v == InfoValues(t)
<1> DEFINE l == t.last
<1> DEFINE d == << Mark("d") >>
<1> DEFINE e == << Mark("e") >>
<1> DEFINE c == AtInfo(t) + 1
<1>1. IsSeq(a) /\ IsSeq(f) /\ IsSeq(l)
  BY PlainTypes, FilesSeq
<1>2. IsSeq(v) /\ Len(v) = 6
  <2>1. \A p, q, r, s, u, w : << p, q, r, s, u, w >> \in Seq({p, q, r, s, u, w})
                              /\ Len(<< p, q, r, s, u, w >>) = 6
    OBVIOUS
  <2> QED
    BY <2>1, Zenon DEF IsSeq, InfoValues
<1>3. InfoDict(t) = Dict((a \o f \o v) \o l)
  BY DEF InfoDict, FilesLexemes, InfoValues
<1>4. /\ AtFirst(t) = c + 1 /\ AtFiles(t) = AtFirst(t) + Len(a)
      /\ AtName(t) = AtFiles(t) + Len(f) /\ AtLast(t) = AtName(t) + 6
  <2>1. AtInfo(t) \in Nat
    BY BeforeInfoStands
  <2> QED
    BY <2>1 DEF AtFirst, AtFiles, AtName, AtLast
<1>5. c \in Nat /\ AtInfo(t) \in Nat /\ c = AtInfo(t) + 1
  BY BeforeInfoStands
<1>6. Len(TheSource) \in Nat
  BY SourceSeq
<1> HIDE DEF t, a, f, v, l, d, e, c
<1>7. Len(a) \in Nat /\ Len(f) \in Nat /\ Len(l) \in Nat
  BY <1>1, SeqFacts
<1> DEFINE x == a \o f \o v
<1>8. IsSeq(x) /\ Len(x) = Len(a) + Len(f) + Len(v)
  <2>1. IsSeq(v)
    BY <1>2
  <2> QED
    BY <1>1, <2>1, ThreeParts
<1>9. Stands(c + 1, x) =>
        Stands(c + 1, a) /\ Stands(c + 1 + Len(a), f) /\ Stands(c + 1 + Len(a) + Len(f), v)
  BY <1>1, <1>2, <1>6, ThreeParts
<1> HIDE DEF x
<1> DEFINE y == x \o l
<1>10. IsSeq(y) /\ Len(y) = Len(x) + Len(l)
  BY <1>1, <1>8, Joined
<1>11. Stands(c + 1, y) => Stands(c + 1, x) /\ Stands(c + 1 + Len(x), l)
  BY <1>1, <1>6, <1>8, StandsApart
<1>12. InfoDict(t) = Dict(y)
  BY <1>3 DEF x, y
<1> HIDE DEF y
<1>13. IsSeq(Dict(y)) /\ Len(Dict(y)) = Len(y) + 2
  BY <1>10, DictSeq
<1>14. Stands(c, Dict(y)) => Stands(c, d) /\ Stands(c + 1, y) /\ Stands(c + 1 + Len(y), e)
  BY <1>6, <1>10, DictStands DEF d, e
<1>15. /\ AtFirst(t) \in Nat /\ AtFiles(t) \in Nat /\ AtName(t) \in Nat /\ AtLast(t) \in Nat
       /\ c + 1 = AtFirst(t) /\ c + 1 + Len(a) = AtFiles(t) /\ c + 1 + Len(a) + Len(f) = AtName(t)
       /\ c + 1 + Len(x) = AtLast(t) /\ c + 1 + Len(y) = AtLast(t) + Len(l)
       /\ Len(y) + 2 = AtLast(t) - AtInfo(t) + Len(l)
  <2> DEFINE p == AtInfo(t)
  <2>1. p \in Nat /\ c = p + 1
    BY <1>5
  <2> HIDE DEF p
  <2>2. /\ AtFirst(t) \in Nat /\ AtFiles(t) \in Nat /\ AtName(t) \in Nat /\ AtLast(t) \in Nat
        /\ c + 1 = AtFirst(t) /\ c + 1 + Len(a) = AtFiles(t) /\ c + 1 + Len(a) + Len(f) = AtName(t)
    BY <1>4, <1>7, <2>1
  <2>3. Len(x) = Len(a) + Len(f) + 6
    BY <1>2, <1>8
  <2>4. AtLast(t) = p + 2 + Len(a) + Len(f) + 6
    BY <1>4, <1>7, <2>1
  <2>5. /\ c + 1 + Len(x) = AtLast(t) /\ c + 1 + Len(y) = AtLast(t) + Len(l)
        /\ Len(y) + 2 = AtLast(t) - p + Len(l)
    BY <1>7, <1>10, <2>1, <2>3, <2>4
  <2> QED
    BY <2>2, <2>5 DEF p
<1>16. Stands(c, InfoDict(t)) =>
         /\ Stands(c, d) /\ Stands(AtFirst(t), a) /\ Stands(AtFiles(t), f) /\ Stands(AtName(t), v)
         /\ Stands(AtLast(t), l) /\ Stands(AtLast(t) + Len(l), e)
  <2> SUFFICES ASSUME Stands(c, InfoDict(t))
               PROVE  /\ Stands(c, d) /\ Stands(AtFirst(t), a) /\ Stands(AtFiles(t), f)
                      /\ Stands(AtName(t), v) /\ Stands(AtLast(t), l) /\ Stands(AtLast(t) + Len(l), e)
    OBVIOUS
  <2>1. Stands(c, d) /\ Stands(c + 1, y) /\ Stands(AtLast(t) + Len(l), e)
    BY <1>12, <1>14, <1>15
  <2>2. Stands(c + 1, x) /\ Stands(AtLast(t), l)
    BY <1>11, <1>15, <2>1
  <2>3. Stands(AtFirst(t), a) /\ Stands(AtFiles(t), f) /\ Stands(AtName(t), v)
    BY <1>9, <1>15, <2>2
  <2> QED
    BY <2>1, <2>2, <2>3
<1>17. IsSeq(InfoDict(t)) /\ Len(InfoDict(t)) = AtLast(t) - AtInfo(t) + Len(l)
  BY <1>12, <1>13, <1>15
<1> QED
  BY <1>7, <1>15, <1>16, <1>17 DEF t, a, f, v, l, d, e, c

LEMMA Landmarks ==
  ASSUME ReadInv, Plain(torrent)
  PROVE  /\ Stands(0, BeforeInfo(torrent))
         /\ Stands(AtInfo(torrent) + 1, InfoDict(torrent))
         /\ Stands(AtLast(torrent) + Len(torrent.last) + 1, torrent.after)
         /\ Stands(AtLast(torrent) + Len(torrent.last) + 1 + Len(torrent.after), << Mark("e") >>)
         /\ Len(TheSource) = AtLast(torrent) + Len(torrent.last) + Len(torrent.after) + 2
<1> DEFINE b == BeforeInfo(torrent)
<1> DEFINE i == InfoDict(torrent)
<1> DEFINE a == torrent.after
<1> DEFINE e == << Mark("e") >>
<1> DEFINE n == Len(torrent.last)
<1> DEFINE p == AtInfo(torrent)
<1> DEFINE q == AtLast(torrent)
<1>1. TheSource = (b \o i \o a) \o e
  BY DEF TheSource, Encode
<1>2. IsSeq(b) /\ IsSeq(i) /\ IsSeq(a) /\ IsSeq(e)
  BY BeforeInfoStands, InfoStands, PlainTypes, ShortSeqs
<1>3. Len(b) = p + 1 /\ p \in Nat
  BY BeforeInfoStands
<1>4. Len(i) = q - p + n /\ q \in Nat /\ n \in Nat
  BY InfoStands
<1>5. Len(e) = 1
  BY ShortSeqs
<1>6. Stands(0, TheSource) /\ Len(TheSource) \in Nat
  BY SourceStands, SourceSeq
<1> HIDE DEF b, i, a, e, n, p, q
<1>7. Len(a) \in Nat
  BY <1>2, SeqFacts
<1> DEFINE x == b \o i \o a
<1>8. IsSeq(x) /\ Len(x) = Len(b) + Len(i) + Len(a)
  BY <1>2, ThreeParts
<1>9. Stands(0, x) => Stands(0, b) /\ Stands(0 + Len(b), i) /\ Stands(0 + Len(b) + Len(i), a)
  BY <1>2, <1>6, ThreeParts
<1>10. TheSource = x \o e
  BY <1>1
<1> HIDE DEF x
<1>11. Stands(0, x \o e) => Stands(0, x) /\ Stands(0 + Len(x), e)
  BY <1>2, <1>6, <1>8, StandsApart
<1>12. Len(x \o e) = Len(x) + Len(e)
  BY <1>2, <1>8, Joined
<1>13. /\ 0 + Len(b) = p + 1 /\ 0 + Len(b) + Len(i) = q + n + 1
       /\ 0 + Len(x) = q + n + 1 + Len(a) /\ Len(x) + Len(e) = q + n + Len(a) + 2
  BY <1>3, <1>4, <1>5, <1>7, <1>8
<1>14. Stands(0, x) /\ Stands(q + n + 1 + Len(a), e)
  BY <1>6, <1>10, <1>11, <1>13
<1>15. Stands(0, b) /\ Stands(p + 1, i) /\ Stands(q + n + 1, a)
  BY <1>9, <1>13, <1>14
<1> QED
  BY <1>10, <1>12, <1>13, <1>14, <1>15 DEF b, i, a, e, n, p, q

(* From the end of info on, no string is a key.                            *)
LEMMA NoKeyAfter ==
  ASSUME ReadInv, Plain(torrent), NEW c \in Nat, AtLast(torrent) <= c, c < Len(TheSource),
         Lex(c).type = "STR"
  PROVE  Lex(c).str \notin InfoKeys \union Keys
<1> DEFINE l == torrent.last
<1> DEFINE a == torrent.after
<1> DEFINE p == AtLast(torrent)
<1>1. IsSeq(l) /\ IsSeq(a)
  BY PlainTypes
<1>2. Len(l) \in Nat /\ DOMAIN l = 1 .. Len(l) /\ Len(a) \in Nat /\ DOMAIN a = 1 .. Len(a)
  BY <1>1, SeqFacts
<1>3. p \in Nat /\ Stands(AtInfo(torrent) + 1, InfoDict(torrent))
  BY InfoStands, Landmarks
<1>4. Stands(p, l) /\ Stands(p + Len(l), << Mark("e") >>)
  BY <1>3, InfoStands
<1>5. Stands(p + Len(l) + 1, a) /\ Stands(p + Len(l) + 1 + Len(a), << Mark("e") >>)
      /\ Len(TheSource) = p + Len(l) + Len(a) + 2
  BY Landmarks
<1>6. Mark("e").type # "STR"
  BY DEF Mark
<1>7. NoKeyIn(l) /\ NoKeyIn(a)
  BY DEF Plain
<1> DEFINE q == p + Len(l)
<1>8. Lex(q) = Mark("e") /\ Lex(q + 1 + Len(a)) = Mark("e")
  BY <1>4, <1>5, OneStands
<1> HIDE DEF l, a, p
<1>9. \/ c + 1 - p \in 1 .. Len(l) \/ c = q
      \/ c - q \in 1 .. Len(a) \/ c = q + 1 + Len(a)
  <2>1. p \in Nat /\ Len(l) \in Nat /\ Len(a) \in Nat /\ p <= c /\ c < p + Len(l) + Len(a) + 2
    BY <1>2, <1>3, <1>5 DEF p
  <2> QED
    BY <2>1
<1>10. CASE c + 1 - p \in 1 .. Len(l)
  <2>1. TheSource[p + (c + 1 - p)] = l[c + 1 - p]
    BY <1>4, <1>10 DEF Stands
  <2>2. p + (c + 1 - p) = c + 1
    BY <1>3
  <2>3. Lex(c) = l[c + 1 - p]
    BY <2>1, <2>2 DEF Lex
  <2> QED
    BY <1>2, <1>7, <1>10, <2>3 DEF NoKeyIn
<1>11. CASE c - q \in 1 .. Len(a)
  <2>1. TheSource[q + 1 + (c - q)] = a[c - q]
    BY <1>5, <1>11 DEF Stands
  <2>2. q + 1 + (c - q) = c + 1
    BY <1>2, <1>3
  <2>3. Lex(c) = a[c - q]
    BY <2>1, <2>2 DEF Lex
  <2> QED
    BY <1>2, <1>7, <1>11, <2>3 DEF NoKeyIn
<1>12. CASE c = q \/ c = q + 1 + Len(a)
  BY <1>6, <1>8, <1>12
<1> QED
  BY <1>9, <1>10, <1>11, <1>12

(* The single file's keys.                                                 *)
LEMMA SingleStands ==
  ASSUME ReadInv, Plain(torrent), torrent.single
  PROVE  LET f == torrent.files[1]
             md5 == Len(Pair("md5sum", f.md5sum))
         IN  /\ Stands(AtFiles(torrent), << Str("length"), Num(f.length) >>)
             /\ Stands(AtFiles(torrent) + 2, Pair("md5sum", f.md5sum))
             /\ md5 \in Nat /\ AtName(torrent) = AtFiles(torrent) + 2 + md5
<1>1. Stands(AtFiles(torrent), FilesLexemes(torrent)) /\ AtFiles(torrent) \in Nat
  BY InfoStands, Landmarks
<1>2. FilesLexemes(torrent) = SizeAndMd5(torrent.files[1])
  BY DEF FilesLexemes
<1> DEFINE md5 == Len(Pair("md5sum", torrent.files[1].md5sum))
<1>3. Len(SizeAndMd5(torrent.files[1])) = 2 + md5 /\ md5 \in Nat
  BY SizeSeq
<1>4. Len(TheSource) \in Nat
  BY SourceSeq
<1>5. AtName(torrent) = AtFiles(torrent) + 2 + md5
  <2> DEFINE n == Len(SizeAndMd5(torrent.files[1]))
  <2>1. AtName(torrent) = AtFiles(torrent) + n /\ n = 2 + md5
    BY <1>2, <1>3 DEF AtName
  <2> HIDE DEF md5, n
  <2> QED
    BY <1>1, <1>3, <2>1
<1> QED
  BY <1>1, <1>2, <1>3, <1>4, <1>5, SizeSeq

(* The files' dictionaries.                                                *)
LEMMA FilesStand ==
  ASSUME ReadInv, Plain(torrent), ~torrent.single
  PROVE  LET n == Len(torrent.files)
         IN  /\ Stands(AtFiles(torrent), << Str("files") >>)
             /\ Stands(AtFiles(torrent) + 1, << Mark("l") >>)
             /\ AtFile(torrent, 1) = AtFiles(torrent) + 2
             /\ \A i \in 1 .. (n + 1) : AtFile(torrent, i) \in Nat
             /\ \A i \in 1 .. n :
                  /\ Stands(AtFile(torrent, i), FileDict(torrent, torrent.files[i]))
                  /\ AtFile(torrent, i + 1) = AtFile(torrent, i) + Len(FileDict(torrent, torrent.files[i]))
             /\ Stands(AtFile(torrent, n + 1), << Mark("e") >>)
             /\ AtName(torrent) = AtFile(torrent, n + 1) + 1
<1> DEFINE p == AtFiles(torrent)
<1> DEFINE n == Len(torrent.files)
<1> DEFINE ss == FileDictsOf(torrent)
<1> DEFINE k == << Str("files") >>
<1> DEFINE x == FlattenSeq(ss)
<1> DEFINE o == FileOffset(torrent)
<1>1. Stands(p, FilesLexemes(torrent)) /\ p \in Nat
  BY InfoStands, Landmarks
<1>2. FilesLexemes(torrent) = k \o List(FileDicts(torrent))
  BY DEF FilesLexemes
<1>3. /\ IsSeq(ss) /\ Len(ss) = n /\ \A i \in 1 .. Len(ss) : IsSeq(ss[i])
      /\ \A i \in 1 .. Len(ss) : ss[i] = FileDict(torrent, torrent.files[i])
      /\ FileDicts(torrent) = x /\ IsSeq(x)
  BY FileDictsSeq
<1>4. n \in Nat \ {0}
  BY PlainTypes
<1>5. IsSeq(k) /\ Len(k) = 1
  BY ShortSeqs
<1>6. Len(TheSource) \in Nat
  BY SourceSeq
<1>7. o = [j \in 0 .. n |-> IF j = 0 THEN 0 ELSE o[j - 1] + Len(FileDict(torrent, torrent.files[j]))]
  <2> DEFINE w == Lengths(ss)
  <2>1. \A i \in 1 .. n : Len(ss[i]) \in Nat
    BY <1>3, SeqFacts
  <2>2. w \in [1 .. n -> Nat]
    BY <1>3, <2>1 DEF Lengths
  <2>3. PICK s : SumsOf(w, n, s)
    <3> HIDE DEF w, n
    <3> QED
      BY <1>4, <2>2, SumsExist
  <2>4. \A i \in 1 .. n : w[i] = Len(FileDict(torrent, torrent.files[i]))
    BY <1>3 DEF Lengths
  <2>5. s = [j \in 0 .. n |-> s[j]] /\ s[0] = 0 /\ \A i \in 1 .. n : s[i] = s[i - 1] + w[i]
    BY <2>3 DEF SumsOf
  <2>6. s = [j \in 0 .. n |-> IF j = 0 THEN 0 ELSE s[j - 1] + Len(FileDict(torrent, torrent.files[j]))]
    <3>1. ASSUME NEW j \in 0 .. n
          PROVE  s[j] = IF j = 0 THEN 0 ELSE s[j - 1] + Len(FileDict(torrent, torrent.files[j]))
      <4>1. CASE j = 0
        BY <2>5, <4>1
      <4>2. CASE j # 0
        <5>1. j \in 1 .. n
          BY <1>4, <4>2
        <5>2. s[j] = s[j - 1] + w[j] /\ w[j] = Len(FileDict(torrent, torrent.files[j]))
          BY <2>4, <2>5, <5>1
        <5> HIDE DEF w
        <5> QED
          BY <4>2, <5>2
      <4> QED
        BY <4>1, <4>2
    <3> QED
      BY <2>5, <3>1
  <2> QED
    BY <2>6, Zenon DEF FileOffset
<1>8. SumsOf(Lengths(ss), n, o)
  <2> DEFINE w == Lengths(ss)
  <2>1. \A i \in 1 .. n : Len(ss[i]) \in Nat
    BY <1>3, SeqFacts
  <2>2. w \in [1 .. n -> Nat] /\ \A i \in 1 .. n : w[i] = Len(FileDict(torrent, torrent.files[i]))
    BY <1>3, <2>1 DEF Lengths
  <2>3. o = [j \in 0 .. n |-> IF j = 0 THEN 0 ELSE o[j - 1] + w[j]]
    <3>1. \A j \in 0 .. n : j # 0 => j \in 1 .. n
      BY <1>4
    <3> HIDE DEF w, o
    <3>2. \A j \in 0 .. n : o[j] = IF j = 0 THEN 0 ELSE o[j - 1] + w[j]
      BY <1>7, <2>2, <3>1
    <3>3. o = [j \in 0 .. n |-> o[j]]
      BY <1>7
    <3> QED
      BY <3>2, <3>3
  <2> HIDE DEF w, o
  <2> QED
    BY <1>4, <2>2, <2>3, SumsUnique DEF w
<1>9. /\ Len(x) = o[n]
      /\ \A i \in 1 .. n : \A j \in 1 .. Len(ss[i]) : x[o[i - 1] + j] = ss[i][j]
  <2> HIDE DEF o
  <2> QED
    BY <1>3, <1>8, Flattened
<1>10. /\ o[0] = 0 /\ \A i \in 0 .. n : o[i] \in Nat
       /\ \A i \in 1 .. n : o[i] = o[i - 1] + Len(ss[i])
  BY <1>3, <1>8 DEF SumsOf, Lengths
<1>11. Stands(p, k) /\ Stands(p + 1, List(x))
  <2> HIDE DEF k, x, p
  <2>1. IsSeq(List(x))
    BY <1>3, ListSeq
  <2>2. Stands(p, k \o List(x))
    BY <1>1, <1>2, <1>3
  <2>3. Stands(p, k) /\ Stands(p + Len(k), List(x))
    BY <1>5, <1>6, <2>1, <2>2, StandsApart
  <2> QED
    BY <1>5, <2>3
<1>12. /\ Stands(p + 1, << Mark("l") >>) /\ Stands(p + 1 + 1, x)
       /\ Stands(p + 1 + 1 + Len(x), << Mark("e") >>)
  <2> HIDE DEF x, p
  <2> QED
    BY <1>3, <1>6, <1>11, ListStands
<1>13. AtName(torrent) = p + (1 + (Len(x) + 2))
  <2> HIDE DEF k, x
  <2>1. IsSeq(List(x)) /\ Len(List(x)) = Len(x) + 2
    BY <1>3, ListSeq
  <2>2. Len(k \o List(x)) = Len(k) + Len(List(x))
    BY <1>5, <2>1, Joined
  <2> QED
    BY <1>2, <1>3, <1>5, <2>1, <2>2 DEF AtName
<1>14. \A i \in 1 .. (n + 1) : AtFile(torrent, i) = p + 2 + o[i - 1] /\ i - 1 \in 0 .. n
  BY <1>4 DEF AtFile
<1> HIDE DEF p, n, k, x, o, ss
<1>15. \A i \in 1 .. (n + 1) : AtFile(torrent, i) \in Nat
  BY <1>1, <1>10, <1>14
<1>16. AtFile(torrent, 1) = p + 2
  <2>1. 1 \in 1 .. (n + 1) /\ 1 - 1 = 0
    BY <1>4
  <2>2. AtFile(torrent, 1) = p + 2 + o[0]
    BY <1>14, <2>1
  <2> QED
    BY <1>1, <1>10, <2>2
<1>17. ASSUME NEW i \in 1 .. n
       PROVE  /\ Stands(AtFile(torrent, i), ss[i])
              /\ AtFile(torrent, i + 1) = AtFile(torrent, i) + Len(ss[i])
  <2> DEFINE c == AtFile(torrent, i)
  <2>1. i \in 1 .. (n + 1) /\ i + 1 \in 1 .. (n + 1) /\ (i + 1) - 1 = i /\ i - 1 \in 0 .. n /\ i \in 0 .. n
    BY <1>4
  <2>2. c = p + 2 + o[i - 1] /\ AtFile(torrent, i + 1) = p + 2 + o[i]
    BY <1>14, <2>1
  <2>3. /\ o[i] = o[i - 1] + Len(ss[i]) /\ o[i - 1] \in Nat /\ o[i] \in Nat
        /\ Len(ss[i]) \in Nat
    <3>1. IsSeq(ss[i])
      BY <1>3
    <3> QED
      BY <1>10, <2>1, <3>1, SeqFacts
  <2>7. o[i] <= o[n]
    <3> DEFINE w == Lengths(ss)
    <3>1. w \in [1 .. n -> Nat]
      <4>1. \A j \in 1 .. n : Len(ss[j]) \in Nat
        BY <1>3, SeqFacts
      <4> QED
        BY <1>3, <4>1 DEF Lengths
    <3>2. SumsOf(w, n, o) /\ i \in 0 .. n /\ n \in 0 .. n /\ i <= n /\ n \in Nat
      BY <1>4, <1>8
    <3> HIDE DEF w
    <3> QED
      BY <3>1, <3>2, SumsGrow
  <2>4. \A j \in 1 .. Len(ss[i]) : o[i - 1] + j \in 1 .. Len(x)
    <3>1. o[n] \in Nat
      BY <1>4, <1>10
    <3> QED
      BY <1>9, <2>3, <2>7, <3>1
  <2>5. Stands(c, ss[i])
    <3>1. ASSUME NEW j \in 1 .. Len(ss[i]) PROVE TheSource[c + j] = ss[i][j]
      <4>1. x[o[i - 1] + j] = ss[i][j] /\ o[i - 1] + j \in 1 .. Len(x)
        BY <1>9, <2>4
      <4>2. TheSource[p + 1 + 1 + (o[i - 1] + j)] = ss[i][j]
        BY <1>12, <4>1 DEF Stands
      <4>3. p + 1 + 1 + (o[i - 1] + j) = c + j
        BY <1>1, <2>2, <2>3
      <4> QED
        BY <4>2, <4>3
    <3>2. c \in Nat /\ c + Len(ss[i]) <= Len(TheSource)
      <4>1. p + 1 + 1 + Len(x) <= Len(TheSource) /\ Len(x) \in Nat
        <5>1. Len(x) \in Nat
          BY <1>3, SeqFacts
        <5> QED
          BY <1>12, <5>1 DEF Stands
      <4>2. o[i - 1] + Len(ss[i]) <= Len(x)
        BY <1>9, <2>3, <2>7, <1>4, <1>10
      <4>3. Len(TheSource) \in Int
        BY <1>6
      <4> HIDE DEF c
      <4>4. c \in Nat
        BY <1>1, <2>2, <2>3
      <4>5. c + Len(ss[i]) = p + 1 + 1 + (o[i - 1] + Len(ss[i]))
        BY <1>1, <2>2, <2>3
      <4> DEFINE m == o[i - 1] + Len(ss[i])
      <4>6. m \in Nat /\ m <= Len(x) /\ c + Len(ss[i]) = p + 1 + 1 + m
        BY <2>3, <4>2, <4>5
      <4> HIDE DEF m
      <4>7. p + 1 + 1 + m <= Len(TheSource)
        BY <1>1, <4>1, <4>3, <4>6
      <4> QED
        BY <4>4, <4>6, <4>7
    <3> HIDE DEF c
    <3> QED
      BY <3>1, <3>2 DEF Stands
  <2>6. AtFile(torrent, i + 1) = c + Len(ss[i])
    BY <1>1, <2>2, <2>3
  <2> QED
    BY <2>5, <2>6
<1>18. AtFile(torrent, n + 1) = p + 1 + 1 + Len(x) /\ AtName(torrent) = AtFile(torrent, n + 1) + 1
  <2>1. n + 1 \in 1 .. (n + 1) /\ (n + 1) - 1 = n /\ o[n] \in Nat
    BY <1>4, <1>10
  <2>2. AtFile(torrent, n + 1) = p + 2 + o[n]
    BY <1>14, <2>1
  <2>3. p \in Nat /\ Len(x) = o[n] /\ AtName(torrent) = p + 3 + Len(x)
    BY <1>1, <1>9, <1>13, <2>1
  <2> QED
    BY <2>1, <2>2, <2>3
<1>19. \A i \in 1 .. n : ss[i] = FileDict(torrent, torrent.files[i])
  BY <1>3
<1> QED
  BY <1>11, <1>12, <1>15, <1>16, <1>17, <1>18, <1>19 DEF p, n, k
-----------------------------------------------------------------------------
(* What a lexeme that is parsed leaves: a token and the open structs.      *)
Spelled(lexeme, open, next, token) ==
  \/ /\ lexeme.type \in {"INT", "STR"} /\ next = open
     /\ token.type = lexeme.type /\ token.str = lexeme.str
     /\ token.number = lexeme.number /\ token.length = lexeme.length
  \/ /\ lexeme.type \in {"l", "d"} /\ next = << lexeme.type >> \o open
     /\ token.type = IF lexeme.type = "l" THEN "LIST_START" ELSE "DICT_START"
  \/ /\ lexeme.type = "e" /\ open # << >> /\ next = Tail(open)
     /\ token.type = IF Head(open) = "l" THEN "LIST_END" ELSE "DICT_END"

(* Where that token begins, and the next lexeme.                           *)
Placed(lexeme, offset, next, token) ==
  /\ next = offset + lexeme.size
  /\ token.start = CASE lexeme.type = "INT" -> offset + 1
                     [] lexeme.type = "STR" -> offset + lexeme.size - lexeme.length
                     [] OTHER               -> offset

Told(lexeme, s, t, token) ==
  Spelled(lexeme, s.open, t.open, token) /\ Placed(lexeme, s.offset, t.offset, token)

LEMMA OneLexeme ==
  ASSUME NEW s \in ParseState, NEW lexeme \in Lexeme, ~After(lexeme)[s].threw
  PROVE  LET t == After(lexeme)[s]
         IN  \E token \in TokenSet :
               /\ ~s.threw /\ t.read = Append(s.read, token)
               /\ Told(lexeme, s, t, token)
<1>1. s.offset \in Nat /\ s.open \in Seq({"l", "d"}) /\ s.threw \in BOOLEAN
  BY DEF ParseState
<1>2. CASE ~s.threw /\ lexeme.type \in {"INT", "STR"}
  <2> DEFINE token == Value(lexeme, s.offset)
  <2>1. After(lexeme)[s] = Reads(s, lexeme, token, s.open)
    BY <1>2 DEF After
  <2>2. token \in TokenSet
    BY <1>1, <1>2, ValueType
  <2>3. After(lexeme)[s].read = Append(s.read, token) /\ After(lexeme)[s].open = s.open
    BY <2>1 DEF Reads
  <2>4. /\ token.type = lexeme.type /\ token.str = lexeme.str
        /\ token.number = lexeme.number /\ token.length = lexeme.length
    BY DEF Value
  <2>5. After(lexeme)[s].offset = s.offset + lexeme.size
    BY <2>1 DEF Reads
  <2>6. token.start = IF lexeme.type = "INT" THEN s.offset + 1 ELSE s.offset + lexeme.size - lexeme.length
    BY DEF Value
  <2> HIDE DEF token
  <2>7. Placed(lexeme, s.offset, After(lexeme)[s].offset, token)
    BY <1>2, <2>5, <2>6 DEF Placed
  <2> QED
    BY <1>2, <2>2, <2>3, <2>4, <2>7 DEF Spelled, Told
<1>3. CASE ~s.threw /\ lexeme.type \in {"l", "d"}
  <2> DEFINE token == Bound(TypeAtStart[lexeme.type], s.offset)
  <2>1. After(lexeme)[s] = Reads(s, lexeme, token, << lexeme.type >> \o s.open)
    BY <1>3 DEF After
  <2>2. token \in TokenSet /\ token.type = IF lexeme.type = "l" THEN "LIST_START" ELSE "DICT_START"
    BY <1>1, <1>3 DEF TypeAtStart, Bound, TokenSet
  <2>3. /\ After(lexeme)[s].read = Append(s.read, token)
        /\ After(lexeme)[s].open = << lexeme.type >> \o s.open
    BY <2>1 DEF Reads
  <2>4. After(lexeme)[s].offset = s.offset + lexeme.size /\ token.start = s.offset
    BY <2>1 DEF Reads, Bound
  <2> HIDE DEF token
  <2>5. Placed(lexeme, s.offset, After(lexeme)[s].offset, token)
    BY <1>3, <2>4 DEF Placed
  <2> QED
    BY <1>3, <2>2, <2>3, <2>5 DEF Spelled, Told
<1>4. CASE ~s.threw /\ lexeme.type = "e" /\ s.open # << >>
  <2> DEFINE token == Bound(TypeAtEnd[Head(s.open)], s.offset)
  <2>1. After(lexeme)[s] = Reads(s, lexeme, token, Tail(s.open))
    BY <1>4 DEF After
  <2>2. Head(s.open) \in {"l", "d"}
    <3> DEFINE M == {"l", "d"}
    <3>1. s.open \in Seq(M)
      BY <1>1
    <3> HIDE DEF M
    <3>2. Head(s.open) \in M
      BY <1>4, <3>1, HeadTailProperties
    <3> QED
      BY <3>2 DEF M
  <2>3. token \in TokenSet /\ token.type = IF Head(s.open) = "l" THEN "LIST_END" ELSE "DICT_END"
    BY <1>1, <2>2 DEF TypeAtEnd, Bound, TokenSet
  <2>4. /\ After(lexeme)[s].read = Append(s.read, token)
        /\ After(lexeme)[s].open = Tail(s.open)
    BY <2>1 DEF Reads
  <2>5. After(lexeme)[s].offset = s.offset + lexeme.size /\ token.start = s.offset
    BY <2>1 DEF Reads, Bound
  <2> HIDE DEF token
  <2>6. Placed(lexeme, s.offset, After(lexeme)[s].offset, token)
    BY <1>4, <2>5 DEF Placed
  <2> QED
    BY <1>4, <2>3, <2>4, <2>6 DEF Spelled, Told
<1>5. CASE s.threw \/ (/\ lexeme.type \notin {"INT", "STR", "l", "d"}
                       /\ ~(lexeme.type = "e" /\ s.open # << >>))
  <2>1. After(lexeme)[s] = [s EXCEPT !.threw = TRUE]
    BY <1>5 DEF After
  <2>2. [s EXCEPT !.threw = TRUE].threw
    BY DEF ParseState
  <2> QED
    BY <2>1, <2>2
<1> QED
  BY <1>1, <1>2, <1>3, <1>4, <1>5

(* A source that is parsed, with its tokens so far.                        *)
LEMMA Tokens ==
  ASSUME NEW source \in Seq(Lexeme), ~Parsing(source)[Len(source)].threw
  PROVE  LET p == Parsing(source)
         IN  \A k \in 0 .. Len(source) :
               /\ ~p[k].threw /\ p[k].read \in Seq(TokenSet) /\ Len(p[k].read) = k
               /\ \A j \in 1 .. k :
                    /\ p[k].read[j] \in TokenSet
                    /\ Told(source[j], p[j - 1], p[j], p[k].read[j])
<1> DEFINE p == Parsing(source)
<1> DEFINE N == Len(source)
<1> DEFINE T == TokenSet
<1>1. N \in Nat /\ \A k \in 1 .. N : source[k] \in Lexeme
  <2> DEFINE L == Lexeme
  <2>1. source \in Seq(L)
    OBVIOUS
  <2> HIDE DEF L
  <2>2. Len(source) \in Nat /\ \A k \in 1 .. Len(source) : source[k] \in L
    BY <2>1
  <2> QED
    BY <2>2 DEF L
<1>2. /\ p[0] = ParseInit /\ \A k \in 0 .. N : p[k] \in ParseState
      /\ \A k \in 1 .. N : p[k] = After(source[k])[p[k - 1]]
  BY ParsingSteps
<1>3. ~p[N].threw
  OBVIOUS
<1> HIDE DEF p, N
<1>4. ASSUME NEW k \in 1 .. N, ~p[k].threw
      PROVE  /\ ~p[k - 1].threw
             /\ \E token \in T : /\ p[k].read = Append(p[k - 1].read, token)
                                 /\ Told(source[k], p[k - 1], p[k], token)
  <2>1. p[k - 1] \in ParseState /\ source[k] \in Lexeme /\ p[k] = After(source[k])[p[k - 1]]
    BY <1>1, <1>2
  <2> QED
    BY <1>4, <2>1, OneLexeme
<1>5. \A k \in 0 .. N : ~p[k].threw
  <2> DEFINE B == {k \in 0 .. N : ~p[k].threw}
  <2> DEFINE C == {k \in B : \A j \in k .. N : j \in B}
  <2>1. N \in C
    BY <1>1, <1>3
  <2>2. PICK k \in C : \A j \in C : k <= j
    <3>1. C \in SUBSET Nat /\ C # {}
      BY <2>1
    <3> HIDE DEF C
    <3> QED
      BY <3>1, Least
  <2>3. k = 0
    <3> SUFFICES ASSUME k # 0 PROVE FALSE
      OBVIOUS
    <3>1. k \in 1 .. N /\ k - 1 \in 0 .. N /\ ~p[k].threw
      BY <1>1
    <3>2. ~p[k - 1].threw
      BY <1>4, <3>1
    <3>3. \A j \in (k - 1) .. N : j = k - 1 \/ j \in k .. N
      BY <3>1
    <3>4. k - 1 \in C
      BY <3>1, <3>2, <3>3
    <3> QED
      BY <2>2, <3>1, <3>4
  <2> QED
    BY <2>3
<1> DEFINE Good(k) ==
      /\ p[k].read \in Seq(T) /\ Len(p[k].read) = k
      /\ \A j \in 1 .. k : /\ p[k].read[j] \in T
                           /\ Told(source[j], p[j - 1], p[j], p[k].read[j])
<1> DEFINE B == {k \in 0 .. N : ~Good(k)}
<1>6. B = {}
  <2> SUFFICES ASSUME B # {} PROVE FALSE
    OBVIOUS
  <2>1. PICK k \in B : \A n \in B : k <= n
    <3>1. B \in SUBSET Nat
      BY <1>1
    <3> HIDE DEF B
    <3> QED
      BY <3>1, Least
  <2>2. k \in 0 .. N /\ ~Good(k)
    OBVIOUS
  <2>3. \A n \in 0 .. N : n < k => Good(n)
    BY <1>1, <2>1, <2>2
  <2> HIDE DEF B
  <2>4. CASE k = 0
    <3>1. p[k].read = << >>
      BY <1>2, <2>4 DEF ParseInit
    <3>2. p[k].read \in Seq(T) /\ Len(p[k].read) = k
      BY <2>4, <3>1
    <3>3. \A j \in 1 .. k : FALSE
      BY <2>4
    <3> QED
      BY <2>2, <3>2, <3>3
  <2>5. CASE k # 0
    <3>1. k \in 1 .. N /\ k - 1 \in 0 .. N /\ k - 1 < k /\ ~p[k].threw
      BY <1>1, <1>5, <2>2, <2>5
    <3>2. Good(k - 1)
      BY <2>3, <3>1
    <3>3. PICK token \in T : /\ p[k].read = Append(p[k - 1].read, token)
                             /\ Told(source[k], p[k - 1], p[k], token)
      BY <1>4, <3>1
    <3> DEFINE r == p[k - 1].read
    <3> HIDE DEF T
    <3>4. /\ Append(r, token) \in Seq(T) /\ Len(Append(r, token)) = k
          /\ \A j \in 1 .. (k - 1) : Append(r, token)[j] = r[j]
          /\ Append(r, token)[k] = token
      BY <3>1, <3>2
    <3>5. ASSUME NEW j \in 1 .. k
          PROVE  /\ p[k].read[j] \in T
                 /\ Told(source[j], p[j - 1], p[j], p[k].read[j])
      <4>1. CASE j = k
        BY <3>3, <3>4, <4>1
      <4>2. CASE j # k
        <5>1. j \in 1 .. (k - 1)
          BY <3>1, <4>2
        <5>2. p[k].read[j] = r[j]
          BY <3>3, <3>4, <5>1
        <5> QED
          BY <3>2, <5>1, <5>2
      <4> QED
        BY <4>1, <4>2
    <3> QED
      BY <2>2, <3>3, <3>4, <3>5
  <2> QED
    BY <2>4, <2>5
<1> QED
  BY <1>5, <1>6 DEF p, N, T
-----------------------------------------------------------------------------
(* The tokens of the source that is read.                                  *)
Parsed    == parse(Source) # << >> /\ tokens = parse(Source)[1]
Tokenized == ReadInv /\ Parsed

(* The structs that are open after c lexemes, and the bytes of them.       *)
Stack(c)  == Parsing(Source)[c].open
Offset(c) == Parsing(Source)[c].offset

LEMMA SourceLength ==
  ASSUME ReadInv PROVE Len(Source) = kept /\ kept \in Nat
<1> DEFINE L == Lexeme
<1> DEFINE longer == Append(TheSource, Mark("\n"))
<1>1. kept \in 0 .. (Len(TheSource) + 1)
  BY SourcesAssumption DEF ReadInv, TheSource
<1>2. TheSource \in Seq(L) /\ Mark("\n") \in L /\ Len(TheSource) \in Nat
  BY SourceSeq DEF Mark, Lexeme
<1> HIDE DEF L
<1>3. longer \in Seq(L) /\ Len(longer) = Len(TheSource) + 1
  BY <1>2
<1>4. \A k \in 1 .. kept : longer[k] \in L
  BY <1>1, <1>2, <1>3
<1>5. Source = SubSeq(longer, 1, kept)
  BY DEF Source, TheSource
<1> HIDE DEF longer
<1>6. Len(SubSeq(longer, 1, kept)) = IF 1 <= kept THEN kept - 1 + 1 ELSE 0
  BY <1>1, <1>2, <1>4, SubSeqProperties
<1> QED
  BY <1>1, <1>2, <1>5, <1>6

LEMMA SourceTokens ==
  ASSUME Tokenized
  PROVE  /\ kept \in Nat /\ kept <= Len(TheSource) /\ Len(TheSource) \in Nat
         /\ TOKENS_SIZE \in Nat /\ kept <= TOKENS_SIZE /\ current_token \in Nat
         /\ \A c \in Nat : c < kept =>
              /\ Lex(c) \in Lexeme
              /\ Spelled(Lex(c), Stack(c), Stack(c + 1), Token(c))
              /\ Placed(Lex(c), Offset(c), Offset(c + 1), Token(c))
         /\ \A c \in Nat : c <= kept => Stack(c) \in Seq({"l", "d"})
         /\ \A c \in Nat : kept <= c /\ c < TOKENS_SIZE => Type(c) \in EndTypes
         /\ \A c \in Nat : c < TOKENS_SIZE => Token(c) \in TokenSet
<1> DEFINE N == Len(Source)
<1> DEFINE p == Parsing(Source)
<1> DEFINE T == TokenSet
<1> DEFINE M == Seq({"l", "d"})
<1>1. /\ Source \in Seq(Lexeme) /\ TheSource \in Seq(Lexeme) /\ Len(TheSource) \in Nat
      /\ \A k \in 1 .. N : IF k <= Len(TheSource) THEN Source[k] = TheSource[k] ELSE Source[k].type = "\n"
  BY SourceCut, SourceSeq DEF CutFrom, Tokenized, TheSource
<1>2. N = kept /\ kept \in Nat
  BY SourceLength DEF Tokenized
<1>3. LET s == p[N]
      IN  /\ ~s.threw /\ Len(s.read) \in Nat /\ Len(s.open) \in Nat
          /\ tokens \in Seq(T) /\ Len(tokens) = Len(s.read) + Len(s.open)
          /\ \A i \in 1 .. Len(s.read) : tokens[i] = s.read[i]
          /\ \A i \in (Len(s.read) + 1) .. Len(tokens) : tokens[i].type \in EndTypes
  BY <1>1, ParsedTokens DEF Tokenized, Parsed
<1>4. \A k \in 0 .. N :
        /\ Len(p[k].read) = k
        /\ \A j \in 1 .. k : /\ p[k].read[j] \in T
                             /\ Told(Source[j], p[j - 1], p[j], p[k].read[j])
  <2>1. Source \in Seq(Lexeme) /\ ~Parsing(Source)[Len(Source)].threw
    BY <1>1, <1>3
  <2> QED
    BY <2>1, Tokens
<1>5. \A k \in 0 .. N : p[k].open \in M
  BY <1>1, ParsingSteps DEF ParseState
<1>6. \A k \in 1 .. N : Source[k] \in Lexeme
  <2> DEFINE L == Lexeme
  <2>1. Source \in Seq(L)
    BY <1>1
  <2> HIDE DEF L
  <2>2. \A k \in 1 .. Len(Source) : Source[k] \in L
    BY <2>1
  <2> QED
    BY <2>2 DEF L
<1>7. TOKENS_SIZE = Len(tokens) /\ \A c : Token(c) = tokens[c + 1] /\ Type(c) = tokens[c + 1].type
  BY DEF TOKENS_SIZE, Token, Type
<1>8. \A c : Stack(c) = p[c].open /\ Offset(c) = p[c].offset /\ Lex(c) = TheSource[c + 1]
  BY DEF Stack, Offset, Lex
<1>9. current_token \in Nat
  BY DEF Tokenized, ReadInv
<1> HIDE DEF N, p, T, M
<1>10. /\ kept \in 0 .. N /\ N \in Nat /\ Len(p[N].read) = N
       /\ \A j \in 1 .. N : Told(Source[j], p[j - 1], p[j], p[N].read[j])
  <2>1. N \in 0 .. N
    BY <1>2
  <2> QED
    BY <1>2, <1>4, <2>1
<1>11. Len(tokens) \in Nat /\ N <= Len(tokens)
  BY <1>3, <1>10
<1>12. ASSUME NEW j \in 1 .. N
       PROVE  j <= Len(TheSource) /\ Source[j] = TheSource[j]
              /\ Told(TheSource[j], p[j - 1], p[j], tokens[j])
  <2>1. Told(Source[j], p[j - 1], p[j], tokens[j])
    BY <1>3, <1>10
  <2>2. Source[j].type # "\n"
    BY <2>1 DEF Spelled, Told
  <2> QED
    BY <1>1, <2>1, <2>2
<1>13. kept <= Len(TheSource)
  <2>1. N = 0 \/ N \in 1 .. N
    BY <1>10
  <2>2. N \in 1 .. N => N <= Len(TheSource)
    BY <1>12
  <2> QED
    BY <1>1, <1>2, <2>1, <2>2
<1>14. ASSUME NEW c \in Nat, c < kept
       PROVE  /\ Lex(c) \in Lexeme
              /\ Spelled(Lex(c), Stack(c), Stack(c + 1), Token(c))
              /\ Placed(Lex(c), Offset(c), Offset(c + 1), Token(c))
  <2>1. c + 1 \in 1 .. N /\ (c + 1) - 1 = c
    BY <1>2, <1>14
  <2> DEFINE j == c + 1
  <2>2. j \in 1 .. N /\ j - 1 = c
    BY <2>1
  <2> HIDE DEF j
  <2>3. Source[j] = TheSource[j] /\ Told(TheSource[j], p[c], p[j], tokens[j]) /\ Source[j] \in Lexeme
    BY <1>6, <1>12, <2>2
  <2> QED
    BY <1>7, <1>8, <2>3 DEF j, Told
<1>15. ASSUME NEW c \in Nat, kept <= c, c < TOKENS_SIZE PROVE Type(c) \in EndTypes
  <2>1. c + 1 \in (Len(p[N].read) + 1) .. Len(tokens)
    BY <1>2, <1>7, <1>10, <1>11, <1>15
  <2> QED
    BY <1>3, <1>7, <2>1
<1>16. ASSUME NEW c \in Nat, c < TOKENS_SIZE PROVE Token(c) \in T
  <2>1. c + 1 \in 1 .. Len(tokens)
    BY <1>7, <1>11, <1>16
  <2>2. tokens \in Seq(T)
    BY <1>3
  <2>3. tokens[c + 1] \in T
    BY <2>1, <2>2
  <2> QED
    BY <1>7, <2>3
<1>17. \A c \in Nat : c <= kept => Stack(c) \in M
  BY <1>2, <1>5, <1>8, <1>10
<1>18. TOKENS_SIZE \in Nat /\ kept <= TOKENS_SIZE
  BY <1>2, <1>7, <1>11
<1> QED
  BY <1>1, <1>2, <1>9, <1>13, <1>14, <1>15, <1>16, <1>17, <1>18 DEF T, M

(* The token of a lexeme that is kept, and of the others.                  *)
LEMMA TokenOf ==
  ASSUME Tokenized, NEW c \in Nat, c < kept
  PROVE  /\ c < TOKENS_SIZE
         /\ Lex(c).type \in {"INT", "STR"} =>
              /\ Type(c) = Lex(c).type /\ Token(c).str = Lex(c).str
              /\ Token(c).number = Lex(c).number /\ Token(c).length = Lex(c).length
         /\ Lex(c).type = "l" <=> Type(c) = "LIST_START"
         /\ Lex(c).type = "d" <=> Type(c) = "DICT_START"
         /\ Lex(c).type = "e" <=> Type(c) \in EndTypes
         /\ Type(c) = "STR" => Lex(c).type = "STR"
         /\ Type(c) = "INT" => Lex(c).type = "INT"
<1>1. /\ Spelled(Lex(c), Stack(c), Stack(c + 1), Token(c))
      /\ kept \in Nat /\ TOKENS_SIZE \in Nat /\ kept <= TOKENS_SIZE
  BY SourceTokens
<1>2. c < TOKENS_SIZE
  BY <1>1
<1> QED
  BY <1>1, <1>2 DEF Spelled, Type, EndTypes
-----------------------------------------------------------------------------
(* What read_lists makes of the lexemes within a list: after k of them, D  *)
(* more lists are open than at the first, and the strings are W.           *)
Collected(lexeme, d, v, e, u) ==
  \/ lexeme.type = "l" /\ e = d + 1 /\ u = v
  \/ lexeme.type = "e" /\ e = d - 1 /\ u = v
  \/ lexeme.type = "STR" /\ e = d /\ u = Append(v, lexeme.str)

Collects(x, w, D, W) ==
  /\ D \in [0 .. Len(x) -> Nat] /\ W \in [0 .. Len(x) -> Seq(STRING)]
  /\ D[0] = 0 /\ W[0] = << >> /\ D[Len(x)] = 0 /\ W[Len(x)] = w
  /\ \A k \in 1 .. Len(x) : Collected(x[k], D[k - 1], W[k - 1], D[k], W[k])

Holds(x, w) == IsSeq(x) /\ w \in Seq(STRING) /\ \E D, W : Collects(x, w, D, W)

LEMMA StrsHold == ASSUME NEW p \in Seq(STRING) PROVE Holds(Strs(p), p)
<1> DEFINE S == STRING
<1> DEFINE x == Strs(p)
<1> DEFINE n == Len(p)
<1> DEFINE D == [k \in 0 .. n |-> 0]
<1> DEFINE W == [k \in 0 .. n |-> SubSeq(p, 1, k)]
<1>1. IsSeq(p)
  BY DEF IsSeq
<1>2. IsSeq(x) /\ Len(x) = n /\ n \in Nat /\ DOMAIN p = 1 .. n
  BY <1>1, StrsSeq, SeqFacts
<1>3. \A k \in 1 .. n : x[k].type = "STR" /\ x[k].str = p[k]
  BY <1>2 DEF Strs, Str, Bytes
<1> HIDE DEF x
<1>4. p \in Seq(S)
  OBVIOUS
<1> HIDE DEF S, n
<1>5. \A k \in 1 .. n : p[k] \in S
  BY <1>4 DEF n
<1>6. ASSUME NEW k \in 0 .. n
      PROVE  /\ SubSeq(p, 1, k) \in Seq(S) /\ Len(SubSeq(p, 1, k)) = k
             /\ \A j \in 1 .. k : SubSeq(p, 1, k)[j] = p[j]
  <2>1. k \in Int /\ \A i \in 1 .. k : p[i] \in S
    BY <1>2, <1>5
  <2>2. /\ SubSeq(p, 1, k) \in Seq(S)
        /\ Len(SubSeq(p, 1, k)) = IF 1 <= k THEN k - 1 + 1 ELSE 0
        /\ \A i \in 1 .. (k - 1 + 1) : SubSeq(p, 1, k)[i] = p[1 + i - 1]
    BY <2>1, SubSeqProperties
  <2>3. \A j \in 1 .. k : 1 + j - 1 = j /\ j \in 1 .. (k - 1 + 1)
    BY <2>1
  <2> QED
    BY <1>2, <2>1, <2>2, <2>3
<1>7. D \in [0 .. n -> Nat] /\ W \in [0 .. n -> Seq(S)] /\ D[0] = 0 /\ D[n] = 0
  BY <1>2, <1>6
<1>8. W[0] = << >>
  <2>1. 0 \in 0 .. n
    BY <1>2
  <2> QED
    BY <1>6, <2>1, EmptySeq
<1>9. W[n] = p
  <2>1. n \in 0 .. n /\ Len(p) = n
    BY <1>2 DEF n
  <2>2. SubSeq(p, 1, n) = p
    BY <1>4, <1>6, <2>1, SeqEqual
  <2> QED
    BY <2>1, <2>2
<1>10. ASSUME NEW k \in 1 .. n PROVE Collected(x[k], D[k - 1], W[k - 1], D[k], W[k])
  <2>1. k - 1 \in 0 .. n /\ k \in 0 .. n
    BY <1>2
  <2>2. D[k - 1] = 0 /\ D[k] = 0 /\ W[k] = SubSeq(p, 1, k) /\ W[k - 1] = SubSeq(p, 1, k - 1)
    BY <2>1
  <2> DEFINE v == SubSeq(p, 1, k - 1)
  <2>3. v \in Seq(S) /\ Len(v) = k - 1 /\ \A j \in 1 .. (k - 1) : v[j] = p[j]
    BY <1>6, <2>1
  <2>4. p[k] \in S
    BY <1>5
  <2> HIDE DEF v
  <2>5. /\ Append(v, p[k]) \in Seq(S) /\ Len(Append(v, p[k])) = k
        /\ \A j \in 1 .. k : Append(v, p[k])[j] = p[j]
    BY <1>2, <2>3, <2>4
  <2>6. SubSeq(p, 1, k) = Append(v, p[k])
    BY <1>6, <2>1, <2>5, SeqEqual
  <2>7. Append(v, p[k]) = Append(W[k - 1], x[k].str)
    BY <1>3, <2>2 DEF v
  <2> QED
    BY <1>3, <2>2, <2>6, <2>7 DEF Collected
<1> HIDE DEF D, W
<1>11. Collects(x, p, D, W)
  BY <1>2, <1>7, <1>8, <1>9, <1>10 DEF Collects, S
<1> QED
  BY <1>2, <1>11 DEF Holds, x

LEMMA NothingHolds == Holds(<< >>, << >>)
<1> DEFINE D == [k \in 0 .. 0 |-> 0]
<1> DEFINE W == [k \in 0 .. 0 |-> << >>]
<1>1. IsSeq(<< >>) /\ Len(<< >>) = 0
  BY ShortSeqs
<1>2. << >> \in Seq(STRING)
  OBVIOUS
<1>3. D \in [0 .. 0 -> Nat] /\ W \in [0 .. 0 -> Seq(STRING)] /\ D[0] = 0 /\ W[0] = << >>
  BY <1>2
<1> HIDE DEF D, W
<1>4. Collects(<< >>, << >>, D, W)
  BY <1>1, <1>3 DEF Collects
<1> QED
  BY <1>1, <1>2, <1>4 DEF Holds

LEMMA ListHolds == ASSUME NEW x, NEW w, Holds(x, w) PROVE Holds(List(x), w)
<1>1. PICK D, W : Collects(x, w, D, W)
  BY DEF Holds
<1> DEFINE n == Len(x)
<1> DEFINE y == List(x)
<1> DEFINE E == [k \in 0 .. (n + 2) |-> IF k = 0 \/ k = n + 2 THEN 0 ELSE 1 + D[k - 1]]
<1> DEFINE V == [k \in 0 .. (n + 2) |-> IF k = 0 THEN << >> ELSE IF k = n + 2 THEN w ELSE W[k - 1]]
<1> DEFINE Q == Seq(STRING)
<1>2. IsSeq(x) /\ w \in Q /\ n \in Nat
  BY SeqFacts DEF Holds
<1>3. /\ IsSeq(y) /\ Len(y) = n + 2 /\ y[1].type = "l" /\ y[n + 2].type = "e"
      /\ \A k \in 1 .. n : y[k + 1] = x[k]
  <2> DEFINE l == << Mark("l") >>
  <2> DEFINE e == << Mark("e") >>
  <2>1. IsSeq(l) /\ IsSeq(e) /\ Len(l) = 1 /\ Len(e) = 1
    BY ShortSeqs
  <2>2. y = (l \o x) \o e
    BY DEF List
  <2>3. l[1].type = "l" /\ e[1].type = "e"
    BY DEF Mark
  <2> HIDE DEF l, e, y
  <2>4. /\ IsSeq(l \o x) /\ Len(l \o x) = 1 + n /\ (l \o x)[1] = l[1]
        /\ \A k \in 1 .. n : (l \o x)[1 + k] = x[k]
    <3>1. /\ IsSeq(l \o x) /\ Len(l \o x) = Len(l) + Len(x)
          /\ \A i \in 1 .. Len(l) : (l \o x)[i] = l[i]
          /\ \A i \in 1 .. Len(x) : (l \o x)[Len(l) + i] = x[i]
      <4>1. IsSeq(l) /\ IsSeq(x)
        BY <1>2, <2>1
      <4> QED
        BY <4>1, Joined
    <3> QED
      BY <2>1, <3>1
  <2> DEFINE lx == l \o x
  <2> HIDE DEF lx
  <2>5. /\ IsSeq(lx \o e) /\ Len(lx \o e) = Len(lx) + Len(e)
        /\ \A i \in 1 .. Len(lx) : (lx \o e)[i] = lx[i]
        /\ \A i \in 1 .. Len(e) : (lx \o e)[Len(lx) + i] = e[i]
    BY <2>1, <2>4, Joined DEF lx
  <2>6. y = lx \o e /\ Len(lx) = 1 + n /\ lx[1] = l[1] /\ \A k \in 1 .. n : lx[1 + k] = x[k]
    BY <2>2, <2>4 DEF lx
  <2> HIDE DEF n
  <2>7. Len(y) = n + 2 /\ IsSeq(y)
    BY <1>2, <2>1, <2>5, <2>6
  <2>8. y[1] = l[1]
    <3>1. 1 \in 1 .. Len(lx)
      BY <1>2, <2>6
    <3> QED
      BY <2>5, <2>6, <3>1
  <2>9. y[n + 2] = e[1]
    <3>1. 1 \in 1 .. Len(e) /\ Len(lx) + 1 = n + 2
      BY <1>2, <2>1, <2>6
    <3> QED
      BY <2>5, <2>6, <3>1
  <2>10. ASSUME NEW k \in 1 .. n PROVE y[k + 1] = x[k]
    <3>1. k + 1 \in 1 .. Len(lx) /\ k + 1 = 1 + k
      BY <1>2, <2>6
    <3> QED
      BY <2>5, <2>6, <3>1
  <2> QED
    BY <2>3, <2>7, <2>8, <2>9, <2>10
<1>4. /\ D \in [0 .. n -> Nat] /\ W \in [0 .. n -> Q]
      /\ D[0] = 0 /\ W[0] = << >> /\ D[n] = 0 /\ W[n] = w
      /\ \A k \in 1 .. n : Collected(x[k], D[k - 1], W[k - 1], D[k], W[k])
  BY <1>1 DEF Collects
<1>5. << >> \in Q
  OBVIOUS
<1> HIDE DEF n, y, Q
<1>6. ASSUME NEW k \in 1 .. (n + 1) PROVE E[k] = 1 + D[k - 1] /\ V[k] = W[k - 1] /\ k - 1 \in 0 .. n
  BY <1>2
<1>7. E[0] = 0 /\ V[0] = << >> /\ E[n + 2] = 0 /\ V[n + 2] = w
  BY <1>2
<1>8. E \in [0 .. (n + 2) -> Nat] /\ V \in [0 .. (n + 2) -> Q]
  <2>1. ASSUME NEW k \in 0 .. (n + 2) PROVE E[k] \in Nat /\ V[k] \in Q
    <3>1. CASE k = 0 \/ k = n + 2
      <4> HIDE DEF E, V
      <4> QED
        BY <1>2, <1>5, <1>7, <3>1
    <3>2. CASE ~(k = 0 \/ k = n + 2)
      <4>1. k \in 1 .. (n + 1)
        BY <1>2, <3>2
      <4>2. E[k] = 1 + D[k - 1] /\ V[k] = W[k - 1] /\ k - 1 \in 0 .. n
        BY <1>6, <4>1
      <4>3. D[k - 1] \in Nat /\ W[k - 1] \in Q
        BY <1>4, <4>2
      <4> HIDE DEF E, V
      <4> QED
        BY <4>2, <4>3
    <3> QED
      BY <3>1, <3>2
  <2>2. E = [k \in 0 .. (n + 2) |-> E[k]] /\ V = [k \in 0 .. (n + 2) |-> V[k]]
    OBVIOUS
  <2> HIDE DEF E, V
  <2> QED
    BY <2>1, <2>2
<1> HIDE DEF E, V
<1>9. ASSUME NEW k \in 1 .. (n + 2) PROVE Collected(y[k], E[k - 1], V[k - 1], E[k], V[k])
  <2>1. CASE k = 1
    <3>1. 1 \in 1 .. (n + 1) /\ 1 - 1 = 0
      BY <1>2
    <3>2. E[1] = 1 + D[0] /\ V[1] = W[0]
      BY <1>6, <3>1
    <3>3. E[k] = E[k - 1] + 1 /\ V[k] = V[k - 1] /\ y[k].type = "l"
      BY <1>3, <1>4, <1>7, <2>1, <3>1, <3>2
    <3> QED
      BY <3>3 DEF Collected
  <2>2. CASE k = n + 2
    <3>1. k - 1 \in 1 .. (n + 1) /\ k - 1 - 1 = n
      BY <1>2, <2>2
    <3>2. E[k - 1] = 1 + D[n] /\ V[k - 1] = W[n]
      BY <1>6, <3>1
    <3>3. E[k] = E[k - 1] - 1 /\ V[k] = V[k - 1] /\ y[k].type = "e"
      BY <1>3, <1>4, <1>7, <2>2, <3>2
    <3> QED
      BY <3>3 DEF Collected
  <2>3. CASE k # 1 /\ k # n + 2
    <3>1. k - 1 \in 1 .. n /\ k \in 1 .. (n + 1) /\ k - 1 \in 1 .. (n + 1) /\ (k - 1) + 1 = k
      BY <1>2, <2>3
    <3> DEFINE j == k - 1
    <3>2. y[j + 1] = x[j] /\ Collected(x[j], D[j - 1], W[j - 1], D[j], W[j]) /\ j \in 1 .. n
      BY <1>3, <1>4, <3>1
    <3>3. E[k] = 1 + D[j] /\ V[k] = W[j] /\ E[j] = 1 + D[j - 1] /\ V[j] = W[j - 1]
      BY <1>6, <3>1
    <3>4. y[k] = x[j]
      BY <3>1, <3>2
    <3>5. D[j] \in Nat /\ D[j - 1] \in Nat
      BY <1>2, <1>4, <3>2
    <3> HIDE DEF j
    <3>6. Collected(y[k], E[j], V[j], E[k], V[k])
      <4>1. CASE x[j].type = "l" /\ D[j] = D[j - 1] + 1 /\ W[j] = W[j - 1]
        BY <3>3, <3>4, <3>5, <4>1 DEF Collected
      <4>2. CASE x[j].type = "e" /\ D[j] = D[j - 1] - 1 /\ W[j] = W[j - 1]
        BY <3>3, <3>4, <3>5, <4>2 DEF Collected
      <4>3. CASE x[j].type = "STR" /\ D[j] = D[j - 1] /\ W[j] = Append(W[j - 1], x[j].str)
        BY <3>3, <3>4, <3>5, <4>3 DEF Collected
      <4> QED
        BY <3>2, <4>1, <4>2, <4>3 DEF Collected
    <3> QED
      BY <3>6 DEF j
  <2> QED
    BY <2>1, <2>2, <2>3
<1>10. Collects(y, w, E, V)
  BY <1>2, <1>3, <1>7, <1>8, <1>9 DEF Collects, Q
<1> QED
  BY <1>2, <1>3, <1>10 DEF Holds, y, Q

LEMMA JoinedHold ==
  ASSUME NEW x, NEW w, Holds(x, w), NEW y, NEW v, Holds(y, v)
  PROVE  Holds(x \o y, w \o v)
<1>1. PICK D, W : Collects(x, w, D, W)
  BY DEF Holds
<1>2. PICK G, U : Collects(y, v, G, U)
  BY DEF Holds
<1> DEFINE a == Len(x)
<1> DEFINE b == Len(y)
<1> DEFINE z == x \o y
<1> DEFINE S == STRING
<1> DEFINE E == [k \in 0 .. (a + b) |-> IF k <= a THEN D[k] ELSE G[k - a]]
<1> DEFINE V == [k \in 0 .. (a + b) |-> IF k <= a THEN W[k] ELSE w \o U[k - a]]
<1>3. IsSeq(x) /\ IsSeq(y) /\ w \in Seq(S) /\ v \in Seq(S)
  BY DEF Holds
<1>4. a \in Nat /\ b \in Nat
  BY <1>3, SeqFacts
<1>5. /\ IsSeq(z) /\ Len(z) = a + b
      /\ \A i \in 1 .. a : z[i] = x[i]
      /\ \A i \in 1 .. b : z[a + i] = y[i]
  BY <1>3, Joined
<1>6. /\ D \in [0 .. a -> Nat] /\ W \in [0 .. a -> Seq(S)]
      /\ D[0] = 0 /\ W[0] = << >> /\ D[a] = 0 /\ W[a] = w
      /\ \A k \in 1 .. a : Collected(x[k], D[k - 1], W[k - 1], D[k], W[k])
  BY <1>1 DEF Collects
<1>7. /\ G \in [0 .. b -> Nat] /\ U \in [0 .. b -> Seq(S)]
      /\ G[0] = 0 /\ U[0] = << >> /\ G[b] = 0 /\ U[b] = v
      /\ \A k \in 1 .. b : Collected(y[k], G[k - 1], U[k - 1], G[k], U[k])
  BY <1>2 DEF Collects
<1>8. \A k \in 0 .. a : E[k] = D[k] /\ V[k] = W[k]
  BY <1>4
<1>9. ASSUME NEW k \in 0 .. b
      PROVE  E[a + k] = G[k] /\ V[a + k] = w \o U[k]
  <2>1. CASE k = 0
    <3>1. w \o << >> = w
      <4> HIDE DEF S
      <4> QED
        BY <1>3, ConcatEmptySeq
    <3>2. a \in 0 .. a /\ a + k = a
      BY <1>4, <2>1
    <3> HIDE DEF E, V, a
    <3> QED
      BY <1>6, <1>7, <1>8, <2>1, <3>1, <3>2
  <2>2. CASE k # 0
    <3> DEFINE j == a + k
    <3>1. j \in 0 .. (a + b) /\ ~(j <= a) /\ j - a = k
      BY <1>4, <2>2
    <3> HIDE DEF j
    <3>2. E[j] = G[j - a] /\ V[j] = w \o U[j - a]
      BY <3>1
    <3> HIDE DEF E, V
    <3> QED
      BY <3>1, <3>2 DEF j
  <2> QED
    BY <2>1, <2>2
<1>10. E = [k \in 0 .. (a + b) |-> E[k]] /\ V = [k \in 0 .. (a + b) |-> V[k]]
  OBVIOUS
<1> HIDE DEF a, b, z, S, E, V
<1>11. \A k \in 0 .. b : w \o U[k] \in Seq(S)
  <2> SUFFICES ASSUME NEW k \in 0 .. b PROVE w \o U[k] \in Seq(S)
    OBVIOUS
  <2>1. U[k] \in Seq(S) /\ w \in Seq(S)
    BY <1>3, <1>7
  <2> QED
    BY <2>1, ConcatProperties
<1>12. ASSUME NEW k \in 0 .. (a + b) PROVE E[k] \in Nat /\ V[k] \in Seq(S)
  <2>1. CASE k <= a
    <3>1. k \in 0 .. a
      BY <1>4, <2>1
    <3> QED
      BY <1>6, <1>8, <3>1
  <2>2. CASE ~(k <= a)
    <3>1. k - a \in 0 .. b /\ a + (k - a) = k
      BY <1>4, <2>2
    <3>2. E[a + (k - a)] = G[k - a] /\ V[a + (k - a)] = w \o U[k - a]
      BY <1>9, <3>1
    <3>3. G[k - a] \in Nat /\ w \o U[k - a] \in Seq(S)
      BY <1>7, <1>11, <3>1
    <3> QED
      BY <3>1, <3>2, <3>3
  <2> QED
    BY <2>1, <2>2
<1>13. E \in [0 .. (a + b) -> Nat] /\ V \in [0 .. (a + b) -> Seq(S)]
  BY <1>10, <1>12
<1>14. E[0] = 0 /\ V[0] = << >> /\ E[a + b] = 0 /\ V[a + b] = w \o v
  <2>1. 0 \in 0 .. a /\ b \in 0 .. b
    BY <1>4
  <2> QED
    BY <1>6, <1>7, <1>8, <1>9, <2>1
<1>15. ASSUME NEW k \in 1 .. (a + b) PROVE Collected(z[k], E[k - 1], V[k - 1], E[k], V[k])
  <2>1. CASE k <= a
    <3>1. k \in 1 .. a /\ k - 1 \in 0 .. a /\ k \in 0 .. a
      BY <1>4, <2>1
    <3>2. z[k] = x[k] /\ E[k] = D[k] /\ V[k] = W[k] /\ E[k - 1] = D[k - 1] /\ V[k - 1] = W[k - 1]
      BY <1>5, <1>8, <3>1
    <3> QED
      BY <1>6, <3>1, <3>2
  <2>2. CASE ~(k <= a)
    <3> DEFINE j == k - a
    <3>1. j \in 1 .. b /\ j \in 0 .. b /\ j - 1 \in 0 .. b /\ a + j = k /\ a + (j - 1) = k - 1
      BY <1>4, <2>2
    <3> HIDE DEF j
    <3>2. /\ z[k] = y[j] /\ E[k] = G[j] /\ V[k] = w \o U[j]
          /\ E[k - 1] = G[j - 1] /\ V[k - 1] = w \o U[j - 1]
      BY <1>5, <1>9, <3>1
    <3>3. Collected(y[j], G[j - 1], U[j - 1], G[j], U[j])
      BY <1>7, <3>1
    <3>4. CASE y[j].type = "l" /\ G[j] = G[j - 1] + 1 /\ U[j] = U[j - 1]
      BY <3>2, <3>4 DEF Collected
    <3>5. CASE y[j].type = "e" /\ G[j] = G[j - 1] - 1 /\ U[j] = U[j - 1]
      BY <3>2, <3>5 DEF Collected
    <3>6. CASE y[j].type = "STR" /\ G[j] = G[j - 1] /\ U[j] = Append(U[j - 1], y[j].str)
      <4> DEFINE u == U[j - 1]
      <4> DEFINE s == y[j].str
      <4>1. w \o Append(u, s) = Append(w \o u, s)
        <5>1. u \in Seq(S) /\ w \in Seq(S)
          BY <1>3, <1>7, <3>1
        <5>2. Append(u, s) \in Seq(S)
          BY <1>7, <3>1, <3>6
        <5> HIDE DEF u, s
        <5> DEFINE T == S \union {s}
        <5>3. u \in Seq(T) /\ w \in Seq(T)
          BY <5>1, SeqMonotonic
        <5>4. s \in T
          OBVIOUS
        <5> HIDE DEF T
        <5>5. << s >> \in Seq(T) /\ Append(u, s) = u \o << s >>
          BY <5>3, <5>4
        <5>6. w \o u \in Seq(T)
          BY <5>3, ConcatProperties
        <5>7. Append(w \o u, s) = (w \o u) \o << s >>
          BY <5>4, <5>6
        <5> QED
          BY <5>3, <5>5, <5>7, ConcatAssociative
      <4>2. V[k] = Append(V[k - 1], s)
        BY <3>2, <3>6, <4>1
      <4> QED
        BY <3>2, <3>6, <4>2 DEF Collected
    <3> QED
      BY <3>3, <3>4, <3>5, <3>6 DEF Collected
  <2> QED
    BY <2>1, <2>2
<1>16. w \o v \in Seq(S)
  BY <1>3, ConcatProperties
<1>17. Collects(z, w \o v, E, V)
  BY <1>4, <1>5, <1>13, <1>14, <1>15 DEF Collects, S
<1> QED
  BY <1>5, <1>16, <1>17 DEF Holds, z, S

(* Lists within, one after the other.                                      *)
LEMMA FlatHolds ==
  ASSUME NEW ss, IsSeq(ss), NEW ws \in Seq(Seq(STRING)), Len(ss) = Len(ws),
         \A i \in 1 .. Len(ss) : Holds(ss[i], ws[i])
  PROVE  Holds(FlattenSeq(ss), FlattenSeq(ws))
<1> DEFINE N == Len(ss)
<1> DEFINE T == UNION {{ss[i][k] : k \in 1 .. Len(ss[i])} : i \in 1 .. N}
<1> DEFINE L == Seq(T)
<1> DEFINE S == STRING
<1>1. N \in Nat
  BY SeqFacts
<1>2. \A i \in 1 .. N : ss[i] \in L
  <2>1. ASSUME NEW i \in 1 .. N, NEW k \in 1 .. Len(ss[i]) PROVE ss[i][k] \in T
    OBVIOUS
  <2>2. \A i \in 1 .. N : IsSeq(ss[i])
    BY DEF Holds
  <2> HIDE DEF T
  <2> QED
    BY <2>1, <2>2, SeqIn
<1>3. ss \in Seq(L)
  <2> HIDE DEF L
  <2> QED
    BY <1>2, SeqIn
<1>4. ws \in Seq(Seq(S)) /\ Len(ws) = N
  OBVIOUS
<1> HIDE DEF T, S
<1>5. PICK f : Flattens(f, ss)
  BY <1>3, Flattening
<1>6. PICK g : Flattens(g, ws)
  BY <1>4, Flattening
<1>7. /\ f[0] = << >> /\ f[N] = FlattenSeq(ss) /\ \A i \in 1 .. N : f[i] = f[i - 1] \o ss[i]
      /\ g[0] = << >> /\ g[N] = FlattenSeq(ws) /\ \A i \in 1 .. N : g[i] = g[i - 1] \o ws[i]
  BY <1>4, <1>5, <1>6 DEF Flattens
<1>8. \A i \in 1 .. N : Holds(ss[i], ws[i])
  OBVIOUS
<1> HIDE DEF N
<1> DEFINE B == {i \in 0 .. N : ~Holds(f[i], g[i])}
<1>9. B = {}
  <2> SUFFICES ASSUME B # {} PROVE FALSE
    OBVIOUS
  <2>1. PICK i \in B : \A n \in B : i <= n
    <3>1. B \in SUBSET Nat
      BY <1>1
    <3> HIDE DEF B
    <3> QED
      BY <3>1, Least
  <2>2. i \in 0 .. N /\ ~Holds(f[i], g[i])
    OBVIOUS
  <2>3. i # 0
    BY <1>7, <2>2, NothingHolds
  <2>4. i \in 1 .. N /\ i - 1 \in 0 .. N /\ ~(i <= i - 1)
    BY <1>1, <2>2, <2>3
  <2>5. Holds(f[i - 1], g[i - 1])
    BY <2>1, <2>4
  <2>6. Holds(f[i - 1] \o ss[i], g[i - 1] \o ws[i])
    BY <1>8, <2>4, <2>5, JoinedHold
  <2> QED
    BY <1>7, <2>2, <2>4, <2>6
<1>10. N \in 0 .. N
  BY <1>1
<1>11. Holds(f[N], g[N])
  BY <1>9, <1>10
<1> QED
  BY <1>7, <1>11

(* The lists of announces, and the path of a file.                         *)
LEMMA AnnouncesHold ==
  ASSUME ReadInv, Plain(torrent)
  PROVE  Holds(FlattenSeq(AnnounceLists(torrent)), FlattenSeq(torrent.announce_list))
<1> DEFINE ss == AnnounceLists(torrent)
<1> DEFINE ws == torrent.announce_list
<1>1. ws \in Seq(Seq(STRING)) /\ \A i \in 1 .. Len(ws) : ws[i] \in Seq(STRING)
  BY AnnounceTypes
<1>2. IsSeq(ss) /\ Len(ss) = Len(ws) /\ \A i \in 1 .. Len(ss) : ss[i] = List(Strs(ws[i]))
  BY AnnounceListsSeq
<1> HIDE DEF ss, ws
<1>3. \A i \in 1 .. Len(ss) : Holds(ss[i], ws[i])
  BY <1>1, <1>2, StrsHold, ListHolds
<1>4. Holds(FlattenSeq(ss), FlattenSeq(ws))
  BY <1>1, <1>2, <1>3, FlatHolds
<1> QED
  BY <1>4 DEF ss, ws
-----------------------------------------------------------------------------
(* The loop of read_lists, token by token.                                 *)
ListNext(s, j) ==
  CASE Type(j) = "LIST_START" -> [s EXCEPT !.depth = @ + 1]
    [] Type(j) = "LIST_END"   -> [s EXCEPT !.depth = @ - 1]
    [] Type(j) \in {"STR", "INT"} -> [s EXCEPT !.output = Append(@, Token(j).str)]
    [] OTHER -> s

ListStart(i) == [depth |-> IF Type(i) = "LIST_START" THEN 1 ELSE 0, output |-> << >>]

LEMMA ListSteps ==
  ASSUME Tokenized, Plain(torrent), NEW i \in Nat, i < TOKENS_SIZE
  PROVE  /\ ListRead(i)[i + 1] = ListStart(i)
         /\ \A j \in (i + 2) .. TOKENS_SIZE : ListRead(i)[j] = ListNext(ListRead(i)[j - 1], j - 1)
<1> DEFINE Q == Seq(STRING)
<1> DEFINE S == [depth: Int, output: Q]
<1> DEFINE N == TOKENS_SIZE
<1> DEFINE M == N - (i + 1)
<1> DEFINE g == [k \in 1 .. M |-> [s \in S |-> ListNext(s, i + k)]]
<1>1. N \in Nat /\ M \in Nat /\ \A c \in Nat : c < N => Token(c) \in TokenSet
  BY SourceTokens
<1>2. ListStart(i) \in S
  <2>1. << >> \in Q
    OBVIOUS
  <2> HIDE DEF Q
  <2> QED
    BY <2>1 DEF ListStart
<1>3. ASSUME NEW s \in S, NEW j \in Nat, j < N PROVE ListNext(s, j) \in S
  <2>1. Token(j) \in TokenSet
    BY <1>1, <1>3
  <2>2. CASE Type(j) \in {"STR", "INT"}
    <3>1. Token(j).str \in STRING
      BY <2>1, <2>2 DEF Type, TokenSet
    <3>2. Append(s.output, Token(j).str) \in Q
      BY <3>1
    <3>3. ListNext(s, j) = [s EXCEPT !.output = Append(@, Token(j).str)]
      BY <2>2 DEF ListNext
    <3> HIDE DEF Q
    <3> QED
      BY <3>2, <3>3
  <2>3. CASE Type(j) \notin {"STR", "INT"}
    <3> HIDE DEF Q
    <3> QED
      BY <2>3 DEF ListNext
  <2> QED
    BY <2>2, <2>3
<1>4. g \in [1 .. M -> [S -> S]]
  <2>1. \A k \in 1 .. M : i + k \in Nat /\ i + k < N
    BY <1>1
  <2>2. \A k \in 1 .. M : \A s \in S : ListNext(s, i + k) \in S
    BY <1>3, <2>1
  <2> HIDE DEF S, M
  <2> QED
    BY <2>2
<1>5. \A k \in 1 .. M : \A s \in S : g[k][s] = ListNext(s, i + k)
  OBVIOUS
<1> HIDE DEF S, g
<1>6. PICK f \in [0 .. M -> S] : Recurs(f, ListStart(i), g, M)
  <2> HIDE DEF M
  <2> QED
    BY <1>1, <1>2, <1>4, Recursion
<1>7. f[0] = ListStart(i) /\ \A k \in 1 .. M : f[k] = ListNext(f[k - 1], i + k)
  <2>1. \A k \in 1 .. M : f[k] = g[k][f[k - 1]] /\ f[k - 1] \in S
    BY <1>1, <1>6 DEF Recurs
  <2> QED
    BY <1>5, <1>6, <2>1 DEF Recurs
<1> DEFINE h == [j \in (i + 1) .. N |-> f[j - (i + 1)]]
<1>8. h = [j \in (i + 1) .. N |-> IF j = i + 1 THEN ListStart(i) ELSE ListNext(h[j - 1], j - 1)]
  <2>1. ASSUME NEW j \in (i + 1) .. N
        PROVE  h[j] = IF j = i + 1 THEN ListStart(i) ELSE ListNext(h[j - 1], j - 1)
    <3>1. CASE j = i + 1
      <4>1. j - (i + 1) = 0
        BY <3>1
      <4> QED
        BY <1>7, <3>1, <4>1
    <3>2. CASE j # i + 1
      <4> DEFINE k == j - (i + 1)
      <4>1. k \in 1 .. M /\ j - 1 \in (i + 1) .. N /\ j - 1 - (i + 1) = k - 1 /\ i + k = j - 1
        BY <1>1, <3>2
      <4>2. f[k] = ListNext(f[k - 1], i + k)
        BY <1>7, <4>1
      <4>3. h[j] = f[k] /\ h[j - 1] = f[k - 1]
        BY <4>1
      <4> HIDE DEF h, k
      <4> QED
        BY <3>2, <4>1, <4>2, <4>3
    <3> QED
      BY <3>1, <3>2
  <2>2. h = [j \in (i + 1) .. N |-> h[j]]
    OBVIOUS
  <2> HIDE DEF h
  <2> QED
    BY <2>1, <2>2
<1> HIDE DEF h
<1> DEFINE r == ListRead(i)
<1>9. r = [j \in (i + 1) .. N |-> IF j = i + 1 THEN ListStart(i) ELSE ListNext(r[j - 1], j - 1)]
  BY <1>8, Zenon DEF ListRead, ListStart, ListNext
<1> HIDE DEF r, N
<1>10. i + 1 \in (i + 1) .. N
  BY <1>1 DEF N
<1>11. r[i + 1] = ListStart(i)
  BY <1>9, <1>10
<1>12. ASSUME NEW j \in (i + 2) .. N PROVE r[j] = ListNext(r[j - 1], j - 1)
  <2>1. j \in (i + 1) .. N /\ j # i + 1
    OBVIOUS
  <2> QED
    BY <1>9, <2>1
<1> QED
  BY <1>11, <1>12 DEF r, N

(* The innermost m structs that are open after c lexemes are lists.        *)
Lists(c, m) ==
  m \in Nat /\ m <= Len(Stack(c)) /\ \A q \in 1 .. m : Stack(c)[q] = "l"

LEMMA ListsKept ==
  ASSUME Tokenized, Plain(torrent), NEW c \in Nat, c < kept, NEW m \in Nat, Lists(c, m)
  PROVE  /\ Lex(c).type = "l" => Type(c) = "LIST_START" /\ Lists(c + 1, m + 1)
         /\ Lex(c).type = "e" /\ m > 0 => Type(c) = "LIST_END" /\ Lists(c + 1, m - 1)
         /\ Lex(c).type = "STR" => Lists(c + 1, m)
<1> DEFINE S == {"l", "d"}
<1> DEFINE a == Stack(c)
<1> DEFINE b == Stack(c + 1)
<1>1. Spelled(Lex(c), a, b, Token(c)) /\ a \in Seq(S)
  BY SourceTokens
<1>2. m <= Len(a) /\ \A q \in 1 .. m : a[q] = "l"
  BY DEF Lists
<1>3. CASE Lex(c).type = "l"
  <2>1. Type(c) = "LIST_START" /\ b = << "l" >> \o a
    BY <1>1, <1>3 DEF Spelled, Type
  <2> DEFINE l == << "l" >>
  <2>2. l \in Seq(S) /\ Len(l) = 1 /\ l[1] = "l"
    OBVIOUS
  <2> HIDE DEF S, l, a, b
  <2>3. /\ Len(l \o a) = Len(l) + Len(a) /\ Len(a) \in Nat
        /\ \A q \in 1 .. (Len(l) + Len(a)) : (l \o a)[q] = IF q <= Len(l) THEN l[q] ELSE a[q - Len(l)]
    BY <1>1, <2>2, ConcatProperties, LenProperties
  <2>4. Len(b) = 1 + Len(a) /\ \A q \in 1 .. (1 + Len(a)) : b[q] = IF q <= 1 THEN l[q] ELSE a[q - 1]
    BY <2>1, <2>2, <2>3 DEF l
  <2>5. m + 1 <= Len(b)
    BY <1>2, <2>3, <2>4
  <2>6. ASSUME NEW q \in 1 .. (m + 1) PROVE b[q] = "l"
    <3>1. q \in 1 .. (1 + Len(a))
      BY <1>2, <2>3
    <3>2. CASE q = 1
      BY <2>2, <2>4, <3>1, <3>2
    <3>3. CASE q # 1
      <4>1. q - 1 \in 1 .. m /\ ~(q <= 1)
        BY <3>3
      <4> QED
        BY <1>2, <2>4, <3>1, <4>1
    <3> QED
      BY <3>2, <3>3
  <2> QED
    BY <1>3, <2>1, <2>5, <2>6 DEF Lists, b
<1>4. CASE Lex(c).type = "e" /\ m > 0
  <2>1. Len(a) \in Nat /\ a # << >>
    <3>1. Len(a) \in Nat
      <4> HIDE DEF S, a
      <4> QED
        BY <1>1, LenProperties
    <3>2. Len(a) # 0
      BY <1>2, <1>4, <3>1
    <3>3. a = << >> => Len(a) = 0
      BY EmptySeq
    <3> QED
      BY <3>1, <3>2, <3>3
  <2>2. Head(a) = a[1] /\ 1 \in 1 .. m
    BY <1>1, <1>4, <2>1
  <2>3. Head(a) = "l"
    BY <1>2, <2>2
  <2>4. Type(c) = "LIST_END" /\ b = Tail(a)
    BY <1>1, <1>4, <2>3 DEF Spelled, Type
  <2> HIDE DEF S, a, b
  <2>5. Len(Tail(a)) = Len(a) - 1 /\ \A q \in 1 .. (Len(a) - 1) : Tail(a)[q] = a[q + 1]
    BY <1>1, <2>1, HeadTailProperties
  <2>6. m - 1 \in Nat /\ m - 1 <= Len(b)
    BY <1>2, <1>4, <2>1, <2>4, <2>5
  <2>7. ASSUME NEW q \in 1 .. (m - 1) PROVE b[q] = "l"
    <3>1. q \in 1 .. (Len(a) - 1) /\ q + 1 \in 1 .. m
      BY <1>2, <1>4, <2>1
    <3> QED
      BY <1>2, <2>4, <2>5, <3>1
  <2> QED
    BY <1>4, <2>4, <2>6, <2>7 DEF Lists, b
<1>5. CASE Lex(c).type = "STR"
  <2>1. b = a
    BY <1>1, <1>5 DEF Spelled
  <2> QED
    BY <1>5, <2>1 DEF Lists
<1> QED
  BY <1>3, <1>4, <1>5

LEMMA OutputAppended ==
  ASSUME NEW d, NEW v, NEW z, NEW read, read = [depth |-> d, output |-> v]
  PROVE  [read EXCEPT !.output = Append(@, z)] = [depth |-> d, output |-> Append(v, z)]
OBVIOUS

(* The loop in a list that stands at i: the lists open and the values.     *)
LEMMA WithinList ==
  ASSUME Tokenized, Plain(torrent), NEW i \in Nat, i < kept, NEW x, NEW w, NEW D, NEW W, IsSeq(x),
         Stands(i, List(x)), Collects(x, w, D, W)
  PROVE  \A k \in 0 .. Len(x) : i + 1 + k <= kept =>
           /\ ListRead(i)[i + 1 + k] = [depth |-> 1 + D[k], output |-> W[k]]
           /\ Lists(i + 1 + k, 1 + D[k])
<1> DEFINE n == Len(x)
<1> DEFINE r == ListRead(i)
<1> DEFINE S == {"l", "d"}
<1>1. n \in Nat /\ Len(TheSource) \in Nat /\ kept \in Nat /\ TOKENS_SIZE \in Nat /\ kept <= TOKENS_SIZE
  BY SeqFacts, SourceTokens
<1>2. Stands(i, << Mark("l") >>) /\ Stands(i + 1, x)
  BY <1>1, ListStands
<1>3. Lex(i).type = "l"
  BY <1>2, OneStands DEF Mark
<1>4. \A k \in 1 .. n : Lex(i + k) = x[k]
  <2> SUFFICES ASSUME NEW k \in 1 .. n PROVE Lex(i + k) = x[k]
    OBVIOUS
  <2>1. TheSource[i + 1 + k] = x[k] /\ i + 1 + k = i + k + 1
    BY <1>2 DEF Stands
  <2> QED
    BY <2>1 DEF Lex
<1>5. /\ D \in [0 .. n -> Nat] /\ W \in [0 .. n -> Seq(STRING)] /\ D[0] = 0 /\ W[0] = << >>
      /\ \A k \in 1 .. n : Collected(x[k], D[k - 1], W[k - 1], D[k], W[k])
  BY DEF Collects
<1>6. i < TOKENS_SIZE
  BY <1>1
<1>7. r[i + 1] = ListStart(i) /\ \A j \in (i + 2) .. TOKENS_SIZE : r[j] = ListNext(r[j - 1], j - 1)
  BY <1>6, ListSteps
<1> HIDE DEF n, r
<1> DEFINE Good(k) == i + 1 + k <= kept =>
             /\ r[i + 1 + k] = [depth |-> 1 + D[k], output |-> W[k]]
             /\ Lists(i + 1 + k, 1 + D[k])
<1> DEFINE B == {k \in 0 .. n : ~Good(k)}
<1>8. B = {}
  <2> SUFFICES ASSUME B # {} PROVE FALSE
    OBVIOUS
  <2>1. PICK k \in B : \A j \in B : k <= j
    <3>1. B \in SUBSET Nat
      BY <1>1
    <3> HIDE DEF B
    <3> QED
      BY <3>1, Least
  <2>2. k \in 0 .. n /\ ~Good(k)
    OBVIOUS
  <2>3. \A j \in 0 .. n : j < k => Good(j)
    BY <1>1, <2>1, <2>2
  <2> HIDE DEF B
  <2>4. i + 1 + k <= kept
    BY <2>2
  <2>5. CASE k = 0
    <3>1. Lists(i, 0)
      <4>1. Stack(i) \in Seq(S)
        BY <1>1, SourceTokens
      <4> HIDE DEF S
      <4>2. Len(Stack(i)) \in Nat
        BY <4>1, LenProperties
      <4>3. \A q \in 1 .. 0 : FALSE
        OBVIOUS
      <4> QED
        BY <4>2, <4>3 DEF Lists
    <3>2. Type(i) = "LIST_START" /\ Lists(i + 1, 0 + 1)
      <4>1. 0 \in Nat
        OBVIOUS
      <4> QED
        BY <1>3, <3>1, <4>1, ListsKept
    <3>3. i + 1 + k = i + 1 /\ 0 + 1 = 1 + D[k]
      BY <1>5, <2>5
    <3>4. r[i + 1] = [depth |-> 1 + D[k], output |-> W[k]]
      BY <1>5, <1>7, <2>5, <3>2 DEF ListStart
    <3>5. Lists(i + 1 + k, 1 + D[k])
      BY <3>2, <3>3
    <3>6. r[i + 1 + k] = [depth |-> 1 + D[k], output |-> W[k]]
      BY <3>3, <3>4
    <3> QED
      BY <2>2, <3>5, <3>6
  <2>6. CASE k # 0
    <3> DEFINE c == i + k
    <3>1. k \in 1 .. n /\ k - 1 \in 0 .. n /\ k - 1 < k
      BY <1>1, <2>2, <2>6
    <3>2. c \in Nat /\ c < kept /\ i + 1 + k = c + 1 /\ i + 1 + (k - 1) = c /\ c <= kept
          /\ c + 1 \in (i + 2) .. TOKENS_SIZE /\ c + 1 - 1 = c
      BY <1>1, <2>4, <3>1
    <3>3. Good(k - 1)
      BY <2>3, <3>1
    <3> HIDE DEF c
    <3>4. r[c] = [depth |-> 1 + D[k - 1], output |-> W[k - 1]] /\ Lists(c, 1 + D[k - 1])
      BY <3>2, <3>3
    <3>5. Lex(c) = x[k]
      BY <1>4, <3>1 DEF c
    <3>6. D[k - 1] \in Nat /\ D[k] \in Nat
      BY <1>5, <2>2, <3>1
    <3>7. Collected(x[k], D[k - 1], W[k - 1], D[k], W[k])
      BY <1>5, <3>1
    <3>8. r[c + 1] = ListNext(r[c], c)
      BY <1>7, <3>2
    <3> DEFINE m == 1 + D[k - 1]
    <3>9. m \in Nat /\ m > 0 /\ Lists(c, m)
      BY <3>4, <3>6
    <3> HIDE DEF m
    <3>10. /\ Lex(c).type = "l" => Type(c) = "LIST_START" /\ Lists(c + 1, m + 1)
           /\ Lex(c).type = "e" /\ m > 0 => Type(c) = "LIST_END" /\ Lists(c + 1, m - 1)
           /\ Lex(c).type = "STR" => Lists(c + 1, m)
      BY <3>2, <3>9, ListsKept
    <3>11. r[c + 1] = [depth |-> 1 + D[k], output |-> W[k]] /\ Lists(c + 1, 1 + D[k])
      <4>1. CASE x[k].type = "l" /\ D[k] = D[k - 1] + 1 /\ W[k] = W[k - 1]
        <5>1. Type(c) = "LIST_START" /\ Lists(c + 1, m + 1) /\ m + 1 = 1 + D[k]
          BY <3>5, <3>6, <3>10, <4>1 DEF m
        <5>2. ListNext(r[c], c) = [r[c] EXCEPT !.depth = @ + 1]
          BY <5>1 DEF ListNext
        <5>3. ListNext(r[c], c) = [depth |-> 1 + D[k], output |-> W[k]]
          BY <3>4, <3>6, <4>1, <5>2
        <5> QED
          BY <3>8, <5>1, <5>3
      <4>2. CASE x[k].type = "e" /\ D[k] = D[k - 1] - 1 /\ W[k] = W[k - 1]
        <5>1. Type(c) = "LIST_END" /\ Lists(c + 1, m - 1) /\ m - 1 = 1 + D[k]
          BY <3>5, <3>6, <3>9, <3>10, <4>2 DEF m
        <5>2. ListNext(r[c], c) = [r[c] EXCEPT !.depth = @ - 1]
          BY <5>1 DEF ListNext
        <5>3. ListNext(r[c], c) = [depth |-> 1 + D[k], output |-> W[k]]
          BY <3>4, <3>6, <4>2, <5>2
        <5> QED
          BY <3>8, <5>1, <5>3
      <4>3. CASE x[k].type = "STR" /\ D[k] = D[k - 1] /\ W[k] = Append(W[k - 1], x[k].str)
        <5>1. Type(c) = "STR" /\ Token(c).str = x[k].str
          BY <3>2, <3>5, <4>3, TokenOf
        <5>2. Lists(c + 1, m) /\ m = 1 + D[k]
          BY <3>5, <3>10, <4>3 DEF m
        <5>3. ListNext(r[c], c) = [r[c] EXCEPT !.output = Append(@, Token(c).str)]
          BY <5>1 DEF ListNext
        <5>4. ListNext(r[c], c) = [depth |-> 1 + D[k], output |-> W[k]]
          <6> DEFINE v == W[k - 1]
          <6> DEFINE d == 1 + D[k - 1]
          <6> DEFINE z == x[k].str
          <6>1. r[c] = [depth |-> d, output |-> v]
            BY <3>4
          <6>2. ListNext(r[c], c) = [r[c] EXCEPT !.output = Append(@, z)]
            BY <5>1, <5>3
          <6>3. W[k] = Append(v, z) /\ 1 + D[k] = d
            BY <4>3
          <6> DEFINE g == r[c]
          <6> HIDE DEF v, d, z
          <6>4. ListNext(r[c], c) = [depth |-> d, output |-> Append(v, z)]
            <7>1. [g EXCEPT !.output = Append(@, z)] = [depth |-> d, output |-> Append(v, z)]
              <8>1. g = [depth |-> d, output |-> v]
                BY <6>1
              <8> HIDE DEF g
              <8> QED
                BY <8>1, OutputAppended
            <7> QED
              BY <6>2, <7>1, Zenon
          <6> QED
            BY <6>3, <6>4
        <5> QED
          BY <3>8, <5>2, <5>4
      <4> QED
        BY <3>7, <4>1, <4>2, <4>3 DEF Collected
    <3>12. r[i + 1 + k] = [depth |-> 1 + D[k], output |-> W[k]] /\ Lists(i + 1 + k, 1 + D[k])
      BY <3>2, <3>11
    <3> QED
      BY <2>2, <3>12
  <2> QED
    BY <2>5, <2>6
<1>9. \A k \in 0 .. n : Good(k)
  BY <1>8
<1> QED
  BY <1>9 DEF n, r

(* A list is read to its end and gives its strings; where the source ends  *)
(* within the list, the reader is past it.                                 *)
LEMMA ListIsRead ==
  ASSUME Tokenized, Plain(torrent), NEW i \in Nat, i < TOKENS_SIZE
  PROVE  /\ read_lists(i).next \in Nat /\ i < read_lists(i).next
         /\ \A x, w : Stands(i, List(x)) /\ Holds(x, w) =>
              IF i + Len(x) + 2 <= kept
              THEN read_lists(i).next = i + Len(x) + 2 /\ read_lists(i).output = w
              ELSE kept <= read_lists(i).next
<1> DEFINE r == ListRead(i)
<1> DEFINE stops == {j \in (i + 1) .. TOKENS_SIZE : \/ j = TOKENS_SIZE
                                                    \/ r[j].depth = 0
                                                    \/ Type(j) \in {"DICT_START", "DICT_END"}}
<1> DEFINE next == Min(stops)
<1>1. TOKENS_SIZE \in Nat /\ kept \in Nat /\ kept <= TOKENS_SIZE /\ Len(TheSource) \in Nat
  BY SourceTokens
<1>2. read_lists(i).next = next /\ read_lists(i).output = r[next].output
  BY DEF read_lists
<1>3. next \in stops /\ \A j \in stops : next <= j
  <2>1. stops \in SUBSET Nat /\ TOKENS_SIZE \in stops
    BY <1>1
  <2> HIDE DEF stops
  <2>2. \E x \in stops : \A y \in stops : x <= y
    BY <2>1, Least
  <2> QED
    BY <2>2, Zenon DEF Min
<1>4. next \in (i + 1) .. TOKENS_SIZE
  BY <1>3
<1> HIDE DEF next
<1>5. i < TOKENS_SIZE
  OBVIOUS
<1>6. ASSUME NEW x, NEW w, Stands(i, List(x)), Holds(x, w)
      PROVE  IF i + Len(x) + 2 <= kept
             THEN next = i + Len(x) + 2 /\ r[next].output = w
             ELSE kept <= next
  <2> DEFINE n == Len(x)
  <2>1. PICK D, W : Collects(x, w, D, W)
    BY <1>6 DEF Holds
  <2>2. IsSeq(x) /\ n \in Nat
    BY <1>6, SeqFacts DEF Holds
  <2>3. CASE ~(i < kept)
    BY <1>1, <1>4, <2>2, <2>3
  <2>4. CASE i < kept
    <3>1. \A k \in 0 .. n : i + 1 + k <= kept =>
            /\ r[i + 1 + k] = [depth |-> 1 + D[k], output |-> W[k]]
            /\ Lists(i + 1 + k, 1 + D[k])
      BY <1>6, <2>1, <2>2, <2>4, WithinList
    <3>2. /\ D \in [0 .. n -> Nat] /\ D[n] = 0 /\ W[n] = w
          /\ \A k \in 1 .. n : Collected(x[k], D[k - 1], W[k - 1], D[k], W[k])
      BY <2>1 DEF Collects
    <3>3. Stands(i + 1, x) /\ Stands(i + 1 + Len(x), << Mark("e") >>)
      BY <1>1, <1>6, <2>2, ListStands
    <3>4. \A k \in 0 .. (n - 1) : Lex(i + 1 + k) = x[k + 1]
      <4> SUFFICES ASSUME NEW k \in 0 .. (n - 1) PROVE Lex(i + 1 + k) = x[k + 1]
        OBVIOUS
      <4>1. k + 1 \in 1 .. n /\ i + 1 + (k + 1) = i + 1 + k + 1
        BY <2>2
      <4>2. TheSource[i + 1 + (k + 1)] = x[k + 1]
        BY <3>3, <4>1 DEF Stands
      <4> QED
        BY <4>1, <4>2 DEF Lex
    <3>5. Lex(i + 1 + n).type = "e"
      BY <3>3, OneStands DEF Mark
    <3> HIDE DEF n, r
    <3>6. ASSUME NEW k \in 0 .. n, i + 1 + k < kept
          PROVE  Type(i + 1 + k) \notin {"DICT_START", "DICT_END"}
                 /\ (k = n => Type(i + 1 + k) = "LIST_END")
      <4> DEFINE c == i + 1 + k
      <4>1. c \in Nat /\ c < kept /\ c <= kept
        BY <1>1, <3>6
      <4> DEFINE m == 1 + D[k]
      <4>2. m \in Nat /\ m > 0 /\ Lists(c, m)
        <5>1. D[k] \in Nat
          BY <3>2
        <5>2. m \in Nat /\ m > 0
          BY <5>1
        <5>3. Lists(c, m)
          BY <3>1, <4>1
        <5> QED
          BY <5>2, <5>3
      <4>3. k # n => Lex(c).type \in {"l", "e", "STR"}
        <5> SUFFICES ASSUME k # n PROVE Lex(c).type \in {"l", "e", "STR"}
          OBVIOUS
        <5>1. k \in 0 .. (n - 1) /\ k + 1 \in 1 .. n
          BY <2>2
        <5>2. Lex(c) = x[k + 1] /\ x[k + 1].type \in {"l", "e", "STR"}
          BY <3>2, <3>4, <5>1 DEF Collected
        <5> QED
          BY <5>2
      <4>4. k = n => Lex(c).type = "e"
        BY <3>5
      <4> HIDE DEF c, m
      <4>5. /\ Lex(c).type = "l" => Type(c) = "LIST_START"
            /\ Lex(c).type = "e" /\ m > 0 => Type(c) = "LIST_END"
        BY <4>1, <4>2, ListsKept
      <4>6. Lex(c).type = "STR" => Type(c) = "STR"
        BY <4>1, TokenOf
      <4>7. Type(c) \notin {"DICT_START", "DICT_END"} /\ (k = n => Type(c) = "LIST_END")
        BY <4>2, <4>3, <4>4, <4>5, <4>6
      <4> QED
        BY <4>7 DEF c
    <3>7. ASSUME NEW j \in stops, j < kept, j < i + n + 2 PROVE FALSE
      <4> DEFINE k == j - (i + 1)
      <4>1. j \in (i + 1) .. TOKENS_SIZE /\ j # TOKENS_SIZE
            /\ (r[j].depth = 0 \/ Type(j) \in {"DICT_START", "DICT_END"})
        BY <1>1, <3>7
      <4>2. k \in 0 .. n /\ i + 1 + k = j /\ i + 1 + k < kept /\ i + 1 + k <= kept
        BY <1>1, <2>2, <3>7, <4>1
      <4> HIDE DEF k
      <4>3. r[i + 1 + k] = [depth |-> 1 + D[k], output |-> W[k]] /\ D[k] \in Nat
        BY <3>1, <3>2, <4>2
      <4>4. r[i + 1 + k].depth # 0
        BY <4>3
      <4>5. Type(i + 1 + k) \notin {"DICT_START", "DICT_END"}
        BY <3>6, <4>2
      <4> QED
        BY <4>1, <4>2, <4>4, <4>5
    <3> DEFINE e == i + n + 2
    <3>8. CASE e <= kept
      <4> DEFINE c == i + 1 + n
      <4>1. c < kept /\ c <= kept /\ c + 1 = e /\ e \in (i + 2) .. TOKENS_SIZE /\ e - 1 = c /\ n \in 0 .. n
            /\ e \in (i + 1) .. TOKENS_SIZE
        BY <1>1, <2>2, <3>8
      <4> HIDE DEF e
      <4>2. r[c] = [depth |-> 1, output |-> w]
        BY <3>1, <3>2, <4>1
      <4>3. Type(c) = "LIST_END"
        BY <3>6, <4>1
      <4> HIDE DEF c
      <4>4. r[e] = ListNext(r[c], c)
        BY <1>5, <4>1, ListSteps DEF r
      <4>5. ListNext(r[c], c) = [r[c] EXCEPT !.depth = @ - 1]
        BY <4>3 DEF ListNext
      <4>6. r[e].depth = 0 /\ r[e].output = w
        BY <4>2, <4>4, <4>5
      <4>7. e \in stops
        BY <4>1, <4>6
      <4>8. next <= e
        BY <1>3, <4>7
      <4>9. ~(next < e)
        <5> SUFFICES ASSUME next < e PROVE FALSE
          OBVIOUS
        <5>1. next < kept
          BY <1>1, <1>4, <3>8, <4>1
        <5> QED
          BY <1>3, <3>7, <5>1 DEF e
      <4>10. next = e
        BY <1>1, <1>4, <4>1, <4>8, <4>9
      <4> QED
        BY <3>8, <4>6, <4>10 DEF e, n
    <3>9. CASE ~(e <= kept)
      <4>1. ~(next < kept)
        <5> SUFFICES ASSUME next < kept PROVE FALSE
          OBVIOUS
        <5>1. next < e
          BY <1>1, <1>4, <2>2, <3>9
        <5> QED
          BY <1>3, <3>7, <5>1
      <4>2. kept <= next
        BY <1>1, <1>4, <4>1
      <4> QED
        BY <3>9, <4>2 DEF n
    <3> QED
      BY <3>8, <3>9
  <2> QED
    BY <2>3, <2>4
<1> QED
  BY <1>1, <1>2, <1>4, <1>6
-----------------------------------------------------------------------------
(* The steps of the reading. They keep the tokens and where they are from. *)
LEMMA ParsedKept ==
  ASSUME Parsed, UNCHANGED << torrent, kept, tokens >>
  PROVE  Parsed'
<1>1. Source' = Source
  BY DEF Source
<1>2. parse(Source)' = parse(Source)
  BY <1>1
<1> QED
  BY <1>2 DEF Parsed

LEMMA StepKept ==
  ASSUME ReadNext, reading \in Walking
  PROVE  UNCHANGED << torrent, kept, tokens >> \/ reading' \notin Walking
<1>1. CASE parse_tokens
  BY <1>1 DEF parse_tokens, Walking
<1>2. CASE fill_piece_offsets
  BY <1>2 DEF fill_piece_offsets, Walking
<1>3. CASE \/ skip_token \/ process_ends \/ info_ends \/ files_end \/ file_ends \/ fill_files
           \/ fill_info \/ info_value \/ fill_str \/ fill_creation_date \/ file_begins
  BY <1>3, Zenon DEF skip_token, process_ends, info_ends, files_end, file_ends, fill_files,
     fill_info, info_value, fill_str, fill_creation_date, file_begins
<1>4. CASE fill_announce_list
  BY <1>4, Zenon DEF fill_announce_list
<1>5. CASE file_value
  BY <1>5, Zenon DEF file_value
<1>6. CASE fill_pieces
  BY <1>6, Zenon DEF fill_pieces
<1>7. CASE calculate_info_sha1
  BY <1>7, Zenon DEF calculate_info_sha1
<1> QED
  BY <1>1, <1>2, <1>3, <1>4, <1>5, <1>6, <1>7 DEF ReadNext

(* Past the end of the source nothing is read that could be loaded: what   *)
(* is there are the ends of structs.                                       *)
PiecesKept == "pieces" \in DOMAIN tf => "pieces" \in DOMAIN tf' /\ tf'.pieces = tf.pieces

MovedTo(c) == current_token' = c /\ PiecesKept /\ reading' \in Walking

(* The place at which each of the steps is taken.                          *)
LEMMA ReadingAt ==
  ASSUME ReadNext
  PROVE  /\ reading = "parse" => parse_tokens
         /\ reading = "process" => \/ skip_token \/ fill_str \/ fill_creation_date
                                   \/ fill_announce_list \/ process_ends \/ fill_info
         /\ reading = "fill_info" => info_value \/ fill_pieces \/ fill_files \/ info_ends
         /\ reading \in {"first_file", "next_file"} => file_begins \/ files_end
         /\ reading = "file" => file_value \/ file_ends
         /\ reading = "sha1" => calculate_info_sha1
         /\ reading = "offsets" => fill_piece_offsets
         /\ reading \in {"parse"} \union Walking
<1>1. parse_tokens => reading = "parse"
  BY Zenon DEF parse_tokens
<1>2. skip_token \/ fill_str \/ fill_creation_date \/ fill_announce_list \/ fill_info => reading = "process"
  BY Zenon DEF skip_token, fill_str, fill_creation_date, fill_announce_list, fill_info, Processing
<1>3. process_ends => reading = "process"
  BY Zenon DEF process_ends
<1>4. info_value \/ fill_pieces \/ fill_files => reading = "fill_info"
  BY Zenon DEF info_value, fill_pieces, fill_files, InInfo
<1>5. info_ends => reading = "fill_info"
  BY Zenon DEF info_ends
<1>6. file_begins \/ files_end => reading \in {"first_file", "next_file"}
  BY Zenon DEF file_begins, files_end
<1>7. file_value \/ file_ends => reading = "file"
  BY Zenon DEF file_value, file_ends
<1>8. calculate_info_sha1 => reading = "sha1"
  BY Zenon DEF calculate_info_sha1
<1>9. fill_piece_offsets => reading = "offsets"
  BY Zenon DEF fill_piece_offsets
<1> QED
  BY <1>1, <1>2, <1>3, <1>4, <1>5, <1>6, <1>7, <1>8, <1>9 DEF ReadNext, Walking

LEMMA ProcessMoves ==
  ASSUME ReadInv, ReadNext, reading = "process"
  PROVE  \/ MovedTo(current_token) /\ current_token >= TOKENS_SIZE
         \/ MovedTo(current_token + 1) \/ MovedTo(current_token + 2) \/ MovedTo(TOKENS_SIZE)
         \/ AtType("STR") /\ MovedTo(read_lists(current_token + 1).next)
<1>1. CASE skip_token
  BY <1>1 DEF skip_token, Processing, MovedTo, PiecesKept, Walking
<1>2. CASE fill_str
  <2>1. /\ current_token' = current_token + 2 /\ reading' = reading
        /\ tf' = IF Type(current_token + 1) = "STR"
                 THEN [tf EXCEPT !.str[AtKey] = Token(current_token + 1).str] ELSE tf
    BY <1>2, Zenon DEF fill_str
  <2>2. PiecesKept
    BY <2>1 DEF PiecesKept
  <2> QED
    BY <2>1, <2>2 DEF MovedTo, Walking
<1>3. CASE fill_creation_date
  <2>1. /\ current_token' = current_token + 2 /\ reading' = reading
        /\ tf' = IF Type(current_token + 1) = "INT"
                 THEN [tf EXCEPT !.creation_date = Token(current_token + 1).number] ELSE tf
    BY <1>3, Zenon DEF fill_creation_date
  <2>2. PiecesKept
    BY <2>1 DEF PiecesKept
  <2> QED
    BY <2>1, <2>2 DEF MovedTo, Walking
<1>4. CASE fill_announce_list
  <2>1. /\ current_token' = read_lists(current_token + 1).next /\ reading' = reading
        /\ tf' = [tf EXCEPT !.announce_list = read_lists(current_token + 1).output]
    BY <1>4, Zenon DEF fill_announce_list
  <2>2. PiecesKept
    BY <2>1 DEF PiecesKept
  <2>3. AtType("STR")
    BY <1>4 DEF fill_announce_list, AtKey
  <2> QED
    BY <2>1, <2>2, <2>3 DEF MovedTo, Walking
<1>5. CASE process_ends
  BY <1>5 DEF process_ends, MovedTo, PiecesKept, Walking
<1>6. CASE fill_info
  <2>1. \/ current_token' = current_token + 2 /\ reading' = "fill_info"
           /\ tf' = [tf EXCEPT !.files = Append(@, FileInfo)]
        \/ current_token' = TOKENS_SIZE /\ reading' = reading /\ tf' = tf
    BY <1>6, Zenon DEF fill_info
  <2>2. PiecesKept
    BY <2>1 DEF PiecesKept
  <2> QED
    BY <2>1, <2>2 DEF MovedTo, Walking
<1> QED
  BY <1>1, <1>2, <1>3, <1>4, <1>5, <1>6, ReadingAt

LEMMA InfoMoves ==
  ASSUME ReadInv, ReadNext, reading = "fill_info"
  PROVE  \/ AtType("STR") /\ MovedTo(current_token + 2)
         \/ AtType("STR") /\ Type(current_token + 1) = "STR"
         \/ ~AtType("STR") /\ (MovedTo(current_token + 1) \/ MovedTo(TOKENS_SIZE))
<1>1. CASE info_value
  <2> DEFINE c == current_token
  <2>1. /\ current_token' = c + 2 /\ reading' = reading
        /\ tf' = CASE At("piece length", "INT") -> [tf EXCEPT !.piece_size = TheNumber]
                   [] At("name", "STR")         -> [tf EXCEPT !.dir_name = TheStr]
                   [] At("md5sum", "STR")       -> [tf EXCEPT !.files[1].md5sum = TheStr]
                   [] At("length", "INT")       -> [tf EXCEPT !.files[1].size = TheNumber]
                   [] OTHER                     -> tf
    BY <1>1, Zenon DEF info_value
  <2>2. PiecesKept
    BY <2>1 DEF PiecesKept
  <2>3. AtType("STR")
    BY <1>1 DEF info_value, InInfo
  <2> QED
    BY <2>1, <2>2, <2>3 DEF MovedTo, Walking
<1>2. CASE fill_pieces
  BY <1>2 DEF fill_pieces, InInfo, At
<1>3. CASE fill_files
  <2>1. current_token' = current_token + 2 /\ reading' = "first_file" /\ tf' = tf
    BY <1>3, Zenon DEF fill_files
  <2>2. PiecesKept
    BY <2>1 DEF PiecesKept
  <2>3. AtType("STR")
    BY <1>3 DEF fill_files, InInfo
  <2> QED
    BY <2>1, <2>2, <2>3 DEF MovedTo, Walking
<1>4. CASE info_ends
  <2>1. /\ ~AtType("STR") /\ reading' = "process"
        /\ current_token' = IF AtType("DICT_END") THEN current_token + 1 ELSE TOKENS_SIZE
        /\ tf' = IF Len(tf.files) = 1
                 THEN [tf EXCEPT !.files[1].path = Append(@, tf.dir_name)]
                 ELSE [tf EXCEPT !.dir_path = << tf.dir_name >>]
    BY <1>4, Zenon DEF info_ends
  <2>2. PiecesKept
    BY <2>1 DEF PiecesKept
  <2> QED
    BY <2>1, <2>2 DEF MovedTo, Walking
<1> QED
  BY <1>1, <1>2, <1>3, <1>4, ReadingAt

LEMMA FileMoves ==
  ASSUME ReadInv, ReadNext, reading \in {"first_file", "next_file", "file"}
  PROVE  \/ MovedTo(current_token + 1) /\ reading # "file"
         \/ AtType("STR") /\ MovedTo(current_token + 2)
         \/ AtType("STR") /\ MovedTo(read_lists(current_token + 1).next + 1)
         \/ ~AtType("STR") /\ MovedTo(current_token)
<1>1. CASE file_begins
  <2>1. /\ current_token' = current_token + 1 /\ reading' = "file" /\ reading # "file"
        /\ tf' = IF reading = "first_file" THEN tf ELSE [tf EXCEPT !.files = Append(@, FileInfo)]
    BY <1>1 DEF file_begins
  <2>2. PiecesKept
    BY <2>1 DEF PiecesKept
  <2> QED
    BY <2>1, <2>2 DEF MovedTo, Walking
<1>2. CASE files_end
  BY <1>2 DEF files_end, MovedTo, PiecesKept, Walking
<1>3. CASE file_ends
  BY <1>3 DEF file_ends, MovedTo, PiecesKept, Walking
<1>4. CASE file_value
  <2>1. AtType("STR") /\ reading' = reading
    BY <1>4, Zenon DEF file_value
  <2>2. \/ /\ current_token' = read_lists(current_token + 1).next + 1
           /\ tf' = [tf EXCEPT !.files[Back].path = @ \o read_lists(current_token + 1).output]
        \/ /\ current_token' = current_token + 2
           /\ tf' = CASE At("md5sum", "STR") -> [tf EXCEPT !.files[Back].md5sum = TheStr]
                      [] At("length", "INT") -> [tf EXCEPT !.files[Back].size = TheNumber]
                      [] OTHER               -> tf
    BY <1>4, Zenon DEF file_value
  <2>3. PiecesKept
    BY <2>2 DEF PiecesKept
  <2> QED
    BY <2>1, <2>2, <2>3 DEF MovedTo, Walking
<1> QED
  BY <1>1, <1>2, <1>3, <1>4, ReadingAt

(* The hash leaves the other members alone.                                *)
LEMMA HashKept ==
  ASSUME calculate_info_sha1
  PROVE  /\ reading' = "offsets" /\ current_token' = current_token
         /\ \E v : tf' = [tf EXCEPT !.info_sha1 = v]
BY Zenon DEF calculate_info_sha1

LEMMA PastStep ==
  ASSUME Tokenized, Plain(torrent), ReadNext, reading \in Walking,
         "pieces" \in DOMAIN tf, tf.pieces = 0,
         \/ kept <= current_token
         \/ AtType("STR") /\ kept <= current_token + 1 /\ reading \notin {"sha1", "offsets"}
  PROVE  Past' \/ reading' \in {"refused", "crashed"}
<1> DEFINE c == current_token
<1>1. /\ ReadInv /\ c \in Nat /\ kept \in Nat /\ TOKENS_SIZE \in Nat /\ kept <= TOKENS_SIZE
      /\ \A i \in Nat : kept <= i /\ i < TOKENS_SIZE => Type(i) \in EndTypes
  BY SourceTokens DEF Tokenized
<1>2. kept' = kept \/ reading' \notin Walking
  BY StepKept
<1>3. ASSUME NEW i, MovedTo(i), kept <= i PROVE Past'
  BY <1>2, <1>3 DEF MovedTo, PiecesKept, Past
<1>4. kept <= c + 1 /\ kept <= c + 2
  BY <1>1
<1>5. AtType("STR") => /\ read_lists(c + 1).next \in Nat /\ kept <= read_lists(c + 1).next
                       /\ kept <= read_lists(c + 1).next + 1 /\ Type(c + 1) # "STR"
  <2> SUFFICES ASSUME AtType("STR")
               PROVE  /\ read_lists(c + 1).next \in Nat /\ kept <= read_lists(c + 1).next
                      /\ kept <= read_lists(c + 1).next + 1 /\ Type(c + 1) # "STR"
    OBVIOUS
  <2>1. c + 1 \in Nat /\ c + 1 < TOKENS_SIZE
    BY <1>1, StringFollowed DEF AtType
  <2>2. read_lists(c + 1).next \in Nat /\ c + 1 < read_lists(c + 1).next
    BY <2>1, ListIsRead
  <2>3. Type(c + 1) \in EndTypes
    BY <1>1, <1>4, <2>1
  <2>4. "STR" \notin EndTypes
    BY DEF EndTypes
  <2> DEFINE n == read_lists(c + 1).next
  <2> HIDE DEF n
  <2>5. n \in Nat /\ c + 1 < n
    BY <2>2 DEF n
  <2>6. kept <= n /\ kept <= n + 1
    BY <1>1, <1>4, <2>5
  <2> QED
    BY <2>3, <2>4, <2>5, <2>6 DEF n
<1>6. CASE reading = "process"
  <2>1. \/ MovedTo(c) /\ c >= TOKENS_SIZE
        \/ MovedTo(c + 1) \/ MovedTo(c + 2) \/ MovedTo(TOKENS_SIZE)
        \/ AtType("STR") /\ MovedTo(read_lists(c + 1).next)
    BY <1>1, <1>6, ProcessMoves
  <2>2. c >= TOKENS_SIZE => kept <= c
    BY <1>1
  <2> QED
    BY <1>1, <1>3, <1>4, <1>5, <2>1, <2>2
<1>7. CASE reading = "fill_info"
  <2>1. \/ AtType("STR") /\ MovedTo(c + 2)
        \/ AtType("STR") /\ Type(c + 1) = "STR"
        \/ ~AtType("STR") /\ (MovedTo(c + 1) \/ MovedTo(TOKENS_SIZE))
    BY <1>1, <1>7, InfoMoves
  <2> QED
    BY <1>1, <1>3, <1>4, <1>5, <2>1
<1>8. CASE reading \in {"first_file", "next_file", "file"}
  <2>1. \/ MovedTo(c + 1) /\ reading # "file"
        \/ AtType("STR") /\ MovedTo(c + 2)
        \/ AtType("STR") /\ MovedTo(read_lists(c + 1).next + 1)
        \/ ~AtType("STR") /\ MovedTo(c)
    BY <1>1, <1>8, FileMoves
  <2> QED
    BY <1>1, <1>3, <1>4, <1>5, <2>1
<1>9. CASE reading = "sha1"
  <2>1. calculate_info_sha1
    BY <1>9, ReadingAt
  <2>2. /\ reading' = "offsets" /\ current_token' = current_token
        /\ \E v : tf' = [tf EXCEPT !.info_sha1 = v]
    BY <2>1, HashKept
  <2>3. PiecesKept
    BY <2>2 DEF PiecesKept
  <2>4. MovedTo(c)
    BY <2>2, <2>3 DEF MovedTo, Walking
  <2> QED
    BY <1>3, <1>9, <2>4
<1>10. CASE reading = "offsets"
  <2>1. fill_piece_offsets
    BY <1>10, ReadingAt
  <2> QED
    BY <2>1 DEF fill_piece_offsets
<1> QED
  BY <1>6, <1>7, <1>8, <1>9, <1>10 DEF Walking
-----------------------------------------------------------------------------
(* Within the source the next lexeme says what the step is.                *)
LEMMA OrPast ==
  ASSUME Tokenized, Plain(torrent), ReadNext, reading \in Walking \ {"sha1", "offsets"},
         "pieces" \in DOMAIN tf, tf.pieces = 0
  PROVE  \/ Past' \/ reading' \in {"refused", "crashed"}
         \/ /\ current_token < kept
            /\ Lex(current_token).type = "STR" => current_token + 1 < kept
<1> DEFINE c == current_token
<1>1. c \in Nat /\ kept \in Nat
  BY SourceTokens
<1>2. CASE kept <= c
  BY <1>2, PastStep
<1>3. CASE c < kept
  <2>1. Lex(c).type = "STR" => AtType("STR")
    BY <1>1, <1>3, TokenOf DEF AtType
  <2>2. CASE Lex(c).type = "STR" /\ kept <= c + 1
    BY <2>1, <2>2, PastStep
  <2>3. CASE ~(Lex(c).type = "STR" /\ kept <= c + 1)
    BY <1>1, <1>3, <2>3
  <2> QED
    BY <2>2, <2>3
<1> QED
  BY <1>1, <1>2, <1>3

LEMMA NotProcessed ==
  ASSUME Tokenized, Plain(torrent), ReadNext, reading = "process", NEW c \in Nat, c = current_token,
         c < TOKENS_SIZE
  PROVE  AtKey = "" => /\ UNCHANGED << reading, torrent, kept, tokens, tf >>
                       /\ current_token' = c + 1
<1>1. skip_token \/ fill_str \/ fill_creation_date \/ fill_announce_list \/ process_ends \/ fill_info
  BY ReadingAt
<1>2. AtKey = "" => ~fill_str /\ ~fill_creation_date /\ ~fill_announce_list /\ ~fill_info
  BY Zenon DEF fill_str, fill_creation_date, fill_announce_list, fill_info
<1>3. ~process_ends
  <2>1. current_token \in Nat /\ TOKENS_SIZE \in Nat
    BY SourceTokens
  <2> QED
    BY <2>1 DEF process_ends
<1> QED
  BY <1>1, <1>2, <1>3 DEF skip_token

LEMMA KeyProcessed ==
  ASSUME Tokenized, Plain(torrent), ReadNext, reading = "process", NEW c \in Nat, c = current_token,
         c + 1 < kept, Lex(c).type = "STR"
  PROVE  /\ \A k \in {"announce", "comment"} : Lex(c).str = k /\ Lex(c + 1).type = "STR" =>
              /\ UNCHANGED << reading, torrent, kept, tokens >> /\ current_token' = c + 2
              /\ tf' = [tf EXCEPT !.str[k] = Lex(c + 1).str]
         /\ Lex(c).str = "creation date" /\ Lex(c + 1).type = "INT" =>
              /\ UNCHANGED << reading, torrent, kept, tokens >> /\ current_token' = c + 2
              /\ tf' = [tf EXCEPT !.creation_date = Lex(c + 1).number]
         /\ Lex(c).str = "announce-list" =>
              /\ UNCHANGED << reading, torrent, kept, tokens >>
              /\ current_token' = read_lists(c + 1).next
              /\ tf' = [tf EXCEPT !.announce_list = read_lists(c + 1).output]
         /\ Lex(c).str = "info" /\ Lex(c + 1).type = "d" =>
              /\ UNCHANGED << torrent, kept, tokens >> /\ current_token' = c + 2
              /\ reading' = "fill_info"
              /\ tf' = [tf EXCEPT !.files = Append(@, FileInfo)]
<1>1. /\ c < TOKENS_SIZE /\ Type(c) = "STR" /\ Token(c).str = Lex(c).str
      /\ Lex(c + 1).type \in {"INT", "STR"} =>
           /\ Type(c + 1) = Lex(c + 1).type /\ Token(c + 1).str = Lex(c + 1).str
           /\ Token(c + 1).number = Lex(c + 1).number
      /\ Lex(c + 1).type = "d" => Type(c + 1) = "DICT_START"
  <2>1. kept \in Nat /\ c < kept
    BY SourceTokens
  <2> QED
    BY <2>1, TokenOf
<1>2. AtKey = IF Lex(c).str \in Keys THEN Lex(c).str ELSE ""
  BY <1>1 DEF AtKey, AtType
<1>3. skip_token \/ fill_str \/ fill_creation_date \/ fill_announce_list \/ process_ends \/ fill_info
  BY ReadingAt
<1>4. ~process_ends
  <2>1. current_token \in Nat /\ TOKENS_SIZE \in Nat
    BY SourceTokens
  <2> QED
    BY <1>1, <2>1 DEF process_ends
<1>5. skip_token => AtKey = ""
  BY Zenon DEF skip_token
<1>6. fill_str => /\ AtKey \in {"announce", "comment"} /\ current_token' = c + 2
                  /\ UNCHANGED << reading, torrent, kept, tokens >>
                  /\ tf' = IF Type(c + 1) = "STR"
                           THEN [tf EXCEPT !.str[AtKey] = Token(c + 1).str] ELSE tf
  BY Zenon DEF fill_str
<1>7. fill_creation_date => /\ AtKey = "creation date" /\ current_token' = c + 2
                            /\ UNCHANGED << reading, torrent, kept, tokens >>
                            /\ tf' = IF Type(c + 1) = "INT"
                                     THEN [tf EXCEPT !.creation_date = Token(c + 1).number] ELSE tf
  BY Zenon DEF fill_creation_date
<1>8. fill_announce_list => /\ AtKey = "announce-list" /\ current_token' = read_lists(c + 1).next
                            /\ UNCHANGED << reading, torrent, kept, tokens >>
                            /\ tf' = [tf EXCEPT !.announce_list = read_lists(c + 1).output]
  BY Zenon DEF fill_announce_list
<1>9. fill_info => /\ AtKey = "info" /\ UNCHANGED << torrent, kept, tokens >>
                   /\ Type(c + 1) = "DICT_START" =>
                        /\ current_token' = c + 2 /\ reading' = "fill_info"
                        /\ tf' = [tf EXCEPT !.files = Append(@, FileInfo)]
  BY Zenon DEF fill_info
<1>10. ASSUME NEW k \in {"announce", "comment"}, Lex(c).str = k, Lex(c + 1).type = "STR"
       PROVE  /\ UNCHANGED << reading, torrent, kept, tokens >> /\ current_token' = c + 2
              /\ tf' = [tf EXCEPT !.str[k] = Lex(c + 1).str]
  <2>1. AtKey = k
    BY <1>2, <1>10 DEF Keys
  <2>2. fill_str
    BY <1>3, <1>4, <1>5, <1>7, <1>8, <1>9, <2>1
  <2> QED
    BY <1>1, <1>6, <1>10, <2>1, <2>2
<1>11. ASSUME Lex(c).str = "creation date", Lex(c + 1).type = "INT"
       PROVE  /\ UNCHANGED << reading, torrent, kept, tokens >> /\ current_token' = c + 2
              /\ tf' = [tf EXCEPT !.creation_date = Lex(c + 1).number]
  <2>1. AtKey = "creation date"
    BY <1>2, <1>11 DEF Keys
  <2>2. fill_creation_date
    BY <1>3, <1>4, <1>5, <1>6, <1>8, <1>9, <2>1
  <2> QED
    BY <1>1, <1>7, <1>11, <2>1, <2>2
<1>12. ASSUME Lex(c).str = "announce-list"
       PROVE  /\ UNCHANGED << reading, torrent, kept, tokens >>
              /\ current_token' = read_lists(c + 1).next
              /\ tf' = [tf EXCEPT !.announce_list = read_lists(c + 1).output]
  <2>1. AtKey = "announce-list"
    BY <1>2, <1>12 DEF Keys
  <2>2. fill_announce_list
    BY <1>3, <1>4, <1>5, <1>6, <1>7, <1>9, <2>1
  <2> QED
    BY <1>8, <2>2
<1>13. ASSUME Lex(c).str = "info", Lex(c + 1).type = "d"
       PROVE  /\ UNCHANGED << torrent, kept, tokens >> /\ current_token' = c + 2
              /\ reading' = "fill_info"
              /\ tf' = [tf EXCEPT !.files = Append(@, FileInfo)]
  <2>1. AtKey = "info"
    BY <1>2, <1>13 DEF Keys
  <2>2. fill_info
    BY <1>3, <1>4, <1>5, <1>6, <1>7, <1>8, <2>1
  <2> QED
    BY <1>1, <1>9, <1>13, <2>2
<1> QED
  BY <1>10, <1>11, <1>12, <1>13
LEMMA InfoWalked ==
  ASSUME Tokenized, Plain(torrent), ReadNext, reading = "fill_info", NEW c \in Nat, c = current_token,
         c + 1 < kept, Lex(c).type = "STR"
  PROVE  LET k == Lex(c).str
             v == Lex(c + 1)
             Steps(members) == /\ UNCHANGED << reading, torrent, kept, tokens >>
                               /\ current_token' = c + 2 /\ tf' = members
         IN  /\ k \notin InfoKeys => Steps(tf)
             /\ k = "piece length" /\ v.type = "INT" => Steps([tf EXCEPT !.piece_size = v.number])
             /\ k = "name" /\ v.type = "STR" => Steps([tf EXCEPT !.dir_name = v.str])
             /\ k = "md5sum" /\ v.type = "STR" => Steps([tf EXCEPT !.files[1].md5sum = v.str])
             /\ k = "length" /\ v.type = "INT" => Steps([tf EXCEPT !.files[1].size = v.number])
             /\ k = "files" /\ v.type = "l" =>
                  /\ UNCHANGED << torrent, kept, tokens, tf >> /\ reading' = "first_file"
                  /\ current_token' = c + 2
             /\ k = "pieces" /\ v.type = "STR" =>
                  \/ reading' = "refused"
                  \/ /\ v.length % SHA1_PIECE_LENGTH = 0
                     /\ UNCHANGED << reading, torrent, kept, tokens >> /\ current_token' = c + 3
                     /\ tf' = [tf EXCEPT !.pieces = @ + v.length \div SHA1_PIECE_LENGTH]
<1> DEFINE k == Lex(c).str
<1> DEFINE v == Lex(c + 1)
<1> DEFINE Steps(members) == /\ UNCHANGED << reading, torrent, kept, tokens >>
                             /\ current_token' = c + 2 /\ tf' = members
<1>1. /\ c < TOKENS_SIZE /\ Type(c) = "STR" /\ Token(c).str = k
      /\ v.type \in {"INT", "STR"} =>
           /\ Type(c + 1) = v.type /\ Token(c + 1).str = v.str
           /\ Token(c + 1).number = v.number /\ Token(c + 1).length = v.length
      /\ v.type = "l" <=> Type(c + 1) = "LIST_START"
  <2>1. kept \in Nat /\ c < kept
    BY SourceTokens
  <2> QED
    BY <2>1, TokenOf
<1>2. AtType("STR")
  BY <1>1 DEF AtType
<1>3. info_value \/ fill_pieces \/ fill_files \/ info_ends
  BY ReadingAt
<1>4. ~info_ends
  BY <1>2, Zenon DEF info_ends
<1>5. \A key, type : At(key, type) <=> k = key /\ Type(c + 1) = type
  BY <1>1 DEF At
<1>6. TheStr = Token(c + 1).str /\ TheNumber = Token(c + 1).number
  BY DEF TheStr, TheNumber
<1>7. info_value =>
        /\ ~At("pieces", "STR") /\ ~At("files", "LIST_START")
        /\ UNCHANGED << reading, torrent, kept, tokens >> /\ current_token' = c + 2
        /\ tf' = CASE At("piece length", "INT") -> [tf EXCEPT !.piece_size = TheNumber]
                   [] At("name", "STR")         -> [tf EXCEPT !.dir_name = TheStr]
                   [] At("md5sum", "STR")       -> [tf EXCEPT !.files[1].md5sum = TheStr]
                   [] At("length", "INT")       -> [tf EXCEPT !.files[1].size = TheNumber]
                   [] OTHER                     -> tf
  BY Zenon DEF info_value
<1>8. fill_pieces =>
        /\ At("pieces", "STR") /\ UNCHANGED << torrent, kept, tokens >>
        /\ \/ reading' = "refused"
           \/ /\ Token(c + 1).length % SHA1_PIECE_LENGTH = 0 /\ reading' = reading
              /\ current_token' = c + 3
              /\ tf' = [tf EXCEPT !.pieces = @ + Token(c + 1).length \div SHA1_PIECE_LENGTH]
  BY Zenon DEF fill_pieces
<1>9. fill_files => /\ At("files", "LIST_START") /\ UNCHANGED << torrent, kept, tokens, tf >>
                    /\ reading' = "first_file" /\ current_token' = c + 2
  BY Zenon DEF fill_files
<1> HIDE DEF k, v
<1>10. ASSUME k \notin InfoKeys PROVE Steps(tf)
  BY <1>3, <1>4, <1>5, <1>7, <1>8, <1>9, <1>10 DEF InfoKeys
<1>11. ASSUME k = "piece length", v.type = "INT" PROVE Steps([tf EXCEPT !.piece_size = v.number])
  BY <1>1, <1>3, <1>4, <1>5, <1>6, <1>7, <1>8, <1>9, <1>11
<1>12. ASSUME k = "name", v.type = "STR" PROVE Steps([tf EXCEPT !.dir_name = v.str])
  BY <1>1, <1>3, <1>4, <1>5, <1>6, <1>7, <1>8, <1>9, <1>12
<1>13. ASSUME k = "md5sum", v.type = "STR" PROVE Steps([tf EXCEPT !.files[1].md5sum = v.str])
  BY <1>1, <1>3, <1>4, <1>5, <1>6, <1>7, <1>8, <1>9, <1>13
<1>14. ASSUME k = "length", v.type = "INT" PROVE Steps([tf EXCEPT !.files[1].size = v.number])
  BY <1>1, <1>3, <1>4, <1>5, <1>6, <1>7, <1>8, <1>9, <1>14
<1>15. ASSUME k = "files", v.type = "l"
       PROVE  /\ UNCHANGED << torrent, kept, tokens, tf >> /\ reading' = "first_file"
              /\ current_token' = c + 2
  <2>1. At("files", "LIST_START") /\ ~At("pieces", "STR")
    BY <1>1, <1>5, <1>15
  <2> QED
    BY <1>3, <1>4, <1>7, <1>8, <1>9, <2>1, Zenon
<1>16. ASSUME k = "pieces", v.type = "STR"
       PROVE  \/ reading' = "refused"
              \/ /\ v.length % SHA1_PIECE_LENGTH = 0
                 /\ UNCHANGED << reading, torrent, kept, tokens >> /\ current_token' = c + 3
                 /\ tf' = [tf EXCEPT !.pieces = @ + v.length \div SHA1_PIECE_LENGTH]
  <2>1. At("pieces", "STR") /\ ~At("files", "LIST_START") /\ Token(c + 1).length = v.length
    BY <1>1, <1>5, <1>16
  <2> QED
    BY <1>3, <1>4, <1>7, <1>8, <1>9, <2>1
<1> QED
  BY <1>10, <1>11, <1>12, <1>13, <1>14, <1>15, <1>16 DEF k, v

LEMMA InfoLeft ==
  ASSUME Tokenized, Plain(torrent), ReadNext, reading = "fill_info"
  PROVE  ~AtType("STR") =>
           /\ UNCHANGED << torrent, kept, tokens >> /\ reading' = "process"
           /\ current_token' \in {current_token + 1, TOKENS_SIZE}
           /\ tf' = IF Len(tf.files) = 1
                    THEN [tf EXCEPT !.files[1].path = Append(@, tf.dir_name)]
                    ELSE [tf EXCEPT !.dir_path = << tf.dir_name >>]
<1>1. info_value \/ fill_pieces \/ fill_files \/ info_ends
  BY ReadingAt
<1>2. ~AtType("STR") => ~info_value /\ ~fill_pieces /\ ~fill_files
  BY Zenon DEF info_value, fill_pieces, fill_files, InInfo
<1>3. info_ends =>
        /\ UNCHANGED << torrent, kept, tokens >> /\ reading' = "process"
        /\ current_token' = IF AtType("DICT_END") THEN current_token + 1 ELSE TOKENS_SIZE
        /\ tf' = IF Len(tf.files) = 1
                 THEN [tf EXCEPT !.files[1].path = Append(@, tf.dir_name)]
                 ELSE [tf EXCEPT !.dir_path = << tf.dir_name >>]
  BY Zenon DEF info_ends
<1> QED
  BY <1>1, <1>2, <1>3

LEMMA FilesWalked ==
  ASSUME Tokenized, Plain(torrent), ReadNext, reading \in {"first_file", "next_file"},
         NEW c \in Nat, c = current_token, c < kept
  PROVE  /\ UNCHANGED << torrent, kept, tokens >> /\ current_token' = c + 1
         /\ Lex(c).type = "d" =>
              /\ reading' = "file"
              /\ tf' = IF reading = "first_file" THEN tf
                       ELSE [tf EXCEPT !.files = Append(@, FileInfo)]
         /\ Lex(c).type = "e" => reading' = "fill_info" /\ tf' = tf
<1>1. /\ c < TOKENS_SIZE
      /\ Lex(c).type = "d" <=> Type(c) = "DICT_START"
      /\ Lex(c).type = "e" <=> Type(c) \in EndTypes
  BY TokenOf
<1>2. /\ Lex(c).type = "d" => AtType("DICT_START")
      /\ Lex(c).type = "e" => ~AtType("DICT_START")
  BY <1>1 DEF AtType, EndTypes
<1>3. file_begins \/ files_end
  BY ReadingAt
<1>4. file_begins => /\ UNCHANGED << torrent, kept, tokens >> /\ current_token' = c + 1
                     /\ AtType("DICT_START") /\ reading' = "file"
                     /\ tf' = IF reading = "first_file" THEN tf
                              ELSE [tf EXCEPT !.files = Append(@, FileInfo)]
  BY Zenon DEF file_begins
<1>5. files_end => /\ UNCHANGED << torrent, kept, tokens, tf >> /\ current_token' = c + 1
                   /\ ~AtType("DICT_START") /\ reading' = "fill_info"
  BY Zenon DEF files_end
<1> QED
  BY <1>2, <1>3, <1>4, <1>5

LEMMA FileWalked ==
  ASSUME Tokenized, Plain(torrent), ReadNext, reading = "file", NEW c \in Nat, c = current_token, c < kept
  PROVE  LET k == Lex(c).str
             v == Lex(c + 1)
             Steps(members) == /\ UNCHANGED << reading, torrent, kept, tokens >>
                               /\ current_token' = c + 2 /\ tf' = members
         IN  /\ Lex(c).type # "STR" =>
                  UNCHANGED << torrent, kept, tokens, tf, current_token >> /\ reading' = "next_file"
             /\ Lex(c).type = "STR" /\ c + 1 < kept =>
                  /\ k = "md5sum" /\ v.type = "STR" => Steps([tf EXCEPT !.files[Back].md5sum = v.str])
                  /\ k = "length" /\ v.type = "INT" => Steps([tf EXCEPT !.files[Back].size = v.number])
                  /\ k = "path" /\ v.type = "l" =>
                       /\ UNCHANGED << reading, torrent, kept, tokens >>
                       /\ current_token' = read_lists(c + 1).next + 1
                       /\ tf' = [tf EXCEPT !.files[Back].path = @ \o read_lists(c + 1).output]
<1> DEFINE k == Lex(c).str
<1> DEFINE v == Lex(c + 1)
<1> DEFINE Steps(members) == /\ UNCHANGED << reading, torrent, kept, tokens >>
                             /\ current_token' = c + 2 /\ tf' = members
<1>1. /\ c < TOKENS_SIZE
      /\ Lex(c).type = "STR" <=> Type(c) = "STR"
      /\ Lex(c).type = "STR" => Token(c).str = k
  BY TokenOf
<1>2. c + 1 < kept =>
        /\ v.type \in {"INT", "STR"} =>
             /\ Type(c + 1) = v.type /\ Token(c + 1).str = v.str
             /\ Token(c + 1).number = v.number
        /\ v.type = "l" => Type(c + 1) = "LIST_START"
  BY TokenOf
<1>3. AtType("STR") <=> Lex(c).type = "STR"
  BY <1>1 DEF AtType
<1>4. file_value \/ file_ends
  BY ReadingAt
<1>5. file_ends => /\ UNCHANGED << torrent, kept, tokens, tf, current_token >>
                   /\ ~AtType("STR") /\ reading' = "next_file"
  BY Zenon DEF file_ends
<1>6. file_value =>
        /\ AtType("STR") /\ UNCHANGED << reading, torrent, kept, tokens >>
        /\ \/ /\ At("path", "LIST_START")
              /\ current_token' = read_lists(c + 1).next + 1
              /\ tf' = [tf EXCEPT !.files[Back].path = @ \o read_lists(c + 1).output]
           \/ /\ ~At("path", "LIST_START")
              /\ current_token' = c + 2
              /\ tf' = CASE At("md5sum", "STR") -> [tf EXCEPT !.files[Back].md5sum = TheStr]
                         [] At("length", "INT") -> [tf EXCEPT !.files[Back].size = TheNumber]
                         [] OTHER               -> tf
  BY Zenon DEF file_value
<1>7. \A key, type : At(key, type) <=> Token(c).str = key /\ Type(c + 1) = type
  BY DEF At
<1>8. TheStr = Token(c + 1).str /\ TheNumber = Token(c + 1).number
  BY DEF TheStr, TheNumber
<1> HIDE DEF k, v
<1>9. ASSUME Lex(c).type # "STR"
      PROVE  UNCHANGED << torrent, kept, tokens, tf, current_token >> /\ reading' = "next_file"
  BY <1>3, <1>4, <1>5, <1>6, <1>9
<1>10. ASSUME Lex(c).type = "STR", c + 1 < kept, k = "md5sum", v.type = "STR"
       PROVE  Steps([tf EXCEPT !.files[Back].md5sum = v.str])
  <2>1. ~At("path", "LIST_START") /\ At("md5sum", "STR") /\ ~At("length", "INT") /\ TheStr = v.str
    BY <1>1, <1>2, <1>7, <1>8, <1>10
  <2>2. file_value
    BY <1>3, <1>4, <1>5, <1>10
  <2>3. UNCHANGED << reading, torrent, kept, tokens >> /\ current_token' = c + 2
    BY <1>6, <2>1, <2>2
  <2>4. tf' = [tf EXCEPT !.files[Back].md5sum = TheStr]
    BY <1>6, <2>1, <2>2, Zenon
  <2>5. TheStr = v.str
    BY <2>1
  <2> QED
    BY <2>3, <2>4, <2>5, Zenon
<1>11. ASSUME Lex(c).type = "STR", c + 1 < kept, k = "length", v.type = "INT"
       PROVE  Steps([tf EXCEPT !.files[Back].size = v.number])
  <2>1. ~At("path", "LIST_START") /\ ~At("md5sum", "STR") /\ At("length", "INT") /\ TheNumber = v.number
    BY <1>1, <1>2, <1>7, <1>8, <1>11
  <2>2. file_value
    BY <1>3, <1>4, <1>5, <1>11
  <2> QED
    BY <1>6, <2>1, <2>2
<1>12. ASSUME Lex(c).type = "STR", c + 1 < kept, k = "path", v.type = "l"
       PROVE  /\ UNCHANGED << reading, torrent, kept, tokens >>
              /\ current_token' = read_lists(c + 1).next + 1
              /\ tf' = [tf EXCEPT !.files[Back].path = @ \o read_lists(c + 1).output]
  <2>1. At("path", "LIST_START")
    BY <1>1, <1>2, <1>7, <1>12
  <2>2. file_value
    BY <1>3, <1>4, <1>5, <1>12
  <2> QED
    BY <1>6, <2>1, <2>2, Zenon
<1> QED
  BY <1>9, <1>10, <1>11, <1>12 DEF k, v
-----------------------------------------------------------------------------
(* What stands at the landmarks before info.                               *)
LEMMA PairStands ==
  ASSUME NEW c, NEW k, NEW v, Stands(c, Pair(k, v))
  PROVE  IF v = "" THEN Len(Pair(k, v)) = 0
         ELSE Len(Pair(k, v)) = 2 /\ Lex(c) = Str(k) /\ Lex(c + 1) = Str(v)
<1>1. CASE v = ""
  <2>1. Pair(k, v) = << >>
    BY <1>1 DEF Pair, When
  <2> QED
    BY <1>1, <2>1
<1>2. CASE v # ""
  <2> DEFINE x == Str(k)
  <2> DEFINE y == Str(v)
  <2>1. Pair(k, v) = << x, y >>
    BY <1>2 DEF Pair, When
  <2> HIDE DEF x, y
  <2>2. Stands(c, << x, y >>)
    BY <2>1
  <2>3. Lex(c) = x /\ Lex(c + 1) = y
    BY <2>2, TwoStand
  <2> QED
    BY <1>2, <2>1, <2>3 DEF x, y
<1> QED
  BY <1>1, <1>2

LEMMA NoLists == ASSUME ReadInv, Plain(torrent), torrent.announce_list = << >> PROVE TheList = << >>
<1> DEFINE w == torrent.announce_list
<1>1. w \in Seq(Seq(STRING)) /\ w = << >>
  BY AnnounceTypes
<1> HIDE DEF w
<1>2. PICK f \in [0 .. Len(w) -> Seq(STRING)] : Flattens(f, w)
  BY <1>1, Flattening
<1>3. f[0] = << >> /\ f[Len(w)] = FlattenSeq(w)
  BY <1>2 DEF Flattens
<1>4. Len(w) = 0
  BY <1>1
<1> QED
  BY <1>3, <1>4 DEF TheList, w

LEMMA TopPlaces ==
  ASSUME ReadInv, Plain(torrent)
  PROVE  LET t == torrent
             lists == FlattenSeq(AnnounceLists(t))
         IN  /\ AtList(t) \in Nat /\ AtComment(t) \in Nat /\ AtDate(t) \in Nat /\ AtInfo(t) \in Nat
             /\ Lex(0).type = "d"
             /\ IF t.announce = "" THEN AtList(t) = 1
                ELSE Lex(1) = Str("announce") /\ Lex(2) = Str(t.announce) /\ AtList(t) = 3
             /\ IF t.announce_list = << >> THEN AtComment(t) = AtList(t) /\ TheList = << >>
                ELSE /\ Lex(AtList(t)) = Str("announce-list") /\ Stands(AtList(t) + 1, List(lists))
                     /\ Len(lists) \in Nat /\ AtComment(t) = AtList(t) + 1 + Len(lists) + 2
             /\ IF t.comment = "" THEN AtDate(t) = AtComment(t)
                ELSE /\ Lex(AtComment(t)) = Str("comment") /\ Lex(AtComment(t) + 1) = Str(t.comment)
                     /\ AtDate(t) = AtComment(t) + 2
             /\ IF t.date = 0 THEN AtInfo(t) = AtDate(t)
                ELSE /\ Lex(AtDate(t)) = Str("creation date") /\ Lex(AtDate(t) + 1) = Num(t.date)
                     /\ AtInfo(t) = AtDate(t) + 2
             /\ Lex(AtInfo(t)) = Str("info") /\ Lex(AtInfo(t) + 1).type = "d"
             /\ AtFirst(t) = AtInfo(t) + 2
<1> DEFINE t == torrent
<1> DEFINE lists == FlattenSeq(AnnounceLists(t))
<1>1. /\ AtList(t) \in Nat /\ AtComment(t) \in Nat /\ AtDate(t) \in Nat /\ AtInfo(t) \in Nat
      /\ Stands(0, << Mark("d") >>) /\ Stands(1, Pair("announce", t.announce))
      /\ Stands(AtList(t), ListLexemes(t)) /\ Stands(AtComment(t), Pair("comment", t.comment))
      /\ Stands(AtDate(t), DateLexemes(t)) /\ Stands(AtInfo(t), << Str("info") >>)
  BY BeforeInfoStands, Landmarks
<1>2. Stands(AtInfo(t) + 1, << Mark("d") >>) /\ Len(TheSource) \in Nat
  BY InfoStands, Landmarks, SourceSeq
<1>3. Mark("d").type = "d"
  BY DEF Mark
<1>4. Lex(0).type = "d" /\ Lex(AtInfo(t)) = Str("info") /\ Lex(AtInfo(t) + 1).type = "d"
  <2> DEFINE m == Mark("d")
  <2> DEFINE i == Str("info")
  <2> DEFINE n == AtInfo(t)
  <2>1. Stands(0, << m >>) /\ Stands(n, << i >>) /\ Stands(n + 1, << m >>) /\ m.type = "d"
    BY <1>1, <1>2, <1>3
  <2> HIDE DEF m, i, n
  <2>2. Lex(0) = m /\ Lex(n) = i /\ Lex(n + 1) = m
    BY <2>1, OneStands
  <2> QED
    BY <2>1, <2>2 DEF i, n
<1>5. IF t.announce = "" THEN AtList(t) = 1
      ELSE Lex(1) = Str("announce") /\ Lex(2) = Str(t.announce) /\ AtList(t) = 3
  <2> DEFINE n == Len(Pair("announce", t.announce))
  <2>1. IF t.announce = "" THEN n = 0
        ELSE n = 2 /\ Lex(1) = Str("announce") /\ Lex(1 + 1) = Str(t.announce)
    BY <1>1, PairStands
  <2>2. AtList(t) = 1 + n
    BY DEF AtList
  <2> HIDE DEF n
  <2>3. (n = 0 => AtList(t) = 1) /\ (n = 2 => AtList(t) = 3) /\ 1 + 1 = 2
    BY <2>2
  <2> QED
    BY <2>1, <2>3, Zenon
<1>6. IF t.announce_list = << >> THEN AtComment(t) = AtList(t) /\ TheList = << >>
      ELSE /\ Lex(AtList(t)) = Str("announce-list") /\ Stands(AtList(t) + 1, List(lists))
           /\ Len(lists) \in Nat /\ AtComment(t) = AtList(t) + 1 + Len(lists) + 2
  <2> DEFINE k == << Str("announce-list") >>
  <2> DEFINE s == Str("announce-list")
  <2> DEFINE x == List(lists)
  <2> DEFINE p == AtList(t)
  <2>1. ListLexemes(t) = IF t.announce_list = << >> THEN << >> ELSE k \o x
    BY Zenon DEF ListLexemes, When, AnnounceLists
  <2>2. AtComment(t) = p + Len(ListLexemes(t))
    BY DEF AtComment
  <2>3. IsSeq(lists) /\ Len(lists) \in Nat
    BY AnnounceListsSeq, SeqFacts
  <2>4. IsSeq(k) /\ Len(k) = 1 /\ k = << s >>
    BY ShortSeqs
  <2>5. p \in Nat /\ Stands(p, ListLexemes(t)) /\ Len(TheSource) \in Nat
    BY <1>1, <1>2
  <2>6. t.announce_list = << >> => TheList = << >>
    BY NoLists
  <2> HIDE DEF lists, t
  <2>7. IsSeq(x) /\ Len(x) = Len(lists) + 2
    BY <2>3, ListSeq
  <2> HIDE DEF x, k, p, s
  <2>8. Len(k \o x) = Len(k) + Len(x)
    BY <2>4, <2>7, Joined
  <2>9. CASE t.announce_list = << >>
    <3>1. Len(ListLexemes(t)) = 0
      BY <2>1, <2>9
    <3> QED
      BY <2>2, <2>5, <2>6, <2>9, <3>1 DEF p
  <2>10. CASE t.announce_list # << >>
    <3>1. ListLexemes(t) = k \o x
      BY <2>1, <2>10
    <3>2. Stands(p, k) /\ Stands(p + Len(k), x)
      <4>1. Stands(p, k \o x)
        BY <2>5, <3>1
      <4> QED
        BY <2>4, <2>5, <2>7, <4>1, StandsApart
    <3>3. Stands(p, << s >>) /\ Stands(p + 1, x)
      BY <2>4, <3>2
    <3>4. Lex(p) = s
      BY <3>3, OneStands
    <3>5. AtComment(t) = p + 1 + Len(lists) + 2
      <4> DEFINE m == Len(lists)
      <4>1. Len(ListLexemes(t)) = 1 + (m + 2) /\ m \in Nat /\ p \in Nat
        BY <2>3, <2>4, <2>5, <2>7, <2>8, <3>1
      <4>2. AtComment(t) = p + (1 + (m + 2))
        BY <2>2, <4>1
      <4> HIDE DEF m
      <4>3. AtComment(t) = p + 1 + m + 2
        BY <4>1, <4>2
      <4> QED
        BY <4>3 DEF m
    <3> QED
      BY <2>3, <2>10, <3>3, <3>4, <3>5 DEF p, s, x
  <2> QED
    BY <2>9, <2>10
<1>7. IF t.comment = "" THEN AtDate(t) = AtComment(t)
      ELSE /\ Lex(AtComment(t)) = Str("comment") /\ Lex(AtComment(t) + 1) = Str(t.comment)
           /\ AtDate(t) = AtComment(t) + 2
  <2> DEFINE n == Len(Pair("comment", t.comment))
  <2>1. IF t.comment = "" THEN n = 0
        ELSE n = 2 /\ Lex(AtComment(t)) = Str("comment") /\ Lex(AtComment(t) + 1) = Str(t.comment)
    BY <1>1, PairStands
  <2>2. AtDate(t) = AtComment(t) + n
    BY DEF AtDate
  <2> HIDE DEF n
  <2>3. AtComment(t) \in Nat
    BY <1>1
  <2>4. (n = 0 => AtDate(t) = AtComment(t)) /\ (n = 2 => AtDate(t) = AtComment(t) + 2)
    BY <2>2, <2>3
  <2> QED
    BY <2>1, <2>4, Zenon
<1>8. IF t.date = 0 THEN AtInfo(t) = AtDate(t)
      ELSE /\ Lex(AtDate(t)) = Str("creation date") /\ Lex(AtDate(t) + 1) = Num(t.date)
           /\ AtInfo(t) = AtDate(t) + 2
  <2> DEFINE n == Len(DateLexemes(t))
  <2> DEFINE p == AtDate(t)
  <2>1. AtInfo(t) = p + n /\ p \in Nat /\ Stands(p, DateLexemes(t))
    BY <1>1 DEF AtInfo
  <2>2. CASE t.date = 0
    <3>1. DateLexemes(t) = << >>
      BY <2>2 DEF DateLexemes, When
    <3>2. n = 0
      BY <3>1
    <3> HIDE DEF n, p
    <3> QED
      BY <2>1, <2>2, <3>2 DEF p
  <2>3. CASE t.date # 0
    <3> DEFINE x == Str("creation date")
    <3> DEFINE y == Num(t.date)
    <3>1. DateLexemes(t) = << x, y >>
      BY <2>3 DEF DateLexemes, When
    <3> HIDE DEF x, y
    <3>2. Len(<< x, y >>) = 2
      OBVIOUS
    <3>3. n = 2
      BY <3>1, <3>2
    <3> HIDE DEF n, p
    <3>4. Lex(p) = x /\ Lex(p + 1) = y
      BY <2>1, <3>1, TwoStand
    <3> QED
      BY <2>1, <2>3, <3>3, <3>4 DEF x, y, p
  <2> QED
    BY <2>2, <2>3
<1>9. AtFirst(t) = AtInfo(t) + 2
  BY DEF AtFirst
<1> QED
  BY <1>1, <1>4, <1>5, <1>6, <1>7, <1>8, <1>9

LEMMA Unread ==
  ASSUME NEW u, NEW l, NEW c, NEW d, NEW s, NEW n, NEW i, NEW f, NEW h,
         tf = Members(u, l, c, d, s, 0, n, i, f, h)
  PROVE  "pieces" \in DOMAIN tf /\ tf.pieces = 0
BY DEF Members
(* InfoWalked at each of the keys of a value.                              *)
LEMMA InfoNameRead ==
  ASSUME Tokenized, Plain(torrent), ReadNext, reading = "fill_info", NEW c \in Nat, NEW x, c = current_token,
         c + 1 < kept, Lex(c).type = "STR", Lex(c).str = "name",
         Lex(c + 1).type = "STR", Lex(c + 1).str = x
  PROVE  /\ UNCHANGED << reading, torrent, kept, tokens >> /\ current_token' = c + 2
         /\ tf' = [tf EXCEPT !.dir_name = x]
<1> DEFINE k == Lex(c).str
<1> DEFINE v == Lex(c + 1)
<1>1. k = "name" /\ v.type = "STR" =>
        /\ UNCHANGED << reading, torrent, kept, tokens >>
        /\ current_token' = c + 2 /\ tf' = [tf EXCEPT !.dir_name = v.str]
  BY InfoWalked
<1> QED
  BY <1>1

LEMMA InfoSizeRead ==
  ASSUME Tokenized, Plain(torrent), ReadNext, reading = "fill_info", NEW c \in Nat, NEW x, c = current_token,
         c + 1 < kept, Lex(c).type = "STR", Lex(c).str = "piece length",
         Lex(c + 1).type = "INT", Lex(c + 1).number = x
  PROVE  /\ UNCHANGED << reading, torrent, kept, tokens >> /\ current_token' = c + 2
         /\ tf' = [tf EXCEPT !.piece_size = x]
<1> DEFINE k == Lex(c).str
<1> DEFINE v == Lex(c + 1)
<1>1. k = "piece length" /\ v.type = "INT" =>
        /\ UNCHANGED << reading, torrent, kept, tokens >>
        /\ current_token' = c + 2 /\ tf' = [tf EXCEPT !.piece_size = v.number]
  BY InfoWalked
<1> QED
  BY <1>1

LEMMA InfoSumRead ==
  ASSUME Tokenized, Plain(torrent), ReadNext, reading = "fill_info", NEW c \in Nat, NEW x, c = current_token,
         c + 1 < kept, Lex(c).type = "STR", Lex(c).str = "md5sum",
         Lex(c + 1).type = "STR", Lex(c + 1).str = x
  PROVE  /\ UNCHANGED << reading, torrent, kept, tokens >> /\ current_token' = c + 2
         /\ tf' = [tf EXCEPT !.files[1].md5sum = x]
<1> DEFINE k == Lex(c).str
<1> DEFINE v == Lex(c + 1)
<1>1. k = "md5sum" /\ v.type = "STR" =>
        /\ UNCHANGED << reading, torrent, kept, tokens >>
        /\ current_token' = c + 2 /\ tf' = [tf EXCEPT !.files[1].md5sum = v.str]
  BY InfoWalked
<1> QED
  BY <1>1

LEMMA InfoLengthRead ==
  ASSUME Tokenized, Plain(torrent), ReadNext, reading = "fill_info", NEW c \in Nat, NEW x, c = current_token,
         c + 1 < kept, Lex(c).type = "STR", Lex(c).str = "length",
         Lex(c + 1).type = "INT", Lex(c + 1).number = x
  PROVE  /\ UNCHANGED << reading, torrent, kept, tokens >> /\ current_token' = c + 2
         /\ tf' = [tf EXCEPT !.files[1].size = x]
<1> DEFINE k == Lex(c).str
<1> DEFINE v == Lex(c + 1)
<1>1. k = "length" /\ v.type = "INT" =>
        /\ UNCHANGED << reading, torrent, kept, tokens >>
        /\ current_token' = c + 2 /\ tf' = [tf EXCEPT !.files[1].size = v.number]
  BY InfoWalked
<1> QED
  BY <1>1

(* FileWalked at a size, and at a checksum.                                *)
LEMMA FileSizeRead ==
  ASSUME Tokenized, Plain(torrent), ReadNext, reading = "file", NEW c \in Nat, NEW n, c = current_token,
         c < kept, c + 1 < kept, Lex(c).type = "STR", Lex(c).str = "length",
         Lex(c + 1).type = "INT", Lex(c + 1).number = n
  PROVE  /\ UNCHANGED << reading, torrent, kept, tokens >> /\ current_token' = c + 2
         /\ tf' = [tf EXCEPT !.files[Back].size = n]
<1> DEFINE k == Lex(c).str
<1> DEFINE v == Lex(c + 1)
<1>1. k = "length" /\ v.type = "INT" =>
        /\ UNCHANGED << reading, torrent, kept, tokens >>
        /\ current_token' = c + 2 /\ tf' = [tf EXCEPT !.files[Back].size = v.number]
  BY FileWalked
<1> QED
  BY <1>1

LEMMA FileSumRead ==
  ASSUME Tokenized, Plain(torrent), ReadNext, reading = "file", NEW c \in Nat, NEW s, c = current_token,
         c < kept, c + 1 < kept, Lex(c).type = "STR", Lex(c).str = "md5sum",
         Lex(c + 1).type = "STR", Lex(c + 1).str = s
  PROVE  /\ UNCHANGED << reading, torrent, kept, tokens >> /\ current_token' = c + 2
         /\ tf' = [tf EXCEPT !.files[Back].md5sum = s]
<1> DEFINE k == Lex(c).str
<1> DEFINE v == Lex(c + 1)
<1>1. k = "md5sum" /\ v.type = "STR" =>
        /\ UNCHANGED << reading, torrent, kept, tokens >>
        /\ current_token' = c + 2 /\ tf' = [tf EXCEPT !.files[Back].md5sum = v.str]
  BY FileWalked
<1> QED
  BY <1>1

LEMMA Kinds ==
  ASSUME NEW v
  PROVE  Str(v).type = "STR" /\ Str(v).str = v /\ Num(v).type = "INT" /\ Num(v).number = v
BY DEF Str, Bytes, Num

(* A key with its value, where both stand.                                 *)
LEMMA StrPair ==
  ASSUME NEW c, NEW k, NEW v, Lex(c) = Str(k), Lex(c + 1) = Str(v)
  PROVE  Lex(c).type = "STR" /\ Lex(c).str = k /\ Lex(c + 1).type = "STR" /\ Lex(c + 1).str = v
<1> DEFINE x == Lex(c)
<1> DEFINE y == Lex(c + 1)
<1> HIDE DEF x, y
<1>1. x.type = "STR" /\ x.str = k /\ y.type = "STR" /\ y.str = v
  <2>1. x = Str(k) /\ y = Str(v)
    BY DEF x, y
  <2> QED
    BY <2>1, Kinds
<1> QED
  BY <1>1 DEF x, y

LEMMA NumPair ==
  ASSUME NEW c, NEW k, NEW v, Lex(c) = Str(k), Lex(c + 1) = Num(v)
  PROVE  Lex(c).type = "STR" /\ Lex(c).str = k /\ Lex(c + 1).type = "INT" /\ Lex(c + 1).number = v
<1> DEFINE x == Lex(c)
<1> DEFINE y == Lex(c + 1)
<1> HIDE DEF x, y
<1>1. x.type = "STR" /\ x.str = k /\ y.type = "INT" /\ y.number = v
  <2>1. x = Str(k) /\ y = Num(v)
    BY DEF x, y
  <2> QED
    BY <2>1, Kinds
<1> QED
  BY <1>1 DEF x, y

LEMMA SmallSums ==
  /\ 0 \in Nat /\ 1 \in Nat /\ 0 + 1 = 1 /\ 1 + 1 = 2 /\ 1 + 2 = 3
  /\ \A n \in Nat : n + 1 \in Nat /\ n + 2 \in Nat /\ n + 3 \in Nat
OBVIOUS

(* The keys before info.                                                   *)
Failures == {"refused", "crashed"}

LEMMA StartRead ==
  ASSUME Tokenized, Plain(torrent), ReadNext, Read(0, "", << >>, "", 0)
  PROVE  TopPhase' \/ Past' \/ reading' \in Failures
<1> DEFINE c == 0
<1>1. reading = "process" /\ current_token = c /\ tf = Members("", << >>, "", 0, 0, 0, "", << >>, << >>, << >>)
  BY DEF Read
<1>2. "pieces" \in DOMAIN tf /\ tf.pieces = 0
  BY <1>1, Unread
<1>3. Lex(c).type = "d" /\ c \in Nat /\ c + 1 = 1
  <2>1. Lex(c).type = "d"
    BY TopPlaces DEF Tokenized
  <2> QED
    BY <2>1, SmallSums, Zenon
<1> HIDE DEF c
<1>4. CASE Past' \/ reading' \in {"refused", "crashed"}
  BY <1>4 DEF Failures
<1>5. CASE c < kept
  <2>1. c < TOKENS_SIZE /\ Type(c) = "DICT_START"
    BY <1>3, <1>5, TokenOf
  <2>2. AtKey = ""
    BY <1>1, <2>1 DEF AtKey, AtType
  <2>3. UNCHANGED << reading, torrent, kept, tokens, tf >> /\ current_token' = c + 1
    BY <1>1, <1>3, <2>1, <2>2, NotProcessed
  <2>4. current_token' = 1
    BY <1>3, <2>3
  <2>5. Read(1, "", << >>, "", 0)'
    BY <1>1, <2>3, <2>4 DEF Read
  <2> QED
    BY <2>5, Zenon DEF TopPhase
<1>6. c < kept \/ Past' \/ reading' \in {"refused", "crashed"}
  BY <1>1, <1>2, OrPast DEF Walking
<1> QED
  BY <1>4, <1>5, <1>6

LEMMA AnnounceRead ==
  ASSUME Tokenized, Plain(torrent), ReadNext, Read(1, "", << >>, "", 0), torrent.announce # ""
  PROVE  TopPhase' \/ Past' \/ reading' \in Failures
<1> DEFINE c == 1
<1>1. reading = "process" /\ current_token = c /\ tf = Members("", << >>, "", 0, 0, 0, "", << >>, << >>, << >>)
  BY DEF Read
<1>2. "pieces" \in DOMAIN tf /\ tf.pieces = 0
  BY <1>1, Unread
<1>3. /\ c \in Nat /\ Lex(c) = Str("announce") /\ Lex(c + 1) = Str(torrent.announce)
      /\ AtList(torrent) = c + 2
  <2>1. Lex(c) = Str("announce") /\ Lex(2) = Str(torrent.announce) /\ AtList(torrent) = 3
    BY TopPlaces DEF Tokenized
  <2>2. c \in Nat /\ c + 1 = 2 /\ c + 2 = 3
    BY SmallSums, Zenon
  <2> QED
    BY <2>1, <2>2, Zenon
<1>4. /\ Lex(c).type = "STR" /\ Lex(c).str = "announce"
      /\ Lex(c + 1).type = "STR" /\ Lex(c + 1).str = torrent.announce
  <2> HIDE DEF c
  <2> QED
    BY <1>3, StrPair
<1> HIDE DEF c
<1>5. CASE Past' \/ reading' \in {"refused", "crashed"}
  BY <1>5 DEF Failures
<1>6. CASE c + 1 < kept
  <2>1. /\ UNCHANGED << reading, torrent, kept, tokens >> /\ current_token' = c + 2
        /\ tf' = [tf EXCEPT !.str["announce"] = torrent.announce]
    BY <1>1, <1>3, <1>4, <1>6, KeyProcessed
  <2>2. tf' = Members(torrent.announce, << >>, "", 0, 0, 0, "", << >>, << >>, << >>)
    BY <1>1, <2>1 DEF Members
  <2>3. current_token' = AtList(torrent)
    BY <1>3, <2>1
  <2>4. Read(AtList(torrent), torrent.announce, << >>, "", 0)'
    BY <1>1, <2>1, <2>2, <2>3 DEF Read
  <2> QED
    BY <2>4, Zenon DEF TopPhase
<1>7. c + 1 < kept \/ Past' \/ reading' \in {"refused", "crashed"}
  BY <1>1, <1>2, <1>4, OrPast DEF Walking
<1> QED
  BY <1>5, <1>6, <1>7

LEMMA AnnounceListRead ==
  ASSUME Tokenized, Plain(torrent), ReadNext, Read(AtList(torrent), torrent.announce, << >>, "", 0),
         torrent.announce_list # << >>
  PROVE  TopPhase' \/ Past' \/ reading' \in Failures
<1> DEFINE c == AtList(torrent)
<1> DEFINE x == FlattenSeq(AnnounceLists(torrent))
<1>1. /\ reading = "process" /\ current_token = c
      /\ tf = Members(torrent.announce, << >>, "", 0, 0, 0, "", << >>, << >>, << >>)
  BY DEF Read
<1>2. "pieces" \in DOMAIN tf /\ tf.pieces = 0
  BY <1>1, Unread
<1>3. /\ c \in Nat /\ Lex(c) = Str("announce-list") /\ Stands(c + 1, List(x))
      /\ Len(x) \in Nat /\ AtComment(torrent) = c + 1 + Len(x) + 2
  BY TopPlaces DEF Tokenized
<1>4. Lex(c).type = "STR" /\ Lex(c).str = "announce-list"
  BY <1>3, Kinds
<1>5. Holds(x, TheList)
  BY AnnouncesHold DEF Tokenized, TheList
<1> HIDE DEF c, x
<1>6. CASE Past' \/ reading' \in {"refused", "crashed"}
  BY <1>6 DEF Failures
<1>7. CASE c + 1 < kept
  <2>1. /\ UNCHANGED << reading, torrent, kept, tokens >> /\ current_token' = read_lists(c + 1).next
        /\ tf' = [tf EXCEPT !.announce_list = read_lists(c + 1).output]
    BY <1>1, <1>3, <1>4, <1>7, KeyProcessed
  <2>2. c + 1 \in Nat /\ c + 1 < TOKENS_SIZE
    <3>1. c + 1 \in Nat
      BY <1>3, SmallSums, Zenon
    <3> QED
      BY <1>7, <3>1, TokenOf
  <2>3. IF c + 1 + Len(x) + 2 <= kept
        THEN read_lists(c + 1).next = c + 1 + Len(x) + 2 /\ read_lists(c + 1).output = TheList
        ELSE kept <= read_lists(c + 1).next
    BY <1>3, <1>5, <2>2, ListIsRead
  <2>4. CASE c + 1 + Len(x) + 2 <= kept
    <3>1. current_token' = AtComment(torrent)
      BY <1>3, <2>1, <2>3, <2>4
    <3>2. read_lists(c + 1).output = TheList
      BY <2>3, <2>4
    <3>3. tf' = Members(torrent.announce, TheList, "", 0, 0, 0, "", << >>, << >>, << >>)
      BY <1>1, <2>1, <3>2 DEF Members
    <3>4. TheList' = TheList
      BY <2>1 DEF TheList
    <3>5. Read(AtComment(torrent), torrent.announce, TheList, "", 0)'
      BY <1>1, <2>1, <3>1, <3>3, <3>4 DEF Read
    <3> QED
      BY <3>5, Zenon DEF TopPhase
  <2>5. CASE ~(c + 1 + Len(x) + 2 <= kept)
    <3>1. current_token' >= kept
      <4>1. kept <= read_lists(c + 1).next /\ read_lists(c + 1).next \in Nat /\ kept \in Nat
        BY <2>2, <2>3, <2>5, ListIsRead, SourceTokens
      <4> QED
        BY <2>1, <4>1
    <3>2. "pieces" \in DOMAIN tf' /\ tf'.pieces = 0
      BY <1>2, <2>1
    <3> QED
      BY <1>1, <2>1, <3>1, <3>2 DEF Past, Walking
  <2> QED
    BY <2>4, <2>5
<1>8. c + 1 < kept \/ Past' \/ reading' \in {"refused", "crashed"}
  BY <1>1, <1>2, <1>4, OrPast DEF Walking
<1> QED
  BY <1>6, <1>7, <1>8

LEMMA CommentRead ==
  ASSUME Tokenized, Plain(torrent), ReadNext, Read(AtComment(torrent), torrent.announce, TheList, "", 0),
         torrent.comment # ""
  PROVE  TopPhase' \/ Past' \/ reading' \in Failures
<1> DEFINE c == AtComment(torrent)
<1>1. /\ reading = "process" /\ current_token = c
      /\ tf = Members(torrent.announce, TheList, "", 0, 0, 0, "", << >>, << >>, << >>)
  BY DEF Read
<1>2. "pieces" \in DOMAIN tf /\ tf.pieces = 0
  BY <1>1, Unread
<1>3. /\ c \in Nat /\ Lex(c) = Str("comment") /\ Lex(c + 1) = Str(torrent.comment)
      /\ AtDate(torrent) = c + 2
  BY TopPlaces DEF Tokenized
<1>4. /\ Lex(c).type = "STR" /\ Lex(c).str = "comment"
      /\ Lex(c + 1).type = "STR" /\ Lex(c + 1).str = torrent.comment
  <2> HIDE DEF c
  <2> QED
    BY <1>3, StrPair
<1> HIDE DEF c
<1>5. CASE Past' \/ reading' \in {"refused", "crashed"}
  BY <1>5 DEF Failures
<1>6. CASE c + 1 < kept
  <2>1. /\ UNCHANGED << reading, torrent, kept, tokens >> /\ current_token' = c + 2
        /\ tf' = [tf EXCEPT !.str["comment"] = torrent.comment]
    BY <1>1, <1>3, <1>4, <1>6, KeyProcessed
  <2>2. tf' = Members(torrent.announce, TheList, torrent.comment, 0, 0, 0, "", << >>, << >>, << >>)
    BY <1>1, <2>1 DEF Members
  <2>3. current_token' = AtDate(torrent)
    BY <1>3, <2>1
  <2>4. TheList' = TheList
    BY <2>1 DEF TheList
  <2>5. Read(AtDate(torrent), torrent.announce, TheList, torrent.comment, 0)'
    BY <1>1, <2>1, <2>2, <2>3, <2>4 DEF Read
  <2> QED
    BY <2>5, Zenon DEF TopPhase
<1>7. c + 1 < kept \/ Past' \/ reading' \in {"refused", "crashed"}
  BY <1>1, <1>2, <1>4, OrPast DEF Walking
<1> QED
  BY <1>5, <1>6, <1>7

LEMMA DateRead ==
  ASSUME Tokenized, Plain(torrent), ReadNext, Read(AtDate(torrent), torrent.announce, TheList, torrent.comment, 0),
         torrent.date # 0
  PROVE  TopPhase' \/ Past' \/ reading' \in Failures
<1> DEFINE c == AtDate(torrent)
<1>1. /\ reading = "process" /\ current_token = c
      /\ tf = Members(torrent.announce, TheList, torrent.comment, 0, 0, 0, "", << >>, << >>, << >>)
  BY DEF Read
<1>2. "pieces" \in DOMAIN tf /\ tf.pieces = 0
  BY <1>1, Unread
<1>3. /\ c \in Nat /\ Lex(c) = Str("creation date") /\ Lex(c + 1) = Num(torrent.date)
      /\ AtInfo(torrent) = c + 2
  BY TopPlaces DEF Tokenized
<1>4. /\ Lex(c).type = "STR" /\ Lex(c).str = "creation date"
      /\ Lex(c + 1).type = "INT" /\ Lex(c + 1).number = torrent.date
  <2> HIDE DEF c
  <2> QED
    BY <1>3, NumPair
<1> HIDE DEF c
<1>5. CASE Past' \/ reading' \in {"refused", "crashed"}
  BY <1>5 DEF Failures
<1>6. CASE c + 1 < kept
  <2>1. /\ UNCHANGED << reading, torrent, kept, tokens >> /\ current_token' = c + 2
        /\ tf' = [tf EXCEPT !.creation_date = torrent.date]
    BY <1>1, <1>3, <1>4, <1>6, KeyProcessed
  <2>2. tf' = Members(torrent.announce, TheList, torrent.comment, torrent.date, 0, 0, "", << >>, << >>, << >>)
    BY <1>1, <2>1 DEF Members
  <2>3. current_token' = AtInfo(torrent)
    BY <1>3, <2>1
  <2>4. TheList' = TheList
    BY <2>1 DEF TheList
  <2>5. Read(AtInfo(torrent), torrent.announce, TheList, torrent.comment, torrent.date)'
    BY <1>1, <2>1, <2>2, <2>3, <2>4 DEF Read
  <2> QED
    BY <2>5, Zenon DEF TopPhase
<1>7. c + 1 < kept \/ Past' \/ reading' \in {"refused", "crashed"}
  BY <1>1, <1>2, <1>4, OrPast DEF Walking
<1> QED
  BY <1>5, <1>6, <1>7

LEMMA InfoEntered ==
  ASSUME Tokenized, Plain(torrent), ReadNext,
         Read(AtInfo(torrent), torrent.announce, TheList, torrent.comment, torrent.date)
  PROVE  FirstPhase(0)' \/ Past' \/ reading' \in Failures
<1> DEFINE c == AtInfo(torrent)
<1>1. /\ reading = "process" /\ current_token = c
      /\ tf = Members(torrent.announce, TheList, torrent.comment, torrent.date, 0, 0, "", << >>, << >>, << >>)
  BY DEF Read
<1>2. "pieces" \in DOMAIN tf /\ tf.pieces = 0
  BY <1>1, Unread
<1>3. c \in Nat /\ Lex(c) = Str("info") /\ Lex(c + 1).type = "d" /\ AtFirst(torrent) = c + 2
  BY TopPlaces DEF Tokenized
<1>4. Lex(c).type = "STR" /\ Lex(c).str = "info"
  <2> HIDE DEF c
  <2>1. Lex(c) = Str("info")
    BY <1>3
  <2> QED
    BY <2>1, Kinds
<1> HIDE DEF c
<1>5. CASE Past' \/ reading' \in {"refused", "crashed"}
  BY <1>5 DEF Failures
<1>6. CASE c + 1 < kept
  <2>1. /\ UNCHANGED << torrent, kept, tokens >> /\ current_token' = c + 2 /\ reading' = "fill_info"
        /\ tf' = [tf EXCEPT !.files = Append(@, FileInfo)]
    BY <1>1, <1>3, <1>4, <1>6, KeyProcessed
  <2>2. Append(<< >>, FileInfo) = Begun
    BY DEF Begun, InfoFile, FileInfo
  <2>3. tf' = Members(torrent.announce, TheList, torrent.comment, torrent.date, 0, 0, "", << >>, Begun, << >>)
    BY <1>1, <2>1, <2>2 DEF Members
  <2>4. TheList' = TheList /\ Begun' = Begun
    BY <2>1 DEF TheList, Begun, InfoFile
  <2>5. Len(torrent.first) \in Nat /\ AtFirst(torrent) \in Nat
    BY InfoStands DEF Tokenized
  <2>6. 0 \in 0 .. Len(torrent.first) /\ 0 % 2 = 0 /\ AtFirst(torrent) + 0 = AtFirst(torrent)
    BY <2>5
  <2>7. current_token' = AtFirst(torrent) + 0
    BY <1>3, <2>1, <2>6
  <2>8. ReadInfo(AtFirst(torrent) + 0, Begun, "", 0)'
    BY <2>1, <2>3, <2>4, <2>7 DEF ReadInfo
  <2>9. 0 \in 0 .. Len(torrent.first)'
    BY <2>1, <2>6
  <2> QED
    BY <2>1, <2>6, <2>8, <2>9 DEF FirstPhase
<1>7. c + 1 < kept \/ Past' \/ reading' \in {"refused", "crashed"}
  BY <1>1, <1>2, <1>4, OrPast DEF Walking
<1> QED
  BY <1>5, <1>6, <1>7

LEMMA TopStep ==
  ASSUME Tokenized, Plain(torrent), ReadNext, TopPhase
  PROVE  TopPhase' \/ FirstPhase(0)' \/ Past' \/ reading' \in Failures
<1>1. Read(1, "", << >>, "", 0) /\ torrent.announce = ""
        => Read(AtList(torrent), torrent.announce, << >>, "", 0)
  <2>1. torrent.announce = "" => AtList(torrent) = 1
    BY TopPlaces DEF Tokenized
  <2> QED
    BY <2>1
<1>2. Read(AtList(torrent), torrent.announce, << >>, "", 0) /\ torrent.announce_list = << >>
        => Read(AtComment(torrent), torrent.announce, TheList, "", 0)
  <2>1. torrent.announce_list = << >> => AtComment(torrent) = AtList(torrent) /\ TheList = << >>
    BY TopPlaces DEF Tokenized
  <2> QED
    BY <2>1
<1>3. Read(AtComment(torrent), torrent.announce, TheList, "", 0) /\ torrent.comment = ""
        => Read(AtDate(torrent), torrent.announce, TheList, torrent.comment, 0)
  <2>1. torrent.comment = "" => AtDate(torrent) = AtComment(torrent)
    BY TopPlaces DEF Tokenized
  <2> QED
    BY <2>1
<1>4. Read(AtDate(torrent), torrent.announce, TheList, torrent.comment, 0) /\ torrent.date = 0
        => Read(AtInfo(torrent), torrent.announce, TheList, torrent.comment, torrent.date)
  <2>1. torrent.date = 0 => AtInfo(torrent) = AtDate(torrent)
    BY TopPlaces DEF Tokenized
  <2> QED
    BY <2>1
<1> QED
  BY <1>1, <1>2, <1>3, <1>4, StartRead, AnnounceRead, AnnounceListRead, CommentRead, DateRead, InfoEntered
     DEF TopPhase
-----------------------------------------------------------------------------
(* In info, up to its files.                                               *)
LEMMA FirstPlaces ==
  ASSUME ReadInv, Plain(torrent), NEW m \in 0 .. Len(torrent.first), m % 2 = 0
  PROVE  LET c == AtFirst(torrent) + m
         IN  /\ c \in Nat /\ Len(torrent.first) \in Nat
             /\ m = Len(torrent.first) => c = AtFiles(torrent)
             /\ m # Len(torrent.first) =>
                  /\ Lex(c).type = "STR" /\ Lex(c).str \notin InfoKeys
                  /\ m + 2 \in 0 .. Len(torrent.first) /\ (m + 2) % 2 = 0
                  /\ c + 2 = AtFirst(torrent) + (m + 2)
<1> DEFINE f == torrent.first
<1> DEFINE p == AtFirst(torrent)
<1> DEFINE n == Len(f)
<1>1. p \in Nat /\ Stands(p, f) /\ n \in Nat
  BY InfoStands, Landmarks
<1>2. AtFiles(torrent) = p + n
  BY DEF AtFiles
<1>3. n % 2 = 0
  BY DEF Plain
<1>4. \A i \in DOMAIN f : i % 2 = 1 => f[i].type = "STR" /\ f[i].str \notin InfoKeys
  BY DEF Plain
<1>5. IsSeq(f)
  BY PlainTypes
<1>6. DOMAIN f = 1 .. n
  BY <1>5, SeqFacts
<1>7. m \in 0 .. n /\ m % 2 = 0
  OBVIOUS
<1> HIDE DEF f, p, n
<1>8. p + m \in Nat /\ (m = n => p + m = AtFiles(torrent))
  BY <1>1, <1>2, <1>7
<1>9. m # n => /\ m + 1 \in 1 .. n /\ (m + 1) % 2 = 1 /\ m + 2 \in 0 .. n /\ (m + 2) % 2 = 0
               /\ p + m + 2 = p + (m + 2) /\ p + (m + 1) = p + m + 1
  BY <1>1, <1>3, <1>7
<1>10. m # n => Lex(p + m).type = "STR" /\ Lex(p + m).str \notin InfoKeys
  <2> SUFFICES ASSUME m # n PROVE Lex(p + m).type = "STR" /\ Lex(p + m).str \notin InfoKeys
    OBVIOUS
  <2>1. m + 1 \in DOMAIN f /\ (m + 1) % 2 = 1
    BY <1>6, <1>9
  <2>2. f[m + 1].type = "STR" /\ f[m + 1].str \notin InfoKeys
    BY <1>4, <2>1
  <2>3. m + 1 \in 1 .. Len(f)
    BY <1>9 DEF n
  <2>4. TheSource[p + (m + 1)] = f[m + 1]
    BY <1>1, <2>3 DEF Stands
  <2>5. Lex(p + m) = f[m + 1]
    BY <1>9, <2>4 DEF Lex
  <2> QED
    BY <2>2, <2>5
<1> QED
  BY <1>1, <1>8, <1>9, <1>10 DEF f, p, n

LEMMA SinglePlaces ==
  ASSUME ReadInv, Plain(torrent), torrent.single
  PROVE  LET c == AtFiles(torrent)
             f == torrent.files[1]
         IN  /\ c \in Nat /\ Lex(c) = Str("length") /\ Lex(c + 1) = Num(f.length)
             /\ IF f.md5sum = "" THEN AtName(torrent) = c + 2
                ELSE /\ Lex(c + 2) = Str("md5sum") /\ Lex(c + 2 + 1) = Str(f.md5sum)
                     /\ AtName(torrent) = c + 2 + 2
<1> DEFINE c == AtFiles(torrent)
<1> DEFINE f == torrent.files[1]
<1> DEFINE n == Len(Pair("md5sum", f.md5sum))
<1> DEFINE x == Str("length")
<1> DEFINE y == Num(f.length)
<1>1. /\ Stands(c, << x, y >>) /\ Stands(c + 2, Pair("md5sum", f.md5sum))
      /\ n \in Nat /\ AtName(torrent) = c + 2 + n
  BY SingleStands
<1>2. IF f.md5sum = "" THEN n = 0
      ELSE n = 2 /\ Lex(c + 2) = Str("md5sum") /\ Lex(c + 2 + 1) = Str(f.md5sum)
  <2> DEFINE q == c + 2
  <2> DEFINE v == f.md5sum
  <2>1. Stands(q, Pair("md5sum", v))
    BY <1>1
  <2> HIDE DEF q, v
  <2>2. IF v = "" THEN Len(Pair("md5sum", v)) = 0
        ELSE Len(Pair("md5sum", v)) = 2 /\ Lex(q) = Str("md5sum") /\ Lex(q + 1) = Str(v)
    BY <2>1, PairStands, Zenon
  <2> QED
    BY <2>2, Zenon DEF q, v
<1>3. c \in Nat
  BY InfoStands
<1> HIDE DEF c, n, x, y
<1>4. Lex(c) = x /\ Lex(c + 1) = y
  BY <1>1, TwoStand
<1>5. c + 2 + 0 = c + 2
  BY <1>3
<1>6. (n = 0 => AtName(torrent) = c + 2) /\ (n = 2 => AtName(torrent) = c + 2 + 2)
  BY <1>1, <1>5
<1> QED
  BY <1>2, <1>3, <1>4, <1>6, Zenon DEF c, x, y

LEMMA FirstStep ==
  ASSUME Tokenized, Plain(torrent), ReadNext, NEW m, FirstPhase(m), m # Len(torrent.first)
  PROVE  (\E k \in 0 .. Len(torrent.first) : FirstPhase(k))' \/ Past' \/ reading' \in Failures
<1> DEFINE c == AtFirst(torrent) + m
<1>1. /\ reading = "fill_info" /\ m \in 0 .. Len(torrent.first) /\ m % 2 = 0
      /\ current_token = c
      /\ tf = Members(torrent.announce, TheList, torrent.comment, torrent.date, 0, 0, "", << >>, Begun, << >>)
  BY DEF FirstPhase, ReadInfo
<1>2. "pieces" \in DOMAIN tf /\ tf.pieces = 0
  BY <1>1, Unread
<1>3. /\ c \in Nat
      /\ Lex(c).type = "STR" /\ Lex(c).str \notin InfoKeys
      /\ m + 2 \in 0 .. Len(torrent.first) /\ (m + 2) % 2 = 0
      /\ c + 2 = AtFirst(torrent) + (m + 2)
  BY <1>1, FirstPlaces DEF Tokenized
<1> HIDE DEF c
<1>4. CASE Past' \/ reading' \in {"refused", "crashed"}
  BY <1>4 DEF Failures
<1>5. CASE c + 1 < kept
  <2>1. UNCHANGED << reading, torrent, kept, tokens, tf >> /\ current_token' = c + 2
    BY <1>1, <1>3, <1>5, InfoWalked
  <2>2. current_token' = AtFirst(torrent) + (m + 2)
    BY <1>3, <2>1
  <2>3. TheList' = TheList /\ Begun' = Begun
    BY <2>1 DEF TheList, Begun, InfoFile
  <2> DEFINE k == m + 2
  <2>4. k \in 0 .. Len(torrent.first) /\ k % 2 = 0 /\ current_token' = AtFirst(torrent) + k
    BY <1>3, <2>2
  <2> HIDE DEF k
  <2>5. reading' = "fill_info" /\ k \in 0 .. Len(torrent.first)' /\ current_token' = AtFirst(torrent)' + k
    BY <1>1, <2>1, <2>4
  <2>6. tf' = Members(torrent.announce, TheList, torrent.comment, torrent.date, 0, 0, "", << >>, Begun, << >>)'
    BY <1>1, <2>1, <2>3
  <2>7. FirstPhase(k)'
    BY <2>4, <2>5, <2>6 DEF FirstPhase, ReadInfo
  <2> QED
    BY <2>5, <2>7
<1>6. c + 1 < kept \/ Past' \/ reading' \in {"refused", "crashed"}
  BY <1>1, <1>2, <1>3, OrPast DEF Walking
<1> QED
  BY <1>4, <1>5, <1>6

(* A member of a file is set.                                              *)
WithSize(i, v) == [i EXCEPT !.size = v]
WithSum(i, v)  == [i EXCEPT !.md5sum = v]
WithPath(i, v) == [i EXCEPT !.path = v]

LEMMA FileChanged ==
  ASSUME NEW a, NEW b, NEW c, NEW v
  PROVE  /\ WithSize(InfoFile(a, b, c), v) = InfoFile(v, b, c)
         /\ WithSum(InfoFile(a, b, c), v) = InfoFile(a, v, c)
         /\ WithPath(InfoFile(a, b, c), v) = InfoFile(a, b, v)
         /\ InfoFile(a, b, c).path = c
BY DEF InfoFile, WithSize, WithSum, WithPath

LEMMA OneChanged == ASSUME NEW a, NEW b PROVE [<< a >> EXCEPT ![1] = b] = << b >>
OBVIOUS

LEMMA LengthRead ==
  ASSUME Tokenized, Plain(torrent), ReadNext, FirstPhase(Len(torrent.first)), torrent.single
  PROVE  SizePhase' \/ Past' \/ reading' \in Failures
<1> DEFINE c == AtFiles(torrent)
<1> DEFINE n == torrent.files[1].length
<1>1. /\ reading = "fill_info" /\ current_token = c
      /\ tf = Members(torrent.announce, TheList, torrent.comment, torrent.date, 0, 0, "", << >>, Begun, << >>)
  BY FirstPlaces DEF FirstPhase, ReadInfo, Tokenized
<1>2. "pieces" \in DOMAIN tf /\ tf.pieces = 0
  BY <1>1, Unread
<1>3. c \in Nat /\ Lex(c) = Str("length") /\ Lex(c + 1) = Num(n)
  BY SinglePlaces DEF Tokenized
<1>4. Lex(c).type = "STR" /\ Lex(c).str = "length" /\ Lex(c + 1).type = "INT" /\ Lex(c + 1).number = n
  <2> HIDE DEF c
  <2> QED
    BY <1>3, NumPair
<1> HIDE DEF c
<1>5. CASE Past' \/ reading' \in {"refused", "crashed"}
  BY <1>5 DEF Failures
<1>6. CASE c + 1 < kept
  <2>1. /\ UNCHANGED << reading, torrent, kept, tokens >> /\ current_token' = c + 2
        /\ tf' = [tf EXCEPT !.files[1].size = n]
    BY <1>1, <1>3, <1>4, <1>6, InfoLengthRead
  <2> HIDE DEF n
  <2> DEFINE i == InfoFile(0, "", << >>)
  <2> DEFINE j == InfoFile(n, "", << >>)
  <2>2. WithSize(i, n) = j /\ Begun = << i >>
    <3>2. WithSize(i, n) = j
      <4> DEFINE a == 0
      <4> DEFINE b == ""
      <4> DEFINE d == << >>
      <4>1. i = InfoFile(a, b, d) /\ j = InfoFile(n, b, d)
        OBVIOUS
      <4> HIDE DEF a, b, d, i, j
      <4> QED
        BY <4>1, FileChanged
    <3>3. Begun = << i >>
      BY DEF Begun
    <3> QED
      BY <3>2, <3>3
  <2> HIDE DEF i
  <2>3. tf' = Members(torrent.announce, TheList, torrent.comment, torrent.date, 0, 0, "", << >>,
                      << j >>, << >>)
    <3> HIDE DEF j
    <3>1. [<< i >> EXCEPT ![1] = j] = << j >>
      BY OneChanged
    <3>2. tf' = Members(torrent.announce, TheList, torrent.comment, torrent.date, 0, 0, "", << >>,
                        [<< i >> EXCEPT ![1] = WithSize(<< i >>[1], n)], << >>)
      BY <1>1, <2>1, <2>2 DEF Members, WithSize
    <3>3. << i >>[1] = i
      OBVIOUS
    <3> QED
      BY <2>2, <3>1, <3>2, <3>3
  <2>4. TheList' = TheList /\ n' = n
    BY <2>1 DEF TheList, n
  <2>5. current_token' = AtFiles(torrent)' + 2 /\ reading' = "fill_info" /\ torrent.single'
    BY <1>1, <2>1 DEF c
  <2>6. tf' = Members(torrent.announce, TheList, torrent.comment, torrent.date, 0, 0, "", << >>,
                      << InfoFile(n, "", << >>) >>, << >>)'
    BY <2>1, <2>3, <2>4
  <2> QED
    BY <2>5, <2>6 DEF SizePhase, ReadInfo, n
<1>7. c + 1 < kept \/ Past' \/ reading' \in {"refused", "crashed"}
  BY <1>1, <1>2, <1>4, OrPast DEF Walking
<1> QED
  BY <1>5, <1>6, <1>7

LEMMA Md5Read ==
  ASSUME Tokenized, Plain(torrent), ReadNext, SizePhase
  PROVE  NamePhase' \/ Past' \/ reading' \in Failures \/ torrent.files[1].md5sum = ""
<1> DEFINE c == AtFiles(torrent) + 2
<1> DEFINE n == torrent.files[1].length
<1> DEFINE s == torrent.files[1].md5sum
<1>1. /\ reading = "fill_info" /\ torrent.single /\ current_token = c
      /\ tf = Members(torrent.announce, TheList, torrent.comment, torrent.date, 0, 0, "", << >>,
                      << InfoFile(n, "", << >>) >>, << >>)
  BY DEF SizePhase, ReadInfo
<1>2. "pieces" \in DOMAIN tf /\ tf.pieces = 0
  BY <1>1, Unread
<1>0. WithSum(InfoFile(n, "", << >>), s) = InfoFile(n, s, << >>)
  <2> DEFINE b == ""
  <2> DEFINE d == << >>
  <2> HIDE DEF b, d, n, s
  <2>1. WithSum(InfoFile(n, b, d), s) = InfoFile(n, s, d)
    BY FileChanged
  <2> QED
    BY <2>1, Zenon DEF b, d
<1> SUFFICES ASSUME s # "" PROVE NamePhase' \/ Past' \/ reading' \in Failures
  OBVIOUS
<1>3. /\ c \in Nat /\ Lex(c) = Str("md5sum") /\ Lex(c + 1) = Str(s) /\ AtName(torrent) = c + 2
  <2>1. /\ AtFiles(torrent) \in Nat /\ Lex(c) = Str("md5sum") /\ Lex(c + 1) = Str(s)
        /\ AtName(torrent) = c + 2
    BY <1>1, SinglePlaces DEF Tokenized
  <2> QED
    BY <2>1, SmallSums, Zenon
<1>4. Lex(c).type = "STR" /\ Lex(c).str = "md5sum" /\ Lex(c + 1).type = "STR" /\ Lex(c + 1).str = s
  <2> HIDE DEF c, s
  <2> QED
    BY <1>3, StrPair
<1> HIDE DEF c
<1>5. CASE Past' \/ reading' \in {"refused", "crashed"}
  BY <1>5 DEF Failures
<1>6. CASE c + 1 < kept
  <2>1. /\ UNCHANGED << reading, torrent, kept, tokens >> /\ current_token' = c + 2
        /\ tf' = [tf EXCEPT !.files[1].md5sum = s]
    BY <1>1, <1>3, <1>4, <1>6, InfoSumRead
  <2>2. FilesRead = << InfoFile(n, s, << >>) >>
    BY <1>1 DEF FilesRead
  <2> HIDE DEF n, s
  <2> DEFINE i == InfoFile(n, "", << >>)
  <2> DEFINE j == InfoFile(n, s, << >>)
  <2>3. WithSum(i, s) = j
    BY <1>0, Zenon DEF n, s
  <2>4. tf' = Members(torrent.announce, TheList, torrent.comment, torrent.date, 0, 0, "", << >>,
                      << j >>, << >>)
    <3>1. tf = Members(torrent.announce, TheList, torrent.comment, torrent.date, 0, 0, "", << >>,
                       << i >>, << >>)
      BY <1>1 DEF n
    <3> HIDE DEF i, j
    <3>2. [<< i >> EXCEPT ![1] = j] = << j >>
      BY OneChanged
    <3>3. tf' = Members(torrent.announce, TheList, torrent.comment, torrent.date, 0, 0, "", << >>,
                        [<< i >> EXCEPT ![1] = WithSum(<< i >>[1], s)], << >>)
      BY <2>1, <3>1 DEF Members, WithSum
    <3>4. << i >>[1] = i
      OBVIOUS
    <3> QED
      BY <2>3, <3>2, <3>3, <3>4
  <2>5. TheList' = TheList /\ FilesRead' = FilesRead
    BY <2>1 DEF TheList, FilesRead, FilesTo
  <2>6. current_token' = AtName(torrent)' /\ reading' = "fill_info"
    BY <1>1, <1>3, <2>1
  <2>7. tf' = Members(torrent.announce, TheList, torrent.comment, torrent.date, 0, 0, "", << >>,
                      FilesRead, << >>)'
    BY <2>1, <2>2, <2>4, <2>5
  <2> QED
    BY <2>6, <2>7 DEF NamePhase, ReadInfo
<1>7. c + 1 < kept \/ Past' \/ reading' \in {"refused", "crashed"}
  BY <1>1, <1>2, <1>4, OrPast DEF Walking
<1> QED
  BY <1>5, <1>6, <1>7
-----------------------------------------------------------------------------
(* The last of the files that are read.                                    *)
LEMMA Appended ==
  ASSUME NEW q, IsSeq(q), NEW x, NEW y
  PROVE  LET p == Append(q, x)
         IN  /\ IsSeq(p) /\ Len(p) = Len(q) + 1 /\ p[Len(p)] = x
             /\ [p EXCEPT ![Len(p)] = y] = Append(q, y)
<1> DEFINE S == {q[i] : i \in 1 .. Len(q)} \union {x, y}
<1>1. q \in Seq(S)
  <2>1. \A i \in 1 .. Len(q) : q[i] \in S
    OBVIOUS
  <2> HIDE DEF S
  <2> QED
    BY <2>1, SeqIn
<1>2. x \in S /\ y \in S
  OBVIOUS
<1> HIDE DEF S
<1> DEFINE n == Len(q) + 1
<1> DEFINE p == Append(q, x)
<1> DEFINE r == Append(q, y)
<1>3. /\ p \in Seq(S) /\ Len(p) = n /\ p[n] = x /\ \A i \in 1 .. Len(q) : p[i] = q[i]
      /\ r \in Seq(S) /\ Len(r) = n /\ r[n] = y /\ \A i \in 1 .. Len(q) : r[i] = q[i]
  BY <1>1, <1>2, AppendProperties
<1>4. Len(q) \in Nat /\ DOMAIN p = 1 .. n /\ DOMAIN r = 1 .. n /\ n \in 1 .. n
  BY <1>1, <1>3
<1> HIDE DEF p, r
<1>5. p = [i \in 1 .. n |-> p[i]] /\ r = [i \in 1 .. n |-> r[i]]
  BY <1>3, <1>4
<1>6. [p EXCEPT ![n] = y] = [i \in 1 .. n |-> IF i = n THEN y ELSE p[i]]
  BY <1>4, <1>5
<1>7. \A i \in 1 .. n : r[i] = IF i = n THEN y ELSE p[i]
  <2>1. \A i \in 1 .. n : i = n \/ i \in 1 .. Len(q)
    BY <1>4
  <2> QED
    BY <1>3, <2>1
<1>8. [p EXCEPT ![n] = y] = r
  BY <1>5, <1>6, <1>7
<1>9. IsSeq(p)
  BY <1>3 DEF IsSeq
<1> QED
  BY <1>3, <1>8, <1>9 DEF p, r

BackSized(k, v)  == [tf EXCEPT !.files[k].size = v]
BackSummed(k, v) == [tf EXCEPT !.files[k].md5sum = v]
BackPath(k, v)   == [tf EXCEPT !.files[k].path = v]

Put(p, k, y) == [p EXCEPT ![k] = y]

LEMMA FileSet ==
  ASSUME NEW u, NEW l, NEW c, NEW e, NEW s, NEW m, NEW n, NEW r, NEW h, NEW p, NEW k, NEW v,
         tf = Members(u, l, c, e, s, m, n, r, p, h)
  PROVE  /\ BackSized(k, v) = Members(u, l, c, e, s, m, n, r, Put(p, k, WithSize(p[k], v)), h)
         /\ BackSummed(k, v) = Members(u, l, c, e, s, m, n, r, Put(p, k, WithSum(p[k], v)), h)
         /\ BackPath(k, v)
               = Members(u, l, c, e, s, m, n, r, Put(p, k, WithPath(p[k], v)), h)
<1>1. BackSized(k, v) = Members(u, l, c, e, s, m, n, r, Put(p, k, WithSize(p[k], v)), h)
  BY DEF Members, WithSize, BackSized, Put
<1>2. BackSummed(k, v) = Members(u, l, c, e, s, m, n, r, Put(p, k, WithSum(p[k], v)), h)
  BY DEF Members, WithSum, BackSummed, Put
<1>3. BackPath(k, v)
        = Members(u, l, c, e, s, m, n, r, Put(p, k, WithPath(p[k], v)), h)
  BY DEF Members, WithPath, BackPath, Put
<1> QED
  BY <1>1, <1>2, <1>3

LEMMA BackSet ==
  ASSUME NEW u, NEW l, NEW c, NEW e, NEW s, NEW m, NEW n, NEW r, NEW h,
         NEW q, IsSeq(q), NEW a, NEW b, NEW d, NEW v,
         tf = Members(u, l, c, e, s, m, n, r, Append(q, InfoFile(a, b, d)), h)
  PROVE  /\ BackSized(Back, v) = Members(u, l, c, e, s, m, n, r, Append(q, InfoFile(v, b, d)), h)
         /\ BackSummed(Back, v) = Members(u, l, c, e, s, m, n, r, Append(q, InfoFile(a, v, d)), h)
         /\ BackPath(Back, v) = Members(u, l, c, e, s, m, n, r, Append(q, InfoFile(a, b, v)), h)
         /\ tf.files[Back].path = d
<1> DEFINE x == InfoFile(a, b, d)
<1> DEFINE p == Append(q, x)
<1>1. /\ WithSize(x, v) = InfoFile(v, b, d) /\ WithSum(x, v) = InfoFile(a, v, d)
      /\ WithPath(x, v) = InfoFile(a, b, v) /\ x.path = d
  BY FileChanged
<1> HIDE DEF x
<1>2. p[Len(p)] = x /\ \A y : Put(p, Len(p), y) = Append(q, y)
  BY Appended DEF Put
<1>3. tf = Members(u, l, c, e, s, m, n, r, p, h)
  BY DEF x
<1> HIDE DEF p
<1>4. Back = Len(p)
  BY <1>3 DEF Back, Members
<1> DEFINE k == Back
<1>5. p[k] = x /\ \A y : Put(p, k, y) = Append(q, y)
  BY <1>2, <1>4
<1> HIDE DEF k
<1>6. /\ BackSized(k, v) = Members(u, l, c, e, s, m, n, r, Put(p, k, WithSize(p[k], v)), h)
      /\ BackSummed(k, v) = Members(u, l, c, e, s, m, n, r, Put(p, k, WithSum(p[k], v)), h)
      /\ BackPath(k, v)
            = Members(u, l, c, e, s, m, n, r, Put(p, k, WithPath(p[k], v)), h)
  BY <1>3, FileSet
<1>7. /\ Put(p, k, WithSize(p[k], v)) = Append(q, InfoFile(v, b, d))
      /\ Put(p, k, WithSum(p[k], v)) = Append(q, InfoFile(a, v, d))
      /\ Put(p, k, WithPath(p[k], v)) = Append(q, InfoFile(a, b, v))
  BY <1>1, <1>5, Zenon
<1>8. tf.files[k].path = d
  <2>1. tf.files = p
    BY <1>3 DEF Members
  <2> QED
    BY <1>1, <1>5, <2>1
<1> QED
  BY <1>6, <1>7, <1>8, Zenon DEF k

(* The files that are read so far.                                         *)
LEMMA FilesGrow ==
  ASSUME ReadInv, Plain(torrent), NEW i \in 1 .. Len(torrent.files)
  PROVE  LET f == torrent.files[i]
         IN  /\ IsSeq(FilesTo(i - 1))
             /\ Append(FilesTo(i - 1), InfoFile(f.length, f.md5sum, f.path)) = FilesTo(i)
<1> DEFINE g(k) == InfoFile(torrent.files[k].length, torrent.files[k].md5sum, torrent.files[k].path)
<1> DEFINE S == {g(k) : k \in 1 .. Len(torrent.files)}
<1>1. Len(torrent.files) \in Nat
  BY PlainTypes
<1>2. \A k \in 1 .. Len(torrent.files) : g(k) \in S
  OBVIOUS
<1>3. FilesTo(i - 1) = [k \in 1 .. (i - 1) |-> g(k)] /\ FilesTo(i) = [k \in 1 .. i |-> g(k)]
  BY DEF FilesTo
<1> HIDE DEF g, S
<1>4. i - 1 \in Nat /\ i \in Nat /\ i - 1 + 1 = i /\ \A k \in 1 .. i : k \in 1 .. Len(torrent.files)
      /\ \A j \in 1 .. (i - 1) : j \in 1 .. Len(torrent.files)
  BY <1>1
<1> DEFINE q == FilesTo(i - 1)
<1>5. q \in Seq(S) /\ Len(q) = i - 1
  BY <1>2, <1>3, <1>4
<1>6. IsSeq(q)
  BY <1>5 DEF IsSeq
<1>7. Append(q, g(i)) = FilesTo(i)
  <2>1. \A k \in 1 .. (i - 1) : q[k] = g(k)
    BY <1>3
  <2> HIDE DEF q
  <2>2. g(i) \in S
    BY <1>2
  <2> DEFINE y == g(i)
  <2> DEFINE r == Append(q, y)
  <2>3. r \in Seq(S) /\ Len(r) = i /\ r[i] = y /\ \A k \in 1 .. (i - 1) : r[k] = q[k]
    <3> HIDE DEF y
    <3>1. r \in Seq(S) /\ Len(r) = Len(q) + 1 /\ r[Len(q) + 1] = y /\ \A k \in 1 .. Len(q) : r[k] = q[k]
      BY <1>5, <2>2, AppendProperties DEF y
    <3> HIDE DEF r
    <3> QED
      BY <1>4, <1>5, <3>1
  <2>4. r = [k \in 1 .. i |-> r[k]]
    <3> HIDE DEF r
    <3> QED
      BY <2>3
  <2>5. \A k \in 1 .. i : r[k] = g(k)
    <3>1. \A k \in 1 .. i : k = i \/ k \in 1 .. (i - 1)
      BY <1>4
    <3> HIDE DEF r
    <3> QED
      BY <2>1, <2>3, <3>1 DEF y
  <2> HIDE DEF r
  <2>6. r = [k \in 1 .. i |-> g(k)]
    BY <2>4, <2>5
  <2> QED
    BY <1>3, <2>6 DEF r
<1> QED
  BY <1>6, <1>7 DEF q, g

LEMMA NoFiles == FilesTo(0) = << >>
<1> DEFINE g(k) == InfoFile(torrent.files[k].length, torrent.files[k].md5sum, torrent.files[k].path)
<1> DEFINE q == FilesTo(0)
<1>1. q = [k \in 1 .. 0 |-> g(k)]
  BY DEF FilesTo
<1> HIDE DEF g, q
<1>2. q \in Seq({0}) /\ Len(q) = 0
  BY <1>1
<1>3. q = << >>
  BY <1>2, EmptySeq
<1> QED
  BY <1>3 DEF q

LEMMA FilePlaces ==
  ASSUME ReadInv, Plain(torrent), ~torrent.single, NEW i \in 1 .. Len(torrent.files)
  PROVE  LET c == AtFile(torrent, i)
             f == torrent.files[i]
             m == Len(Pair("md5sum", f.md5sum))
         IN  /\ c \in Nat /\ m \in Nat /\ Len(f.path) \in Nat
             /\ Lex(c).type = "d"
             /\ Lex(c + 1) = Str("length") /\ Lex(c + 1 + 1) = Num(f.length)
             /\ IF f.md5sum = "" THEN m = 0
                ELSE m = 2 /\ Lex(c + 3) = Str("md5sum") /\ Lex(c + 3 + 1) = Str(f.md5sum)
             /\ Lex(c + 3 + m) = Str("path")
             /\ Stands(c + 3 + m + 1, List(Strs(f.path))) /\ Len(Strs(f.path)) = Len(f.path)
             /\ AtFile(torrent, i + 1) = c + 3 + m + 1 + Len(f.path) + 2 + 1
             /\ IsSeq(f.path) /\ f.path \in Seq(STRING)
<1> DEFINE c == AtFile(torrent, i)
<1> DEFINE f == torrent.files[i]
<1> DEFINE m == Len(Pair("md5sum", f.md5sum))
<1>1. IsSeq(f.path) /\ f.path \in Seq(STRING) /\ Len(torrent.files) \in Nat
  BY PlainTypes
<1>2. /\ i \in 1 .. (Len(torrent.files) + 1)
  BY <1>1
<1>3. /\ Stands(c, FileDict(torrent, f)) /\ AtFile(torrent, i + 1) = c + Len(FileDict(torrent, f))
      /\ c \in Nat
  BY <1>2, FilesStand
<1>4. Len(TheSource) \in Nat
  BY SourceSeq
<1>5. torrent.file_last = << >>
  BY DEF Plain
<1> HIDE DEF c, f
<1>6. /\ Len(FileDict(torrent, f)) = 7 + m + Len(f.path)
      /\ m \in Nat /\ Len(f.path) \in Nat
      /\ Stands(c, << Mark("d") >>)
      /\ Stands(c + 1, << Str("length"), Num(f.length) >>)
      /\ Stands(c + 3, Pair("md5sum", f.md5sum))
      /\ Stands(c + 3 + m, << Str("path") >>)
      /\ Stands(c + 4 + m, List(Strs(f.path)))
  BY <1>1, <1>3, <1>4, <1>5, FileDictSeq
<1>7. Lex(c).type = "d"
  <2> DEFINE x == Mark("d")
  <2>1. Stands(c, << x >>) /\ x.type = "d"
    BY <1>6 DEF Mark
  <2> HIDE DEF x
  <2>2. Lex(c) = x
    BY <2>1, OneStands
  <2> QED
    BY <2>1, <2>2
<1>8. Lex(c + 1) = Str("length") /\ Lex(c + 1 + 1) = Num(f.length)
  <2> DEFINE x == Str("length")
  <2> DEFINE y == Num(f.length)
  <2> DEFINE q == c + 1
  <2>1. Stands(q, << x, y >>)
    BY <1>6
  <2> HIDE DEF x, y, q
  <2>2. Lex(q) = x /\ Lex(q + 1) = y
    BY <2>1, TwoStand
  <2> QED
    BY <2>2, Zenon DEF x, y, q
<1>9. IF f.md5sum = "" THEN m = 0
      ELSE m = 2 /\ Lex(c + 3) = Str("md5sum") /\ Lex(c + 3 + 1) = Str(f.md5sum)
  <2> DEFINE q == c + 3
  <2> DEFINE v == f.md5sum
  <2>1. Stands(q, Pair("md5sum", v))
    BY <1>6
  <2> HIDE DEF q, v
  <2>2. IF v = "" THEN Len(Pair("md5sum", v)) = 0
        ELSE Len(Pair("md5sum", v)) = 2 /\ Lex(q) = Str("md5sum") /\ Lex(q + 1) = Str(v)
    BY <2>1, PairStands, Zenon
  <2> QED
    BY <2>2, Zenon DEF q, v
<1>10. Lex(c + 3 + m) = Str("path")
  <2> DEFINE x == Str("path")
  <2> DEFINE q == c + 3 + m
  <2>1. Stands(q, << x >>)
    BY <1>6
  <2> HIDE DEF x, q
  <2>2. Lex(q) = x
    BY <2>1, OneStands
  <2> QED
    BY <2>2, Zenon DEF x, q
<1>11. Len(Strs(f.path)) = Len(f.path)
  BY <1>1, StrsSeq DEF f
<1> HIDE DEF m
<1>12. /\ c + 4 + m = c + 3 + m + 1
       /\ AtFile(torrent, i + 1) = c + 3 + m + 1 + Len(f.path) + 2 + 1
  <2> DEFINE n == Len(f.path)
  <2> DEFINE k == Len(FileDict(torrent, f))
  <2>1. AtFile(torrent, i + 1) = c + k /\ k = 7 + m + n /\ c \in Nat /\ m \in Nat /\ n \in Nat
    BY <1>3, <1>6 DEF f, c
  <2> HIDE DEF n, k
  <2>2. c + 4 + m = c + 3 + m + 1 /\ AtFile(torrent, i + 1) = c + 3 + m + 1 + n + 2 + 1
    BY <2>1
  <2> QED
    BY <2>2 DEF n
<1>13. Stands(c + 3 + m + 1, List(Strs(f.path)))
  BY <1>6, <1>12
<1> QED
  BY <1>1, <1>3, <1>6, <1>7, <1>8, <1>9, <1>10, <1>11, <1>12, <1>13, Zenon DEF c, f, m
-----------------------------------------------------------------------------
(* The files of info.                                                      *)
LEMMA SameTorrent ==
  ASSUME torrent' = torrent
  PROVE  /\ TheList' = TheList /\ FilesRead' = FilesRead /\ Begun' = Begun
         /\ \A k : FilesTo(k)' = FilesTo(k)
         /\ \A k : AtFile(torrent, k)' = AtFile(torrent, k)
<1>1. TheList' = TheList /\ Begun' = Begun
  BY DEF TheList, Begun, InfoFile
<1>2. \A k : FilesTo(k)' = FilesTo(k)
  BY DEF FilesTo
<1>3. FilesRead' = FilesRead
  BY <1>2 DEF FilesRead
<1>4. \A k : AtFile(torrent, k)' = AtFile(torrent, k)
  OBVIOUS
<1> QED
  BY <1>1, <1>2, <1>3, <1>4

InfoMembers(files, name, size) ==
  Members(torrent.announce, TheList, torrent.comment, torrent.date, size, 0, name, << >>, files, << >>)

LEMMA FilesEntered ==
  ASSUME Tokenized, Plain(torrent), ReadNext, FirstPhase(Len(torrent.first)), ~torrent.single
  PROVE  NextFilePhase(1)' \/ Past' \/ reading' \in Failures
<1> DEFINE c == AtFiles(torrent)
<1>1. reading = "fill_info" /\ current_token = c /\ tf = InfoMembers(Begun, "", 0)
  BY FirstPlaces DEF FirstPhase, ReadInfo, Tokenized, InfoMembers
<1>2. "pieces" \in DOMAIN tf /\ tf.pieces = 0
  BY <1>1, Unread DEF InfoMembers
<1>3. /\ c \in Nat /\ Lex(c) = Str("files") /\ Lex(c + 1).type = "l"
      /\ AtFile(torrent, 1) = c + 2 /\ 1 \in 1 .. (Len(torrent.files) + 1)
  <2> DEFINE x == Str("files")
  <2> DEFINE y == Mark("l")
  <2>1. Stands(c, << x >>) /\ Stands(c + 1, << y >>) /\ AtFile(torrent, 1) = c + 2
    BY FilesStand DEF Tokenized
  <2>2. y.type = "l"
    BY DEF Mark
  <2>3. Len(torrent.files) \in Nat
    BY PlainTypes DEF Tokenized
  <2>4. 1 \in 1 .. (Len(torrent.files) + 1)
    BY <2>3
  <2> HIDE DEF x, y, c
  <2>5. c \in Nat /\ Lex(c) = x /\ Lex(c + 1) = y
    BY <2>1, OneStands
  <2> QED
    BY <2>1, <2>2, <2>4, <2>5, Zenon DEF x, c
<1>4. Lex(c).type = "STR" /\ Lex(c).str = "files"
  <2> HIDE DEF c
  <2> QED
    BY <1>3, Kinds
<1> HIDE DEF c
<1>5. CASE Past' \/ reading' \in {"refused", "crashed"}
  BY <1>5 DEF Failures
<1>6. CASE c + 1 < kept
  <2>1. /\ UNCHANGED << torrent, kept, tokens, tf >> /\ reading' = "first_file"
        /\ current_token' = c + 2
    BY <1>1, <1>3, <1>4, <1>6, InfoWalked
  <2>2. TheList' = TheList /\ Begun' = Begun /\ AtFile(torrent, 1)' = AtFile(torrent, 1)
    BY <2>1, SameTorrent
  <2>3. current_token' = AtFile(torrent, 1)' /\ ~torrent.single' /\ 1 \in 1 .. (Len(torrent.files)' + 1)
    BY <1>3, <2>1, <2>2
  <2>4. ReadInfo(AtFile(torrent, 1), Begun, "", 0)'
    BY <1>1, <2>1, <2>2, <2>3 DEF ReadInfo, InfoMembers
  <2> QED
    BY <2>1, <2>3, <2>4 DEF NextFilePhase
<1>7. c + 1 < kept \/ Past' \/ reading' \in {"refused", "crashed"}
  BY <1>1, <1>2, <1>4, OrPast DEF Walking
<1> QED
  BY <1>5, <1>6, <1>7

LEMMA FileBegins ==
  ASSUME Tokenized, Plain(torrent), ReadNext, NEW i \in 1 .. Len(torrent.files), NextFilePhase(i)
  PROVE  FilePhase(i)' \/ Past' \/ reading' \in Failures
<1> DEFINE c == AtFile(torrent, i)
<1> DEFINE new == InfoFile(0, "", << >>)
<1> DEFINE files == IF i = 1 THEN Begun ELSE FilesTo(i - 1)
<1>1. /\ reading = IF i = 1 THEN "first_file" ELSE "next_file"
      /\ ~torrent.single /\ current_token = c /\ tf = InfoMembers(files, "", 0)
  BY DEF NextFilePhase, ReadInfo, InfoMembers
<1>2. "pieces" \in DOMAIN tf /\ tf.pieces = 0
  BY <1>1, Unread DEF InfoMembers
<1>3. c \in Nat /\ Lex(c).type = "d"
  BY <1>1, FilePlaces DEF Tokenized
<1>4. reading \in {"first_file", "next_file"} /\ (reading = "first_file" <=> i = 1)
  BY <1>1
<1> HIDE DEF c
<1>5. CASE Past' \/ reading' \in {"refused", "crashed"}
  BY <1>5 DEF Failures
<1>6. CASE c < kept
  <2>1. /\ UNCHANGED << torrent, kept, tokens >> /\ current_token' = c + 1 /\ reading' = "file"
        /\ tf' = IF i = 1 THEN tf ELSE [tf EXCEPT !.files = Append(@, FileInfo)]
    BY <1>1, <1>3, <1>4, <1>6, FilesWalked
  <2>2. Begun = Append(FilesTo(i - 1), new) \/ i # 1
    <3> SUFFICES ASSUME i = 1 PROVE Begun = Append(FilesTo(i - 1), new)
      OBVIOUS
    <3>1. FilesTo(i - 1) = << >>
      <4>1. i - 1 = 0
        OBVIOUS
      <4> QED
        BY <4>1, NoFiles
    <3> HIDE DEF new
    <3>2. Append(<< >>, new) = << new >>
      OBVIOUS
    <3> QED
      BY <3>1, <3>2 DEF Begun, new
  <2>3. FileInfo = new
    BY DEF FileInfo, InfoFile
  <2> HIDE DEF new
  <2>4. tf' = InfoMembers(Append(FilesTo(i - 1), new), "", 0)
    <3>1. CASE i = 1
      BY <1>1, <2>1, <2>2, <3>1
    <3>2. CASE i # 1
      <4>1. tf = InfoMembers(FilesTo(i - 1), "", 0) /\ tf' = [tf EXCEPT !.files = Append(@, new)]
        BY <1>1, <2>1, <2>3, <3>2
      <4> QED
        BY <4>1 DEF InfoMembers, Members
    <3> QED
      BY <3>1, <3>2
  <2>5. /\ TheList' = TheList /\ AtFile(torrent, i)' = AtFile(torrent, i)
        /\ FilesTo(i - 1)' = FilesTo(i - 1) /\ new' = new
    BY <2>1, SameTorrent DEF new, InfoFile
  <2>6. current_token' = (AtFile(torrent, i) + 1)' /\ ~torrent.single' /\ i \in 1 .. Len(torrent.files)'
    BY <1>1, <2>1, <2>5 DEF c
  <2>7. ReadInfo(AtFile(torrent, i) + 1, Append(FilesTo(i - 1), new), "", 0)'
    BY <2>1, <2>4, <2>5, <2>6 DEF ReadInfo, InfoMembers
  <2> QED
    BY <2>1, <2>6, <2>7 DEF FilePhase, new
<1>7. c < kept \/ Past' \/ reading' \in {"refused", "crashed"}
  BY <1>1, <1>2, <1>4, OrPast DEF Walking
<1> QED
  BY <1>5, <1>6, <1>7

LEMMA FilesLeft ==
  ASSUME Tokenized, Plain(torrent), ReadNext, NextFilePhase(Len(torrent.files) + 1)
  PROVE  NamePhase' \/ Past' \/ reading' \in Failures
<1> DEFINE n == Len(torrent.files)
<1> DEFINE i == n + 1
<1> DEFINE c == AtFile(torrent, i)
<1>1. n \in Nat \ {0}
  BY PlainTypes DEF Tokenized
<1>2. i # 1 /\ i - 1 = n
  BY <1>1
<1>3. /\ reading = "next_file" /\ ~torrent.single /\ current_token = c
      /\ tf = InfoMembers(FilesTo(n), "", 0)
  BY <1>2 DEF NextFilePhase, ReadInfo, InfoMembers
<1>4. "pieces" \in DOMAIN tf /\ tf.pieces = 0
  BY <1>3, Unread DEF InfoMembers
<1>5. c \in Nat /\ Lex(c).type = "e" /\ AtName(torrent) = c + 1
  <2> DEFINE x == Mark("e")
  <2>1. Stands(c, << x >>) /\ AtName(torrent) = c + 1
    BY <1>3, FilesStand DEF Tokenized
  <2>2. x.type = "e"
    BY DEF Mark
  <2> HIDE DEF x, c
  <2>3. c \in Nat /\ Lex(c) = x
    BY <2>1, OneStands
  <2> QED
    BY <2>1, <2>2, <2>3
<1>6. FilesRead = FilesTo(n)
  BY <1>3 DEF FilesRead
<1> HIDE DEF n, i, c
<1>7. CASE Past' \/ reading' \in {"refused", "crashed"}
  BY <1>7 DEF Failures
<1>8. CASE c < kept
  <2>1. /\ UNCHANGED << torrent, kept, tokens, tf >> /\ current_token' = c + 1 /\ reading' = "fill_info"
    BY <1>3, <1>5, <1>8, FilesWalked
  <2>2. TheList' = TheList /\ FilesRead' = FilesRead
    BY <2>1, SameTorrent
  <2>3. current_token' = AtName(torrent)'
    BY <1>5, <2>1
  <2>4. ReadInfo(AtName(torrent), FilesRead, "", 0)'
    BY <1>3, <1>6, <2>1, <2>2, <2>3 DEF ReadInfo, InfoMembers
  <2> QED
    BY <2>1, <2>4 DEF NamePhase
<1>9. c < kept \/ Past' \/ reading' \in {"refused", "crashed"}
  BY <1>3, <1>4, OrPast DEF Walking
<1> QED
  BY <1>7, <1>8, <1>9

(* The keys of a file.                                                     *)
FileMembers(i, length, md5sum, path) ==
  InfoMembers(Append(FilesTo(i - 1), InfoFile(length, md5sum, path)), "", 0)

FileIs(i, length, md5sum, path) == tf = FileMembers(i, length, md5sum, path)

LEMMA FileMembersSet ==
  ASSUME Tokenized, Plain(torrent), NEW i \in 1 .. Len(torrent.files), NEW a, NEW b, NEW d,
         FileIs(i, a, b, d)
  PROVE  /\ \A v : BackSized(Back, v) = FileMembers(i, v, b, d)
         /\ \A v : BackSummed(Back, v) = FileMembers(i, a, v, d)
         /\ \A v : BackPath(Back, v) = FileMembers(i, a, b, v)
         /\ tf.files[Back].path = d
         /\ "pieces" \in DOMAIN tf /\ tf.pieces = 0
<1> DEFINE q == FilesTo(i - 1)
<1> DEFINE e == ""
<1> DEFINE o == << >>
<1> DEFINE z == 0
<1>1. IsSeq(q)
  BY FilesGrow DEF Tokenized
<1>2. \A f : InfoMembers(f, "", 0)
               = Members(torrent.announce, TheList, torrent.comment, torrent.date, z, z, e, o, f, o)
  BY DEF InfoMembers
<1>3. "pieces" \in DOMAIN tf /\ tf.pieces = 0
  BY Unread DEF FileIs, FileMembers, InfoMembers
<1> HIDE DEF q, e, o, z
<1>4. tf = Members(torrent.announce, TheList, torrent.comment, torrent.date, z, z, e, o,
                   Append(q, InfoFile(a, b, d)), o)
  BY <1>2 DEF FileIs, FileMembers, q
<1>5. ASSUME NEW v
      PROVE  /\ BackSized(Back, v) = Members(torrent.announce, TheList, torrent.comment, torrent.date, z, z, e, o,
                                             Append(q, InfoFile(v, b, d)), o)
             /\ BackSummed(Back, v) = Members(torrent.announce, TheList, torrent.comment, torrent.date, z, z, e, o,
                                              Append(q, InfoFile(a, v, d)), o)
             /\ BackPath(Back, v) = Members(torrent.announce, TheList, torrent.comment, torrent.date, z, z, e, o,
                                            Append(q, InfoFile(a, b, v)), o)
             /\ tf.files[Back].path = d
  BY <1>1, <1>4, BackSet
<1>6. ASSUME NEW v
      PROVE  /\ BackSized(Back, v) = FileMembers(i, v, b, d)
             /\ BackSummed(Back, v) = FileMembers(i, a, v, d)
             /\ BackPath(Back, v) = FileMembers(i, a, b, v)
  BY <1>2, <1>5 DEF FileMembers, q
<1> QED
  BY <1>3, <1>5, <1>6

LEMMA FileGoesOn ==
  ASSUME NEW i \in 1 .. Len(torrent.files), ~torrent.single, torrent' = torrent,
         reading' = "file", NEW c, current_token' = c
  PROVE  LET f == torrent.files[i]
             a == AtFile(torrent, i)
         IN  \/ c = a + 1 /\ tf' = FileMembers(i, 0, "", << >>)
             \/ c = a + 3 /\ tf' = FileMembers(i, f.length, "", << >>)
             \/ c = a + 3 + Len(Pair("md5sum", f.md5sum)) /\ tf' = FileMembers(i, f.length, f.md5sum, << >>)
             \/ c = AtFile(torrent, i + 1) /\ tf' = InfoMembers(FilesTo(i), "", 0)
             => FilePhase(i)'
<1> DEFINE f == torrent.files[i]
<1> DEFINE a == AtFile(torrent, i)
<1> DEFINE m == Len(Pair("md5sum", f.md5sum))
<1>1. /\ TheList' = TheList /\ FilesTo(i - 1)' = FilesTo(i - 1) /\ FilesTo(i)' = FilesTo(i)
      /\ a' = a /\ AtFile(torrent, i + 1)' = AtFile(torrent, i + 1) /\ f' = f /\ m' = m
  BY SameTorrent
<1>2. \A x, y, z : InfoFile(x, y, z)' = InfoFile(x, y, z)
  OBVIOUS
<1>3. i \in 1 .. Len(torrent.files)' /\ ~torrent.single' /\ reading' = "file"
  OBVIOUS
<1>4. \A p, d : current_token' = d /\ tf' = InfoMembers(p, "", 0)
         => /\ current_token' = d
            /\ tf' = Members(torrent'.announce, TheList', torrent'.comment, torrent'.date,
                             0, 0, "", << >>, p, << >>)
  BY <1>1 DEF InfoMembers
<1> HIDE DEF a, m
<1>5. ASSUME c = a + 1, tf' = FileMembers(i, 0, "", << >>)
      PROVE  ReadInfo(AtFile(torrent, i) + 1, Append(FilesTo(i - 1), InfoFile(0, "", << >>)), "", 0)'
  BY <1>1, <1>4, <1>5 DEF ReadInfo, FileMembers, a
<1>6. ASSUME c = a + 3, tf' = FileMembers(i, f.length, "", << >>)
      PROVE  ReadInfo(AtFile(torrent, i) + 3, Append(FilesTo(i - 1), InfoFile(f.length, "", << >>)), "", 0)'
  BY <1>1, <1>4, <1>6 DEF ReadInfo, FileMembers, a
<1>7. ASSUME c = a + 3 + m, tf' = FileMembers(i, f.length, f.md5sum, << >>)
      PROVE  ReadInfo(AtFile(torrent, i) + 3 + Len(Pair("md5sum", f.md5sum)),
                      Append(FilesTo(i - 1), InfoFile(f.length, f.md5sum, << >>)), "", 0)'
  BY <1>1, <1>4, <1>7 DEF ReadInfo, FileMembers, a, m
<1>8. ASSUME c = AtFile(torrent, i + 1), tf' = InfoMembers(FilesTo(i), "", 0)
      PROVE  ReadInfo(AtFile(torrent, i + 1), FilesTo(i), "", 0)'
  BY <1>1, <1>4, <1>8 DEF ReadInfo
<1> QED
  BY <1>3, <1>5, <1>6, <1>7, <1>8 DEF FilePhase, a, m

FileBegun(i) == FileMembers(i, 0, "", << >>)
FileSized(i) == FileMembers(i, torrent.files[i].length, "", << >>)

LEMMA FileLengthRead ==
  ASSUME Tokenized, Plain(torrent), ReadNext, NEW i \in 1 .. Len(torrent.files), ~torrent.single, reading = "file",
         current_token = AtFile(torrent, i) + 1, tf = FileBegun(i)
  PROVE  FilePhase(i)' \/ Past' \/ reading' \in Failures
<1> DEFINE c == AtFile(torrent, i) + 1
<1> DEFINE n == torrent.files[i].length
<1>1. "pieces" \in DOMAIN tf /\ tf.pieces = 0
  BY FileMembersSet DEF FileBegun, FileIs
<1>2. c \in Nat /\ c + 2 = AtFile(torrent, i) + 3 /\ Lex(c) = Str("length") /\ Lex(c + 1) = Num(n)
  <2>1. AtFile(torrent, i) \in Nat /\ Lex(c) = Str("length") /\ Lex(c + 1) = Num(n)
    BY FilePlaces DEF Tokenized
  <2>2. \A a \in Nat : a + 1 \in Nat /\ a + 1 + 2 = a + 3
    OBVIOUS
  <2> QED
    BY <2>1, <2>2, Zenon
<1>3. Lex(c).type = "STR" /\ Lex(c).str = "length" /\ Lex(c + 1).type = "INT" /\ Lex(c + 1).number = n
  BY <1>2, Kinds
<1>4. c = current_token
  OBVIOUS
<1> HIDE DEF c
<1>5. CASE Past' \/ reading' \in {"refused", "crashed"}
  BY <1>5 DEF Failures
<1>6. CASE c < kept /\ c + 1 < kept
  <2>1. /\ UNCHANGED << reading, torrent, kept, tokens >> /\ current_token' = c + 2
        /\ tf' = [tf EXCEPT !.files[Back].size = n]
    BY <1>2, <1>3, <1>4, <1>6, FileSizeRead
  <2>2. tf' = BackSized(Back, n)
    BY <2>1 DEF BackSized
  <2> DEFINE b == ""
  <2> DEFINE d == << >>
  <2> DEFINE z == 0
  <2>3. FileIs(i, z, b, d)
    BY DEF FileBegun, FileIs
  <2> HIDE DEF n, b, d, z
  <2>4. BackSized(Back, n) = FileMembers(i, n, b, d)
    BY <2>3, FileMembersSet
  <2>5. current_token' = AtFile(torrent, i) + 3 /\ tf' = FileMembers(i, n, "", << >>)
    BY <1>2, <2>1, <2>2, <2>4 DEF b, d
  <2> QED
    BY <2>1, <2>5, FileGoesOn DEF n
<1>7. (c < kept /\ c + 1 < kept) \/ Past' \/ reading' \in {"refused", "crashed"}
  BY <1>1, <1>3, <1>4, OrPast DEF Walking
<1> QED
  BY <1>5, <1>6, <1>7

LEMMA FileSummed ==
  ASSUME Tokenized, Plain(torrent), NEW i \in 1 .. Len(torrent.files), NEW s
  PROVE  FileSized(i) = tf => BackSummed(Back, s) = FileMembers(i, torrent.files[i].length, s, << >>)
<1>1. \A a, b, d : FileIs(i, a, b, d) => BackSummed(Back, s) = FileMembers(i, a, s, d)
  BY FileMembersSet
<1> QED
  BY <1>1, Zenon DEF FileSized, FileIs

LEMMA FileMd5Read ==
  ASSUME Tokenized, Plain(torrent), ReadNext, NEW i \in 1 .. Len(torrent.files), ~torrent.single, reading = "file",
         current_token = AtFile(torrent, i) + 3, tf = FileSized(i)
  PROVE  FilePhase(i)' \/ Past' \/ reading' \in Failures \/ torrent.files[i].md5sum = ""
<1> DEFINE c == AtFile(torrent, i) + 3
<1> DEFINE n == torrent.files[i].length
<1> DEFINE s == torrent.files[i].md5sum
<1> DEFINE m == Len(Pair("md5sum", s))
<1>1. "pieces" \in DOMAIN tf /\ tf.pieces = 0
  BY FileMembersSet DEF FileSized, FileIs
<1>2. BackSummed(Back, s) = FileMembers(i, n, s, << >>)
  BY FileSummed
<1>3. /\ c \in Nat
      /\ s = "" \/ (m = 2 /\ Lex(c) = Str("md5sum") /\ Lex(c + 1) = Str(s))
  <2>1. /\ AtFile(torrent, i) \in Nat
        /\ IF s = "" THEN m = 0 ELSE m = 2 /\ Lex(c) = Str("md5sum") /\ Lex(c + 1) = Str(s)
    BY FilePlaces DEF Tokenized
  <2> QED
    BY <2>1, SmallSums, Zenon
<1>4. s = "" \/ (/\ Lex(c).type = "STR" /\ Lex(c).str = "md5sum"
                 /\ Lex(c + 1).type = "STR" /\ Lex(c + 1).str = s)
  <2> HIDE DEF c, s
  <2>1. CASE s = ""
    BY <2>1
  <2>2. CASE Lex(c) = Str("md5sum") /\ Lex(c + 1) = Str(s)
    BY <2>2, StrPair
  <2> QED
    BY <1>3, <2>1, <2>2
<1>5. c = current_token
  OBVIOUS
<1>6. (c < kept /\ c + 1 < kept) \/ Past' \/ reading' \in {"refused", "crashed"} \/ s = ""
  BY <1>1, <1>4, <1>5, OrPast DEF Walking
<1>7. ASSUME c < kept, c + 1 < kept
      PROVE  FilePhase(i)' \/ s = ""
  <2>1. s = "" \/ (/\ UNCHANGED << reading, torrent, kept, tokens >> /\ current_token' = c + 2
                   /\ tf' = [tf EXCEPT !.files[Back].md5sum = s])
    <3> HIDE DEF c, s
    <3> QED
      <4>1. CASE s = ""
        BY <4>1
      <4>2. CASE /\ Lex(c).type = "STR" /\ Lex(c).str = "md5sum"
                 /\ Lex(c + 1).type = "STR" /\ Lex(c + 1).str = s
        <5>1. c \in Nat /\ c = current_token
          BY <1>3, <1>5
        <5>2. /\ UNCHANGED << reading, torrent, kept, tokens >> /\ current_token' = c + 2
              /\ tf' = [tf EXCEPT !.files[Back].md5sum = s]
          BY <1>7, <4>2, <5>1, FileSumRead, Zenon
        <5> QED
          BY <5>2, Zenon
      <4> QED
        BY <1>4, <4>1, <4>2, Zenon
  <2>2. s = "" \/ tf' = BackSummed(Back, s)
    BY <2>1 DEF BackSummed
  <2>3. s = "" \/ (/\ reading' = "file" /\ torrent' = torrent /\ current_token' = c + m
                   /\ tf' = FileMembers(i, n, s, << >>))
    <3> HIDE DEF c, m, n, s
    <3> QED
      BY <1>2, <1>3, <2>1, <2>2, Zenon
  <2>4. ASSUME torrent' = torrent, reading' = "file", current_token' = c + m,
               tf' = FileMembers(i, n, s, << >>)
        PROVE  FilePhase(i)'
    <3> DEFINE k == c + m
    <3>1. k = AtFile(torrent, i) + 3 + Len(Pair("md5sum", torrent.files[i].md5sum))
      OBVIOUS
    <3>2. tf' = FileMembers(i, torrent.files[i].length, torrent.files[i].md5sum, << >>)
      BY <2>4
    <3>3. current_token' = k
      BY <2>4
    <3> HIDE DEF k, c, m, n, s
    <3> QED
      BY <2>4, <3>1, <3>2, <3>3, FileGoesOn
  <2> QED
    BY <2>3, <2>4
<1> HIDE DEF c, s
<1>8. Past' \/ reading' \in {"refused", "crashed"} \/ FilePhase(i)' \/ s = ""
  BY <1>6, <1>7
<1> QED
  BY <1>8 DEF Failures, s

SumLength(i)    == Len(Pair("md5sum", torrent.files[i].md5sum))
FileSummedUp(i) == FileMembers(i, torrent.files[i].length, torrent.files[i].md5sum, << >>)
PathJoined(v)   == << >> \o v

LEMMA FilePathRead ==
  ASSUME Tokenized, Plain(torrent), ReadNext, NEW i \in 1 .. Len(torrent.files), ~torrent.single, reading = "file",
         current_token = AtFile(torrent, i) + 3 + SumLength(i), tf = FileSummedUp(i)
  PROVE  FilePhase(i)' \/ Past' \/ reading' \in Failures
<1> DEFINE a == AtFile(torrent, i)
<1> DEFINE m == SumLength(i)
<1> DEFINE c == a + 3 + m
<1> DEFINE f == torrent.files[i]
<1> DEFINE p == f.path
<1> DEFINE n == Len(p)
<1> DEFINE r == read_lists(c + 1)
<1>1. "pieces" \in DOMAIN tf /\ tf.pieces = 0
  BY FileMembersSet DEF FileSummedUp, FileIs
<1>2. /\ a \in Nat /\ m \in Nat /\ n \in Nat /\ Lex(c) = Str("path")
      /\ Stands(c + 1, List(Strs(p))) /\ Len(Strs(p)) = n
      /\ AtFile(torrent, i + 1) = c + 1 + n + 2 + 1
      /\ IsSeq(p) /\ p \in Seq(STRING)
  BY FilePlaces, Zenon DEF Tokenized, SumLength
<1>3. c \in Nat /\ c + 1 \in Nat
  <2> HIDE DEF a, m
  <2> QED
    BY <1>2
<1>4. c = current_token
  OBVIOUS
<1>5. BackPath(Back, PathJoined(p)) = InfoMembers(FilesTo(i), "", 0) /\ tf.files[Back].path = << >>
  <2>1. \A v : BackPath(Back, v) = FileMembers(i, f.length, f.md5sum, v)
    BY FileMembersSet DEF FileIs, FileSummedUp
  <2>2. tf.files[Back].path = << >>
    BY FileMembersSet DEF FileIs, FileSummedUp
  <2>3. PathJoined(p) = p
    BY <1>2, ConcatEmptySeq DEF PathJoined
  <2>4. Append(FilesTo(i - 1), InfoFile(f.length, f.md5sum, p)) = FilesTo(i)
    BY FilesGrow DEF Tokenized
  <2> HIDE DEF f, p
  <2>5. FileMembers(i, f.length, f.md5sum, p) = InfoMembers(FilesTo(i), "", 0)
    BY <2>4 DEF FileMembers
  <2>6. BackPath(Back, p) = InfoMembers(FilesTo(i), "", 0)
    BY <2>1, <2>5
  <2> QED
    BY <2>2, <2>3, <2>6
<1>6. Lex(c).type = "STR" /\ Lex(c).str = "path"
  BY <1>2, Kinds
<1> HIDE DEF c, a, m
<1>7. Lex(c + 1).type = "l"
  <2>1. IsSeq(Strs(p)) /\ Len(TheSource) \in Nat
    BY <1>2, StrsSeq, SourceTokens
  <2>2. Stands(c + 1, << Mark("l") >>)
    BY <1>2, <1>3, <2>1, ListStands
  <2> QED
    BY <2>2, OneStands DEF Mark
<1>8. CASE Past' \/ reading' \in {"refused", "crashed"}
  BY <1>8 DEF Failures
<1>9. CASE c < kept /\ c + 1 < kept
  <2>1. /\ UNCHANGED << reading, torrent, kept, tokens >> /\ current_token' = r.next + 1
        /\ tf' = [tf EXCEPT !.files[Back].path = @ \o r.output]
    BY <1>3, <1>4, <1>6, <1>7, <1>9, FileWalked
  <2>2. tf' = BackPath(Back, tf.files[Back].path \o r.output)
    BY <2>1 DEF BackPath
  <2>3. tf' = BackPath(Back, PathJoined(r.output))
    BY <1>5, <2>2 DEF PathJoined
  <2>4. "pieces" \in DOMAIN tf' /\ tf'.pieces = 0
    BY <1>1, <2>2 DEF BackPath
  <2>5. c + 1 < TOKENS_SIZE /\ kept \in Nat
    BY <1>3, <1>9, TokenOf, SourceTokens
  <2>6. Holds(Strs(p), p)
    BY <1>2, StrsHold
  <2>7. /\ r.next \in Nat
        /\ IF c + 1 + n + 2 <= kept THEN r.next = c + 1 + n + 2 /\ r.output = p
           ELSE kept <= r.next
    BY <1>2, <1>3, <2>5, <2>6, ListIsRead
  <2>8. CASE c + 1 + n + 2 <= kept
    <3>1. current_token' = AtFile(torrent, i + 1)
      BY <1>2, <2>1, <2>7, <2>8
    <3>2. tf' = InfoMembers(FilesTo(i), "", 0)
      BY <1>5, <2>3, <2>7, <2>8
    <3> QED
      BY <2>1, <3>1, <3>2, FileGoesOn
  <2>9. CASE ~(c + 1 + n + 2 <= kept)
    <3> DEFINE next == r.next
    <3>1. next \in Nat /\ kept <= next /\ current_token' = next + 1
      BY <2>1, <2>7, <2>9
    <3> HIDE DEF next
    <3>2. current_token' >= kept'
      BY <2>1, <2>5, <3>1
    <3> QED
      BY <2>1, <2>4, <3>2 DEF Past, Walking
  <2> QED
    BY <2>8, <2>9
<1>10. (c < kept /\ c + 1 < kept) \/ Past' \/ reading' \in {"refused", "crashed"}
  BY <1>1, <1>4, <1>6, OrPast DEF Walking
<1> QED
  BY <1>8, <1>9, <1>10

FilesDone(i) == InfoMembers(FilesTo(i), "", 0)

LEMMA FileDone ==
  ASSUME Tokenized, Plain(torrent), ReadNext, NEW i \in 1 .. Len(torrent.files), ~torrent.single, reading = "file",
         current_token = AtFile(torrent, i + 1), tf = FilesDone(i)
  PROVE  NextFilePhase(i + 1)' \/ Past' \/ reading' \in Failures
<1> DEFINE c == AtFile(torrent, i + 1)
<1>1. "pieces" \in DOMAIN tf /\ tf.pieces = 0
  BY Unread DEF InfoMembers, FilesDone
<1>2. /\ Len(torrent.files) \in Nat /\ i \in Nat /\ i + 1 \in 1 .. (Len(torrent.files) + 1)
      /\ i + 1 # 1 /\ i + 1 - 1 = i
      /\ i = Len(torrent.files) \/ i + 1 \in 1 .. Len(torrent.files)
  <2>1. Len(torrent.files) \in Nat
    BY PlainTypes DEF Tokenized
  <2> DEFINE n == Len(torrent.files)
  <2>2. i \in 1 .. n /\ n \in Nat
    BY <2>1
  <2> HIDE DEF n
  <2>3. i \in Nat /\ i + 1 \in 1 .. (n + 1) /\ i + 1 # 1 /\ i + 1 - 1 = i /\ (i = n \/ i + 1 \in 1 .. n)
    BY <2>2
  <2> QED
    BY <2>1, <2>3 DEF n
<1>3. c \in Nat /\ Lex(c).type \in {"d", "e"}
  <2>1. CASE i + 1 \in 1 .. Len(torrent.files)
    BY <2>1, FilePlaces DEF Tokenized
  <2>2. CASE i = Len(torrent.files)
    <3> DEFINE x == Mark("e")
    <3>1. Stands(c, << x >>) /\ c \in Nat
      BY <1>2, <2>2, FilesStand DEF Tokenized
    <3>2. x.type = "e"
      BY DEF Mark
    <3> HIDE DEF x, c
    <3>3. Lex(c) = x
      BY <3>1, OneStands
    <3> QED
      BY <3>1, <3>2, <3>3
  <2> QED
    BY <1>2, <2>1, <2>2
<1>4. c = current_token
  OBVIOUS
<1> HIDE DEF c
<1>5. CASE Past' \/ reading' \in {"refused", "crashed"}
  BY <1>5 DEF Failures
<1>6. CASE c < kept
  <2>1. UNCHANGED << torrent, kept, tokens, tf, current_token >> /\ reading' = "next_file"
    BY <1>3, <1>4, <1>6, FileWalked
  <2>2. TheList' = TheList /\ FilesTo(i)' = FilesTo(i) /\ AtFile(torrent, i + 1)' = AtFile(torrent, i + 1)
    BY <2>1, SameTorrent
  <2> DEFINE k == i + 1
  <2>3. /\ k # 1 /\ k - 1 = i /\ k \in 1 .. (Len(torrent.files)' + 1) /\ ~torrent.single'
        /\ current_token' = AtFile(torrent, k)'
    BY <1>2, <2>1, <2>2
  <2>4. tf' = Members(torrent.announce, TheList, torrent.comment, torrent.date, 0, 0, "", << >>,
                      FilesTo(i), << >>)'
    BY <2>1, <2>2 DEF InfoMembers, FilesDone
  <2> HIDE DEF k
  <2>5. ReadInfo(AtFile(torrent, k), FilesTo(i), "", 0)'
    BY <2>3, <2>4 DEF ReadInfo
  <2>6. NextFilePhase(k)'
    BY <2>1, <2>3, <2>5 DEF NextFilePhase
  <2> QED
    BY <2>6 DEF k
<1>7. c < kept \/ Past' \/ reading' \in {"refused", "crashed"}
  BY <1>1, <1>4, OrPast DEF Walking
<1> QED
  BY <1>5, <1>6, <1>7

LEMMA NoSum ==
  ASSUME Tokenized, Plain(torrent), NEW i \in 1 .. Len(torrent.files), ~torrent.single
  PROVE  torrent.files[i].md5sum = "" =>
           /\ FileSized(i) = FileSummedUp(i)
           /\ AtFile(torrent, i) + 3 = AtFile(torrent, i) + 3 + SumLength(i)
<1> DEFINE a == AtFile(torrent, i)
<1> DEFINE s == torrent.files[i].md5sum
<1>1. s = "" => SumLength(i) = 0
  BY FilePlaces, Zenon DEF Tokenized, SumLength
<1>4. a \in Nat
  BY FilePlaces DEF Tokenized
<1> HIDE DEF a
<1>2. a + 3 = a + 3 + 0
  BY <1>4
<1>3. s = "" => FileSized(i) = FileSummedUp(i)
  BY Zenon DEF FileSized, FileSummedUp
<1> QED
  BY <1>1, <1>2, <1>3, Zenon DEF a

LEMMA FileStep ==
  ASSUME Tokenized, Plain(torrent), ReadNext, NEW i \in 1 .. Len(torrent.files), FilePhase(i)
  PROVE  FilePhase(i)' \/ NextFilePhase(i + 1)' \/ Past' \/ reading' \in Failures
<1>1. /\ ~torrent.single /\ reading = "file"
      /\ \/ current_token = AtFile(torrent, i) + 1 /\ tf = FileBegun(i)
         \/ current_token = AtFile(torrent, i) + 3 /\ tf = FileSized(i)
         \/ current_token = AtFile(torrent, i) + 3 + SumLength(i) /\ tf = FileSummedUp(i)
         \/ current_token = AtFile(torrent, i + 1) /\ tf = FilesDone(i)
  BY DEF FilePhase, ReadInfo, FileBegun, FileSized, FileSummedUp, FilesDone, FileMembers,
     InfoMembers, SumLength
<1>2. CASE current_token = AtFile(torrent, i) + 1 /\ tf = FileBegun(i)
  BY <1>1, <1>2, FileLengthRead
<1>3. CASE current_token = AtFile(torrent, i) + 3 + SumLength(i) /\ tf = FileSummedUp(i)
  BY <1>1, <1>3, FilePathRead
<1>4. CASE current_token = AtFile(torrent, i) + 3 /\ tf = FileSized(i)
  <2>1. CASE torrent.files[i].md5sum = ""
    <3>1. current_token = AtFile(torrent, i) + 3 + SumLength(i) /\ tf = FileSummedUp(i)
      BY <1>1, <1>4, <2>1, NoSum, Zenon
    <3> QED
      BY <1>3, <3>1
  <2>2. CASE torrent.files[i].md5sum # ""
    <3>1. FilePhase(i)' \/ Past' \/ reading' \in Failures \/ torrent.files[i].md5sum = ""
      BY <1>1, <1>4, FileMd5Read
    <3> QED
      BY <2>2, <3>1, Zenon
  <2> QED
    BY <2>1, <2>2, Zenon
<1>5. CASE current_token = AtFile(torrent, i + 1) /\ tf = FilesDone(i)
  BY <1>1, <1>5, FileDone
<1> QED
  BY <1>1, <1>2, <1>3, <1>4, <1>5

(* Without a sum the name is next.                                         *)
LEMMA SizeIsLast ==
  ASSUME Tokenized, Plain(torrent), SizePhase
  PROVE  torrent.files[1].md5sum = "" => NamePhase
<1> DEFINE s == torrent.files[1].md5sum
<1> DEFINE n == torrent.files[1].length
<1>1. /\ reading = "fill_info" /\ torrent.single /\ current_token = AtFiles(torrent) + 2
      /\ tf = InfoMembers(<< InfoFile(n, "", << >>) >>, "", 0)
  BY DEF SizePhase, ReadInfo, InfoMembers
<1>2. s = "" => AtName(torrent) = AtFiles(torrent) + 2
  BY <1>1, SinglePlaces, Zenon DEF Tokenized
<1>3. FilesRead = << InfoFile(n, s, << >>) >>
  BY <1>1 DEF FilesRead
<1>4. s = "" => tf = InfoMembers(FilesRead, "", 0)
  <2> HIDE DEF s, n
  <2> QED
    BY <1>1, <1>3, Zenon
<1>5. s = "" => ReadInfo(AtName(torrent), FilesRead, "", 0)
  <2> HIDE DEF s, n
  <2> QED
    BY <1>1, <1>2, <1>4, Zenon DEF ReadInfo, InfoMembers
<1> QED
  BY <1>1, <1>5, Zenon DEF NamePhase
-----------------------------------------------------------------------------
(* The name, the length of a piece and the pieces.                         *)
LEMMA SixStand ==
  ASSUME NEW c, NEW u, NEW v, NEW w, NEW x, NEW y, NEW z, Stands(c, << u, v, w, x, y, z >>),
         Len(TheSource) \in Nat
  PROVE  /\ c \in Nat /\ Lex(c) = u /\ Lex(c + 1) = v /\ Lex(c + 2) = w /\ Lex(c + 2 + 1) = x
         /\ Lex(c + 4) = y /\ Lex(c + 4 + 1) = z
         /\ c + 4 + 1 < Len(TheSource) /\ c + 2 + 2 = c + 4 /\ c + 4 + 3 = c + 6 + 1
         /\ c + 2 \in Nat /\ c + 4 \in Nat
<1> DEFINE p == << u, v, w, x, y, z >>
<1>1. /\ c \in Nat /\ c + 6 <= Len(TheSource)
      /\ TheSource[c + 1] = p[1] /\ TheSource[c + 2] = p[2] /\ TheSource[c + 3] = p[3]
      /\ TheSource[c + 4] = p[4] /\ TheSource[c + 5] = p[5] /\ TheSource[c + 6] = p[6]
  <2>1. Len(p) = 6
    OBVIOUS
  <2> HIDE DEF p
  <2>2. c \in Nat /\ c + 6 <= Len(TheSource) /\ \A k \in 1 .. 6 : TheSource[c + k] = p[k]
    BY <2>1 DEF Stands, p
  <2> QED
    BY <2>2
<1>2. p[1] = u /\ p[2] = v /\ p[3] = w /\ p[4] = x /\ p[5] = y /\ p[6] = z
  OBVIOUS
<1> HIDE DEF p
<1>3. /\ c + 1 + 1 = c + 2 /\ c + 2 + 1 = c + 3 /\ c + 2 + 1 + 1 = c + 4 /\ c + 4 + 1 = c + 5
      /\ c + 4 + 1 + 1 = c + 6 /\ c + 2 + 2 = c + 4 /\ c + 4 + 3 = c + 6 + 1
      /\ c + 4 + 1 < Len(TheSource) /\ c + 2 \in Nat /\ c + 4 \in Nat
  BY <1>1
<1> QED
  BY <1>1, <1>2, <1>3 DEF Lex

LEMMA NamePlaces ==
  ASSUME ReadInv, Plain(torrent)
  PROVE  LET c == AtName(torrent)
         IN  /\ c \in Nat /\ c + 2 \in Nat /\ c + 4 \in Nat /\ c + 2 + 2 = c + 4
             /\ c + 4 + 3 = AtLast(torrent) + 1 /\ AtLast(torrent) = c + 6 /\ AtLast(torrent) \in Nat
             /\ Lex(c) = Str("name") /\ Lex(c + 1) = Str(torrent.name)
             /\ Lex(c + 2) = Str("piece length") /\ Lex(c + 2 + 1) = Num(torrent.piece_length)
             /\ Lex(c + 4) = Str("pieces") /\ Lex(c + 4 + 1).type = "STR"
             /\ Lex(c + 4 + 1).length = torrent.pieces /\ torrent.pieces \in Nat
<1> DEFINE c == AtName(torrent)
<1> DEFINE u == Str("name")
<1> DEFINE v == Str(torrent.name)
<1> DEFINE w == Str("piece length")
<1> DEFINE x == Num(torrent.piece_length)
<1> DEFINE y == Str("pieces")
<1> DEFINE z == Bytes("hashes", torrent.pieces)
<1>1. Stands(c, << u, v, w, x, y, z >>) /\ AtLast(torrent) \in Nat
  BY InfoStands, Landmarks DEF InfoValues
<1>2. z.type = "STR" /\ z.length = torrent.pieces
  BY DEF Bytes
<1>3. AtLast(torrent) = c + 6
  BY DEF AtLast
<1>4. Len(TheSource) \in Nat /\ TheSource \in Seq(Lexeme)
  BY SourceSeq
<1> HIDE DEF c, u, v, w, x, y, z
<1>5. /\ c \in Nat /\ Lex(c) = u /\ Lex(c + 1) = v /\ Lex(c + 2) = w /\ Lex(c + 2 + 1) = x
      /\ Lex(c + 4) = y /\ Lex(c + 4 + 1) = z
      /\ c + 4 + 1 < Len(TheSource) /\ c + 2 + 2 = c + 4 /\ c + 4 + 3 = c + 6 + 1
      /\ c + 2 \in Nat /\ c + 4 \in Nat
  BY <1>1, <1>4, SixStand
<1>6. torrent.pieces \in Nat
  <2> DEFINE k == c + 4 + 1 + 1
  <2> DEFINE L == Lexeme
  <2>1. k \in 1 .. Len(TheSource) /\ TheSource \in Seq(L)
    BY <1>4, <1>5
  <2> HIDE DEF k, L
  <2>2. TheSource[k] \in L
    BY <2>1
  <2>3. z \in Lexeme
    BY <1>5, <2>2 DEF Lex, k, L
  <2> QED
    BY <1>2, <2>3 DEF Lexeme
<1> QED
  BY <1>1, <1>2, <1>3, <1>5, <1>6, Zenon DEF c, u, v, w, x, y

NamedFiles(name, size) == InfoMembers(FilesRead, name, size)

LEMMA NamedUnread ==
  ASSUME NEW n, NEW s, tf = NamedFiles(n, s) PROVE "pieces" \in DOMAIN tf /\ tf.pieces = 0
BY Unread DEF NamedFiles, InfoMembers

NameBegun == NamedFiles("", 0)
NameRead  == NamedFiles(torrent.name, 0)
SizeRead  == NamedFiles(torrent.name, torrent.piece_length)

LEMMA MemberSet ==
  ASSUME NEW u, NEW l, NEW c, NEW d, NEW s, NEW p, NEW n, NEW i, NEW f, NEW h, NEW v,
         tf = Members(u, l, c, d, s, p, n, i, f, h)
  PROVE  /\ [tf EXCEPT !.dir_name = v] = Members(u, l, c, d, s, p, v, i, f, h)
         /\ [tf EXCEPT !.piece_size = v] = Members(u, l, c, d, v, p, n, i, f, h)
         /\ [tf EXCEPT !.pieces = v] = Members(u, l, c, d, s, v, n, i, f, h)
<1>1. [tf EXCEPT !.dir_name = v] = Members(u, l, c, d, s, p, v, i, f, h)
  BY DEF Members
<1>2. [tf EXCEPT !.piece_size = v] = Members(u, l, c, d, v, p, n, i, f, h)
  BY DEF Members
<1>3. [tf EXCEPT !.pieces = v] = Members(u, l, c, d, s, v, n, i, f, h)
  BY DEF Members
<1> QED
  BY <1>1, <1>2, <1>3

LEMMA NameSet ==
  /\ tf = NameBegun => [tf EXCEPT !.dir_name = torrent.name] = NameRead
  /\ tf = NameRead => [tf EXCEPT !.piece_size = torrent.piece_length] = SizeRead
<1>1. tf = NameBegun => [tf EXCEPT !.dir_name = torrent.name] = NameRead
  <2> DEFINE e == ""
  <2> DEFINE o == << >>
  <2> DEFINE z == 0
  <2> DEFINE v == torrent.name
  <2>1. \A n : NamedFiles(n, 0) = Members(torrent.announce, TheList, torrent.comment, torrent.date, z, z, n, o,
                                     FilesRead, o)
    BY DEF NamedFiles, InfoMembers
  <2> HIDE DEF e, o, z, v
  <2>2. ASSUME tf = NamedFiles(e, 0) PROVE [tf EXCEPT !.dir_name = v] = NamedFiles(v, 0)
    <3>1. tf = Members(torrent.announce, TheList, torrent.comment, torrent.date, z, z, e, o, FilesRead, o)
      BY <2>1, <2>2
    <3>2. [tf EXCEPT !.dir_name = v]
            = Members(torrent.announce, TheList, torrent.comment, torrent.date, z, z, v, o, FilesRead, o)
      BY <3>1, MemberSet
    <3> QED
      BY <2>1, <3>2
  <2> QED
    BY <2>2 DEF NameBegun, NameRead, e, v
<1>2. tf = NameRead => [tf EXCEPT !.piece_size = torrent.piece_length] = SizeRead
  BY DEF SizeRead, NameRead, NamedFiles, InfoMembers, Members
<1> QED
  BY <1>1, <1>2

LEMMA NameGoesOn ==
  ASSUME torrent' = torrent, reading' = "fill_info"
  PROVE  /\ current_token' = AtName(torrent) + 2 /\ tf' = NameRead => NamePhase'
         /\ current_token' = AtName(torrent) + 4 /\ tf' = SizeRead => NamePhase'
<1>1. TheList' = TheList /\ FilesRead' = FilesRead /\ AtName(torrent)' = AtName(torrent)
  BY SameTorrent
<1>2. ASSUME current_token' = AtName(torrent) + 2, tf' = NameRead PROVE NamePhase'
  <2>1. ReadInfo(AtName(torrent) + 2, FilesRead, torrent.name, 0)'
    BY <1>1, <1>2 DEF ReadInfo, NameRead, NamedFiles, InfoMembers
  <2> QED
    BY <2>1 DEF NamePhase
<1>3. ASSUME current_token' = AtName(torrent) + 4, tf' = SizeRead PROVE NamePhase'
  <2>1. ReadInfo(AtName(torrent) + 4, FilesRead, torrent.name, torrent.piece_length)'
    BY <1>1, <1>3 DEF ReadInfo, SizeRead, NamedFiles, InfoMembers
  <2> QED
    BY <2>1 DEF NamePhase
<1> QED
  BY <1>2, <1>3

LEMMA NameIsRead ==
  ASSUME Tokenized, Plain(torrent), ReadNext, reading = "fill_info", current_token = AtName(torrent), tf = NameBegun
  PROVE  NamePhase' \/ Past' \/ reading' \in Failures
<1> DEFINE c == AtName(torrent)
<1> DEFINE v == torrent.name
<1>1. "pieces" \in DOMAIN tf /\ tf.pieces = 0
  BY NamedUnread DEF NameBegun
<1>2. c \in Nat /\ Lex(c) = Str("name") /\ Lex(c + 1) = Str(v)
  BY NamePlaces DEF Tokenized
<1>3. Lex(c).type = "STR" /\ Lex(c).str = "name" /\ Lex(c + 1).type = "STR" /\ Lex(c + 1).str = v
  BY <1>2, Kinds
<1>4. c = current_token
  OBVIOUS
<1> HIDE DEF c
<1>5. CASE Past' \/ reading' \in {"refused", "crashed"}
  BY <1>5 DEF Failures
<1>6. CASE c + 1 < kept
  <2>1. /\ UNCHANGED << reading, torrent, kept, tokens >> /\ current_token' = c + 2
        /\ tf' = [tf EXCEPT !.dir_name = v]
    BY <1>2, <1>3, <1>4, <1>6, InfoNameRead
  <2>2. tf' = NameRead
    BY <2>1, NameSet
  <2> QED
    BY <2>1, <2>2, NameGoesOn DEF c
<1>7. c + 1 < kept \/ Past' \/ reading' \in {"refused", "crashed"}
  BY <1>1, <1>3, <1>4, OrPast DEF Walking
<1> QED
  BY <1>5, <1>6, <1>7

LEMMA PieceLengthRead ==
  ASSUME Tokenized, Plain(torrent), ReadNext, reading = "fill_info", current_token = AtName(torrent) + 2, tf = NameRead
  PROVE  NamePhase' \/ Past' \/ reading' \in Failures
<1> DEFINE c == AtName(torrent) + 2
<1> DEFINE v == torrent.piece_length
<1>1. "pieces" \in DOMAIN tf /\ tf.pieces = 0
  BY NamedUnread DEF NameRead
<1>2. /\ c \in Nat /\ Lex(c) = Str("piece length") /\ Lex(c + 1) = Num(v)
      /\ c + 2 = AtName(torrent) + 4
  BY NamePlaces DEF Tokenized
<1>3. Lex(c).type = "STR" /\ Lex(c).str = "piece length" /\ Lex(c + 1).type = "INT" /\ Lex(c + 1).number = v
  <2> HIDE DEF c, v
  <2>1. Lex(c) = Str("piece length") /\ Lex(c + 1) = Num(v)
    BY <1>2
  <2> QED
    BY <2>1, NumPair
<1>4. c = current_token
  OBVIOUS
<1> HIDE DEF c
<1>5. CASE Past' \/ reading' \in {"refused", "crashed"}
  BY <1>5 DEF Failures
<1>6. CASE c + 1 < kept
  <2>1. /\ UNCHANGED << reading, torrent, kept, tokens >> /\ current_token' = c + 2
        /\ tf' = [tf EXCEPT !.piece_size = v]
    BY <1>2, <1>3, <1>4, <1>6, InfoSizeRead
  <2>2. tf' = SizeRead
    BY <2>1, NameSet
  <2> QED
    BY <1>2, <2>1, <2>2, NameGoesOn
<1>7. c + 1 < kept \/ Past' \/ reading' \in {"refused", "crashed"}
  BY <1>1, <1>3, <1>4, OrPast DEF Walking
<1> QED
  BY <1>5, <1>6, <1>7

LEMMA PiecesAreRead ==
  ASSUME Tokenized, Plain(torrent), ReadNext, reading = "fill_info", current_token = AtName(torrent) + 4, tf = SizeRead
  PROVE  PiecesRead' \/ Past' \/ reading' \in Failures
<1> DEFINE c == AtName(torrent) + 4
<1> DEFINE v == torrent.pieces
<1> DEFINE n == v \div SHA1_PIECE_LENGTH
<1>1. "pieces" \in DOMAIN tf /\ tf.pieces = 0
  BY NamedUnread DEF SizeRead
<1>2. /\ c \in Nat /\ Lex(c) = Str("pieces") /\ Lex(c + 1).type = "STR" /\ Lex(c + 1).length = v
      /\ c + 3 = AtLast(torrent) + 1 /\ v \in Nat /\ AtLast(torrent) \in Nat
  BY NamePlaces DEF Tokenized
<1>3. Lex(c).type = "STR" /\ Lex(c).str = "pieces"
  BY <1>2, Kinds
<1>4. c = current_token
  OBVIOUS
<1>5. n \in Nat /\ 0 + n = n
  <2> HIDE DEF v
  <2> QED
    BY <1>2 DEF SHA1_PIECE_LENGTH
<1> HIDE DEF c
<1>6. CASE Past' \/ reading' \in {"refused", "crashed"}
  BY <1>6 DEF Failures
<1>7. CASE c + 1 < kept /\ reading' # "refused"
  <2>1. /\ v % SHA1_PIECE_LENGTH = 0
        /\ UNCHANGED << reading, torrent, kept, tokens >> /\ current_token' = c + 3
        /\ tf' = [tf EXCEPT !.pieces = @ + n]
    <3> DEFINE w == Lex(c + 1).length
    <3>1. /\ w % SHA1_PIECE_LENGTH = 0
          /\ UNCHANGED << reading, torrent, kept, tokens >> /\ current_token' = c + 3
          /\ tf' = [tf EXCEPT !.pieces = @ + w \div SHA1_PIECE_LENGTH]
      BY <1>2, <1>3, <1>4, <1>7, InfoWalked
    <3>2. w = v
      BY <1>2
    <3> HIDE DEF w, v
    <3> QED
      BY <3>1, <3>2
  <2>2. kept \in Nat
    BY SourceTokens
  <2>3. current_token' >= AtLast(torrent) /\ kept' >= AtLast(torrent)
    <3> DEFINE q == AtLast(torrent)
    <3>1. c + 3 = q + 1 /\ q \in Nat /\ current_token' = c + 3 /\ kept' = kept /\ c + 1 < kept
      BY <1>2, <1>7, <2>1
    <3> HIDE DEF q
    <3>2. current_token' >= q /\ kept' >= q
      BY <1>2, <2>2, <3>1
    <3> QED
      BY <3>2 DEF q
  <2>4. tf' = Members(torrent.announce, TheList, torrent.comment, torrent.date, torrent.piece_length,
                      n, torrent.name, << >>, FilesRead, << >>)
    <3>1. tf' = [tf EXCEPT !.pieces = n]
      <4> HIDE DEF n
      <4> QED
        BY <1>1, <1>5, <2>1
    <3> HIDE DEF n
    <3> QED
      BY <3>1 DEF SizeRead, NamedFiles, InfoMembers, Members
  <2>5. TheList' = TheList /\ FilesRead' = FilesRead
    BY <2>1, SameTorrent
  <2>6. AtLast(torrent)' = AtLast(torrent) /\ torrent' = torrent /\ reading' = "fill_info"
    BY <2>1
  <2> QED
    BY <2>1, <2>3, <2>4, <2>5, <2>6 DEF PiecesRead
<1>8. c + 1 < kept \/ Past' \/ reading' \in {"refused", "crashed"}
  BY <1>1, <1>3, <1>4, OrPast DEF Walking
<1> QED
  BY <1>6, <1>7, <1>8

LEMMA NameStep ==
  ASSUME Tokenized, Plain(torrent), ReadNext, NamePhase
  PROVE  NamePhase' \/ PiecesRead' \/ Past' \/ reading' \in Failures
<1>1. /\ reading = "fill_info"
      /\ \/ current_token = AtName(torrent) /\ tf = NameBegun
         \/ current_token = AtName(torrent) + 2 /\ tf = NameRead
         \/ current_token = AtName(torrent) + 4 /\ tf = SizeRead
  BY DEF NamePhase, ReadInfo, NameBegun, NameRead, SizeRead, NamedFiles, InfoMembers
<1> QED
  BY <1>1, NameIsRead, PieceLengthRead, PiecesAreRead
-----------------------------------------------------------------------------
(* After the pieces: the keys are unknown, until info is left.             *)
LEMMA NoKeyAt ==
  ASSUME Tokenized, Plain(torrent), AtLast(torrent) <= current_token
  PROVE  AtType("STR") => Token(current_token).str \notin InfoKeys \union Keys
<1> SUFFICES ASSUME AtType("STR") PROVE Token(current_token).str \notin InfoKeys \union Keys
  OBVIOUS
<1> DEFINE c == current_token
<1>1. /\ c \in Nat /\ c < TOKENS_SIZE /\ Type(c) = "STR" /\ kept \in Nat
      /\ kept <= Len(TheSource) /\ Len(TheSource) \in Nat
      /\ kept <= c => Type(c) \in EndTypes
  BY SourceTokens DEF AtType
<1>2. "STR" \notin EndTypes
  BY DEF EndTypes
<1>3. c < kept
  BY <1>1, <1>2
<1>4. Lex(c).type = "STR" /\ Token(c).str = Lex(c).str
  BY <1>1, <1>3, TokenOf
<1>5. c < Len(TheSource)
  BY <1>1, <1>3
<1> QED
  BY <1>1, <1>4, <1>5, NoKeyAfter DEF Tokenized

LEMMA FilesReadLength ==
  ASSUME ReadInv, Plain(torrent)
  PROVE  /\ Len(FilesRead) = Len(torrent.files) /\ Len(torrent.files) \in Nat
         /\ Len(torrent.files) = 1 => FilesRead = << FilesRead[1] >>
<1> DEFINE n == Len(torrent.files)
<1>1. n \in Nat
  BY PlainTypes
<1>2. CASE torrent.single
  <2>1. n = 1
    BY <1>2 DEF Plain
  <2> DEFINE x == InfoFile(torrent.files[1].length, torrent.files[1].md5sum, << >>)
  <2>2. FilesRead = << x >>
    BY <1>2 DEF FilesRead
  <2> HIDE DEF x, n
  <2> QED
    BY <1>1, <2>1, <2>2 DEF n
<1>3. CASE ~torrent.single
  <2> DEFINE g(k) == InfoFile(torrent.files[k].length, torrent.files[k].md5sum, torrent.files[k].path)
  <2> DEFINE S == {g(k) : k \in 1 .. n}
  <2> DEFINE p == FilesRead
  <2>1. p = [k \in 1 .. n |-> g(k)]
    BY <1>3 DEF FilesRead, FilesTo
  <2>2. \A k \in 1 .. n : g(k) \in S
    OBVIOUS
  <2> HIDE DEF g, S, n, p
  <2>3. p \in Seq(S) /\ Len(p) = n
    BY <1>1, <2>1, <2>2
  <2>4. n = 1 => p = << p[1] >>
    BY <2>3
  <2> QED
    BY <1>1, <2>3, <2>4 DEF n, p
<1> QED
  BY <1>2, <1>3

AllRead == Members(torrent.announce, TheList, torrent.comment, torrent.date, torrent.piece_length,
                   torrent.pieces \div SHA1_PIECE_LENGTH, torrent.name, << >>, FilesRead, << >>)

LEMMA DirectorySet ==
  ASSUME Tokenized, Plain(torrent), tf = AllRead
  PROVE  (IF Len(tf.files) = 1
          THEN [tf EXCEPT !.files[1].path = Append(@, tf.dir_name)]
          ELSE [tf EXCEPT !.dir_path = << tf.dir_name >>])
         = Members(torrent.announce, TheList, torrent.comment, torrent.date, torrent.piece_length,
                   torrent.pieces \div SHA1_PIECE_LENGTH, torrent.name,
                   IF Len(torrent.files) = 1 THEN << >> ELSE << torrent.name >>,
                   IF Len(torrent.files) = 1
                   THEN << [FilesRead[1] EXCEPT !.path = Append(@, torrent.name)] >>
                   ELSE FilesRead,
                   << >>)
<1> DEFINE o == << >>
<1> DEFINE p == torrent.pieces \div SHA1_PIECE_LENGTH
<1> DEFINE f == FilesRead
<1> DEFINE v == torrent.name
<1>1. tf = Members(torrent.announce, TheList, torrent.comment, torrent.date, torrent.piece_length,
                   p, v, o, f, o)
  BY DEF AllRead
<1>2. Len(f) = Len(torrent.files) /\ (Len(torrent.files) = 1 => f = << f[1] >>)
  BY FilesReadLength DEF Tokenized
<1> HIDE DEF o, p, f, v
<1>3. tf.files = f /\ tf.dir_name = v
  BY <1>1 DEF Members
<1>4. CASE Len(torrent.files) = 1
  <2> DEFINE b == WithPath(f[1], Append(f[1].path, v))
  <2>1. [tf EXCEPT !.files[1].path = Append(@, tf.dir_name)]
          = Members(torrent.announce, TheList, torrent.comment, torrent.date, torrent.piece_length,
                    p, v, o, [f EXCEPT ![1] = b], o)
    <3>1. [tf EXCEPT !.files[1].path = Append(@, tf.dir_name)]
            = Members(torrent.announce, TheList, torrent.comment, torrent.date, torrent.piece_length,
                      p, v, o, [f EXCEPT ![1] = WithPath(f[1], Append(f[1].path, v))], o)
      <4> DEFINE w == Append(f[1].path, v)
      <4>1. [tf EXCEPT !.files[1].path = Append(@, tf.dir_name)] = BackPath(1, w)
        BY <1>3 DEF BackPath
      <4>2. Put(f, 1, WithPath(f[1], w)) = [f EXCEPT ![1] = WithPath(f[1], w)]
        BY DEF Put
      <4>3. BackPath(1, w)
              = Members(torrent.announce, TheList, torrent.comment, torrent.date, torrent.piece_length,
                        p, v, o, Put(f, 1, WithPath(f[1], w)), o)
        <5> HIDE DEF w
        <5> QED
          BY <1>1, FileSet
      <4> QED
        BY <4>1, <4>2, <4>3, Zenon
    <3> QED
      BY <3>1
  <2> HIDE DEF b
  <2> DEFINE a == f[1]
  <2>2. f = << a >>
    BY <1>2, <1>4
  <2> HIDE DEF a
  <2>3. [f EXCEPT ![1] = b] = << b >>
    BY <2>2, OneChanged
  <2>4. b = [FilesRead[1] EXCEPT !.path = Append(@, torrent.name)]
    BY DEF b, WithPath, f, v
  <2> QED
    BY <1>2, <1>3, <1>4, <2>1, <2>3, <2>4 DEF f, v, o, p
<1>5. CASE Len(torrent.files) # 1
  <2>1. [tf EXCEPT !.dir_path = << tf.dir_name >>]
          = Members(torrent.announce, TheList, torrent.comment, torrent.date, torrent.piece_length,
                    p, v, << v >>, f, o)
    BY <1>1, <1>3 DEF Members
  <2> QED
    BY <1>2, <1>3, <1>5, <2>1 DEF f, v, o, p
<1> QED
  BY <1>4, <1>5

InfoAll(sha1) ==
  Members(torrent.announce, TheList, torrent.comment, torrent.date, torrent.piece_length,
          torrent.pieces \div SHA1_PIECE_LENGTH, torrent.name,
          IF Len(torrent.files) = 1 THEN << >> ELSE << torrent.name >>,
          IF Len(torrent.files) = 1
          THEN << [FilesRead[1] EXCEPT !.path = Append(@, torrent.name)] >>
          ELSE FilesRead,
          sha1)

LEMMA InfoGoesOn ==
  ASSUME torrent' = torrent, NEW h, tf' = InfoAll(h)
  PROVE  /\ reading' \in {"process", "sha1", "offsets", "loaded"}
         /\ reading' # "loaded" => current_token' >= AtLast(torrent)
         /\ torrent.pieces % SHA1_PIECE_LENGTH = 0
         => InfoRead'
<1>1. TheList' = TheList /\ FilesRead' = FilesRead /\ AtLast(torrent)' = AtLast(torrent)
  BY SameTorrent
<1>2. tf'.info_sha1 = h
  BY DEF InfoAll, Members
<1>3. tf' = Members(torrent.announce, TheList, torrent.comment, torrent.date, torrent.piece_length,
                    torrent.pieces \div SHA1_PIECE_LENGTH, torrent.name,
                    IF Len(torrent.files) = 1 THEN << >> ELSE << torrent.name >>,
                    IF Len(torrent.files) = 1
                    THEN << [FilesRead[1] EXCEPT !.path = Append(@, torrent.name)] >>
                    ELSE FilesRead,
                    tf.info_sha1)'
  BY <1>1, <1>2 DEF InfoAll
<1> QED
  BY <1>1, <1>3 DEF InfoRead

LEMMA PiecesReadStep ==
  ASSUME Tokenized, Plain(torrent), ReadNext, PiecesRead
  PROVE  PiecesRead' \/ InfoRead'
<1> DEFINE c == current_token
<1> DEFINE q == AtLast(torrent)
<1>1. /\ reading = "fill_info" /\ c >= q /\ kept >= q /\ torrent.pieces % SHA1_PIECE_LENGTH = 0
      /\ tf = AllRead
  BY DEF PiecesRead, AllRead
<1>2. /\ c \in Nat /\ kept \in Nat /\ TOKENS_SIZE \in Nat /\ kept <= TOKENS_SIZE
      /\ q \in Nat
  BY SourceTokens, NamePlaces DEF Tokenized
<1>3. info_value \/ fill_pieces \/ fill_files \/ info_ends
  BY <1>1, ReadingAt
<1>4. AtType("STR") => Token(c).str \notin InfoKeys \union Keys
  BY <1>1, <1>2, NoKeyAt
<1>5. AtType("STR") => \A key \in InfoKeys : \A type : ~At(key, type)
  BY <1>4 DEF At
<1>6. ~fill_pieces /\ ~fill_files
  BY <1>5, Zenon DEF fill_pieces, fill_files, InInfo, InfoKeys
<1>7. CASE info_value
  <2>1. AtType("STR") /\ UNCHANGED << torrent, kept, tokens, reading >> /\ current_token' = c + 2
        /\ tf' = CASE At("piece length", "INT") -> [tf EXCEPT !.piece_size = TheNumber]
                   [] At("name", "STR")         -> [tf EXCEPT !.dir_name = TheStr]
                   [] At("md5sum", "STR")       -> [tf EXCEPT !.files[1].md5sum = TheStr]
                   [] At("length", "INT")       -> [tf EXCEPT !.files[1].size = TheNumber]
                   [] OTHER                     -> tf
    BY <1>7, Zenon DEF info_value, InInfo
  <2>2. ~At("piece length", "INT") /\ ~At("name", "STR") /\ ~At("md5sum", "STR") /\ ~At("length", "INT")
    BY <1>5, <2>1 DEF InfoKeys
  <2>3. tf' = tf
    BY <2>1, <2>2
  <2>4. TheList' = TheList /\ FilesRead' = FilesRead /\ torrent' = torrent /\ AtLast(torrent)' = q
    BY <2>1, SameTorrent
  <2>5. current_token' >= AtLast(torrent)' /\ kept' >= AtLast(torrent)'
    <3>1. AtLast(torrent)' = q
      BY <2>4
    <3>2. current_token' = c + 2 /\ kept' = kept /\ c >= q /\ kept >= q
      BY <1>1, <2>1
    <3>3. current_token' >= q /\ kept' >= q
      <4> HIDE DEF c, q
      <4> QED
        BY <1>2, <3>2
    <3> QED
      BY <3>1, <3>3
  <2>6. tf' = Members(torrent.announce, TheList, torrent.comment, torrent.date, torrent.piece_length,
                      torrent.pieces \div SHA1_PIECE_LENGTH, torrent.name, << >>, FilesRead, << >>)'
    BY <1>1, <2>3, <2>4 DEF AllRead
  <2> QED
    BY <1>1, <2>1, <2>4, <2>5, <2>6 DEF PiecesRead
<1>8. CASE info_ends
  <2>1. ~AtType("STR")
    BY <1>8, Zenon DEF info_ends
  <2>2. /\ UNCHANGED << torrent, kept, tokens >> /\ reading' = "process"
        /\ current_token' \in {c + 1, TOKENS_SIZE}
        /\ tf' = IF Len(tf.files) = 1
                 THEN [tf EXCEPT !.files[1].path = Append(@, tf.dir_name)]
                 ELSE [tf EXCEPT !.dir_path = << tf.dir_name >>]
    BY <1>1, <2>1, InfoLeft
  <2>3. tf' = InfoAll(<< >>)
    BY <1>1, <2>2, DirectorySet DEF InfoAll
  <2>4. current_token' >= q
    <3> HIDE DEF c, q
    <3> QED
      BY <1>1, <1>2, <2>2
  <2> DEFINE h == << >>
  <2>5. tf' = InfoAll(h)
    BY <2>3
  <2> HIDE DEF h
  <2> QED
    BY <1>1, <2>2, <2>4, <2>5, InfoGoesOn
<1> QED
  BY <1>3, <1>6, <1>7, <1>8

LEMMA HashSet ==
  ASSUME NEW u, NEW l, NEW c, NEW d, NEW s, NEW p, NEW n, NEW i, NEW f, NEW h, NEW v,
         tf = Members(u, l, c, d, s, p, n, i, f, h)
  PROVE  [tf EXCEPT !.info_sha1 = v] = Members(u, l, c, d, s, p, n, i, f, v)
BY DEF Members

LEMMA InfoReadStep ==
  ASSUME Tokenized, Plain(torrent), ReadNext, InfoRead
  PROVE  InfoRead' \/ reading' \in Failures
<1> DEFINE c == current_token
<1> DEFINE q == AtLast(torrent)
<1> DEFINE h == tf.info_sha1
<1>1. /\ reading \in {"process", "sha1", "offsets", "loaded"} /\ (reading # "loaded" => c >= q)
      /\ torrent.pieces % SHA1_PIECE_LENGTH = 0 /\ tf = InfoAll(h)
  BY DEF InfoRead, InfoAll
<1>2. c \in Nat /\ TOKENS_SIZE \in Nat /\ q \in Nat
  BY SourceTokens, NamePlaces DEF Tokenized
<1>3. reading # "loaded"
  BY ReadingAt DEF Walking
<1>4. CASE reading = "process"
  <2>1. AtType("STR") => Token(c).str \notin InfoKeys \union Keys
    BY <1>1, <1>2, <1>3, NoKeyAt
  <2>2. AtKey = ""
    BY <2>1 DEF AtKey
  <2>3. AtKey \notin Keys \union {"announce", "comment"}
    BY <2>2 DEF Keys
  <2>4. skip_token \/ process_ends
    <3>1. ~fill_str /\ ~fill_creation_date /\ ~fill_announce_list /\ ~fill_info
      BY <2>3, Zenon DEF fill_str, fill_creation_date, fill_announce_list, fill_info, Keys
    <3> QED
      BY <1>4, <3>1, ReadingAt
  <2>5. /\ UNCHANGED << torrent, kept, tokens, tf >> /\ current_token' \in {c, c + 1}
        /\ reading' \in {"process", "sha1"}
    BY <1>4, <2>4 DEF skip_token, process_ends
  <2>6. current_token' >= q
    <3> HIDE DEF c, q
    <3> QED
      BY <1>1, <1>2, <1>3, <2>5
  <2>7. tf' = InfoAll(h)
    BY <1>1, <2>5
  <2> HIDE DEF h
  <2> QED
    BY <1>1, <2>5, <2>6, <2>7, InfoGoesOn
<1>5. CASE reading = "sha1"
  <2>1. calculate_info_sha1
    BY <1>5, ReadingAt
  <2>2. /\ reading' = "offsets" /\ current_token' = c
        /\ \E v : tf' = [tf EXCEPT !.info_sha1 = v]
    BY <2>1, HashKept
  <2>3. PICK v : tf' = [tf EXCEPT !.info_sha1 = v]
    BY <2>2
  <2>4. torrent' = torrent
    BY <1>5, <2>2, StepKept DEF Walking
  <2>5. tf' = InfoAll(v)
    BY <1>1, <2>3, HashSet DEF InfoAll
  <2> QED
    BY <1>1, <1>3, <2>2, <2>4, <2>5, InfoGoesOn
<1>6. CASE reading = "offsets"
  <2>1. fill_piece_offsets
    BY <1>6, ReadingAt
  <2>2. reading' \in Failures \union {"loaded"} /\ UNCHANGED << torrent, tf >>
    BY <2>1 DEF fill_piece_offsets, Failures
  <2>3. tf' = InfoAll(h)
    BY <1>1, <2>2
  <2> HIDE DEF h
  <2> QED
    BY <1>1, <2>2, <2>3, InfoGoesOn
<1> QED
  BY <1>1, <1>3, <1>4, <1>5, <1>6
-----------------------------------------------------------------------------
(* A step of the reading, wherever it is.                                  *)
LEMMA PhasesEntered ==
  /\ (TopPhase \/ SizePhase \/ NamePhase => OnTrack)'
  /\ \A m : FirstPhase(m)' => OnTrack'
  /\ \A i : NextFilePhase(i)' \/ FilePhase(i)' => OnTrack'
<1>1. (TopPhase \/ SizePhase \/ NamePhase => OnTrack)'
  BY Zenon DEF OnTrack
<1>2. ASSUME NEW m, FirstPhase(m)' PROVE OnTrack'
  <2>1. m \in 0 .. Len(torrent.first)'
    BY <1>2 DEF FirstPhase
  <2> QED
    BY <1>2, <2>1, Zenon DEF OnTrack
<1>3. ASSUME NEW i, NextFilePhase(i)' PROVE OnTrack'
  <2>1. i \in 1 .. (Len(torrent.files)' + 1)
    BY <1>3 DEF NextFilePhase
  <2> QED
    BY <1>3, <2>1, Zenon DEF OnTrack
<1>4. ASSUME NEW i, FilePhase(i)' PROVE OnTrack'
  <2>1. i \in 1 .. Len(torrent.files)'
    BY <1>4 DEF FilePhase
  <2> QED
    BY <1>4, <2>1, Zenon DEF OnTrack
<1> QED
  BY <1>1, <1>2, <1>3, <1>4

LEMMA OnTrackStep ==
  ASSUME Tokenized, Plain(torrent), ReadNext, OnTrack
  PROVE  OnTrack' \/ PiecesRead' \/ Past' \/ reading' \in Failures
<1>1. CASE TopPhase
  <2>1. TopPhase' \/ FirstPhase(0)' \/ Past' \/ reading' \in Failures
    BY <1>1, TopStep
  <2> QED
    BY <2>1, PhasesEntered
<1>2. ASSUME NEW m, FirstPhase(m) PROVE OnTrack' \/ Past' \/ reading' \in Failures
  <2>1. CASE m # Len(torrent.first)
    <3>1. (\E k \in 0 .. Len(torrent.first) : FirstPhase(k))' => OnTrack'
      BY PhasesEntered
    <3> QED
      BY <1>2, <2>1, <3>1, FirstStep
  <2>2. CASE m = Len(torrent.first)
    <3>1. FirstPhase(Len(torrent.first))
      BY <1>2, <2>2
    <3>2. CASE torrent.single
      BY <3>1, <3>2, LengthRead, PhasesEntered
    <3>3. CASE ~torrent.single
      BY <3>1, <3>3, FilesEntered, PhasesEntered
    <3> QED
      BY <3>2, <3>3
  <2> QED
    BY <2>1, <2>2
<1>3. CASE NamePhase
  BY <1>3, NameStep, PhasesEntered
<1>4. CASE SizePhase
  <2>1. NamePhase' \/ Past' \/ reading' \in Failures \/ torrent.files[1].md5sum = ""
    BY <1>4, Md5Read
  <2>2. torrent.files[1].md5sum = "" => NamePhase
    BY <1>4, SizeIsLast
  <2> QED
    BY <1>3, <2>1, <2>2, PhasesEntered
<1>5. ASSUME NEW i \in 1 .. (Len(torrent.files) + 1), NextFilePhase(i)
      PROVE  OnTrack' \/ Past' \/ reading' \in Failures
  <2>1. i \in 1 .. Len(torrent.files) \/ i = Len(torrent.files) + 1
    <3>1. Len(torrent.files) \in Nat
      BY PlainTypes DEF Tokenized
    <3> QED
      BY <3>1
  <2>2. CASE i \in 1 .. Len(torrent.files)
    BY <1>5, <2>2, FileBegins, PhasesEntered
  <2>3. CASE i = Len(torrent.files) + 1
    <3>1. NextFilePhase(Len(torrent.files) + 1)
      BY <1>5, <2>3
    <3> QED
      BY <3>1, FilesLeft, PhasesEntered
  <2> QED
    BY <2>1, <2>2, <2>3
<1>6. ASSUME NEW i \in 1 .. Len(torrent.files), FilePhase(i)
      PROVE  OnTrack' \/ Past' \/ reading' \in Failures
  BY <1>6, FileStep, PhasesEntered
<1> QED
  BY <1>1, <1>2, <1>3, <1>4, <1>5, <1>6, Zenon DEF OnTrack

LEMMA TrackWalked ==
  OnTrack \/ Past \/ PiecesRead => reading \in Walking
<1>1. OnTrack => reading \in Walking
  <2>1. TopPhase => reading \in Walking
    BY DEF TopPhase, Read, Walking
  <2>2. (\E m \in 0 .. Len(torrent.first) : FirstPhase(m)) \/ SizePhase \/ NamePhase => reading \in Walking
    BY DEF FirstPhase, SizePhase, NamePhase, Walking
  <2>3. (\E i \in 1 .. (Len(torrent.files) + 1) : NextFilePhase(i)) => reading \in Walking
    BY DEF NextFilePhase, Walking
  <2>4. (\E i \in 1 .. Len(torrent.files) : FilePhase(i)) => reading \in Walking
    BY DEF FilePhase, Walking
  <2> QED
    BY <2>1, <2>2, <2>3, <2>4, Zenon DEF OnTrack
<1>2. Past \/ PiecesRead => reading \in Walking
  BY DEF Past, PiecesRead, Walking
<1> QED
  BY <1>1, <1>2

LEMMA LoadStep ==
  ASSUME ReadInv, Plain(torrent), LoadInv, ReadNext PROVE LoadInv'
<1>1. CASE reading = "parse"
  <2>1. tf = Members("", << >>, "", 0, 0, 0, "", << >>, << >>, << >>) /\ current_token = 0
    BY <1>1, TrackWalked DEF LoadInv, InfoRead, Walking
  <2>2. parse_tokens
    BY <1>1, ReadingAt
  <2>3. /\ tokens' = IF parse(Source) = << >> THEN << >> ELSE parse(Source)[1]
        /\ reading' = IF parse(Source) = << >> THEN "refused" ELSE "process"
        /\ UNCHANGED << torrent, kept, current_token, tf >>
    BY <2>2, Zenon DEF parse_tokens
  <2>4. parse(Source)' = parse(Source)
    BY <2>3 DEF Source
  <2>5. CASE parse(Source) = << >>
    BY <2>3, <2>5 DEF LoadInv, Walking
  <2>6. CASE parse(Source) # << >>
    <3>1. Read(0, "", << >>, "", 0)'
      BY <2>1, <2>3, <2>6 DEF Read
    <3>2. OnTrack'
      BY <3>1, PhasesEntered, Zenon DEF TopPhase
    <3>3. (parse(Source) # << >> /\ tokens = parse(Source)[1])'
      BY <2>3, <2>4, <2>6
    <3> QED
      BY <3>2, <3>3 DEF LoadInv
  <2> QED
    BY <2>5, <2>6
<1>2. CASE reading \in Walking
  <2>1. Tokenized /\ Parsed
    BY <1>2 DEF Tokenized, LoadInv, Parsed
  <2>2. OnTrack' \/ PiecesRead' \/ InfoRead' \/ Past' \/ reading' \in Failures
    <3>1. OnTrack \/ Past \/ PiecesRead \/ InfoRead
      BY <1>2 DEF LoadInv, Walking
    <3>2. CASE OnTrack
      BY <2>1, <3>2, OnTrackStep
    <3>3. CASE PiecesRead
      BY <2>1, <3>3, PiecesReadStep
    <3>4. CASE InfoRead
      BY <2>1, <3>4, InfoReadStep
    <3>5. CASE Past
      <4>1. "pieces" \in DOMAIN tf /\ tf.pieces = 0 /\ kept <= current_token
        <5>1. current_token \in Nat /\ kept \in Nat
          BY <2>1, SourceTokens
        <5> QED
          BY <3>5, <5>1 DEF Past
      <4> QED
        BY <1>2, <2>1, <4>1, PastStep DEF Failures
    <3> QED
      BY <3>1, <3>2, <3>3, <3>4, <3>5
  <2>3. reading' \in Walking => Parsed'
    BY <1>2, <2>1, StepKept, ParsedKept
  <2> QED
    BY <2>2, <2>3 DEF LoadInv, Parsed, Failures
<1> QED
  BY <1>1, <1>2, ReadingAt

LEMMA LoadBegins == ASSUME StartupInit PROVE LoadInv
<1> DEFINE f == [k \in {"announce", "comment"} |-> ""]
<1> DEFINE g == [k \in {"announce", "comment"} |-> IF k = "announce" THEN "" ELSE ""]
<1>1. f = g
  OBVIOUS
<1>2. /\ reading = "parse" /\ current_token = 0
      /\ tf = [str |-> f, creation_date |-> 0, announce_list |-> << >>, piece_size |-> 0, pieces |-> 0,
               dir_name |-> "", dir_path |-> << >>, files |-> << >>, info_sha1 |-> << >>]
  BY DEF StartupInit, ReadInit
<1>3. Members("", << >>, "", 0, 0, 0, "", << >>, << >>, << >>)
        = [str |-> g, creation_date |-> 0, announce_list |-> << >>, piece_size |-> 0, pieces |-> 0,
           dir_name |-> "", dir_path |-> << >>, files |-> << >>, info_sha1 |-> << >>]
  BY DEF Members
<1> HIDE DEF f, g
<1>4. tf = Members("", << >>, "", 0, 0, 0, "", << >>, << >>, << >>)
  BY <1>1, <1>2, <1>3, Zenon
<1> QED
  BY <1>2, <1>4 DEF LoadInv, Walking

(* What was read, in every state of the program: where the files are       *)
(* opened it is loaded.                                                    *)
LoadedInv == Plain(torrent) => LoadInv /\ (stage = "Files" => reading = "loaded")

LEMMA SameLoad ==
  ASSUME LoadInv, UNCHANGED readVars PROVE LoadInv'
<1>1. UNCHANGED << torrent, kept, tokens, current_token, reading, tf >>
  BY DEF readVars
<1>2. TheList' = TheList /\ FilesRead' = FilesRead /\ Begun' = Begun /\ parse(Source)' = parse(Source)
  BY <1>1, SameTorrent DEF Source
<1>3. \A i : FilesTo(i)' = FilesTo(i)
  BY <1>1, SameTorrent
<1>4. OnTrack => OnTrack'
  <2>1. TopPhase => TopPhase'
    BY <1>1, <1>2 DEF TopPhase, Read
  <2>2. \A m : FirstPhase(m) => FirstPhase(m)'
    BY <1>1, <1>2 DEF FirstPhase, ReadInfo
  <2>3. SizePhase => SizePhase'
    BY <1>1, <1>2 DEF SizePhase, ReadInfo
  <2>4. \A i : NextFilePhase(i) => NextFilePhase(i)'
    BY <1>1, <1>2, <1>3 DEF NextFilePhase, ReadInfo
  <2>5. \A i : FilePhase(i) => FilePhase(i)'
    BY <1>1, <1>2, <1>3 DEF FilePhase, ReadInfo
  <2>6. NamePhase => NamePhase'
    BY <1>1, <1>2 DEF NamePhase, ReadInfo
  <2> QED
    BY <2>1, <2>2, <2>3, <2>4, <2>5, <2>6, PhasesEntered, Zenon DEF OnTrack
<1>5. Past => Past'
  BY <1>1 DEF Past
<1>6. PiecesRead => PiecesRead'
  BY <1>1, <1>2 DEF PiecesRead
<1>7. InfoRead => InfoRead'
  BY <1>1, <1>2 DEF InfoRead
<1> QED
  BY <1>1, <1>2, <1>4, <1>5, <1>6, <1>7 DEF LoadInv

LEMMA LoadedStep ==
  ASSUME ReadInv, LoadedInv, [StartupNext]_startupVars PROVE LoadedInv'
<1>1. torrent' = torrent
  BY TorrentKept
<1> SUFFICES ASSUME Plain(torrent) PROVE LoadInv' /\ (stage' = "Files" => reading' = "loaded")
  BY <1>1 DEF LoadedInv
<1>2. LoadInv /\ (stage = "Files" => reading = "loaded")
  BY DEF LoadedInv
<1>3. CASE read_torrent /\ ReadNext /\ UNCHANGED stage
  <2>1. stage' # "Files"
    BY <1>3 DEF read_torrent
  <2> QED
    BY <1>2, <1>3, <2>1, LoadStep
<1>4. CASE UNCHANGED readVars /\ (stage' = "Files" => stage = "Files" \/ reading = "loaded")
  <2>1. reading' = reading
    BY <1>4 DEF readVars
  <2> QED
    BY <1>2, <1>4, <2>1, SameLoad
<1>5. CASE read_torrent /\ ~(ReadNext /\ UNCHANGED stage)
  BY <1>4, <1>5 DEF read_torrent
<1>6. CASE \/ open_files \/ announce_skipped \/ announce_taken \/ no_valid_announce \/ resolve
           \/ write_pieces
  BY <1>4, <1>6 DEF open_files, announce_skipped, announce_taken, no_valid_announce, resolve, write_pieces
<1>7. CASE UNCHANGED startupVars
  BY <1>4, <1>7 DEF startupVars
<1> QED
  BY <1>3, <1>5, <1>6, <1>7 DEF StartupNext

(* The inductive invariant of the loading: ReadInv, of the tokens, and     *)
(* LoadedInv, of the members.                                              *)
LEMMA LoadInvariant == StartupSpec => []LoadedInv
<1>1. StartupInit => LoadedInv
  BY LoadBegins DEF LoadedInv, StartupInit
<1>2. ReadInv /\ LoadedInv /\ [StartupNext]_startupVars => LoadedInv'
  BY LoadedStep
<1> QED
  BY <1>1, <1>2, ReadInvariant, PTL DEF StartupSpec
-----------------------------------------------------------------------------
(* What is loaded is what the torrent says.                                *)
LEMMA FilesReadAre ==
  ASSUME ReadInv, Plain(torrent)
  PROVE  /\ DOMAIN FilesRead = 1 .. Len(torrent.files)
         /\ \A i \in 1 .. Len(torrent.files) :
              /\ FilesRead[i].size = torrent.files[i].length
              /\ FilesRead[i].md5sum = torrent.files[i].md5sum
              /\ FilesRead[i].path = IF torrent.single THEN << >> ELSE torrent.files[i].path
<1> DEFINE n == Len(torrent.files)
<1>1. \A a, b, d : /\ InfoFile(a, b, d).size = a /\ InfoFile(a, b, d).md5sum = b
                   /\ InfoFile(a, b, d).path = d
  BY DEF InfoFile
<1>2. CASE torrent.single
  <2> DEFINE o == << >>
  <2> DEFINE x == InfoFile(torrent.files[1].length, torrent.files[1].md5sum, o)
  <2>1. n = 1 /\ FilesRead = << x >>
    BY <1>2 DEF Plain, FilesRead
  <2>2. x.size = torrent.files[1].length /\ x.md5sum = torrent.files[1].md5sum /\ x.path = o
    BY <1>1
  <2> HIDE DEF x, n, o
  <2>3. DOMAIN FilesRead = 1 .. n /\ FilesRead[1] = x /\ \A i \in 1 .. n : i = 1
    BY <2>1
  <2> QED
    BY <1>2, <2>2, <2>3 DEF n, o
<1>3. CASE ~torrent.single
  <2> DEFINE g(i) == InfoFile(torrent.files[i].length, torrent.files[i].md5sum, torrent.files[i].path)
  <2>1. FilesRead = [i \in 1 .. n |-> g(i)]
    BY <1>3 DEF FilesRead, FilesTo
  <2>2. \A i \in 1 .. n : FilesRead[i] = g(i)
    <3> HIDE DEF g
    <3> QED
      BY <2>1
  <2>3. DOMAIN FilesRead = 1 .. n
    <3> HIDE DEF g
    <3> QED
      BY <2>1
  <2> QED
    BY <1>1, <1>3, <2>2, <2>3
<1> QED
  BY <1>2, <1>3

LEMMA OneSeq == ASSUME NEW a PROVE << >> \o Append(<< >>, a) = << a >> /\ << a >>[1] = a
OBVIOUS

LEMMA LoadedAll ==
  ASSUME ReadInv, Plain(torrent), LoadInv, reading = "loaded"
  PROVE  LET n == Len(torrent.files)
             f == FilesRead
         IN  /\ n \in Nat
             /\ torrent.pieces % SHA1_PIECE_LENGTH = 0
             /\ tf = InfoAll(tf.info_sha1)
             /\ DOMAIN tf.files = 1 .. n /\ Len(tf.files) = n
             /\ \A i \in 1 .. n : /\ tf.files[i].size = f[i].size /\ tf.files[i].md5sum = f[i].md5sum
                                  /\ tf.files[i].path = IF n = 1 THEN Append(f[i].path, torrent.name)
                                                        ELSE f[i].path
             /\ tf.dir_path = IF n = 1 THEN << >> ELSE << torrent.name >>
<1> DEFINE n == Len(torrent.files)
<1> DEFINE f == FilesRead
<1> DEFINE v == torrent.name
<1>1. torrent.pieces % SHA1_PIECE_LENGTH = 0 /\ tf = InfoAll(tf.info_sha1)
  BY TrackWalked DEF LoadInv, InfoRead, InfoAll, Walking
<1>2. Len(f) = n /\ n \in Nat /\ DOMAIN f = 1 .. n
  BY FilesReadLength, FilesReadAre
<1> DEFINE b == WithPath(f[1], Append(f[1].path, v))
<1>3. /\ tf.dir_path = IF n = 1 THEN << >> ELSE << v >>
      /\ tf.files = IF n = 1 THEN << b >> ELSE f
  BY <1>1 DEF InfoAll, Members, WithPath
<1>4. CASE n # 1
  <2> HIDE DEF b, f, n
  <2> QED
    BY <1>1, <1>2, <1>3, <1>4 DEF f, n
<1>5. CASE n = 1
  <2>1. f[1] \in [path: {f[1].path}, md5sum: {f[1].md5sum}, size: {f[1].size}]
    <3>1. \E x, y, z : f[1] = InfoFile(x, y, z)
      <4>1. CASE torrent.single
        BY <4>1 DEF FilesRead
      <4>2. CASE ~torrent.single
        <5>1. f = [i \in 1 .. 1 |-> InfoFile(torrent.files[i].length, torrent.files[i].md5sum, torrent.files[i].path)]
          BY <1>5, <4>2 DEF FilesRead, FilesTo
        <5>2. f[1] = InfoFile(torrent.files[1].length, torrent.files[1].md5sum, torrent.files[1].path)
          BY <5>1
        <5> QED
          BY <5>2
      <4> QED
        BY <4>1, <4>2
    <3> QED
      BY <3>1 DEF InfoFile
  <2>2. b.size = f[1].size /\ b.md5sum = f[1].md5sum /\ b.path = Append(f[1].path, v)
    <3> HIDE DEF f
    <3> QED
      BY <2>1 DEF WithPath
  <2> HIDE DEF b
  <2>3. tf.files = << b >>
    BY <1>3, <1>5
  <2>4. DOMAIN tf.files = 1 .. 1 /\ Len(tf.files) = 1 /\ tf.files[1] = b /\ \A i \in 1 .. 1 : i = 1
    BY <2>3
  <2> HIDE DEF f, n
  <2> QED
    BY <1>1, <1>2, <1>3, <1>5, <2>2, <2>4 DEF f, n
<1> QED
  BY <1>4, <1>5

LEMMA MembersAre ==
  ASSUME NEW u, NEW l, NEW c, NEW d, NEW s, NEW p, NEW n, NEW i, NEW f, NEW h,
         tf = Members(u, l, c, d, s, p, n, i, f, h)
  PROVE  /\ tf.str = [k \in {"announce", "comment"} |-> IF k = "announce" THEN u ELSE c]
         /\ tf.announce_list = l /\ tf.creation_date = d /\ tf.piece_size = s /\ tf.pieces = p
<1> DEFINE g == [k \in {"announce", "comment"} |-> IF k = "announce" THEN u ELSE c]
<1>1. tf = [str |-> g, creation_date |-> d, announce_list |-> l, piece_size |-> s, pieces |-> p,
            dir_name |-> n, dir_path |-> i, files |-> f, info_sha1 |-> h]
  BY DEF Members
<1> HIDE DEF g
<1>2. /\ tf.str = g /\ tf.announce_list = l /\ tf.creation_date = d /\ tf.piece_size = s
      /\ tf.pieces = p
  BY <1>1
<1> QED
  BY <1>2 DEF g

LEMMA LoadedIsNamed ==
  ASSUME ReadInv, LoadedInv PROVE Plain(torrent) => LoadedAsNamed
<1> SUFFICES ASSUME Plain(torrent), stage = "Files" PROVE LoadedAsNamed
  BY DEF LoadedAsNamed
<1> DEFINE n == Len(torrent.files)
<1>1. LoadInv /\ reading = "loaded"
  BY DEF LoadedInv
<1>2. /\ n \in Nat
      /\ torrent.pieces % SHA1_PIECE_LENGTH = 0
      /\ tf = InfoAll(tf.info_sha1)
      /\ DOMAIN tf.files = 1 .. n /\ Len(tf.files) = n
      /\ \A i \in 1 .. n :
           /\ tf.files[i].size = FilesRead[i].size /\ tf.files[i].md5sum = FilesRead[i].md5sum
           /\ tf.files[i].path = IF n = 1 THEN Append(FilesRead[i].path, torrent.name)
                                 ELSE FilesRead[i].path
      /\ tf.dir_path = IF n = 1 THEN << >> ELSE << torrent.name >>
  BY <1>1, LoadedAll
<1>3. \A i \in 1 .. n : /\ FilesRead[i].size = torrent.files[i].length
                        /\ FilesRead[i].md5sum = torrent.files[i].md5sum
                        /\ FilesRead[i].path = IF torrent.single THEN << >> ELSE torrent.files[i].path
  BY FilesReadAre
<1>4. /\ tf.str = [k \in {"announce", "comment"} |->
                     IF k = "announce" THEN torrent.announce ELSE torrent.comment]
      /\ tf.announce_list = FlattenSeq(torrent.announce_list)
      /\ tf.creation_date = torrent.date
      /\ tf.piece_size = torrent.piece_length
      /\ tf.pieces = torrent.pieces \div SHA1_PIECE_LENGTH
  BY <1>2, MembersAre DEF InfoAll, TheList
<1>5. tf.pieces * SHA1_PIECE_LENGTH = torrent.pieces
  <2> DEFINE p == torrent.pieces
  <2>1. p \in Nat
    BY NamePlaces
  <2>2. p % 20 = 0 /\ tf.pieces = p \div 20
    BY <1>2, <1>4 DEF SHA1_PIECE_LENGTH
  <2> HIDE DEF p
  <2>3. (p \div 20) * 20 = p
    BY <2>1, <2>2
  <2> QED
    BY <2>2, <2>3 DEF p, SHA1_PIECE_LENGTH
<1>6. [i \in DOMAIN tf.files |-> tf.files[i].size] = Sizes(torrent)
  <2>1. DOMAIN torrent.files = 1 .. n
    BY PlainTypes, SeqFacts
  <2>2. Sizes(torrent) = [i \in 1 .. n |-> torrent.files[i].length]
    BY <2>1 DEF Sizes
  <2> HIDE DEF n
  <2> QED
    BY <1>2, <1>3, <2>2
<1>7. ASSUME NEW i \in DOMAIN tf.files
      PROVE  /\ tf.files[i].md5sum = torrent.files[i].md5sum
             /\ torrent.single \/ Len(tf.files) > 1 => FullPath(i) = PathOf(torrent, i)
  <2>1. i \in 1 .. n
    BY <1>2
  <2>2. tf.files[i].md5sum = torrent.files[i].md5sum
    BY <1>2, <1>3, <2>1
  <2>3. CASE torrent.single
    <3>1. n = 1
      BY <2>3 DEF Plain
    <3>2. tf.dir_path = << >> /\ tf.files[i].path = Append(<< >>, torrent.name)
      BY <1>2, <1>3, <2>1, <2>3, <3>1
    <3>3. FullPath(i) = << torrent.name >>
      BY <3>2, OneSeq DEF FullPath
    <3> QED
      BY <2>2, <2>3, <3>3 DEF PathOf
  <2>4. CASE ~torrent.single /\ n > 1
    <3>1. n # 1
      <4> HIDE DEF n
      <4> QED
        BY <1>2, <2>4
    <3>2. tf.dir_path = << torrent.name >> /\ tf.files[i].path = torrent.files[i].path
      BY <1>2, <1>3, <2>1, <2>4, <3>1
    <3> QED
      BY <2>2, <2>4, <3>2 DEF PathOf, FullPath
  <2> QED
    BY <1>2, <2>2, <2>3, <2>4
<1> QED
  BY <1>4, <1>5, <1>6, <1>7 DEF LoadedAsNamed

(* A plain torrent is loaded as what its source says, wherever the source  *)
(* is cut: the fillers of TorrentFile, from any torrent of any number of   *)
(* files, announces and keys, lose and confuse nothing.                    *)
THEOREM PlainLoaded == StartupSpec => [](Plain(torrent) => LoadedAsNamed)
<1>1. ReadInv /\ LoadedInv => (Plain(torrent) => LoadedAsNamed)
  BY LoadedIsNamed
<1> QED
  BY <1>1, ReadInvariant, LoadInvariant, PTL

LEMMA PlainStays == StartupSpec /\ Plain(torrent) => []Plain(torrent)
<1>1. Plain(torrent) /\ [StartupNext]_startupVars => Plain(torrent)'
  BY TorrentKept
<1> QED
  BY <1>1, PTL DEF StartupSpec

(* With a plain torrent the tracker that is asked is named by the torrent, *)
(* no announce that could be asked is given up unheard, and the pieces are *)
(* written to the files that the torrent is about.                         *)
THEOREM PlainRuns ==
  StartupSpec /\ Plain(torrent) => [](LoadedAsNamed /\ TrackerNamed) /\ WritesTheTorrent
<1>1. StartupSpec /\ Plain(torrent) => []LoadedAsNamed
  BY PlainLoaded, PlainStays, PTL
<1>2. StartupSpec /\ Plain(torrent) => []TrackerNamed
  BY <1>1, TrackerRight, PTL
<1>3. StartupSpec /\ Plain(torrent) => WritesTheTorrent
  BY <1>1, TorrentWritten, PTL
<1> QED
  BY <1>1, <1>2, <1>3, PTL

(* And where no file of it but the last ends with a piece, a file gets     *)
(* bytes of its own only and a piece that was written is whole.            *)
THEOREM PlainWritten ==
  StartupSpec /\ Plain(torrent) /\ []Unaligned => [](TypeOK /\ OnlyOwnBytes /\ FinishedWhole)
<1>1. StartupSpec /\ Plain(torrent) => []LoadedAsNamed
  BY PlainLoaded, PlainStays, PTL
<1> QED
  BY <1>1, TorrentWhole, PTL
-----------------------------------------------------------------------------
(* The hash, for any keys and values. A torrent in which the program can   *)
(* find info: it is one dictionary, no string before the key is "info",    *)
(* and if a key follows it, the digits of its length are counted right.    *)
Hashable(t) ==
  /\ InfoDict(t) \in Seq(Lexeme) /\ OneDictionary(InfoDict(t))
  /\ t.after \in Seq(Lexeme)
  /\ \A k \in 1 .. (Len(BeforeInfo(t)) - 1) :
       BeforeInfo(t)[k].type = "STR" => BeforeInfo(t)[k].str # "info"
  /\ t.after # << >> /\ t.after[1].type = "STR" =>
       length_modifier(t.after[1]) = t.after[1].size - t.after[1].length

(* Where info begins and ends, and the lexeme after it.                    *)
InfoBegin == Len(BeforeInfo(torrent))
InfoEnd   == InfoBegin + Len(InfoDict(torrent))
NextLexeme == IF torrent.after = << >> THEN Mark("e") ELSE torrent.after[1]

LEMMA InfoMarks ==
  ASSUME ReadInv, Hashable(torrent)
  PROVE  /\ InfoBegin \in Nat \ {0} /\ InfoEnd \in Nat
         /\ Len(InfoDict(torrent)) \in Nat \ {0}
         /\ Stands(0, BeforeInfo(torrent)) /\ Lex(InfoBegin - 1) = Str("info")
         /\ Stands(InfoBegin, InfoDict(torrent))
         /\ Len(TheSource) \in Nat /\ InfoEnd < Len(TheSource) /\ Lex(InfoEnd) = NextLexeme
<1> DEFINE b == BeforeInfo(torrent)
<1> DEFINE i == InfoDict(torrent)
<1> DEFINE a == torrent.after
<1> DEFINE e == << Mark("e") >>
<1>1. TheSource = (b \o i \o a) \o e
  BY DEF TheSource, Encode
<1>2. i \in Seq(Lexeme) /\ i # << >> /\ a \in Seq(Lexeme)
  BY DEF Hashable, OneDictionary
<1>3. IsSeq(b) /\ IsSeq(i) /\ IsSeq(a) /\ IsSeq(e) /\ Len(e) = 1 /\ Len(i) # 0
  <2>1. IsSeq(b) /\ IsSeq(e) /\ Len(e) = 1
    BY BeforeInfoStands, ShortSeqs
  <2> DEFINE L == Lexeme
  <2>2. i \in Seq(L) /\ a \in Seq(L) /\ i # << >>
    BY <1>2
  <2> HIDE DEF L, i, a
  <2>3. IsSeq(i) /\ IsSeq(a) /\ Len(i) # 0
    BY <2>2, EmptySeq, Zenon DEF IsSeq
  <2> QED
    BY <2>1, <2>3
<1>4. AtInfo(torrent) \in Nat /\ Len(b) = AtInfo(torrent) + 1
  BY BeforeInfoStands
<1>5. Stands(0, TheSource) /\ Len(TheSource) \in Nat
  BY SourceStands, SourceSeq
<1>6. Stands(0, b) => Stands(AtInfo(torrent), << Str("info") >>)
  BY BeforeInfoStands
<1> HIDE DEF b, i, a, e
<1>7. Len(i) \in Nat /\ Len(a) \in Nat
  BY <1>3, SeqFacts
<1> DEFINE x == b \o i \o a
<1>8. IsSeq(x) /\ Len(x) = Len(b) + Len(i) + Len(a)
  BY <1>3, ThreeParts
<1>9. Stands(0, x) => Stands(0, b) /\ Stands(0 + Len(b), i) /\ Stands(0 + Len(b) + Len(i), a)
  BY <1>3, <1>5, ThreeParts
<1>10. TheSource = x \o e
  BY <1>1
<1> HIDE DEF x
<1>11. Stands(0, x) /\ Stands(0 + Len(x), e)
  BY <1>3, <1>5, <1>8, <1>10, StandsApart
<1>12. Len(TheSource) = Len(x) + Len(e)
  BY <1>3, <1>8, <1>10, Joined
<1>13. Stands(0, b) /\ Stands(Len(b), i) /\ Stands(Len(b) + Len(i), a) /\ Stands(Len(b) + Len(i) + Len(a), e)
  <2>1. 0 + Len(b) = Len(b) /\ 0 + Len(x) = Len(b) + Len(i) + Len(a)
    BY <1>4, <1>7, <1>8
  <2> QED
    BY <1>9, <1>11, <2>1
<1>14. Lex(Len(b) - 1) = Str("info")
  <2>1. Lex(AtInfo(torrent)) = Str("info")
    BY <1>6, <1>13, OneStands
  <2>2. Len(b) - 1 = AtInfo(torrent)
    BY <1>4
  <2> QED
    BY <2>1, <2>2
<1> DEFINE n == Len(b) + Len(i)
<1>15. Lex(n) = IF a = << >> THEN Mark("e") ELSE a[1]
  <2>1. CASE a = << >>
    <3>1. Len(a) = 0
      BY <2>1, ShortSeqs
    <3>2. Stands(n, e)
      BY <1>4, <1>7, <1>13, <3>1
    <3> QED
      BY <2>1, <3>2, OneStands DEF e
  <2>2. CASE a # << >>
    <3>1. Len(a) # 0
      <4>1. a = [k \in 1 .. Len(a) |-> a[k]]
        BY <1>3, SeqFacts
      <4>2. PICK S : a \in Seq(S)
        BY <1>3 DEF IsSeq
      <4> QED
        BY <2>2, <4>2, EmptySeq
    <3>2. 1 \in 1 .. Len(a)
      BY <1>7, <3>1
    <3> QED
      BY <1>13, <2>2, <3>2 DEF Stands, Lex
  <2> QED
    BY <2>1, <2>2
<1>16. n < Len(TheSource) /\ Len(b) \in Nat \ {0} /\ n \in Nat
  BY <1>3, <1>4, <1>7, <1>8, <1>12
<1> QED
  BY <1>3, <1>5, <1>7, <1>13, <1>14, <1>15, <1>16 DEF b, i, a, e, InfoBegin, InfoEnd, NextLexeme

(* The size of lexemes that are parsed one after the other.                *)
LEMMA SizeRun ==
  ASSUME NEW x \in Seq(Lexeme), NEW f, NEW a \in Nat, f[a] \in Nat,
         \A k \in 1 .. Len(x) : f[a + k] = f[a + (k - 1)] + x[k].size
  PROVE  SizeOf(x) \in Nat /\ f[a + Len(x)] = f[a] + SizeOf(x)
<1> DEFINE N == Len(x)
<1> DEFINE w == [k \in 1 .. N |-> x[k].size]
<1> DEFINE n == CHOOSE m : m = [k \in 0 .. N |-> IF k = 0 THEN 0 ELSE m[k - 1] + x[k].size]
<1>1. N \in Nat /\ \A k \in 1 .. N : x[k].size \in Nat
  <2> DEFINE L == Lexeme
  <2>1. \A l \in L : l.size \in Nat
    BY DEF Lexeme
  <2> HIDE DEF L
  <2>2. x \in Seq(L)
    BY DEF L
  <2> QED
    BY <2>1, <2>2
<1>2. w \in [1 .. N -> Nat] /\ \A k \in 1 .. N : w[k] = x[k].size
  BY <1>1
<1>3. SizeOf(x) = n[N]
  BY DEF SizeOf
<1>4. PICK s : SumsOf(w, N, s)
  <2> HIDE DEF w, N
  <2> QED
    BY <1>1, <1>2, SumsExist
<1> HIDE DEF w
<1>5. s = [k \in 0 .. N |-> IF k = 0 THEN 0 ELSE s[k - 1] + x[k].size]
  <2>1. \A k \in 0 .. N : s[k] = IF k = 0 THEN 0 ELSE s[k - 1] + x[k].size
    BY <1>1, <1>2, <1>4 DEF SumsOf
  <2> QED
    BY <1>4, <2>1 DEF SumsOf
<1>6. n = [k \in 0 .. N |-> IF k = 0 THEN 0 ELSE n[k - 1] + x[k].size]
  BY <1>5, Zenon
<1> HIDE DEF n, N
<1>7. n = [k \in 0 .. N |-> IF k = 0 THEN 0 ELSE n[k - 1] + w[k]]
  <2>1. \A k \in 0 .. N : k # 0 => w[k] = x[k].size
    BY <1>1, <1>2
  <2> QED
    BY <1>6, <2>1
<1>8. SumsOf(w, N, n)
  BY <1>1, <1>2, <1>7, SumsUnique
<1>9. /\ \A k \in 0 .. N : n[k] \in Nat
      /\ n[0] = 0 /\ \A k \in 1 .. N : n[k] = n[k - 1] + x[k].size
  BY <1>2, <1>8 DEF SumsOf
<1> DEFINE S == {k \in 0 .. N : f[a + k] # f[a] + n[k]}
<1>10. S = {}
  <2> SUFFICES ASSUME S # {} PROVE FALSE
    OBVIOUS
  <2>1. PICK k \in S : \A m \in S : k <= m
    <3>1. S \in SUBSET Nat
      BY <1>1
    <3> HIDE DEF S
    <3> QED
      BY <3>1, Least
  <2>2. k \in 0 .. N /\ f[a + k] # f[a] + n[k]
    OBVIOUS
  <2>3. k # 0
    BY <1>9, <2>2
  <2>4. k \in 1 .. N /\ k - 1 \in 0 .. N /\ k - 1 \notin S
    BY <1>1, <2>1, <2>2, <2>3
  <2>5. f[a + (k - 1)] = f[a] + n[k - 1]
    BY <2>4
  <2>6. f[a + k] = f[a + (k - 1)] + x[k].size
    BY <2>4 DEF N
  <2>7. n[k] = n[k - 1] + x[k].size /\ n[k - 1] \in Nat /\ x[k].size \in Nat
    BY <1>1, <1>9, <2>4
  <2> QED
    BY <2>2, <2>5, <2>6, <2>7
<1>11. N \in 0 .. N
  BY <1>1
<1>12. f[a + N] = f[a] + n[N] /\ n[N] \in Nat
  BY <1>9, <1>10, <1>11
<1> QED
  BY <1>3, <1>12 DEF N

(* The dictionaries among the open structs, but for the h outermost.       *)
DictsAbove(h, open) == {k \in (h + 1) .. Len(open) : open[Len(open) + 1 - k] = "d"}

LEMMA Prefixed ==
  ASSUME NEW x, NEW y, IsSeq(y), NEW z, z = << x >> \o y
  PROVE  /\ Len(y) \in Nat /\ Len(z) = Len(y) + 1 /\ z[1] = x
         /\ \A i \in 1 .. Len(y) : z[1 + i] = y[i]
<1> DEFINE one == << x >>
<1>1. IsSeq(one) /\ Len(one) = 1 /\ one[1] = x /\ z = one \o y
  BY ShortSeqs
<1> HIDE DEF one
<1>2. /\ Len(z) = Len(one) + Len(y)
      /\ \A i \in 1 .. Len(one) : z[i] = one[i]
      /\ \A i \in 1 .. Len(y) : z[Len(one) + i] = y[i]
  BY <1>1, Joined
<1>3. Len(y) \in Nat /\ 1 \in 1 .. Len(one)
  BY <1>1, SeqFacts
<1> QED
  BY <1>1, <1>2, <1>3

(* One more struct, x, is open.                                           *)
Pushed(h, open, x, next) ==
  /\ Len(next) = Len(open) + 1 /\ Len(open) \in Nat
  /\ Cardinality(DictsAbove(h, open)) \in Nat
  /\ Cardinality(DictsAbove(h, next)) =
       Cardinality(DictsAbove(h, open)) + (IF x = "d" THEN 1 ELSE 0)
  /\ \A k \in 1 .. Len(open) : k \in DictsAbove(h, next) <=> k \in DictsAbove(h, open)
  /\ Len(open) + 1 \in DictsAbove(h, next) <=> x = "d"

LEMMA DictsPushed ==
  ASSUME NEW h \in Nat, NEW open, IsSeq(open), h <= Len(open), NEW x,
         NEW next, next = << x >> \o open
  PROVE  Pushed(h, open, x, next)
<1> DEFINE n == Len(open)
<1> DEFINE A == DictsAbove(h, open)
<1> DEFINE B == DictsAbove(h, next)
<1>1. n \in Nat /\ Len(next) = n + 1 /\ next[1] = x /\ \A i \in 1 .. n : next[1 + i] = open[i]
  BY Prefixed
<1>2. \A k : k \in A <=> k \in (h + 1) .. n /\ open[n + 1 - k] = "d"
  BY DEF DictsAbove
<1>3. \A k : k \in B <=> k \in (h + 1) .. (n + 1) /\ next[n + 1 + 1 - k] = "d"
  BY <1>1 DEF DictsAbove
<1> HIDE DEF n, A, B
<1>4. ASSUME NEW k \in 1 .. n PROVE k \in B <=> k \in A
  <2>1. n + 1 - k \in 1 .. n /\ n + 1 + 1 - k = 1 + (n + 1 - k)
    BY <1>1
  <2>2. next[n + 1 + 1 - k] = open[n + 1 - k]
    BY <1>1, <2>1
  <2>3. k \in (h + 1) .. n <=> k \in (h + 1) .. (n + 1)
    BY <1>1
  <2> QED
    BY <1>2, <1>3, <2>2, <2>3
<1>5. n + 1 \in B <=> x = "d"
  <2>1. n + 1 + 1 - (n + 1) = 1 /\ n + 1 \in (h + 1) .. (n + 1)
    BY <1>1 DEF n
  <2> QED
    BY <1>1, <1>3, <2>1
<1>6. A \subseteq 1 .. n /\ B \subseteq 1 .. (n + 1)
  <2>1. \A k : (k \in (h + 1) .. n => k \in 1 .. n) /\ (k \in (h + 1) .. (n + 1) => k \in 1 .. (n + 1))
    BY <1>1
  <2> QED
    BY <1>2, <1>3, <2>1
<1>7. B \cap (1 .. n) = A
  BY <1>4, <1>6
<1> DEFINE l == n + 1
<1>8. l \in Nat \ {0} /\ l - 1 = n
  BY <1>1
<1>9. Cardinality(A) \in Nat /\ Cardinality(B) = IF l \in B THEN Cardinality(A) + 1 ELSE Cardinality(A)
  <2>1. B \subseteq 1 .. l
    BY <1>6
  <2> HIDE DEF l
  <2> QED
    BY <1>7, <1>8, <2>1, Counted
<1>10. Cardinality(B) = Cardinality(A) + (IF x = "d" THEN 1 ELSE 0)
  BY <1>5, <1>9
<1> QED
  BY <1>1, <1>4, <1>5, <1>9, <1>10 DEF n, A, B, Pushed

(* The depth, one token on.                                                *)
Count(type, i, j) == Cardinality({k \in i .. (j - 1) : Type(k) = type})

LEMMA TypesCounted ==
  ASSUME NEW i \in Nat, NEW j \in Nat, i <= j, NEW type
  PROVE  /\ Count(type, i, j) \in Nat
         /\ Count(type, i, j + 1) = Count(type, i, j) + (IF Type(j) = type THEN 1 ELSE 0)
<1> DEFINE A == {k \in i .. (j - 1) : Type(k) = type}
<1> DEFINE B == {k \in i .. (j + 1 - 1) : Type(k) = type}
<1>1. IsFiniteSet(A) /\ Cardinality(A) \in Nat
  <2>1. IsFiniteSet(i .. (j - 1)) /\ A \in SUBSET (i .. (j - 1))
    BY FS_Interval
  <2> QED
    BY <2>1, FS_Subset, FS_CardinalityType
<1>2. j \notin A /\ \A k : k \in i .. (j + 1 - 1) <=> k = j \/ k \in i .. (j - 1)
  OBVIOUS
<1>3. B = IF Type(j) = type THEN A \union {j} ELSE A
  BY <1>2, Zenon
<1>4. Count(type, i, j) = Cardinality(A) /\ Count(type, i, j + 1) = Cardinality(B)
  BY DEF Count
<1> HIDE DEF A, B
<1>5. Cardinality(A \union {j}) = Cardinality(A) + 1
  BY <1>1, <1>2, FS_AddElement
<1> QED
  BY <1>1, <1>3, <1>4, <1>5

LEMMA DepthMoves ==
  ASSUME NEW i \in Nat, NEW j \in Nat, i <= j
  PROVE  /\ dict_depth(i, i) = 0 /\ dict_depth(i, j) \in Int
         /\ dict_depth(i, j + 1) = dict_depth(i, j)
              + (IF Type(j) = "DICT_START" THEN 1 ELSE IF Type(j) = "DICT_END" THEN -1 ELSE 0)
<1>1. dict_depth(i, i) = 0
  <2>1. \A k : ~(k \in i .. (i - 1))
    OBVIOUS
  <2>2. /\ {k \in i .. (i - 1) : Type(k) = "DICT_START"} = {}
        /\ {k \in i .. (i - 1) : Type(k) = "DICT_END"} = {}
    BY <2>1, Zenon
  <2> QED
    BY <2>2, FS_EmptySet DEF dict_depth
<1>2. /\ Count("DICT_START", i, j) \in Nat /\ Count("DICT_END", i, j) \in Nat
      /\ Count("DICT_START", i, j + 1) = Count("DICT_START", i, j) + (IF Type(j) = "DICT_START" THEN 1 ELSE 0)
      /\ Count("DICT_END", i, j + 1) = Count("DICT_END", i, j) + (IF Type(j) = "DICT_END" THEN 1 ELSE 0)
  BY TypesCounted
<1>3. \A n : dict_depth(i, n) = Count("DICT_START", i, n) - Count("DICT_END", i, n)
  BY DEF dict_depth, Count
<1> QED
  BY <1>1, <1>2, <1>3

(* It is the number of dictionaries that are open in the value of info.    *)
LEMMA DepthStep ==
  ASSUME Tokenized, NEW c \in Nat, c < kept, NEW i \in Nat, i <= c,
         NEW h \in Nat, h <= Len(Stack(c)), Lex(c).type = "e" => h < Len(Stack(c)),
         dict_depth(i, c) = Cardinality(DictsAbove(h, Stack(c)))
  PROVE  /\ dict_depth(i, c + 1) = Cardinality(DictsAbove(h, Stack(c + 1)))
         /\ h <= Len(Stack(c + 1))
         /\ Len(Stack(c + 1)) = Len(Stack(c)) + (IF Lex(c).type \in {"l", "d"} THEN 1
                                                 ELSE IF Lex(c).type = "e" THEN -1 ELSE 0)
         /\ h + 1 \in DictsAbove(h, Stack(c)) /\ h < Len(Stack(c + 1))
              => h + 1 \in DictsAbove(h, Stack(c + 1))
         /\ h = Len(Stack(c)) /\ Lex(c).type = "d" => h + 1 \in DictsAbove(h, Stack(c + 1))
<1> DEFINE M == {"l", "d"}
<1> DEFINE a == Stack(c)
<1> DEFINE b == Stack(c + 1)
<1> DEFINE type == Type(c)
<1> DEFINE lexeme == Lex(c)
<1>1. a \in Seq(M) /\ b \in Seq(M) /\ Len(a) \in Nat /\ Len(b) \in Nat
  <2>1. kept \in Nat /\ \A n \in Nat : n <= kept => Stack(n) \in Seq(M)
    BY SourceTokens
  <2>2. c <= kept /\ c + 1 \in Nat /\ c + 1 <= kept
    BY <2>1
  <2> HIDE DEF M
  <2> QED
    BY <2>1, <2>2
<1>2. Spelled(lexeme, a, b, Token(c))
  BY SourceTokens
<1>3. /\ dict_depth(i, c) \in Int
      /\ dict_depth(i, c + 1) = dict_depth(i, c)
           + (IF type = "DICT_START" THEN 1 ELSE IF type = "DICT_END" THEN -1 ELSE 0)
  BY DepthMoves
<1>4. type = Token(c).type
  BY DEF Type
<1>5. h \in Nat /\ h <= Len(a) /\ (lexeme.type = "e" => h < Len(a)) /\ dict_depth(i, c) = Cardinality(DictsAbove(h, a))
  OBVIOUS
<1> HIDE DEF a, b, type, lexeme
<1>6. CASE lexeme.type \in {"INT", "STR"}
  <2>1. b = a /\ type \in {"INT", "STR"}
    BY <1>2, <1>4, <1>6 DEF Spelled
  <2> QED
    BY <1>1, <1>3, <1>5, <1>6, <2>1 DEF a, b, type, lexeme
<1>7. CASE lexeme.type \in {"l", "d"}
  <2> DEFINE x == lexeme.type
  <2>1. b = << x >> \o a /\ type = (IF x = "l" THEN "LIST_START" ELSE "DICT_START") /\ x \in {"l", "d"}
    BY <1>2, <1>4, <1>7 DEF Spelled
  <2> HIDE DEF x
  <2>2. /\ Len(b) = Len(a) + 1
        /\ Cardinality(DictsAbove(h, b)) = Cardinality(DictsAbove(h, a)) + (IF x = "d" THEN 1 ELSE 0)
        /\ \A k \in 1 .. Len(a) : k \in DictsAbove(h, b) <=> k \in DictsAbove(h, a)
        /\ Len(a) + 1 \in DictsAbove(h, b) <=> x = "d"
    <3> HIDE DEF M
    <3>1. IsSeq(a)
      BY <1>1, Zenon DEF IsSeq
    <3>2. Pushed(h, a, x, b)
      BY <1>5, <2>1, <3>1, DictsPushed, Zenon
    <3> QED
      BY <3>2 DEF Pushed
  <2>3. dict_depth(i, c + 1) = Cardinality(DictsAbove(h, b))
    BY <1>3, <1>5, <2>1, <2>2
  <2>4. h + 1 \in DictsAbove(h, a) => h + 1 \in 1 .. Len(a)
    BY <1>1, <1>5 DEF DictsAbove
  <2>5. /\ h <= Len(b) /\ (h + 1 \in DictsAbove(h, a) => h + 1 \in DictsAbove(h, b))
        /\ h = Len(a) /\ x = "d" => h + 1 \in DictsAbove(h, b)
    BY <1>1, <1>5, <2>2, <2>4
  <2> QED
    BY <1>7, <2>2, <2>3, <2>5 DEF a, b, lexeme, x
<1>8. CASE lexeme.type = "e"
  <2> DEFINE x == Head(a)
  <2>1. a # << >> /\ b = Tail(a) /\ type = IF x = "l" THEN "LIST_END" ELSE "DICT_END"
    BY <1>2, <1>4, <1>8 DEF Spelled
  <2>2. x \in M /\ a = << x >> \o b /\ Len(b) = Len(a) - 1
    <3> HIDE DEF M
    <3>1. Head(a) \in M /\ Tail(a) \in Seq(M) /\ Len(Tail(a)) = Len(a) - 1
      BY <1>1, <2>1, HeadTailProperties
    <3>2. a = << Head(a) >> \o Tail(a)
      BY <1>1, <2>1
    <3> QED
      BY <2>1, <3>1, <3>2
  <2> HIDE DEF x
  <2>3. h <= Len(b)
    BY <1>1, <1>5, <1>8, <2>2
  <2>4. /\ Cardinality(DictsAbove(h, b)) \in Nat
        /\ Cardinality(DictsAbove(h, a)) = Cardinality(DictsAbove(h, b)) + (IF x = "d" THEN 1 ELSE 0)
        /\ \A k \in 1 .. Len(b) : k \in DictsAbove(h, a) <=> k \in DictsAbove(h, b)
    <3> HIDE DEF M
    <3>1. IsSeq(b)
      BY <1>1, Zenon DEF IsSeq
    <3>2. Pushed(h, b, x, a)
      BY <1>5, <2>2, <2>3, <3>1, DictsPushed, Zenon
    <3> QED
      BY <3>2 DEF Pushed
  <2>5. dict_depth(i, c + 1) = Cardinality(DictsAbove(h, b))
    BY <1>3, <1>5, <2>1, <2>2, <2>4
  <2>6. h < Len(b) => h + 1 \in 1 .. Len(b)
    BY <1>1, <1>5
  <2>7. h + 1 \in DictsAbove(h, a) /\ h < Len(b) => h + 1 \in DictsAbove(h, b)
    BY <2>4, <2>6
  <2> QED
    BY <1>1, <1>8, <2>2, <2>3, <2>5, <2>7 DEF a, b, lexeme
<1>9. lexeme.type \in {"INT", "STR", "l", "d", "e"}
  BY <1>2 DEF Spelled
<1> QED
  BY <1>6, <1>7, <1>8, <1>9

(* In the value of info: after its first lexeme and before its last one    *)
(* its own dictionary is open, and after the last one it is not.           *)
InfoOpen == Len(Stack(InfoBegin))

InfoNested(k) ==
  /\ dict_depth(InfoBegin, InfoBegin + k) = Cardinality(DictsAbove(InfoOpen, Stack(InfoBegin + k)))
  /\ Len(Stack(InfoBegin + k)) \in Nat /\ InfoOpen <= Len(Stack(InfoBegin + k))
  /\ Len(Stack(InfoBegin + k)) = InfoOpen + Nesting(InfoDict(torrent), k)
  /\ 0 < k /\ k < Len(InfoDict(torrent)) => InfoOpen + 1 \in DictsAbove(InfoOpen, Stack(InfoBegin + k))

LEMMA StackLength ==
  ASSUME Tokenized, NEW c \in Nat, c <= kept PROVE Len(Stack(c)) \in Nat
<1> DEFINE M == {"l", "d"}
<1>1. Stack(c) \in Seq(M)
  BY SourceTokens
<1> HIDE DEF M
<1> QED
  BY <1>1

LEMMA InfoNestedFirst ==
  ASSUME Tokenized, Hashable(torrent), InfoEnd <= kept PROVE InfoNested(0)
<1> DEFINE s == Stack(InfoBegin)
<1> DEFINE i == InfoDict(torrent)
<1>1. InfoBegin \in Nat /\ Len(i) \in Nat /\ InfoEnd = InfoBegin + Len(i) /\ kept \in Nat
  BY InfoMarks, SourceTokens DEF InfoEnd, Tokenized
<1> HIDE DEF i
<1>2. InfoBegin <= kept
  BY <1>1
<1>3. Len(s) \in Nat
  BY <1>1, <1>2, StackLength
<1>4. dict_depth(InfoBegin, InfoBegin) = 0
  BY <1>1, DepthMoves
<1>5. Cardinality(DictsAbove(Len(s), s)) = 0
  <2>1. \A k : ~(k \in (Len(s) + 1) .. Len(s))
    BY <1>3
  <2>2. DictsAbove(Len(s), s) = {}
    BY <2>1, Zenon DEF DictsAbove
  <2> QED
    BY <2>2, FS_EmptySet
<1>6. Nesting(i, 0) = 0
  <2>1. \A n \in 1 .. 0 : FALSE
    OBVIOUS
  <2>2. {n \in 1 .. 0 : i[n].type \in {"l", "d"}} = {} /\ {n \in 1 .. 0 : i[n].type = "e"} = {}
    BY <2>1, Zenon
  <2> QED
    BY <2>2, FS_EmptySet DEF Nesting
<1>7. InfoBegin + 0 = InfoBegin
  BY <1>1
<1> QED
  BY <1>3, <1>4, <1>5, <1>6, <1>7 DEF InfoNested, InfoOpen, i, s

LEMMA InfoNestedNext ==
  ASSUME Tokenized, Hashable(torrent), InfoEnd <= kept,
         NEW k \in Nat, k < Len(InfoDict(torrent)), InfoNested(k)
  PROVE  InfoNested(k + 1)
<1> DEFINE i == InfoDict(torrent)
<1> DEFINE c == InfoBegin + k
<1> DEFINE h == InfoOpen
<1> DEFINE N == Len(i)
<1> DEFINE lexeme == Lex(c)
<1>1. /\ InfoBegin \in Nat /\ N \in Nat /\ InfoEnd = InfoBegin + N /\ kept \in Nat /\ InfoEnd <= kept
      /\ k \in Nat /\ k < N
      /\ Stands(InfoBegin, i)
  BY InfoMarks, SourceTokens DEF InfoEnd, Tokenized
<1>2. OneDictionary(i)
  BY DEF Hashable
<1>3. i[1].type = "d" /\ \A n \in 1 .. N : Nesting(i, n) = 0 <=> n = N
  BY <1>2 DEF OneDictionary
<1>4. /\ Nesting(i, (k + 1) - 1) \in Int
      /\ Nesting(i, k + 1) = Nesting(i, (k + 1) - 1)
           + (IF i[k + 1].type \in {"l", "d"} THEN 1 ELSE IF i[k + 1].type = "e" THEN -1 ELSE 0)
  <2>1. k + 1 \in Nat \ {0}
    BY <1>1
  <2> HIDE DEF i
  <2> QED
    BY <2>1, NestingMoves
<1>5. /\ dict_depth(InfoBegin, c) = Cardinality(DictsAbove(h, Stack(c)))
      /\ Len(Stack(c)) \in Nat /\ h <= Len(Stack(c)) /\ Len(Stack(c)) = h + Nesting(i, k)
      /\ 0 < k /\ k < N => h + 1 \in DictsAbove(h, Stack(c))
  BY DEF InfoNested
<1>6. c \in Nat /\ c < kept /\ InfoBegin <= c /\ c + 1 = InfoBegin + (k + 1) /\ InfoBegin <= kept
  BY <1>1
<1>7. h \in Nat
  BY <1>1, <1>6, StackLength DEF InfoOpen
<1>8. Len(Stack(c + 1)) \in Nat
  <2>1. c + 1 \in Nat /\ c + 1 <= kept
    BY <1>1, <1>6
  <2> QED
    BY <2>1, StackLength
<1>9. lexeme = i[k + 1]
  <2>1. k + 1 \in 1 .. N /\ (InfoBegin + (k + 1)) = c + 1
    BY <1>1
  <2> HIDE DEF i
  <2>2. TheSource[InfoBegin + (k + 1)] = i[k + 1]
    BY <1>1, <2>1 DEF Stands, N
  <2> QED
    BY <2>1, <2>2 DEF Lex, TheSource
<1> DEFINE before == Nesting(i, k)
<1> DEFINE after == Nesting(i, k + 1)
<1> DEFINE delta == IF lexeme.type \in {"l", "d"} THEN 1 ELSE IF lexeme.type = "e" THEN -1 ELSE 0
<1>10. before \in Int /\ after = before + delta
  <2>1. (k + 1) - 1 = k
    BY <1>1
  <2> HIDE DEF i
  <2> QED
    BY <1>4, <1>9, <2>1
<1>11. (k = 0 => lexeme.type = "d") /\ (k # 0 => before # 0) /\ (k + 1 < N => after # 0)
  <2>1. k = 0 => i[k + 1].type = "d"
    BY <1>3
  <2>2. k # 0 => k \in 1 .. N /\ k # N
    BY <1>1
  <2>3. k + 1 < N => k + 1 \in 1 .. N /\ k + 1 # N
    BY <1>1
  <2> QED
    BY <1>3, <1>9, <2>1, <2>2, <2>3
<1>12. k = 0 => Len(Stack(c)) = h
  <2>1. k = 0 => c = InfoBegin
    BY <1>1
  <2> QED
    BY <2>1 DEF InfoOpen
<1> HIDE DEF i, c, h, N, lexeme, before, after
<1>13. lexeme.type = "e" => h < Len(Stack(c))
  <2>1. CASE k = 0
    BY <1>11, <2>1
  <2>2. CASE k # 0
    BY <1>5, <1>7, <1>10, <1>11, <2>2 DEF before
  <2> QED
    BY <2>1, <2>2
<1>14. /\ dict_depth(InfoBegin, c + 1) = Cardinality(DictsAbove(h, Stack(c + 1)))
       /\ h <= Len(Stack(c + 1))
       /\ Len(Stack(c + 1)) = Len(Stack(c)) + delta
       /\ h + 1 \in DictsAbove(h, Stack(c)) /\ h < Len(Stack(c + 1))
            => h + 1 \in DictsAbove(h, Stack(c + 1))
       /\ h = Len(Stack(c)) /\ lexeme.type = "d" => h + 1 \in DictsAbove(h, Stack(c + 1))
  BY <1>1, <1>5, <1>6, <1>7, <1>13, DepthStep DEF lexeme
<1> HIDE DEF delta
<1>15. Len(Stack(c + 1)) = h + after /\ after \in Int
  <2>1. delta \in {1, -1, 0} /\ after = before + delta /\ Len(Stack(c + 1)) = Len(Stack(c)) + delta
    BY <1>10, <1>14 DEF delta
  <2>2. Len(Stack(c)) = h + before /\ h \in Nat /\ before \in Int
    BY <1>5, <1>7, <1>10 DEF before
  <2> QED
    BY <2>1, <2>2
<1>16. k + 1 < N => h + 1 \in DictsAbove(h, Stack(c + 1))
  <2>1. CASE k = 0
    BY <1>11, <1>12, <1>14, <2>1
  <2>2. CASE k # 0
    <3>1. 0 < k
      BY <1>1, <2>2
    <3>2. k + 1 < N => h < Len(Stack(c + 1))
      BY <1>7, <1>8, <1>11, <1>14, <1>15
    <3> QED
      BY <1>1, <1>5, <1>14, <3>1, <3>2
  <2> QED
    BY <2>1, <2>2
<1> QED
  BY <1>6, <1>8, <1>14, <1>15, <1>16 DEF InfoNested, c, h, i, N, after

LEMMA InfoDepth ==
  ASSUME Tokenized, Hashable(torrent), InfoEnd <= kept
  PROVE  \A k \in 0 .. Len(InfoDict(torrent)) : InfoNested(k)
<1> DEFINE N == Len(InfoDict(torrent))
<1>1. N \in Nat
  BY InfoMarks DEF Tokenized
<1> HIDE DEF N
<1> DEFINE S == {k \in 0 .. N : ~InfoNested(k)}
<1> SUFFICES ASSUME S # {} PROVE FALSE
  BY DEF N
<1>2. PICK k \in S : \A m \in S : k <= m
  <2>1. S \in SUBSET Nat
    BY <1>1
  <2> HIDE DEF S
  <2> QED
    BY <2>1, Least
<1>3. k \in 0 .. N /\ ~InfoNested(k)
  OBVIOUS
<1>4. k # 0
  BY <1>3, InfoNestedFirst
<1>5. k - 1 \in Nat /\ k - 1 \in 0 .. N /\ k - 1 < N /\ (k - 1) + 1 = k /\ k - 1 \notin S
  BY <1>1, <1>2, <1>3, <1>4
<1>6. InfoNested(k - 1)
  BY <1>5
<1> DEFINE j == k - 1
<1>7. j \in Nat /\ j < N /\ InfoNested(j) /\ j + 1 = k
  BY <1>5, <1>6
<1> HIDE DEF j
<1>8. InfoNested(j + 1)
  BY <1>7, InfoNestedNext DEF N
<1> QED
  BY <1>3, <1>7, <1>8

(* Where the loop over info finds no dictionary open.                      *)
LEMMA InfoStops ==
  ASSUME Tokenized, Hashable(torrent), InfoEnd <= kept
  PROVE  /\ dict_depth(InfoBegin, InfoEnd) = 0
         /\ \A j \in (InfoBegin + 1) .. (InfoEnd - 1) : dict_depth(InfoBegin, j) # 0
<1> DEFINE N == Len(InfoDict(torrent))
<1> DEFINE h == InfoOpen
<1>1. InfoBegin \in Nat /\ N \in Nat \ {0} /\ InfoEnd = InfoBegin + N /\ kept \in Nat
  BY InfoMarks, SourceTokens DEF InfoEnd, Tokenized
<1>2. Nesting(InfoDict(torrent), N) = 0
  <2>1. N \in 1 .. N
    BY <1>1
  <2> QED
    BY <2>1 DEF Hashable, OneDictionary
<1> HIDE DEF N
<1>3. \A k \in 0 .. N : InfoNested(k)
  BY InfoDepth DEF N
<1>4. h \in Nat
  BY <1>1, StackLength DEF InfoOpen
<1>5. dict_depth(InfoBegin, InfoEnd) = 0
  <2> DEFINE s == Stack(InfoEnd)
  <2>1. N \in 0 .. N
    BY <1>1
  <2>2. InfoNested(N)
    BY <1>3, <2>1
  <2>3. dict_depth(InfoBegin, InfoEnd) = Cardinality(DictsAbove(h, s)) /\ Len(s) = h + 0
    BY <1>1, <1>2, <2>2 DEF InfoNested, N
  <2> HIDE DEF h, s
  <2>4. \A k : ~(k \in (h + 1) .. Len(s))
    BY <1>4, <2>3
  <2>5. DictsAbove(h, s) = {}
    BY <2>4, Zenon DEF DictsAbove
  <2> QED
    BY <2>3, <2>5, FS_EmptySet
<1>6. ASSUME NEW j \in (InfoBegin + 1) .. (InfoEnd - 1) PROVE dict_depth(InfoBegin, j) # 0
  <2> DEFINE k == j - InfoBegin
  <2> DEFINE s == Stack(j)
  <2>1. k \in 0 .. N /\ 0 < k /\ k < N /\ InfoBegin + k = j
    BY <1>1
  <2> HIDE DEF k
  <2>2. /\ dict_depth(InfoBegin, j) = Cardinality(DictsAbove(h, s)) /\ Len(s) \in Nat
        /\ h + 1 \in DictsAbove(h, s)
    BY <1>3, <2>1 DEF InfoNested, N
  <2> HIDE DEF h, s
  <2>3. IsFiniteSet(DictsAbove(h, s))
    <3>1. IsFiniteSet((h + 1) .. Len(s)) /\ DictsAbove(h, s) \in SUBSET ((h + 1) .. Len(s))
      BY <1>4, <2>2, FS_Interval DEF DictsAbove
    <3> QED
      BY <3>1, FS_Subset
  <2> QED
    BY <2>2, <2>3, FS_EmptySet
<1> QED
  BY <1>5, <1>6

(* The first string "info" of the tokens is the key.                       *)
LEMMA MinIs ==
  ASSUME NEW S, S \subseteq Int, NEW m \in S, \A y \in S : m <= y PROVE Min(S) = m
<1>1. \A x \in S : (\A y \in S : x <= y) => x = m
  OBVIOUS
<1> QED
  BY <1>1, Zenon DEF Min

LEMMA InfoFound ==
  ASSUME Tokenized, Hashable(torrent), InfoEnd <= kept,
         NEW S, S = {i \in 0 .. (TOKENS_SIZE - 1) : Type(i) = "STR" /\ Token(i).str = "info"}
  PROVE  S # {} /\ 1 + Min(S) = InfoBegin
<1> DEFINE b == BeforeInfo(torrent)
<1> DEFINE n == InfoBegin - 1
<1>1. /\ InfoBegin \in Nat \ {0} /\ InfoEnd \in Nat /\ InfoBegin <= InfoEnd /\ kept \in Nat
      /\ Stands(0, b) /\ Lex(n) = Str("info") /\ Len(b) = InfoBegin
      /\ TOKENS_SIZE \in Nat /\ kept <= TOKENS_SIZE
  BY InfoMarks, SourceTokens DEF InfoEnd, InfoBegin, Tokenized
<1>2. n \in Nat /\ n < kept /\ n \in 0 .. (TOKENS_SIZE - 1) /\ 1 + n = InfoBegin
  BY <1>1
<1>3. Lex(n).type = "STR" /\ Lex(n).str = "info"
  BY <1>1 DEF Str, Bytes
<1> HIDE DEF n, b
<1>4. Type(n) = "STR" /\ Token(n).str = "info"
  BY <1>2, <1>3, TokenOf
<1>5. n \in S
  BY <1>2, <1>4
<1>6. ASSUME NEW i \in S PROVE n <= i
  <2>1. i \in 0 .. (TOKENS_SIZE - 1) /\ Type(i) = "STR" /\ Token(i).str = "info"
    OBVIOUS
  <2> SUFFICES ASSUME i < n PROVE FALSE
    BY <1>2, <2>1
  <2>2. i \in Nat /\ i < kept /\ i + 1 \in 1 .. (Len(b) - 1) /\ i + 1 \in 1 .. Len(b) /\ 0 + (i + 1) = i + 1
    BY <1>1, <1>2, <2>1
  <2>3. Lex(i).type = "STR" /\ Lex(i).str = "info"
    BY <2>1, <2>2, TokenOf
  <2>4. Lex(i) = b[i + 1]
    BY <1>1, <2>2 DEF Stands, Lex
  <2> QED
    BY <2>2, <2>3, <2>4 DEF Hashable, b
<1>7. S \subseteq Int
  OBVIOUS
<1>8. Min(S) = n
  BY <1>5, <1>6, <1>7, MinIs
<1> QED
  BY <1>2, <1>5, <1>8

(* The tokens after the last lexeme: the ends of the structs that are open *)
(* there, the first of them where the source ends.                         *)
LEMMA TokensEnd ==
  ASSUME Tokenized
  PROVE  /\ TOKENS_SIZE = kept + Len(Stack(kept))
         /\ kept < TOKENS_SIZE => Token(kept).start = Offset(kept)
<1> DEFINE s == Parsing(Source)[kept]
<1> DEFINE closing == [i \in DOMAIN s.open |-> Bound(TypeAtEnd[s.open[i]], s.offset + i - 1)]
<1>1. Len(Source) = kept /\ kept \in Nat /\ Source \in Seq(Lexeme)
  BY SourceLength, SourceCut DEF Tokenized, CutFrom
<1>2. /\ s \in ParseState /\ ~s.threw /\ Len(s.open) \in Nat
      /\ Len(tokens) = Len(s.read) + Len(s.open)
  BY <1>1, ParsedTokens DEF Tokenized, Parsed
<1>3. Len(s.read) = kept
  <2>1. ~Parsing(Source)[Len(Source)].threw /\ kept \in 0 .. Len(Source)
    BY <1>1, <1>2
  <2> QED
    BY <1>1, <2>1, Tokens
<1>4. tokens = s.read \o closing
  BY <1>1, <1>2 DEF Tokenized, Parsed, parse
<1>5. Stack(kept) = s.open /\ Offset(kept) = s.offset /\ Token(kept) = tokens[kept + 1]
  BY DEF Stack, Offset, Token
<1>6. /\ IsSeq(s.read) /\ s.offset \in Nat
      /\ DOMAIN s.open = 1 .. Len(s.open)
  <2> DEFINE T == TokenSet
  <2> DEFINE M == {"l", "d"}
  <2>1. s.read \in Seq(T) /\ s.open \in Seq(M) /\ s.offset \in Nat
    BY <1>2 DEF ParseState
  <2> HIDE DEF s, T, M
  <2>2. IsSeq(s.read) /\ IsSeq(s.open)
    BY <2>1, Zenon DEF IsSeq
  <2> QED
    BY <2>1, <2>2, SeqFacts
<1>7. closing = [i \in 1 .. Len(s.open) |-> Bound(TypeAtEnd[s.open[i]], s.offset + i - 1)]
  BY <1>6
<1> HIDE DEF s
<1>8. IsSeq(closing) /\ Len(closing) = Len(s.open)
  <2> DEFINE m == Len(s.open)
  <2> DEFINE g(i) == Bound(TypeAtEnd[s.open[i]], s.offset + i - 1)
  <2> DEFINE R == {g(i) : i \in 1 .. m}
  <2>1. m \in Nat /\ closing = [i \in 1 .. m |-> g(i)]
    BY <1>2, <1>7
  <2> HIDE DEF m, g, closing
  <2>2. \A i \in 1 .. m : g(i) \in R
    OBVIOUS
  <2> HIDE DEF R
  <2>3. closing \in Seq(R) /\ Len(closing) = m
    BY <2>1, <2>2
  <2>4. IsSeq(closing)
    BY <2>3, Zenon DEF IsSeq
  <2> QED
    BY <2>3, <2>4 DEF m
<1>9. kept < TOKENS_SIZE => closing[1].start = s.offset
  <2>1. kept < TOKENS_SIZE => 1 \in 1 .. Len(s.open)
    BY <1>1, <1>2, <1>3 DEF TOKENS_SIZE
  <2>2. 1 \in 1 .. Len(s.open) => closing[1] = Bound(TypeAtEnd[s.open[1]], s.offset + 1 - 1)
    BY <1>7
  <2>3. s.offset + 1 - 1 = s.offset
    BY <1>6
  <2> QED
    BY <2>1, <2>2, <2>3 DEF Bound
<1> HIDE DEF closing
<1>10. \A i \in 1 .. Len(closing) : tokens[kept + i] = closing[i]
  BY <1>3, <1>4, <1>6, <1>8, Joined
<1>11. kept < TOKENS_SIZE => 1 \in 1 .. Len(closing)
  BY <1>1, <1>2, <1>3, <1>8 DEF TOKENS_SIZE
<1>12. kept < TOKENS_SIZE => tokens[kept + 1] = closing[1]
  BY <1>10, <1>11
<1> QED
  BY <1>2, <1>3, <1>5, <1>9, <1>12 DEF TOKENS_SIZE

(* So there is a token after info, also where the source ends with it.     *)
LEMMA InfoFollowed ==
  ASSUME Tokenized, Hashable(torrent), InfoEnd <= kept PROVE InfoEnd < TOKENS_SIZE
<1>1. /\ InfoBegin \in Nat \ {0} /\ InfoEnd \in Nat /\ InfoBegin <= InfoEnd
      /\ kept \in Nat /\ Len(TheSource) \in Nat /\ InfoEnd < Len(TheSource)
      /\ TOKENS_SIZE \in Nat /\ kept <= TOKENS_SIZE
  BY InfoMarks, SourceTokens DEF InfoEnd, Tokenized
<1>2. CASE InfoEnd < kept
  BY <1>1, <1>2
<1>3. CASE InfoEnd = kept
  <2>1. OneDictionary(TheSource) /\ CutFrom(Source, TheSource)
    BY SourceCut DEF Tokenized, TheSource
  <2>2. Len(Source) = kept /\ Source \in Seq(Lexeme)
    BY <2>1, SourceLength DEF Tokenized, CutFrom
  <2>3. ParsedTo(TheSource, kept, Parsing(Source)[kept])
    <3>1. kept \in 0 .. Len(Source)
      BY <1>1, <2>2
    <3> QED
      BY <2>1, <3>1, ParsedAll
  <2>4. ~Parsing(Source)[kept].threw
    BY <2>2, ParsedTokens DEF Tokenized, Parsed
  <2>5. Len(Stack(kept)) = Nesting(TheSource, kept)
    BY <2>3, <2>4 DEF ParsedTo, Stack
  <2>6. Nesting(TheSource, kept) # 0
    <3>1. kept \in 1 .. Len(TheSource) /\ kept # Len(TheSource)
      BY <1>1, <1>3
    <3> QED
      BY <2>1, <3>1 DEF OneDictionary
  <2>7. TOKENS_SIZE = kept + Len(Stack(kept)) /\ Len(Stack(kept)) \in Nat
    <3>1. kept \in Nat /\ kept <= kept
      BY <1>1
    <3> QED
      BY <3>1, TokensEnd, StackLength
  <2> QED
    BY <1>1, <1>3, <2>5, <2>6, <2>7
<1> QED
  BY <1>1, <1>2, <1>3

LEMMA InfoLeftAt ==
  ASSUME Tokenized, Hashable(torrent), InfoEnd <= kept,
         NEW S, S = {j \in (InfoBegin + 1) .. TOKENS_SIZE : j = TOKENS_SIZE \/ dict_depth(InfoBegin, j) = 0}
  PROVE  Min(S) = InfoEnd
<1>1. /\ InfoBegin \in Nat /\ InfoEnd \in Nat /\ InfoBegin + 1 <= InfoEnd
      /\ TOKENS_SIZE \in Nat /\ InfoEnd < TOKENS_SIZE
  BY InfoMarks, InfoFollowed, SourceTokens DEF InfoEnd, Tokenized
<1>2. InfoEnd \in S
  <2>1. InfoEnd \in (InfoBegin + 1) .. TOKENS_SIZE
    BY <1>1
  <2> QED
    BY <2>1, InfoStops
<1>3. ASSUME NEW j \in S PROVE InfoEnd <= j
  <2>1. j \in (InfoBegin + 1) .. TOKENS_SIZE /\ (j = TOKENS_SIZE \/ dict_depth(InfoBegin, j) = 0)
    OBVIOUS
  <2> SUFFICES ASSUME j < InfoEnd PROVE FALSE
    BY <1>1, <2>1
  <2>2. j \in (InfoBegin + 1) .. (InfoEnd - 1) /\ j # TOKENS_SIZE
    BY <1>1, <2>1
  <2> QED
    BY <2>1, <2>2, InfoStops
<1>4. S \subseteq Int
  BY <1>1
<1> QED
  BY <1>2, <1>3, <1>4, MinIs

(* The bytes before a token are those of the lexemes before it.            *)
LEMMA OffsetsAre ==
  ASSUME Tokenized
  PROVE  /\ Offset(0) = 0 /\ \A c \in 0 .. kept : Offset(c) \in Nat
         /\ \A c \in 0 .. (kept - 1) : Offset(c + 1) = Offset(c) + Lex(c).size
         /\ kept \in Nat
<1>1. Len(Source) = kept /\ kept \in Nat /\ Source \in Seq(Lexeme)
  BY SourceLength, SourceCut DEF Tokenized, CutFrom
<1>2. /\ Parsing(Source)[0] = ParseInit
      /\ \A k \in 0 .. Len(Source) : Parsing(Source)[k] \in ParseState
  BY <1>1, ParsingSteps
<1>3. Offset(0) = 0
  BY <1>2 DEF Offset, ParseInit
<1>4. \A c \in 0 .. kept : Offset(c) \in Nat
  BY <1>1, <1>2 DEF Offset, ParseState
<1>5. ASSUME NEW c \in 0 .. (kept - 1) PROVE Offset(c + 1) = Offset(c) + Lex(c).size
  <2>1. c \in Nat /\ c < kept
    BY <1>1
  <2>2. Placed(Lex(c), Offset(c), Offset(c + 1), Token(c))
    BY <2>1, SourceTokens
  <2> QED
    BY <2>2 DEF Placed
<1> QED
  BY <1>1, <1>3, <1>4, <1>5

LEMMA OffsetAfter ==
  ASSUME Tokenized, NEW a, NEW x, IsSeq(x), Stands(a, x), a + Len(x) <= kept
  PROVE  SizeOf(x) \in Nat /\ Offset(a + Len(x)) = Offset(a) + SizeOf(x)
<1> DEFINE N == Len(x)
<1>1. a \in Nat /\ N \in Nat /\ kept \in Nat /\ a + N <= kept
  BY SeqFacts, OffsetsAre DEF Stands
<1>2. x \in Seq(Lexeme)
  <2> DEFINE L == Lexeme
  <2>1. TheSource \in Seq(L) /\ Len(TheSource) \in Nat
    BY SourceSeq DEF Tokenized
  <2> HIDE DEF L
  <2>2. ASSUME NEW k \in 1 .. N PROVE x[k] \in L
    <3>1. a + k \in 1 .. Len(TheSource) /\ TheSource[a + k] = x[k]
      BY <1>1, <2>1 DEF Stands
    <3> QED
      BY <2>1, <3>1
  <2>3. x \in Seq(L)
    BY <2>2, SeqIn
  <2> QED
    BY <2>3 DEF L
<1> DEFINE f == [c \in 0 .. kept |-> Offset(c)]
<1>3. \A c \in 0 .. kept : f[c] = Offset(c)
  OBVIOUS
<1> HIDE DEF f
<1>4. ASSUME NEW k \in 1 .. N PROVE f[a + k] = f[a + (k - 1)] + x[k].size
  <2> DEFINE c == a + (k - 1)
  <2>1. c \in 0 .. (kept - 1) /\ c + 1 = a + k /\ c \in 0 .. kept /\ c + 1 \in 0 .. kept
    BY <1>1
  <2>2. TheSource[a + k] = x[k]
    BY DEF Stands
  <2> HIDE DEF c
  <2>3. Lex(c) = x[k]
    BY <2>1, <2>2 DEF Lex
  <2>4. f[c + 1] = f[c] + x[k].size
    BY <1>3, <2>1, <2>3, OffsetsAre
  <2> QED
    BY <2>1, <2>4 DEF c
<1>5. f[a] \in Nat /\ f[a] = Offset(a) /\ f[a + N] = Offset(a + N)
  <2>1. a \in 0 .. kept /\ a + N \in 0 .. kept
    BY <1>1
  <2> QED
    BY <1>3, <2>1, OffsetsAre
<1>6. SizeOf(x) \in Nat /\ f[a + Len(x)] = f[a] + SizeOf(x)
  BY <1>1, <1>2, <1>4, <1>5, SizeRun
<1> QED
  BY <1>5, <1>6

LEMMA OffsetsGrow ==
  ASSUME Tokenized, NEW a \in 0 .. kept PROVE Offset(a) <= Offset(kept)
<1> DEFINE S == {k \in a .. kept : ~(Offset(a) <= Offset(k))}
<1>1. kept \in Nat /\ a \in Nat /\ a <= kept /\ \A c \in 0 .. kept : Offset(c) \in Nat
  BY OffsetsAre
<1>2. ASSUME S # {} PROVE FALSE
  <2>1. PICK k \in S : \A m \in S : k <= m
    <3>1. S \in SUBSET Nat
      BY <1>1
    <3> HIDE DEF S
    <3> QED
      BY <1>2, <3>1, Least
  <2>2. k \in a .. kept /\ ~(Offset(a) <= Offset(k))
    OBVIOUS
  <2>3. k # a
    BY <1>1, <2>2
  <2> DEFINE j == k - 1
  <2>4. j \in a .. kept /\ j \in 0 .. (kept - 1) /\ j + 1 = k /\ j \notin S /\ k \in Nat
    BY <1>1, <2>1, <2>2, <2>3
  <2>5. Offset(a) <= Offset(j)
    BY <2>4
  <2> HIDE DEF j, S
  <2>6. Offset(k) = Offset(j) + Lex(j).size
    BY <2>4, OffsetsAre
  <2>7. Lex(j).size \in Nat
    <3>1. j \in Nat /\ j < kept
      BY <1>1, <2>4
    <3>2. Lex(j) \in Lexeme
      BY <3>1, SourceTokens
    <3> QED
      BY <3>2 DEF Lexeme
  <2>8. Offset(a) \in Nat /\ Offset(j) \in Nat
    BY <1>1, <2>4
  <2> QED
    BY <2>2, <2>5, <2>6, <2>7, <2>8
<1>3. kept \in a .. kept
  BY <1>1
<1> QED
  BY <1>2, <1>3

LEMMA InfoOffsets ==
  ASSUME Tokenized, Hashable(torrent), InfoEnd <= kept
  PROVE  /\ Offset(InfoBegin) = SizeOf(BeforeInfo(torrent)) /\ Offset(InfoBegin) \in Nat
         /\ Offset(InfoEnd) = Offset(InfoBegin) + SizeOf(InfoDict(torrent))
         /\ SizeOf(InfoDict(torrent)) \in Nat
         /\ Offset(InfoEnd) <= SizeOf(Source) /\ SizeOf(Source) \in Nat
<1> DEFINE b == BeforeInfo(torrent)
<1> DEFINE i == InfoDict(torrent)
<1>1. /\ InfoBegin \in Nat /\ InfoEnd \in Nat /\ InfoBegin <= InfoEnd /\ kept \in Nat
      /\ Stands(0, b) /\ Stands(InfoBegin, i) /\ kept <= Len(TheSource) /\ Len(TheSource) \in Nat
  BY InfoMarks, SourceTokens DEF InfoEnd, Tokenized
<1>2. IsSeq(b) /\ Len(b) = InfoBegin
  BY BeforeInfoStands DEF Tokenized, InfoBegin
<1>3. IsSeq(i) /\ InfoBegin + Len(i) = InfoEnd
  <2> DEFINE L == Lexeme
  <2>1. i \in Seq(L)
    BY DEF Hashable
  <2> HIDE DEF i, L
  <2>2. IsSeq(i)
    BY <2>1, Zenon DEF IsSeq
  <2> QED
    BY <2>2 DEF InfoEnd, i
<1>4. IsSeq(Source) /\ Len(Source) = kept /\ Stands(0, Source)
  <2>1. Len(Source) = kept /\ CutFrom(Source, TheSource)
    BY SourceLength, SourceCut DEF Tokenized, TheSource
  <2>2. IsSeq(Source)
    BY <2>1, Zenon DEF IsSeq, CutFrom
  <2>3. ASSUME NEW k \in 1 .. Len(Source) PROVE TheSource[0 + k] = Source[k]
    <3>1. k <= Len(TheSource) /\ 0 + k = k
      BY <1>1, <2>1
    <3> QED
      BY <2>1, <3>1 DEF CutFrom
  <2>4. 0 + Len(Source) <= Len(TheSource)
    BY <1>1, <2>1
  <2> QED
    BY <2>1, <2>2, <2>3, <2>4 DEF Stands
<1> HIDE DEF b, i
<1>5. SizeOf(b) \in Nat /\ Offset(InfoBegin) = SizeOf(b)
  <2>1. 0 + Len(b) = InfoBegin /\ InfoBegin <= kept
    BY <1>1, <1>2
  <2>2. SizeOf(b) \in Nat /\ Offset(0 + Len(b)) = Offset(0) + SizeOf(b)
    BY <1>1, <1>2, <2>1, OffsetAfter
  <2> QED
    BY <2>1, <2>2, OffsetsAre
<1>6. SizeOf(i) \in Nat /\ Offset(InfoEnd) = Offset(InfoBegin) + SizeOf(i)
  BY <1>1, <1>3, OffsetAfter
<1>7. SizeOf(Source) \in Nat /\ Offset(kept) = SizeOf(Source)
  <2>1. 0 + Len(Source) = kept /\ kept <= kept
    BY <1>1, <1>4
  <2>2. SizeOf(Source) \in Nat /\ Offset(0 + Len(Source)) = Offset(0) + SizeOf(Source)
    BY <1>4, <2>1, OffsetAfter
  <2> QED
    BY <2>1, <2>2, OffsetsAre
<1>8. Offset(InfoEnd) <= Offset(kept)
  BY <1>1, OffsetsGrow
<1> QED
  BY <1>5, <1>6, <1>7, <1>8 DEF b, i

(* What length_modifier takes away: all that is between the two tokens.    *)
LEMMA InfoFollower ==
  ASSUME Tokenized, Hashable(torrent), InfoEnd <= kept
  PROVE  /\ Token(InfoEnd).start \in Int /\ length_modifier(Token(InfoEnd)) \in Int
         /\ Token(InfoEnd).start - length_modifier(Token(InfoEnd)) = Offset(InfoEnd)
<1> DEFINE token == Token(InfoEnd)
<1> DEFINE lexeme == Lex(InfoEnd)
<1>1. /\ InfoEnd \in Nat /\ kept \in Nat /\ InfoEnd < TOKENS_SIZE /\ Offset(InfoEnd) \in Nat
      /\ lexeme = NextLexeme
  BY InfoMarks, InfoFollowed, OffsetsAre DEF Tokenized
<1>2. \A t : t.type \notin {"INT", "STR"} => length_modifier(t) = 0
  BY DEF length_modifier
<1>3. CASE InfoEnd = kept
  <2>1. token.type \notin {"INT", "STR"} /\ token.start = Offset(InfoEnd)
    BY <1>1, <1>3, TokensEnd, SourceTokens DEF Type, EndTypes
  <2> HIDE DEF token
  <2>2. length_modifier(token) = 0
    BY <1>2, <2>1
  <2> QED
    BY <1>1, <2>1, <2>2 DEF token
<1>4. CASE InfoEnd # kept
  <2>1. /\ Spelled(lexeme, Stack(InfoEnd), Stack(InfoEnd + 1), token)
        /\ Placed(lexeme, Offset(InfoEnd), Offset(InfoEnd + 1), token)
        /\ lexeme \in Lexeme
    <3>1. InfoEnd < kept
      BY <1>1, <1>4
    <3> QED
      BY <1>1, <3>1, SourceTokens
  <2>2. lexeme.type = "STR" => length_modifier(lexeme) = lexeme.size - lexeme.length
    <3>1. Mark("e").type # "STR"
      BY DEF Mark
    <3> QED
      BY <1>1, <3>1 DEF Hashable, NextLexeme
  <2>3. lexeme.type = "STR" => lexeme.size \in Nat /\ lexeme.length \in Nat
    BY <2>1 DEF Lexeme
  <2>4. \A t, u : t.type = u.type /\ t.length = u.length => length_modifier(t) = length_modifier(u)
    BY Zenon DEF length_modifier
  <2> HIDE DEF token, lexeme
  <2>5. CASE lexeme.type = "INT"
    <3>1. token.type = "INT" /\ token.start = Offset(InfoEnd) + 1
      BY <2>1, <2>5 DEF Spelled, Placed
    <3>2. length_modifier(token) = 1
      BY <3>1 DEF length_modifier
    <3> QED
      BY <1>1, <3>1, <3>2 DEF token
  <2>6. CASE lexeme.type = "STR"
    <3>1. /\ token.type = lexeme.type /\ token.length = lexeme.length
          /\ token.start = Offset(InfoEnd) + lexeme.size - lexeme.length
      BY <2>1, <2>6 DEF Spelled, Placed
    <3>2. length_modifier(token) = lexeme.size - lexeme.length
      BY <2>2, <2>4, <2>6, <3>1
    <3> QED
      BY <1>1, <2>3, <2>6, <3>1, <3>2 DEF token
  <2>7. CASE lexeme.type \notin {"INT", "STR"}
    <3>1. token.type \notin {"INT", "STR"} /\ token.start = Offset(InfoEnd)
      BY <2>1, <2>7 DEF Spelled, Placed
    <3>2. length_modifier(token) = 0
      BY <1>2, <3>1
    <3> QED
      BY <1>1, <3>1, <3>2 DEF token
  <2> QED
    BY <2>5, <2>6, <2>7
<1> QED
  BY <1>3, <1>4

LEMMA HashedIs ==
  ASSUME Tokenized, Hashable(torrent), InfoEnd <= kept
  PROVE  Hashed = << InfoBytes(torrent) >>
<1> DEFINE infos == {i \in 0 .. (TOKENS_SIZE - 1) : Type(i) = "STR" /\ Token(i).str = "info"}
<1> DEFINE value == 1 + Min(infos)
<1> DEFINE stops == {j \in (value + 1) .. TOKENS_SIZE : j = TOKENS_SIZE \/ dict_depth(value, j) = 0}
<1> DEFINE after == Min(stops)
<1> DEFINE from  == Token(value).start
<1> DEFINE asked == Token(after).start - from - length_modifier(Token(after))
<1>1. Hashed = IF infos = {} \/ after = TOKENS_SIZE THEN << >>
               ELSE << [from |-> from,
                        length |-> IF from + asked <= SizeOf(Source) THEN asked
                                   ELSE SizeOf(Source) - from] >>
  BY DEF Hashed
<1>2. infos # {} /\ value = InfoBegin
  BY InfoFound
<1> HIDE DEF infos, value
<1>3. after = InfoEnd
  <2>1. stops = {j \in (InfoBegin + 1) .. TOKENS_SIZE : j = TOKENS_SIZE \/ dict_depth(InfoBegin, j) = 0}
    BY <1>2
  <2> HIDE DEF stops
  <2> QED
    BY <2>1, InfoLeftAt
<1> HIDE DEF after
<1>4. InfoEnd # TOKENS_SIZE
  <2>1. InfoEnd < TOKENS_SIZE /\ TOKENS_SIZE \in Nat /\ InfoEnd \in Nat
    BY InfoFollowed, SourceTokens, InfoMarks DEF Tokenized
  <2> QED
    BY <2>1
<1>5. from = Offset(InfoBegin)
  <2>1. /\ InfoBegin \in Nat /\ InfoBegin < kept /\ InfoBegin + 1 = InfoBegin + 1
        /\ Stands(InfoBegin, InfoDict(torrent)) /\ 1 \in 1 .. Len(InfoDict(torrent))
    BY InfoMarks, SourceTokens DEF Tokenized, InfoEnd
  <2>2. Lex(InfoBegin).type = "d"
    BY <2>1 DEF Stands, Lex, Hashable, OneDictionary
  <2>3. Placed(Lex(InfoBegin), Offset(InfoBegin), Offset(InfoBegin + 1), Token(InfoBegin))
    BY <2>1, SourceTokens
  <2>4. Token(InfoBegin).start = Offset(InfoBegin)
    BY <2>2, <2>3 DEF Placed
  <2> QED
    BY <1>2, <2>4
<1>6. asked = Token(InfoEnd).start - from - length_modifier(Token(InfoEnd))
  BY <1>3
<1> HIDE DEF from, asked
<1>7. /\ from = SizeOf(BeforeInfo(torrent)) /\ asked = SizeOf(InfoDict(torrent))
      /\ from + asked <= SizeOf(Source)
  BY <1>5, <1>6, InfoOffsets, InfoFollower
<1> QED
  BY <1>1, <1>2, <1>3, <1>4, <1>7 DEF InfoBytes

(* The steps keep the members, and only the hash comes to the offsets.     *)
LEMMA DomainKept == ASSUME ReadNext PROVE DOMAIN tf' = DOMAIN tf
<1>1. CASE parse_tokens \/ skip_token \/ process_ends \/ fill_files \/ files_end \/ file_ends \/ fill_piece_offsets
  BY <1>1, Zenon DEF parse_tokens, skip_token, process_ends, fill_files, files_end, file_ends, fill_piece_offsets
<1>2. CASE fill_str
  BY <1>2 DEF fill_str
<1>3. CASE fill_creation_date
  BY <1>3 DEF fill_creation_date
<1>4. CASE fill_announce_list
  BY <1>4 DEF fill_announce_list
<1>5. CASE fill_info
  BY <1>5 DEF fill_info
<1>6. CASE info_value
  BY <1>6 DEF info_value
<1>7. CASE fill_pieces
  BY <1>7 DEF fill_pieces
<1>8. CASE info_ends
  BY <1>8 DEF info_ends
<1>9. CASE file_begins
  BY <1>9 DEF file_begins
<1>10. CASE file_value
  BY <1>10 DEF file_value
<1>11. CASE calculate_info_sha1
  BY <1>11 DEF calculate_info_sha1
<1> QED
  BY <1>1, <1>2, <1>3, <1>4, <1>5, <1>6, <1>7, <1>8, <1>9, <1>10, <1>11 DEF ReadNext

LEMMA OffsetsEntered ==
  ASSUME ReadNext, reading' \in {"offsets", "loaded"}
  PROVE  calculate_info_sha1 \/ (fill_piece_offsets /\ reading = "offsets")
<1>1. CASE reading \in {"parse", "process"}
  BY <1>1, ReadingAt DEF parse_tokens, skip_token, fill_str, fill_creation_date, fill_announce_list,
     process_ends, fill_info
<1>2. CASE reading \in {"fill_info", "first_file", "next_file", "file"}
  BY <1>2, ReadingAt DEF info_value, fill_pieces, fill_files, info_ends, file_begins, files_end,
     file_value, file_ends
<1> QED
  BY <1>1, <1>2, ReadingAt DEF Walking

(* The inductive invariant of the hash, of a source that is not cut before *)
(* the end of info.                                                        *)
HashWay ==
  /\ "info_sha1" \in DOMAIN tf
  /\ reading \in Walking => Parsed
  /\ reading \in {"offsets", "loaded"} => tf.info_sha1 = << InfoBytes(torrent) >>

HashInv ==
  Hashable(torrent) /\ InfoEnd <= kept => HashWay /\ (stage = "Files" => reading = "loaded")

LEMMA HashStep ==
  ASSUME ReadInv, Hashable(torrent), InfoEnd <= kept, HashWay, ReadNext PROVE HashWay'
<1>1. "info_sha1" \in DOMAIN tf /\ ("info_sha1" \in DOMAIN tf)'
  BY DomainKept DEF HashWay
<1>2. InfoBytes(torrent)' = InfoBytes(torrent)
  BY SourceKept
<1>3. CASE reading = "parse"
  <2>1. parse_tokens
    BY <1>3, ReadingAt
  <2>2. /\ tokens' = IF parse(Source) = << >> THEN << >> ELSE parse(Source)[1]
        /\ reading' = IF parse(Source) = << >> THEN "refused" ELSE "process"
        /\ UNCHANGED << torrent, kept, current_token, tf >>
    BY <2>1, Zenon DEF parse_tokens
  <2>3. parse(Source)' = parse(Source)
    BY <2>2 DEF Source
  <2>4. reading' \in Walking => Parsed'
    BY <2>2, <2>3 DEF Parsed, Walking
  <2> QED
    BY <1>1, <2>2, <2>4 DEF HashWay
<1>4. CASE reading \in Walking
  <2>1. Parsed /\ Tokenized
    BY <1>4 DEF HashWay, Tokenized
  <2>2. reading' \in Walking => Parsed'
    BY <1>4, <2>1, StepKept, ParsedKept
  <2>3. ASSUME reading' \in {"offsets", "loaded"} PROVE tf'.info_sha1 = << InfoBytes(torrent) >>
    <3>1. CASE calculate_info_sha1
      <4>1. tf' = [tf EXCEPT !.info_sha1 = Hashed]
        BY <3>1, Zenon DEF calculate_info_sha1
      <4>2. tf'.info_sha1 = Hashed
        BY <1>1, <4>1
      <4> QED
        BY <2>1, <4>2, HashedIs
    <3>2. CASE fill_piece_offsets /\ reading = "offsets"
      <4>1. tf' = tf
        BY <3>2, Zenon DEF fill_piece_offsets
      <4> QED
        BY <3>2, <4>1 DEF HashWay
    <3> QED
      BY <2>3, <3>1, <3>2, OffsetsEntered
  <2> QED
    BY <1>1, <1>2, <2>2, <2>3 DEF HashWay
<1> QED
  BY <1>3, <1>4, ReadingAt

LEMMA SameHash ==
  ASSUME HashWay, UNCHANGED readVars PROVE HashWay'
<1>1. UNCHANGED << torrent, kept, tokens, current_token, reading, tf >>
  BY DEF readVars
<1>2. Parsed => Parsed'
  BY <1>1, ParsedKept
<1>3. InfoBytes(torrent)' = InfoBytes(torrent)
  BY <1>1
<1> QED
  BY <1>1, <1>2, <1>3 DEF HashWay

LEMMA HashInvStep ==
  ASSUME ReadInv, HashInv, [StartupNext]_startupVars PROVE HashInv'
<1>1. torrent' = torrent /\ kept' = kept
  BY TorrentKept
<1>2. InfoEnd' = InfoEnd
  BY <1>1 DEF InfoEnd, InfoBegin
<1> SUFFICES ASSUME Hashable(torrent), InfoEnd <= kept
             PROVE  HashWay' /\ (stage' = "Files" => reading' = "loaded")
  BY <1>1, <1>2 DEF HashInv
<1>3. HashWay /\ (stage = "Files" => reading = "loaded")
  BY DEF HashInv
<1>4. CASE read_torrent /\ ReadNext /\ UNCHANGED stage
  <2>1. stage' # "Files"
    BY <1>4 DEF read_torrent
  <2> QED
    BY <1>3, <1>4, <2>1, HashStep
<1>5. CASE UNCHANGED readVars /\ (stage' = "Files" => stage = "Files" \/ reading = "loaded")
  <2>1. reading' = reading
    BY <1>5 DEF readVars
  <2> QED
    BY <1>3, <1>5, <2>1, SameHash
<1>6. CASE read_torrent /\ ~(ReadNext /\ UNCHANGED stage)
  BY <1>5, <1>6 DEF read_torrent
<1>7. CASE \/ open_files \/ announce_skipped \/ announce_taken \/ no_valid_announce \/ resolve
           \/ write_pieces
  BY <1>5, <1>7 DEF open_files, announce_skipped, announce_taken, no_valid_announce, resolve, write_pieces
<1>8. CASE UNCHANGED startupVars
  BY <1>5, <1>8 DEF startupVars
<1> QED
  BY <1>4, <1>6, <1>7, <1>8 DEF StartupNext

LEMMA HashIsInfo ==
  ASSUME ReadInv, HashInv PROVE Hashable(torrent) => HashOfInfo
<1> SUFFICES ASSUME Hashable(torrent), stage = "Files",
                    kept >= Len(BeforeInfo(torrent) \o InfoDict(torrent))
             PROVE  tf.info_sha1 = << InfoBytes(torrent) >>
  BY DEF HashOfInfo
<1>1. Len(BeforeInfo(torrent) \o InfoDict(torrent)) = InfoEnd
  <2> DEFINE b == BeforeInfo(torrent)
  <2> DEFINE i == InfoDict(torrent)
  <2> DEFINE L == Lexeme
  <2>1. IsSeq(b) /\ i \in Seq(L)
    BY BeforeInfoStands DEF Hashable
  <2> HIDE DEF L, b, i
  <2>2. IsSeq(i)
    BY <2>1, Zenon DEF IsSeq
  <2>3. Len(b \o i) = Len(b) + Len(i)
    BY <2>1, <2>2, Joined
  <2> QED
    BY <2>3 DEF InfoEnd, InfoBegin, b, i
<1>2. InfoEnd <= kept
  BY <1>1
<1> QED
  BY <1>2 DEF HashInv, HashWay

(* The hash that names the torrent to a tracker and to a peer is of the    *)
(* bytes of the value of info, of all and of no others, whatever keys are  *)
(* in info, before it and after it, and wherever behind info the source is *)
(* cut: the loop of calculate_info_sha1 over the tokens finds the end of   *)
(* info, and length_modifier takes nothing of what follows.                *)
THEOREM HashRight == StartupSpec => [](Hashable(torrent) => HashOfInfo)
<1>1. StartupInit => HashInv
  BY DEF StartupInit, ReadInit, HashInv, HashWay, Walking
<1>2. ReadInv /\ HashInv /\ [StartupNext]_startupVars => HashInv'
  BY HashInvStep
<1>3. ReadInv /\ HashInv => (Hashable(torrent) => HashOfInfo)
  BY HashIsInfo
<1> QED
  BY <1>1, <1>2, <1>3, ReadInvariant, PTL DEF StartupSpec
=============================================================================
