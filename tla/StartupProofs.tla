---------------------------- MODULE StartupProofs ----------------------------
(***************************************************************************)
(* Proofs about what main does with a torrent, for torrents of any keys,   *)
(* values and files, cut after any lexeme: the fillers find a token after  *)
(* each key they look at; and if what is loaded is what the torrent says,  *)
(* the tracker is one of its own and what is written are its files.        *)
(***************************************************************************)
EXTENDS Startup, FilesProofs, FiniteSetTheorems, SequenceTheorems

EndTypes == {"LIST_END", "DICT_END"}
-----------------------------------------------------------------------------
(* The parser, one lexeme on.                                              *)
LEMMA ReadsType ==
  ASSUME NEW s \in ParseState, NEW lexeme \in Lexeme, NEW token \in TokenSet,
         NEW open \in Seq({"l", "d"})
  PROVE  LET t == Reads(s, lexeme, token, open)
         IN  /\ t \in ParseState /\ t.open = open
             /\ t.read # << >> /\ t.read[Len(t.read)] = token
<1>1. s.read \in Seq(TokenSet) /\ s.offset \in Nat
  BY DEF ParseState
<1>2. lexeme.size \in Nat
  BY DEF Lexeme
<1> DEFINE T == TokenSet
<1>3. /\ Append(s.read, token) \in Seq(T)
      /\ Len(Append(s.read, token)) = Len(s.read) + 1
      /\ Append(s.read, token)[Len(s.read) + 1] = token
      /\ Append(s.read, token) # << >>
  <2>1. s.read \in Seq(T) /\ token \in T
    BY <1>1
  <2> HIDE DEF T
  <2> QED
    BY <2>1
<1> DEFINE read == Append(s.read, token)
<1> DEFINE t == Reads(s, lexeme, token, open)
<1>4. t = [offset |-> s.offset + lexeme.size, open |-> open, read |-> read, threw |-> FALSE]
  BY DEF Reads
<1>5. read \in Seq(TokenSet) /\ read # << >> /\ read[Len(read)] = token
  BY <1>3
<1>6. s.offset + lexeme.size \in Nat
  BY <1>1, <1>2
<1> HIDE DEF read, t
<1>7. t \in ParseState /\ t.open = open /\ t.read = read
  BY <1>4, <1>5, <1>6 DEF ParseState
<1> QED
  BY <1>5, <1>7 DEF t

LEMMA ValueType ==
  ASSUME NEW lexeme \in Lexeme, lexeme.type \in {"INT", "STR"}, NEW offset \in Nat
  PROVE  Value(lexeme, offset) \in TokenSet
<1>1. lexeme \in [type: {"INT", "STR"}, str: STRING, number: Int, length: Nat, size: Nat]
  BY DEF Lexeme
<1> QED
  BY <1>1 DEF Value, TokenSet

(* What a lexeme does to the structs that are open, and to the last token. *)
Deepened(s, lexeme, t) ==
  \/ t.threw
  \/ /\ ~s.threw /\ lexeme.type \in {"INT", "STR"}
     /\ Len(t.open) = Len(s.open)
  \/ /\ ~s.threw /\ lexeme.type \in {"l", "d"}
     /\ Len(t.open) = Len(s.open) + 1
  \/ /\ ~s.threw /\ lexeme.type = "e"
     /\ Len(t.open) = Len(s.open) - 1
     /\ t.read # << >> /\ t.read[Len(t.read)].type \in EndTypes

LEMMA AfterType ==
  ASSUME NEW s \in ParseState, NEW lexeme \in Lexeme
  PROVE  After(lexeme)[s] \in ParseState /\ Deepened(s, lexeme, After(lexeme)[s])
<1> DEFINE M == {"l", "d"}
<1>1. s.offset \in Nat /\ s.open \in Seq(M) /\ s.threw \in BOOLEAN
  BY DEF ParseState
<1>2. CASE ~s.threw /\ lexeme.type \in {"INT", "STR"}
  <2> DEFINE t == Reads(s, lexeme, Value(lexeme, s.offset), s.open)
  <2>1. After(lexeme)[s] = t
    BY <1>2 DEF After
  <2>2. t \in ParseState /\ t.open = s.open
    BY <1>1, <1>2, ValueType, ReadsType
  <2> HIDE DEF t
  <2> QED
    BY <1>2, <2>1, <2>2 DEF Deepened
<1>3. CASE ~s.threw /\ lexeme.type \in {"l", "d"}
  <2> DEFINE open  == << lexeme.type >> \o s.open
  <2> DEFINE token == Bound(TypeAtStart[lexeme.type], s.offset)
  <2> DEFINE t     == Reads(s, lexeme, token, open)
  <2>1. After(lexeme)[s] = t
    BY <1>3 DEF After
  <2>2. open \in Seq(M) /\ Len(open) = Len(s.open) + 1
    <3>1. << lexeme.type >> \in Seq(M) /\ Len(<< lexeme.type >>) = 1
      BY <1>3
    <3> HIDE DEF M
    <3> QED
      BY <1>1, <3>1, ConcatProperties, LenProperties
  <2>3. token \in TokenSet
    BY <1>1, <1>3 DEF TypeAtStart, Bound, TokenSet
  <2> HIDE DEF open, token
  <2>4. t \in ParseState /\ t.open = open
    BY <2>2, <2>3, ReadsType
  <2> HIDE DEF t
  <2> QED
    BY <1>3, <2>1, <2>2, <2>4 DEF Deepened
<1>4. CASE ~s.threw /\ lexeme.type = "e" /\ s.open # << >>
  <2> DEFINE open  == Tail(s.open)
  <2> DEFINE token == Bound(TypeAtEnd[Head(s.open)], s.offset)
  <2> DEFINE t     == Reads(s, lexeme, token, open)
  <2>1. After(lexeme)[s] = t
    BY <1>4 DEF After
  <2>2. Head(s.open) \in M /\ open \in Seq(M) /\ Len(open) = Len(s.open) - 1
    <3> HIDE DEF M
    <3> QED
      BY <1>1, <1>4, HeadTailProperties
  <2>3. token \in TokenSet /\ token.type \in EndTypes
    BY <1>1, <2>2 DEF TypeAtEnd, Bound, TokenSet, EndTypes
  <2> HIDE DEF open, token
  <2>4. t \in ParseState /\ t.open = open /\ t.read # << >> /\ t.read[Len(t.read)] = token
    BY <2>2, <2>3, ReadsType
  <2> HIDE DEF t
  <2> QED
    BY <1>4, <2>1, <2>2, <2>3, <2>4 DEF Deepened
<1>5. CASE s.threw \/ (/\ lexeme.type \notin {"INT", "STR", "l", "d"}
                       /\ ~(lexeme.type = "e" /\ s.open # << >>))
  <2>1. After(lexeme)[s] = [s EXCEPT !.threw = TRUE]
    BY <1>5 DEF After
  <2>2. [s EXCEPT !.threw = TRUE] \in ParseState /\ [s EXCEPT !.threw = TRUE].threw
    BY DEF ParseState
  <2> QED
    BY <2>1, <2>2 DEF Deepened
<1> QED
  BY <1>1, <1>2, <1>3, <1>4, <1>5
-----------------------------------------------------------------------------
(* A source, lexeme by lexeme.                                             *)
LEMMA Counted ==
  ASSUME NEW S, NEW k \in Nat \ {0}, S \subseteq 1 .. k
  PROVE  LET less == S \cap (1 .. (k - 1))
         IN  /\ Cardinality(less) \in Nat
             /\ Cardinality(S) = IF k \in S THEN Cardinality(less) + 1 ELSE Cardinality(less)
<1> DEFINE less == S \cap (1 .. (k - 1))
<1>1. IsFiniteSet(1 .. k)
  BY FS_Interval
<1>2. less \in SUBSET (1 .. k)
  OBVIOUS
<1>3. IsFiniteSet(less) /\ Cardinality(less) \in Nat
  BY <1>1, <1>2, FS_Subset, FS_CardinalityType
<1>4. k \notin less /\ S = IF k \in S THEN less \union {k} ELSE less
  <2>1. \A i \in 1 .. k : i # k => i \in 1 .. (k - 1)
    OBVIOUS
  <2>2. k \notin less
    OBVIOUS
  <2>3. \A i \in S : i = k \/ i \in less
    BY <2>1
  <2>4. less \subseteq S
    OBVIOUS
  <2> HIDE DEF less
  <2>5. CASE k \in S
    <3>1. S = less \union {k}
      BY <2>3, <2>4, <2>5, Zenon
    <3> QED
      BY <2>2, <2>5, <3>1
  <2>6. CASE k \notin S
    <3>1. S = less
      BY <2>3, <2>4, <2>6, Zenon
    <3> QED
      BY <2>2, <2>6, <3>1
  <2> QED
    BY <2>5, <2>6
<1> HIDE DEF less
<1>5. k \in S => Cardinality(less \union {k}) = Cardinality(less) + 1
  BY <1>3, <1>4, FS_AddElement
<1>6. Cardinality(less) \in Nat /\ Cardinality(S) = IF k \in S THEN Cardinality(less) + 1 ELSE Cardinality(less)
  BY <1>3, <1>4, <1>5
<1> QED
  BY <1>6 DEF less

LEMMA NestingMoves ==
  ASSUME NEW source, NEW k \in Nat \ {0}
  PROVE  /\ Nesting(source, k - 1) \in Int
         /\ Nesting(source, k) = Nesting(source, k - 1)
              + (IF source[k].type \in {"l", "d"} THEN 1
                 ELSE IF source[k].type = "e" THEN -1 ELSE 0)
<1> DEFINE Begun(n) == {i \in 1 .. n : source[i].type \in {"l", "d"}}
<1> DEFINE Ended(n) == {i \in 1 .. n : source[i].type = "e"}
<1>1. /\ Begun(k) \cap (1 .. (k - 1)) = Begun(k - 1) /\ Begun(k) \subseteq 1 .. k
      /\ k \in Begun(k) <=> source[k].type \in {"l", "d"}
  OBVIOUS
<1>2. /\ Ended(k) \cap (1 .. (k - 1)) = Ended(k - 1) /\ Ended(k) \subseteq 1 .. k
      /\ k \in Ended(k) <=> source[k].type = "e"
  OBVIOUS
<1>3. \A n \in {k, k - 1} : Nesting(source, n) = Cardinality(Begun(n)) - Cardinality(Ended(n))
  BY DEF Nesting
<1> HIDE DEF Begun, Ended
<1>4. /\ Cardinality(Begun(k - 1)) \in Nat
      /\ Cardinality(Begun(k)) = IF k \in Begun(k) THEN Cardinality(Begun(k - 1)) + 1
                                 ELSE Cardinality(Begun(k - 1))
  BY <1>1, Counted
<1>5. /\ Cardinality(Ended(k - 1)) \in Nat
      /\ Cardinality(Ended(k)) = IF k \in Ended(k) THEN Cardinality(Ended(k - 1)) + 1
                                 ELSE Cardinality(Ended(k - 1))
  BY <1>2, Counted
<1> QED
  BY <1>1, <1>2, <1>3, <1>4, <1>5

LEMMA ParsingSteps ==
  ASSUME NEW source \in Seq(Lexeme)
  PROVE  /\ Parsing(source)[0] = ParseInit
         /\ \A k \in 0 .. Len(source) : Parsing(source)[k] \in ParseState
         /\ \A k \in 1 .. Len(source) : Parsing(source)[k] = After(source[k])[Parsing(source)[k - 1]]
<1> DEFINE N == Len(source)
<1> DEFINE D == ParseState
<1> DEFINE g == [k \in 1 .. N |-> After(source[k])]
<1> DEFINE p == Parsing(source)
<1>1. N \in Nat /\ \A k \in 1 .. N : source[k] \in Lexeme
  <2> DEFINE L == Lexeme
  <2>1. source \in Seq(L)
    OBVIOUS
  <2> HIDE DEF L
  <2>2. Len(source) \in Nat /\ \A k \in 1 .. Len(source) : source[k] \in L
    BY <2>1
  <2> QED
    BY <2>2 DEF L
<1>2. ParseInit \in D
  <2> DEFINE T == TokenSet
  <2>1. << >> \in Seq(T) /\ << >> \in Seq({"l", "d"})
    OBVIOUS
  <2> QED
    BY <2>1 DEF ParseInit, ParseState
<1>3. g \in [1 .. N -> [D -> D]]
  <2>1. ASSUME NEW k \in 1 .. N PROVE After(source[k]) \in [D -> D]
    <3>1. \A s \in D : After(source[k])[s] \in D
      BY <1>1, AfterType
    <3>2. After(source[k]) = [s \in D |-> After(source[k])[s]]
      BY DEF After
    <3> DEFINE h == After(source[k])
    <3> HIDE DEF D, h
    <3>3. h \in [D -> D]
      BY <3>1, <3>2 DEF h
    <3> QED
      BY <3>3 DEF h
  <2> HIDE DEF D
  <2> QED
    BY <2>1
<1> HIDE DEF D
<1>4. PICK s \in [0 .. N -> D] : Recurs(s, ParseInit, g, N)
  BY <1>1, <1>2, <1>3, Recursion
<1>5. s = [k \in 0 .. N |-> IF k = 0 THEN ParseInit ELSE After(source[k])[s[k - 1]]]
  <2>1. \A k \in 0 .. N : s[k] = IF k = 0 THEN ParseInit ELSE After(source[k])[s[k - 1]]
    BY <1>1, <1>4 DEF Recurs
  <2> QED
    BY <1>4, <2>1
<1>6. p = [k \in 0 .. N |-> IF k = 0 THEN ParseInit ELSE After(source[k])[p[k - 1]]]
  BY <1>5, Zenon DEF Parsing
<1>7. \A k \in 1 .. N : g[k] = After(source[k])
  OBVIOUS
<1> HIDE DEF g, p, N
<1>8. p[0] = ParseInit /\ \A k \in 1 .. N : p[k] = After(source[k])[p[k - 1]]
  BY <1>1, <1>6
<1>9. p = [k \in 0 .. N |-> p[k]]
  BY <1>6
<1>10. Follows(p, ParseInit, g, N, D)
  BY <1>7, <1>8, <1>9, Zenon DEF Follows
<1>11. p \in [0 .. N -> D]
  BY <1>1, <1>2, <1>3, <1>10, RecursionUnique
<1>12. \A k \in 0 .. N : p[k] \in D
  BY <1>11
<1> QED
  BY <1>8, <1>12 DEF p, D, N
-----------------------------------------------------------------------------
(* A source that is cut, and what it is cut from: a dictionary, or one     *)
(* that something follows which is no lexeme.                              *)
CutFrom(source, whole) ==
  /\ source \in Seq(Lexeme) /\ whole \in Seq(Lexeme)
  /\ Len(source) <= Len(whole) + 1
  /\ \A k \in 1 .. Len(source) :
       IF k <= Len(whole) THEN source[k] = whole[k] ELSE source[k].type = "\n"

(* After k lexemes something is open, or the last token is an end, or the  *)
(* parser threw.                                                           *)
Closable(s) == s.open # << >> \/ (s.read # << >> /\ s.read[Len(s.read)].type \in EndTypes)

ParsedTo(whole, k, s) ==
  \/ s.threw
  \/ /\ k <= Len(whole)
     /\ Len(s.open) = Nesting(whole, k)
     /\ k > 0 => Closable(s)

LEMMA ParsedNext ==
  ASSUME NEW whole \in Seq(Lexeme), OneDictionary(whole),
         NEW k \in 1 .. (Len(whole) + 1), NEW lexeme \in Lexeme,
         IF k <= Len(whole) THEN lexeme = whole[k] ELSE lexeme.type = "\n",
         NEW s \in ParseState, ParsedTo(whole, k - 1, s)
  PROVE  ParsedTo(whole, k, After(lexeme)[s])
<1> DEFINE t == After(lexeme)[s]
<1>1. t \in ParseState /\ Deepened(s, lexeme, t)
  BY AfterType
<1>2. s.threw => t.threw
  BY <1>1 DEF Deepened
<1> HIDE DEF t
<1>3. CASE t.threw
  BY <1>3 DEF ParsedTo, t
<1>4. CASE ~t.threw
  <2>1. Len(whole) \in Nat
    OBVIOUS
  <2>2. k <= Len(whole) /\ lexeme = whole[k] /\ k \in Nat \ {0}
    BY <1>1, <1>4, <2>1 DEF Deepened
  <2>3. Len(s.open) = Nesting(whole, k - 1) /\ (k > 1 => Closable(s)) /\ ~s.threw
    BY <1>2, <1>4, <2>2 DEF ParsedTo
  <2>4. Len(t.open) = Nesting(whole, k)
    <3>1. /\ Nesting(whole, k - 1) \in Int
          /\ Nesting(whole, k) = Nesting(whole, k - 1)
               + (IF lexeme.type \in {"l", "d"} THEN 1 ELSE IF lexeme.type = "e" THEN -1 ELSE 0)
      BY <2>2, NestingMoves
    <3>2. \/ lexeme.type \in {"INT", "STR"} /\ Len(t.open) = Len(s.open)
          \/ lexeme.type \in {"l", "d"} /\ Len(t.open) = Len(s.open) + 1
          \/ lexeme.type = "e" /\ Len(t.open) = Len(s.open) - 1
      BY <1>1, <1>4 DEF Deepened
    <3> DEFINE type == lexeme.type
    <3> DEFINE before == Nesting(whole, k - 1)
    <3> DEFINE after == Nesting(whole, k)
    <3> HIDE DEF type, before, after
    <3>3. /\ before \in Int
          /\ after = before + (IF type \in {"l", "d"} THEN 1 ELSE IF type = "e" THEN -1 ELSE 0)
          /\ \/ type \in {"INT", "STR"} /\ Len(t.open) = before
             \/ type \in {"l", "d"} /\ Len(t.open) = before + 1
             \/ type = "e" /\ Len(t.open) = before - 1
      BY <2>3, <3>1, <3>2 DEF type, before, after
    <3>4. Len(t.open) = after
      BY <3>3
    <3> QED
      BY <3>4 DEF after
  <2>5. Closable(t)
    <3> DEFINE M == {"l", "d"}
    <3>1. s.open \in Seq(M) /\ t.open \in Seq(M)
      BY <1>1 DEF ParseState
    <3> HIDE DEF M
    <3>2. Len(s.open) \in Nat /\ (t.open = << >> => Len(t.open) = 0)
      BY <3>1
    <3>3. CASE lexeme.type = "e"
      BY <1>1, <1>4, <3>3 DEF Deepened, Closable
    <3>4. CASE lexeme.type \in {"l", "d"}
      <4>1. Len(t.open) = Len(s.open) + 1
        BY <1>1, <1>4, <3>4 DEF Deepened
      <4> QED
        BY <3>2, <4>1 DEF Closable
    <3>5. CASE lexeme.type \in {"INT", "STR"}
      <4>1. k # 1
        BY <2>2, <3>5 DEF OneDictionary
      <4>2. k - 1 \in 1 .. Len(whole) /\ k - 1 # Len(whole)
        BY <2>1, <2>2, <4>1
      <4>3. Nesting(whole, k - 1) # 0
        BY <4>2 DEF OneDictionary
      <4>4. Len(t.open) = Len(s.open)
        BY <1>1, <1>4, <3>5 DEF Deepened
      <4> QED
        BY <2>3, <3>2, <4>3, <4>4 DEF Closable
    <3> QED
      BY <1>1, <1>4, <3>3, <3>4, <3>5 DEF Deepened
  <2> QED
    BY <2>2, <2>4, <2>5 DEF ParsedTo, t
<1> QED
  BY <1>3, <1>4

LEMMA ParsedAll ==
  ASSUME NEW whole, OneDictionary(whole), NEW source, CutFrom(source, whole)
  PROVE  \A k \in 0 .. Len(source) : ParsedTo(whole, k, Parsing(source)[k])
<1> DEFINE S == {k \in 0 .. Len(source) : ~ParsedTo(whole, k, Parsing(source)[k])}
<1>1. source \in Seq(Lexeme) /\ whole \in Seq(Lexeme)
  BY DEF CutFrom
<1>2. Len(source) \in Nat /\ Len(whole) \in Nat /\ \A k \in 1 .. Len(source) : source[k] \in Lexeme
  <2> DEFINE L == Lexeme
  <2>1. source \in Seq(L) /\ whole \in Seq(L)
    BY <1>1
  <2> HIDE DEF L
  <2>2. Len(source) \in Nat /\ Len(whole) \in Nat /\ \A k \in 1 .. Len(source) : source[k] \in L
    BY <2>1
  <2> QED
    BY <2>2 DEF L
<1> SUFFICES ASSUME S # {} PROVE FALSE
  OBVIOUS
<1>3. PICK k \in S : \A n \in S : k <= n
  <2>1. S \in SUBSET Nat
    BY <1>2
  <2> HIDE DEF S
  <2> QED
    BY <2>1, Least
<1>4. k \in 0 .. Len(source) /\ ~ParsedTo(whole, k, Parsing(source)[k])
  OBVIOUS
<1>5. k # 0
  <2>1. ParsedTo(whole, 0, ParseInit)
    <3>1. Nesting(whole, 0) = 0
      <4>1. \A i \in 1 .. 0 : FALSE
        OBVIOUS
      <4>2. /\ {i \in 1 .. 0 : whole[i].type \in {"l", "d"}} = {}
            /\ {i \in 1 .. 0 : whole[i].type = "e"} = {}
        BY <4>1, Zenon
      <4> QED
        BY <4>2, FS_EmptySet DEF Nesting
    <3> QED
      BY <1>2, <3>1 DEF ParsedTo, ParseInit
  <2> QED
    BY <1>1, <1>4, <2>1, ParsingSteps
<1>6. k \in 1 .. Len(source) /\ k - 1 \in 0 .. Len(source) /\ k - 1 \notin S
  BY <1>2, <1>3, <1>4, <1>5
<1>7. ParsedTo(whole, k - 1, Parsing(source)[k - 1])
  BY <1>6
<1>8. /\ Parsing(source)[k - 1] \in ParseState
      /\ Parsing(source)[k] = After(source[k])[Parsing(source)[k - 1]]
  BY <1>1, <1>6, ParsingSteps
<1>9. /\ k \in 1 .. (Len(whole) + 1) /\ source[k] \in Lexeme
      /\ IF k <= Len(whole) THEN source[k] = whole[k] ELSE source[k].type = "\n"
  BY <1>2, <1>6 DEF CutFrom
<1> HIDE DEF S
<1>10. ParsedTo(whole, k, Parsing(source)[k])
  BY <1>1, <1>7, <1>8, <1>9, ParsedNext
<1> QED
  BY <1>4, <1>10

(* What the parser returns: a token for each lexeme, and an end for each   *)
(* struct that is open.                                                    *)
LEMMA ParsedTokens ==
  ASSUME NEW source \in Seq(Lexeme), parse(source) # << >>
  PROVE  LET s == Parsing(source)[Len(source)]
             read == parse(source)[1]
         IN  /\ s \in ParseState /\ ~s.threw
             /\ Len(s.read) \in Nat /\ Len(s.open) \in Nat
             /\ read \in Seq(TokenSet) /\ Len(read) = Len(s.read) + Len(s.open)
             /\ \A i \in 1 .. Len(s.read) : read[i] = s.read[i]
             /\ \A i \in (Len(s.read) + 1) .. Len(read) : read[i].type \in EndTypes
<1> DEFINE N == Len(source)
<1> DEFINE s == Parsing(source)[N]
<1> DEFINE closing == [i \in DOMAIN s.open |-> Bound(TypeAtEnd[s.open[i]], s.offset + i - 1)]
<1>1. s \in ParseState
  <2> DEFINE L == Lexeme
  <2>1. source \in Seq(L)
    OBVIOUS
  <2> HIDE DEF L
  <2>2. N \in Nat
    BY <2>1
  <2> QED
    BY <2>2, ParsingSteps
<1>2. ~s.threw /\ parse(source)[1] = s.read \o closing
  BY DEF parse
<1> HIDE DEF s, N
<1>3. s.read \in Seq(TokenSet) /\ s.open \in Seq({"l", "d"}) /\ s.offset \in Nat
  BY <1>1 DEF ParseState
<1>4. DOMAIN s.open = 1 .. Len(s.open) /\ Len(s.open) \in Nat /\ \A i \in 1 .. Len(s.open) : s.open[i] \in {"l", "d"}
  <2> DEFINE M == {"l", "d"}
  <2>1. s.open \in Seq(M)
    BY <1>3
  <2> HIDE DEF M
  <2>2. DOMAIN s.open = 1 .. Len(s.open) /\ Len(s.open) \in Nat /\ \A i \in 1 .. Len(s.open) : s.open[i] \in M
    BY <2>1
  <2> QED
    BY <2>2 DEF M
<1>5. ASSUME NEW i \in 1 .. Len(s.open)
      PROVE  LET b == Bound(TypeAtEnd[s.open[i]], s.offset + i - 1)
             IN  b \in TokenSet /\ b.type \in EndTypes
  <2>1. s.open[i] \in {"l", "d"} /\ s.offset + i - 1 \in Int
    BY <1>3, <1>4
  <2> QED
    BY <2>1 DEF TypeAtEnd, Bound, TokenSet, EndTypes
<1>6. /\ closing \in Seq(TokenSet) /\ Len(closing) = Len(s.open)
      /\ \A i \in 1 .. Len(s.open) : closing[i].type \in EndTypes
  <2>1. closing \in [1 .. Len(s.open) -> TokenSet]
    BY <1>4, <1>5
  <2>2. \A i \in 1 .. Len(s.open) : closing[i].type \in EndTypes
    BY <1>4, <1>5
  <2> DEFINE T == TokenSet
  <2> HIDE DEF T, closing
  <2>3. closing \in [1 .. Len(s.open) -> T]
    BY <2>1 DEF T
  <2>4. closing \in Seq(T) /\ Len(closing) = Len(s.open)
    BY <1>4, <2>3
  <2> QED
    BY <2>2, <2>4 DEF T
<1> DEFINE read == s.read \o closing
<1> HIDE DEF closing
<1>7. /\ read \in Seq(TokenSet) /\ Len(read) = Len(s.read) + Len(closing)
      /\ Len(s.read) \in Nat /\ Len(closing) \in Nat
      /\ \A i \in 1 .. (Len(s.read) + Len(closing)) :
           read[i] = IF i <= Len(s.read) THEN s.read[i] ELSE closing[i - Len(s.read)]
  BY <1>3, <1>6, ConcatProperties, LenProperties
<1> HIDE DEF read
<1>8. \A i \in 1 .. Len(s.read) : read[i] = s.read[i]
  BY <1>7
<1>9. ASSUME NEW i \in (Len(s.read) + 1) .. Len(read) PROVE read[i].type \in EndTypes
  <2>1. i \in 1 .. (Len(s.read) + Len(closing)) /\ ~(i <= Len(s.read)) /\ i - Len(s.read) \in 1 .. Len(s.open)
    <3> DEFINE m == Len(s.read)
    <3> DEFINE n == Len(closing)
    <3>1. m \in Nat /\ n \in Nat /\ i \in (m + 1) .. (m + n) /\ n = Len(s.open)
      BY <1>6, <1>7
    <3> HIDE DEF m, n
    <3>2. i \in 1 .. (m + n) /\ ~(i <= m) /\ i - m \in 1 .. n
      BY <3>1
    <3> QED
      BY <3>1, <3>2 DEF m, n
  <2>2. read[i] = closing[i - Len(s.read)]
    BY <1>7, <2>1
  <2> QED
    BY <1>6, <2>1, <2>2
<1> QED
  BY <1>1, <1>2, <1>4, <1>6, <1>7, <1>8, <1>9 DEF s, N, read

(* The last of these tokens is an end.                                     *)
EndsClosed(read) == read # << >> => Len(read) \in Nat /\ read[Len(read)].type \in EndTypes

LEMMA ParseEnds ==
  ASSUME NEW whole, OneDictionary(whole), NEW source, CutFrom(source, whole),
         parse(source) # << >>
  PROVE  EndsClosed(parse(source)[1])
<1> DEFINE N == Len(source)
<1> DEFINE s == Parsing(source)[N]
<1> DEFINE read == parse(source)[1]
<1>1. source \in Seq(Lexeme)
  BY DEF CutFrom
<1>2. N \in Nat
  <2> DEFINE L == Lexeme
  <2>1. source \in Seq(L)
    BY <1>1
  <2> HIDE DEF L
  <2> QED
    BY <2>1
<1>3. s \in ParseState /\ ParsedTo(whole, N, s)
  BY <1>1, <1>2, ParsingSteps, ParsedAll
<1>4. /\ ~s.threw /\ Len(s.read) \in Nat /\ Len(s.open) \in Nat
      /\ read \in Seq(TokenSet) /\ Len(read) = Len(s.read) + Len(s.open)
      /\ \A i \in 1 .. Len(s.read) : read[i] = s.read[i]
      /\ \A i \in (Len(s.read) + 1) .. Len(read) : read[i].type \in EndTypes
  BY <1>1, ParsedTokens
<1>5. N = 0 => s = ParseInit
  BY <1>1, <1>2, ParsingSteps
<1> HIDE DEF s, N, read
<1>6. s.read \in Seq(TokenSet) /\ s.open \in Seq({"l", "d"})
  BY <1>3 DEF ParseState
<1>7. s.open = << >> <=> Len(s.open) = 0
  <2> DEFINE M == {"l", "d"}
  <2>1. s.open \in Seq(M)
    BY <1>6
  <2> HIDE DEF M
  <2> QED
    BY <2>1, EmptySeq
<1>8. s.read # << >> => Len(s.read) # 0
  BY <1>6, EmptySeq
<1>9. read # << >> => Len(read) # 0
  BY <1>4, EmptySeq
<1>10. CASE s.open # << >>
  <2> DEFINE m == Len(s.read)
  <2> DEFINE n == Len(s.open)
  <2> DEFINE l == Len(read)
  <2>1. m \in Nat /\ n \in Nat /\ l = m + n /\ n # 0
    BY <1>4, <1>7, <1>10
  <2>2. \A i \in (m + 1) .. l : read[i].type \in EndTypes
    BY <1>4
  <2> HIDE DEF m, n, l
  <2>3. l \in (m + 1) .. l /\ l \in Nat
    BY <2>1
  <2>4. read[l].type \in EndTypes /\ l \in Nat
    BY <2>2, <2>3
  <2> QED
    BY <2>4 DEF EndsClosed, read, l
<1>11. CASE s.open = << >>
  <2>1. Len(read) = Len(s.read)
    BY <1>4, <1>7, <1>11
  <2>2. CASE N = 0
    <3>1. s.read = << >>
      BY <1>5, <2>2 DEF ParseInit
    <3>2. Len(read) = 0
      BY <2>1, <3>1
    <3> QED
      BY <1>9, <3>2 DEF EndsClosed, read
  <2>3. CASE N # 0
    <3>1. s.read # << >> /\ s.read[Len(s.read)].type \in EndTypes
      BY <1>2, <1>3, <1>4, <1>11, <2>3 DEF ParsedTo, Closable
    <3> DEFINE m == Len(s.read)
    <3>2. m \in Nat /\ m # 0 /\ Len(read) = m
      BY <1>4, <1>8, <2>1, <3>1
    <3>3. \A i \in 1 .. m : read[i] = s.read[i]
      BY <1>4
    <3>4. s.read[m].type \in EndTypes
      BY <3>1
    <3> HIDE DEF m
    <3>5. m \in 1 .. m
      BY <3>2
    <3>6. read[Len(read)].type \in EndTypes /\ Len(read) \in Nat
      BY <3>2, <3>3, <3>4, <3>5
    <3> QED
      BY <3>6 DEF EndsClosed, read
  <2> QED
    BY <2>2, <2>3
<1> QED
  BY <1>10, <1>11
-----------------------------------------------------------------------------
(* The reading: where it is in the tokens, and how they end.               *)
ReadInv ==
  /\ \E s \in Sources : torrent = s[1] /\ kept = s[2]
  /\ current_token \in Nat
  /\ EndsClosed(tokens)

LEMMA SourceCut ==
  ASSUME ReadInv
  PROVE  OneDictionary(Encode(torrent)) /\ CutFrom(Source, Encode(torrent))
<1> DEFINE whole == Encode(torrent)
<1> DEFINE mark == Mark("\n")
<1>1. whole \in Seq(Lexeme) /\ OneDictionary(whole) /\ kept \in 0 .. (Len(whole) + 1)
  BY SourcesAssumption DEF ReadInv
<1>2. mark \in Lexeme /\ mark.type = "\n"
  BY DEF Mark, Lexeme
<1> DEFINE L == Lexeme
<1> DEFINE longer == Append(whole, mark)
<1> HIDE DEF whole, mark, L
<1>3. whole \in Seq(L) /\ mark \in L
  BY <1>1, <1>2 DEF L
<1>4. /\ Len(whole) \in Nat
      /\ longer \in Seq(L) /\ Len(longer) = Len(whole) + 1
      /\ \A k \in 1 .. (Len(whole) + 1) : longer[k] = IF k <= Len(whole) THEN whole[k] ELSE mark
      /\ \A k \in 1 .. (Len(whole) + 1) : longer[k] \in L
  BY <1>3
<1> HIDE DEF longer
<1>5. /\ SubSeq(longer, 1, kept) \in Seq(L) /\ Len(SubSeq(longer, 1, kept)) = kept
      /\ \A k \in 1 .. kept : SubSeq(longer, 1, kept)[k] = longer[k]
  <2>1. kept \in Int /\ \A k \in 1 .. kept : longer[k] \in L
    BY <1>1, <1>4
  <2>2. /\ SubSeq(longer, 1, kept) \in Seq(L)
        /\ Len(SubSeq(longer, 1, kept)) = IF 1 <= kept THEN kept - 1 + 1 ELSE 0
        /\ \A k \in 1 .. (kept - 1 + 1) : SubSeq(longer, 1, kept)[k] = longer[1 + k - 1]
    BY <2>1, SubSeqProperties
  <2>3. \A k \in 1 .. kept : 1 + k - 1 = k
    BY <2>1
  <2> QED
    BY <1>1, <1>4, <2>1, <2>2, <2>3
<1>6. Source = SubSeq(longer, 1, kept)
  BY DEF Source, longer, whole, mark
<1>7. CutFrom(Source, whole)
  <2>1. \A k \in 1 .. kept : k \in 1 .. (Len(whole) + 1)
    BY <1>1, <1>4
  <2>2. \A k \in 1 .. kept : Source[k] = IF k <= Len(whole) THEN whole[k] ELSE mark
    BY <1>4, <1>5, <1>6, <2>1
  <2>3. Len(Source) = kept /\ Source \in Seq(Lexeme) /\ kept <= Len(whole) + 1
    BY <1>1, <1>4, <1>5, <1>6 DEF L
  <2> QED
    BY <1>1, <1>2, <2>2, <2>3 DEF CutFrom
<1> QED
  BY <1>1, <1>7 DEF whole

LEMMA SizeType == ASSUME ReadInv PROVE TOKENS_SIZE \in Nat
<1>1. tokens = << >> => Len(tokens) = 0
  OBVIOUS
<1> QED
  BY <1>1 DEF ReadInv, EndsClosed, TOKENS_SIZE

(* A string is never the last token.                                       *)
LEMMA StringFollowed ==
  ASSUME ReadInv, NEW i \in Nat, i < TOKENS_SIZE, Type(i) = "STR"
  PROVE  i + 1 < TOKENS_SIZE
<1>1. TOKENS_SIZE \in Nat
  BY SizeType
<1>2. tokens # << >>
  <2>1. tokens = << >> => Len(tokens) = 0
    OBVIOUS
  <2> QED
    BY <1>1, <2>1 DEF TOKENS_SIZE
<1>3. tokens[TOKENS_SIZE].type \in EndTypes
  BY <1>2 DEF ReadInv, EndsClosed, TOKENS_SIZE
<1>4. i + 1 # TOKENS_SIZE
  BY <1>3 DEF Type, Token, EndTypes
<1> QED
  BY <1>1, <1>4

LEMMA ReadInBounds == ASSUME ReadInv PROVE InBounds
<1>1. TOKENS_SIZE \in Nat /\ current_token \in Nat
  BY SizeType DEF ReadInv
<1>2. AtType("STR") => current_token + 1 < TOKENS_SIZE
  BY <1>1, StringFollowed DEF AtType
<1>3. AtKey # "" => AtType("STR")
  BY DEF AtKey
<1>4. \A i \in 0 .. (TOKENS_SIZE - 1) : Type(i) = "STR" => i + 1 < TOKENS_SIZE
  <2> SUFFICES ASSUME NEW i \in 0 .. (TOKENS_SIZE - 1), Type(i) = "STR" PROVE i + 1 < TOKENS_SIZE
    OBVIOUS
  <2>1. i \in Nat /\ i < TOKENS_SIZE
    BY <1>1
  <2> QED
    BY <2>1, StringFollowed
<1> QED
  BY <1>2, <1>3, <1>4 DEF InBounds

(* A list leaves the reader at a token, or at their end.                   *)
LEMMA ListEnds ==
  ASSUME ReadInv, NEW i \in Nat, i < TOKENS_SIZE
  PROVE  read_lists(i).next \in Nat
<1>1. TOKENS_SIZE \in Nat /\ TOKENS_SIZE \in (i + 1) .. TOKENS_SIZE
  BY SizeType
<1>2. ASSUME NEW stops, stops \subseteq (i + 1) .. TOKENS_SIZE, TOKENS_SIZE \in stops
      PROVE  Min(stops) \in Nat
  <2>1. stops \in SUBSET Nat /\ stops # {}
    BY <1>1, <1>2
  <2>2. \E x \in stops : \A y \in stops : x <= y
    BY <2>1, Least
  <2>3. Min(stops) \in stops
    BY <2>2, Zenon DEF Min
  <2> QED
    BY <2>1, <2>3
<1> DEFINE stops == {j \in (i + 1) .. TOKENS_SIZE :
                       \/ j = TOKENS_SIZE
                       \/ ListRead(i)[j].depth = 0
                       \/ Type(j) \in {"DICT_START", "DICT_END"}}
<1>3. stops \subseteq (i + 1) .. TOKENS_SIZE /\ TOKENS_SIZE \in stops
  BY <1>1
<1>4. read_lists(i).next = Min(stops)
  BY DEF read_lists
<1> HIDE DEF stops
<1> QED
  BY <1>2, <1>3, <1>4

LEMMA ReadUnchanged ==
  ASSUME ReadInv, UNCHANGED readVars
  PROVE  ReadInv'
BY DEF ReadInv, readVars, EndsClosed

(* A step that stays in the tokens.                                        *)
LEMMA ReadMoved ==
  ASSUME ReadInv, UNCHANGED << torrent, kept, tokens >>, current_token' \in Nat
  PROVE  ReadInv'
BY DEF ReadInv, EndsClosed

LEMMA ReadParsed == ASSUME ReadInv, parse_tokens PROVE ReadInv'
<1>1. /\ UNCHANGED << torrent, kept, current_token >>
      /\ tokens' = IF parse(Source) = << >> THEN << >> ELSE parse(Source)[1]
  BY Zenon DEF parse_tokens
<1>2. EndsClosed(tokens')
  <2>1. CASE parse(Source) = << >>
    BY <1>1, <2>1 DEF EndsClosed
  <2>2. CASE parse(Source) # << >>
    <3>1. EndsClosed(parse(Source)[1])
      BY <2>2, SourceCut, ParseEnds
    <3> QED
      BY <1>1, <2>2, <3>1
  <2> QED
    BY <2>1, <2>2
<1> QED
  BY <1>1, <1>2 DEF ReadInv, EndsClosed

LEMMA ReadStep == ASSUME ReadInv, ReadNext PROVE ReadInv'
<1>1. current_token \in Nat /\ TOKENS_SIZE \in Nat
  BY SizeType DEF ReadInv
<1>2. CASE parse_tokens
  BY <1>2, ReadParsed
<1>3. CASE skip_token
  <2>1. UNCHANGED << torrent, kept, tokens >> /\ current_token' = current_token + 1
    BY <1>3, Zenon DEF skip_token
  <2> QED
    BY <1>1, <2>1, ReadMoved
<1>4. CASE fill_str
  <2>1. UNCHANGED << torrent, kept, tokens >> /\ current_token' = current_token + 2
    BY <1>4, Zenon DEF fill_str
  <2> QED
    BY <1>1, <2>1, ReadMoved
<1>5. CASE fill_creation_date
  <2>1. UNCHANGED << torrent, kept, tokens >> /\ current_token' = current_token + 2
    BY <1>5, Zenon DEF fill_creation_date
  <2> QED
    BY <1>1, <2>1, ReadMoved
<1>6. CASE fill_announce_list
  <2>1. AtType("STR")
    BY <1>6 DEF fill_announce_list, AtKey
  <2>2. current_token + 1 \in Nat /\ current_token + 1 < TOKENS_SIZE
    BY <1>1, <2>1, StringFollowed DEF AtType
  <2>3. read_lists(current_token + 1).next \in Nat
    BY <2>2, ListEnds
  <2>4. UNCHANGED << torrent, kept, tokens >> /\ current_token' = read_lists(current_token + 1).next
    BY <1>6, Zenon DEF fill_announce_list
  <2> QED
    BY <2>3, <2>4, ReadMoved
<1>7. CASE process_ends
  BY <1>1, <1>7, ReadMoved DEF process_ends
<1>8. CASE fill_info
  BY <1>1, <1>8, ReadMoved DEF fill_info
<1>9. CASE info_value
  <2>1. UNCHANGED << torrent, kept, tokens >> /\ current_token' = current_token + 2
    BY <1>9, Zenon DEF info_value
  <2> QED
    BY <1>1, <2>1, ReadMoved
<1>10. CASE fill_pieces
  <2>1. UNCHANGED << torrent, kept, tokens >> /\ current_token' \in {current_token, current_token + 3}
    BY <1>10 DEF fill_pieces
  <2> QED
    BY <1>1, <2>1, ReadMoved
<1>11. CASE fill_files
  <2>1. UNCHANGED << torrent, kept, tokens >> /\ current_token' = current_token + 2
    BY <1>11, Zenon DEF fill_files
  <2> QED
    BY <1>1, <2>1, ReadMoved
<1>12. CASE info_ends
  <2>1. /\ UNCHANGED << torrent, kept, tokens >>
        /\ current_token' = IF AtType("DICT_END") THEN current_token + 1 ELSE TOKENS_SIZE
    BY <1>12, Zenon DEF info_ends
  <2> QED
    BY <1>1, <2>1, ReadMoved
<1>13. CASE file_begins
  <2>1. UNCHANGED << torrent, kept, tokens >> /\ current_token' = current_token + 1
    BY <1>13, Zenon DEF file_begins
  <2> QED
    BY <1>1, <2>1, ReadMoved
<1>14. CASE file_value
  <2>1. AtType("STR")
    BY <1>14 DEF file_value
  <2>2. current_token + 1 \in Nat /\ current_token + 1 < TOKENS_SIZE
    BY <1>1, <2>1, StringFollowed DEF AtType
  <2>3. read_lists(current_token + 1).next \in Nat
    BY <2>2, ListEnds
  <2>4. /\ UNCHANGED << torrent, kept, tokens >>
        /\ \/ current_token' = read_lists(current_token + 1).next + 1
           \/ current_token' = current_token + 2
    BY <1>14, Zenon DEF file_value
  <2> QED
    BY <1>1, <2>3, <2>4, ReadMoved
<1>15. CASE file_ends
  BY <1>1, <1>15, ReadMoved DEF file_ends
<1>16. CASE files_end
  BY <1>1, <1>16, ReadMoved DEF files_end
<1>17. CASE calculate_info_sha1
  <2>1. UNCHANGED << torrent, kept, tokens, current_token >>
    BY <1>17, Zenon DEF calculate_info_sha1
  <2> QED
    BY <1>1, <2>1, ReadMoved
<1>18. CASE fill_piece_offsets
  BY <1>18 DEF fill_piece_offsets, ReadInv, EndsClosed
<1> QED
  BY <1>2, <1>3, <1>4, <1>5, <1>6, <1>7, <1>8, <1>9, <1>10, <1>11, <1>12, <1>13, <1>14,
     <1>15, <1>16, <1>17, <1>18 DEF ReadNext

LEMMA ReadMain == ASSUME ReadInv, [StartupNext]_startupVars PROVE ReadInv'
<1>1. CASE ReadNext
  BY <1>1, ReadStep
<1>2. CASE UNCHANGED readVars
  BY <1>2, ReadUnchanged
<1>3. ReadNext \/ UNCHANGED readVars
  BY DEF StartupNext, startupVars, read_torrent, open_files, announce_skipped, announce_taken,
     no_valid_announce, resolve, write_pieces
<1> QED
  BY <1>1, <1>2, <1>3

LEMMA ReadInvariant == StartupSpec => []ReadInv
<1>1. StartupInit => ReadInv
  <2> SUFFICES ASSUME StartupInit PROVE ReadInv
    OBVIOUS
  <2>1. (\E s \in Sources : torrent = s[1] /\ kept = s[2]) /\ tokens = << >> /\ current_token = 0
    BY Zenon DEF StartupInit, ReadInit
  <2> QED
    BY <2>1 DEF ReadInv, EndsClosed
<1>2. ReadInv /\ [StartupNext]_startupVars => ReadInv'
  BY ReadMain
<1> QED
  BY <1>1, <1>2, PTL DEF StartupSpec

(* Wherever the source of a torrent is cut, and whatever keys it has, the  *)
(* fillers and the hash find a token after each key they look at.          *)
THEOREM NeverOutside == StartupSpec => []InBounds
<1>1. ReadInv => InBounds
  BY ReadInBounds
<1> QED
  BY <1>1, ReadInvariant, PTL
-----------------------------------------------------------------------------
(* A sequence of sequences made flat has the elements of them all.         *)
LEMMA ConcatSet ==
  ASSUME NEW S, NEW a \in Seq(S), NEW b \in Seq(S)
  PROVE  a \o b \in Seq(S) /\ ToSet(a \o b) = ToSet(a) \union ToSet(b)
<1> DEFINE c == a \o b
<1>1. /\ c \in Seq(S) /\ Len(c) = Len(a) + Len(b)
      /\ Len(a) \in Nat /\ Len(b) \in Nat
      /\ DOMAIN a = 1 .. Len(a) /\ DOMAIN b = 1 .. Len(b) /\ DOMAIN c = 1 .. Len(c)
      /\ \A i \in 1 .. (Len(a) + Len(b)) : c[i] = IF i <= Len(a) THEN a[i] ELSE b[i - Len(a)]
  BY ConcatProperties, LenProperties
<1> HIDE DEF c
<1>2. ASSUME NEW i \in DOMAIN c PROVE c[i] \in ToSet(a) \union ToSet(b)
  <2>1. CASE i <= Len(a)
    BY <1>1, <2>1 DEF ToSet
  <2>2. CASE ~(i <= Len(a))
    <3>1. i - Len(a) \in DOMAIN b /\ c[i] = b[i - Len(a)]
      BY <1>1, <2>2
    <3> QED
      BY <3>1 DEF ToSet
  <2> QED
    BY <2>1, <2>2
<1>3. ASSUME NEW i \in DOMAIN a PROVE a[i] \in ToSet(c)
  <2>1. i \in DOMAIN c /\ c[i] = a[i]
    BY <1>1
  <2> QED
    BY <2>1 DEF ToSet
<1>4. ASSUME NEW i \in DOMAIN b PROVE b[i] \in ToSet(c)
  <2>1. Len(a) + i \in DOMAIN c /\ c[Len(a) + i] = b[i]
    BY <1>1
  <2> QED
    BY <2>1 DEF ToSet
<1>5. ToSet(c) = ToSet(a) \union ToSet(b)
  BY <1>2, <1>3, <1>4 DEF ToSet
<1> QED
  BY <1>1, <1>5 DEF c

(* It is reached by appending one of them after the other.                 *)
Flattens(f, ss) ==
  /\ f[0] = << >> /\ f[Len(ss)] = FlattenSeq(ss)
  /\ \A i \in 1 .. Len(ss) : f[i] = f[i - 1] \o ss[i]

LEMMA Flattening ==
  ASSUME NEW S, NEW ss \in Seq(Seq(S))
  PROVE  \E f \in [0 .. Len(ss) -> Seq(S)] : Flattens(f, ss)
<1> DEFINE D == Seq(S)
<1> DEFINE N == Len(ss)
<1>1. N \in Nat /\ DOMAIN ss = 1 .. N /\ \A i \in 1 .. N : ss[i] \in D
  <2>1. ss \in Seq(D)
    OBVIOUS
  <2> HIDE DEF D
  <2> QED
    BY <2>1
<1>2. << >> \in D /\ \A x \in D : << >> \o x = x
  BY ConcatEmptySeq
<1>3. \A x, y \in D : x \o y \in D
  BY ConcatProperties
<1> HIDE DEF D
<1> DEFINE g == [k \in 1 .. N |-> [x \in D |-> x \o ss[k]]]
<1>4. g \in [1 .. N -> [D -> D]]
  BY <1>1, <1>3
<1>5. PICK f \in [0 .. N -> D] : Recurs(f, << >>, g, N)
  <2> HIDE DEF g, N
  <2> QED
    BY <1>1, <1>2, <1>4, Recursion
<1>6. f[0] = << >> /\ \A i \in 1 .. N : f[i] = f[i - 1] \o ss[i]
  <2>1. f[0] = << >> /\ \A i \in 1 .. N : f[i] = g[i][f[i - 1]]
    BY <1>5, Zenon DEF Recurs
  <2>2. \A i \in 1 .. N : f[i - 1] \in D
    <3>1. \A i \in 1 .. N : i - 1 \in 0 .. N
      BY <1>1
    <3>2. f \in [0 .. N -> D]
      OBVIOUS
    <3> HIDE DEF N
    <3> QED
      BY <3>1, <3>2
  <2>3. \A i \in 1 .. N : \A x \in D : g[i][x] = x \o ss[i]
    OBVIOUS
  <2> QED
    BY <2>1, <2>2, <2>3
<1>7. CASE N = 0
  <2>1. FlattenSeq(ss) = ss /\ ss = << >>
    BY <1>1, <1>7 DEF FlattenSeq
  <2> QED
    BY <1>5, <1>6, <1>7, <2>1 DEF Flattens, D
<1>8. CASE N # 0
  <2> DEFINE s == [i \in 1 .. N |-> f[i]]
  <2>1. \A i \in 1 .. N : s[i] = IF i = 1 THEN ss[i] ELSE s[i - 1] \o ss[i]
    <3> SUFFICES ASSUME NEW i \in 1 .. N PROVE s[i] = IF i = 1 THEN ss[i] ELSE s[i - 1] \o ss[i]
      OBVIOUS
    <3>1. CASE i = 1
      BY <1>1, <1>2, <1>6, <3>1
    <3>2. CASE i # 1
      BY <1>1, <1>6, <3>2
    <3> QED
      BY <3>1, <3>2
  <2>2. s = [i \in 1 .. N |-> IF i = 1 THEN ss[i] ELSE s[i - 1] \o ss[i]]
    BY <2>1
  <2>3. s[N] = f[N]
    BY <1>1, <1>8
  <2> HIDE DEF s
  <2> DEFINE t == CHOOSE u : u = [i \in 1 .. N |-> IF i = 1 THEN ss[i] ELSE u[i - 1] \o ss[i]]
  <2>4. FlattenSeq(ss) = t[N]
    BY <1>8, Zenon DEF FlattenSeq
  <2>5. t = [i \in 1 .. N |-> IF i = 1 THEN ss[i] ELSE t[i - 1] \o ss[i]]
    BY <2>2, Zenon
  <2> HIDE DEF t
  <2>6. \A i \in 1 .. N : t[i] = IF i = 1 THEN ss[i] ELSE t[i - 1] \o ss[i]
    BY <2>5
  <2> DEFINE B == {i \in 1 .. N : t[i] # f[i]}
  <2>7. B = {}
    <3> SUFFICES ASSUME B # {} PROVE FALSE
      OBVIOUS
    <3>1. PICK i \in B : \A n \in B : i <= n
      <4>1. B \in SUBSET Nat
        BY <1>1
      <4> HIDE DEF B
      <4> QED
        BY <4>1, Least
    <3>2. i \in 1 .. N /\ t[i] # f[i]
      OBVIOUS
    <3>3. CASE i = 1
      <4>1. t[i] = ss[i] /\ ss[i] \in D
        BY <1>1, <2>6, <3>2, <3>3
      <4>2. f[i] = f[i - 1] \o ss[i]
        BY <1>6, <3>2
      <4>3. i - 1 = 0
        BY <3>3
      <4>4. f[i] = << >> \o ss[i]
        BY <1>6, <4>2, <4>3
      <4> QED
        BY <1>2, <3>2, <4>1, <4>4
    <3>4. CASE i # 1
      <4>1. i - 1 \in 1 .. N /\ ~(i <= i - 1)
        BY <1>1, <3>2, <3>4
      <4>2. t[i - 1] = f[i - 1]
        BY <3>1, <4>1
      <4> QED
        BY <1>6, <2>6, <3>2, <3>4, <4>2
    <3> QED
      BY <3>3, <3>4
  <2>8. f[N] = FlattenSeq(ss)
    BY <1>1, <1>8, <2>4, <2>7
  <2> QED
    BY <1>5, <1>6, <2>8 DEF Flattens, D
<1> QED
  BY <1>7, <1>8

LEMMA FlattenedSet ==
  ASSUME NEW S, NEW ss \in Seq(Seq(S))
  PROVE  /\ FlattenSeq(ss) \in Seq(S)
         /\ ToSet(FlattenSeq(ss)) = UNION {ToSet(ss[i]) : i \in DOMAIN ss}
<1> DEFINE D == Seq(S)
<1> DEFINE N == Len(ss)
<1>1. N \in Nat /\ DOMAIN ss = 1 .. N /\ \A i \in 1 .. N : ss[i] \in D
  <2>1. ss \in Seq(D)
    OBVIOUS
  <2> HIDE DEF D
  <2> QED
    BY <2>1
<1>2. PICK f \in [0 .. N -> D] : Flattens(f, ss)
  BY Flattening
<1>3. f[0] = << >> /\ f[N] = FlattenSeq(ss) /\ \A i \in 1 .. N : f[i] = f[i - 1] \o ss[i]
  BY <1>2 DEF Flattens
<1> HIDE DEF D
<1> DEFINE All(i) == UNION {ToSet(ss[j]) : j \in 1 .. i}
<1> DEFINE B == {i \in 0 .. N : ToSet(f[i]) # All(i)}
<1>4. B = {}
  <2> SUFFICES ASSUME B # {} PROVE FALSE
    OBVIOUS
  <2>1. PICK i \in B : \A n \in B : i <= n
    <3>1. B \in SUBSET Nat
      BY <1>1
    <3> HIDE DEF B
    <3> QED
      BY <3>1, Least
  <2>2. i \in 0 .. N /\ ToSet(f[i]) # All(i)
    OBVIOUS
  <2>3. CASE i = 0
    <3>1. \A j \in 1 .. i : FALSE
      BY <2>3
    <3>2. All(i) = {}
      BY <3>1, Zenon
    <3>3. ToSet(f[i]) = {}
      BY <1>3, <2>3 DEF ToSet
    <3> QED
      BY <2>2, <3>2, <3>3
  <2>4. CASE i # 0
    <3>1. i - 1 \in 0 .. N /\ i \in 1 .. N /\ ~(i <= i - 1)
      BY <1>1, <2>2, <2>4
    <3>2. ToSet(f[i - 1]) = All(i - 1)
      BY <2>1, <3>1
    <3>3. f[i] = f[i - 1] \o ss[i] /\ f[i - 1] \in D /\ ss[i] \in D
      BY <1>1, <1>2, <1>3, <3>1
    <3>4. ToSet(f[i]) = All(i - 1) \union ToSet(ss[i])
      <4> DEFINE a == f[i - 1]
      <4> DEFINE b == ss[i]
      <4>1. f[i] = a \o b /\ a \in Seq(S) /\ b \in Seq(S)
        BY <3>3 DEF D
      <4> HIDE DEF a, b, All, B
      <4>2. ToSet(a \o b) = ToSet(a) \union ToSet(b)
        BY <4>1, ConcatSet
      <4> QED
        BY <3>2, <4>1, <4>2 DEF a, b
    <3>5. \A j : j \in 1 .. i <=> j \in 1 .. (i - 1) \/ j = i
      BY <3>1
    <3>6. All(i) = All(i - 1) \union ToSet(ss[i])
      BY <3>5, Zenon
    <3> QED
      BY <2>2, <3>4, <3>6
  <2> QED
    BY <2>3, <2>4
<1>5. N \in 0 .. N
  BY <1>1
<1>6. f[N] \in D /\ ToSet(f[N]) = All(N)
  BY <1>2, <1>4, <1>5
<1> QED
  BY <1>1, <1>3, <1>6 DEF D

-----------------------------------------------------------------------------
(* The torrent, and what is kept of it, stay what they are.                *)
LEMMA SourceKept == ASSUME ReadNext PROVE torrent' = torrent /\ kept' = kept
<1>1. parse_tokens => torrent' = torrent /\ kept' = kept
  BY Zenon DEF parse_tokens
<1>2. skip_token => torrent' = torrent /\ kept' = kept
  BY Zenon DEF skip_token
<1>3. fill_str => torrent' = torrent /\ kept' = kept
  BY Zenon DEF fill_str
<1>4. fill_creation_date => torrent' = torrent /\ kept' = kept
  BY Zenon DEF fill_creation_date
<1>5. fill_announce_list => torrent' = torrent /\ kept' = kept
  BY Zenon DEF fill_announce_list
<1>6. process_ends => torrent' = torrent /\ kept' = kept
  BY Zenon DEF process_ends
<1>7. fill_info => torrent' = torrent /\ kept' = kept
  BY Zenon DEF fill_info
<1>8. info_value => torrent' = torrent /\ kept' = kept
  BY Zenon DEF info_value
<1>9. fill_pieces => torrent' = torrent /\ kept' = kept
  BY Zenon DEF fill_pieces
<1>10. fill_files => torrent' = torrent /\ kept' = kept
  BY Zenon DEF fill_files
<1>11. info_ends => torrent' = torrent /\ kept' = kept
  BY Zenon DEF info_ends
<1>12. file_begins => torrent' = torrent /\ kept' = kept
  BY Zenon DEF file_begins
<1>13. file_value => torrent' = torrent /\ kept' = kept
  BY Zenon DEF file_value
<1>14. file_ends => torrent' = torrent /\ kept' = kept
  BY Zenon DEF file_ends
<1>15. files_end => torrent' = torrent /\ kept' = kept
  BY Zenon DEF files_end
<1>16. calculate_info_sha1 => torrent' = torrent /\ kept' = kept
  <2> SUFFICES ASSUME calculate_info_sha1 PROVE torrent' = torrent /\ kept' = kept
    OBVIOUS
  <2>1. UNCHANGED << torrent, kept, tokens, current_token >>
    BY Zenon DEF calculate_info_sha1
  <2> QED
    BY <2>1
<1>17. fill_piece_offsets => torrent' = torrent /\ kept' = kept
  BY Zenon DEF fill_piece_offsets
<1> QED
  BY <1>1, <1>2, <1>3, <1>4, <1>5, <1>6, <1>7, <1>8, <1>9, <1>10, <1>11, <1>12,
     <1>13, <1>14, <1>15, <1>16, <1>17 DEF ReadNext

LEMMA TorrentKept == ASSUME [StartupNext]_startupVars PROVE torrent' = torrent /\ kept' = kept
<1>1. UNCHANGED readVars => torrent' = torrent /\ kept' = kept
  BY DEF readVars
<1>2. ReadNext \/ UNCHANGED readVars
  BY DEF StartupNext, startupVars, read_torrent, open_files, announce_skipped, announce_taken,
     no_valid_announce, resolve, write_pieces
<1> QED
  BY <1>1, <1>2, SourceKept

Opened == {"first_url", "url", "resolve", "running"}

(* The announces that are walked are those of the torrent.                 *)
Named ==
  /\ tf.str["announce"] = torrent.announce
  /\ tf.announce_list = FlattenSeq(torrent.announce_list)

LEMMA AnnouncesWalked ==
  ASSUME ReadInv, Named
  PROVE  /\ Len(available_announces) \in Nat
         /\ \A i \in 1 .. Len(available_announces) : available_announces[i] \in Announces(torrent)
         /\ \A a \in Announces(torrent) :
              \E i \in 1 .. Len(available_announces) : available_announces[i] = a
<1> DEFINE S == STRING \union {torrent.announce}
<1> DEFINE one == << torrent.announce >>
<1> DEFINE lists == torrent.announce_list
<1> DEFINE all == available_announces
<1>1. lists \in Seq(Seq(STRING))
  BY SourcesAssumption DEF ReadInv
<1>2. lists \in Seq(Seq(S))
  <2> DEFINE A == Seq(STRING)
  <2> DEFINE B == Seq(S)
  <2>1. A \subseteq B
    <3>1. STRING \subseteq S
      OBVIOUS
    <3> HIDE DEF S
    <3> QED
      BY <3>1, SeqMonotonic
  <2>2. lists \in Seq(A)
    BY <1>1
  <2> HIDE DEF A, B
  <2>3. lists \in Seq(B)
    BY <2>1, <2>2, SeqMonotonic
  <2> QED
    BY <2>3 DEF B
<1>3. one \in Seq(S) /\ ToSet(one) = {torrent.announce}
  <2>1. torrent.announce \in S
    OBVIOUS
  <2> HIDE DEF S
  <2>2. one \in Seq(S) /\ DOMAIN one = {1} /\ one[1] = torrent.announce
    BY <2>1
  <2> QED
    BY <2>2 DEF ToSet
<1> HIDE DEF S
<1>4. /\ FlattenSeq(lists) \in Seq(S)
      /\ ToSet(FlattenSeq(lists)) = UNION {ToSet(lists[i]) : i \in DOMAIN lists}
  BY <1>2, FlattenedSet
<1>5. all = one \o FlattenSeq(lists)
  BY DEF Named, available_announces
<1>6. all \in Seq(S) /\ ToSet(all) = Announces(torrent)
  <2>1. ToSet(one \o FlattenSeq(lists)) = ToSet(one) \union ToSet(FlattenSeq(lists))
        /\ one \o FlattenSeq(lists) \in Seq(S)
    <3> DEFINE flat == FlattenSeq(lists)
    <3>1. one \in Seq(S) /\ flat \in Seq(S)
      BY <1>3, <1>4
    <3> HIDE DEF one, flat
    <3>2. ToSet(one \o flat) = ToSet(one) \union ToSet(flat) /\ one \o flat \in Seq(S)
      BY <3>1, ConcatSet
    <3> QED
      BY <3>2 DEF flat
  <2> QED
    BY <1>3, <1>4, <1>5, <2>1 DEF Announces
<1> HIDE DEF all
<1>7. Len(all) \in Nat /\ DOMAIN all = 1 .. Len(all)
  BY <1>6
<1>8. /\ \A i \in 1 .. Len(all) : all[i] \in ToSet(all)
      /\ \A a \in ToSet(all) : \E i \in 1 .. Len(all) : all[i] = a
  BY <1>7 DEF ToSet
<1> QED
  BY <1>6, <1>7, <1>8 DEF all

(* The walk through the announces: those that were passed over and could   *)
(* be used were looked up in this call.                                    *)
UrlInv ==
  /\ announce \in Nat \ {0}
  /\ stage \in {"TorrentFile", "Files"} => announce = 1 /\ valid_url = ""
  /\ stage \in Opened => Named
  /\ valid_url # "" => valid_url \in Announces(torrent) /\ Usable(valid_url)
  /\ Generating => \A i \in 1 .. (announce - 1) :
       i <= Len(available_announces) /\ Usable(available_announces[i])
         => available_announces[i] \in unresolved

LEMMA UrlStep ==
  ASSUME ReadInv, LoadedAsNamed, UrlInv, [StartupNext]_startupVars
  PROVE  UrlInv'
<1>1. torrent' = torrent
  BY TorrentKept
<1>2. \A url : Usable(url)' <=> Usable(url)
  BY DEF Usable
<1>3. CASE stage = "TorrentFile"
  <2>1. stage' \in {"TorrentFile", "Files", "ended"} /\ UNCHANGED << announce, valid_url >>
    <3>1. read_torrent \/ UNCHANGED << stage, urlVars >>
      BY <1>3 DEF StartupNext, startupVars, open_files, announce_skipped, announce_taken,
         no_valid_announce, resolve, write_pieces, Generating
    <3> QED
      BY <1>3, <3>1 DEF read_torrent, urlVars
  <2> QED
    BY <1>3, <2>1 DEF UrlInv, Opened, Generating
<1>4. CASE stage # "TorrentFile"
  <2>1. UNCHANGED readVars
    BY <1>4 DEF StartupNext, startupVars, read_torrent, open_files, announce_skipped,
       announce_taken, no_valid_announce, resolve, write_pieces
  <2>2. /\ UNCHANGED << torrent, tf >> /\ (Named' <=> Named)
        /\ available_announces' = available_announces
    BY <2>1 DEF readVars, Named, available_announces
  <2>3. CASE open_files
    <3>1. /\ stage = "Files" /\ stage' \in {"first_url", "ended"}
          /\ UNCHANGED << announce, valid_url, unresolved >>
      BY <2>3 DEF open_files, urlVars
    <3>2. Named
      BY <3>1 DEF LoadedAsNamed, Named
    <3>3. announce' = 1 /\ valid_url' = ""
      BY <3>1 DEF UrlInv
    <3>4. announce' = 1
      BY <3>3, Zenon
    <3>5. announce' \in Nat \ {0} /\ 1 .. (announce' - 1) = {}
      BY <3>4
    <3>6. Named' /\ stage' \notin {"TorrentFile", "Files"}
      BY <2>2, <3>1, <3>2
    <3> QED
      BY <3>3, <3>5, <3>6, Zenon DEF UrlInv
  <2>4. CASE announce_skipped
    <3> DEFINE i == available_announces[announce]
    <3>1. /\ Generating /\ announce <= Len(available_announces)
          /\ unresolved' = IF Usable(i) THEN unresolved \union {i} ELSE unresolved
          /\ announce' = announce + 1 /\ UNCHANGED << stage, valid_url >>
      BY <2>4 DEF announce_skipped
    <3>2. announce \in Nat \ {0}
      BY DEF UrlInv
    <3>3. \A j \in 1 .. (announce' - 1) : j \in 1 .. (announce - 1) \/ j = announce
      BY <3>1, <3>2
    <3>4. \A j \in 1 .. (announce' - 1) :
            j <= Len(available_announces) /\ Usable(available_announces[j])
              => available_announces[j] \in unresolved'
      BY <3>1, <3>3 DEF UrlInv
    <3>5. announce' \in Nat \ {0} /\ stage \in {"first_url", "url"}
      BY <3>1, <3>2 DEF Generating
    <3> QED
      BY <1>2, <2>2, <3>1, <3>4, <3>5 DEF UrlInv, Opened
  <2>5. CASE announce_taken
    <3> DEFINE url == available_announces[announce]
    <3>1. /\ Generating /\ announce <= Len(available_announces) /\ Usable(url)
          /\ valid_url' = url /\ announce' = 1 /\ unresolved' = {}
          /\ stage' \in {"url", "resolve"} /\ stage \in Opened
      BY <2>5 DEF announce_taken, Generating, Opened
    <3>2. Named /\ announce \in Nat \ {0}
      BY <3>1 DEF UrlInv
    <3>3. announce \in 1 .. Len(available_announces) /\ url \in Announces(torrent)
      <4>1. Len(available_announces) \in Nat
        BY <3>2, AnnouncesWalked
      <4>2. announce \in 1 .. Len(available_announces)
        BY <3>1, <3>2, <4>1
      <4> QED
        BY <3>2, <4>2, AnnouncesWalked
    <3>4. valid_url' \in Announces(torrent)' /\ Usable(valid_url)' /\ Named'
      BY <1>1, <2>2, <3>1, <3>2, <3>3
    <3>5. stage' \notin {"TorrentFile", "Files"}
      BY <3>1
    <3>6. announce' \in Nat \ {0} /\ 1 .. (announce' - 1) = {}
      BY <3>1
    <3> QED
      BY <3>4, <3>5, <3>6, Zenon DEF UrlInv
  <2>6. CASE no_valid_announce \/ resolve
    <3>1. stage \in Opened /\ stage' \in {"running", "ended"}
          /\ UNCHANGED << announce, valid_url, unresolved >>
      BY <2>6 DEF no_valid_announce, resolve, urlVars, Generating, Opened
    <3> QED
      BY <1>1, <1>2, <2>2, <3>1 DEF UrlInv, Opened, Generating
  <2>7. CASE UNCHANGED << stage, announce, valid_url, unresolved >>
    BY <1>1, <1>2, <2>2, <2>7 DEF UrlInv, Generating
  <2>8. write_pieces \/ UNCHANGED startupVars => UNCHANGED << stage, announce, valid_url, unresolved >>
    BY DEF write_pieces, startupVars, urlVars
  <2>9. ~read_torrent
    BY <1>4 DEF read_torrent
  <2> QED
    BY <2>3, <2>4, <2>5, <2>6, <2>7, <2>8, <2>9 DEF StartupNext
<1> QED
  BY <1>3, <1>4

LEMMA UrlInvariant == StartupSpec /\ []LoadedAsNamed => []UrlInv
<1>1. StartupInit => UrlInv
  <2> SUFFICES ASSUME StartupInit PROVE UrlInv
    OBVIOUS
  <2>1. stage = "TorrentFile" /\ announce = 1 /\ valid_url = ""
    BY DEF StartupInit
  <2>2. 1 \in Nat \ {0}
    OBVIOUS
  <2>3. announce \in Nat \ {0}
    BY <2>1, <2>2, Zenon
  <2>4. stage \notin Opened /\ ~Generating
    BY <2>1 DEF Opened, Generating
  <2> QED
    BY <2>1, <2>3, <2>4 DEF UrlInv
<1>2. ReadInv /\ LoadedAsNamed /\ UrlInv /\ [StartupNext]_startupVars => UrlInv'
  BY UrlStep
<1> QED
  BY <1>1, <1>2, ReadInvariant, PTL DEF StartupSpec

(* When what was loaded is the torrent's, generate_url chooses an announce *)
(* of the torrent that can be asked, and gives up only when every one of   *)
(* them was looked up, however many there are and in whatever lists.       *)
THEOREM TrackerRight == StartupSpec /\ []LoadedAsNamed => []TrackerNamed
<1>1. ASSUME ReadInv, UrlInv PROVE TrackerNamed
  <2>1. ASSUME Generating, announce > Len(available_announces),
               NEW a \in Announces(torrent), Usable(a)
        PROVE  a \in unresolved
    <3>1. Named /\ announce \in Nat \ {0}
      BY <1>1, <2>1 DEF UrlInv, Generating, Opened
    <3>2. Len(available_announces) \in Nat
      BY <1>1, <3>1, AnnouncesWalked
    <3>3. PICK i \in 1 .. Len(available_announces) : available_announces[i] = a
      BY <1>1, <2>1, <3>1, AnnouncesWalked
    <3>4. i \in 1 .. (announce - 1) /\ i <= Len(available_announces)
      BY <2>1, <3>1, <3>2
    <3> QED
      BY <1>1, <2>1, <3>3, <3>4 DEF UrlInv
  <2> QED
    BY <1>1, <2>1 DEF UrlInv, TrackerNamed
<1>2. ReadInv /\ UrlInv => TrackerNamed
  BY <1>1
<1> QED
  BY <1>2, ReadInvariant, UrlInvariant, PTL
-----------------------------------------------------------------------------
(* The files: their sizes are those of the torrent once they are opened,   *)
(* and nothing is written before that.                                     *)
WritingInv ==
  /\ sizes \in {<< >>, Sizes(torrent)} \/ stage = "Files"
  /\ stage = "Files" => sizes = [i \in DOMAIN tf.files |-> tf.files[i].size]
  /\ stage \in Opened => sizes = Sizes(torrent)
  /\ stage # "running" => NothingYet

LEMMA WritingStep ==
  ASSUME LoadedAsNamed, WritingInv, [StartupNext]_startupVars
  PROVE  WritingInv'
<1>1. torrent' = torrent /\ Sizes(torrent)' = Sizes(torrent)
  BY TorrentKept
<1>2. CASE read_torrent
  <2>1. /\ stage = "TorrentFile"
        /\ UNCHANGED << control, id, begin, end, pwrites, finished, failed >>
    BY <1>2 DEF read_torrent, fileVars
  <2>2. /\ stage' \in {"TorrentFile", "Files", "ended"}
        /\ stage' # "Files" => UNCHANGED sizes
        /\ stage' = "Files" => /\ UNCHANGED readVars
                               /\ sizes' = [i \in DOMAIN tf.files |-> tf.files[i].size]
    BY <1>2 DEF read_torrent
  <2>3. NothingYet'
    BY <2>1 DEF WritingInv, NothingYet
  <2>4. stage' = "Files" => sizes' = [i \in DOMAIN tf'.files |-> tf'.files[i].size]
    BY <2>2 DEF readVars
  <2>5. stage' # "Files" => sizes' \in {<< >>, Sizes(torrent)}
    BY <2>1, <2>2 DEF WritingInv
  <2> QED
    BY <1>1, <2>2, <2>3, <2>4, <2>5 DEF WritingInv, Opened
<1>3. CASE open_files
  <2>1. /\ stage = "Files" /\ stage' \in {"first_url", "ended"} /\ sizes' = sizes
        /\ UNCHANGED << control, id, begin, end, pwrites, finished, failed >>
    BY <1>3 DEF open_files, fileVars
  <2>2. sizes = Sizes(torrent)
    BY <2>1 DEF WritingInv, LoadedAsNamed
  <2>3. NothingYet'
    BY <2>1 DEF WritingInv, NothingYet
  <2> QED
    BY <1>1, <2>1, <2>2, <2>3 DEF WritingInv
<1>4. CASE announce_skipped \/ announce_taken \/ no_valid_announce \/ resolve
  <2>1. /\ stage \in Opened \ {"running"} /\ stage' \in Opened \union {"ended"} /\ sizes' = sizes
        /\ UNCHANGED << control, id, begin, end, pwrites, finished, failed >>
    BY <1>4 DEF announce_skipped, announce_taken, no_valid_announce, resolve, fileVars,
       Generating, Opened
  <2>2. NothingYet'
    BY <2>1 DEF WritingInv, NothingYet
  <2>3. sizes' = Sizes(torrent)
    BY <2>1 DEF WritingInv
  <2> QED
    BY <1>1, <2>1, <2>2, <2>3 DEF WritingInv, Opened
<1>5. CASE write_pieces
  <2>1. stage = "running" /\ stage' = "running" /\ sizes' = sizes
    BY <1>5 DEF write_pieces, Next, write_piece, search, step_back, write_file, write_file_throws
  <2>2. sizes' = Sizes(torrent)
    BY <2>1 DEF WritingInv, Opened
  <2> QED
    BY <1>1, <2>1, <2>2 DEF WritingInv
<1>6. CASE UNCHANGED startupVars
  <2>1. UNCHANGED << stage, sizes, tf, control, id, begin, end, pwrites, finished, failed >>
    BY <1>6 DEF startupVars, readVars, fileVars
  <2>2. NothingYet' <=> NothingYet
    BY <2>1 DEF NothingYet
  <2> QED
    BY <1>1, <2>1, <2>2 DEF WritingInv
<1> QED
  BY <1>2, <1>3, <1>4, <1>5, <1>6 DEF StartupNext

LEMMA WritingInvariant == StartupSpec /\ []LoadedAsNamed => []WritingInv
<1>1. StartupInit => WritingInv
  BY DEF StartupInit, WritingInv, NothingYet, Opened
<1>2. LoadedAsNamed /\ WritingInv /\ [StartupNext]_startupVars => WritingInv'
  BY WritingStep
<1> QED
  BY <1>1, <1>2, PTL DEF StartupSpec

(* The operators of Files at the sizes of the torrent.                     *)
LEMMA TheTorrentsLayout ==
  ASSUME sizes = Sizes(torrent)
  PROVE  /\ SIZE = Abstract!SIZE /\ Pieces = Abstract!Pieces
         /\ \A f : first_piece(f) = Abstract!first_piece(f) /\ last_piece(f) = Abstract!last_piece(f)
         /\ \A p : SourceSize(p) = Abstract!SourceSize(p)
<1>1. SIZE = Abstract!SIZE
  BY DEF SIZE, Abstract!SIZE
<1>2. Start = Abstract!Start
  BY <1>1, Zenon DEF Start, Abstract!Start
<1>3. Position = Abstract!Position
  BY <1>1, Zenon DEF Position, Abstract!Position
<1>4. m_full_size = Abstract!m_full_size
  BY <1>1, <1>2, Zenon DEF m_full_size, Abstract!m_full_size
<1>5. Pieces = Abstract!Pieces
  BY <1>4, Zenon DEF Pieces, Abstract!Pieces
<1>6. \A f : first_piece(f) = Abstract!first_piece(f) /\ last_piece(f) = Abstract!last_piece(f)
  BY <1>3, Zenon DEF first_piece, Abstract!first_piece, last_piece, Abstract!last_piece
<1>7. \A p : SourceSize(p) = Abstract!SourceSize(p)
  BY <1>4, Zenon DEF SourceSize, Abstract!SourceSize
<1> QED
  BY <1>1, <1>5, <1>6, <1>7

(* A step that writes maps to the same step.                               *)
LEMMA WritingMapped ==
  ASSUME WritingInv, write_pieces
  PROVE  Abstract!Next
<1>1. Next /\ sizes = Sizes(torrent) /\ UNCHANGED << torrent, sizes >>
  <2>1. stage = "running" /\ Next /\ UNCHANGED torrent
    BY DEF write_pieces, readVars
  <2>2. UNCHANGED sizes
    BY <2>1 DEF Next, write_piece, search, step_back, write_file, write_file_throws
  <2> QED
    BY <2>1, <2>2 DEF WritingInv, Opened
<1>2. UNCHANGED Sizes(torrent)
  BY <1>1
<1>3. /\ SIZE = Abstract!SIZE /\ Pieces = Abstract!Pieces
      /\ \A f : first_piece(f) = Abstract!first_piece(f) /\ last_piece(f) = Abstract!last_piece(f)
      /\ \A p : SourceSize(p) = Abstract!SourceSize(p)
  BY <1>1, TheTorrentsLayout
<1>4. Middle = Abstract!Middle
  BY DEF Middle, Abstract!Middle
<1>5. \A f : Outside(f) <=> Abstract!Outside(f)
  BY <1>3, Zenon DEF Outside, Abstract!Outside
<1>6. \A f : Slice(f) = Abstract!Slice(f)
  BY <1>3, Zenon DEF Slice, Abstract!Slice
<1>7. CASE \E p \in Pieces : write_piece(p)
  <2>1. PICK p \in Pieces : write_piece(p)
    BY <1>7
  <2>2. Abstract!write_piece(p)
    BY <1>2, <1>3, <2>1 DEF write_piece, Abstract!write_piece
  <2> QED
    BY <1>3, <2>2 DEF Abstract!Next
<1>8. CASE search
  <2>1. Abstract!search
    BY <1>2, <1>3, <1>4, <1>8 DEF search, Abstract!search
  <2> QED
    BY <2>1 DEF Abstract!Next
<1>9. CASE step_back
  <2>1. Abstract!step_back
    BY <1>2, <1>3, <1>9 DEF step_back, Abstract!step_back
  <2> QED
    BY <2>1 DEF Abstract!Next
<1>10. CASE write_file
  <2>1. Abstract!write_file
    BY <1>2, <1>3, <1>5, <1>6, <1>10 DEF write_file, Abstract!write_file
  <2> QED
    BY <2>1 DEF Abstract!Next
<1>11. CASE write_file_throws
  <2>1. Abstract!write_file_throws
    BY <1>2, <1>5, <1>11 DEF write_file_throws, Abstract!write_file_throws
  <2> QED
    BY <2>1 DEF Abstract!Next
<1> QED
  BY <1>1, <1>7, <1>8, <1>9, <1>10, <1>11 DEF Next

LEMMA AbstractInit == StartupInit => Abstract!Init
<1> SUFFICES ASSUME StartupInit PROVE Abstract!Init
  OBVIOUS
<1>1. \E s \in Sources : torrent = s[1] /\ kept = s[2]
  BY Zenon DEF StartupInit, ReadInit
<1>2. Sizes(torrent) \in Layouts
  BY <1>1, StartupAssumption
<1> QED
  BY <1>2 DEF StartupInit, Abstract!Init

LEMMA AbstractStep ==
  ASSUME WritingInv, [StartupNext]_startupVars
  PROVE  [Abstract!Next]_(Abstract!vars)
<1>1. CASE write_pieces
  BY <1>1, WritingMapped
<1>2. CASE UNCHANGED fileVars
  <2>1. UNCHANGED << control, id, begin, end, pwrites, finished, failed >>
    BY <1>2 DEF fileVars
  <2>2. UNCHANGED Sizes(torrent)
    BY TorrentKept
  <2> QED
    BY <2>1, <2>2 DEF Abstract!vars
<1>3. write_pieces \/ UNCHANGED fileVars
  BY DEF StartupNext, startupVars, read_torrent, open_files, announce_skipped, announce_taken,
     no_valid_announce, resolve
<1> QED
  BY <1>1, <1>2, <1>3

(* When what was loaded is the torrent's, what main does is the writing of *)
(* the torrent's files: everything before the first piece is a stutter.    *)
THEOREM TorrentWritten == StartupSpec /\ []LoadedAsNamed => WritesTheTorrent
<1> QED
  BY AbstractInit, AbstractStep, WritingInvariant, PTL
     DEF StartupSpec, WritesTheTorrent, Abstract!Spec
-----------------------------------------------------------------------------
(* What is proved of the writing of any files holds of those of the        *)
(* torrent, from the start of the program on.                              *)
LEMMA FilesBegin ==
  ASSUME ReadInv, LoadedAsNamed, WritingInv, Unaligned, stage # "running"
  PROVE  FilesInv
<1>1. Sizes(torrent) \in Seq(Nat)
  BY StartupAssumption, FilesAssumption DEF ReadInv
<1>2. << >> \in Seq(Nat)
  OBVIOUS
<1>3. sizes \in Seq(Nat)
  BY <1>1, <1>2 DEF WritingInv, LoadedAsNamed
<1>4. NothingYet
  BY DEF WritingInv
<1> QED
  BY <1>3, <1>4, FilesInvBegins

Running == stage = "running" => FilesInv

LEMMA WritingSafe ==
  StartupSpec /\ []LoadedAsNamed /\ []Unaligned => []FilesInv
<1>1. StartupInit => Running
  BY DEF StartupInit, Running
<1>2. ReadInv /\ LoadedAsNamed /\ WritingInv /\ Unaligned /\ Running => FilesInv
  BY FilesBegin DEF Running
<1>3. FilesInv /\ [StartupNext]_startupVars => Running'
  <2> SUFFICES ASSUME FilesInv, [StartupNext]_startupVars, stage' = "running"
               PROVE  FilesInv'
    BY DEF Running
  <2>1. [Next]_vars
    BY DEF StartupNext, startupVars, read_torrent, open_files, announce_skipped, announce_taken,
       no_valid_announce, resolve, write_pieces, fileVars, vars, Generating
  <2> QED
    BY <2>1, FilesInvKept
<1> QED
  BY <1>1, <1>2, <1>3, ReadInvariant, WritingInvariant, PTL DEF StartupSpec

(* When what was loaded is the torrent's and no file of it but the last    *)
(* ends with a piece, a file gets bytes of its own only and a piece that   *)
(* was written is in the files to the last byte.                           *)
THEOREM TorrentWhole ==
  StartupSpec /\ []LoadedAsNamed /\ []Unaligned => [](TypeOK /\ OnlyOwnBytes /\ FinishedWhole)
<1>1. FilesInv => TypeOK /\ OnlyOwnBytes /\ FinishedWhole
  BY DEF FilesInv
<1> QED
  BY <1>1, WritingSafe, PTL
=============================================================================
