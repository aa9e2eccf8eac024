----------------------------- MODULE FilesProofs -----------------------------
(***************************************************************************)
(* Proofs about the writing of pieces, for any number of files of any size *)
(* and any size of the pieces, where no file but the last ends where a     *)
(* piece ends (elsewhere fill_piece_offsets moves on by a piece too many). *)
(***************************************************************************)
EXTENDS Files, NatLemmas, TLAPS

P == m_piece_size

Unaligned == \A f \in 1 .. (SIZE - 1) : Start[f] % P # 0

(* Arithmetic.                                                             *)
LEMMA DivMod ==
  ASSUME NEW n \in Nat
  PROVE  /\ n \div P \in Nat /\ n % P \in Nat /\ n % P < P
         /\ n = (n \div P) * P + (n % P)
BY FilesAssumption DEF P

LEMMA Times ==
  ASSUME NEW a \in Nat
  PROVE  /\ a * P \in Nat /\ (a + 1) * P = a * P + P
         /\ \A b \in Nat : (a + b) * P = a * P + b * P
BY FilesAssumption DEF P

LEMMA PieceOrder ==
  ASSUME NEW a \in Nat, NEW b \in Nat, a < b
  PROVE  a * P + P <= b * P
<1>1. PICK c \in Nat : b = a + 1 + c
  <2>1. b - (a + 1) \in Nat
    OBVIOUS
  <2> QED
    BY <2>1
<1>2. b * P = (a + 1) * P + c * P /\ (a + 1) * P = a * P + P
  BY <1>1, Times
<1>3. c * P \in Nat /\ a * P \in Nat /\ P \in Nat
  BY Times, FilesAssumption DEF P
<1> QED
  BY <1>2, <1>3

(* The quotient of a number is the one piece it lies in.                   *)
LEMMA Quotient ==
  ASSUME NEW q \in Nat, NEW r \in Nat, r < P
  PROVE  (q * P + r) \div P = q /\ (q * P + r) % P = r
<1> DEFINE n == q * P + r
<1>1. n \in Nat /\ q * P \in Nat /\ P \in Nat
  BY Times, FilesAssumption DEF P
<1>2. /\ n \div P \in Nat /\ n % P \in Nat /\ n % P < P
      /\ n = (n \div P) * P + (n % P)
  BY <1>1, DivMod
<1>3. (n \div P) * P \in Nat
  BY <1>2, Times
<1>4. ASSUME n \div P < q PROVE FALSE
  BY <1>1, <1>2, <1>3, <1>4, PieceOrder
<1>5. ASSUME q < n \div P PROVE FALSE
  BY <1>1, <1>2, <1>3, <1>5, PieceOrder
<1>6. n \div P = q
  BY <1>2, <1>4, <1>5
<1> QED
  BY <1>1, <1>2, <1>3, <1>6
-----------------------------------------------------------------------------
(* The recursive functions are what their equations say.                   *)

LEMMA SizesType ==
  ASSUME sizes \in Seq(Nat)
  PROVE  SIZE \in Nat /\ sizes \in [1 .. SIZE -> Nat]
BY DEF SIZE

LEMMA Starts ==
  ASSUME sizes \in Seq(Nat)
  PROVE  SumsOf(sizes, SIZE, Start)
<1>1. SIZE \in Nat /\ sizes \in [1 .. SIZE -> Nat]
  BY SizesType
<1>2. PICK s : SumsOf(sizes, SIZE, s)
  BY <1>1, SumsExist
<1>3. s = [f \in 0 .. SIZE |-> IF f = 0 THEN 0 ELSE s[f - 1] + sizes[f]]
  <2>1. \A f \in 0 .. SIZE : s[f] = IF f = 0 THEN 0 ELSE s[f - 1] + sizes[f]
    BY <1>1, <1>2 DEF SumsOf
  <2> QED
    BY <1>2, <2>1 DEF SumsOf
<1>4. Start = [f \in 0 .. SIZE |-> IF f = 0 THEN 0 ELSE Start[f - 1] + sizes[f]]
  BY <1>3, Zenon DEF Start
<1> QED
  BY <1>1, <1>4, SumsUnique

Places == [index: Nat, offset: 0 .. (P - 1)]

Moved(x, size) ==
  LET offset == x.offset + size
      index  == x.index + offset \div P
  IN  [index  |-> IF offset % P = 0 THEN index + 1 ELSE index,
       offset |-> offset % P]

LEMMA MovedType ==
  ASSUME NEW x \in Places, NEW size \in Nat
  PROVE  Moved(x, size) \in Places
<1>1. x.offset + size \in Nat /\ x.index \in Nat
  BY FilesAssumption DEF Places, P
<1>2. (x.offset + size) \div P \in Nat /\ (x.offset + size) % P \in 0 .. (P - 1)
  <2>1. \A n \in Nat : n \div P \in Nat /\ n % P \in Nat /\ n % P < P
    BY DivMod
  <2>2. \A n \in Nat : n % P \in 0 .. (P - 1)
    BY <2>1, FilesAssumption DEF P
  <2> QED
    BY <1>1, <2>1, <2>2
<1> QED
  BY <1>1, <1>2 DEF Moved, Places

FirstPlace == [index |-> 0, offset |-> 0]

Moves == [f \in 1 .. SIZE |-> [x \in Places |-> Moved(x, sizes[f])]]

LEMMA MovesType ==
  ASSUME sizes \in Seq(Nat)
  PROVE  /\ FirstPlace \in Places /\ Moves \in [1 .. SIZE -> [Places -> Places]]
         /\ \A f \in 1 .. SIZE : \A x \in Places : Moves[f][x] = Moved(x, sizes[f])
<1>1. FirstPlace \in Places
  BY FilesAssumption DEF Places, P, FirstPlace
<1>2. \A f \in 1 .. SIZE : \A x \in Places : Moved(x, sizes[f]) \in Places
  BY SizesType, MovedType
<1> QED
  BY <1>1, <1>2 DEF Moves

LEMMA Positions ==
  ASSUME sizes \in Seq(Nat)
  PROVE  /\ Position \in [0 .. SIZE -> Places] /\ Position[0] = FirstPlace
         /\ \A f \in 1 .. SIZE : Position[f] = Moved(Position[f - 1], sizes[f])
<1> DEFINE Rule(p) == [f \in 0 .. SIZE |-> IF f = 0 THEN FirstPlace
                                         ELSE Moved(p[f - 1], sizes[f])]
<1>0. SIZE \in Nat
  BY SizesType
<1>1. PICK p \in [0 .. SIZE -> Places] : Recurs(p, FirstPlace, Moves, SIZE)
  BY <1>0, MovesType, Recursion
<1>2. p = Rule(p)
  <2>1. p[0] = FirstPlace /\ \A f \in 1 .. SIZE : p[f] = Moves[f][p[f - 1]]
    BY <1>1 DEF Recurs
  <2>2. \A f \in 1 .. SIZE : p[f] = Moved(p[f - 1], sizes[f])
    BY <1>0, <2>1, MovesType
  <2>3. \A f \in 0 .. SIZE : p[f] = IF f = 0 THEN FirstPlace ELSE Moved(p[f - 1], sizes[f])
    BY <1>0, <2>1, <2>2
  <2> QED
    BY <1>1, <2>3
<1>3. Position = CHOOSE q : q = Rule(q)
  BY Zenon DEF Position, Moved, P, FirstPlace
<1>4. Position = Rule(Position)
  <2> HIDE DEF Rule
  <2> QED
    BY <1>2, <1>3
<1>5. /\ Position = [f \in 0 .. SIZE |-> Position[f]] /\ Position[0] = FirstPlace
      /\ \A f \in 1 .. SIZE : Position[f] = Moved(Position[f - 1], sizes[f])
  <2>1. \A f \in 0 .. SIZE : Position[f] = IF f = 0 THEN FirstPlace
                                          ELSE Moved(Position[f - 1], sizes[f])
    BY <1>4
  <2>2. Position = [f \in 0 .. SIZE |-> Position[f]]
    BY <1>4
  <2>3. Position[0] = FirstPlace
    BY <1>0, <2>1
  <2>4. \A f \in 1 .. SIZE : Position[f] = Moved(Position[f - 1], sizes[f])
    BY <1>0, <2>1
  <2> QED
    BY <2>2, <2>3, <2>4
<1>6. Follows(Position, FirstPlace, Moves, SIZE, Places)
  BY <1>5, MovesType DEF Follows
<1>7. Position \in [0 .. SIZE -> Places]
  BY <1>0, <1>6, MovesType, RecursionUnique
<1> QED
  BY <1>5, <1>7
-----------------------------------------------------------------------------
(* The layout.                                                             *)

LEMMA Sized ==
  ASSUME sizes \in Seq(Nat)
  PROVE  /\ SIZE \in Nat
         /\ \A f \in 0 .. SIZE : Start[f] \in Nat
         /\ \A f \in 0 .. SIZE : Position[f].index \in Nat /\ Position[f].offset \in 0 .. (P - 1)
         /\ Start[0] = 0 /\ Position[0] = [index |-> 0, offset |-> 0]
         /\ \A f \in FileIds :
              /\ f + 1 \in 1 .. SIZE /\ f \in 0 .. SIZE
              /\ sizes[f + 1] \in Nat
              /\ Start[f + 1] = Start[f] + sizes[f + 1]
              /\ Position[f + 1] = Moved(Position[f], sizes[f + 1])
<1>1. SIZE \in Nat /\ \A f \in 1 .. SIZE : sizes[f] \in Nat
  BY DEF SIZE
<1>2. SumsOf(sizes, SIZE, Start)
  BY Starts
<1>3. /\ \A f \in 0 .. SIZE : Start[f] \in Nat
      /\ Start[0] = 0 /\ Position[0] = [index |-> 0, offset |-> 0]
      /\ \A f \in 1 .. SIZE : Start[f] = Start[f - 1] + sizes[f]
      /\ \A f \in 1 .. SIZE : Position[f] = Moved(Position[f - 1], sizes[f])
  BY <1>2, Positions DEF SumsOf, FirstPlace
<1>4. \A f \in 0 .. SIZE : Position[f] \in Places
  BY Positions
<1>5. \A f \in FileIds : f + 1 \in 1 .. SIZE /\ f \in 0 .. SIZE /\ (f + 1) - 1 = f
  BY <1>1 DEF FileIds
<1> QED
  BY <1>1, <1>3, <1>4, <1>5 DEF Places

(* n bytes after byte s, which is byte o of piece i.                       *)
AdvancedBy(i, o, n, s) ==
  \E d, r \in Nat :
    /\ d = (o + n) \div P /\ r = (o + n) % P /\ r < P
    /\ s + n = (i + d) * P + r

LEMMA Advance ==
  ASSUME NEW i \in Nat, NEW o \in Nat, NEW n \in Nat, NEW s \in Nat, s = i * P + o
  PROVE  AdvancedBy(i, o, n, s)
<1>1. PICK d \in Nat, r \in Nat :
        /\ d = (o + n) \div P /\ r = (o + n) % P /\ r < P
        /\ o + n = d * P + r
  BY DivMod
<1>2. (i + d) * P = i * P + d * P
  BY Times
<1>3. i * P \in Nat /\ d * P \in Nat
  BY Times
<1>4. s + n = (i + d) * P + r
  BY <1>1, <1>2, <1>3
<1> QED
  BY <1>1, <1>4 DEF AdvancedBy

(* Where a file ends, in pieces, when it begins where Position says.       *)
LEMMA Ends ==
  ASSUME sizes \in Seq(Nat), NEW f \in FileIds,
         Start[f] = Position[f].index * P + Position[f].offset
  PROVE  LET e == Position[f].offset + sizes[f + 1]
             q == Position[f].index + e \div P
             r == e % P
         IN  /\ q \in Nat /\ r \in Nat /\ r < P /\ Position[f].index <= q
             /\ Start[f + 1] = q * P + r /\ Start[f + 1] % P = r
             /\ r # 0 => Position[f + 1] = [index |-> q, offset |-> r]
             /\ last_piece(f) = [index |-> q, offset |-> IF r = 0 THEN P ELSE r]
<1>1. /\ Position[f].index \in Nat /\ Position[f].offset \in 0 .. (P - 1)
      /\ Start[f] \in Nat /\ sizes[f + 1] \in Nat
      /\ Start[f + 1] = Start[f] + sizes[f + 1]
      /\ Position[f + 1] = Moved(Position[f], sizes[f + 1])
  <2>1. f \in 0 .. SIZE
    BY Sized
  <2> QED
    BY <2>1, Sized
<1>2. PICK i \in Nat, o \in Nat, n \in Nat, s \in Nat :
        i = Position[f].index /\ o = Position[f].offset /\ n = sizes[f + 1] /\ s = Start[f]
  <2>1. 0 .. (P - 1) \subseteq Nat
    BY FilesAssumption DEF P
  <2> QED
    BY <1>1, <2>1
<1>3. /\ s = i * P + o /\ Start[f + 1] = s + n
      /\ Position[f + 1] = Moved(Position[f], n)
  BY <1>1, <1>2
<1>4. PICK d \in Nat, r \in Nat :
        /\ d = (o + n) \div P /\ r = (o + n) % P /\ r < P
        /\ s + n = (i + d) * P + r
  <2>1. s = i * P + o
    BY <1>3
  <2>2. AdvancedBy(i, o, n, s)
    BY <2>1, Advance
  <2> QED
    BY <2>2 DEF AdvancedBy
<1>5. Start[f + 1] = (i + d) * P + r /\ i + d \in Nat /\ i <= i + d
  BY <1>3, <1>4
<1>6. Start[f + 1] % P = r
  BY <1>4, <1>5, Quotient
<1>7. r # 0 => Position[f + 1] = [index |-> i + d, offset |-> r]
  BY <1>2, <1>3, <1>4 DEF Moved
<1>8. last_piece(f) = [index  |-> i + d, offset |-> IF r = 0 THEN P ELSE r]
  BY <1>2, <1>4 DEF last_piece, P
<1>9. d = (Position[f].offset + sizes[f + 1]) \div P /\ r = (Position[f].offset + sizes[f + 1]) % P
  BY <1>2, <1>4
<1> QED
  BY <1>2, <1>4, <1>5, <1>6, <1>7, <1>8, <1>9

LEMMA Begins ==
  ASSUME sizes \in Seq(Nat), Unaligned
  PROVE  \A f \in FileIds : Start[f] = Position[f].index * P + Position[f].offset
<1> DEFINE S == {f \in FileIds : Start[f] # Position[f].index * P + Position[f].offset}
<1> SUFFICES ASSUME S # {} PROVE FALSE
  OBVIOUS
<1>1. PICK f \in S : \A g \in S : f <= g
  <2>1. S \in SUBSET Nat
    BY Sized DEF FileIds
  <2> HIDE DEF S
  <2> QED
    BY <2>1, Least
<1>2. f \in FileIds /\ Start[f] # Position[f].index * P + Position[f].offset
  OBVIOUS
<1>3. SIZE \in Nat /\ f \in 0 .. (SIZE - 1)
  BY <1>2, Sized DEF FileIds
<1>4. CASE f = 0
  <2>1. Start[0] = 0 /\ Position[0].index = 0 /\ Position[0].offset = 0
    BY Sized
  <2>2. 0 * P = 0
    BY FilesAssumption DEF P
  <2> QED
    BY <1>2, <1>4, <2>1, <2>2
<1>5. CASE f # 0
  <2>1. f - 1 \in FileIds /\ f - 1 \notin S /\ (f - 1) + 1 = f /\ f \in 1 .. (SIZE - 1)
    <3>1. f - 1 \in FileIds /\ (f - 1) + 1 = f /\ f \in 1 .. (SIZE - 1) /\ ~ (f <= f - 1)
      BY <1>3, <1>5 DEF FileIds
    <3>2. f - 1 \notin S
      BY <1>1, <3>1
    <3> QED
      BY <3>1, <3>2
  <2>2. Start[f - 1] = Position[f - 1].index * P + Position[f - 1].offset
    BY <2>1
  <2> DEFINE e == Position[f - 1].offset + sizes[f]
             q == Position[f - 1].index + e \div P
             r == e % P
  <2>3. /\ Start[f] = q * P + r /\ Start[f] % P = r
        /\ r # 0 => Position[f] = [index |-> q, offset |-> r]
    BY <2>1, <2>2, Ends
  <2>4. r # 0
    BY <2>1, <2>3 DEF Unaligned
  <2> HIDE DEF q, r
  <2> QED
    BY <1>2, <2>3, <2>4
<1> QED
  BY <1>4, <1>5

(* The pieces a file begins and ends in.  Only the last file may end where *)
(* a piece ends: then its last piece is no piece of the torrent.           *)
LEMMA Layout ==
  ASSUME sizes \in Seq(Nat), Unaligned, NEW f \in FileIds
  PROVE  \E i, o, j, r, s, t \in Nat :
           /\ first_piece(f) = [index |-> i, offset |-> o] /\ o < P
           /\ s = Start[f] /\ s = i * P + o
           /\ last_piece(f) = [index |-> j, offset |-> IF r = 0 THEN P ELSE r] /\ r < P
           /\ t = Start[f + 1] /\ t = j * P + r
           /\ i <= j /\ s <= t
           /\ f + 1 < SIZE => r # 0 /\ first_piece(f + 1) = [index |-> j, offset |-> r]
<1>1. Start[f] = Position[f].index * P + Position[f].offset
  BY Begins
<1>2. PICK q \in Nat, r \in Nat :
        /\ r < P /\ Position[f].index <= q
        /\ Start[f + 1] = q * P + r /\ Start[f + 1] % P = r
        /\ r # 0 => Position[f + 1] = [index |-> q, offset |-> r]
        /\ last_piece(f) = [index |-> q, offset |-> IF r = 0 THEN P ELSE r]
  BY <1>1, Ends
<1>3. PICK s \in Nat, t \in Nat : s = Start[f] /\ t = Start[f + 1] /\ s <= t
  <2>1. /\ Start[f] \in Nat /\ Start[f + 1] \in Nat /\ sizes[f + 1] \in Nat
        /\ Start[f + 1] = Start[f] + sizes[f + 1]
    <3>1. f \in 0 .. SIZE /\ f + 1 \in 1 .. SIZE /\ SIZE \in Nat
      BY Sized
    <3>2. f + 1 \in 0 .. SIZE
      BY <3>1
    <3> QED
      BY <3>1, <3>2, Sized
  <2> QED
    BY <2>1
<1>4. PICK i \in Nat, o \in Nat : Position[f] = [index |-> i, offset |-> o] /\ o < P
  <2>1. Position[f] \in Places
    <3>1. f \in 0 .. SIZE
      BY Sized
    <3> QED
      BY <3>1, Positions
  <2>2. P \in Nat
    BY FilesAssumption DEF P
  <2> QED
    BY <2>1, <2>2 DEF Places
<1>5. f + 1 < SIZE => r # 0
  <2> SUFFICES ASSUME f + 1 < SIZE PROVE r # 0
    OBVIOUS
  <2>1. f + 1 \in 1 .. (SIZE - 1)
    BY Sized DEF FileIds
  <2> QED
    BY <1>2, <2>1 DEF Unaligned
<1>6. s = i * P + o /\ i <= q
  BY <1>1, <1>2, <1>3, <1>4
<1>7. first_piece(f) = [index |-> i, offset |-> o]
  BY <1>4 DEF first_piece
<1>8. f + 1 < SIZE => r # 0 /\ first_piece(f + 1) = [index |-> q, offset |-> r]
  BY <1>2, <1>5 DEF first_piece
<1> QED
  BY <1>2, <1>3, <1>4, <1>6, <1>7, <1>8

LEMMA Ordered ==
  ASSUME sizes \in Seq(Nat)
  PROVE  m_full_size \in Nat /\ \A f \in 0 .. SIZE : Start[f] <= m_full_size
<1>0. /\ SIZE \in Nat /\ \A f \in 0 .. SIZE : Start[f] \in Nat
      /\ \A f \in FileIds : Start[f] <= Start[f + 1]
  <2>1. SIZE \in Nat /\ \A f \in 0 .. SIZE : Start[f] \in Nat
    BY Sized
  <2>2. ASSUME NEW f \in FileIds PROVE Start[f] <= Start[f + 1]
    <3>1. f \in 0 .. SIZE /\ sizes[f + 1] \in Nat /\ Start[f + 1] = Start[f] + sizes[f + 1]
      BY Sized
    <3>2. Start[f] \in Nat
      BY <2>1, <3>1
    <3> QED
      BY <3>1, <3>2
  <2> QED
    BY <2>1, <2>2
<1>1. m_full_size \in Nat /\ m_full_size = Start[SIZE]
  BY <1>0 DEF m_full_size
<1> DEFINE S == {k \in 0 .. SIZE : ~ (Start[SIZE - k] <= m_full_size)}
<1>2. ASSUME S # {} PROVE FALSE
  <2>1. PICK k \in S : \A n \in S : k <= n
    <3>1. S \in SUBSET Nat
      BY <1>0
    <3> HIDE DEF S
    <3> QED
      BY <1>2, <3>1, Least
  <2>2. k \in 0 .. SIZE /\ ~ (Start[SIZE - k] <= m_full_size)
    OBVIOUS
  <2>3. k # 0
    BY <1>0, <1>1, <2>2
  <2>4. k - 1 \in 0 .. SIZE /\ ~ (k <= k - 1) /\ SIZE - k \in FileIds /\ SIZE - k \in 0 .. SIZE
        /\ SIZE - (k - 1) = (SIZE - k) + 1 /\ (SIZE - k) + 1 \in 0 .. SIZE
    BY <1>0, <2>2, <2>3 DEF FileIds
  <2>5. k - 1 \notin S
    BY <2>1, <2>4
  <2>6. Start[(SIZE - k) + 1] <= m_full_size
    BY <2>4, <2>5
  <2>7. Start[SIZE - k] <= Start[(SIZE - k) + 1]
        /\ Start[SIZE - k] \in Nat /\ Start[(SIZE - k) + 1] \in Nat
    BY <1>0, <2>4
  <2> QED
    BY <1>1, <2>2, <2>6, <2>7
<1>3. ASSUME NEW f \in 0 .. SIZE PROVE Start[f] <= m_full_size
  <2>1. SIZE - f \in 0 .. SIZE /\ SIZE - (SIZE - f) = f
    BY <1>0
  <2> QED
    BY <1>2, <2>1
<1> QED
  BY <1>1, <1>3

(* The bytes of a piece.                                                   *)
LEMMA PieceBytes ==
  ASSUME sizes \in Seq(Nat), NEW p \in Pieces
  PROVE  \E n, c \in Nat :
           /\ p \in Nat /\ n = p * P /\ n < m_full_size /\ c = SourceSize(p)
           /\ \/ n + P <= m_full_size /\ c = P
              \/ m_full_size < n + P /\ n + c = m_full_size
<1>1. m_full_size \in Nat /\ P \in Nat \ {0}
  BY Ordered, FilesAssumption DEF P
<1>2. PICK k \in Nat, e \in Nat :
        /\ k = (m_full_size + P - 1) \div P /\ e < P
        /\ m_full_size + P - 1 = k * P + e
  <2>1. m_full_size + P - 1 \in Nat
    BY <1>1
  <2> QED
    BY <2>1, DivMod
<1>3. p \in Nat /\ p < k
  BY <1>2 DEF Pieces, P
<1>4. PICK n \in Nat, m \in Nat : n = p * P /\ m = k * P
  BY <1>2, <1>3, Times
<1>5. n + P <= m
  BY <1>3, <1>4, PieceOrder
<1>6. n < m_full_size
  BY <1>1, <1>2, <1>4, <1>5
<1>7. (p + 1) * P = n + P
  BY <1>3, <1>4, Times
<1>8. CASE n + P <= m_full_size
  <2>1. SourceSize(p) = P
    BY <1>7, <1>8 DEF SourceSize, P
  <2> QED
    BY <1>1, <1>3, <1>4, <1>6, <1>8, <2>1
<1>9. CASE ~ (n + P <= m_full_size)
  <2>1. PICK c \in Nat : m_full_size = n + c /\ c < P
    <3>1. m_full_size - n \in Nat
      BY <1>1, <1>6
    <3> QED
      BY <1>1, <1>9, <3>1
  <2>2. m_full_size % P = c
    BY <1>3, <1>4, <2>1, Quotient
  <2>3. SourceSize(p) = c
    BY <1>7, <1>9, <2>2 DEF SourceSize, P
  <2> QED
    BY <1>1, <1>3, <1>4, <1>6, <1>9, <2>1, <2>3
<1> QED
  BY <1>8, <1>9

(* The part of the piece that a file gets is what they have in common.     *)
LEMMA SliceShared ==
  ASSUME sizes \in Seq(Nat), Unaligned, NEW f \in FileIds, id \in Pieces, ~Outside(f)
  PROVE  \E n, s, t, from, size, at \in Nat :
           /\ n = id * P /\ s = Start[f] /\ t = Start[f + 1]
           /\ Slice(f) = [file |-> f, from |-> from, size |-> size, at |-> at]
           /\ s <= from /\ n <= from /\ from \in {s, n}
           /\ from + size <= t /\ from + size <= n + P /\ from + size \in {t, n + P}
<1>1. PICK i \in Nat, o \in Nat, j \in Nat, r \in Nat, s \in Nat, t \in Nat :
        /\ first_piece(f) = [index |-> i, offset |-> o] /\ o < P
        /\ s = Start[f] /\ s = i * P + o
        /\ last_piece(f) = [index |-> j, offset |-> IF r = 0 THEN P ELSE r] /\ r < P
        /\ t = Start[f + 1] /\ t = j * P + r
        /\ i <= j /\ s <= t
        /\ f + 1 < SIZE => r # 0 /\ first_piece(f + 1) = [index |-> j, offset |-> r]
  BY Layout
<1>2. PICK n \in Nat, c \in Nat :
        /\ id \in Nat /\ n = id * P /\ n < m_full_size /\ c = SourceSize(id)
        /\ \/ n + P <= m_full_size /\ c = P
           \/ m_full_size < n + P /\ n + c = m_full_size
  BY PieceBytes
<1>3. P \in Nat \ {0} /\ m_full_size \in Nat /\ t <= m_full_size
  <2>1. f + 1 \in 0 .. SIZE
    BY Sized DEF FileIds
  <2> QED
    BY <1>1, <2>1, Ordered, FilesAssumption DEF P
<1>4. i <= id /\ id <= j
  BY <1>1, <1>2 DEF Outside
<1>5. PICK ip \in Nat, jp \in Nat : ip = i * P /\ jp = j * P
  BY Times
<1>6. /\ s = ip + o /\ t = jp + r
      /\ i = id => ip = n
      /\ i # id => ip + P <= n
      /\ id = j => jp = n
      /\ id # j => n + P <= jp
  <2>1. i # id => ip + P <= n
    BY <1>2, <1>4, <1>5, PieceOrder
  <2>2. id # j => n + P <= jp
    BY <1>2, <1>4, <1>5, PieceOrder
  <2> QED
    BY <1>1, <1>2, <1>5, <2>1, <2>2
(* Its begin.                                                              *)
<1> DEFINE offset == IF id = i THEN o ELSE 0
           stop   == IF id = j THEN (IF r = 0 THEN P ELSE r) ELSE c
<1>7. /\ offset \in Nat /\ s <= n + offset /\ n + offset \in {s, n}
  BY <1>1, <1>3, <1>4, <1>6
(* Its end.                                                                *)
<1>8. id = j => r # 0
  <2> SUFFICES ASSUME id = j, r = 0 PROVE FALSE
    OBVIOUS
  <2>1. f + 1 = SIZE
    <3>1. ~ (f + 1 < SIZE)
      BY <1>1
    <3> QED
      BY <3>1, Sized DEF FileIds
  <2>2. t = m_full_size
    BY <1>1, <2>1 DEF m_full_size
  <2> QED
    BY <1>2, <1>3, <1>6, <2>2
<1>9. id # j => c = P
  BY <1>2, <1>3, <1>6
<1>10. /\ stop \in Nat /\ n + stop <= t /\ stop <= P /\ n + stop \in {t, n + P}
       /\ id = j => stop = r
       /\ id # j => stop = P
  BY <1>1, <1>3, <1>6, <1>8, <1>9
<1>11. offset <= stop
  <2>1. CASE id = j
    BY <1>1, <1>3, <1>6, <1>10, <2>1
  <2>2. CASE id # j
    BY <1>1, <1>3, <1>10, <2>2
  <2> QED
    BY <2>1, <2>2
(* Its place in the file.                                                  *)
<1>12. PICK at \in Nat :
         at = IF id = i THEN 0 ELSE P - o + (id - i) * P
  <2>1. CASE id = i
    BY <2>1
  <2>2. CASE id # i
    <3>1. id - i \in Nat
      BY <1>2, <1>4
    <3>2. (id - i) * P \in Nat
      BY <3>1, Times
    <3> QED
      BY <1>1, <1>3, <3>2
  <2> QED
    BY <2>1, <2>2
<1>13. Slice(f) = [file |-> f, from |-> n + offset, size |-> stop - offset, at |-> at]
  BY <1>1, <1>2, <1>12 DEF Slice, P
<1> HIDE DEF offset, stop
<1>14. PICK from \in Nat, size \in Nat : from = n + offset /\ size = stop - offset
  BY <1>7, <1>10, <1>11
<1>15. /\ s <= from /\ n <= from /\ from \in {s, n}
       /\ from + size <= t /\ from + size <= n + P /\ from + size \in {t, n + P}
  BY <1>3, <1>7, <1>10, <1>11, <1>14
<1>16. n = id * P /\ s = Start[f] /\ t = Start[f + 1]
  BY <1>1, <1>2
<1>17. Slice(f) = [file |-> f, from |-> from, size |-> size, at |-> at]
  BY <1>13, <1>14
<1> WITNESS n \in Nat, s \in Nat, t \in Nat, from \in Nat, size \in Nat, at \in Nat
<1> QED
  BY <1>15, <1>16, <1>17
-----------------------------------------------------------------------------
(* The invariant: the search keeps a file that begins in the piece or      *)
(* before it, and writing has covered what lies before the next file.      *)

Covered(b) ==
  \E w \in pwrites : /\ w.from <= b /\ b < w.from + w.size
                     /\ Start[w.file] <= b /\ b < Start[w.file + 1]

PieceRange(p) == (p * P) .. (p * P + SourceSize(p) - 1)

Searching ==
  control = "search" =>
    begin \in FileIds /\ end \in FileIds \union {SIZE} /\ begin < end /\ first_piece(begin).index <= id

Found == control \in {"back", "write"} => begin \in FileIds /\ ~Outside(begin)

WrittenBefore ==
  control = "write" => \A b \in PieceRange(id) : b < Start[begin] => Covered(b)

FilesInv ==
  /\ TypeOK /\ Unaligned
  /\ control # "idle" => id \in Pieces
  /\ Searching /\ Found /\ WrittenBefore
  /\ OnlyOwnBytes /\ FinishedWhole

LEMMA SameLayout ==
  ASSUME sizes' = sizes
  PROVE  /\ SIZE' = SIZE /\ FileIds' = FileIds /\ Start' = Start /\ Position' = Position
         /\ Pieces' = Pieces /\ m_full_size' = m_full_size /\ (Unaligned => Unaligned')
         /\ \A f : first_piece(f)' = first_piece(f) /\ last_piece(f)' = last_piece(f)
         /\ \A p : SourceSize(p)' = SourceSize(p) /\ PieceRange(p)' = PieceRange(p)
<1>1. SIZE' = SIZE /\ FileIds' = FileIds
  BY DEF SIZE, FileIds
<1>2. Start' = Start
  BY <1>1, Zenon DEF Start
<1>3. Position' = Position
  BY <1>1, Zenon DEF Position
<1>4. m_full_size' = m_full_size
  BY <1>1, <1>2 DEF m_full_size
<1>5. Pieces' = Pieces
  BY <1>4 DEF Pieces
<1>6. Unaligned => Unaligned'
  BY <1>1, <1>2 DEF Unaligned, P
<1>7. \A f : first_piece(f)' = first_piece(f) /\ last_piece(f)' = last_piece(f)
  BY <1>3, Zenon DEF first_piece, last_piece
<1>8. \A p : SourceSize(p)' = SourceSize(p)
  BY <1>4, Zenon DEF SourceSize
<1>9. \A p : PieceRange(p)' = PieceRange(p)
  BY <1>8, Zenon DEF PieceRange, P
<1> QED
  BY <1>1, <1>2, <1>3, <1>4, <1>5, <1>6, <1>7, <1>8, <1>9

(* What has been written stays written.                                    *)
LEMMA KeptWritten ==
  ASSUME sizes' = sizes, pwrites \subseteq pwrites'
  PROVE  \A b : Covered(b) => Covered(b)'
<1>1. Start' = Start
  BY SameLayout
<1> QED
  BY <1>1 DEF Covered

LEMMA NothingWritten ==
  ASSUME FilesInv, UNCHANGED << sizes, pwrites, finished >>
  PROVE  OnlyOwnBytes' /\ FinishedWhole' /\ Unaligned'
<1>1. Start' = Start /\ \A p : SourceSize(p)' = SourceSize(p)
  BY SameLayout
<1>2. Unaligned'
  BY SameLayout DEF FilesInv
<1>3. OnlyOwnBytes'
  BY <1>1 DEF FilesInv, OnlyOwnBytes
<1>4. FinishedWhole'
  BY <1>1 DEF FilesInv, FinishedWhole
<1> QED
  BY <1>2, <1>3, <1>4

LEMMA PieceChosen == ASSUME FilesInv, NEW p \in Pieces, write_piece(p) PROVE FilesInv'
<1>1. /\ control' = "search" /\ id' = p /\ begin' = 0 /\ end' = SIZE
      /\ UNCHANGED << sizes, pwrites, finished, failed >>
  BY DEF write_piece
<1>2. sizes \in Seq(Nat) /\ SIZE \in Nat
  BY Sized DEF FilesInv, TypeOK
<1>3. SIZE # 0
  <2> SUFFICES ASSUME SIZE = 0 PROVE FALSE
    OBVIOUS
  <2>1. m_full_size = 0
    BY <1>2, Sized DEF m_full_size
  <2>2. PICK n \in Nat : n < m_full_size
    BY <1>2, PieceBytes
  <2> QED
    BY <2>1, <2>2
<1>4. 0 \in FileIds /\ p \in Nat
  BY <1>2, <1>3, PieceBytes DEF FileIds
<1>5. first_piece(0).index = 0
  BY <1>2, Sized DEF first_piece
<1>6. Searching'
  BY <1>1, <1>2, <1>3, <1>4, <1>5, SameLayout DEF Searching
<1>7. TypeOK'
  BY <1>1, <1>2, <1>4, SameLayout DEF FilesInv, TypeOK
<1>8. id' \in Pieces'
  BY <1>1, SameLayout
<1> QED
  BY <1>1, <1>6, <1>7, <1>8, NothingWritten DEF FilesInv, Found, WrittenBefore

LEMMA Searched == ASSUME FilesInv, search PROVE FilesInv'
<1>1. /\ control = "search" /\ UNCHANGED << sizes, id, pwrites, finished, failed >>
      /\ sizes \in Seq(Nat) /\ Unaligned /\ id \in Pieces
      /\ begin \in FileIds /\ end \in FileIds \union {SIZE} /\ begin < end
      /\ first_piece(begin).index <= id
  BY DEF search, FilesInv, TypeOK, Searching
<1>2. SIZE \in Nat /\ id \in Nat
  BY <1>1, Sized, PieceBytes
<1>3. Middle \in FileIds /\ begin <= Middle /\ Middle < end
  BY <1>1, <1>2 DEF Middle, FileIds
<1>4. PICK i \in Nat, j \in Nat :
        i = first_piece(Middle).index /\ j = last_piece(Middle).index /\ i <= j
  <2>1. PICK i \in Nat, o \in Nat, j \in Nat, r \in Nat, s \in Nat, t \in Nat :
          /\ first_piece(Middle) = [index |-> i, offset |-> o] /\ o < P
          /\ s = Start[Middle] /\ s = i * P + o
          /\ last_piece(Middle) = [index |-> j, offset |-> IF r = 0 THEN P ELSE r] /\ r < P
          /\ t = Start[Middle + 1] /\ t = j * P + r
          /\ i <= j /\ s <= t
          /\ Middle + 1 < SIZE => r # 0 /\ first_piece(Middle + 1) = [index |-> j, offset |-> r]
    BY <1>1, <1>3, Layout
  <2>2. i = first_piece(Middle).index /\ j = last_piece(Middle).index /\ i <= j
    BY <2>1
  <2> WITNESS i \in Nat, j \in Nat
  <2> QED
    BY <2>2
<1>5. /\ SIZE' = SIZE /\ FileIds' = FileIds /\ Pieces' = Pieces
      /\ \A f : first_piece(f)' = first_piece(f) /\ last_piece(f)' = last_piece(f)
  BY <1>1, SameLayout
<1>6. OnlyOwnBytes' /\ FinishedWhole' /\ Unaligned'
  BY <1>1, NothingWritten
<1>7. CASE id > j /\ begin' = Middle /\ UNCHANGED << control, end >>
  <2>1. Searching'
    BY <1>1, <1>2, <1>3, <1>4, <1>5, <1>7 DEF Searching
  <2>2. TypeOK'
    BY <1>1, <1>3, <1>5, <1>7 DEF FilesInv, TypeOK
  <2> QED
    BY <1>1, <1>5, <1>6, <1>7, <2>1, <2>2 DEF FilesInv, Found, WrittenBefore
<1>8. CASE id < i /\ end' = Middle /\ UNCHANGED << control, begin >>
  <2>1. begin # Middle
    BY <1>1, <1>2, <1>4, <1>8
  <2>2. begin < Middle
    BY <1>1, <1>2, <1>3, <2>1 DEF FileIds
  <2>3. Searching'
    BY <1>1, <1>2, <1>3, <1>5, <1>8, <2>2 DEF Searching
  <2>4. Middle \in 0 .. SIZE
    BY <1>2, <1>3 DEF FileIds
  <2>5. TypeOK'
    BY <1>1, <1>5, <1>8, <2>4 DEF FilesInv, TypeOK
  <2> QED
    BY <1>1, <1>5, <1>6, <1>8, <2>3, <2>5 DEF FilesInv, Found, WrittenBefore
<1>9. CASE /\ i <= id /\ id <= j
           /\ control' = "back" /\ begin' = Middle /\ end' = 0
  <2>1. Found'
    BY <1>1, <1>2, <1>3, <1>4, <1>5, <1>9 DEF Found, Outside
  <2>2. TypeOK'
    BY <1>1, <1>2, <1>3, <1>5, <1>9 DEF FilesInv, TypeOK
  <2> QED
    BY <1>1, <1>5, <1>6, <1>9, <2>1, <2>2 DEF FilesInv, Searching, WrittenBefore
<1> QED
  BY <1>4, <1>7, <1>8, <1>9 DEF search

LEMMA SteppedBack == ASSUME FilesInv, step_back PROVE FilesInv'
<1>1. /\ control = "back" /\ UNCHANGED << sizes, id, end, pwrites, finished, failed >>
      /\ sizes \in Seq(Nat) /\ Unaligned /\ id \in Pieces
      /\ begin \in FileIds /\ ~Outside(begin)
  BY DEF step_back, FilesInv, TypeOK, Found
<1>2. SIZE \in Nat /\ id \in Nat
  BY <1>1, Sized, PieceBytes
<1>5. /\ SIZE' = SIZE /\ FileIds' = FileIds /\ Pieces' = Pieces /\ Start' = Start
      /\ \A f : first_piece(f)' = first_piece(f) /\ last_piece(f)' = last_piece(f)
      /\ \A p : PieceRange(p)' = PieceRange(p)
  BY <1>1, SameLayout
<1>6. OnlyOwnBytes' /\ FinishedWhole' /\ Unaligned'
  BY <1>1, NothingWritten
<1>7. CASE begin # 0 /\ first_piece(begin).index = id /\ begin' = begin - 1 /\ UNCHANGED control
  <2>1. begin - 1 \in FileIds /\ (begin - 1) + 1 = begin /\ begin < SIZE
    BY <1>1, <1>2, <1>7 DEF FileIds
  <2>2. PICK i \in Nat, o \in Nat, j \in Nat, r \in Nat, s \in Nat, t \in Nat :
          /\ first_piece(begin - 1) = [index |-> i, offset |-> o] /\ o < P
          /\ s = Start[begin - 1] /\ s = i * P + o
          /\ last_piece(begin - 1) = [index |-> j, offset |-> IF r = 0 THEN P ELSE r] /\ r < P
          /\ t = Start[(begin - 1) + 1] /\ t = j * P + r
          /\ i <= j /\ s <= t
          /\ (begin - 1) + 1 < SIZE =>
               r # 0 /\ first_piece((begin - 1) + 1) = [index |-> j, offset |-> r]
    BY <1>1, <2>1, Layout
  <2>3. /\ first_piece(begin - 1).index = i /\ last_piece(begin - 1).index = j /\ i <= j
        /\ j = id
    BY <1>7, <2>1, <2>2
  <2>4. Found'
    BY <1>1, <1>2, <1>5, <1>7, <2>1, <2>3 DEF Found, Outside
  <2>5. TypeOK'
    BY <1>1, <1>5, <1>7, <2>1 DEF FilesInv, TypeOK
  <2> QED
    BY <1>1, <1>5, <1>6, <1>7, <2>4, <2>5 DEF FilesInv, Searching, WrittenBefore
<1>8. CASE /\ begin = 0 \/ first_piece(begin).index # id
           /\ control' = "write" /\ UNCHANGED begin
  <2>1. Start[begin] \in Nat /\ Start[begin] <= id * P
    <3>1. CASE begin = 0
      <4>1. Start[0] = 0 /\ id * P \in Nat
        BY <1>1, <1>2, Sized, Times
      <4> QED
        BY <3>1, <4>1
    <3>2. CASE first_piece(begin).index # id
      <4>1. PICK i \in Nat, o \in Nat, j \in Nat, r \in Nat, s \in Nat, t \in Nat :
              /\ first_piece(begin) = [index |-> i, offset |-> o] /\ o < P
              /\ s = Start[begin] /\ s = i * P + o
              /\ last_piece(begin) = [index |-> j, offset |-> IF r = 0 THEN P ELSE r] /\ r < P
              /\ t = Start[begin + 1] /\ t = j * P + r
              /\ i <= j /\ s <= t
              /\ begin + 1 < SIZE => r # 0 /\ first_piece(begin + 1) = [index |-> j, offset |-> r]
        BY <1>1, Layout
      <4>2. i < id
        BY <1>1, <1>2, <3>2, <4>1 DEF Outside
      <4>3. PICK ip \in Nat, n \in Nat : ip = i * P /\ n = id * P
        BY <1>2, Times
      <4>4. ip + P <= n
        BY <1>2, <4>2, <4>3, PieceOrder
      <4>5. P \in Nat
        BY FilesAssumption DEF P
      <4>6. s \in Nat /\ s <= n
        BY <4>1, <4>3, <4>4, <4>5
      <4> QED
        BY <4>1, <4>3, <4>6
    <3> QED
      BY <1>8, <3>1, <3>2
  <2>2. WrittenBefore'
    <3>1. ASSUME NEW b \in PieceRange(id) PROVE ~ (b < Start[begin])
      <4>1. PICK n \in Nat, c \in Nat : n = id * P /\ c = SourceSize(id)
        BY <1>1, PieceBytes
      <4>2. b \in n .. (n + c - 1)
        BY <3>1, <4>1 DEF PieceRange
      <4> QED
        BY <2>1, <4>1, <4>2
    <3> QED
      BY <1>1, <1>5, <1>8, <3>1 DEF WrittenBefore
  <2>3. Found'
    BY <1>1, <1>5, <1>8 DEF Found, Outside
  <2>4. TypeOK'
    BY <1>1, <1>5, <1>8 DEF FilesInv, TypeOK
  <2> QED
    BY <1>1, <1>5, <1>6, <1>8, <2>2, <2>3, <2>4 DEF FilesInv, Searching
<1> QED
  BY <1>7, <1>8 DEF step_back

LEMMA FileWritten == ASSUME FilesInv, write_file PROVE FilesInv'
<1>1. /\ control = "write" /\ UNCHANGED << sizes, id, end, failed >>
      /\ sizes \in Seq(Nat) /\ Unaligned /\ id \in Pieces
      /\ begin \in FileIds /\ ~Outside(begin)
      /\ pwrites' = pwrites \union {Slice(begin)}
      /\ \A b \in PieceRange(id) : b < Start[begin] => Covered(b)
  BY DEF write_file, FilesInv, TypeOK, Found, WrittenBefore
<1>2. SIZE \in Nat /\ id \in Nat
  BY <1>1, Sized, PieceBytes
<1>3. /\ SIZE' = SIZE /\ FileIds' = FileIds /\ Pieces' = Pieces /\ Start' = Start
      /\ Unaligned'
      /\ \A f : first_piece(f)' = first_piece(f) /\ last_piece(f)' = last_piece(f)
      /\ \A p : SourceSize(p)' = SourceSize(p) /\ PieceRange(p)' = PieceRange(p)
  BY <1>1, SameLayout
<1>4. PICK n \in Nat, s \in Nat, t \in Nat, from \in Nat, size \in Nat, at \in Nat :
        /\ n = id * P /\ s = Start[begin] /\ t = Start[begin + 1]
        /\ Slice(begin) = [file |-> begin, from |-> from, size |-> size, at |-> at]
        /\ s <= from /\ n <= from /\ from \in {s, n}
        /\ from + size <= t /\ from + size <= n + P /\ from + size \in {t, n + P}
  BY <1>1, SliceShared
<1>5. PICK c \in Nat :
        /\ c = SourceSize(id) /\ n < m_full_size
        /\ \/ n + P <= m_full_size /\ c = P
           \/ m_full_size < n + P /\ n + c = m_full_size
  BY <1>1, <1>4, PieceBytes
<1>6. PieceRange(id) = n .. (n + c - 1) /\ P \in Nat /\ m_full_size \in Nat
  BY <1>1, <1>4, <1>5, Ordered, FilesAssumption DEF PieceRange, P
<1>7. \A b : Covered(b) => Covered(b)'
  BY <1>1, KeptWritten
<1>8. OnlyOwnBytes'
  <2>1. Start[begin] <= Slice(begin).from /\ Slice(begin).from + Slice(begin).size <= Start[begin + 1]
        /\ Slice(begin).file = begin
    BY <1>4
  <2> QED
    BY <1>1, <1>3, <2>1 DEF FilesInv, OnlyOwnBytes
<1>9. ASSUME NEW b \in PieceRange(id), b < Start[begin + 1] PROVE Covered(b)'
  <2>1. b \in Int /\ n <= b /\ b < n + c /\ b < t
    BY <1>4, <1>6, <1>9
  <2>2. CASE b < Start[begin]
    BY <1>1, <1>7, <2>2
  <2>3. CASE ~ (b < Start[begin])
    <3>1. s <= b
      BY <1>4, <2>1, <2>3
    <3>2. c <= P
      BY <1>5, <1>6
    <3>3. from <= b /\ b < from + size
      <4>1. (from = s \/ from = n) /\ (from + size = t \/ from + size = n + P)
        BY <1>4
      <4>2. from <= b
        BY <2>1, <3>1, <4>1
      <4>3. b < n + P
        BY <1>6, <2>1, <3>2
      <4> QED
        BY <2>1, <4>1, <4>2, <4>3
    <3>4. Slice(begin) \in pwrites'
      BY <1>1
    <3>5. /\ Slice(begin).from <= b /\ b < Slice(begin).from + Slice(begin).size
          /\ Start[Slice(begin).file] <= b /\ b < Start[Slice(begin).file + 1]
      BY <1>4, <2>1, <3>1, <3>3
    <3> QED
      BY <1>3, <3>4, <3>5 DEF Covered
  <2> QED
    BY <2>2, <2>3
<1>10. pwrites' \subseteq [file: FileIds, from: Nat, size: Nat, at: Nat]
  BY <1>1, <1>4 DEF FilesInv, TypeOK
<1>11. \A p \in finished : \A b \in PieceRange(p) : Covered(b)'
  <2>1. \A p \in finished : \A b \in PieceRange(p) : Covered(b)
    BY DEF FilesInv, FinishedWhole, Covered, PieceRange, P
  <2> QED
    BY <1>7, <2>1
(* It goes on with the next file.                                          *)
<1>12. CASE /\ begin + 1 < SIZE /\ first_piece(begin + 1).index = id
            /\ begin' = begin + 1 /\ UNCHANGED << control, finished >>
  <2>1. begin + 1 \in FileIds
    BY <1>1, <1>2, <1>12 DEF FileIds
  <2>2. PICK i \in Nat, o \in Nat, j \in Nat, r \in Nat, u \in Nat, v \in Nat :
          /\ first_piece(begin + 1) = [index |-> i, offset |-> o] /\ o < P
          /\ u = Start[begin + 1] /\ u = i * P + o
          /\ last_piece(begin + 1) = [index |-> j, offset |-> IF r = 0 THEN P ELSE r] /\ r < P
          /\ v = Start[(begin + 1) + 1] /\ v = j * P + r
          /\ i <= j /\ u <= v
          /\ (begin + 1) + 1 < SIZE =>
               r # 0 /\ first_piece((begin + 1) + 1) = [index |-> j, offset |-> r]
    BY <1>1, <2>1, Layout
  <2>3. first_piece(begin + 1).index = id /\ last_piece(begin + 1).index \in Nat
        /\ id <= last_piece(begin + 1).index
    BY <1>12, <2>2
  <2>4. Found'
    BY <1>1, <1>2, <1>3, <1>12, <2>1, <2>3 DEF Found, Outside
  <2>5. WrittenBefore'
    BY <1>1, <1>3, <1>9, <1>12 DEF WrittenBefore
  <2>6. TypeOK'
    BY <1>1, <1>3, <1>10, <1>12, <2>1 DEF FilesInv, TypeOK
  <2>7. FinishedWhole'
    BY <1>3, <1>11, <1>12 DEF FinishedWhole, Covered, PieceRange, P
  <2> QED
    BY <1>1, <1>3, <1>8, <1>12, <2>4, <2>5, <2>6, <2>7 DEF FilesInv, Searching
(* It was the last that begins in the piece.                               *)
<1>13. CASE /\ begin + 1 >= SIZE \/ first_piece(begin + 1).index # id
            /\ control' = "idle" /\ begin' = 0
            /\ finished' = finished \union {id}
  <2>1. n + c <= t
    <3>1. CASE begin + 1 >= SIZE
      <4>1. begin + 1 = SIZE
        BY <1>1, <1>2, <3>1 DEF FileIds
      <4>2. t = m_full_size
        BY <1>4, <4>1 DEF m_full_size
      <4> QED
        BY <1>5, <1>6, <4>2
    <3>2. CASE begin + 1 < SIZE /\ first_piece(begin + 1).index # id
      <4>1. PICK i \in Nat, o \in Nat, j \in Nat, r \in Nat, u \in Nat, v \in Nat :
              /\ first_piece(begin) = [index |-> i, offset |-> o] /\ o < P
              /\ u = Start[begin] /\ u = i * P + o
              /\ last_piece(begin) = [index |-> j, offset |-> IF r = 0 THEN P ELSE r] /\ r < P
              /\ v = Start[begin + 1] /\ v = j * P + r
              /\ i <= j /\ u <= v
              /\ begin + 1 < SIZE => r # 0 /\ first_piece(begin + 1) = [index |-> j, offset |-> r]
        BY <1>1, Layout
      <4>2. id < j
        BY <1>1, <1>2, <3>2, <4>1 DEF Outside
      <4>3. PICK jp \in Nat : jp = j * P
        BY Times
      <4>4. n + P <= jp
        BY <1>2, <1>4, <4>2, <4>3, PieceOrder
      <4>5. t = jp + r
        BY <1>4, <4>1, <4>3
      <4>6. c <= P
        BY <1>5, <1>6
      <4> QED
        BY <1>6, <4>4, <4>5, <4>6
    <3> QED
      BY <1>1, <1>2, <1>13, <3>1, <3>2 DEF FileIds
  <2>2. \A b \in PieceRange(id) : Covered(b)'
    <3>1. ASSUME NEW b \in PieceRange(id) PROVE b < t
      BY <1>6, <2>1, <3>1
    <3> QED
      BY <1>4, <1>9, <3>1
  <2>3. FinishedWhole'
    BY <1>3, <1>11, <1>13, <2>2 DEF FinishedWhole, Covered, PieceRange, P
  <2>4. TypeOK'
    BY <1>1, <1>3, <1>10, <1>13 DEF FilesInv, TypeOK
  <2> QED
    BY <1>3, <1>8, <1>13, <2>3, <2>4 DEF FilesInv, Searching, Found, WrittenBefore
<1> QED
  BY <1>12, <1>13 DEF write_file

LEMMA WritingThrew == ASSUME FilesInv, write_file_throws PROVE FilesInv'
<1>1. /\ control' = "idle" /\ begin' = 0 /\ failed' = failed \union {id} /\ id \in Pieces
      /\ UNCHANGED << sizes, id, end, pwrites, finished >>
  BY DEF write_file_throws, FilesInv
<1>2. TypeOK'
  BY <1>1, SameLayout DEF FilesInv, TypeOK
<1> QED
  BY <1>1, <1>2, NothingWritten DEF FilesInv, Searching, Found, WrittenBefore

(* Before the first piece nothing has gone wrong.                          *)
NothingYet ==
  /\ control = "idle" /\ id = 0 /\ begin = 0 /\ end = 0
  /\ pwrites = {} /\ finished = {} /\ failed = {}

LEMMA FilesInvBegins == ASSUME sizes \in Seq(Nat), NothingYet, Unaligned PROVE FilesInv
<1>1. SIZE \in Nat
  BY Sized
<1>2. TypeOK
  BY <1>1 DEF NothingYet, TypeOK
<1> QED
  BY <1>2 DEF NothingYet, FilesInv, Searching, Found, WrittenBefore, OnlyOwnBytes, FinishedWhole

LEMMA FilesInvKept == ASSUME FilesInv, [Next]_vars PROVE FilesInv'
<1>1. CASE \E p \in Pieces : write_piece(p)
  BY <1>1, PieceChosen
<1>2. CASE search
  BY <1>2, Searched
<1>3. CASE step_back
  BY <1>3, SteppedBack
<1>4. CASE write_file
  BY <1>4, FileWritten
<1>5. CASE write_file_throws
  BY <1>5, WritingThrew
<1>6. CASE UNCHANGED vars
  <2>1. /\ UNCHANGED << sizes, control, id, begin, end, pwrites, finished, failed >>
    BY <1>6 DEF vars
  <2>2. /\ SIZE' = SIZE /\ FileIds' = FileIds /\ Pieces' = Pieces /\ Start' = Start
        /\ \A f : first_piece(f)' = first_piece(f) /\ last_piece(f)' = last_piece(f)
        /\ \A p : PieceRange(p)' = PieceRange(p)
    BY <2>1, SameLayout
  <2>3. OnlyOwnBytes' /\ FinishedWhole' /\ Unaligned'
    BY <2>1, NothingWritten
  <2>4. TypeOK'
    BY <2>1, <2>2 DEF FilesInv, TypeOK
  <2>5. Searching' /\ Found'
    BY <2>1, <2>2 DEF FilesInv, Searching, Found, Outside
  <2>6. WrittenBefore'
    BY <2>1, <2>2, KeptWritten DEF FilesInv, WrittenBefore
  <2> QED
    BY <2>1, <2>2, <2>3, <2>4, <2>5, <2>6 DEF FilesInv
<1> QED
  BY <1>1, <1>2, <1>3, <1>4, <1>5, <1>6 DEF Next

LEMMA FilesInvariant == Spec /\ Unaligned => []FilesInv
<1>1. Init /\ Unaligned => FilesInv
  BY FilesAssumption, FilesInvBegins DEF Init, NothingYet
<1>2. FilesInv /\ [Next]_vars => FilesInv'
  BY FilesInvKept
<1> QED
  BY <1>1, <1>2, PTL DEF Spec

(* The type of every variable: the search stays within the files.          *)
THEOREM FilesTyping == Spec /\ Unaligned => []TypeOK
<1>1. FilesInv => TypeOK
  BY DEF FilesInv
<1> QED
  BY <1>1, FilesInvariant, PTL

(* Files::write_piece gives a file bytes of its own only, however the      *)
(* files and the pieces lie.                                               *)
THEOREM OwnBytes == Spec /\ Unaligned => []OnlyOwnBytes
<1>1. FilesInv => OnlyOwnBytes
  BY DEF FilesInv
<1> QED
  BY <1>1, FilesInvariant, PTL

(* When Files::write_piece returns, every byte of the piece has been       *)
(* written, to every file that has a part of it: the binary search finds   *)
(* one, the way back the first, and the loop the rest.                     *)
THEOREM WholePieces == Spec /\ Unaligned => []FinishedWhole
<1>1. FilesInv => FinishedWhole
  BY DEF FilesInv
<1> QED
  BY <1>1, FilesInvariant, PTL
=============================================================================
