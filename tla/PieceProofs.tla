----------------------------- MODULE PieceProofs -----------------------------
(***************************************************************************)
(* Proofs about the buffer of a piece, for pieces of any size: the ordered *)
(* set of blocks stands for the set of the bytes received.                 *)
(***************************************************************************)
EXTENDS Piece, NatLemmas, TLAPS

(* Sets of blocks.                                                         *)

Blocks == [offset: 0 .. (MaxSize - 1), size: 1 .. MaxSize]

(* Blocks of a piece of n bytes, no two of which overlap or touch.         *)
Apart(blocks, n) ==
  /\ blocks \subseteq Blocks
  /\ \A b \in blocks : End(b) <= n
  /\ \A b, c \in blocks : b.offset = c.offset => b = c
  /\ \A b, c \in blocks : b.offset < c.offset => End(b) < c.offset

BytesOf(blocks) == UNION {Bytes(b) : b \in blocks}

LEMMA BlockType ==
  ASSUME NEW b \in Blocks
  PROVE  b.offset \in Nat /\ b.size \in Nat \ {0} /\ End(b) \in Nat /\ b.offset < End(b)
BY PieceAssumption DEF Blocks, End

(* Some blocks are replaced by one that covers them.                       *)
LEMMA Glued ==
  ASSUME NEW n \in Nat, NEW blocks, Apart(blocks, n),
         NEW gone \in SUBSET blocks, NEW b \in Blocks, End(b) <= n,
         \A y \in blocks \ gone : End(y) < b.offset \/ End(b) < y.offset
  PROVE  Apart((blocks \ gone) \union {b}, n)
<1>1. \A y \in blocks : y \in Blocks
  BY DEF Apart
<1>2. \A y \in blocks \union {b} :
        y.offset \in Nat /\ End(y) \in Nat /\ y.offset < End(y)
  BY <1>1, BlockType
<1> QED
  BY <1>1, <1>2 DEF Apart

(* The blocks of m_blocks next to a place.                                 *)
Before(prev, at) ==
  \/ prev = {} /\ \A y \in m_blocks : at < y.offset
  \/ \E p \in m_blocks : /\ prev = {p} /\ p.offset <= at
                         /\ \A y \in m_blocks : y.offset <= p.offset \/ at < y.offset

After(next, at) ==
  \/ next = {} /\ \A y \in m_blocks : y.offset <= at
  \/ \E n \in m_blocks : /\ next = {n} /\ at < n.offset
                         /\ \A y \in m_blocks : y.offset <= at \/ n.offset <= y.offset

LEMMA PrevBefore ==
  ASSUME NEW size \in Nat, Apart(m_blocks, size), NEW b, b.offset \in Nat
  PROVE  Before(Prev(b), b.offset)
<1>0. \A y \in m_blocks : y.offset \in Nat
  BY BlockType DEF Apart
<1> DEFINE S == {y.offset : y \in {x \in m_blocks : x.offset <= b.offset}}
<1>1. CASE S = {}
  <2>1. \A y \in m_blocks : ~ (y.offset <= b.offset)
    BY <1>1
  <2> QED
    BY <1>0, <2>1 DEF Prev, Before
<1>2. CASE S # {}
  <2>1. S \in SUBSET (0 .. b.offset)
    BY <1>0
  <2>2. PICK o \in S : \A x \in S : x <= o
    <3> HIDE DEF S
    <3> QED
      BY <1>2, <2>1, Greatest
  <2>3. PICK p \in m_blocks : p.offset = o /\ p.offset <= b.offset
    OBVIOUS
  <2>4. \A y \in m_blocks : y.offset <= b.offset => y.offset <= p.offset
    BY <2>2, <2>3
  <2>5. Prev(b) = {p}
    <3>1. p \in Prev(b)
      BY <2>3, <2>4 DEF Prev
    <3>2. ASSUME NEW x \in Prev(b) PROVE x = p
      <4>1. x \in m_blocks /\ x.offset <= p.offset /\ p.offset <= x.offset
        BY <2>3, <2>4, <3>2 DEF Prev
      <4>2. x.offset = p.offset
        BY <1>0, <4>1
      <4> QED
        BY <4>1, <4>2 DEF Apart
    <3> QED
      BY <3>1, <3>2
  <2>6. \A y \in m_blocks : y.offset <= p.offset \/ b.offset < y.offset
    BY <1>0, <2>4
  <2> QED
    BY <2>3, <2>5, <2>6 DEF Before
<1> QED
  BY <1>1, <1>2

LEMMA NextAfter ==
  ASSUME NEW size \in Nat, Apart(m_blocks, size), NEW b, b.offset \in Nat
  PROVE  After(NextOf(b), b.offset)
<1>0. \A y \in m_blocks : y.offset \in Nat
  BY BlockType DEF Apart
<1> DEFINE S == {y.offset : y \in {x \in m_blocks : x.offset > b.offset}}
<1>1. CASE S = {}
  <2>1. \A y \in m_blocks : ~ (y.offset > b.offset)
    BY <1>1
  <2> QED
    BY <1>0, <2>1 DEF NextOf, After
<1>2. CASE S # {}
  <2>1. S \in SUBSET Nat
    BY <1>0
  <2>2. PICK o \in S : \A x \in S : o <= x
    <3> HIDE DEF S
    <3> QED
      BY <1>2, <2>1, Least
  <2>3. PICK q \in m_blocks : q.offset = o /\ q.offset > b.offset
    OBVIOUS
  <2>4. \A y \in m_blocks : y.offset > b.offset => y.offset >= q.offset
    BY <1>0, <2>2, <2>3
  <2>5. NextOf(b) = {q}
    <3>1. q \in NextOf(b)
      BY <2>3, <2>4 DEF NextOf
    <3>2. ASSUME NEW x \in NextOf(b) PROVE x = q
      <4>1. x \in m_blocks /\ x.offset >= q.offset /\ q.offset >= x.offset
        BY <2>3, <2>4, <3>2 DEF NextOf
      <4>2. x.offset = q.offset
        BY <1>0, <4>1
      <4> QED
        BY <4>1, <4>2 DEF Apart
    <3> QED
      BY <3>1, <3>2
  <2>6. \A y \in m_blocks : y.offset <= b.offset \/ q.offset <= y.offset
    BY <1>0, <2>4
  <2>7. b.offset < q.offset
    BY <1>0, <2>3
  <2> QED
    BY <2>3, <2>5, <2>6, <2>7 DEF After
<1> QED
  BY <1>1, <1>2
-----------------------------------------------------------------------------
(* Cutting a new block.                                                    *)

(* Between its neighbours nothing has been received.                       *)
LEMMA Gap ==
  ASSUME NEW size \in Nat, Apart(m_blocks, size), NEW at \in Nat, NEW prev, NEW next,
         Before(prev, at), After(next, at), \A p \in prev : End(p) <= at,
         NEW k \in Nat, at <= k, \A n \in next : k < n.offset
  PROVE  k \notin Received
<1> SUFFICES ASSUME NEW y \in m_blocks, k \in Bytes(y) PROVE FALSE
  BY DEF Received
<1>0. \A x \in m_blocks : x.offset \in Nat /\ End(x) \in Nat
  BY BlockType DEF Apart
<1>1. y.offset <= k /\ k < End(y)
  BY <1>0 DEF Bytes
<1>2. CASE y.offset <= at
  <2>1. PICK p \in m_blocks : prev = {p} /\ p.offset <= at /\ y.offset <= p.offset
    BY <1>0, <1>2 DEF Before
  <2>2. y = p \/ End(y) < p.offset
    BY <1>0, <2>1 DEF Apart
  <2>3. End(p) <= at
    BY <2>1
  <2> QED
    BY <1>0, <1>1, <2>1, <2>2, <2>3
<1>3. CASE at < y.offset
  <2>1. PICK n \in m_blocks : next = {n} /\ n.offset <= y.offset
    BY <1>0, <1>3 DEF After
  <2>2. k < n.offset
    BY <2>1
  <2> QED
    BY <1>0, <1>1, <2>1, <2>2
<1> QED
  BY <1>0, <1>2, <1>3

(* Cut beside the block before it, a block loses its begin, which has been *)
(* received, or all of it has been.                                        *)
LEMMA CutByPrev ==
  ASSUME NEW size \in Nat, Apart(m_blocks, size), NEW b \in Blocks,
         NEW prev, Before(prev, b.offset),
         NEW cut, cut = CutBeside([error |-> "OK", block |-> b], prev)
  PROVE  \/ cut.error = "SELF_IN_RIGHT" /\ Bytes(b) \subseteq Received
         \/ /\ cut.error = "OK"
            /\ \E at \in b.offset .. End(b) :
                 /\ cut.block = Block(at, End(b) - at)
                 /\ b.offset .. (at - 1) \subseteq Received
                 /\ \A p \in prev : End(p) <= at
                 /\ Before(prev, at)
                 /\ \A y \in m_blocks : b.offset < y.offset <=> at < y.offset
<1>0. /\ \A x \in m_blocks : x.offset \in Nat /\ End(x) \in Nat /\ x.offset < End(x)
      /\ b.offset \in Nat /\ End(b) \in Nat /\ b.offset < End(b)
  BY BlockType DEF Apart
<1>1. b = Block(b.offset, End(b) - b.offset)
  BY PieceAssumption DEF Blocks, Block, End
<1>2. ASSUME cut = [error |-> "OK", block |-> b], \A p \in prev : End(p) <= b.offset
      PROVE  /\ cut.error = "OK"
             /\ \E at \in b.offset .. End(b) :
                 /\ cut.block = Block(at, End(b) - at)
                 /\ b.offset .. (at - 1) \subseteq Received
                 /\ \A p \in prev : End(p) <= at
                 /\ Before(prev, at)
                 /\ \A y \in m_blocks : b.offset < y.offset <=> at < y.offset
  <2>1. b.offset \in b.offset .. End(b) /\ b.offset .. (b.offset - 1) = {}
    BY <1>0
  <2> QED
    BY <1>1, <1>2, <2>1
<1>3. CASE prev = {}
  BY <1>2, <1>3 DEF CutBeside
<1>4. CASE prev # {}
  <2>1. PICK p \in m_blocks : /\ prev = {p} /\ p.offset <= b.offset
                              /\ \A y \in m_blocks : y.offset <= p.offset \/ b.offset < y.offset
    BY <1>4 DEF Before
  <2>2. cut = modify_on_intersection(b, p)
    <3>1. (CHOOSE x \in prev : TRUE) = p
      BY <2>1
    <3> QED
      BY <1>4, <3>1 DEF CutBeside
  <2>3. CASE b.offset >= End(p)
    BY <1>0, <1>2, <2>1, <2>2, <2>3 DEF modify_on_intersection
  <2>4. CASE b.offset < End(p) /\ End(b) < End(p)
    <3>1. cut.error = "SELF_IN_RIGHT"
      BY <1>0, <2>1, <2>2, <2>4 DEF modify_on_intersection
    <3>2. Bytes(b) \subseteq Bytes(p)
      BY <1>0, <2>1, <2>4 DEF Bytes
    <3> QED
      BY <3>1, <3>2 DEF Received
  <2>5. CASE b.offset < End(p) /\ End(p) <= End(b)
    <3>1. cut = [error |-> "OK", block |-> Block(End(p), End(b) - End(p))]
      BY <1>0, <2>1, <2>2, <2>5 DEF modify_on_intersection
    <3>2. b.offset .. (End(p) - 1) \subseteq Received
      <4>1. b.offset .. (End(p) - 1) \subseteq Bytes(p)
        BY <1>0, <2>1 DEF Bytes
      <4> QED
        BY <4>1 DEF Received
    <3>3. \A y \in m_blocks : b.offset < y.offset => End(p) < y.offset
      BY <1>0, <2>1 DEF Apart
    <3>4. \A y \in m_blocks : b.offset < y.offset <=> End(p) < y.offset
      BY <1>0, <2>5, <3>3
    <3>5. Before(prev, End(p))
      BY <1>0, <2>1, <3>3 DEF Before
    <3>6. End(p) \in b.offset .. End(b) /\ \A q \in prev : End(q) <= End(p)
      BY <1>0, <2>1, <2>5
    <3>7. cut.error = "OK" /\ cut.block = Block(End(p), End(b) - End(p))
      BY <3>1
    <3> QED
      BY <3>2, <3>4, <3>5, <3>6, <3>7
  <2> QED
    BY <1>0, <2>3, <2>4, <2>5
<1> QED
  BY <1>3, <1>4

LEMMA AfterMoved ==
  ASSUME NEW next, NEW i \in Nat, NEW at \in Nat, i <= at, After(next, i),
         \A y \in m_blocks : y.offset \in Nat,
         \A y \in m_blocks : i < y.offset <=> at < y.offset
  PROVE  After(next, at)
<1>1. \A y \in m_blocks : y.offset <= i <=> y.offset <= at
  <2> SUFFICES ASSUME NEW y \in m_blocks PROVE y.offset <= i <=> y.offset <= at
    OBVIOUS
  <2>1. y.offset \in Nat /\ (i < y.offset <=> at < y.offset)
    OBVIOUS
  <2> QED
    BY <2>1
<1> QED
  BY <1>1 DEF After

Split(range) ==
  \E a, x, c \in range : a < x /\ x < c /\ a \notin Received /\ x \in Received /\ c \notin Received

(* What add makes of a block: refused, because what it has received cuts   *)
(* it in two; nothing new; or the bytes it brings, in one block.           *)
LEMMA CutTwice ==
  ASSUME NEW size \in 0 .. MaxSize, Apart(m_blocks, size), NEW b \in Blocks, End(b) <= size,
         NEW cut, cut = CutBeside(CutBeside([error |-> "OK", block |-> b], Prev(b)), NextOf(b))
  PROVE  \/ cut.error = "RIGHT_IN_SELF" /\ Split(Bytes(b))
         \/ /\ cut.error = "SELF_IN_RIGHT" \/ (cut.error = "OK" /\ cut.block.size = 0)
            /\ Bytes(b) \subseteq Received
         \/ /\ cut.error = "OK" /\ cut.block.size > 0
            /\ cut.block \in Blocks /\ End(cut.block) <= size
            /\ Bytes(b) \ Received = Bytes(cut.block)
            /\ Before(Prev(b), cut.block.offset) /\ After(NextOf(b), cut.block.offset)
            /\ \A p \in Prev(b) : End(p) <= cut.block.offset
            /\ \A n \in NextOf(b) : End(cut.block) <= n.offset
<1>0. /\ \A x \in m_blocks : x.offset \in Nat /\ End(x) \in Nat /\ x.offset < End(x)
      /\ b.offset \in Nat /\ End(b) \in Nat /\ b.offset < End(b)
      /\ size \in Nat /\ size <= MaxSize /\ MaxSize \in Nat
  BY BlockType, PieceAssumption DEF Apart
<1> DEFINE prev == Prev(b)
           next == NextOf(b)
           cut1 == CutBeside([error |-> "OK", block |-> b], prev)
<1>1. Before(prev, b.offset) /\ After(next, b.offset)
  BY <1>0, PrevBefore, NextAfter
<1>2. cut = CutBeside(cut1, next)
  OBVIOUS
<1>3. CASE cut1.error = "SELF_IN_RIGHT" /\ Bytes(b) \subseteq Received
  <2>1. cut = cut1
    BY <1>2, <1>3 DEF CutBeside
  <2> QED
    BY <1>3, <2>1
<1>4. ASSUME cut1.error = "OK", NEW at \in b.offset .. End(b),
             cut1.block = Block(at, End(b) - at),
             b.offset .. (at - 1) \subseteq Received,
             \A p \in prev : End(p) <= at, Before(prev, at),
             \A y \in m_blocks : b.offset < y.offset <=> at < y.offset
      PROVE  \/ cut.error = "RIGHT_IN_SELF" /\ Split(Bytes(b))
             \/ (cut.error = "OK" /\ cut.block.size = 0) /\ Bytes(b) \subseteq Received
             \/ /\ cut.error = "OK" /\ cut.block.size > 0
                /\ cut.block \in Blocks /\ End(cut.block) <= size
                /\ Bytes(b) \ Received = Bytes(cut.block)
                /\ Before(prev, cut.block.offset) /\ After(next, cut.block.offset)
                /\ \A p \in prev : End(p) <= cut.block.offset
                /\ \A n \in next : End(cut.block) <= n.offset
  <2>1. at \in Nat /\ b.offset <= at /\ at <= End(b) /\ After(next, at)
    <3>1. at \in Nat /\ b.offset <= at /\ at <= End(b)
      BY <1>0, <1>4
    <3> QED
      BY <1>0, <1>1, <1>4, <3>1, AfterMoved
  <2> DEFINE d == cut1.block
  <2>2. d.offset = at /\ d.size = End(b) - at /\ End(d) = End(b)
    BY <1>0, <1>4, <2>1 DEF Block, End
  <2> HIDE DEF d, prev, next, cut1
  <2>3. \A k \in at .. (End(b) - 1) : (\A n \in next : k < n.offset) => k \notin Received
    BY <1>0, <1>4, <2>1, Gap
  <2>4. ASSUME cut.error = "OK", NEW e \in at .. End(b), cut.block = Block(at, e - at),
               e .. (End(b) - 1) \subseteq Received,
               \A n \in next : e <= n.offset
        PROVE  \/ (cut.error = "OK" /\ cut.block.size = 0) /\ Bytes(b) \subseteq Received
               \/ /\ cut.error = "OK" /\ cut.block.size > 0
                  /\ cut.block \in Blocks /\ End(cut.block) <= size
                  /\ Bytes(b) \ Received = Bytes(cut.block)
                  /\ Before(prev, cut.block.offset) /\ After(next, cut.block.offset)
                  /\ \A p \in prev : End(p) <= cut.block.offset
                  /\ \A n \in next : End(cut.block) <= n.offset
    <3>1. e \in Nat /\ at <= e /\ e <= End(b)
      BY <1>0, <2>1
    <3>2. /\ cut.block.offset = at /\ cut.block.size = e - at /\ End(cut.block) = e
          /\ Bytes(cut.block) = at .. (e - 1)
      BY <2>1, <2>4, <3>1 DEF Block, End, Bytes
    <3>3. Bytes(b) = (b.offset .. (at - 1)) \union (at .. (e - 1)) \union (e .. (End(b) - 1))
      BY <1>0, <2>1, <3>1 DEF Bytes
    <3>4. \A k \in at .. (e - 1) : k \notin Received
      <4> SUFFICES ASSUME NEW k \in at .. (e - 1) PROVE k \notin Received
        OBVIOUS
      <4>1. k \in at .. (End(b) - 1)
        BY <1>0, <2>1, <3>1
      <4>2. \A n \in next : k < n.offset
        <5>1. \A n \in next : n.offset \in Nat
          BY <1>0, <2>1 DEF After
        <5> QED
          BY <2>1, <2>4, <3>1, <5>1
      <4> QED
        BY <2>3, <4>1, <4>2
    <3>5. Bytes(b) \ Received = at .. (e - 1)
      BY <1>4, <2>4, <3>3, <3>4
    <3>6. CASE e = at
      <4>1. at .. (e - 1) = {}
        BY <2>1, <3>6
      <4>2. cut.block.size = 0
        BY <2>1, <3>2, <3>6
      <4> QED
        BY <2>4, <3>5, <4>1, <4>2
    <3>7. CASE e > at
      <4>1. cut.block \in Blocks
        <5>1. at \in 0 .. (MaxSize - 1) /\ e - at \in 1 .. MaxSize
          BY <1>0, <2>1, <3>1, <3>7
        <5> QED
          BY <2>4, <5>1 DEF Blocks, Block
      <4> QED
        BY <1>0, <1>4, <2>1, <2>4, <3>1, <3>2, <3>5, <3>7, <4>1
    <3> QED
      BY <2>1, <3>1, <3>6, <3>7
  <2>5. CASE \A n \in next : End(b) <= n.offset
    <3>1. cut.error = "OK" /\ cut.block = Block(at, End(b) - at)
      <4>1. CASE next = {}
        BY <1>2, <1>4, <4>1 DEF CutBeside
      <4>2. CASE next # {}
        <5>1. (CHOOSE x \in next : TRUE) \in next
          BY <4>2
        <5>2. cut = modify_on_intersection(d, CHOOSE x \in next : TRUE)
          BY <1>2, <1>4, <4>2 DEF CutBeside, d
        <5>3. End(d) <= (CHOOSE x \in next : TRUE).offset
          BY <2>2, <2>5, <5>1
        <5>4. cut = [error |-> "OK", block |-> d]
          BY <5>2, <5>3 DEF modify_on_intersection
        <5> QED
          BY <1>4, <5>4 DEF d
      <4> QED
        BY <4>1, <4>2
    <3>2. End(b) \in at .. End(b) /\ End(b) .. (End(b) - 1) = {}
      BY <1>0, <2>1
    <3> QED
      BY <2>4, <2>5, <3>1, <3>2
  <2>6. ASSUME NEW n \in m_blocks, next = {n}, at < n.offset, n.offset < End(b)
        PROVE  \/ cut.error = "RIGHT_IN_SELF" /\ Split(Bytes(b))
               \/ (cut.error = "OK" /\ cut.block.size = 0) /\ Bytes(b) \subseteq Received
               \/ /\ cut.error = "OK" /\ cut.block.size > 0
                  /\ cut.block \in Blocks /\ End(cut.block) <= size
                  /\ Bytes(b) \ Received = Bytes(cut.block)
                  /\ Before(prev, cut.block.offset) /\ After(next, cut.block.offset)
                  /\ \A p \in prev : End(p) <= cut.block.offset
                  /\ \A m \in next : End(cut.block) <= m.offset
    <3>1. cut = modify_on_intersection(d, n)
      <4>1. (CHOOSE x \in next : TRUE) = n /\ next # {}
        BY <2>6
      <4> QED
        BY <1>2, <1>4, <4>1 DEF CutBeside, d
    <3>2. CASE End(n) < End(b)
      <4>1. cut.error = "RIGHT_IN_SELF"
        BY <1>0, <2>1, <2>2, <2>6, <3>1, <3>2 DEF modify_on_intersection
      <4>2. at \in Bytes(b) /\ n.offset \in Bytes(b) /\ End(n) \in Bytes(b)
        BY <1>0, <2>1, <2>6, <3>2 DEF Bytes
      <4>3. at \notin Received
        <5>1. at \in at .. (End(b) - 1) /\ \A m \in next : at < m.offset
          BY <1>0, <2>1, <2>6
        <5> QED
          BY <2>3, <5>1
      <4>4. n.offset \in Received
        <5>1. n.offset \in Bytes(n)
          BY <1>0 DEF Bytes
        <5> QED
          BY <5>1 DEF Received
      <4>5. End(n) \notin Received
        <5> SUFFICES ASSUME NEW y \in m_blocks, End(n) \in Bytes(y) PROVE FALSE
          BY DEF Received
        <5>1. y.offset <= End(n) /\ End(n) < End(y)
          BY <1>0 DEF Bytes
        <5>2. y.offset < n.offset => End(y) < n.offset
          BY DEF Apart
        <5>3. n.offset < y.offset => End(n) < y.offset
          BY DEF Apart
        <5>4. n.offset = y.offset => n = y
          BY DEF Apart
        <5> QED
          BY <1>0, <5>1, <5>2, <5>3, <5>4
      <4>6. at < n.offset /\ n.offset < End(n)
        BY <1>0, <2>6
      <4> QED
        BY <4>1, <4>2, <4>3, <4>4, <4>5, <4>6 DEF Split
    <3>3. CASE End(b) <= End(n)
      <4>1. cut = [error |-> "OK", block |-> Block(at, n.offset - at)]
        BY <1>0, <2>1, <2>2, <2>6, <3>1, <3>3 DEF modify_on_intersection
      <4>2. n.offset .. (End(b) - 1) \subseteq Received
        <5>1. n.offset .. (End(b) - 1) \subseteq Bytes(n)
          BY <1>0, <3>3 DEF Bytes
        <5> QED
          BY <5>1 DEF Received
      <4>3. n.offset \in at .. End(b) /\ \A m \in next : n.offset <= m.offset
        BY <1>0, <2>1, <2>6
      <4>4. cut.error = "OK" /\ cut.block = Block(at, n.offset - at)
        BY <4>1
      <4> QED
        BY <2>4, <4>2, <4>3, <4>4
    <3> QED
      BY <1>0, <3>2, <3>3
  <2>7. \/ \A n \in next : End(b) <= n.offset
        \/ \E n \in m_blocks : next = {n} /\ at < n.offset /\ n.offset < End(b)
    BY <1>0, <2>1 DEF After
  <2> QED
    BY <2>5, <2>6, <2>7
<1> QED
  BY <1>1, <1>3, <1>4, CutByPrev
-----------------------------------------------------------------------------
(* Inserting the part that is left.                                        *)

(* In blocks, the block b has taken the place of those it covers.          *)
Covers(blocks, d, size) ==
  \E gone \in SUBSET m_blocks, b \in Blocks :
    /\ blocks = (m_blocks \ gone) \union {b}
    /\ Bytes(b) = Bytes(d) \union BytesOf(gone)
    /\ End(b) <= size
    /\ \A y \in m_blocks \ gone : End(y) < b.offset \/ End(b) < y.offset

LEMMA InsertNew ==
  ASSUME NEW b, NEW blocks, \A x \in blocks : x.offset # b.offset
  PROVE  Insert(b, blocks) = blocks \union {b}
BY DEF Insert

LEMMA Joined ==
  ASSUME NEW i \in Nat, NEW j \in Nat, NEW k \in Nat, NEW l \in Nat, i <= j, j <= k, k <= l
  PROVE  i .. (l - 1) = (i .. (j - 1)) \union (j .. (k - 1)) \union (k .. (l - 1))
OBVIOUS

LEMMA MergedCovers ==
  ASSUME NEW size \in 0 .. MaxSize, Apart(m_blocks, size), m_blocks # {},
         NEW d \in Blocks, End(d) <= size,
         NEW prev, NEW next, Before(prev, d.offset), After(next, d.offset),
         \A p \in prev : End(p) <= d.offset,
         \A n \in next : End(d) <= n.offset
  PROVE  Covers(Merged(d, prev, next), d, size)
<1>0. /\ \A x \in m_blocks : x.offset \in Nat /\ End(x) \in Nat /\ x.offset < End(x) /\ End(x) <= size
      /\ d.offset \in Nat /\ End(d) \in Nat /\ d.offset < End(d)
      /\ size \in Nat /\ size <= MaxSize /\ MaxSize \in Nat
  BY BlockType, PieceAssumption DEF Apart
<1>1. \A x \in m_blocks : x.size = End(x) - x.offset
  BY BlockType DEF Apart, End
<1>2. d.size = End(d) - d.offset
  BY BlockType DEF End
(* A block from i to e.                                                    *)
<1>3. ASSUME NEW i \in Nat, NEW e \in Nat, i < e, e <= size
      PROVE  /\ Block(i, e - i) \in Blocks /\ Block(i, e - i).offset = i
             /\ End(Block(i, e - i)) = e /\ Bytes(Block(i, e - i)) = i .. (e - 1)
  <2>1. Block(i, e - i).offset = i /\ Block(i, e - i).size = e - i
    BY DEF Block
  <2>2. End(Block(i, e - i)) = e
    BY <2>1, <1>3 DEF End
  <2>3. i \in 0 .. (MaxSize - 1) /\ e - i \in 1 .. MaxSize
    BY <1>0, <1>3
  <2> QED
    BY <2>1, <2>2, <2>3 DEF Block, Blocks, Bytes
<1>4. \A n \in next : n \in m_blocks /\ next = {n} /\ d.offset < n.offset
  BY DEF After
<1>5. \A p \in prev : p \in m_blocks /\ prev = {p} /\ p.offset < d.offset
  <2>1. \A p \in prev : p \in m_blocks /\ prev = {p}
    BY DEF Before
  <2> QED
    BY <1>0, <2>1
(* What lies to the left and to the right of d.                            *)
<1>6. \A y \in m_blocks : \/ \E p \in prev : y = p \/ End(y) < p.offset
                          \/ \E n \in next : y = n \/ End(n) < y.offset
  <2> SUFFICES ASSUME NEW y \in m_blocks
               PROVE  \/ \E p \in prev : y = p \/ End(y) < p.offset
                      \/ \E n \in next : y = n \/ End(n) < y.offset
    OBVIOUS
  <2>1. CASE y.offset <= d.offset
    <3>1. PICK p \in m_blocks : prev = {p} /\ y.offset <= p.offset
      BY <1>0, <2>1 DEF Before
    <3>2. y = p \/ End(y) < p.offset
      BY <1>0, <3>1 DEF Apart
    <3> QED
      BY <3>1, <3>2
  <2>2. CASE d.offset < y.offset
    <3>1. PICK n \in m_blocks : next = {n} /\ n.offset <= y.offset
      BY <1>0, <2>2 DEF After
    <3>2. y = n \/ End(n) < y.offset
      BY <1>0, <3>1 DEF Apart
    <3> QED
      BY <3>1, <3>2
  <2> QED
    BY <1>0, <2>1, <2>2
<1>7. \A y \in m_blocks : y.offset # d.offset
  <2> SUFFICES ASSUME NEW y \in m_blocks PROVE y.offset # d.offset
    OBVIOUS
  <2>1. ASSUME NEW p \in prev, y = p \/ End(y) < p.offset PROVE y.offset # d.offset
    BY <1>0, <1>5, <2>1
  <2>2. ASSUME NEW n \in next, y = n \/ End(n) < y.offset PROVE y.offset # d.offset
    BY <1>0, <1>4, <2>2
  <2> QED
    BY <1>6, <2>1, <2>2
<1>8. d = Block(d.offset, End(d) - d.offset)
  BY <1>0 DEF Blocks, Block, End
(* d stays as it is.                                                       *)
<1>9. ASSUME \A n \in next : End(d) # n.offset, \A p \in prev : End(p) # d.offset
      PROVE  Covers(Insert(d, m_blocks), d, size)
  <2>1. Insert(d, m_blocks) = (m_blocks \ {}) \union {d}
    BY <1>7, InsertNew
  <2>2. \A y \in m_blocks \ {} : End(y) < d.offset \/ End(d) < y.offset
    <3> SUFFICES ASSUME NEW y \in m_blocks PROVE End(y) < d.offset \/ End(d) < y.offset
      OBVIOUS
    <3>1. ASSUME NEW p \in prev, y = p \/ End(y) < p.offset PROVE End(y) < d.offset
      BY <1>0, <1>5, <1>9, <3>1
    <3>2. ASSUME NEW n \in next, y = n \/ End(n) < y.offset PROVE End(d) < y.offset
      BY <1>0, <1>4, <1>9, <3>2
    <3> QED
      BY <1>6, <3>1, <3>2
  <2>3. Bytes(d) = Bytes(d) \union BytesOf({})
    BY DEF BytesOf
  <2> QED
    BY <1>0, <2>1, <2>2, <2>3 DEF Covers
(* d and the block after it become one.                                    *)
<1>10. ASSUME NEW n \in next, End(d) = n.offset, \A p \in prev : End(p) # d.offset
       PROVE  LET b == Block(d.offset, End(n) - d.offset)
              IN  /\ b \in Blocks /\ b # n /\ \A x \in m_blocks : x.offset # b.offset
                  /\ Covers((m_blocks \ {n}) \union {b}, d, size)
  <2> DEFINE b == Block(d.offset, End(n) - d.offset)
  <2>1. n \in m_blocks /\ d.offset < n.offset
    BY <1>4
  <2>2. /\ b \in Blocks /\ b.offset = d.offset /\ End(b) = End(n)
        /\ Bytes(b) = d.offset .. (End(n) - 1)
    <3>1. d.offset < End(n) /\ End(n) <= size
      BY <1>0, <2>1
    <3> QED
      BY <1>0, <1>3, <2>1, <3>1
  <2> HIDE DEF b
  <2>3. Bytes(b) = Bytes(d) \union BytesOf({n})
    <3>1. Bytes(d) = d.offset .. (n.offset - 1) /\ Bytes(n) = n.offset .. (End(n) - 1)
      BY <1>10 DEF Bytes
    <3>2. BytesOf({n}) = Bytes(n)
      BY DEF BytesOf
    <3> QED
      BY <1>0, <2>1, <2>2, <3>1, <3>2
  <2>4. \A y \in m_blocks \ {n} : End(y) < b.offset \/ End(b) < y.offset
    <3> SUFFICES ASSUME NEW y \in m_blocks, y # n PROVE End(y) < d.offset \/ End(n) < y.offset
      BY <2>2
    <3>1. ASSUME NEW p \in prev, y = p \/ End(y) < p.offset PROVE End(y) < d.offset
      BY <1>0, <1>5, <1>10, <3>1
    <3>2. ASSUME NEW m \in next, y = m \/ End(m) < y.offset PROVE End(n) < y.offset
      BY <1>4, <3>2
    <3> QED
      BY <1>6, <3>1, <3>2
  <2>5. Covers((m_blocks \ {n}) \union {b}, d, size)
    <3>1. {n} \in SUBSET m_blocks /\ End(b) <= size
      BY <1>0, <2>1, <2>2
    <3> QED
      BY <2>2, <2>3, <2>4, <3>1 DEF Covers
  <2>6. b # n /\ \A x \in m_blocks : x.offset # b.offset
    BY <1>7, <2>1, <2>2
  <2> QED
    BY <2>2, <2>5, <2>6 DEF b
(* The block before d and d become one.                                    *)
<1>11. ASSUME NEW p \in prev, End(p) = d.offset, \A n \in next : End(d) # n.offset
       PROVE  LET b == Block(p.offset, End(d) - p.offset)
              IN  Covers((m_blocks \ {p}) \union {b}, d, size)
  <2> DEFINE b == Block(p.offset, End(d) - p.offset)
  <2>1. p \in m_blocks /\ p.offset < d.offset
    BY <1>5
  <2>2. /\ b \in Blocks /\ b.offset = p.offset /\ End(b) = End(d)
        /\ Bytes(b) = p.offset .. (End(d) - 1)
    <3>1. p.offset < End(d)
      BY <1>0, <2>1
    <3> QED
      BY <1>0, <1>3, <2>1, <3>1
  <2> HIDE DEF b
  <2>3. Bytes(b) = Bytes(d) \union BytesOf({p})
    <3>1. Bytes(d) = d.offset .. (End(d) - 1) /\ Bytes(p) = p.offset .. (d.offset - 1)
      BY <1>11 DEF Bytes
    <3>2. BytesOf({p}) = Bytes(p)
      BY DEF BytesOf
    <3> QED
      BY <1>0, <2>1, <2>2, <3>1, <3>2
  <2>4. \A y \in m_blocks \ {p} : End(y) < b.offset \/ End(b) < y.offset
    <3> SUFFICES ASSUME NEW y \in m_blocks, y # p PROVE End(y) < p.offset \/ End(d) < y.offset
      BY <2>2
    <3>1. ASSUME NEW q \in prev, y = q \/ End(y) < q.offset PROVE End(y) < p.offset
      BY <1>5, <3>1
    <3>2. ASSUME NEW n \in next, y = n \/ End(n) < y.offset PROVE End(d) < y.offset
      BY <1>0, <1>4, <1>11, <3>2
    <3> QED
      BY <1>6, <3>1, <3>2
  <2> QED
    <3>1. {p} \in SUBSET m_blocks
      BY <2>1
    <3>2. Covers((m_blocks \ {p}) \union {b}, d, size)
      BY <2>2, <2>3, <2>4, <3>1 DEF Covers
    <3> QED
      BY <3>2 DEF b
(* All three become one.                                                   *)
<1>12. ASSUME NEW p \in prev, NEW n \in next, End(p) = d.offset, End(d) = n.offset
       PROVE  LET b == Block(p.offset, End(n) - p.offset)
              IN  /\ b # n
                  /\ Covers((m_blocks \ {p, n}) \union {b}, d, size)
  <2> DEFINE b == Block(p.offset, End(n) - p.offset)
  <2>1. p \in m_blocks /\ p.offset < d.offset /\ n \in m_blocks /\ d.offset < n.offset
    BY <1>4, <1>5
  <2>2. /\ b \in Blocks /\ b.offset = p.offset /\ End(b) = End(n)
        /\ Bytes(b) = p.offset .. (End(n) - 1)
    <3>1. p.offset < End(n) /\ End(n) <= size
      BY <1>0, <2>1
    <3> QED
      BY <1>0, <1>3, <2>1, <3>1
  <2> HIDE DEF b
  <2>3. Bytes(b) = Bytes(d) \union BytesOf({p, n})
    <3>1. /\ Bytes(d) = d.offset .. (n.offset - 1) /\ Bytes(p) = p.offset .. (d.offset - 1)
          /\ Bytes(n) = n.offset .. (End(n) - 1)
      BY <1>12 DEF Bytes
    <3>2. BytesOf({p, n}) = Bytes(p) \union Bytes(n)
      BY DEF BytesOf
    <3>3. p.offset .. (End(n) - 1) = (p.offset .. (d.offset - 1))
            \union (d.offset .. (n.offset - 1)) \union (n.offset .. (End(n) - 1))
      BY <1>0, <2>1, Joined
    <3> QED
      BY <2>2, <3>1, <3>2, <3>3
  <2>4. \A y \in m_blocks \ {p, n} : End(y) < b.offset \/ End(b) < y.offset
    <3> SUFFICES ASSUME NEW y \in m_blocks, y # p, y # n
                 PROVE  End(y) < p.offset \/ End(n) < y.offset
      BY <2>2
    <3>1. ASSUME NEW q \in prev, y = q \/ End(y) < q.offset PROVE End(y) < p.offset
      BY <1>5, <3>1
    <3>2. ASSUME NEW m \in next, y = m \/ End(m) < y.offset PROVE End(n) < y.offset
      BY <1>4, <3>2
    <3> QED
      BY <1>6, <3>1, <3>2
  <2>5. b # n
    BY <1>0, <2>1, <2>2
  <2> QED
    <3>1. {p, n} \in SUBSET m_blocks /\ End(b) <= size
      BY <1>0, <2>1, <2>2
    <3>2. Covers((m_blocks \ {p, n}) \union {b}, d, size)
      BY <2>2, <2>3, <2>4, <3>1 DEF Covers
    <3> QED
      BY <2>5, <3>2 DEF b
<1>13. CASE prev = {}
  <2>1. PICK n \in m_blocks : next = {n}
    <3>1. PICK y \in m_blocks : TRUE
      OBVIOUS
    <3>2. d.offset < y.offset
      BY <1>13, <3>1 DEF Before
    <3>3. ~ (y.offset <= d.offset)
      BY <1>0, <3>2
    <3> QED
      BY <3>3 DEF After
  <2>2. (CHOOSE x \in next : TRUE) = n
    BY <2>1
  <2>3. CASE End(d) = n.offset
    <3> DEFINE b == Block(d.offset, End(n) - d.offset)
    <3>1. /\ b # n /\ \A x \in m_blocks : x.offset # b.offset
          /\ Covers((m_blocks \ {n}) \union {b}, d, size)
      BY <1>10, <1>13, <2>1, <2>3
    <3>2. b = Block(d.offset, d.size + n.size)
      <4>1. d.size + n.size = End(n) - d.offset
        BY <1>0, <1>1, <1>2, <2>1, <2>3
      <4> QED
        BY <4>1
    <3>3. Merged(d, prev, next) = Insert(b, m_blocks) \ {n}
      BY <1>13, <2>2, <2>3, <3>2 DEF Merged
    <3> HIDE DEF b
    <3>4. Insert(b, m_blocks) = m_blocks \union {b}
      BY <3>1, InsertNew
    <3>5. (m_blocks \union {b}) \ {n} = (m_blocks \ {n}) \union {b}
      BY <3>1
    <3> QED
      BY <3>1, <3>3, <3>4, <3>5
  <2>4. CASE End(d) # n.offset
    <3>1. Merged(d, prev, next) = Insert(d, m_blocks)
      BY <1>13, <2>2, <2>4 DEF Merged
    <3> QED
      BY <1>9, <1>13, <2>1, <2>4, <3>1
  <2> QED
    BY <2>3, <2>4
<1>14. ASSUME NEW p \in prev PROVE Covers(Merged(d, prev, next), d, size)
  <2>1. /\ prev = {p} /\ prev # {} /\ (CHOOSE x \in prev : TRUE) = p
        /\ p \in m_blocks /\ p.offset < d.offset
    BY <1>5, <1>14
  <2>2. \A n \in next : (CHOOSE x \in next : TRUE) = n
    BY <1>4
  <2> DEFINE left == Block(p.offset, p.size + d.size)
  <2>3. CASE End(p) = d.offset
    <3>1. left = Block(p.offset, End(d) - p.offset)
      <4>1. p.size + d.size = End(d) - p.offset
        BY <1>0, <1>1, <1>2, <2>1, <2>3
      <4> QED
        BY <4>1
    <3>2. left.offset = p.offset /\ End(left) = End(d) /\ left.size = p.size + d.size
      BY <1>0, <1>3, <2>1, <3>1 DEF Block
    <3> HIDE DEF left
    <3>3. Insert(left, m_blocks \ {p}) = (m_blocks \ {p}) \union {left}
      <4>1. \A x \in m_blocks \ {p} : x.offset # left.offset
        BY <2>1, <3>2 DEF Apart
      <4> QED
        BY <4>1, InsertNew
    <3>4. ASSUME NEW n \in next, End(left) = n.offset
          PROVE  Covers(Merged(d, prev, next), d, size)
      <4> DEFINE b == Block(p.offset, End(n) - p.offset)
      <4>1. b # n /\ Covers((m_blocks \ {p, n}) \union {b}, d, size)
        BY <1>12, <1>14, <2>3, <3>2, <3>4
      <4>2. Block(left.offset, left.size + n.size) = b
        <5>1. left.size + n.size = End(n) - p.offset
          <6>1. n \in m_blocks
            BY <1>4, <3>4
          <6> QED
            BY <1>0, <1>1, <1>2, <2>1, <2>3, <3>2, <3>4, <6>1
        <5> QED
          BY <3>2, <5>1
      <4>3. Merged(d, prev, next)
              = Insert(b, ((m_blocks \ {p}) \union {left}) \ {left}) \ {n}
        BY <2>1, <2>2, <2>3, <3>3, <3>4, <4>2 DEF Merged, left
      <4> HIDE DEF b
      <4>4. ((m_blocks \ {p}) \union {left}) \ {left} = m_blocks \ {p}
        <5>1. left \notin m_blocks \ {p}
          BY <2>1, <3>2 DEF Apart
        <5> QED
          BY <5>1
      <4>5. Insert(b, m_blocks \ {p}) = (m_blocks \ {p}) \union {b}
        <5>1. b.offset = p.offset
          BY DEF b, Block
        <5>2. \A x \in m_blocks \ {p} : x.offset # b.offset
          BY <2>1, <5>1 DEF Apart
        <5> QED
          BY <5>2, InsertNew
      <4>6. ((m_blocks \ {p}) \union {b}) \ {n} = (m_blocks \ {p, n}) \union {b}
        BY <4>1
      <4> QED
        BY <4>1, <4>3, <4>4, <4>5, <4>6
    <3>5. CASE \A n \in next : End(left) # n.offset
      <4>1. Merged(d, prev, next) = (m_blocks \ {p}) \union {left}
        BY <2>1, <2>3, <3>3, <3>5 DEF Merged, left
      <4> QED
        BY <1>11, <1>14, <2>3, <3>1, <3>2, <3>5, <4>1
    <3> QED
      BY <3>4, <3>5
  <2>4. CASE End(p) # d.offset
    <3>1. \A q \in prev : End(q) # d.offset
      BY <2>1, <2>4
    <3>2. Insert(d, m_blocks) = m_blocks \union {d}
      BY <1>7, InsertNew
    <3>3. ASSUME NEW n \in next, End(d) = n.offset
          PROVE  Covers(Merged(d, prev, next), d, size)
      <4> DEFINE b == Block(d.offset, End(n) - d.offset)
      <4>1. /\ b # n /\ \A x \in m_blocks : x.offset # b.offset
            /\ Covers((m_blocks \ {n}) \union {b}, d, size)
        BY <1>10, <3>1, <3>3
      <4>2. Block(d.offset, d.size + n.size) = b
        <5>1. d.size + n.size = End(n) - d.offset
          <6>1. n \in m_blocks
            BY <1>4, <3>3
          <6> QED
            BY <1>0, <1>1, <1>2, <3>3, <6>1
        <5> QED
          BY <5>1
      <4>3. Merged(d, prev, next) = Insert(b, (m_blocks \union {d}) \ {d}) \ {n}
        BY <2>1, <2>2, <2>4, <3>2, <3>3, <4>2 DEF Merged
      <4> HIDE DEF b
      <4>4. (m_blocks \union {d}) \ {d} = m_blocks
        BY <1>7
      <4>5. Insert(b, m_blocks) = m_blocks \union {b}
        BY <4>1, InsertNew
      <4>6. (m_blocks \union {b}) \ {n} = (m_blocks \ {n}) \union {b}
        BY <4>1
      <4> QED
        BY <4>1, <4>3, <4>4, <4>5, <4>6
    <3>4. CASE \A n \in next : End(d) # n.offset
      <4>1. Merged(d, prev, next) = Insert(d, m_blocks)
        BY <2>1, <2>4, <3>4 DEF Merged
      <4> QED
        BY <1>9, <3>1, <3>4, <4>1
    <3> QED
      BY <3>3, <3>4
  <2> QED
    BY <2>3, <2>4
<1> QED
  BY <1>13, <1>14
-----------------------------------------------------------------------------
(* The invariant.                                                          *)

PieceInv == TypeOK /\ Apart(m_blocks, m_full_piece_size) /\ BytesInPlace

LEMMA CopiedInPlace ==
  ASSUME PieceInv, NEW d \in Blocks, NEW offset \in Nat,
         m_data' = Copied(d, offset), Received' = Received \union Bytes(d)
  PROVE  /\ BytesInPlace'
         /\ m_data' \in [0 .. (m_full_piece_size - 1) -> 0 .. (MaxSize - 1) \union {NoByte}]
<1>1. /\ m_full_piece_size \in 0 .. MaxSize /\ MaxSize \in Nat
      /\ DOMAIN m_data = 0 .. (m_full_piece_size - 1)
      /\ m_data \in [0 .. (m_full_piece_size - 1) -> 0 .. (MaxSize - 1) \union {NoByte}]
  BY PieceAssumption DEF PieceInv, TypeOK
<1>2. d.offset \in Nat
  BY BlockType
<1>3. \A k \in DOMAIN m_data : k \in Int
  BY <1>1
<1>4. m_data' = [k \in DOMAIN m_data |-> IF k \in Bytes(d) THEN k ELSE m_data[k]]
  <2>1. \A k \in DOMAIN m_data : Source(offset, (d.offset - offset) + (k - d.offset)) = k
    BY <1>2, <1>3 DEF Source
  <2> QED
    BY <2>1 DEF Copied
<1>5. DOMAIN m_data' = DOMAIN m_data
  BY <1>4
<1>6. \A k \in DOMAIN m_data : m_data'[k] = (IF k \in Received' THEN k ELSE NoByte)
  BY <1>4 DEF PieceInv, BytesInPlace
<1>7. BytesInPlace'
  BY <1>5, <1>6 DEF BytesInPlace
<1>8. \A k \in DOMAIN m_data : k \in 0 .. (MaxSize - 1)
  BY <1>1
<1> QED
  BY <1>1, <1>4, <1>7, <1>8

(* add, in one fact for each outcome: the bytes of the block are received, *)
(* or the block is refused.                                                *)
LEMMA AddEffect ==
  ASSUME PieceInv, NEW name, NEW b \in Blocks,
         HasBuffer => End(b) <= m_full_piece_size, add(name, b)
  PROVE  /\ UNCHANGED m_full_piece_size
         /\ \/ /\ ~HasBuffer \/ m_id \notin {NoName, name}
               /\ last_add' = Add(name, b, TRUE)
               /\ UNCHANGED << m_data, m_id, m_blocks >>
            \/ /\ HasBuffer /\ m_id \in {NoName, name} /\ m_id' = name
               /\ Split(Bytes(b))
               /\ last_add' = Add(name, b, TRUE)
               /\ UNCHANGED << m_data, m_blocks >>
            \/ /\ HasBuffer /\ m_id \in {NoName, name} /\ m_id' = name
               /\ ~Split(Bytes(b))
               /\ last_add' = Add(name, b, FALSE)
               /\ Received' = Received \union Bytes(b)
               /\ Apart(m_blocks', m_full_piece_size)
               /\ BytesInPlace'
               /\ m_data' \in [0 .. (m_full_piece_size - 1) -> 0 .. (MaxSize - 1) \union {NoByte}]
<1>1. CASE AddThrows(name, b)
  BY <1>1 DEF AddThrows
<1>2. CASE /\ HasBuffer /\ m_id \in {NoName, name} /\ m_id' = name
           /\ UNCHANGED m_full_piece_size
           /\ AddFirst(name, b) \/ AddNext(name, b)
  <2>0. /\ m_full_piece_size \in 0 .. MaxSize /\ m_full_piece_size \in Nat
        /\ Apart(m_blocks, m_full_piece_size) /\ End(b) <= m_full_piece_size
        /\ b.offset \in Nat
        /\ m_data \in [0 .. (m_full_piece_size - 1) -> 0 .. (MaxSize - 1) \union {NoByte}]
    BY <1>2, PieceAssumption, BlockType DEF PieceInv, TypeOK
  <2>1. CASE AddFirst(name, b)
    <3>1. m_blocks = {} /\ m_blocks' = {b} /\ m_data' = Copied(b, b.offset)
          /\ last_add' = Add(name, b, FALSE)
      BY <2>1 DEF AddFirst
    <3>2. Received = {} /\ Received' = Bytes(b)
      BY <3>1 DEF Received
    <3>3. Apart({b}, m_full_piece_size)
      BY <2>0, BlockType DEF Apart
    <3>4. ~Split(Bytes(b))
      BY <3>2 DEF Split
    <3>5. BytesInPlace'
          /\ m_data' \in [0 .. (m_full_piece_size - 1) -> 0 .. (MaxSize - 1) \union {NoByte}]
      BY <2>0, <3>1, <3>2, CopiedInPlace
    <3> QED
      BY <1>2, <3>1, <3>2, <3>3, <3>4, <3>5
  <2>2. CASE AddNext(name, b)
    <3> DEFINE cut == CutBeside(CutBeside([error |-> "OK", block |-> b], Prev(b)), NextOf(b))
    <3>1. /\ m_blocks # {}
          /\ \/ /\ cut.error = "RIGHT_IN_SELF"
                /\ last_add' = Add(name, b, TRUE)
                /\ UNCHANGED << m_data, m_blocks >>
             \/ /\ cut.error = "SELF_IN_RIGHT" \/ (cut.error = "OK" /\ cut.block.size = 0)
                /\ last_add' = Add(name, b, FALSE)
                /\ UNCHANGED << m_data, m_blocks >>
             \/ /\ cut.error = "OK" /\ cut.block.size > 0
                /\ m_data' = Copied(cut.block, b.offset)
                /\ m_blocks' = Merged(cut.block, Prev(b), NextOf(b))
                /\ last_add' = Add(name, b, FALSE)
      BY <2>2 DEF AddNext
    <3> HIDE DEF cut
    <3>2. \/ cut.error = "RIGHT_IN_SELF" /\ Split(Bytes(b))
          \/ /\ cut.error = "SELF_IN_RIGHT" \/ (cut.error = "OK" /\ cut.block.size = 0)
             /\ Bytes(b) \subseteq Received
          \/ /\ cut.error = "OK" /\ cut.block.size > 0
             /\ cut.block \in Blocks /\ End(cut.block) <= m_full_piece_size
             /\ Bytes(b) \ Received = Bytes(cut.block)
             /\ Before(Prev(b), cut.block.offset) /\ After(NextOf(b), cut.block.offset)
             /\ \A p \in Prev(b) : End(p) <= cut.block.offset
             /\ \A n \in NextOf(b) : End(cut.block) <= n.offset
      BY <2>0, CutTwice DEF cut
    <3>3. CASE cut.error = "RIGHT_IN_SELF" /\ Split(Bytes(b)) /\ last_add' = Add(name, b, TRUE)
               /\ UNCHANGED << m_data, m_blocks >>
      BY <1>2, <3>3
    <3>4. ASSUME Bytes(b) \subseteq Received, last_add' = Add(name, b, FALSE),
                 UNCHANGED << m_data, m_blocks >>
          PROVE  /\ ~Split(Bytes(b)) /\ last_add' = Add(name, b, FALSE)
                 /\ Received' = Received \union Bytes(b)
                 /\ Apart(m_blocks', m_full_piece_size)
                 /\ BytesInPlace'
                 /\ m_data' \in [0 .. (m_full_piece_size - 1) -> 0 .. (MaxSize - 1) \union {NoByte}]
      <4>1. ~Split(Bytes(b))
        BY <3>4 DEF Split
      <4>2. Received' = Received
        BY <3>4 DEF Received
      <4>3. BytesInPlace'
        BY <3>4, <4>2 DEF PieceInv, BytesInPlace
      <4> QED
        BY <2>0, <3>4, <4>1, <4>2, <4>3
    <3>5. CASE /\ cut.error = "OK" /\ cut.block.size > 0
               /\ cut.block \in Blocks /\ End(cut.block) <= m_full_piece_size
               /\ Bytes(b) \ Received = Bytes(cut.block)
               /\ Before(Prev(b), cut.block.offset) /\ After(NextOf(b), cut.block.offset)
               /\ \A p \in Prev(b) : End(p) <= cut.block.offset
               /\ \A n \in NextOf(b) : End(cut.block) <= n.offset
      <4> DEFINE d == cut.block
      <4>1. /\ m_data' = Copied(d, b.offset) /\ m_blocks' = Merged(d, Prev(b), NextOf(b))
            /\ last_add' = Add(name, b, FALSE)
        <5>1. ~ (cut.block.size = 0) /\ cut.error # "RIGHT_IN_SELF" /\ cut.error # "SELF_IN_RIGHT"
          BY <3>5, BlockType
        <5> QED
          BY <3>1, <5>1
      <4>2. Covers(m_blocks', d, m_full_piece_size)
        BY <2>0, <3>1, <3>5, <4>1, MergedCovers
      <4>3. PICK gone \in SUBSET m_blocks, x \in Blocks :
              /\ m_blocks' = (m_blocks \ gone) \union {x}
              /\ Bytes(x) = Bytes(d) \union BytesOf(gone)
              /\ End(x) <= m_full_piece_size
              /\ \A y \in m_blocks \ gone : End(y) < x.offset \/ End(x) < y.offset
        BY <4>2 DEF Covers
      <4>4. Apart(m_blocks', m_full_piece_size)
        BY <2>0, <4>3, Glued
      <4>5. Received' = Received \union Bytes(d)
        <5>1. BytesOf(m_blocks') = BytesOf(m_blocks \ gone) \union Bytes(x)
          BY <4>3 DEF BytesOf
        <5>2. BytesOf(m_blocks) = BytesOf(m_blocks \ gone) \union BytesOf(gone)
          BY DEF BytesOf
        <5>3. Received = BytesOf(m_blocks) /\ Received' = BytesOf(m_blocks')
          BY DEF Received, BytesOf
        <5> QED
          BY <4>3, <5>1, <5>2, <5>3
      <4>6. BytesInPlace'
            /\ m_data' \in [0 .. (m_full_piece_size - 1) -> 0 .. (MaxSize - 1) \union {NoByte}]
        BY <2>0, <3>5, <4>1, <4>5, CopiedInPlace
      <4>7. ~Split(Bytes(b))
        <5> SUFFICES ASSUME NEW i \in Bytes(b), NEW j \in Bytes(b), NEW k \in Bytes(b),
                            i < j, j < k, i \notin Received, j \in Received, k \notin Received
                     PROVE  FALSE
          BY DEF Split
        <5>1. i \in Bytes(d) /\ k \in Bytes(d)
          BY <3>5
        <5>2. j \in Bytes(d)
          BY <5>1, <3>5, BlockType DEF Bytes
        <5> QED
          BY <3>5, <5>2
      <4>8. Received' = Received \union Bytes(b)
        BY <3>5, <4>5
      <4> QED
        BY <1>2, <4>1, <4>4, <4>6, <4>7, <4>8
    <3>6. CASE cut.error = "RIGHT_IN_SELF" /\ Split(Bytes(b))
      <4>1. last_add' = Add(name, b, TRUE) /\ UNCHANGED << m_data, m_blocks >>
        BY <3>1, <3>6
      <4> QED
        BY <3>3, <3>6, <4>1
    <3>7. CASE /\ cut.error = "SELF_IN_RIGHT" \/ (cut.error = "OK" /\ cut.block.size = 0)
               /\ Bytes(b) \subseteq Received
      <4>1. ~ (cut.error = "OK" /\ cut.block.size > 0)
        BY <3>7
      <4>2. cut.error # "RIGHT_IN_SELF"
        BY <3>7
      <4>3. last_add' = Add(name, b, FALSE) /\ UNCHANGED << m_data, m_blocks >>
        BY <3>1, <4>1, <4>2
      <4>4. /\ ~Split(Bytes(b)) /\ last_add' = Add(name, b, FALSE)
            /\ Received' = Received \union Bytes(b)
            /\ Apart(m_blocks', m_full_piece_size)
            /\ BytesInPlace'
            /\ m_data' \in [0 .. (m_full_piece_size - 1) -> 0 .. (MaxSize - 1) \union {NoByte}]
        BY <3>4, <3>7, <4>3
      <4> QED
        BY <1>2, <4>4
    <3> QED
      BY <3>2, <3>5, <3>6, <3>7
  <2> QED
    BY <1>2, <2>1, <2>2
<1> QED
  BY <1>1, <1>2 DEF add, AddThrows
-----------------------------------------------------------------------------
NoBytes(data) == DOMAIN data = {} /\ data \in [{} -> 0 .. (MaxSize - 1) \union {NoByte}]

LEMMA EmptyData == NoBytes(<< >>)
BY DEF NoBytes

(* An empty buffer, of any size.                                           *)
LEMMA Emptied ==
  ASSUME m_blocks' = {}, last_add' = NoAdd,
         m_full_piece_size' \in 0 .. MaxSize, m_id' \in Names \union {NoName},
         m_data' \in [0 .. (m_full_piece_size' - 1) -> 0 .. (MaxSize - 1) \union {NoByte}],
         \A k \in DOMAIN m_data' : m_data'[k] = NoByte
  PROVE  PieceInv'
<1>1. /\ NoAdd.name = NoName /\ NoAdd.thrown = FALSE
      /\ NoAdd.block \in [offset: 0 .. (MaxSize - 1), size: 0 .. MaxSize]
  BY PieceAssumption DEF NoAdd, Add, Block
<1>2. TypeOK'
  BY <1>1 DEF TypeOK
<1>3. Apart(m_blocks', m_full_piece_size')
  BY DEF Apart
<1>4. Received' = {}
  BY DEF Received
<1>5. BytesInPlace'
  BY <1>4 DEF BytesInPlace
<1> QED
  BY <1>2, <1>3, <1>5 DEF PieceInv

LEMMA Cleared == ASSUME clear PROVE PieceInv'
<1>1. m_data' \in [0 .. (0 - 1) -> 0 .. (MaxSize - 1) \union {NoByte}] /\ DOMAIN m_data' = {}
  <2>1. 0 .. (0 - 1) = {}
    OBVIOUS
  <2> QED
    BY <2>1, EmptyData DEF NoBytes, clear
<1>2. 0 \in 0 .. MaxSize
  BY PieceAssumption
<1> QED
  BY <1>1, <1>2, Emptied DEF clear

LEMMA Started ==
  ASSUME NEW name \in Names \union {NoName}, NEW size \in 1 .. MaxSize, init(name, size)
  PROVE  PieceInv'
<1>1. /\ m_data' = [k \in 0 .. (size - 1) |-> NoByte] /\ m_full_piece_size' = size
      /\ size \in 0 .. MaxSize
  BY PieceAssumption DEF init
<1> QED
  BY <1>1, Emptied DEF init

(* The blocks that Next adds.                                              *)
LEMMA NewBlock ==
  ASSUME NEW offset \in 0 .. (MaxSize - 1), NEW size \in 1 .. MaxSize,
         offset + size <= (IF HasBuffer THEN m_full_piece_size ELSE MaxSize)
  PROVE  /\ Block(offset, size) \in Blocks
         /\ HasBuffer => End(Block(offset, size)) <= m_full_piece_size
         /\ Bytes(Block(offset, size)) = offset .. (offset + size - 1)
BY DEF Block, Blocks, End, Bytes

LEMMA Added ==
  ASSUME PieceInv, NEW name \in Names, NEW b \in Blocks,
         HasBuffer => End(b) <= m_full_piece_size, add(name, b)
  PROVE  PieceInv'
<1>1. /\ m_full_piece_size' = m_full_piece_size
      /\ m_id' \in {m_id, name}
      /\ last_add' \in {Add(name, b, TRUE), Add(name, b, FALSE)}
  BY AddEffect
<1>2. Apart(m_blocks', m_full_piece_size)
  BY AddEffect DEF PieceInv
<1>3. BytesInPlace'
  <2>1. CASE UNCHANGED << m_data, m_blocks >>
    <3>1. Received' = Received
      BY <2>1 DEF Received
    <3> QED
      BY <2>1, <3>1 DEF PieceInv, BytesInPlace
  <2>2. UNCHANGED << m_data, m_blocks >> \/ BytesInPlace'
    BY AddEffect
  <2> QED
    BY <2>1, <2>2
<1>4. m_data' \in [0 .. (m_full_piece_size - 1) -> 0 .. (MaxSize - 1) \union {NoByte}]
  <2>1. m_data' = m_data
        \/ m_data' \in [0 .. (m_full_piece_size - 1) -> 0 .. (MaxSize - 1) \union {NoByte}]
    BY AddEffect
  <2> QED
    BY <2>1 DEF PieceInv, TypeOK
<1>5. /\ last_add'.name = name /\ last_add'.thrown \in BOOLEAN /\ last_add'.block = b
  <2>1. \A t \in BOOLEAN :
          Add(name, b, t).name = name /\ Add(name, b, t).thrown = t /\ Add(name, b, t).block = b
    BY DEF Add
  <2> QED
    BY <1>1, <2>1
<1>6. b \in [offset: 0 .. (MaxSize - 1), size: 0 .. MaxSize]
  BY PieceAssumption DEF Blocks
<1>7. TypeOK'
  <2>1. m_blocks' \subseteq [offset: 0 .. (MaxSize - 1), size: 1 .. MaxSize]
    BY <1>2 DEF Apart, Blocks
  <2>2. m_full_piece_size \in 0 .. MaxSize /\ m_id \in Names \union {NoName}
    BY DEF PieceInv, TypeOK
  <2> QED
    BY <1>1, <1>4, <1>5, <1>6, <2>1, <2>2 DEF TypeOK
<1> QED
  BY <1>1, <1>2, <1>3, <1>7 DEF PieceInv

LEMMA PieceInvariant == Spec => []PieceInv
<1>1. Init => PieceInv
  <2> SUFFICES ASSUME Init PROVE PieceInv
    OBVIOUS
  <2>1. DOMAIN m_data = {}
        /\ m_data \in [0 .. (m_full_piece_size - 1) -> 0 .. (MaxSize - 1) \union {NoByte}]
    <3>1. 0 .. (0 - 1) = {}
      OBVIOUS
    <3> QED
      BY <3>1, EmptyData DEF Init, NoBytes
  <2>2. /\ NoAdd.name = NoName /\ NoAdd.thrown = FALSE
        /\ NoAdd.block \in [offset: 0 .. (MaxSize - 1), size: 0 .. MaxSize]
    BY PieceAssumption DEF NoAdd, Add, Block
  <2>3. TypeOK
    <3>1. m_full_piece_size \in 0 .. MaxSize /\ m_id \in Names \union {NoName} /\ m_blocks = {}
      BY PieceAssumption DEF Init
    <3>2. last_add = NoAdd
      BY DEF Init
    <3> QED
      BY <2>1, <2>2, <3>1, <3>2 DEF TypeOK
  <2> QED
    BY <2>1, <2>3 DEF Init, PieceInv, Apart, BytesInPlace
<1>2. PieceInv /\ [Next]_vars => PieceInv'
  <2> SUFFICES ASSUME PieceInv, [Next]_vars PROVE PieceInv'
    OBVIOUS
  <2>1. CASE \E name \in Names \union {NoName}, size \in 1 .. MaxSize : init(name, size)
    BY <2>1, Started
  <2>2. ASSUME NEW name \in Names, NEW offset \in 0 .. (MaxSize - 1), NEW size \in 1 .. MaxSize,
               offset + size <= (IF HasBuffer THEN m_full_piece_size ELSE MaxSize),
               add(name, Block(offset, size))
        PROVE  PieceInv'
    BY <2>2, NewBlock, Added
  <2>3. CASE get \/ clear
    BY <2>3, Cleared DEF get
  <2>4. CASE UNCHANGED vars
    <3>1. Received' = Received
      BY <2>4 DEF vars, Received
    <3> QED
      BY <2>4, <3>1 DEF vars, PieceInv, TypeOK, Apart, BytesInPlace
  <2> QED
    BY <2>1, <2>2, <2>3, <2>4 DEF Next
<1> QED
  BY <1>1, <1>2, PTL DEF Spec
-----------------------------------------------------------------------------
(* The type of every variable, in every reachable state.                   *)
THEOREM PieceTyping == Spec => []TypeOK
<1>1. PieceInv => TypeOK
  BY DEF PieceInv
<1> QED
  BY <1>1, PieceInvariant, PTL

(* However the blocks of a peer arrive, those kept neither overlap nor     *)
(* touch: what add cuts and glues leaves at most one block between two     *)
(* bytes that miss.                                                        *)
THEOREM BlocksApart == Spec => []BlocksMerged
<1>1. PieceInv => BlocksMerged
  BY DEF PieceInv, Apart, BlocksMerged
<1> QED
  BY <1>1, PieceInvariant, PTL

(* Every byte received is in the buffer at its offset.                     *)
THEOREM BytesPlaced == Spec => []BytesInPlace
<1>1. PieceInv => BytesInPlace
  BY DEF PieceInv
<1> QED
  BY <1>1, PieceInvariant, PTL

LEMMA FirstBlock ==
  ASSUME PieceInv, m_blocks # {}
  PROVE  First \in m_blocks /\ \A y \in m_blocks : First.offset <= y.offset
<1> DEFINE S == {y.offset : y \in m_blocks}
<1>1. S \in SUBSET Nat /\ S # {}
  BY BlockType DEF PieceInv, Apart
<1>2. PICK o \in S : \A x \in S : o <= x
  <2> HIDE DEF S
  <2> QED
    BY <1>1, Least
<1>3. PICK x \in m_blocks : x.offset = o
  OBVIOUS
<1>4. \A y \in m_blocks : x.offset <= y.offset
  BY <1>2, <1>3
<1> QED
  BY <1>4 DEF First

LEMMA FullExactly == ASSUME PieceInv PROVE FullWhenAllReceived
<1> SUFFICES ASSUME HasBuffer PROVE full <=> Received = DOMAIN m_data
  BY DEF FullWhenAllReceived
<1>1. /\ DOMAIN m_data = 0 .. (m_full_piece_size - 1) /\ m_full_piece_size \in Nat
      /\ 0 < m_full_piece_size
  BY PieceAssumption DEF PieceInv, TypeOK, HasBuffer
<1>2. \A x \in m_blocks : /\ x.offset \in Nat /\ End(x) \in Nat /\ x.offset < End(x)
                          /\ End(x) <= m_full_piece_size
  BY BlockType DEF PieceInv, Apart
<1>3. Received \subseteq DOMAIN m_data
  <2> SUFFICES ASSUME NEW x \in m_blocks, NEW k \in Bytes(x) PROVE k \in DOMAIN m_data
    BY DEF Received
  <2> QED
    BY <1>1, <1>2 DEF Bytes
<1>4. ASSUME full PROVE DOMAIN m_data \subseteq Received
  <2>1. First \in m_blocks /\ First.size = m_full_piece_size
    BY <1>4, FirstBlock DEF full
  <2>2. First.size \in Nat /\ End(First) = First.offset + First.size
    BY <2>1, BlockType DEF PieceInv, Apart, End
  <2>3. First.offset = 0 /\ End(First) = m_full_piece_size
    BY <1>1, <1>2, <2>1, <2>2
  <2>4. Bytes(First) = DOMAIN m_data
    BY <1>1, <2>3 DEF Bytes
  <2> QED
    BY <2>1, <2>4 DEF Received
<1>5. ASSUME Received = DOMAIN m_data PROVE full
  <2>1. PICK z \in m_blocks : 0 \in Bytes(z)
    <3>1. 0 \in Received
      BY <1>1, <1>5
    <3> QED
      BY <3>1 DEF Received
  <2>2. m_blocks # {} /\ First \in m_blocks /\ First.offset <= z.offset
    BY <2>1, FirstBlock
  <2>3. First.offset = 0
    BY <1>2, <2>1, <2>2 DEF Bytes
  <2>4. End(First) = m_full_piece_size
    <3> SUFFICES ASSUME End(First) # m_full_piece_size PROVE FALSE
      OBVIOUS
    <3>1. End(First) \in 0 .. (m_full_piece_size - 1)
      BY <1>1, <1>2, <2>2
    <3>2. PICK y \in m_blocks : End(First) \in Bytes(y)
      BY <1>1, <1>5, <3>1 DEF Received
    <3>3. y.offset <= End(First) /\ End(First) < End(y)
      BY <1>2, <2>2, <3>2 DEF Bytes
    <3>4. CASE First.offset < y.offset
      <4>1. End(First) < y.offset
        BY <2>2, <3>4 DEF PieceInv, Apart
      <4> QED
        BY <1>2, <2>2, <3>3, <4>1
    <3>5. CASE First.offset = y.offset
      <4>1. First = y
        BY <2>2, <3>5 DEF PieceInv, Apart
      <4> QED
        BY <1>2, <2>2, <3>3, <4>1
    <3> QED
      BY <1>2, <2>3, <3>4, <3>5
  <2>5. First.size \in Nat /\ End(First) = First.offset + First.size
    BY <2>2, BlockType DEF PieceInv, Apart, End
  <2> QED
    BY <2>2, <2>3, <2>4, <2>5 DEF full
<1> QED
  BY <1>3, <1>4, <1>5

(* full, which compares the size of the first block only, is true when     *)
(* every byte of the piece has been received and not before.               *)
THEOREM FullAtLast == Spec => []FullWhenAllReceived
<1> QED
  BY PieceInvariant, FullExactly, PTL
-----------------------------------------------------------------------------
(* The abstract buffer.                                                    *)

LEMMA AssemblyInit == ASSUME Init PROVE Assembly!Init
<1>1. Received = {} /\ HasBuffer = FALSE
  BY EmptyData DEF Init, Received, HasBuffer, NoBytes
<1>2. Bytes(Block(0, 0)) = {}
  BY DEF Bytes, Block, End
<1> QED
  BY <1>1, <1>2 DEF Init, NoAdd, Add, Assembly!Init, Assembly!Closed, Assembly!NoAnswer, Assembly!Answer

LEMMA AssemblyClose == ASSUME clear PROVE Assembly!Next
<1>1. Received' = {} /\ HasBuffer' = FALSE
  BY EmptyData DEF clear, Received, HasBuffer, NoBytes
<1>2. Bytes(Block(0, 0)) = {}
  BY DEF Bytes, Block, End
<1>3. Assembly!Close
  BY <1>1, <1>2 DEF clear, NoAdd, Add, Bytes, Assembly!Close, Assembly!NoAnswer, Assembly!Answer
<1> QED
  BY <1>3 DEF Assembly!Next

LEMMA AssemblyOpen ==
  ASSUME NEW name \in Names \union {NoName}, NEW size \in 1 .. MaxSize, init(name, size)
  PROVE  Assembly!Next
<1>1. Received' = {}
  BY DEF init, Received
<1>2. HasBuffer' = TRUE
  <2>1. 0 \in 0 .. (size - 1)
    BY PieceAssumption
  <2> QED
    BY <2>1 DEF init, HasBuffer
<1>3. Bytes(Block(0, 0)) = {}
  BY DEF Bytes, Block, End
<1>4. Assembly!Open(name, size)
  BY <1>1, <1>2, <1>3 DEF init, NoAdd, Add, Bytes, Assembly!Open, Assembly!NoAnswer, Assembly!Answer
<1> QED
  BY <1>4 DEF Assembly!Next

LEMMA AssemblyAdd ==
  ASSUME PieceInv, NEW name \in Names, NEW offset \in 0 .. (MaxSize - 1), NEW size \in 1 .. MaxSize,
         offset + size <= (IF HasBuffer THEN m_full_piece_size ELSE MaxSize),
         add(name, Block(offset, size))
  PROVE  Assembly!Next
<1> DEFINE b    == Block(offset, size)
           last == offset + size - 1
<1>1. /\ b \in Blocks /\ Bytes(b) = offset .. last
      /\ HasBuffer => End(b) <= m_full_piece_size
  BY NewBlock
<1>2. /\ offset \in 0 .. (MaxSize - 1) /\ last \in 0 .. (MaxSize - 1) /\ offset <= last
      /\ HasBuffer => last < m_full_piece_size
  BY PieceAssumption DEF PieceInv, TypeOK
<1>3. /\ name \in (Names \union {NoName}) \ {NoName}
      /\ HasBuffer \in BOOLEAN
  BY PieceAssumption DEF NoName, HasBuffer
<1>4. \A t \in BOOLEAN : last_add' = Add(name, b, t) =>
        /\ last_add'.name = name /\ last_add'.block = b /\ last_add'.thrown = t
  BY DEF Add
<1>5. \A t \in BOOLEAN : last_add' = Add(name, b, t) =>
        [id |-> last_add'.name, range |-> Bytes(last_add'.block), refused |-> last_add'.thrown]
          = Assembly!Answer(name, offset .. last, t)
  BY <1>1, <1>4 DEF Assembly!Answer
<1>6. m_full_piece_size' = m_full_piece_size
  BY <1>1, AddEffect
<1> HIDE DEF b, last
<1>7. Assembly!Accept(name, offset .. last) \/ Assembly!Refuse(name, offset .. last)
  <2>1. CASE /\ ~HasBuffer \/ m_id \notin {NoName, name}
             /\ last_add' = Add(name, b, TRUE)
             /\ UNCHANGED << m_data, m_id, m_blocks >>
    <3>1. Received' = Received /\ HasBuffer' = HasBuffer
      BY <2>1 DEF Received, HasBuffer
    <3>2. m_id' \in IF HasBuffer /\ m_id = NoName THEN {name} ELSE {m_id}
      BY <2>1
    <3> QED
      BY <1>5, <1>6, <2>1, <3>1, <3>2 DEF Assembly!Refuse, Bytes
  <2>2. CASE /\ HasBuffer /\ m_id \in {NoName, name} /\ m_id' = name
             /\ Split(Bytes(b))
             /\ last_add' = Add(name, b, TRUE)
             /\ UNCHANGED << m_data, m_blocks >>
    <3>1. Received' = Received /\ HasBuffer' = HasBuffer
      BY <2>2 DEF Received, HasBuffer
    <3>2. m_id' \in IF HasBuffer /\ m_id = NoName THEN {name} ELSE {m_id}
      BY <2>2
    <3>3. Assembly!Splits(offset .. last)
      BY <1>1, <2>2 DEF Split, Assembly!Splits
    <3> QED
      BY <1>5, <1>6, <2>2, <3>1, <3>2, <3>3 DEF Assembly!Refuse, Bytes
  <2>3. CASE /\ HasBuffer /\ m_id \in {NoName, name} /\ m_id' = name
             /\ ~Split(Bytes(b))
             /\ last_add' = Add(name, b, FALSE)
             /\ Received' = Received \union Bytes(b)
             /\ DOMAIN m_data' = DOMAIN m_data
    <3>1. HasBuffer' = HasBuffer
      BY <2>3 DEF HasBuffer
    <3>2. ~Assembly!Splits(offset .. last)
      BY <1>1, <2>3 DEF Split, Assembly!Splits
    <3> QED
      BY <1>1, <1>5, <1>6, <2>3, <3>1, <3>2 DEF Assembly!Accept, Bytes
  <2> QED
    <3>1. DOMAIN m_data = 0 .. (m_full_piece_size - 1)
      BY DEF PieceInv, TypeOK
    <3>2. add(name, b)
      BY DEF b
    <3> QED
      BY <1>1, <2>1, <2>2, <2>3, <3>1, <3>2, AddEffect
<1> QED
  BY <1>2, <1>3, <1>7 DEF Assembly!Next

(* The ordered set of blocks stands for a set of bytes: whatever arrives,  *)
(* add takes in every byte of a block or refuses the block, and refuses it *)
(* only when bytes already received separate those that miss.              *)
THEOREM AssemblyImplemented == Spec => ImplementsAssembly
<1>1. PieceInv /\ [Next]_vars => [Assembly!Next]_(Assembly!assembly)
  <2> SUFFICES ASSUME PieceInv, [Next]_vars
               PROVE  Assembly!Next \/ UNCHANGED Assembly!assembly
    OBVIOUS
  <2>1. CASE \E name \in Names \union {NoName}, size \in 1 .. MaxSize : init(name, size)
    BY <2>1, AssemblyOpen
  <2>2. ASSUME NEW name \in Names, NEW offset \in 0 .. (MaxSize - 1), NEW size \in 1 .. MaxSize,
               offset + size <= (IF HasBuffer THEN m_full_piece_size ELSE MaxSize),
               add(name, Block(offset, size))
        PROVE  Assembly!Next
    BY <2>2, AssemblyAdd
  <2>3. CASE get \/ clear
    BY <2>3, AssemblyClose DEF get
  <2>4. CASE UNCHANGED vars
    <3>1. UNCHANGED Assembly!assembly
      BY <2>4 DEF vars, Assembly!assembly, HasBuffer, Received, Bytes
    <3> QED
      BY <3>1
  <2> QED
    BY <2>1, <2>2, <2>3, <2>4 DEF Next
<1> QED
  BY <1>1, AssemblyInit, PieceInvariant, PTL DEF Spec, ImplementsAssembly, Assembly!Spec
=============================================================================
