------------------------ MODULE SlidingPuzzle_proofs ------------------------
(***************************************************************************)
(* What SlidingPuzzle promises for every size of board and every even      *)
(* bound of the shuffle.                                                   *)
(***************************************************************************)
EXTENDS SlidingPuzzle, FiniteSetTheorems, FunctionTheorems, WellFoundedInduction, TLAPS

------------------------------------------------------------------------------
(***************************************************************************)
(* Arithmetic of row-major positions                                       *)
(***************************************************************************)

\* The least element of a set of naturals, in the form the proofs below use
\* for their inductions over the cells of a board.
LEMMA LeastNat ==
    ASSUME NEW T, T \subseteq Nat, T # {}
    PROVE  \E m \in T : \A k \in T : m <= k
<1> DEFINE R == OpToRel(<, Nat)
<1>1. \A k, m \in Nat : k < m => <<k, m>> \in R
  BY DEF OpToRel
<1>2. IsWellFoundedOn(R, Nat)
  BY NatLessThanWellFounded
<1> HIDE DEF R
<1>3. PICK m \in T : \A k \in T : ~(<<k, m>> \in R)
  BY <1>2, WFMin
<1>4. ASSUME NEW k \in T PROVE ~(k < m)
  BY <1>1, <1>3, Zenon
<1>5. \A k, n \in Nat : ~(k < n) => n <= k
  OBVIOUS
<1> QED BY <1>4, <1>5, Zenon

\* Multiplication is monotone.
LEMMA TimesMonotone ==
    ASSUME NEW a \in Int, NEW b \in Int, NEW c \in Nat, a <= b
    PROVE  a * c <= b * c
<1>1. b * c - a * c = (b - a) * c
  OBVIOUS
<1>2. (b - a) * c >= 0
  OBVIOUS
<1> QED BY <1>1, <1>2

\* A cell in an earlier row comes before every cell of a later row.
LEMMA EarlierRow ==
    ASSUME NEW c \in Nat, NEW i \in Int, NEW k \in Int, i < k,
           NEW j \in 0 .. c - 1
    PROVE  i * c + j < k * c
<1>1. (i + 1) * c <= k * c
  BY TimesMonotone
<1>2. (i + 1) * c = i * c + c
  OBVIOUS
<1> QED BY <1>1, <1>2

\* Division with remainder.
LEMMA DivMod ==
    ASSUME NEW n \in Nat, NEW c \in Nat, c > 0
    PROVE  /\ n \div c \in Nat /\ n % c \in 0 .. c - 1
           /\ n = ((n \div c) * c) + (n % c)
  OBVIOUS

------------------------------------------------------------------------------
(***************************************************************************)
(* Boards as bijections                                                    *)
(***************************************************************************)

\* Board p of r rows and c columns holds each of 0 .. r*c-1 exactly once.
Bijective(p, r, c) ==
    /\ p \in [Cells(r, c) -> 0 .. r * c - 1]
    /\ \A x, y \in Cells(r, c) : p[x] = p[y] => x = y
    /\ \A v \in 0 .. r * c - 1 : \E x \in Cells(r, c) : p[x] = v

\* The array the Make listener fills holds every tile and the blank once.
LEMMA OrderedBijective ==
    ASSUME NEW r \in Nat, NEW c \in Nat
    PROVE  Bijective(Ordered(r, c), r, c)
<1> DEFINE C == Cells(r, c)
           p == Ordered(r, c)
           last == <<r - 1, c - 1>>
<1>1. ASSUME NEW x \in C
      PROVE  /\ x[1] \in Nat /\ x[1] <= r - 1 /\ x[2] \in 0 .. c - 1
             /\ x = <<x[1], x[2]>>
  BY DEF Cells
<1>2. ASSUME NEW x \in C
      PROVE  x[1] * c + x[2] \in Nat /\ x[1] * c + x[2] < r * c
  BY <1>1, EarlierRow
<1>3. ASSUME NEW x \in C, x # last
      PROVE  x[1] * c + x[2] + 1 < r * c
  <2>1. CASE x[1] < r - 1
    <3>1. x[1] * c + x[2] < (r - 1) * c
      BY <1>1, <2>1, EarlierRow
    <3>2. (r - 1) * c = r * c - c /\ c >= 1
      BY <1>1
    <3>3. x[1] * c \in Int /\ r * c \in Int /\ x[2] \in Int
      BY <1>1
    <3> QED BY <3>1, <3>2, <3>3
  <2>2. CASE x[1] = r - 1
    <3>1. x[2] < c - 1
      BY <1>1, <1>3, <2>2
    <3>2. (r - 1) * c = r * c - c
      OBVIOUS
    <3> QED BY <3>1, <3>2, <1>1, <2>2
  <2> QED BY <1>1, <2>1, <2>2
<1>4. \A x \in C : p[x] = IF x = last THEN 0 ELSE x[1] * c + x[2] + 1
  BY DEF Ordered
<1>5. p \in [C -> 0 .. r * c - 1]
  <2>1. ASSUME NEW x \in C
        PROVE  (IF x = last THEN 0 ELSE x[1] * c + x[2] + 1) \in 0 .. r * c - 1
    <3>1. x[1] * c + x[2] \in Nat /\ x[1] * c + x[2] < r * c /\ r * c \in Int
      BY <1>2
    <3> QED BY <3>1, <1>3
  <2> QED BY <2>1 DEF Ordered
<1>6. ASSUME NEW x \in C, NEW y \in C, p[x] = p[y] PROVE x = y
  <2>1. CASE x = last \/ y = last
    BY <1>2, <1>4, <1>6, <2>1
  <2>2. CASE x # last /\ y # last
    <3>1. x[1] * c + x[2] = y[1] * c + y[2]
      BY <1>2, <1>4, <1>6, <2>2
    <3>2. ~(x[1] < y[1])
      BY <1>1, <3>1, EarlierRow
    <3>3. ~(y[1] < x[1])
      BY <1>1, <3>1, EarlierRow
    <3>4. x[1] = y[1]
      BY <1>1, <3>2, <3>3
    <3>5. x[1] * c \in Int /\ x[2] \in Int /\ y[2] \in Int
      BY <1>1
    <3>6. x[2] = y[2]
      <4>1. y[1] * c = x[1] * c
        BY <3>4
      <4>2. \A k, m, n \in Int : k + m = k + n => m = n
        OBVIOUS
      <4> QED BY <3>1, <3>5, <4>1, <4>2
    <3> QED BY <1>1, <3>4, <3>6
  <2> QED BY <2>1, <2>2
<1>7. ASSUME NEW v \in 0 .. r * c - 1 PROVE \E x \in C : p[x] = v
  <2>1. r > 0 /\ c > 0
    <3>1. r * c > 0
      BY <1>7
    <3> QED BY <3>1
  <2>2. CASE v = 0
    <3>1. last \in C
      BY <2>1 DEF Cells
    <3> QED BY <1>4, <2>2, <3>1
  <2>3. CASE v > 0
    <3> DEFINE i == (v - 1) \div c
               j == (v - 1) % c
    <3>1. i \in Nat /\ j \in 0 .. c - 1 /\ v - 1 = i * c + j
      BY DivMod, <2>1, <2>3
    <3> HIDE DEF i, j
    <3>2. i <= r - 1
      <4>1. SUFFICES ASSUME i >= r PROVE FALSE
        BY <3>1
      <4>2. r * c <= i * c
        BY <3>1, <4>1, TimesMonotone
      <4> QED BY <3>1, <4>2
    <3>3. <<i, j>> \in C
      BY <3>1, <3>2 DEF Cells
    <3>4. <<i, j>> # last
      <4>1. SUFFICES ASSUME i = r - 1, j = c - 1 PROVE FALSE
        OBVIOUS
      <4>2. (r - 1) * c = r * c - c
        OBVIOUS
      <4> QED BY <3>1, <4>1, <4>2
    <3>5. p[<<i, j>>] = v
      BY <1>4, <3>1, <3>3, <3>4
    <3> QED BY <3>3, <3>5
  <2> QED BY <2>2, <2>3
<1> QED BY <1>5, <1>6, <1>7 DEF Bijective

\* Swapping two cells keeps a board bijective.
LEMMA SwapBijective ==
    ASSUME NEW r \in Nat, NEW c \in Nat, NEW p, Bijective(p, r, c),
           NEW x \in Cells(r, c), NEW y \in Cells(r, c)
    PROVE  Bijective(Swap(p, x, y), r, c)
<1> DEFINE C == Cells(r, c)
           q == Swap(p, x, y)
<1>1. q \in [C -> 0 .. r * c - 1]
  BY DEF Bijective, Swap
<1>2. \A z \in C : q[z] = IF z = y THEN p[x] ELSE IF z = x THEN p[y] ELSE p[z]
  BY DEF Bijective, Swap
<1>3. ASSUME NEW u \in C, NEW w \in C, q[u] = q[w] PROVE u = w
  BY <1>2, <1>3 DEF Bijective
<1>4. ASSUME NEW v \in 0 .. r * c - 1 PROVE \E z \in C : q[z] = v
  <2>1. PICK z \in C : p[z] = v
    BY DEF Bijective
  <2>2. q[x] = p[y] /\ q[y] = p[x]
    BY <1>2
  <2> QED BY <1>2, <2>1, <2>2
<1> QED BY <1>1, <1>3, <1>4 DEF Bijective

------------------------------------------------------------------------------
(***************************************************************************)
(* canMove, findIndex and isMatched                                        *)
(***************************************************************************)

\* Cells are pairs of naturals within the dimensions of the board.
LEMMA BoardCell ==
    ASSUME row \in Nat, col \in Nat, NEW x \in Board
    PROVE  /\ x[1] \in Nat /\ x[1] <= row - 1
           /\ x[2] \in Nat /\ x[2] <= col - 1
           /\ x = <<x[1], x[2]>>
           /\ row > 0 /\ col > 0
  BY DEF Board, Cells

\* A neighbour is another cell of the board, one step away.
LEMMA NeighbourIsBeside ==
    ASSUME row \in Nat, col \in Nat, NEW x \in Board, NEW y \in Neighbours(x)
    PROVE  /\ y \in Board /\ y # x
           /\ y[1] + y[2] \in {x[1] + x[2] - 1, x[1] + x[2] + 1}
           /\ (x[1] - y[1]) * (x[1] - y[1]) + (x[2] - y[2]) * (x[2] - y[2]) = 1
           /\ (y[1] - x[1]) * (y[1] - x[1]) + (y[2] - x[2]) * (y[2] - x[2]) = 1
<1>1. y \in Board /\ \E d \in Directions : y = <<x[1] + d[1], x[2] + d[2]>>
  BY DEF Neighbours
<1>2. x[1] \in Int /\ x[2] \in Int
  BY BoardCell
<1>3. \/ y[1] = x[1] - 1 /\ y[2] = x[2]
      \/ y[1] = x[1] + 1 /\ y[2] = x[2]
      \/ y[1] = x[1] /\ y[2] = x[2] - 1
      \/ y[1] = x[1] /\ y[2] = x[2] + 1
  BY <1>1, <1>2 DEF Directions
<1>4. y[1] \in Int /\ y[2] \in Int
  BY <1>2, <1>3
<1>5. y # x /\ y[1] + y[2] \in {x[1] + x[2] - 1, x[1] + x[2] + 1}
  BY <1>2, <1>3
<1> DEFINE d1 == x[1] - y[1]
           d2 == x[2] - y[2]
<1>6. \/ d1 = 1 /\ d2 = 0
      \/ d1 = -1 /\ d2 = 0
      \/ d1 = 0 /\ d2 = 1
      \/ d1 = 0 /\ d2 = -1
  BY <1>2, <1>3
<1>7. y[1] - x[1] = -d1 /\ y[2] - x[2] = -d2
  BY <1>2, <1>4
<1> HIDE DEF d1, d2
<1>8. d1 * d1 + d2 * d2 = 1 /\ (-d1) * (-d1) + (-d2) * (-d2) = 1
  BY <1>6
<1> QED BY <1>1, <1>5, <1>7, <1>8 DEF d1, d2

\* findIndex, given the text of the button that was clicked, returns the cell
\* of that very button.
LEMMA FindIndexExact ==
    ASSUME row \in Nat, col \in Nat, NEW p, Bijective(p, row, col), NEW x \in Board
    PROVE  FindIndex(p, p[x]) = x
<1>1. \A y \in Board : p[y] = p[x] => y = x
  BY DEF Bijective, Board
<1>2. \A y \in Board : RowMajorBefore(y, x) => y # x
  BY BoardCell DEF RowMajorBefore
<1>3. p[x] = p[x] /\ \A y \in Board : RowMajorBefore(y, x) => p[y] # p[x]
  BY <1>1, <1>2
<1> QED BY <1>1, <1>3 DEF FindIndex

\* The cell isMatched has just left is on the board, before x and not the last.
LEMMA BeforeCell ==
    ASSUME row \in Nat, col \in Nat, NEW p, NEW x \in Board,
           \A y \in Board : y # Last => p[y] = y[1] * col + y[2] + 1 \/ ~RowMajorBefore(y, x)
    PROVE  Before(p, x) = x[1] * col + x[2]
<1>0. /\ x[1] \in Nat /\ x[1] <= row - 1 /\ x[2] \in Nat /\ x[2] <= col - 1
      /\ row > 0 /\ col > 0
  BY BoardCell
<1>1. CASE x[2] > 0
  <2> DEFINE y == <<x[1], x[2] - 1>>
  <2>1. y \in Board /\ y # Last /\ RowMajorBefore(y, x)
    BY <1>0, <1>1 DEF Board, Cells, Last, RowMajorBefore
  <2>2. p[y] = x[1] * col + (x[2] - 1) + 1
    BY <2>1
  <2>3. x[1] * col \in Int
    BY <1>0
  <2> QED BY <1>0, <1>1, <2>2, <2>3 DEF Before
<1>2. CASE x[2] = 0 /\ x[1] > 0
  <2> DEFINE y == <<x[1] - 1, col - 1>>
  <2>1. y \in Board /\ y # Last /\ RowMajorBefore(y, x)
    BY <1>0, <1>2 DEF Board, Cells, Last, RowMajorBefore
  <2>2. p[y] = (x[1] - 1) * col + (col - 1) + 1
    BY <2>1
  <2>3. (x[1] - 1) * col = x[1] * col - col /\ x[1] * col \in Int
    BY <1>0
  <2> QED BY <1>0, <1>2, <2>2, <2>3 DEF Before
<1>3. CASE x[2] = 0 /\ x[1] = 0
  BY <1>0, <1>3 DEF Before
<1> QED BY <1>0, <1>1, <1>2, <1>3

\* isMatched, which compares each cell with the one before it, holds of the
\* ordered board and of no other.
LEMMA MatchedIsOrdered ==
    ASSUME row \in Nat, col \in Nat, row > 0, col > 0,
           NEW p, Bijective(p, row, col)
    PROVE  IsMatched(p) <=> p = Ordered(row, col)
<1> DEFINE Pos(x) == x[1] * col + x[2]
<1>1. Last \in Board
  BY DEF Last, Board, Cells
<1>2. \A x \in Board : Ordered(row, col)[x] = IF x = Last THEN 0 ELSE Pos(x) + 1
  BY DEF Ordered, Board, Last
<1>3. \A x \in Board : Pos(x) \in Nat
  BY BoardCell
<1>4. ASSUME p = Ordered(row, col) PROVE IsMatched(p)
  <2>1. ASSUME NEW x \in Board PROVE Before(p, x) = Pos(x)
    BY <1>2, <1>4, BeforeCell
  <2> QED BY <1>2, <1>4, <2>1 DEF IsMatched
<1>5. ASSUME IsMatched(p) PROVE p = Ordered(row, col)
  <2> DEFINE Bad == {x \in Board : x # Last /\ p[x] # Pos(x) + 1}
             T == {Pos(x) : x \in Bad}
  <2>1. Bad = {}
    <3>1. SUFFICES ASSUME Bad # {} PROVE FALSE
      OBVIOUS
    <3>2. T \subseteq Nat /\ T # {}
      BY <1>3, <3>1
    <3> HIDE DEF T
    <3>3. PICK m \in T : \A k \in T : m <= k
      BY <3>2, LeastNat
    <3>4. PICK x \in Bad : m = Pos(x)
      BY DEF T
    <3>5. ASSUME NEW y \in Board, y # Last, RowMajorBefore(y, x)
          PROVE  p[y] = Pos(y) + 1
      <4>1. Pos(y) < Pos(x)
        <5>1. /\ y[1] \in Nat /\ y[2] \in 0 .. col - 1
              /\ x[1] \in Nat /\ x[2] \in 0 .. col - 1
          BY BoardCell
        <5>2. CASE y[1] < x[1]
          <6>1. y[1] * col + y[2] < x[1] * col
            BY <5>1, <5>2, EarlierRow
          <6> QED BY <5>1, <6>1
        <5>3. CASE y[1] = x[1] /\ y[2] < x[2]
          <6>1. y[1] * col = x[1] * col /\ x[1] * col \in Int
            BY <5>1, <5>3
          <6>2. \A k \in Int : k + y[2] < k + x[2]
            BY <5>1, <5>3
          <6> QED BY <6>1, <6>2
        <5> QED BY <3>5, <5>2, <5>3 DEF RowMajorBefore
      <4>2. Pos(y) \notin T
        BY <1>3, <3>3, <3>4, <4>1
      <4> QED BY <3>5, <4>2 DEF T
    <3>6. Before(p, x) = Pos(x)
      BY <3>5, BeforeCell
    <3>7. p[x] = Pos(x) + 1
      BY <1>5, <3>6 DEF IsMatched
    <3> QED BY <3>7
  <2>2. \A x \in Board : x # Last => p[x] = Pos(x) + 1
    BY <2>1
  <2>3. Before(p, Last) = Pos(Last)
    BY <1>1, <2>2, BeforeCell
  <2>4. Pos(Last) + 1 = row * col
    BY DEF Last
  <2>5. p[Last] # row * col
    <3>1. p[Last] \in 0 .. row * col - 1
      BY <1>1 DEF Bijective, Board
    <3> QED BY <3>1
  <2>6. p[Last] = 0
    BY <1>1, <1>5, <2>3, <2>4, <2>5 DEF IsMatched
  <2>7. p = [x \in Cells(row, col) |-> p[x]]
    BY DEF Bijective
  <2> QED BY <2>2, <2>6, <2>7 DEF Ordered, Board, Last
<1> QED BY <1>4, <1>5

------------------------------------------------------------------------------
(***************************************************************************)
(* Permutations and their parity                                           *)
(***************************************************************************)

\* Two sets have one size when a function matches their elements.
LEMMA SameSize ==
    ASSUME NEW S, IsFiniteSet(S), NEW T, NEW f \in [S -> T],
           \A x, y \in S : f[x] = f[y] => x = y,
           \A t \in T : \E x \in S : f[x] = t
    PROVE  IsFiniteSet(T) /\ Cardinality(T) = Cardinality(S)
<1>1. f \in Bijection(S, T)
  BY Fun_IsBij
<1>2. ExistsBijection(S, T)
  BY <1>1 DEF ExistsBijection
<1> QED BY <1>2, FS_Bijection

\* A set is as large as its parts inside and outside another.
LEMMA Parts ==
    ASSUME NEW S, IsFiniteSet(S), NEW P
    PROVE  /\ IsFiniteSet(S \cap P) /\ IsFiniteSet(S \ P)
           /\ Cardinality(S) \in Nat /\ Cardinality(S \cap P) \in Nat /\ Cardinality(S \ P) \in Nat
           /\ Cardinality(S) = Cardinality(S \cap P) + Cardinality(S \ P)
<1>1. IsFiniteSet(S \cap P) /\ IsFiniteSet(S \ P)
  BY FS_Intersection, FS_Difference
<1>2. Cardinality(S) \in Nat /\ Cardinality(S \cap P) \in Nat /\ Cardinality(S \ P) \in Nat
  BY <1>1, FS_CardinalityType
<1>3. Cardinality(S \ P) = Cardinality(S) - Cardinality(S \cap P)
  BY FS_Difference
<1> QED BY <1>1, <1>2, <1>3

\* L is a strict total order of the elements of S.
Orders(L, S) ==
    /\ L \subseteq S \X S
    /\ \A x \in S : <<x, x>> \notin L
    /\ \A x, y \in S : x = y \/ <<x, y>> \in L \/ <<y, x>> \in L
    /\ \A x, y, z \in S : <<x, y>> \in L /\ <<y, z>> \in L => <<x, z>> \in L

\* The pairs that R puts in the other order.
Disorder(L, R) == {q \in L : R[q[1]] > R[q[2]]}

\* a and b exchanged.
Other(a, b, x) == IF x = a THEN b ELSE IF x = b THEN a ELSE x

\* The pairs whose order the exchange of a and b turns round.
Flipped(L, a, b) == {q \in L : <<Other(a, b, q[2]), Other(a, b, q[1])>> \in L}

\* They are <<a, b>> and, for everything between a and b, a pair with each.
LEMMA FlippedOdd ==
    ASSUME NEW S, IsFiniteSet(S), NEW L, Orders(L, S),
           NEW a \in S, NEW b \in S, <<a, b>> \in L
    PROVE  Cardinality(Flipped(L, a, b)) % 2 = 1
<1> DEFINE F == Flipped(L, a, b)
           s(x) == Other(a, b, x)
           A == {q \in F : q[1] = a /\ q[2] # b}
           C == {q \in F : q[1] # a /\ q[2] = b}
           g == [q \in A |-> <<s(q[2]), s(q[1])>>]
<1>1. a # b /\ <<b, a>> \notin L
  BY DEF Orders
<1>2. ASSUME NEW q \in L
      PROVE  q[1] \in S /\ q[2] \in S /\ q = <<q[1], q[2]>>
  BY DEF Orders
<1>3. ASSUME NEW q \in F PROVE q = <<a, b>> \/ q \in A \/ q \in C
  <2>1. q \in L /\ <<s(q[2]), s(q[1])>> \in L
    BY DEF Flipped
  <2>2. q[1] \in S /\ q[2] \in S /\ q = <<q[1], q[2]>>
    BY <1>2, <2>1
  <2>3. CASE q[1] = a
    BY <2>2, <2>3
  <2>4. CASE q[1] = b
    <3>1. q[2] # a /\ q[2] # b
      BY <1>1, <2>1, <2>2, <2>4 DEF Orders
    <3>2. <<q[2], a>> \in L /\ <<b, q[2]>> \in L
      BY <1>1, <2>1, <2>2, <2>4, <3>1 DEF Other
    <3> QED BY <1>1, <2>2, <3>2 DEF Orders
  <2>5. CASE q[1] # a /\ q[1] # b
    <3>1. CASE q[2] = b
      BY <2>5, <3>1
    <3>2. CASE q[2] = a
      <4>1. <<b, q[1]>> \in L /\ <<q[1], a>> \in L
        BY <1>1, <2>1, <2>2, <2>5, <3>2 DEF Other
      <4> QED BY <1>1, <2>2, <4>1 DEF Orders
    <3>3. CASE q[2] # a /\ q[2] # b
      <4>1. <<q[1], q[2]>> \in L /\ <<q[2], q[1]>> \in L
        BY <2>1, <2>2, <2>5, <3>3 DEF Other
      <4> QED BY <2>2, <4>1 DEF Orders
    <3> QED BY <3>1, <3>2, <3>3
  <2> QED BY <2>3, <2>4, <2>5
<1>4. <<a, b>> \in F
  BY <1>1 DEF Flipped, Other
<1>5. F = ({<<a, b>>} \cup A) \cup C
  BY <1>3, <1>4
<1>6. IsFiniteSet(F)
  <2>1. IsFiniteSet(S \X S)
    BY FS_Product
  <2>2. F \in SUBSET (S \X S)
    BY DEF Flipped, Orders
  <2> QED BY <2>1, <2>2, FS_Subset
<1>7. IsFiniteSet(A) /\ IsFiniteSet(C)
  <2>1. A \in SUBSET F /\ C \in SUBSET F
    OBVIOUS
  <2> QED BY <1>6, <2>1, FS_Subset
<1>8. Cardinality(A) = Cardinality(C)
  <2>1. ASSUME NEW q \in A
        PROVE  q \in L /\ q[2] \in S /\ q = <<a, q[2]>> /\ q[2] # a /\ q[2] # b
               /\ <<q[2], b>> \in L
    <3>1. q \in L /\ <<s(q[2]), s(q[1])>> \in L
      BY DEF Flipped
    <3>2. q[2] \in S /\ q = <<a, q[2]>>
      BY <1>2, <3>1
    <3>3. q[2] # a
      BY <3>1, <3>2 DEF Orders
    <3> QED BY <3>1, <3>2, <3>3 DEF Other
  <2>2. ASSUME NEW q \in A PROVE g[q] = <<q[2], b>> /\ g[q] \in C
    <3>1. g[q] = <<q[2], b>>
      BY <2>1 DEF Other
    <3>2. <<s(b), s(q[2])>> = q
      BY <1>1, <2>1 DEF Other
    <3> QED BY <2>1, <3>1, <3>2 DEF Flipped
  <2>3. g \in [A -> C]
    BY <2>2
  <2>4. ASSUME NEW q \in A, NEW t \in A, g[q] = g[t] PROVE q = t
    <3>1. <<q[2], b>> = <<t[2], b>>
      BY <2>2, <2>4, Zenon
    <3>2. q[2] = t[2]
      BY <3>1
    <3>3. q = <<a, q[2]>> /\ t = <<a, t[2]>>
      BY <2>1, Zenon
    <3> QED BY <3>2, <3>3, Zenon
  <2>5. ASSUME NEW t \in C PROVE \E q \in A : g[q] = t
    <3>1. t \in L /\ <<s(t[2]), s(t[1])>> \in L
      BY DEF Flipped
    <3>2. t[1] \in S /\ t = <<t[1], b>> /\ t[1] # a
      BY <1>2, <3>1
    <3>3. t[1] # b
      BY <3>1, <3>2 DEF Orders
    <3> DEFINE q == <<a, t[1]>>
    <3>4. <<s(t[2]), s(t[1])>> = q
      BY <1>1, <3>2, <3>3 DEF Other
    <3>5. <<s(q[2]), s(q[1])>> = t
      BY <1>1, <3>2, <3>3 DEF Other
    <3>6. q \in A
      BY <3>1, <3>3, <3>4, <3>5 DEF Flipped
    <3> QED BY <3>5, <3>6
  <2> HIDE DEF g, A, C
  <2> QED BY <1>7, <2>3, <2>4, <2>5, SameSize
<1>9. <<a, b>> \notin A /\ <<a, b>> \notin C /\ A \cap C = {}
  OBVIOUS
<1> HIDE DEF A, C, F
<1>10. Cardinality({<<a, b>>} \cup A) = Cardinality(A) + 1 /\ IsFiniteSet({<<a, b>>} \cup A)
  <2>1. {<<a, b>>} \cup A = A \cup {<<a, b>>}
    OBVIOUS
  <2> QED BY <1>7, <1>9, <2>1, FS_AddElement
<1>11. ({<<a, b>>} \cup A) \cap C = {}
  BY <1>9
<1>12. Cardinality(F) = Cardinality(A) + 1 + Cardinality(C) - 0
  BY <1>5, <1>7, <1>10, <1>11, FS_Union, FS_EmptySet
<1>13. Cardinality(A) \in Nat
  BY <1>7, FS_CardinalityType
<1>14. Cardinality(F) = 2 * Cardinality(A) + 1
  BY <1>8, <1>12, <1>13
<1>15. \A n \in Nat : (2 * n + 1) % 2 = 1
  OBVIOUS
<1> QED BY <1>13, <1>14, <1>15 DEF F

\* Exchanging two values changes the parity of the disorder.
LEMMA ExchangeFlipsParity ==
    ASSUME NEW S, IsFiniteSet(S), NEW L, Orders(L, S),
           NEW a \in S, NEW b \in S, <<a, b>> \in L,
           NEW R \in [S -> Int], \A x, y \in S : R[x] = R[y] => x = y,
           NEW Q \in [S -> Int], \A x \in S : Q[x] = R[Other(a, b, x)]
    PROVE  /\ Cardinality(Disorder(L, R)) \in Nat /\ Cardinality(Disorder(L, Q)) \in Nat
           /\ (Cardinality(Disorder(L, R)) + Cardinality(Disorder(L, Q))) % 2 = 1
<1> DEFINE F == Flipped(L, a, b)
           s(x) == Other(a, b, x)
           DR == Disorder(L, R)
           DQ == Disorder(L, Q)
           f == [q \in DQ \ F |-> <<s(q[1]), s(q[2])>>]
           g == [q \in DQ \cap F |-> <<s(q[2]), s(q[1])>>]
<1>1. ASSUME NEW x \in S PROVE s(x) \in S /\ s(s(x)) = x
  BY DEF Other
<1>2. ASSUME NEW q \in L
      PROVE  q[1] \in S /\ q[2] \in S /\ q = <<q[1], q[2]>> /\ q[1] # q[2]
  BY DEF Orders
<1>3. IsFiniteSet(L)
  <2>1. IsFiniteSet(S \X S) /\ L \in SUBSET (S \X S)
    BY FS_Product DEF Orders
  <2> QED BY <2>1, FS_Subset
<1>4. IsFiniteSet(DR) /\ IsFiniteSet(DQ) /\ IsFiniteSet(F)
  <2>1. DR \in SUBSET L /\ DQ \in SUBSET L /\ F \in SUBSET L
    BY DEF Disorder, Flipped
  <2> QED BY <1>3, <2>1, FS_Subset
<1>5. ASSUME NEW q \in L, q \notin F
      PROVE  <<s(q[1]), s(q[2])>> \in L /\ <<s(q[1]), s(q[2])>> \notin F
  <2>1. s(q[1]) \in S /\ s(q[2]) \in S /\ s(q[1]) # s(q[2])
    BY <1>1, <1>2
  <2>2. <<s(q[2]), s(q[1])>> \notin L
    BY <1>5 DEF Flipped
  <2>3. <<s(q[1]), s(q[2])>> \in L
    BY <2>1, <2>2 DEF Orders
  <2>4. <<q[2], q[1]>> \notin L
    <3>1. \A x, y \in S : <<x, y>> \in L => <<y, x>> \notin L
      BY DEF Orders
    <3>2. <<q[1], q[2]>> \in L
      BY <1>2
    <3> QED BY <1>2, <3>1, <3>2
  <2>5. s(s(q[2])) = q[2] /\ s(s(q[1])) = q[1]
    BY <1>1, <1>2
  <2> QED BY <2>3, <2>4, <2>5 DEF Flipped
<1>6. ASSUME NEW q \in F
      PROVE  <<s(q[2]), s(q[1])>> \in F
  <2>1. q \in L /\ <<s(q[2]), s(q[1])>> \in L
    BY DEF Flipped
  <2>2. <<s(s(q[1])), s(s(q[2]))>> = q
    BY <1>1, <1>2, <2>1
  <2> QED BY <2>1, <2>2 DEF Flipped
<1>7. \A x, y \in S : Q[s(x)] = R[x] /\ Q[x] = R[s(x)]
  BY <1>1
<1>8. Cardinality(DR \ F) = Cardinality(DQ \ F)
  <2>1. ASSUME NEW q \in DQ \ F PROVE f[q] \in DR \ F
    <3>1. q \in L /\ Q[q[1]] > Q[q[2]]
      BY DEF Disorder
    <3>2. R[s(q[1])] > R[s(q[2])]
      BY <1>2, <1>7, <3>1
    <3> QED BY <1>5, <3>1, <3>2 DEF Disorder
  <2>2. ASSUME NEW q \in DQ \ F, NEW t \in DQ \ F, f[q] = f[t] PROVE q = t
    <3>1. q \in L /\ t \in L
      BY DEF Disorder
    <3>2. s(q[1]) = s(t[1]) /\ s(q[2]) = s(t[2])
      BY <2>2
    <3> QED BY <1>1, <1>2, <3>1, <3>2
  <2>3. ASSUME NEW t \in DR \ F PROVE \E q \in DQ \ F : f[q] = t
    <3> DEFINE q == <<s(t[1]), s(t[2])>>
    <3>1. t \in L /\ R[t[1]] > R[t[2]]
      BY DEF Disorder
    <3>2. q \in L /\ q \notin F
      BY <1>5, <3>1
    <3>3. Q[q[1]] > Q[q[2]]
      BY <1>2, <1>7, <3>1
    <3>4. <<s(q[1]), s(q[2])>> = t
      BY <1>1, <1>2, <3>1
    <3>5. q \in DQ \ F
      BY <3>2, <3>3 DEF Disorder
    <3> QED BY <3>4, <3>5
  <2>4. f \in [DQ \ F -> DR \ F]
    BY <2>1
  <2>5. IsFiniteSet(DQ \ F)
    BY <1>4, Parts
  <2> HIDE DEF f, DQ, DR, F
  <2> QED BY <2>2, <2>3, <2>4, <2>5, SameSize
<1>9. Cardinality(F \ DR) = Cardinality(DQ \cap F)
  <2>1. ASSUME NEW q \in DQ \cap F PROVE g[q] \in F \ DR
    <3>1. q \in L /\ Q[q[1]] > Q[q[2]] /\ q \in F
      BY DEF Disorder
    <3>2. R[s(q[1])] > R[s(q[2])]
      BY <1>2, <1>7, <3>1
    <3>3. s(q[1]) \in S /\ s(q[2]) \in S
      BY <1>1, <1>2, <3>1
    <3> QED BY <1>6, <3>1, <3>2, <3>3 DEF Disorder
  <2>2. ASSUME NEW q \in DQ \cap F, NEW t \in DQ \cap F, g[q] = g[t] PROVE q = t
    <3>1. q \in L /\ t \in L
      BY DEF Disorder
    <3>2. s(q[1]) = s(t[1]) /\ s(q[2]) = s(t[2])
      BY <2>2
    <3> QED BY <1>1, <1>2, <3>1, <3>2
  <2>3. ASSUME NEW t \in F \ DR PROVE \E q \in DQ \cap F : g[q] = t
    <3> DEFINE q == <<s(t[2]), s(t[1])>>
    <3>1. t \in L /\ t \in F /\ t[1] \in S /\ t[2] \in S /\ t[1] # t[2]
      BY <1>2 DEF Flipped
    <3>2. ~(R[t[1]] > R[t[2]]) /\ R[t[1]] # R[t[2]]
      BY <3>1 DEF Disorder
    <3>3. R[t[2]] > R[t[1]]
      BY <3>1, <3>2
    <3>4. q \in F /\ q \in L
      BY <1>6, <3>1 DEF Flipped
    <3>5. Q[q[1]] > Q[q[2]]
      BY <1>7, <3>1, <3>3
    <3>6. <<s(q[2]), s(q[1])>> = t
      BY <1>1, <1>2, <3>1
    <3>7. q \in DQ \cap F
      BY <3>4, <3>5 DEF Disorder
    <3> QED BY <3>6, <3>7
  <2>4. g \in [DQ \cap F -> F \ DR]
    BY <2>1
  <2>5. IsFiniteSet(DQ \cap F)
    BY <1>4, Parts
  <2> HIDE DEF g, DQ, DR, F
  <2> QED BY <2>2, <2>3, <2>4, <2>5, SameSize
<1>10. Cardinality(F) % 2 = 1
  BY FlippedOdd
<1> HIDE DEF DR, DQ, F
<1>11. /\ Cardinality(DR) \in Nat /\ Cardinality(DR \cap F) \in Nat /\ Cardinality(DR \ F) \in Nat
       /\ Cardinality(DR) = Cardinality(DR \cap F) + Cardinality(DR \ F)
  BY <1>4, Parts
<1>12. /\ Cardinality(DQ) \in Nat /\ Cardinality(DQ \cap F) \in Nat
       /\ Cardinality(DQ) = Cardinality(DQ \cap F) + Cardinality(DQ \ F)
  BY <1>4, Parts
<1>13. /\ Cardinality(F) \in Nat
       /\ Cardinality(F) = Cardinality(F \cap DR) + Cardinality(F \ DR)
  BY <1>4, Parts
<1>14. F \cap DR = DR \cap F
  OBVIOUS
<1>15. Cardinality(DR) + Cardinality(DQ) = 2 * Cardinality(DR \ F) + Cardinality(F)
  <2>1. \A h, i, j \in Nat : (h + i) + (j + i) = 2 * i + (h + j)
    OBVIOUS
  <2>2. Cardinality(DQ) = Cardinality(DQ \cap F) + Cardinality(DR \ F)
    BY <1>8, <1>12
  <2>3. Cardinality(F) = Cardinality(DR \cap F) + Cardinality(DQ \cap F)
    BY <1>9, <1>13, <1>14
  <2> QED BY <1>11, <1>12, <2>1, <2>2, <2>3
<1>16. \A m, n \in Nat : n % 2 = 1 => (2 * m + n) % 2 = 1
  OBVIOUS
<1>17. (Cardinality(DR) + Cardinality(DQ)) % 2 = 1
  BY <1>10, <1>11, <1>13, <1>15, <1>16
<1> QED BY <1>11, <1>12, <1>17 DEF DR, DQ

------------------------------------------------------------------------------
(***************************************************************************)
(* Solvable boards                                                         *)
(***************************************************************************)

\* The pairs of cells in row-major order, the values isMatched would like to
\* see ascend (the blank as the greatest), and how far cell x is from the last.
Pairs(r, c) == {q \in Cells(r, c) \X Cells(r, c) : RowMajorBefore(q[1], q[2])}
Ranks(p, r, c) == [x \in Cells(r, c) |-> IF p[x] = 0 THEN r * c ELSE p[x]]
FromLast(x, r, c) == (r - 1 - x[1]) + (c - 1 - x[2])

\* The permutation has the parity of the blank's distance from its place.
EvenBoard(p, r, c) ==
    \E b \in Cells(r, c) :
        /\ p[b] = 0
        /\ (Cardinality(Disorder(Pairs(r, c), Ranks(p, r, c))) + FromLast(b, r, c)) % 2 = 0

\* Row-major order is a strict total order of the finitely many cells.
LEMMA RowMajorOrders ==
    ASSUME NEW r \in Nat, NEW c \in Nat
    PROVE  IsFiniteSet(Cells(r, c)) /\ Orders(Pairs(r, c), Cells(r, c))
<1>1. IsFiniteSet(Cells(r, c))
  <2>1. IsFiniteSet(0 .. r - 1) /\ IsFiniteSet(0 .. c - 1)
    BY FS_Interval
  <2> QED BY <2>1, FS_Product DEF Cells
<1> DEFINE C == Cells(r, c)
           L == Pairs(r, c)
<1>2. \A x \in C : x[1] \in Int /\ x[2] \in Int /\ x = <<x[1], x[2]>>
  BY DEF Cells
<1>3. \A x, y \in C : <<x, y>> \in L <=> RowMajorBefore(x, y)
  BY DEF Pairs
<1>4. L \subseteq C \X C
  BY DEF Pairs
<1>5. \A x \in C : ~RowMajorBefore(x, x)
  BY <1>2 DEF RowMajorBefore
<1>6. ASSUME NEW x \in C, NEW y \in C
      PROVE  x = y \/ RowMajorBefore(x, y) \/ RowMajorBefore(y, x)
  <2>1. CASE x[1] = y[1] /\ x[2] = y[2]
    BY <1>2, <2>1
  <2>2. CASE ~(x[1] = y[1] /\ x[2] = y[2])
    BY <1>2, <2>2 DEF RowMajorBefore
  <2> QED BY <2>1, <2>2
<1>7. ASSUME NEW x \in C, NEW y \in C, NEW z \in C, RowMajorBefore(x, y), RowMajorBefore(y, z)
      PROVE  RowMajorBefore(x, z)
  BY <1>2, <1>7 DEF RowMajorBefore
<1> HIDE DEF C, L
<1> QED BY <1>1, <1>3, <1>4, <1>5, <1>6, <1>7 DEF Orders, C, L

\* The ranks of a bijective board tell its cells apart.
LEMMA RanksDiffer ==
    ASSUME NEW r \in Nat, NEW c \in Nat, NEW p, Bijective(p, r, c)
    PROVE  /\ Ranks(p, r, c) \in [Cells(r, c) -> Int]
           /\ \A x, y \in Cells(r, c) : Ranks(p, r, c)[x] = Ranks(p, r, c)[y] => x = y
<1>1. r * c \in Int
  OBVIOUS
<1>2. \A x \in Cells(r, c) : p[x] \in Int /\ p[x] # r * c
  BY <1>1 DEF Bijective
<1>3. Ranks(p, r, c) \in [Cells(r, c) -> Int]
  BY <1>1, <1>2 DEF Ranks
<1>4. ASSUME NEW x \in Cells(r, c), NEW y \in Cells(r, c),
             Ranks(p, r, c)[x] = Ranks(p, r, c)[y]
      PROVE  p[x] = p[y]
  BY <1>2, <1>4 DEF Ranks
<1> QED BY <1>3, <1>4 DEF Bijective

\* The board the Make listener fills is in order and its blank in place.
LEMMA OrderedIsEven ==
    ASSUME NEW r \in Nat, NEW c \in Nat, r > 0, c > 0
    PROVE  EvenBoard(Ordered(r, c), r, c)
<1> DEFINE C == Cells(r, c)
           p == Ordered(r, c)
           last == <<r - 1, c - 1>>
           R == Ranks(p, r, c)
<1>1. last \in C /\ p[last] = 0
  BY DEF Cells, Ordered
<1>2. ASSUME NEW x \in C
      PROVE  x[1] \in Nat /\ x[1] <= r - 1 /\ x[2] \in 0 .. c - 1 /\ x = <<x[1], x[2]>>
  BY DEF Cells
<1>3. ASSUME NEW x \in C PROVE R[x] = x[1] * c + x[2] + 1
  <2>1. CASE x = last
    <3>1. R[x] = r * c
      BY <1>1, <2>1 DEF Ranks
    <3>2. (r - 1) * c = r * c - c /\ r * c \in Int
      OBVIOUS
    <3> QED BY <2>1, <3>1, <3>2
  <2>2. CASE x # last
    <3>1. p[x] = x[1] * c + x[2] + 1
      BY <2>2 DEF Ordered
    <3>2. x[1] * c \in Nat
      BY <1>2
    <3>3. p[x] # 0
      BY <1>2, <3>1, <3>2
    <3> QED BY <3>1, <3>3 DEF Ranks
  <2> QED BY <2>1, <2>2
<1>4. ASSUME NEW x \in C, NEW y \in C, RowMajorBefore(x, y)
      PROVE  ~(R[x] > R[y])
  <2>1. x[1] * c \in Int /\ y[1] * c \in Int
    BY <1>2
  <2>2. CASE x[1] < y[1]
    <3>1. x[1] * c + x[2] < y[1] * c
      BY <1>2, <2>2, EarlierRow
    <3> QED BY <1>2, <1>3, <2>1, <3>1
  <2>3. CASE x[1] = y[1] /\ x[2] < y[2]
    <3>1. x[1] * c = y[1] * c
      BY <2>3
    <3> HIDE DEF R
    <3> QED BY <1>2, <1>3, <2>1, <2>3, <3>1
  <2> QED BY <1>4, <2>2, <2>3 DEF RowMajorBefore
<1> HIDE DEF R
<1>5. Disorder(Pairs(r, c), R) = {}
  BY <1>4 DEF Disorder, Pairs
<1>6. Cardinality(Disorder(Pairs(r, c), R)) = 0
  BY <1>5, FS_EmptySet
<1>7. FromLast(last, r, c) = 0
  BY DEF FromLast
<1> QED BY <1>1, <1>6, <1>7 DEF EvenBoard, R

\* A step to a cell beside it brings the blank one nearer to the last cell, or
\* takes it one further.
LEMMA StepFromLast ==
    ASSUME NEW r \in Int, NEW c \in Int, NEW v, NEW w,
           v[1] \in Int, v[2] \in Int, w[1] \in Int, w[2] \in Int,
           w[1] + w[2] \in {v[1] + v[2] - 1, v[1] + v[2] + 1}
    PROVE  /\ FromLast(v, r, c) \in Int /\ FromLast(w, r, c) \in Int
           /\ FromLast(w, r, c) \in {FromLast(v, r, c) - 1, FromLast(v, r, c) + 1}
  BY DEF FromLast

\* A tile that slides into the blank beside it turns both parities round: the
\* exchange flips the permutation, the step moves the blank by one.
LEMMA SlideKeepsEven ==
    ASSUME NEW r \in Nat, NEW c \in Nat, NEW p, Bijective(p, r, c),
           EvenBoard(p, r, c),
           NEW x \in Cells(r, c), NEW y \in Cells(r, c), x # y,
           y[1] + y[2] \in {x[1] + x[2] - 1, x[1] + x[2] + 1},
           p[x] = 0 \/ p[y] = 0
    PROVE  EvenBoard(Swap(p, x, y), r, c)
<1> DEFINE C == Cells(r, c)
           L == Pairs(r, c)
           q == Swap(p, x, y)
           R == Ranks(p, r, c)
           Q == Ranks(q, r, c)
           DR == Cardinality(Disorder(L, R))
           DQ == Cardinality(Disorder(L, Q))
<1>1. \A z \in C : z[1] \in Int /\ z[2] \in Int
  BY DEF Cells
<1>2. Bijective(q, r, c)
  BY SwapBijective
<1>3. \A z \in C : q[z] = IF z = y THEN p[x] ELSE IF z = x THEN p[y] ELSE p[z]
  BY DEF Bijective, Swap
<1>4. \A z \in C : Q[z] = R[Other(x, y, z)] /\ Q[z] = R[Other(y, x, z)]
  BY <1>3 DEF Ranks, Other
<1>5. /\ R \in [C -> Int] /\ Q \in [C -> Int]
      /\ \A z, w \in C : R[z] = R[w] => z = w
  BY <1>2, RanksDiffer
<1>6. IsFiniteSet(C) /\ Orders(L, C)
  BY RowMajorOrders
<1> HIDE DEF C, L, q, R, Q
<1>7. x \in C /\ y \in C
  BY DEF C
<1>8. DR \in Nat /\ DQ \in Nat /\ (DR + DQ) % 2 = 1
  <2>1. CASE <<x, y>> \in L
    BY <1>4, <1>5, <1>6, <1>7, <2>1, ExchangeFlipsParity
  <2>2. CASE <<y, x>> \in L
    BY <1>4, <1>5, <1>6, <1>7, <2>2, ExchangeFlipsParity
  <2> QED BY <1>6, <1>7, <2>1, <2>2 DEF Orders
<1> HIDE DEF DR, DQ
<1>9. PICK b \in C : p[b] = 0 /\ (DR + FromLast(b, r, c)) % 2 = 0
  BY DEF EvenBoard, C, DR, R, L
<1>10. b = x \/ b = y
  BY <1>7, <1>9 DEF Bijective, C
<1>11. \A d, e, f, g \in Int :
          (d + f) % 2 = 0 /\ (d + e) % 2 = 1 /\ g \in {f - 1, f + 1} => (e + g) % 2 = 0
  OBVIOUS
<1>12. ASSUME NEW w \in C, NEW v \in C, q[w] = 0, b = v,
              w[1] + w[2] \in {v[1] + v[2] - 1, v[1] + v[2] + 1}
       PROVE  EvenBoard(q, r, c)
  <2>1. /\ FromLast(v, r, c) \in Int /\ FromLast(w, r, c) \in Int
        /\ FromLast(w, r, c) \in {FromLast(v, r, c) - 1, FromLast(v, r, c) + 1}
    <3>1. v[1] \in Int /\ v[2] \in Int /\ w[1] \in Int /\ w[2] \in Int
      BY <1>1, <1>12
    <3> QED BY <1>12, <3>1, StepFromLast
  <2>2. DR \in Int /\ DQ \in Int
    BY <1>8
  <2>3. (DQ + FromLast(w, r, c)) % 2 = 0
    BY <1>8, <1>9, <1>11, <1>12, <2>1, <2>2
  <2> QED BY <1>12, <2>3 DEF EvenBoard, C, L, DQ, Q
<1>13. CASE b = x
  <2>1. q[y] = 0
    BY <1>3, <1>7, <1>9, <1>13
  <2> QED BY <1>7, <1>12, <1>13, <2>1 DEF q
<1>14. CASE b = y
  <2>1. q[x] = 0
    BY <1>3, <1>7, <1>9, <1>14
  <2>2. x[1] + x[2] \in {y[1] + y[2] - 1, y[1] + y[2] + 1}
    BY <1>1, <1>7
  <2> QED BY <1>7, <1>12, <1>14, <2>1, <2>2 DEF q
<1> QED BY <1>10, <1>13, <1>14

------------------------------------------------------------------------------
(***************************************************************************)
(* The inductive invariant                                                 *)
(***************************************************************************)

\* During the shuffle cur is where the blank is, and the distance it has
\* travelled has the parity of the number of slides made.
ShuffleInv ==
    pc = "shuffle" =>
        /\ puzzle[cur] = 0
        /\ (cur[1] + cur[2] + cnt - (row - 1) - (col - 1)) % 2 = 0
        /\ cnt <= MinMoves + 1
        /\ writes = <<>>

\* A win is reported for the ordered board only.
ReportInv ==
    writes # <<>> => pc = "play" /\ (writes = <<0, 1>> <=> IsMatched(puzzle))

IInv ==
    /\ TypeOK
    /\ Bijective(puzzle, row, col)
    /\ ShuffleInv
    /\ pc = "play" => cnt = MinMoves + 1
    /\ ReportInv

USE SizesAssumption, MinMovesAssumption

\* The loop of shuffle() cannot go on past its count: that takes an ordered
\* board, whose blank is home, after an odd number of slides.
LEMMA ShufflingCounts ==
    ASSUME IInv, pc = "shuffle", Shuffling
    PROVE  cnt <= MinMoves
<1>1. SUFFICES ASSUME cnt = MinMoves + 1 PROVE FALSE
  BY DEF IInv, TypeOK, ShuffleInv
<1>2. /\ row \in Nat /\ col \in Nat /\ row > 0 /\ col > 0
      /\ cur \in Board /\ puzzle[cur] = 0
      /\ (cur[1] + cur[2] + cnt - (row - 1) - (col - 1)) % 2 = 0
  BY DEF IInv, TypeOK, ShuffleInv
<1>3. IsMatched(puzzle)
  BY <1>1 DEF Shuffling
<1>4. puzzle = Ordered(row, col)
  BY <1>2, <1>3, MatchedIsOrdered DEF IInv
<1>5. cur = Last
  <2>1. cur[1] * col + cur[2] + 1 # 0
    BY <1>2, BoardCell
  <2> QED BY <1>2, <1>4, <2>1 DEF Ordered, Board, Last
<1>6. (MinMoves + 1) % 2 = 0
  BY <1>1, <1>2, <1>5 DEF Last
<1> QED BY <1>6

LEMMA InitInv == Init => IInv
<1> SUFFICES ASSUME Init PROVE IInv
  OBVIOUS
<1>1. Bijective(puzzle, row, col)
  BY OrderedBijective DEF Init
<1>2. Board = {}
  BY DEF Init, Board, Cells
<1>3. TypeOK
  BY <1>2 DEF Init, TypeOK, Ordered, Board
<1> QED BY <1>1, <1>3 DEF Init, IInv, ShuffleInv, ReportInv

LEMMA MakeInv ==
    ASSUME IInv, NEW r \in Nat, NEW c \in Nat, Make(r, c)
    PROVE  IInv'
<1>1. Bijective(puzzle, row, col)'
  BY OrderedBijective DEF Make
<1>2. puzzle' \in [Board' -> Nat]
  BY <1>1 DEF Bijective, Board
<1>3. pc' = "shuffle" => row' > 0 /\ col' > 0 /\ cur' \in Board' /\ cur' = <<row' - 1, col' - 1>>
  BY DEF Make, Board, Cells
<1>4. TypeOK'
  BY <1>2, <1>3 DEF Make, TypeOK
<1>5. ShuffleInv'
  <2>1. SUFFICES ASSUME pc' = "shuffle" PROVE ShuffleInv'
    BY DEF ShuffleInv
  <2>2. puzzle'[cur'] = 0
    BY <1>3, <2>1 DEF Make, Ordered, Board
  <2>3. cur'[1] + cur'[2] + cnt' - (row' - 1) - (col' - 1) = 0
    BY <1>3, <2>1 DEF Make
  <2>4. cnt' <= MinMoves + 1
    BY DEF Make
  <2> QED BY <2>2, <2>3, <2>4 DEF ShuffleInv, Make
<1> QED BY <1>1, <1>4, <1>5 DEF Make, IInv, ReportInv

LEMMA ShuffleStepInv ==
    ASSUME IInv, ShuffleStep
    PROVE  IInv'
<1>1. PICK next \in Neighbours(cur) : puzzle' = Swap(puzzle, cur, next) /\ cur' = next
  BY DEF ShuffleStep
<1>2. /\ row \in Nat /\ col \in Nat /\ row > 0 /\ col > 0 /\ cur \in Board /\ cnt \in Nat
      /\ pc = "shuffle" /\ pc' = pc /\ row' = row /\ col' = col /\ cnt' = cnt + 1
      /\ writes' = writes
  BY DEF IInv, TypeOK, ShuffleStep
<1>3. /\ next \in Board /\ next # cur
      /\ next[1] + next[2] \in {cur[1] + cur[2] - 1, cur[1] + cur[2] + 1}
  BY <1>2, NeighbourIsBeside
<1>4. Bijective(puzzle', row, col)
  BY <1>1, <1>2, <1>3, SwapBijective DEF IInv, Board
<1>5. TypeOK'
  <2>1. puzzle' \in [Board -> Nat]
    BY <1>4 DEF Bijective, Board
  <2> QED BY <1>1, <1>2, <1>3, <2>1 DEF TypeOK, IInv, Board
<1>6. puzzle'[cur'] = 0
  BY <1>1, <1>3, <1>2 DEF Swap, IInv, TypeOK, ShuffleInv
<1>7. (cur'[1] + cur'[2] + cnt' - (row' - 1) - (col' - 1)) % 2 = 0
  <2> DEFINE a == cur[1] + cur[2] + cnt - (row - 1) - (col - 1)
  <2>1. a \in Int /\ a % 2 = 0
    BY <1>2, BoardCell DEF IInv, ShuffleInv
  <2>2. cur'[1] + cur'[2] + cnt' - (row' - 1) - (col' - 1) \in {a, a + 2}
    BY <1>1, <1>2, <1>3, BoardCell
  <2> HIDE DEF a
  <2> QED BY <2>1, <2>2
<1>8. cnt' <= MinMoves + 1
  BY <1>2, ShufflingCounts DEF ShuffleStep
<1>9. ReportInv'
  BY <1>2 DEF IInv, ShuffleInv, ReportInv
<1> QED BY <1>2, <1>4, <1>5, <1>6, <1>7, <1>8, <1>9 DEF IInv, ShuffleInv

LEMMA ShuffleDoneInv ==
    ASSUME IInv, ShuffleDone
    PROVE  IInv'
<1>1. cnt = MinMoves + 1
  BY DEF IInv, TypeOK, ShuffleInv, ShuffleDone, Shuffling
<1>2. TypeOK'
  BY DEF IInv, TypeOK, ShuffleDone, Board
<1>3. ReportInv'
  BY DEF IInv, ShuffleInv, ReportInv, ShuffleDone
<1> QED BY <1>1, <1>2, <1>3 DEF IInv, ShuffleInv, ShuffleDone

LEMMA MakeFailsInv ==
    ASSUME IInv, MakeFails
    PROVE  IInv'
<1>1. TypeOK'
  BY DEF IInv, TypeOK, MakeFails, Board
<1>2. ReportInv'
  BY DEF IInv, ShuffleInv, ReportInv, MakeFails
<1> QED BY <1>1, <1>2 DEF IInv, ShuffleInv, MakeFails

LEMMA ShuffleStuckInv ==
    ASSUME IInv, ShuffleStuck
    PROVE  IInv'
<1>1. TypeOK'
  BY DEF IInv, TypeOK, ShuffleStuck, Board
<1>2. ReportInv'
  BY DEF IInv, ShuffleInv, ReportInv, ShuffleStuck
<1> QED BY <1>1, <1>2 DEF IInv, ShuffleInv, ShuffleStuck

\* What a click does, findIndex and canMove resolved: the tile of the clicked
\* button slides into a blank beside it, or nothing moves.
LEMMA ClickSlides ==
    ASSUME IInv, NEW x \in Board, Click(x)
    PROVE  \/ /\ puzzle' = puzzle /\ writes' = <<>>
           \/ \E y \in Neighbours(x) :
                 /\ puzzle[y] = 0
                 /\ puzzle' = Swap(puzzle, x, y)
                 /\ writes' = IF IsMatched(puzzle') THEN <<0, 1>> ELSE <<0>>
<1>1. FindIndex(puzzle, puzzle[x]) = x
  BY FindIndexExact DEF IInv, TypeOK
<1> QED BY <1>1 DEF Click, CanMove

LEMMA ClickInv ==
    ASSUME IInv, NEW x \in Board, Click(x)
    PROVE  IInv'
<1>1. /\ row \in Nat /\ col \in Nat
      /\ row' = row /\ col' = col /\ cnt' = cnt /\ cur' = cur
      /\ pc = "play" /\ pc' = pc /\ Board' = Board
  BY DEF IInv, TypeOK, Click, Board
<1>2. CASE puzzle' = puzzle /\ writes' = <<>>
  BY <1>1, <1>2 DEF IInv, TypeOK, ShuffleInv, ReportInv
<1>3. CASE \E y \in Neighbours(x) :
              /\ puzzle[y] = 0
              /\ puzzle' = Swap(puzzle, x, y)
              /\ writes' = IF IsMatched(puzzle') THEN <<0, 1>> ELSE <<0>>
  <2>1. PICK y \in Neighbours(x) :
              /\ puzzle' = Swap(puzzle, x, y)
              /\ writes' = IF IsMatched(puzzle') THEN <<0, 1>> ELSE <<0>>
    BY <1>3
  <2>2. Bijective(puzzle', row, col)
    BY <1>1, <2>1, NeighbourIsBeside, SwapBijective DEF IInv, Board
  <2>3. TypeOK'
    <3>1. puzzle' \in [Board -> Nat]
      BY <2>2 DEF Bijective, Board
    <3> QED BY <1>1, <2>1, <3>1 DEF IInv, TypeOK
  <2>4. IsMatched(puzzle)' <=> IsMatched(puzzle')
    BY <1>1 DEF IsMatched, Before, Last
  <2>5. ReportInv'
    BY <1>1, <2>1, <2>4 DEF ReportInv
  <2> QED BY <1>1, <2>2, <2>3, <2>5 DEF IInv, ShuffleInv
<1> QED BY <1>2, <1>3, ClickSlides

LEMMA NextInv == IInv /\ [Next]_vars => IInv'
<1> SUFFICES ASSUME IInv, [Next]_vars PROVE IInv'
  OBVIOUS
<1>1. ASSUME NEW s \in Sizes, Make(s[1], s[2]) PROVE IInv'
  <2>1. s[1] \in Nat /\ s[2] \in Nat
    OBVIOUS
  <2> QED BY <1>1, <2>1, MakeInv
<1>2. ASSUME NEW x \in Board, Click(x) PROVE IInv'
  BY <1>2, ClickInv
<1>3. CASE UNCHANGED vars
  <2>1. IsMatched(puzzle)' <=> IsMatched(puzzle)
    BY <1>3 DEF vars, IsMatched, Before, Last, Board
  <2> QED BY <1>3, <2>1 DEF vars, IInv, TypeOK, ShuffleInv, ReportInv, Board
<1> QED BY <1>1, <1>2, <1>3, ShuffleStepInv, ShuffleDoneInv, ShuffleStuckInv, MakeFailsInv
        DEF Next

LEMMA Invariance == Spec => []IInv
  BY InitInv, NextInv, PTL DEF Spec

\* shuffle() and the player start from the ordered board and only ever slide.
Dealt == pc \in {"shuffle", "play"} => EvenBoard(puzzle, row, col)

LEMMA DealtInit == Init => Dealt
  BY DEF Init, Dealt

LEMMA DealtNext == IInv /\ Dealt /\ [Next]_vars => Dealt'
<1> SUFFICES ASSUME IInv, Dealt, [Next]_vars PROVE Dealt'
  OBVIOUS
<1>1. row \in Nat /\ col \in Nat /\ Bijective(puzzle, row, col)
  BY DEF IInv, TypeOK
<1>2. ASSUME NEW s \in Sizes, Make(s[1], s[2]) PROVE Dealt'
  <2>1. s[1] \in Nat /\ s[2] \in Nat
    OBVIOUS
  <2>2. CASE s[1] = 0 \/ s[2] = 0
    BY <1>2, <2>2 DEF Make, Dealt
  <2>3. CASE s[1] > 0 /\ s[2] > 0
    <3>1. EvenBoard(Ordered(s[1], s[2]), s[1], s[2])
      BY <2>1, <2>3, OrderedIsEven
    <3> QED BY <1>2, <3>1 DEF Make, Dealt
  <2> QED BY <2>1, <2>2, <2>3
<1>3. CASE ShuffleStep
  <2>1. PICK next \in Neighbours(cur) : puzzle' = Swap(puzzle, cur, next)
    BY <1>3 DEF ShuffleStep
  <2>2. cur \in Board /\ puzzle[cur] = 0 /\ EvenBoard(puzzle, row, col)
    BY <1>3 DEF ShuffleStep, IInv, TypeOK, ShuffleInv, Dealt
  <2>3. /\ next \in Board /\ next # cur
        /\ next[1] + next[2] \in {cur[1] + cur[2] - 1, cur[1] + cur[2] + 1}
    BY <1>1, <2>2, NeighbourIsBeside
  <2>4. EvenBoard(Swap(puzzle, cur, next), row, col)
    BY <1>1, <2>2, <2>3, SlideKeepsEven DEF Board
  <2> QED BY <1>3, <2>1, <2>4 DEF ShuffleStep, Dealt
<1>4. ASSUME NEW x \in Board, Click(x) PROVE Dealt'
  <2>1. EvenBoard(puzzle, row, col) /\ row' = row /\ col' = col
    BY <1>4 DEF Click, Dealt
  <2>2. CASE puzzle' = puzzle
    BY <2>1, <2>2 DEF Dealt
  <2>3. ASSUME NEW y \in Neighbours(x), puzzle[y] = 0, puzzle' = Swap(puzzle, x, y)
        PROVE  Dealt'
    <3>1. /\ y \in Board /\ y # x
          /\ y[1] + y[2] \in {x[1] + x[2] - 1, x[1] + x[2] + 1}
      BY <1>1, NeighbourIsBeside
    <3>2. EvenBoard(Swap(puzzle, x, y), row, col)
      BY <1>1, <2>1, <2>3, <3>1, SlideKeepsEven DEF Board
    <3> QED BY <2>1, <2>3, <3>2 DEF Dealt
  <2> QED BY <1>4, <2>2, <2>3, ClickSlides
<1>5. CASE MakeFails \/ ShuffleStuck \/ ShuffleDone \/ UNCHANGED vars
  BY <1>5 DEF MakeFails, ShuffleStuck, ShuffleDone, vars, Dealt
<1> QED BY <1>2, <1>3, <1>4, <1>5 DEF Next

------------------------------------------------------------------------------
(***************************************************************************)
(* Theorems                                                                *)
(***************************************************************************)

\* The type invariant, for every size of board.
THEOREM TypeCorrect == Spec => []TypeOK
<1>1. IInv => TypeOK
  BY DEF IInv
<1> QED BY <1>1, Invariance, PTL

\* shuffle() makes exactly MinMoves + 1 slides on every board, although its
\* condition reads as a retry: `isMatched` never prolongs the loop.
THEOREM ShuffleIsExact == Spec => []ShuffleExact
<1>1. IInv => ShuffleExact
  BY DEF IInv, ShuffleInv, ShuffleExact
<1> QED BY <1>1, Invariance, PTL

\* On a board of any size no slide loses or doubles a tile.
THEOREM TilesAreKept == Spec => []TilesKept
<1>1. IInv => TilesKept
  <2>1. SUFFICES ASSUME IInv, NEW v \in 0 .. row * col - 1
                 PROVE  Cardinality({x \in Board : puzzle[x] = v}) = 1
    BY DEF TilesKept
  <2>2. PICK x \in Board : puzzle[x] = v
    BY <2>1 DEF IInv, Bijective, Board
  <2>3. {y \in Board : puzzle[y] = v} = {x}
    BY <2>1, <2>2 DEF IInv, Bijective, Board
  <2> QED BY <2>3, FS_Singleton
<1> QED BY <1>1, Invariance, PTL

\* The player is never dealt, and never reaches, a board that cannot be solved,
\* whatever the size of the board and the length of the shuffle: shuffle() and
\* btn_change only slide tiles into the blank beside them.
THEOREM BoardIsSolvable == Spec => []Solvable
<1>1. IInv /\ Dealt => Solvable
  <2>1. SUFFICES ASSUME IInv, EvenBoard(puzzle, row, col) PROVE
                 (Inversions + (row - 1 - BlankAt[1]) + (col - 1 - BlankAt[2])) % 2 = 0
    BY DEF Dealt, Solvable
  <2> DEFINE D == Cardinality(Disorder(Pairs(row, col), Ranks(puzzle, row, col)))
  <2>2. row \in Nat /\ col \in Nat /\ Bijective(puzzle, row, col)
    BY <2>1 DEF IInv, TypeOK
  <2>3. PICK b \in Board : puzzle[b] = 0 /\ (D + FromLast(b, row, col)) % 2 = 0
    BY <2>1 DEF EvenBoard, Board
  <2>4. BlankAt = b
    BY <2>2, <2>3 DEF BlankAt, Bijective, Board
  <2>5. Inversions = D
    <3>1. \A x \in Board : Ranks(puzzle, row, col)[x] = Rank(x)
      BY DEF Ranks, Rank, Board
    <3>2. {q \in Board \X Board : RowMajorBefore(q[1], q[2]) /\ Rank(q[1]) > Rank(q[2])}
            = Disorder(Pairs(row, col), Ranks(puzzle, row, col))
      BY <3>1 DEF Disorder, Pairs, Board
    <3> QED BY <3>2 DEF Inversions
  <2>6. D \in Nat
    <3>1. IsFiniteSet(Pairs(row, col))
      <4>1. IsFiniteSet(Cells(row, col) \X Cells(row, col))
        BY <2>2, RowMajorOrders, FS_Product
      <4> QED BY <4>1, FS_Subset DEF Pairs
    <3>2. IsFiniteSet(Disorder(Pairs(row, col), Ranks(puzzle, row, col)))
      BY <3>1, FS_Subset DEF Disorder
    <3> QED BY <3>2, FS_CardinalityType
  <2> HIDE DEF D
  <2>7. b[1] \in Nat /\ b[2] \in Nat
    BY <2>2, BoardCell
  <2>8. Inversions + (row - 1 - BlankAt[1]) + (col - 1 - BlankAt[2]) = D + FromLast(b, row, col)
    BY <2>2, <2>4, <2>5, <2>6, <2>7 DEF FromLast
  <2> QED BY <2>3, <2>8
<1> QED BY <1>1, DealtInit, DealtNext, Invariance, PTL DEF Spec

\* The driver is told of a win exactly when the slide just made puts every
\* tile in its place: isMatched has no false positive and no false negative.
THEOREM WinIsExact == Spec => []WinExact
<1>1. IInv => WinExact
  <2>1. SUFFICES ASSUME IInv, writes # <<>>
                 PROVE  writes = <<0, 1>> <=> puzzle = Ordered(row, col)
    BY DEF WinExact
  <2> QED BY <2>1, MatchedIsOrdered DEF IInv, TypeOK, ReportInv
<1> QED BY <1>1, Invariance, PTL

\* The player only ever sees a board change by one tile sliding into the blank
\* beside it, whatever is clicked and on a board of any size.
THEOREM SlidesOnly == Spec => OnlySlides
<1>1. IInv /\ [Next]_vars => [cnt' # 0 /\ puzzle' # puzzle => OneSlide(puzzle, puzzle')]_vars
  <2>1. SUFFICES ASSUME IInv, Next, cnt' # 0, puzzle' # puzzle
                 PROVE  OneSlide(puzzle, puzzle')
    OBVIOUS
  <2>2. row \in Nat /\ col \in Nat
    BY <2>1 DEF IInv, TypeOK
  <2>3. ASSUME NEW x \in Board, NEW y \in Neighbours(x), puzzle[y] = 0,
               puzzle' = Swap(puzzle, x, y)
        PROVE  OneSlide(puzzle, puzzle')
    <3>1. y \in Board /\ y # x
          /\ (x[1] - y[1]) * (x[1] - y[1]) + (x[2] - y[2]) * (x[2] - y[2]) = 1
      BY <2>2, NeighbourIsBeside
    <3>2. puzzle' = [puzzle EXCEPT ![y] = puzzle[x], ![x] = 0]
      BY <2>1, <2>3, <3>1 DEF Swap, IInv, TypeOK
    <3> QED BY <2>3, <3>1, <3>2 DEF OneSlide
  <2>4. ASSUME ShuffleStep PROVE OneSlide(puzzle, puzzle')
    <3>1. PICK x \in Neighbours(cur) : puzzle' = Swap(puzzle, cur, x)
      BY <2>4 DEF ShuffleStep
    <3>2. cur \in Board /\ puzzle[cur] = 0 /\ x \in Board /\ x # cur
      BY <2>1, <2>2, <2>4, NeighbourIsBeside DEF IInv, TypeOK, ShuffleInv, ShuffleStep
    <3>3. (x[1] - cur[1]) * (x[1] - cur[1]) + (x[2] - cur[2]) * (x[2] - cur[2]) = 1
      BY <2>2, <3>2, NeighbourIsBeside
    <3> QED BY <3>1, <3>2, <3>3 DEF OneSlide, Swap
  <2>5. ASSUME NEW x \in Board, Click(x) PROVE OneSlide(puzzle, puzzle')
    BY <2>1, <2>3, <2>5, ClickSlides
  <2>6. CASE \E s \in Sizes : Make(s[1], s[2])
    BY <2>1, <2>6 DEF Make
  <2> QED BY <2>1, <2>4, <2>5, <2>6 DEF Next, MakeFails, ShuffleStuck, ShuffleDone
<1> QED BY <1>1, Invariance, PTL DEF Spec, OnlySlides
==============================================================================
