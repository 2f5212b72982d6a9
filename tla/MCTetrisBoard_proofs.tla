------------------------- MODULE MCTetrisBoard_proofs -------------------------
(***************************************************************************)
(* For every board size, with the shapes of the source: a rotation is a    *)
(* quarter turn, and the page previews the piece that comes next.          *)
(***************************************************************************)
EXTENDS MCTetrisBoard, TetrisBoard_proofs

\* A cell moved, and the cells of C moved with it.
Shift(c, x, y) == <<c[1] + x, c[2] + y>>
Shifted(C, x, y) == {Shift(c, x, y) : c \in C}

\* A cell a quarter turn on, and moved.
Turn(c, x, y) == <<c[2] + x, y - c[1]>>
Turned(C, x, y) == {Turn(c, x, y) : c \in C}

Box == (-3..3) \X (-3..3)

\* A set of numbers has one least element at most.
LEMMA LeastElement ==
  ASSUME NEW S \in SUBSET Int, NEW m \in S, \A n \in S : m <= n
  PROVE  Least(S) = m
<1>1. \E n \in S : \A k \in S : n <= k
  OBVIOUS
<1>2. Least(S) \in S /\ \A k \in S : Least(S) <= k
  BY <1>1 DEF Least
<1>3. Least(S) \in Int /\ m \in Int
  BY <1>2
<1>4. Least(S) <= m /\ m <= Least(S)
  BY <1>2
<1>5. QED
  BY <1>3, <1>4

\* The least element moves with the set.
LEMMA LeastMoves ==
  ASSUME NEW S \in SUBSET (-3..3), S # {}, NEW d \in Int, NEW M \in SUBSET Int,
         \A n \in S : n + d \in M,
         \A k \in M : \E n \in S : k = n + d
  PROVE  Least(S) \in Int /\ Least(M) = Least(S) + d
<1>1. PICK m \in S : \A n \in S : m <= n
  <2>1. PICK k \in S : TRUE
    OBVIOUS
  <2>2. \/ -3 \in S \/ -2 \in S \/ -1 \in S \/ 0 \in S \/ 1 \in S \/ 2 \in S \/ 3 \in S
    BY <2>1
  <2>3. QED
    BY <2>2
<1>2. Least(S) = m
  BY <1>1, LeastElement
<1>3. m + d \in M /\ \A k \in M : m + d <= k
  BY <1>1
<1>4. Least(M) = m + d
  BY <1>3, LeastElement
<1>5. QED
  BY <1>2, <1>4

\* Where a set of cells stands does not change its Corner.
LEMMA CornerMoves ==
  ASSUME NEW C \in SUBSET Box, C # {}, NEW x \in Int, NEW y \in Int
  PROVE  Corner(Shifted(C, x, y)) = Corner(C)
<1> DEFINE D == Shifted(C, x, y)
           R == {c[1] : c \in C}
           K == {c[2] : c \in C}
           S == {d[1] : d \in D}
           L == {d[2] : d \in D}
<1>1. \A c \in C : c[1] \in -3..3 /\ c[2] \in -3..3
  BY DEF Box
<1>2. \A c \in C : /\ Shift(c, x, y) \in D
                   /\ Shift(c, x, y)[1] = c[1] + x
                   /\ Shift(c, x, y)[2] = c[2] + y
  BY DEF Shifted, Shift
<1>3. \A d \in D : \E c \in C : d = Shift(c, x, y)
  BY DEF Shifted
<1> HIDE DEF D
<1>4. Least(R) \in Int /\ Least(S) = Least(R) + x
  <2>1. R \in SUBSET (-3..3) /\ R # {}
    BY <1>1
  <2>2. S \in SUBSET Int
    BY <1>1, <1>2, <1>3
  <2>3. \A n \in R : n + x \in S
    BY <1>2
  <2>4. \A k \in S : \E n \in R : k = n + x
    BY <1>2, <1>3
  <2> HIDE DEF R, S
  <2>5. QED
    BY <2>1, <2>2, <2>3, <2>4, LeastMoves
<1>5. Least(K) \in Int /\ Least(L) = Least(K) + y
  <2>1. K \in SUBSET (-3..3) /\ K # {}
    BY <1>1
  <2>2. L \in SUBSET Int
    BY <1>1, <1>2, <1>3
  <2>3. \A n \in K : n + y \in L
    BY <1>2
  <2>4. \A k \in L : \E n \in K : k = n + y
    BY <1>2, <1>3
  <2> HIDE DEF K, L
  <2>5. QED
    BY <2>1, <2>2, <2>3, <2>4, LeastMoves
<1>6. /\ Corner(D) = {<<d[1] - Least(S), d[2] - Least(L)>> : d \in D}
      /\ Corner(C) = {<<c[1] - Least(R), c[2] - Least(K)>> : c \in C}
  BY DEF Corner
<1>7. \A c \in C : /\ Shift(c, x, y)[1] - Least(S) = c[1] - Least(R)
                   /\ Shift(c, x, y)[2] - Least(L) = c[2] - Least(K)
  <2> HIDE DEF R, K, S, L
  <2>1. QED
    BY <1>1, <1>2, <1>4, <1>5
<1> HIDE DEF R, K, S, L
<1>8. ASSUME NEW e \in Corner(D) PROVE e \in Corner(C)
  <2>1. PICK d \in D : e = <<d[1] - Least(S), d[2] - Least(L)>>
    BY <1>6
  <2>2. PICK c \in C : d = Shift(c, x, y)
    BY <1>3
  <2>3. QED
    BY <2>1, <2>2, <1>6, <1>7
<1>9. ASSUME NEW e \in Corner(C) PROVE e \in Corner(D)
  <2>1. PICK c \in C : e = <<c[1] - Least(R), c[2] - Least(K)>>
    BY <1>6
  <2>2. /\ Shift(c, x, y) \in D
        /\ e = <<Shift(c, x, y)[1] - Least(S), Shift(c, x, y)[2] - Least(L)>>
    BY <2>1, <1>2, <1>7
  <2>3. QED
    BY <2>2, <1>6
<1>10. Corner(D) \subseteq Corner(C) /\ Corner(C) \subseteq Corner(D)
  BY <1>8, <1>9
<1>11. QED
  BY <1>10 DEF D

\* A shape whose cells are those of another a quarter turn on.
LEMMA QuarterTurn ==
  ASSUME NEW s \in Shapes, NEW x \in Int, NEW y \in Int
  PROVE  Corner({<<c[2], -c[1]>> : c \in ShapeCells(s)}) =
         Corner(Turned(ShapeCells(s), x, y))
<1> DEFINE C == ShapeCells(s)
           A == {<<c[2], -c[1]>> : c \in C}
<1>1. \A c \in C : c[1] \in 0..3 /\ c[2] \in 0..3
  <2>1. \A i \in Points : Shape[s][i].x \in 0..3 /\ Shape[s][i].y \in 0..3
    BY ShapeAssumption
  <2>2. QED
    BY <2>1 DEF ShapeCells
<1>2. C # {}
  <2>1. 1 \in Points
    BY DEF Points
  <2>2. QED
    BY <2>1 DEF ShapeCells
<1> HIDE DEF C
<1>3. A \in SUBSET Box /\ A # {}
  <2>1. \A c \in C : <<c[2], -c[1]>> \in Box
    BY <1>1 DEF Box
  <2>2. QED
    BY <1>2, <2>1
<1>4. \A c \in C : Shift(<<c[2], -c[1]>>, x, y) = Turn(c, x, y)
  BY <1>1 DEF Shift, Turn
<1>5. Shifted(A, x, y) = {Shift(<<c[2], -c[1]>>, x, y) : c \in C}
  BY Zenon DEF Shifted
<1>6. Shifted(A, x, y) = Turned(C, x, y)
  BY <1>4, <1>5 DEF Turned
<1> HIDE DEF A
<1>7. Corner(Shifted(A, x, y)) = Corner(A)
  BY <1>3, CornerMoves
<1>8. QED
  BY <1>6, <1>7 DEF A, C


\* The points of t are those of s a quarter turn on, and moved.
Turns(s, t, x, y) ==
  /\ \A i \in Points : \E j \in Points :
       Shape[t][j].x = Shape[s][i].y + x /\ Shape[t][j].y = y - Shape[s][i].x
  /\ \A j \in Points : \E i \in Points :
       Shape[t][j].x = Shape[s][i].y + x /\ Shape[t][j].y = y - Shape[s][i].x

\* Then so are its cells.
LEMMA CellsTurn ==
  ASSUME NEW s, NEW t, NEW x, NEW y, Turns(s, t, x, y)
  PROVE  ShapeCells(t) = Turned(ShapeCells(s), x, y)
<1> DEFINE Cell(q, i) == <<Shape[q][i].x, Shape[q][i].y>>
<1>1. \A i \in Points : Turn(Cell(s, i), x, y) = <<Shape[s][i].y + x, y - Shape[s][i].x>>
  BY DEF Turn
<1>2. ASSUME NEW c \in ShapeCells(t) PROVE c \in Turned(ShapeCells(s), x, y)
  <2>1. PICK j \in Points : c = Cell(t, j)
    BY DEF ShapeCells
  <2>2. PICK i \in Points : c = Turn(Cell(s, i), x, y)
    BY <2>1, <1>1 DEF Turns
  <2>3. Cell(s, i) \in ShapeCells(s)
    BY DEF ShapeCells
  <2>4. QED
    BY <2>2, <2>3 DEF Turned
<1>3. ASSUME NEW c \in Turned(ShapeCells(s), x, y) PROVE c \in ShapeCells(t)
  <2>1. PICK d \in ShapeCells(s) : c = Turn(d, x, y)
    BY DEF Turned
  <2>2. PICK i \in Points : d = Cell(s, i)
    BY DEF ShapeCells
  <2>3. PICK j \in Points : c = Cell(t, j)
    BY <2>1, <2>2, <1>1 DEF Turns
  <2>4. QED
    BY <2>3 DEF ShapeCells
<1>4. /\ ShapeCells(t) \subseteq Turned(ShapeCells(s), x, y)
      /\ Turned(ShapeCells(s), x, y) \subseteq ShapeCells(t)
  BY <1>2, <1>3
<1>5. QED
  BY <1>4

\* The points of each shape.
LEMMA PointsOfShapes ==
  /\ Shape[0] = <<P(1, 0), P(1, 1), P(2, 1), P(2, 2)>>
  /\ Shape[1] = <<P(0, 2), P(1, 1), P(1, 2), P(2, 1)>>
  /\ Shape[2] = <<P(2, 0), P(1, 1), P(2, 1), P(1, 2)>>
  /\ Shape[3] = <<P(0, 0), P(1, 0), P(1, 1), P(2, 1)>>
  /\ Shape[4] = <<P(1, 0), P(1, 1), P(1, 2), P(1, 3)>>
  /\ Shape[5] = <<P(0, 2), P(1, 2), P(2, 2), P(3, 2)>>
  /\ Shape[6] = <<P(1, 0), P(1, 1), P(1, 2), P(2, 1)>>
  /\ Shape[7] = <<P(1, 0), P(0, 1), P(1, 1), P(2, 1)>>
  /\ Shape[8] = <<P(1, 1), P(2, 0), P(2, 1), P(2, 2)>>
  /\ Shape[9] = <<P(0, 1), P(1, 1), P(2, 1), P(1, 2)>>
  /\ Shape[10] = <<P(1, 0), P(2, 0), P(1, 1), P(1, 2)>>
  /\ Shape[11] = <<P(0, 0), P(0, 1), P(1, 1), P(2, 1)>>
  /\ Shape[12] = <<P(2, 0), P(2, 1), P(1, 2), P(2, 2)>>
  /\ Shape[13] = <<P(0, 1), P(1, 1), P(2, 1), P(2, 2)>>
  /\ Shape[14] = <<P(1, 0), P(1, 1), P(1, 2), P(2, 2)>>
  /\ Shape[15] = <<P(0, 1), P(1, 1), P(2, 1), P(2, 0)>>
  /\ Shape[16] = <<P(1, 0), P(2, 0), P(2, 1), P(2, 2)>>
  /\ Shape[17] = <<P(0, 1), P(0, 2), P(1, 1), P(2, 1)>>
  /\ Shape[18] = <<P(0, 0), P(1, 0), P(1, 1), P(0, 1)>>
<1>0. \A s \in Indexes : Shape[s] = TetrominoList[s + 1].tetromino_map
  BY TableAssumption DEF TetrominoMap
<1>1. Shape[0] = <<P(1, 0), P(1, 1), P(2, 1), P(2, 2)>>
  BY <1>0 DEF TetrominoList, Indexes
<1>2. Shape[1] = <<P(0, 2), P(1, 1), P(1, 2), P(2, 1)>>
  BY <1>0 DEF TetrominoList, Indexes
<1>3. Shape[2] = <<P(2, 0), P(1, 1), P(2, 1), P(1, 2)>>
  BY <1>0 DEF TetrominoList, Indexes
<1>4. Shape[3] = <<P(0, 0), P(1, 0), P(1, 1), P(2, 1)>>
  BY <1>0 DEF TetrominoList, Indexes
<1>5. Shape[4] = <<P(1, 0), P(1, 1), P(1, 2), P(1, 3)>>
  BY <1>0 DEF TetrominoList, Indexes
<1>6. Shape[5] = <<P(0, 2), P(1, 2), P(2, 2), P(3, 2)>>
  BY <1>0 DEF TetrominoList, Indexes
<1>7. Shape[6] = <<P(1, 0), P(1, 1), P(1, 2), P(2, 1)>>
  BY <1>0 DEF TetrominoList, Indexes
<1>8. Shape[7] = <<P(1, 0), P(0, 1), P(1, 1), P(2, 1)>>
  BY <1>0 DEF TetrominoList, Indexes
<1>9. Shape[8] = <<P(1, 1), P(2, 0), P(2, 1), P(2, 2)>>
  BY <1>0 DEF TetrominoList, Indexes
<1>10. Shape[9] = <<P(0, 1), P(1, 1), P(2, 1), P(1, 2)>>
  BY <1>0 DEF TetrominoList, Indexes
<1>11. Shape[10] = <<P(1, 0), P(2, 0), P(1, 1), P(1, 2)>>
  BY <1>0 DEF TetrominoList, Indexes
<1>12. Shape[11] = <<P(0, 0), P(0, 1), P(1, 1), P(2, 1)>>
  BY <1>0 DEF TetrominoList, Indexes
<1>13. Shape[12] = <<P(2, 0), P(2, 1), P(1, 2), P(2, 2)>>
  BY <1>0 DEF TetrominoList, Indexes
<1>14. Shape[13] = <<P(0, 1), P(1, 1), P(2, 1), P(2, 2)>>
  BY <1>0 DEF TetrominoList, Indexes
<1>15. Shape[14] = <<P(1, 0), P(1, 1), P(1, 2), P(2, 2)>>
  BY <1>0 DEF TetrominoList, Indexes
<1>16. Shape[15] = <<P(0, 1), P(1, 1), P(2, 1), P(2, 0)>>
  BY <1>0 DEF TetrominoList, Indexes
<1>17. Shape[16] = <<P(1, 0), P(2, 0), P(2, 1), P(2, 2)>>
  BY <1>0 DEF TetrominoList, Indexes
<1>18. Shape[17] = <<P(0, 1), P(0, 2), P(1, 1), P(2, 1)>>
  BY <1>0 DEF TetrominoList, Indexes
<1>19. Shape[18] = <<P(0, 0), P(1, 0), P(1, 1), P(0, 1)>>
  BY <1>0 DEF TetrominoList, Indexes
<1>20. QED
  BY <1>1, <1>2, <1>3, <1>4, <1>5, <1>6, <1>7, <1>8, <1>9, <1>10,
     <1>11, <1>12, <1>13, <1>14, <1>15, <1>16, <1>17, <1>18, <1>19

\* The index each shape turns to.
LEMMA NextOfShapes ==
  /\ NextIndex[0] = 1
  /\ NextIndex[1] = 0
  /\ NextIndex[2] = 3
  /\ NextIndex[3] = 2
  /\ NextIndex[4] = 5
  /\ NextIndex[5] = 4
  /\ NextIndex[6] = 7
  /\ NextIndex[7] = 8
  /\ NextIndex[8] = 9
  /\ NextIndex[9] = 6
  /\ NextIndex[10] = 11
  /\ NextIndex[11] = 12
  /\ NextIndex[12] = 13
  /\ NextIndex[13] = 10
  /\ NextIndex[14] = 15
  /\ NextIndex[15] = 16
  /\ NextIndex[16] = 17
  /\ NextIndex[17] = 14
  /\ NextIndex[18] = 18
<1>1. NextIndex[0] = 1
  BY DEF NextIndex, TetrominoList, Indexes
<1>2. NextIndex[1] = 0
  BY DEF NextIndex, TetrominoList, Indexes
<1>3. NextIndex[2] = 3
  BY DEF NextIndex, TetrominoList, Indexes
<1>4. NextIndex[3] = 2
  BY DEF NextIndex, TetrominoList, Indexes
<1>5. NextIndex[4] = 5
  BY DEF NextIndex, TetrominoList, Indexes
<1>6. NextIndex[5] = 4
  BY DEF NextIndex, TetrominoList, Indexes
<1>7. NextIndex[6] = 7
  BY DEF NextIndex, TetrominoList, Indexes
<1>8. NextIndex[7] = 8
  BY DEF NextIndex, TetrominoList, Indexes
<1>9. NextIndex[8] = 9
  BY DEF NextIndex, TetrominoList, Indexes
<1>10. NextIndex[9] = 6
  BY DEF NextIndex, TetrominoList, Indexes
<1>11. NextIndex[10] = 11
  BY DEF NextIndex, TetrominoList, Indexes
<1>12. NextIndex[11] = 12
  BY DEF NextIndex, TetrominoList, Indexes
<1>13. NextIndex[12] = 13
  BY DEF NextIndex, TetrominoList, Indexes
<1>14. NextIndex[13] = 10
  BY DEF NextIndex, TetrominoList, Indexes
<1>15. NextIndex[14] = 15
  BY DEF NextIndex, TetrominoList, Indexes
<1>16. NextIndex[15] = 16
  BY DEF NextIndex, TetrominoList, Indexes
<1>17. NextIndex[16] = 17
  BY DEF NextIndex, TetrominoList, Indexes
<1>18. NextIndex[17] = 14
  BY DEF NextIndex, TetrominoList, Indexes
<1>19. NextIndex[18] = 18
  BY DEF NextIndex, TetrominoList, Indexes
<1>20. QED
  BY <1>1, <1>2, <1>3, <1>4, <1>5, <1>6, <1>7, <1>8, <1>9, <1>10,
     <1>11, <1>12, <1>13, <1>14, <1>15, <1>16, <1>17, <1>18, <1>19

\* The next piece is always one of the shapes.
LEMMA NextIsShape == Spec => [](next \in Indexes)
<1>1. TypeOK => next \in Indexes
  BY TableAssumption DEF TypeOK
<1>2. QED
  BY <1>1, TypeCorrect, PTL

\* Each entry of the page's table is the shape that turns to that index.
LEMMA BlocksArePieces == \A s \in Indexes : NextBlock(NextIndex[s]) = ShapeCells(s)
<1>0. Points = {1, 2, 3, 4}
  BY DEF Points
<1>1. NextBlock(NextIndex[0]) = ShapeCells(0)
  <2>1. NextBlock(NextIndex[0]) = {<<1, 0>>, <<1, 1>>, <<2, 1>>, <<2, 2>>}
    BY NextOfShapes DEF NextBlock, Block
  <2>2. ShapeCells(0) = {<<1, 0>>, <<1, 1>>, <<2, 1>>, <<2, 2>>}
    BY <1>0, PointsOfShapes DEF ShapeCells, P
  <2>3. QED
    BY <2>1, <2>2
<1>2. NextBlock(NextIndex[1]) = ShapeCells(1)
  <2>1. NextBlock(NextIndex[1]) = {<<0, 2>>, <<1, 1>>, <<1, 2>>, <<2, 1>>}
    BY NextOfShapes DEF NextBlock, Block
  <2>2. ShapeCells(1) = {<<0, 2>>, <<1, 1>>, <<1, 2>>, <<2, 1>>}
    BY <1>0, PointsOfShapes DEF ShapeCells, P
  <2>3. QED
    BY <2>1, <2>2
<1>3. NextBlock(NextIndex[2]) = ShapeCells(2)
  <2>1. NextBlock(NextIndex[2]) = {<<2, 0>>, <<1, 1>>, <<2, 1>>, <<1, 2>>}
    BY NextOfShapes DEF NextBlock, Block
  <2>2. ShapeCells(2) = {<<2, 0>>, <<1, 1>>, <<2, 1>>, <<1, 2>>}
    BY <1>0, PointsOfShapes DEF ShapeCells, P
  <2>3. QED
    BY <2>1, <2>2
<1>4. NextBlock(NextIndex[3]) = ShapeCells(3)
  <2>1. NextBlock(NextIndex[3]) = {<<0, 0>>, <<1, 0>>, <<1, 1>>, <<2, 1>>}
    BY NextOfShapes DEF NextBlock, Block
  <2>2. ShapeCells(3) = {<<0, 0>>, <<1, 0>>, <<1, 1>>, <<2, 1>>}
    BY <1>0, PointsOfShapes DEF ShapeCells, P
  <2>3. QED
    BY <2>1, <2>2
<1>5. NextBlock(NextIndex[4]) = ShapeCells(4)
  <2>1. NextBlock(NextIndex[4]) = {<<1, 0>>, <<1, 1>>, <<1, 2>>, <<1, 3>>}
    BY NextOfShapes DEF NextBlock, Block
  <2>2. ShapeCells(4) = {<<1, 0>>, <<1, 1>>, <<1, 2>>, <<1, 3>>}
    BY <1>0, PointsOfShapes DEF ShapeCells, P
  <2>3. QED
    BY <2>1, <2>2
<1>6. NextBlock(NextIndex[5]) = ShapeCells(5)
  <2>1. NextBlock(NextIndex[5]) = {<<0, 2>>, <<1, 2>>, <<2, 2>>, <<3, 2>>}
    BY NextOfShapes DEF NextBlock, Block
  <2>2. ShapeCells(5) = {<<0, 2>>, <<1, 2>>, <<2, 2>>, <<3, 2>>}
    BY <1>0, PointsOfShapes DEF ShapeCells, P
  <2>3. QED
    BY <2>1, <2>2
<1>7. NextBlock(NextIndex[6]) = ShapeCells(6)
  <2>1. NextBlock(NextIndex[6]) = {<<1, 0>>, <<1, 1>>, <<1, 2>>, <<2, 1>>}
    BY NextOfShapes DEF NextBlock, Block
  <2>2. ShapeCells(6) = {<<1, 0>>, <<1, 1>>, <<1, 2>>, <<2, 1>>}
    BY <1>0, PointsOfShapes DEF ShapeCells, P
  <2>3. QED
    BY <2>1, <2>2
<1>8. NextBlock(NextIndex[7]) = ShapeCells(7)
  <2>1. NextBlock(NextIndex[7]) = {<<1, 0>>, <<0, 1>>, <<1, 1>>, <<2, 1>>}
    BY NextOfShapes DEF NextBlock, Block
  <2>2. ShapeCells(7) = {<<1, 0>>, <<0, 1>>, <<1, 1>>, <<2, 1>>}
    BY <1>0, PointsOfShapes DEF ShapeCells, P
  <2>3. QED
    BY <2>1, <2>2
<1>9. NextBlock(NextIndex[8]) = ShapeCells(8)
  <2>1. NextBlock(NextIndex[8]) = {<<1, 1>>, <<2, 0>>, <<2, 1>>, <<2, 2>>}
    BY NextOfShapes DEF NextBlock, Block
  <2>2. ShapeCells(8) = {<<1, 1>>, <<2, 0>>, <<2, 1>>, <<2, 2>>}
    BY <1>0, PointsOfShapes DEF ShapeCells, P
  <2>3. QED
    BY <2>1, <2>2
<1>10. NextBlock(NextIndex[9]) = ShapeCells(9)
  <2>1. NextBlock(NextIndex[9]) = {<<0, 1>>, <<1, 1>>, <<2, 1>>, <<1, 2>>}
    BY NextOfShapes DEF NextBlock, Block
  <2>2. ShapeCells(9) = {<<0, 1>>, <<1, 1>>, <<2, 1>>, <<1, 2>>}
    BY <1>0, PointsOfShapes DEF ShapeCells, P
  <2>3. QED
    BY <2>1, <2>2
<1>11. NextBlock(NextIndex[10]) = ShapeCells(10)
  <2>1. NextBlock(NextIndex[10]) = {<<1, 0>>, <<2, 0>>, <<1, 1>>, <<1, 2>>}
    BY NextOfShapes DEF NextBlock, Block
  <2>2. ShapeCells(10) = {<<1, 0>>, <<2, 0>>, <<1, 1>>, <<1, 2>>}
    BY <1>0, PointsOfShapes DEF ShapeCells, P
  <2>3. QED
    BY <2>1, <2>2
<1>12. NextBlock(NextIndex[11]) = ShapeCells(11)
  <2>1. NextBlock(NextIndex[11]) = {<<0, 0>>, <<0, 1>>, <<1, 1>>, <<2, 1>>}
    BY NextOfShapes DEF NextBlock, Block
  <2>2. ShapeCells(11) = {<<0, 0>>, <<0, 1>>, <<1, 1>>, <<2, 1>>}
    BY <1>0, PointsOfShapes DEF ShapeCells, P
  <2>3. QED
    BY <2>1, <2>2
<1>13. NextBlock(NextIndex[12]) = ShapeCells(12)
  <2>1. NextBlock(NextIndex[12]) = {<<2, 0>>, <<2, 1>>, <<1, 2>>, <<2, 2>>}
    BY NextOfShapes DEF NextBlock, Block
  <2>2. ShapeCells(12) = {<<2, 0>>, <<2, 1>>, <<1, 2>>, <<2, 2>>}
    BY <1>0, PointsOfShapes DEF ShapeCells, P
  <2>3. QED
    BY <2>1, <2>2
<1>14. NextBlock(NextIndex[13]) = ShapeCells(13)
  <2>1. NextBlock(NextIndex[13]) = {<<0, 1>>, <<1, 1>>, <<2, 1>>, <<2, 2>>}
    BY NextOfShapes DEF NextBlock, Block
  <2>2. ShapeCells(13) = {<<0, 1>>, <<1, 1>>, <<2, 1>>, <<2, 2>>}
    BY <1>0, PointsOfShapes DEF ShapeCells, P
  <2>3. QED
    BY <2>1, <2>2
<1>15. NextBlock(NextIndex[14]) = ShapeCells(14)
  <2>1. NextBlock(NextIndex[14]) = {<<1, 0>>, <<1, 1>>, <<1, 2>>, <<2, 2>>}
    BY NextOfShapes DEF NextBlock, Block
  <2>2. ShapeCells(14) = {<<1, 0>>, <<1, 1>>, <<1, 2>>, <<2, 2>>}
    BY <1>0, PointsOfShapes DEF ShapeCells, P
  <2>3. QED
    BY <2>1, <2>2
<1>16. NextBlock(NextIndex[15]) = ShapeCells(15)
  <2>1. NextBlock(NextIndex[15]) = {<<0, 1>>, <<1, 1>>, <<2, 1>>, <<2, 0>>}
    BY NextOfShapes DEF NextBlock, Block
  <2>2. ShapeCells(15) = {<<0, 1>>, <<1, 1>>, <<2, 1>>, <<2, 0>>}
    BY <1>0, PointsOfShapes DEF ShapeCells, P
  <2>3. QED
    BY <2>1, <2>2
<1>17. NextBlock(NextIndex[16]) = ShapeCells(16)
  <2>1. NextBlock(NextIndex[16]) = {<<1, 0>>, <<2, 0>>, <<2, 1>>, <<2, 2>>}
    BY NextOfShapes DEF NextBlock, Block
  <2>2. ShapeCells(16) = {<<1, 0>>, <<2, 0>>, <<2, 1>>, <<2, 2>>}
    BY <1>0, PointsOfShapes DEF ShapeCells, P
  <2>3. QED
    BY <2>1, <2>2
<1>18. NextBlock(NextIndex[17]) = ShapeCells(17)
  <2>1. NextBlock(NextIndex[17]) = {<<0, 1>>, <<0, 2>>, <<1, 1>>, <<2, 1>>}
    BY NextOfShapes DEF NextBlock, Block
  <2>2. ShapeCells(17) = {<<0, 1>>, <<0, 2>>, <<1, 1>>, <<2, 1>>}
    BY <1>0, PointsOfShapes DEF ShapeCells, P
  <2>3. QED
    BY <2>1, <2>2
<1>19. NextBlock(NextIndex[18]) = ShapeCells(18)
  <2>1. NextBlock(NextIndex[18]) = {<<0, 0>>, <<1, 0>>, <<1, 1>>, <<0, 1>>}
    BY NextOfShapes DEF NextBlock, Block
  <2>2. ShapeCells(18) = {<<0, 0>>, <<1, 0>>, <<1, 1>>, <<0, 1>>}
    BY <1>0, PointsOfShapes DEF ShapeCells, P
  <2>3. QED
    BY <2>1, <2>2
<1>20. QED
  BY <1>1, <1>2, <1>3, <1>4, <1>5, <1>6, <1>7, <1>8, <1>9, <1>10,
     <1>11, <1>12, <1>13, <1>14, <1>15, <1>16, <1>17, <1>18, <1>19 DEF Indexes

\* Each shape turns to the next, at its own distance.
LEMMA ShapesTurn ==
  \A s \in Indexes : \E x, y \in Int : Turns(s, NextIndex[s], x, y)
<1>1. Turns(0, NextIndex[0], 0, 3)
  BY PointsOfShapes, NextOfShapes DEF Turns, P, Points
<1>2. Turns(1, NextIndex[1], 0, 2)
  BY PointsOfShapes, NextOfShapes DEF Turns, P, Points
<1>3. Turns(2, NextIndex[2], 0, 2)
  BY PointsOfShapes, NextOfShapes DEF Turns, P, Points
<1>4. Turns(3, NextIndex[3], 1, 2)
  BY PointsOfShapes, NextOfShapes DEF Turns, P, Points
<1>5. Turns(4, NextIndex[4], 0, 3)
  BY PointsOfShapes, NextOfShapes DEF Turns, P, Points
<1>6. Turns(5, NextIndex[5], -1, 3)
  BY PointsOfShapes, NextOfShapes DEF Turns, P, Points
<1>7. Turns(6, NextIndex[6], 0, 2)
  BY PointsOfShapes, NextOfShapes DEF Turns, P, Points
<1>8. Turns(7, NextIndex[7], 1, 2)
  BY PointsOfShapes, NextOfShapes DEF Turns, P, Points
<1>9. Turns(8, NextIndex[8], 0, 3)
  BY PointsOfShapes, NextOfShapes DEF Turns, P, Points
<1>10. Turns(9, NextIndex[9], 0, 2)
  BY PointsOfShapes, NextOfShapes DEF Turns, P, Points
<1>11. Turns(10, NextIndex[10], 0, 2)
  BY PointsOfShapes, NextOfShapes DEF Turns, P, Points
<1>12. Turns(11, NextIndex[11], 1, 2)
  BY PointsOfShapes, NextOfShapes DEF Turns, P, Points
<1>13. Turns(12, NextIndex[12], 0, 3)
  BY PointsOfShapes, NextOfShapes DEF Turns, P, Points
<1>14. Turns(13, NextIndex[13], 0, 2)
  BY PointsOfShapes, NextOfShapes DEF Turns, P, Points
<1>15. Turns(14, NextIndex[14], 0, 2)
  BY PointsOfShapes, NextOfShapes DEF Turns, P, Points
<1>16. Turns(15, NextIndex[15], 1, 2)
  BY PointsOfShapes, NextOfShapes DEF Turns, P, Points
<1>17. Turns(16, NextIndex[16], 0, 3)
  BY PointsOfShapes, NextOfShapes DEF Turns, P, Points
<1>18. Turns(17, NextIndex[17], 0, 2)
  BY PointsOfShapes, NextOfShapes DEF Turns, P, Points
<1>19. Turns(18, NextIndex[18], 0, 1)
  BY PointsOfShapes, NextOfShapes DEF Turns, P, Points
<1>20. QED
  BY <1>1, <1>2, <1>3, <1>4, <1>5, <1>6, <1>7, <1>8, <1>9, <1>10,
     <1>11, <1>12, <1>13, <1>14, <1>15, <1>16, <1>17, <1>18, <1>19 DEF Indexes

\* Rotating the next piece turns it by a quarter, whichever it is.
THEOREM RotationsTurn == Spec => []RotationTurns
<1>1. next \in Indexes => RotationTurns
  <2> SUFFICES ASSUME next \in Indexes PROVE RotationTurns
    OBVIOUS
  <2>1. PICK x, y \in Int : Turns(next, NextIndex[next], x, y)
    BY ShapesTurn
  <2>2. next \in Shapes
    BY TableAssumption
  <2>3. ShapeCells(NextIndex[next]) = Turned(ShapeCells(next), x, y)
    BY <2>1, CellsTurn
  <2>4. Corner({<<c[2], -c[1]>> : c \in ShapeCells(next)}) = Corner(ShapeCells(NextIndex[next]))
    BY <2>2, <2>3, QuarterTurn
  <2>5. QED
    BY <2>4, TableAssumption DEF RotationTurns
<1>2. QED
  BY <1>1, NextIsShape, PTL

\* The preview of the page is the piece that comes, cell by cell.
THEOREM PreviewsShowNext == Spec => []PreviewShowsNext
<1>1. next \in Indexes => PreviewShowsNext
  BY BlocksArePieces, TableAssumption DEF PreviewShowsNext, TetrominoIndex
<1>2. QED
  BY <1>1, NextIsShape, PTL
=============================================================================
