-------------------------- MODULE TetrisBoard_proofs --------------------------
(***************************************************************************)
(* For every board size and every set of shapes that TetrisBoard allows.   *)
(* First the cells: the types, SpawnAreaFree, NoOverlap, NoCompleteRow,    *)
(* ReadsInBounds, ViewShowsBoard and AtMostFourLines.  Then their number:  *)
(* TetrisBoard implements TetrisRules, and while a game goes on its cells  *)
(* come in fours.  The numbers of rows and cells are compared by           *)
(* bijections, so no induction over the rows is needed.                    *)
(***************************************************************************)
EXTENDS TetrisBoard, TLAPS, FiniteSetTheorems

Occupied(r) == \E y \in Inner : <<r, y>> \in settled

\* Above row 3 the stack has no gap.  It is what the test of row 3 relies on: if
\* row 3 is free, so is everything above it.
Supported == \A r \in 0..2 : Occupied(r) => Occupied(r + 1)

\* The rows the sweep has passed are not complete.
SweptBelow ==
  at = "sweep" =>
    /\ row \in 1..Height - 2
    /\ \A r \in 2..Height - 2 : r > row => ~Complete(r)

IInv ==
  /\ TypeOK
  /\ Frame \subseteq settled
  /\ Supported
  /\ SweptBelow
  /\ SpawnAreaFree
  /\ NoOverlap
  /\ NoCompleteRow

-----------------------------------------------------------------------------
(* Facts about pieces. *)

\* Rows do not wrap; columns stay unsigned integers.
LEMMA PointFacts ==
  ASSUME NEW p \in Pieces, NEW i \in Points
  PROVE  /\ RowOf(p.shape, i) \in 0..3
         /\ Point(p, i)[1] = p.x + RowOf(p.shape, i)
         /\ Point(p, i)[2] \in 0..UIntSize - 1
         /\ Point(p, i) = <<Point(p, i)[1], Point(p, i)[2]>>
<1>1. Shape[p.shape][i] \in [x : 0..3, y : 0..3]
  BY ShapeAssumption DEF Pieces
<1> QED
  BY <1>1, DimensionAssumption DEF Pieces, Point, Plus, RowOf

\* A move of a piece above the floor is a piece again.
LEMMA MovedIsPiece ==
  ASSUME NEW p \in Pieces, p.x < Height - 1, NEW oper \in Opers
  PROVE  Moved(oper, p) \in Pieces
<1> USE DimensionAssumption DEF Pieces, Plus
<1>1. CASE oper = "TETRIS_UP"
  BY <1>1, ShapeAssumption DEF Moved
<1>2. CASE oper = "TETRIS_LEFT"
  BY <1>2 DEF Moved
<1>3. CASE oper = "TETRIS_RIGHT"
  BY <1>3 DEF Moved
<1>4. CASE oper \in {"TETRIS_DOWN", "TETRIS_NONE"}
  BY <1>4 DEF Moved
<1> QED
  BY <1>1, <1>2, <1>3, <1>4 DEF Opers

\* Where the points of a moved piece are.
LEMMA MovedPoint ==
  ASSUME NEW p \in Pieces, p.x < Height - 1, NEW oper \in Opers, NEW i \in Points
  PROVE  /\ oper = "TETRIS_UP" =>
              Point(Moved(oper, p), i)[1] = p.x + RowOf(NextShape[p.shape], i)
         /\ oper \in {"TETRIS_LEFT", "TETRIS_RIGHT"} =>
              Point(Moved(oper, p), i)[1] = Point(p, i)[1]
         /\ oper \in {"TETRIS_DOWN", "TETRIS_NONE"} =>
              Point(Moved(oper, p), i) = <<Point(p, i)[1] + 1, Point(p, i)[2]>>
<1>1. Moved(oper, p) \in Pieces
  BY MovedIsPiece
<1>2. Point(Moved(oper, p), i)[1] = Moved(oper, p).x + RowOf(Moved(oper, p).shape, i)
  BY <1>1, PointFacts
<1>3. CASE oper = "TETRIS_UP"
  <2>1. Moved(oper, p) = [p EXCEPT !.shape = NextShape[p.shape]]
    BY <1>3 DEF Moved
  <2>2. Moved(oper, p).x = p.x /\ Moved(oper, p).shape = NextShape[p.shape]
    BY <2>1 DEF Pieces
  <2> QED
    BY <1>2, <1>3, <2>2
<1>4. CASE oper \in {"TETRIS_LEFT", "TETRIS_RIGHT"}
  <2>1. Moved(oper, p).x = p.x /\ Moved(oper, p).shape = p.shape
    BY <1>4 DEF Moved, Pieces
  <2> QED
    BY <1>2, <1>4, <2>1, PointFacts
<1>5. CASE oper \in {"TETRIS_DOWN", "TETRIS_NONE"}
  <2>1. Moved(oper, p) = [p EXCEPT !.x = Plus(p.x, 1)]
    BY <1>5 DEF Moved
  <2>2. Moved(oper, p).x = p.x + 1 /\ Moved(oper, p).y = p.y /\ Moved(oper, p).shape = p.shape
    BY <2>1, DimensionAssumption DEF Pieces, Plus
  <2>3. Point(Moved(oper, p), i)[2] = Point(p, i)[2]
    BY <2>2 DEF Point
  <2>4. Point(Moved(oper, p), i)[1] = Point(p, i)[1] + 1
    BY <1>2, <2>2, PointFacts, DimensionAssumption DEF Pieces
  <2>5. Point(Moved(oper, p), i) = <<Point(Moved(oper, p), i)[1], Point(Moved(oper, p), i)[2]>>
    BY <1>1, PointFacts
  <2> QED
    BY <1>5, <2>3, <2>4, <2>5
<1> QED
  BY <1>3, <1>4, <1>5

\* A piece that fits and has one point above the bottom of the map is inside:
\* with no row missing it cannot reach across the floor.
LEMMA FitsInside ==
  ASSUME NEW p \in Pieces, Frame \subseteq settled, Fits(p),
         NEW k \in Points, Point(p, k)[1] < Height
  PROVE  PieceCells(p) \subseteq Inside \ settled
<1> SUFFICES ASSUME NEW i \in Points PROVE Point(p, i) \in Inside \ settled
  BY DEF PieceCells
<1>1. ASSUME NEW j \in Points
      PROVE  Point(p, j)[2] \in 1..Width - 1 /\ Point(p, j) \notin settled
  BY PointFacts, DimensionAssumption DEF Fits, Clear
<1>2. ASSUME NEW j \in Points
      PROVE  Point(p, j)[1] # Height - 1
  BY <1>1, PointFacts, DimensionAssumption DEF Frame, Cells
<1>3. Point(p, i)[1] < Height
  <2> SUFFICES ASSUME Point(p, i)[1] >= Height PROVE FALSE
    BY PointFacts, DimensionAssumption DEF Pieces
  <2>1. Height - 1 - p.x \in RowOf(p.shape, k)..RowOf(p.shape, i)
    BY PointFacts, DimensionAssumption DEF Pieces
  <2>2. PICK j \in Points : RowOf(p.shape, j) = Height - 1 - p.x
    BY <2>1, ShapeAssumption DEF Pieces
  <2>3. Point(p, j)[1] = Height - 1
    BY <2>2, PointFacts, DimensionAssumption DEF Pieces
  <2> QED
    BY <2>3, <1>2
<1>4. Point(p, i)[2] # Width - 1
  BY <1>1, <1>3, PointFacts, DimensionAssumption DEF Frame, Cells, Pieces
<1> QED
  BY <1>1, <1>2, <1>3, <1>4, PointFacts, DimensionAssumption DEF Inside, Inner, Pieces

\* A piece inside is above the floor.
LEMMA InsideFacts ==
  ASSUME NEW p \in Pieces, PieceCells(p) \subseteq Inside
  PROVE  /\ p.x < Height - 1
         /\ \A i \in Points : Point(p, i)[1] \in 0..Height - 2 /\ Point(p, i)[2] \in Inner
<1>1. \A i \in Points : Point(p, i)[1] \in 0..Height - 2 /\ Point(p, i)[2] \in Inner
  BY DEF PieceCells, Inside
<1>2. 1 \in Points
  BY DEF Points
<1> QED
  BY <1>1, <1>2, PointFacts, DimensionAssumption DEF Pieces

\* The piece that a move starts from is inside and free, a new one too.
LEMMA CurrentFree ==
  ASSUME IInv, Playing
  PROVE  Current \in Pieces /\ PieceCells(Current) \subseteq Inside \ settled
<1>1. CASE piece = NoPiece
  <2>1. Current = Spawn(next) /\ next \in Shapes
    BY <1>1 DEF Current, IInv, TypeOK
  <2>2. Current \in Pieces
    BY <2>1, DimensionAssumption DEF Spawn, Pieces
  <2>3. ASSUME NEW i \in Points
        PROVE  Point(Current, i) \in Inside \ settled
    <3>1. Current.x = 0 /\ Current.y = SpawnColumn /\ Current.shape = next
      BY <2>1 DEF Spawn
    <3>2. Shape[next][i] \in [x : 0..3, y : 0..3]
      BY <2>1, ShapeAssumption
    <3>3. Point(Current, i)[1] \in 0..3
      BY <3>1, <2>2, PointFacts
    <3>4. Point(Current, i)[2] \in Inner
      BY <3>1, <3>2, DimensionAssumption DEF Point, Plus, Inner
    <3>5. Point(Current, i) = <<Point(Current, i)[1], Point(Current, i)[2]>>
      BY <2>2, PointFacts
    <3>6. Point(Current, i) \notin settled
      BY <3>3, <3>4, <3>5 DEF IInv, SpawnAreaFree
    <3> QED
      BY <3>3, <3>4, <3>5, <3>6, DimensionAssumption DEF Inside
  <2> QED
    BY <2>2, <2>3 DEF PieceCells
<1>2. CASE piece # NoPiece
  BY <1>2 DEF Current, IInv, TypeOK, NoOverlap, Playing
<1> QED
  BY <1>1, <1>2

\* A piece that passes the tests after a move is inside and free.
LEMMA MoveInside ==
  ASSUME IInv, Playing, NEW oper \in Opers, Fits(Moved(oper, Current))
  PROVE  /\ Moved(oper, Current) \in Pieces
         /\ PieceCells(Moved(oper, Current)) \subseteq Inside \ settled
<1> DEFINE p == Current
           q == Moved(oper, Current)
<1>1. p \in Pieces /\ PieceCells(p) \subseteq Inside \ settled
  BY CurrentFree
<1>2. /\ p.x < Height - 1
      /\ \A i \in Points : Point(p, i)[1] \in 0..Height - 2 /\ Point(p, i)[2] \in Inner
  BY <1>1, InsideFacts
<1>3. q \in Pieces
  BY <1>1, <1>2, MovedIsPiece
<1>4. 1 \in Points
  BY DEF Points
<1>5. \E k \in Points : Point(q, k)[1] < Height
  <2>1. CASE oper = "TETRIS_UP"
    <3>1. PICK k \in Points : RowOf(NextShape[p.shape], 1) <= RowOf(p.shape, k) + 1
      <4>1. p.shape \in Shapes /\ 1..(1 - 1) = {}
        BY <1>1 DEF Pieces
      <4> QED
        BY <1>4, <4>1, ShapeAssumption
    <3>2. Point(q, 1)[1] = p.x + RowOf(NextShape[p.shape], 1)
      BY <1>1, <1>2, <1>4, <2>1, MovedPoint
    <3>3. Point(p, k)[1] = p.x + RowOf(p.shape, k) /\ Point(p, k)[1] <= Height - 2
      BY <1>1, <1>2, PointFacts, DimensionAssumption
    <3>4. /\ q.shape = NextShape[p.shape]
          /\ RowOf(q.shape, 1) \in 0..3
          /\ RowOf(p.shape, k) \in 0..3
      BY <1>1, <1>3, <1>4, <2>1, PointFacts DEF Moved, Pieces
    <3> QED
      BY <1>1, <1>4, <3>1, <3>2, <3>3, <3>4, DimensionAssumption DEF Pieces
  <2>2. CASE oper \in {"TETRIS_LEFT", "TETRIS_RIGHT"}
    BY <1>1, <1>2, <1>4, <2>2, MovedPoint, DimensionAssumption
  <2>3. CASE oper \in {"TETRIS_DOWN", "TETRIS_NONE"}
    BY <1>1, <1>2, <1>4, <2>3, MovedPoint, DimensionAssumption
  <2> QED
    BY <2>1, <2>2, <2>3 DEF Opers
<1>6. Frame \subseteq settled
  BY DEF IInv
<1> QED
  BY <1>3, <1>5, <1>6, FitsInside

\* PieceCells of a piece inside are cells of the map.
LEMMA InsideCells == Inside \subseteq Cells /\ Inside \cap Frame = {}
BY DimensionAssumption DEF Inside, Inner, Cells, Frame
-----------------------------------------------------------------------------
(* Each action keeps the inductive invariant. *)

\* The first state satisfies it.
LEMMA InitIInv == Init => IInv
<1> SUFFICES ASSUME Init PROVE IInv
  OBVIOUS
<1> USE DimensionAssumption DEF Init
<1>1. TypeOK
  <2>1. Frame \subseteq Cells /\ next \in Shapes
    BY ShapeAssumption DEF Frame
  <2>2. score \in 0..ScoreSize - 1 /\ row \in 0..Height - 1
    OBVIOUS
  <2> QED
    BY <2>1, <2>2 DEF TypeOK
<1>2. ASSUME NEW r \in 0..Height - 2, NEW y \in Inner PROVE <<r, y>> \notin settled
  BY DEF Frame, Inner
<1>3. \A r \in 0..3 : ~Occupied(r)
  <2>1. ASSUME NEW r \in 0..3, NEW y \in Inner PROVE <<r, y>> \notin settled
    <3>1. r \in 0..Height - 2
      OBVIOUS
    <3> QED
      BY <1>2, <3>1
  <2> QED
    BY <2>1 DEF Occupied
<1>4. Supported /\ SpawnAreaFree
  BY <1>3 DEF Supported, SpawnAreaFree, Occupied, Inner
<1>5. NoCompleteRow
  <2>1. 1 \in Inner
    BY DEF Inner
  <2>2. \A r \in 2..Height - 2 : <<r, 1>> \notin settled
    BY <1>2, <2>1
  <2> QED
    BY <2>1, <2>2 DEF NoCompleteRow, Complete
<1> QED
  BY <1>1, <1>4, <1>5 DEF IInv, SweptBelow, NoOverlap

\* Move changes the piece and the view only.
LEMMA MoveIInv == ASSUME IInv, NEW oper \in Opers, Move(oper) PROVE IInv'
<1>1. piece' \in Pieces /\ PieceCells(piece') \subseteq Inside \ settled
  BY MoveInside DEF Move
<1>2. TypeOK'
  BY <1>1, InsideCells, ShapeAssumption DEF Move, Draw, IInv, TypeOK
<1>3. NoOverlap'
  BY <1>1 DEF Move, NoOverlap, PieceCells, Point
<1> QED
  BY <1>2, <1>3 DEF Move, IInv, Supported, Occupied, SweptBelow, Complete,
  SpawnAreaFree, Playing, NoCompleteRow

\* Refuse may turn the next piece into the active one.
LEMMA RefuseIInv == ASSUME IInv, NEW oper \in Opers, Refuse(oper) PROVE IInv'
<1>1. piece' \in Pieces /\ PieceCells(piece') \subseteq Inside \ settled
  BY CurrentFree DEF Refuse
<1>2. TypeOK'
  BY <1>1, ShapeAssumption DEF Refuse, Draw, IInv, TypeOK
<1>3. NoOverlap'
  BY <1>1 DEF Refuse, NoOverlap, PieceCells, Point
<1> QED
  BY <1>2, <1>3 DEF Refuse, IInv, Supported, Occupied, SweptBelow, Complete,
  SpawnAreaFree, Playing, NoCompleteRow

\* A piece lands with a point in row 3 or below, because it lies on the frame or
\* on the stack, which both start below row 3.
LEMMA LandsLow ==
  ASSUME IInv, Playing, Hits(Moved("TETRIS_NONE", Current))
  PROVE  \E i \in Points : Point(Current, i)[1] >= 3
<1> DEFINE p == Current
<1>1. p \in Pieces /\ PieceCells(p) \subseteq Inside \ settled
  BY CurrentFree
<1>2. /\ p.x < Height - 1
      /\ \A i \in Points : Point(p, i)[1] \in 0..Height - 2 /\ Point(p, i)[2] \in Inner
  BY <1>1, InsideFacts
<1>3. PICK i \in Points : Point(Moved("TETRIS_NONE", p), i) \in settled
  BY DEF Hits
<1>4. <<Point(p, i)[1] + 1, Point(p, i)[2]>> \in settled
  BY <1>1, <1>2, <1>3, MovedPoint DEF Opers
<1> QED
  BY <1>2, <1>4, DimensionAssumption DEF IInv, SpawnAreaFree

\* Landing keeps the stack without a gap: the rows of the piece reach from its
\* top down to row 3 or below.
LEMMA LandIInv == ASSUME IInv, Land PROVE IInv'
<1> DEFINE p == Current
<1>0. Playing
  BY DEF Land
<1>1. p \in Pieces /\ PieceCells(p) \subseteq Inside \ settled
  BY <1>0, CurrentFree
<1>2. \A i \in Points : Point(p, i)[1] \in 0..Height - 2 /\ Point(p, i)[2] \in Inner
  BY <1>1, InsideFacts
<1>3. TypeOK'
  BY <1>1, InsideCells, ShapeAssumption, DimensionAssumption
  DEF Land, Draw, IInv, TypeOK
<1>4. Supported'
  <2> SUFFICES ASSUME NEW r \in 0..2, NEW y \in Inner, <<r, y>> \in settled'
               PROVE  \E z \in Inner : <<r + 1, z>> \in settled'
    BY DEF Supported, Occupied
  <2>1. <<r, y>> \notin settled
    BY <1>0 DEF IInv, SpawnAreaFree
  <2>2. PICK j \in Points : Point(p, j) = <<r, y>>
    BY <2>1 DEF Land, PieceCells
  <2>3. PICK i \in Points : Point(p, i)[1] >= 3
    BY <1>0, LandsLow DEF Land
  <2>4. r + 1 - p.x \in RowOf(p.shape, j)..RowOf(p.shape, i)
    BY <1>1, <2>2, <2>3, PointFacts DEF Pieces
  <2>5. PICK k \in Points : RowOf(p.shape, k) = r + 1 - p.x
    BY <1>1, <2>4, ShapeAssumption DEF Pieces
  <2>6. Point(p, k)[1] = r + 1
    BY <1>1, <2>5, PointFacts DEF Pieces
  <2>7. Point(p, k) = <<r + 1, Point(p, k)[2]>>
    BY <1>1, <2>6, PointFacts
  <2>8. Point(p, k) \in settled'
    BY DEF Land, PieceCells
  <2> QED
    BY <1>2, <2>7, <2>8
<1>5. SweptBelow'
  BY DimensionAssumption DEF Land, SweptBelow
<1>6. (Frame \subseteq settled)'
  BY DEF IInv, Land, Frame, Cells
<1> QED
  BY <1>3, <1>4, <1>5, <1>6 DEF Land, IInv, SpawnAreaFree, Playing, NoOverlap, NoCompleteRow

\* A cleared row pulls the rows above it down; the row above the top of the stack
\* was free, so no gap opens.
LEMMA ClearRowIInv == ASSUME IInv, ClearRow PROVE IInv'
<1> USE DimensionAssumption DEF Inner
<1>1. row \in 2..Height - 2
  BY DEF ClearRow, IInv, SweptBelow
<1>2. TypeOK'
  BY DEF ClearRow, IInv, TypeOK, MoveDownOneLine
<1>3. ASSUME NEW r \in 2..row, NEW y \in Inner
      PROVE  <<r, y>> \in settled' <=> <<r - 1, y>> \in settled
  BY <1>1 DEF ClearRow, MoveDownOneLine, Cells
<1>4. ASSUME NEW r \in 0..Height - 2, r \notin 2..row, NEW y \in Inner
      PROVE  <<r, y>> \in settled' <=> <<r, y>> \in settled
  BY <1>1, <1>4 DEF ClearRow, MoveDownOneLine, Cells
<1>5. Supported'
  <2> SUFFICES ASSUME NEW r \in 0..2, NEW y \in Inner, <<r, y>> \in settled'
               PROVE  \E z \in Inner : <<r + 1, z>> \in settled'
    BY DEF Supported, Occupied
  <2>0. /\ 0 \in 0..Height - 2 /\ 0 \notin 2..row
        /\ 1 \in 0..Height - 2 /\ 1 \notin 2..row
        /\ 2 \in 2..row /\ 3 \in 0..Height - 2
        /\ 2 - 1 = 1 /\ 3 - 1 = 2
    BY <1>1
  <2>1. CASE r = 0
    <3>1. <<0, y>> \in settled
      BY <1>4, <2>0, <2>1
    <3>2. PICK z \in Inner : <<1, z>> \in settled
      BY <3>1 DEF IInv, Supported, Occupied
    <3>3. <<1, z>> \in settled'
      BY <1>4, <2>0, <3>2
    <3> QED
      BY <2>1, <3>3
  <2>2. CASE r = 1
    <3>1. <<1, y>> \in settled
      BY <1>4, <2>0, <2>2
    <3>2. <<2, y>> \in settled'
      BY <1>3, <2>0, <3>1
    <3> QED
      BY <2>2, <3>2
  <2>3. CASE r = 2
    <3>1. <<1, y>> \in settled
      BY <1>3, <2>0, <2>3
    <3>2. PICK z \in Inner : <<2, z>> \in settled
      BY <3>1 DEF IInv, Supported, Occupied
    <3>3. PICK w \in Inner : <<3, w>> \in settled
      BY <3>2 DEF IInv, Supported, Occupied
    <3>4. CASE 3 \in 2..row
      <4>1. <<3, z>> \in settled'
        BY <1>3, <2>0, <3>2, <3>4
      <4> QED
        BY <2>3, <4>1
    <3>5. CASE 3 \notin 2..row
      <4>1. <<3, w>> \in settled'
        BY <1>4, <2>0, <3>3, <3>5
      <4> QED
        BY <2>3, <4>1
    <3> QED
      BY <3>4, <3>5
  <2> QED
    BY <2>1, <2>2, <2>3
<1>6. SweptBelow'
  <2>1. ASSUME NEW r \in 2..Height - 2, r > row
        PROVE  ~Complete(r)'
    <3>1. PICK y \in Inner : <<r, y>> \notin settled
      BY <2>1 DEF ClearRow, IInv, SweptBelow, Complete
    <3>2. r \in 0..Height - 2 /\ r \notin 2..row
      BY <1>1, <2>1
    <3>3. <<r, y>> \notin settled'
      BY <1>4, <3>1, <3>2
    <3> QED
      BY <3>3 DEF Complete
  <2> QED
    BY <1>1, <2>1 DEF ClearRow, SweptBelow
<1>7. (Frame \subseteq settled)'
  BY <1>1 DEF ClearRow, IInv, MoveDownOneLine, Frame, Cells
<1> QED
  BY <1>2, <1>5, <1>6, <1>7
  DEF ClearRow, IInv, SpawnAreaFree, Playing, NoOverlap, NoCompleteRow

\* Passing a row that is not complete.
LEMMA PassRowIInv == ASSUME IInv, PassRow PROVE IInv'
<1> USE DimensionAssumption
<1>1. TypeOK'
  BY DEF PassRow, IInv, TypeOK, SweptBelow
<1>2. SweptBelow'
  <2>1. row \in 2..Height - 2 /\ row' = row - 1 /\ settled' = settled
    BY DEF PassRow, IInv, SweptBelow
  <2>2. \A r \in 2..Height - 2 : r > row' => ~Complete(r)
    BY <2>1 DEF PassRow, IInv, SweptBelow
  <2> QED
    BY <2>1, <2>2 DEF SweptBelow, Complete
<1> QED
  BY <1>1, <1>2 DEF PassRow, IInv, Supported, Occupied, SpawnAreaFree, Playing,
  NoOverlap, NoCompleteRow, Complete

\* If the game goes on, row 3 is free, and then so are the rows above it.
LEMMA FinishLandingIInv == ASSUME IInv, FinishLanding PROVE IInv'
<1> USE DimensionAssumption
<1>1. TypeOK'
  <2>1. ToScore(lines) \in Nat
    BY DEF IInv, TypeOK, ToScore
  <2>2. score' \in 0..ScoreSize - 1
    BY <2>1 DEF FinishLanding, IInv, TypeOK
  <2> QED
    BY <2>2 DEF FinishLanding, IInv, TypeOK
<1>2. SpawnAreaFree'
  <2> SUFFICES ASSUME ~over' PROVE \A r \in 0..3 : ~Occupied(r)
    BY DEF FinishLanding, SpawnAreaFree, Playing, Occupied
  <2>1. ~Occupied(3)
    BY DEF FinishLanding, Occupied
  <2>2. ~Occupied(2)
    BY <2>1 DEF IInv, Supported
  <2>3. ~Occupied(1)
    BY <2>2 DEF IInv, Supported
  <2>4. ~Occupied(0)
    BY <2>3 DEF IInv, Supported
  <2> QED
    BY <2>1, <2>2, <2>3, <2>4
<1>3. NoCompleteRow'
  <2>1. row = 1
    BY DEF FinishLanding, IInv, SweptBelow
  <2>2. \A r \in 2..Height - 2 : ~Complete(r)
    BY <2>1 DEF FinishLanding, IInv, SweptBelow
  <2> QED
    BY <2>2 DEF FinishLanding, NoCompleteRow, Complete
<1> QED
  BY <1>1, <1>2, <1>3 DEF FinishLanding, IInv, Supported, Occupied, SweptBelow, NoOverlap

\* Every step keeps the inductive invariant.
LEMMA NextIInv == IInv /\ [Next]_vars => IInv'
<1> SUFFICES ASSUME IInv, [Next]_vars PROVE IInv'
  OBVIOUS
<1>1. ASSUME NEW oper \in Opers, ProcessGame(oper) PROVE IInv'
  BY <1>1, MoveIInv, RefuseIInv, LandIInv DEF ProcessGame
<1>2. CASE Sweep
  BY <1>2, ClearRowIInv, PassRowIInv, FinishLandingIInv DEF Sweep
<1>3. CASE UNCHANGED vars
  BY <1>3 DEF vars, IInv, TypeOK, Supported, Occupied, SweptBelow, Complete,
  SpawnAreaFree, Playing, NoOverlap, PieceCells, Point, NoCompleteRow
<1> QED
  BY <1>1, <1>2, <1>3 DEF Next, Ended

\* The inductive invariant holds in every reachable state.
LEMMA Invariant == Spec => []IInv
BY InitIInv, NextIInv, PTL DEF Spec
-----------------------------------------------------------------------------
(* The theorems. *)

\* Coordinates, maps and score keep their types; the score wraps at ScoreSize.
THEOREM TypeCorrect == Spec => []TypeOK
<1>1. IInv => TypeOK
  BY DEF IInv
<1> QED
  BY <1>1, Invariant, PTL

\* A game that goes on has room for the next piece, although nobody looks.
THEOREM SpawnAreaIsFree == Spec => []SpawnAreaFree
<1>1. IInv => SpawnAreaFree
  BY DEF IInv
<1> QED
  BY <1>1, Invariant, PTL

\* The falling piece never leaves the frame and never covers a settled cell.
THEOREM PiecesNeverOverlap == Spec => []NoOverlap
<1>1. IInv => NoOverlap
  BY DEF IInv
<1> QED
  BY <1>1, Invariant, PTL

\* After a landing no complete row is left.
THEOREM CompleteRowsGo == Spec => []NoCompleteRow
<1>1. IInv => NoCompleteRow
  BY DEF IInv
<1> QED
  BY <1>1, Invariant, PTL

\* In a state of the inductive invariant no test of a move reads below the map:
\* a point that is more than one row lower comes after one that hits the floor.
LEMMA ReadsInBoundsHere == IInv => ReadsInBounds
<1> SUFFICES ASSUME IInv, Playing, NEW oper \in Opers, NEW i \in Points,
                    \A j \in 1..(i - 1) : Clear(Point(Moved(oper, Current), j)),
                    Point(Moved(oper, Current), i)[2] \in 1..Width - 1
             PROVE  Point(Moved(oper, Current), i)[1] < Height
  BY DEF ReadsInBounds
<1> DEFINE p == Current
           q == Moved(oper, Current)
<1>1. p \in Pieces /\ PieceCells(p) \subseteq Inside \ settled
  BY CurrentFree
<1>2. /\ p.x < Height - 1
      /\ \A k \in Points : Point(p, k)[1] \in 0..Height - 2 /\ Point(p, k)[2] \in Inner
  BY <1>1, InsideFacts
<1>3. q \in Pieces
  BY <1>1, <1>2, MovedIsPiece
<1>4. CASE oper = "TETRIS_UP"
  <2>1. PICK k \in Points :
          \/ RowOf(NextShape[p.shape], i) <= RowOf(p.shape, k) + 1
          \/ \E j \in 1..(i - 1) :
               /\ RowOf(NextShape[p.shape], j) = RowOf(NextShape[p.shape], i) - 1
               /\ RowOf(NextShape[p.shape], j) <= RowOf(p.shape, k) + 1
    BY <1>1, ShapeAssumption DEF Pieces
  <2>2. p.x + RowOf(p.shape, k) <= Height - 2 /\ RowOf(p.shape, k) \in 0..3
    BY <1>1, <1>2, PointFacts, DimensionAssumption
  <2>3. q.shape = NextShape[p.shape] /\ q.x = p.x
    BY <1>1, <1>4 DEF Moved, Pieces
  <2>4. ASSUME NEW j \in Points
        PROVE  /\ Point(q, j)[1] = p.x + RowOf(NextShape[p.shape], j)
               /\ RowOf(NextShape[p.shape], j) \in 0..3
    BY <1>3, <2>3, PointFacts
  <2>5. CASE RowOf(NextShape[p.shape], i) <= RowOf(p.shape, k) + 1
    BY <1>1, <2>2, <2>4, <2>5, DimensionAssumption DEF Pieces
  <2>6. ASSUME NEW j \in 1..(i - 1),
               RowOf(NextShape[p.shape], j) = RowOf(NextShape[p.shape], i) - 1,
               RowOf(NextShape[p.shape], j) <= RowOf(p.shape, k) + 1
        PROVE  Point(q, i)[1] < Height
    <3>1. j \in Points
      BY DEF Points
    <3>2. Point(q, j)[1] # Height - 1
      BY <1>3, <3>1, PointFacts, DimensionAssumption DEF Clear, IInv, Frame, Cells
    <3>3. Point(q, j)[1] <= Height - 1
      BY <1>1, <2>2, <2>4, <2>6, <3>1, DimensionAssumption DEF Pieces
    <3>4. Point(q, i)[1] = Point(q, j)[1] + 1
      BY <1>1, <2>4, <2>6, <3>1 DEF Pieces
    <3> QED
      BY <1>1, <2>4, <3>1, <3>2, <3>3, <3>4, DimensionAssumption DEF Pieces
  <2> QED
    BY <2>1, <2>5, <2>6
<1>5. CASE oper \in {"TETRIS_LEFT", "TETRIS_RIGHT"}
  BY <1>1, <1>2, <1>5, MovedPoint, DimensionAssumption
<1>6. CASE oper \in {"TETRIS_DOWN", "TETRIS_NONE"}
  BY <1>1, <1>2, <1>6, MovedPoint, DimensionAssumption
<1> QED
  BY <1>4, <1>5, <1>6 DEF Opers

\* ProcessTetris never reads tetris_map_ out of bounds.
THEOREM ReadsStayInBounds == Spec => []ReadsInBounds
BY Invariant, ReadsInBoundsHere, PTL

-----------------------------------------------------------------------------
(* What a response shows. *)

\* No piece is the absent one.
LEMMA PieceThere == NoPiece \notin Pieces
  BY IndexAssumption DEF NoPiece, Pieces

\* A response shows the settled map with the falling piece where it is.
THEOREM ResponsesShowTheBoard == Spec => []ViewShowsBoard
<1>1. Init => ViewShowsBoard
  BY DEF Init, ViewShowsBoard
<1>2. IInv /\ ViewShowsBoard /\ [Next]_vars => ViewShowsBoard'
  <2> SUFFICES ASSUME IInv, ViewShowsBoard, [Next]_vars PROVE ViewShowsBoard'
    OBVIOUS
  <2>1. ASSUME NEW oper \in Opers, Move(oper) PROVE ViewShowsBoard'
    <3>1. piece' \in Pieces
      BY <2>1, MoveInside DEF Move
    <3>2. piece' # NoPiece
      BY <3>1, PieceThere
    <3>3. view' = settled \cup PieceCells(piece') /\ settled' = settled
      BY <2>1 DEF Move
    <3> QED
      BY <3>2, <3>3 DEF ViewShowsBoard, PieceCells, Point
  <2>2. ASSUME NEW oper \in Opers, Refuse(oper) PROVE ViewShowsBoard'
    <3>1. at = "rest" /\ UNCHANGED <<settled, view>> /\ piece' = Current
      BY <2>2 DEF Refuse, Playing
    <3>2. CASE piece = NoPiece
      <4>1. view = settled
        BY <3>1, <3>2 DEF ViewShowsBoard
      <4>2. piece' = Spawn(next)
        BY <3>1, <3>2 DEF Current
      <4> QED
        BY <3>1, <4>1, <4>2 DEF ViewShowsBoard, Spawn
    <3>3. CASE piece # NoPiece
      <4>1. piece' = piece
        BY <3>1, <3>3 DEF Current
      <4> QED
        BY <3>1, <3>3, <4>1 DEF ViewShowsBoard, PieceCells, Point, Spawn
    <3> QED
      BY <3>2, <3>3
  <2>3. CASE Land \/ ClearRow \/ PassRow
    BY <2>3 DEF Land, ClearRow, PassRow, ViewShowsBoard
  <2>4. CASE FinishLanding
    BY <2>4 DEF FinishLanding, ViewShowsBoard
  <2>5. CASE UNCHANGED vars
    BY <2>5 DEF vars, ViewShowsBoard, PieceCells, Point, Spawn
  <2> QED
    BY <2>1, <2>2, <2>3, <2>4, <2>5 DEF Next, ProcessGame, Sweep, Ended
<1> QED
  BY <1>1, <1>2, Invariant, PTL DEF Spec
-----------------------------------------------------------------------------
(* How many rows a landing completes. *)

\* The complete rows the sweep has still to find lie in the four rows of the
\* piece, less those that have been cleared below them.
LinesInv ==
  /\ at = "rest" => lines = 0
  /\ at = "sweep" =>
       /\ piece \in Pieces
       /\ lines \in 0..4
       /\ ~Complete(1)
       /\ \A r \in 2..Height - 2 : r <= row /\ Complete(r) =>
            piece.x + lines <= r /\ r <= piece.x + 3

\* A piece that lands leaves row 1 incomplete: it has a point in row 3 or below,
\* and the other three are too few.
LEMMA LandRowOne == ASSUME IInv, Land PROVE ~Complete(1)'
<1> SUFFICES ASSUME Complete(1)' PROVE FALSE
  OBVIOUS
<1>1. Playing
  BY DEF Land
<1>2. PICK i \in Points : Point(Current, i)[1] >= 3
  BY <1>1, LandsLow DEF Land
<1>3. ASSUME NEW y \in 1..4 PROVE \E j \in Points \ {i} : Point(Current, j)[2] = y
  <2>1. y \in Inner
    BY DimensionAssumption DEF Inner
  <2>2. <<1, y>> \in settled'
    BY <2>1 DEF Complete
  <2>3. <<1, y>> \notin settled
    BY <1>1, <2>1 DEF IInv, SpawnAreaFree
  <2>4. PICK j \in Points : <<1, y>> = Point(Current, j)
    BY <2>2, <2>3 DEF Land, PieceCells
  <2>5. Point(Current, j)[1] = 1 /\ Point(Current, j)[2] = y
    BY <2>4
  <2>6. j # i
    BY <2>5, <1>2
  <2> QED
    BY <2>5, <2>6
<1> DEFINE C(j) == Point(Current, j)[2]
<1>4. \A y \in 1..4 : \E j \in Points \ {i} : C(j) = y
  BY <1>3
<1> HIDE DEF C
<1>5. PICK j1 \in Points \ {i} : C(j1) = 1
  BY <1>4
<1>6. PICK j2 \in Points \ {i} : C(j2) = 2
  BY <1>4
<1>7. PICK j3 \in Points \ {i} : C(j3) = 3
  BY <1>4
<1>8. PICK j4 \in Points \ {i} : C(j4) = 4
  BY <1>4
<1>9. j1 # j2 /\ j1 # j3 /\ j1 # j4 /\ j2 # j3 /\ j2 # j4 /\ j3 # j4
  BY <1>5, <1>6, <1>7, <1>8
<1> QED
  BY <1>9 DEF Points

\* A row is completed by the piece only where the piece has a point.
LEMMA LandLines == ASSUME IInv, LinesInv, Land PROVE LinesInv'
<1> DEFINE p == Current
<1>1. Playing /\ at = "rest"
  BY DEF Land, Playing
<1>2. p \in Pieces
  BY <1>1, CurrentFree
<1>3. ASSUME NEW r \in 2..Height - 2, Complete(r)'
      PROVE  p.x <= r /\ r <= p.x + 3
  <2>1. PICK y \in Inner : <<r, y>> \notin settled
    BY <1>1 DEF IInv, NoCompleteRow, Complete
  <2>2. <<r, y>> \in settled'
    BY <1>3 DEF Complete
  <2>3. PICK j \in Points : <<r, y>> = Point(p, j)
    BY <2>1, <2>2 DEF Land, PieceCells
  <2>4. r = p.x + RowOf(p.shape, j) /\ RowOf(p.shape, j) \in 0..3
    BY <1>2, <2>3, PointFacts
  <2> QED
    BY <1>2, <2>4 DEF Pieces
<1>4. piece' = p /\ lines' = 0 /\ at' = "sweep"
  BY DEF Land
<1>5. p.x + 0 = p.x
  BY <1>2 DEF Pieces
<1> QED
  BY <1>2, <1>3, <1>4, <1>5, LandRowOne DEF LinesInv

\* Each cleared row brings the others it is to find one row down.
LEMMA ClearRowLines == ASSUME IInv, LinesInv, ClearRow PROVE LinesInv'
<1> USE DimensionAssumption
<1>1. /\ at = "sweep" /\ at' = "sweep" /\ piece' = piece /\ lines' = lines + 1
      /\ row' = row /\ row \in 2..Height - 2 /\ Complete(row)
  BY DEF ClearRow, IInv, SweptBelow
<1>2. piece \in Pieces /\ lines \in 0..4 /\ piece.x \in Nat
  BY <1>1 DEF LinesInv, Pieces
<1>3. piece.x + lines <= row /\ row <= piece.x + 3
  BY <1>1 DEF LinesInv
<1>4. ~Complete(1)'
  <2>1. PICK y \in Inner : <<1, y>> \notin settled
    BY <1>1 DEF LinesInv, Complete
  <2>2. <<1, y>> \notin settled'
    BY <2>1 DEF ClearRow, MoveDownOneLine
  <2> QED
    BY <2>2 DEF Complete
<1>5. ASSUME NEW r \in 2..Height - 2, r <= row, Complete(r)' PROVE Complete(r - 1)
  <2> SUFFICES ASSUME NEW y \in Inner PROVE <<r - 1, y>> \in settled
    BY DEF Complete
  <2>1. <<r, y>> \in settled'
    BY <1>5 DEF Complete
  <2>2. r \in 2..row
    BY <1>1, <1>5
  <2> QED
    BY <2>1, <2>2 DEF ClearRow, MoveDownOneLine
<1>6. ASSUME NEW r \in 2..Height - 2, r <= row, Complete(r)'
      PROVE  piece.x + (lines + 1) <= r /\ r <= piece.x + 3
  <2>1. Complete(r - 1)
    BY <1>5, <1>6
  <2>2. r # 2
    <3> SUFFICES ASSUME r = 2 PROVE FALSE
      OBVIOUS
    <3>1. r - 1 = 1
      OBVIOUS
    <3> QED
      BY <1>1, <2>1, <3>1 DEF LinesInv
  <2>3. r - 1 \in 2..Height - 2 /\ r - 1 <= row
    BY <1>1, <1>6, <2>2
  <2>4. piece.x + lines <= r - 1
    BY <1>1, <2>1, <2>3 DEF LinesInv
  <2> QED
    BY <1>1, <1>2, <1>3, <1>6, <2>4
<1>7. lines + 1 \in 0..4
  BY <1>1, <1>2, <1>3
<1> QED
  BY <1>1, <1>2, <1>4, <1>6, <1>7 DEF LinesInv

\* The bound of the lines holds in every reachable state.
LEMMA LinesInvariant == Spec => []LinesInv
<1>1. Init => LinesInv
  BY DEF Init, LinesInv
<1>2. IInv /\ LinesInv /\ [Next]_vars => LinesInv'
  <2> SUFFICES ASSUME IInv, LinesInv, [Next]_vars PROVE LinesInv'
    OBVIOUS
  <2>1. ASSUME NEW oper \in Opers, Move(oper) \/ Refuse(oper) PROVE LinesInv'
    BY <2>1 DEF Move, Refuse, Playing, LinesInv
  <2>2. CASE Land
    BY <2>2, LandLines
  <2>3. CASE ClearRow
    BY <2>3, ClearRowLines
  <2>4. CASE PassRow
    <3>1. /\ UNCHANGED <<settled, piece, at, lines>>
          /\ row' = row - 1 /\ row \in Nat /\ at = "sweep"
      BY <2>4 DEF PassRow, IInv, TypeOK
    <3>2. \A r \in 2..Height - 2 : r <= row' => r <= row
      BY <3>1, DimensionAssumption
    <3> QED
      BY <3>1, <3>2 DEF LinesInv, Complete
  <2>5. CASE FinishLanding
    BY <2>5 DEF FinishLanding, LinesInv
  <2>6. CASE UNCHANGED vars
    BY <2>6 DEF vars, LinesInv, Complete
  <2> QED
    BY <2>1, <2>2, <2>3, <2>4, <2>5, <2>6 DEF Next, ProcessGame, Sweep, Ended
<1> QED
  BY <1>1, <1>2, Invariant, PTL DEF Spec

\* ScoringDetection ends, and clears at most the four lines ToScore knows.
THEOREM FourLinesAtMost == Spec => []AtMostFourLines
<1>1. LinesInv /\ TypeOK => AtMostFourLines
  BY DEF LinesInv, TypeOK, AtMostFourLines
<1> QED
  BY <1>1, LinesInvariant, TypeCorrect, PTL
-----------------------------------------------------------------------------
(* Rules and numbers of cells. *)

\* The complete rows of a board, and how many of them are below a row.
Full(b) == {r \in 2..Height - 2 : \A y \in Inner : <<r, y>> \in b}
FullBelow(b, r) == {q \in Full(b) : q > r}

\* What FiniteSets defines is the same in each instance.
LEMMA SameCardinality ==
  ASSUME NEW S
  PROVE  Rows!Cardinality(S) = Cardinality(S) /\ Rules!Cardinality(S) = Cardinality(S)
BY Zenon DEF Rows!Cardinality, Rules!Cardinality, Cardinality

\* Where a cell of a board ends when all complete rows vanish.
LEMMA CompactCells ==
  ASSUME NEW b, NEW c
  PROVE  c \in Rows!Compact(b) <=>
           \/ c \in b /\ (c[1] \notin 2..Height - 2 \/ c[2] \notin Inner)
           \/ /\ c \in (2..1 + Cardinality(Full(b))) \X Inner
              /\ <<1, c[2]>> \in b
           \/ \E d \in b :
                /\ d[1] \in 2..Height - 2 /\ d[1] \notin Full(b) /\ d[2] \in Inner
                /\ c = <<d[1] + Cardinality(FullBelow(b, d[1])), d[2]>>
<1>1. Rows!CompleteRows(b) = Full(b) /\ Rows!Columns = Inner
  BY DEF Rows!CompleteRows, Rows!Columns, Full, Inner
<1>2. Rows!Cardinality(Full(b)) = Cardinality(Full(b))
  BY SameCardinality
<1>3. \A r : Rows!Cardinality({q \in Full(b) : q > r}) = Cardinality(FullBelow(b, r))
  BY SameCardinality DEF FullBelow
<1> DEFINE
    kept == {d \in b : d[1] \in 2..Height - 2 /\ d[1] \notin Full(b) /\ d[2] \in Inner}
    filled == {d \in (2..1 + Cardinality(Full(b))) \X Inner : <<1, d[2]>> \in b}
    still == {d \in b : d[1] \notin 2..Height - 2 \/ d[2] \notin Inner}
    sunk == {<<d[1] + Rows!Cardinality({q \in Full(b) : q > d[1]}), d[2]>> : d \in kept}
<1>4. Rows!Compact(b) = still \cup filled \cup sunk
  BY <1>1, <1>2, Zenon DEF Rows!Compact
<1>5. c \in sunk <=> \E d \in kept : c = <<d[1] + Cardinality(FullBelow(b, d[1])), d[2]>>
  BY <1>3
<1> QED
  BY <1>4, <1>5

\* Rows that are counted are finite.
LEMMA FullFinite ==
  ASSUME NEW b, NEW r
  PROVE  /\ IsFiniteSet(Full(b)) /\ Cardinality(Full(b)) \in Nat
         /\ IsFiniteSet(FullBelow(b, r)) /\ Cardinality(FullBelow(b, r)) \in Nat
<1>1. IsFiniteSet(2..Height - 2)
  BY DimensionAssumption, FS_Interval
<1>2. IsFiniteSet(Full(b))
  BY <1>1, FS_Subset DEF Full
<1>3. IsFiniteSet(FullBelow(b, r))
  BY <1>2, FS_Subset DEF FullBelow
<1> QED
  BY <1>2, <1>3, FS_CardinalityType

\* The numbers of an interval.
LEMMA IntervalSize ==
  ASSUME NEW m \in Int, NEW n \in Nat
  PROVE  IsFiniteSet(m..m + n) /\ Cardinality(m..m + n) = n + 1
<1>1. \A j, k \in Int :
        IsFiniteSet(j..k) /\ Cardinality(j..k) = IF j > k THEN 0 ELSE k - j + 1
  BY FS_Interval
<1>2. m + n \in Int /\ ~(m > m + n) /\ (m + n) - m + 1 = n + 1
  OBVIOUS
<1> QED
  BY <1>1, <1>2

\* Moving numbers by one does not change how many there are.
LEMMA ShiftCardinality ==
  ASSUME NEW S \in SUBSET Int, IsFiniteSet(S), NEW T, T = {n + 1 : n \in S}
  PROVE  Cardinality(T) = Cardinality(S)
<1> DEFINE f == [n \in S |-> n + 1]
<1>1. f \in [S -> T]
  OBVIOUS
<1>2. \A m, n \in S : f[m] = f[n] => m = n
  OBVIOUS
<1>3. \A t \in T : \E n \in S : f[n] = t
  OBVIOUS
<1> HIDE DEF f
<1>4. f \in Bijection(S, T)
  BY <1>1, <1>2, <1>3 DEF Bijection, Injection, Surjection, IsInjective
<1> QED
  BY <1>4, FS_Bijection DEF ExistsBijection

\* The rules see the same compaction as the mapping.
LEMMA CompactSame ==
  ASSUME NEW b
  PROVE  Rules!Compact(b) = Rows!Compact(b) /\ Rules!CompleteRows(b) = Full(b)
<1>1. /\ Rules!CompleteRows(b) = Full(b) /\ Rules!Columns = Inner
      /\ Rows!CompleteRows(b) = Full(b) /\ Rows!Columns = Inner
  BY DEF Rules!CompleteRows, Rules!Columns, Rows!CompleteRows, Rows!Columns, Full, Inner
<1>2. \A S : Rows!Cardinality(S) = Rules!Cardinality(S)
  BY SameCardinality
<1>3. Rules!Compact(b) = Rows!Compact(b)
  BY <1>1, <1>2, Zenon DEF Rules!Compact, Rows!Compact
<1> QED
  BY <1>1, <1>3

\* The same for the rows counted in LinesInAll.
LEMMA RowsSame == ASSUME NEW b PROVE Rows!CompleteRows(b) = Full(b)
BY DEF Rows!CompleteRows, Rows!Columns, Full, Inner

\* A row that is cleared pulls down the rows above it, and the complete rows
\* among them: each cell ends where it would have ended before.
LEMMA CompactShift ==
  ASSUME NEW b, NEW r \in 2..Height - 2,
         b \subseteq Cells,
         r \in Full(b), \A q \in Full(b) : q <= r,
         \E y \in Inner : <<1, y>> \notin b,
         NEW d,
         d = {c \in Cells : IF c[1] \in 2..r /\ c[2] \in Inner
                            THEN <<c[1] - 1, c[2]>> \in b ELSE c \in b}
  PROVE  /\ Full(d) = {q + 1 : q \in Full(b) \ {r}}
         /\ Cardinality(Full(b)) = Cardinality(Full(d)) + 1
         /\ \A q \in 1..r - 1 :
              Cardinality(FullBelow(b, q)) = Cardinality(FullBelow(d, q + 1)) + 1
         /\ \A q \in r..Height - 2 : FullBelow(b, q) = {} /\ FullBelow(d, q) = {}
<1> USE DimensionAssumption
<1>1. ASSUME NEW q \in 2..r, NEW y \in Inner
      PROVE  <<q, y>> \in d <=> <<q - 1, y>> \in b
  BY <1>1 DEF Cells, Inner
<1>2. ASSUME NEW q \in r + 1..Height - 2, NEW y \in Inner
      PROVE  <<q, y>> \in d <=> <<q, y>> \in b
  BY <1>2 DEF Cells, Inner
<1>3. Full(d) = {q + 1 : q \in Full(b) \ {r}}
  <2>1. ASSUME NEW q \in Full(d) PROVE q - 1 \in Full(b) \ {r}
    <3>1. q \in 2..Height - 2 /\ \A y \in Inner : <<q, y>> \in d
      BY <2>1 DEF Full
    <3>2. q <= r
      <4> SUFFICES ASSUME q > r PROVE FALSE
        BY <3>1
      <4>1. q \in r + 1..Height - 2
        BY <3>1
      <4>2. \A y \in Inner : <<q, y>> \in b
        BY <1>2, <3>1, <4>1
      <4>3. q \in Full(b)
        BY <3>1, <4>2 DEF Full
      <4> QED
        BY <4>3, <3>1
    <3>3. q \in 2..r
      BY <3>1, <3>2
    <3>4. \A y \in Inner : <<q - 1, y>> \in b
      BY <1>1, <3>1, <3>3
    <3>5. q # 2
      BY <3>4
    <3> QED
      BY <3>1, <3>2, <3>4, <3>5 DEF Full
  <2>2. ASSUME NEW q \in Full(b) \ {r} PROVE q + 1 \in Full(d)
    <3>1. q \in 2..r - 1 /\ \A y \in Inner : <<q, y>> \in b
      BY <2>2 DEF Full
    <3>2. q + 1 \in 2..r /\ (q + 1) - 1 = q
      BY <3>1
    <3>3. \A y \in Inner : <<q + 1, y>> \in d
      BY <1>1, <3>1, <3>2
    <3> QED
      BY <3>2, <3>3 DEF Full
  <2>3. \A q \in Full(d) : q \in Int
    BY DEF Full
  <2>4. \A q \in Full(d) : \E p \in Full(b) \ {r} : q = p + 1
    BY <2>1, <2>3
  <2> QED
    BY <2>2, <2>4
<1>4. Full(b) \subseteq Int
  BY DEF Full
<1>5. Cardinality(Full(b)) = Cardinality(Full(d)) + 1
  <2>1. /\ IsFiniteSet(Full(b) \ {r})
        /\ Cardinality(Full(b) \ {r}) = Cardinality(Full(b)) - 1
    BY FullFinite, FS_RemoveElement
  <2>2. Cardinality(Full(d)) = Cardinality(Full(b) \ {r})
    BY <1>3, <1>4, <2>1, ShiftCardinality
  <2> QED
    BY <2>1, <2>2, FullFinite
<1>6. ASSUME NEW q \in 1..r - 1
      PROVE  Cardinality(FullBelow(b, q)) = Cardinality(FullBelow(d, q + 1)) + 1
  <2> DEFINE S == FullBelow(b, q) \ {r}
  <2>1. r \in FullBelow(b, q)
    BY DEF FullBelow
  <2>2. IsFiniteSet(S) /\ Cardinality(S) = Cardinality(FullBelow(b, q)) - 1
    BY <2>1, FullFinite, FS_RemoveElement
  <2>3. FullBelow(d, q + 1) = {p + 1 : p \in S}
    BY <1>3, <1>4 DEF FullBelow
  <2>4. S \subseteq Int
    BY <1>4 DEF FullBelow
  <2>5. Cardinality(FullBelow(d, q + 1)) = Cardinality(S)
    BY <2>2, <2>3, <2>4, ShiftCardinality
  <2> QED
    BY <2>2, <2>5, FullFinite
<1>7. ASSUME NEW q \in r..Height - 2
      PROVE  FullBelow(b, q) = {} /\ FullBelow(d, q) = {}
  BY <1>3, <1>4 DEF FullBelow
<1> QED
  BY <1>3, <1>5, <1>6, <1>7

\* So clearing one row at a time ends in what the rules do in one step.
LEMMA CompactStep ==
  ASSUME NEW b, NEW r \in 2..Height - 2,
         b \subseteq Cells,
         r \in Full(b), \A q \in Full(b) : q <= r,
         \E y \in Inner : <<1, y>> \notin b,
         NEW d,
         d = {c \in Cells : IF c[1] \in 2..r /\ c[2] \in Inner
                            THEN <<c[1] - 1, c[2]>> \in b ELSE c \in b}
  PROVE  Rows!Compact(d) = Rows!Compact(b)
<1> USE DimensionAssumption
<1> DEFINE nb == Cardinality(Full(b))
           nd == Cardinality(Full(d))
           sb(q) == Cardinality(FullBelow(b, q))
           sd(q) == Cardinality(FullBelow(d, q))
<1>1. nb = nd + 1 /\ nd \in Nat /\ Full(d) = {q + 1 : q \in Full(b) \ {r}}
  BY CompactShift, FullFinite
<1>2. \A q \in 1..r - 1 : sb(q) = sd(q + 1) + 1
  BY CompactShift
<1>3. \A q \in r..Height - 2 : sb(q) = 0 /\ sd(q) = 0
  <2>1. \A q \in r..Height - 2 : FullBelow(b, q) = {} /\ FullBelow(d, q) = {}
    BY CompactShift
  <2>2. Cardinality({}) = 0
    BY FS_EmptySet
  <2> QED
    BY <2>1, <2>2
<1>4. sb(1) = nb
  <2>1. FullBelow(b, 1) = Full(b)
    BY DEF FullBelow, Full
  <2> QED
    BY <2>1
<1>5. \A q : sb(q) \in Nat /\ sd(q) \in Nat
  BY FullFinite
<1>6. sd(2) = nd
  <2>1. 1 \in 1..r - 1 /\ 1 + 1 = 2
    OBVIOUS
  <2>2. sb(1) = sd(2) + 1
    BY <1>2, <2>1
  <2> QED
    BY <1>1, <1>4, <1>5, <2>2
<1>7. \A q \in Full(b) : q \in 2..r
  BY DEF Full
<1>8. \A q \in Full(d) : q \in 3..r
  BY <1>1, <1>7
<1>9. ASSUME NEW q \in 2..r, NEW y \in Inner
      PROVE  <<q, y>> \in d <=> <<q - 1, y>> \in b
  BY <1>9 DEF Cells, Inner
<1>10. ASSUME NEW q, NEW y, q \notin 2..r \/ y \notin Inner
       PROVE  <<q, y>> \in d <=> <<q, y>> \in b
  BY <1>10
<1>11. \A c : c \in b \/ c \in d => c \in Cells /\ c = <<c[1], c[2]>>
  BY DEF Cells
<1> HIDE DEF nb, nd, sb, sd
<1>12. ASSUME NEW c \in Rows!Compact(b) PROVE c \in Rows!Compact(d)
  <2>1. CASE c \in b /\ (c[1] \notin 2..Height - 2 \/ c[2] \notin Inner)
    <3>1. c \in d
      BY <1>10, <1>11, <2>1
    <3> QED
      BY <2>1, <3>1, CompactCells
  <2>2. CASE c \in (2..1 + nb) \X Inner /\ <<1, c[2]>> \in b
    <3>1. <<1, c[2]>> \in d /\ c[2] \in Inner /\ c[1] \in 2..1 + nb /\ c = <<c[1], c[2]>>
      BY <1>10, <2>2
    <3>2. CASE c[1] \in 2..1 + nd
      <4>1. c \in (2..1 + nd) \X Inner
        BY <3>1, <3>2
      <4> QED
        BY <3>1, <4>1, CompactCells DEF nd
    <3>3. CASE c[1] = 2 + nd
      <4>1. <<2, c[2]>> \in d
        <5>1. 2 \in 2..r /\ 2 - 1 = 1
          OBVIOUS
        <5> QED
          BY <1>9, <2>2, <3>1, <5>1
      <4>2. 2 \notin Full(d) /\ 2 \in 2..Height - 2
        BY <1>8
      <4>3. c = <<2 + sd(2), c[2]>>
        BY <1>6, <3>1, <3>3
      <4> QED
        BY <3>1, <4>1, <4>2, <4>3, CompactCells DEF sd
    <3> QED
      BY <1>1, <3>1, <3>2, <3>3
  <2>3. ASSUME NEW e \in b, e[1] \in 2..Height - 2, e[1] \notin Full(b), e[2] \in Inner,
               c = <<e[1] + sb(e[1]), e[2]>>
        PROVE  c \in Rows!Compact(d)
    <3>1. CASE e[1] < r
      <4>1. e[1] \in 1..r - 1 /\ e[1] + 1 \in 2..r /\ e[1] + 1 \in 2..Height - 2
            /\ (e[1] + 1) - 1 = e[1]
        BY <2>3, <3>1
      <4>2. <<e[1] + 1, e[2]>> \in d
        <5>1. <<(e[1] + 1) - 1, e[2]>> \in b
          BY <1>11, <4>1
        <5> QED
          BY <1>9, <2>3, <4>1, <5>1
      <4>3. e[1] + 1 \notin Full(d)
        <5>1. \A q \in Full(b) : q \in Int
          BY <1>7
        <5> QED
          BY <1>1, <2>3, <4>1, <5>1
      <4>4. sb(e[1]) = sd(e[1] + 1) + 1
        BY <1>2, <4>1
      <4>5. c = <<(e[1] + 1) + sd(e[1] + 1), e[2]>>
        BY <1>5, <2>3, <4>1, <4>4
      <4> QED
        BY <2>3, <4>1, <4>2, <4>3, <4>5, CompactCells DEF sd
    <3>2. CASE e[1] >= r
      <4>1. e[1] \in r..Height - 2 /\ e[1] # r
        BY <2>3, <3>2
      <4>2. e \in d
        BY <1>10, <1>11, <4>1
      <4>3. e[1] \notin Full(d)
        BY <1>8, <4>1
      <4>4. sb(e[1]) = sd(e[1])
        BY <1>3, <4>1
      <4> QED
        BY <2>3, <4>2, <4>3, <4>4, CompactCells DEF sd
    <3> QED
      BY <2>3, <3>1, <3>2
  <2> QED
    BY <2>1, <2>2, <2>3, CompactCells DEF nb, sb
<1>13. ASSUME NEW c \in Rows!Compact(d) PROVE c \in Rows!Compact(b)
  <2>1. CASE c \in d /\ (c[1] \notin 2..Height - 2 \/ c[2] \notin Inner)
    <3>1. c \in b
      BY <1>10, <1>11, <2>1
    <3> QED
      BY <2>1, <3>1, CompactCells
  <2>2. CASE c \in (2..1 + nd) \X Inner /\ <<1, c[2]>> \in d
    <3>1. c \in (2..1 + nb) \X Inner /\ <<1, c[2]>> \in b
      BY <1>1, <1>10, <2>2
    <3> QED
      BY <3>1, CompactCells DEF nb
  <2>3. ASSUME NEW e \in d, e[1] \in 2..Height - 2, e[1] \notin Full(d), e[2] \in Inner,
               c = <<e[1] + sd(e[1]), e[2]>>
        PROVE  c \in Rows!Compact(b)
    <3>1. CASE e[1] = 2
      <4>1. <<1, e[2]>> \in b
        <5>1. 2 \in 2..r /\ 2 - 1 = 1
          OBVIOUS
        <5> QED
          BY <1>9, <1>11, <2>3, <3>1, <5>1
      <4>2. c = <<2 + nd, e[2]>>
        BY <1>6, <2>3, <3>1
      <4>3. c \in (2..1 + nb) \X Inner /\ c[2] = e[2]
        BY <1>1, <2>3, <4>2
      <4> QED
        BY <4>1, <4>3, CompactCells DEF nb
    <3>2. CASE e[1] \in 3..r
      <4>1. e[1] - 1 \in 1..r - 1 /\ e[1] - 1 \in 2..Height - 2 /\ e[1] \in 2..r
            /\ (e[1] - 1) + 1 = e[1]
        BY <3>2
      <4>2. <<e[1] - 1, e[2]>> \in b
        BY <1>9, <1>11, <2>3, <4>1
      <4>3. e[1] - 1 \notin Full(b)
        BY <1>1, <2>3, <4>1
      <4>4. sb(e[1] - 1) = sd(e[1]) + 1
        BY <1>2, <4>1
      <4>5. c = <<(e[1] - 1) + sb(e[1] - 1), e[2]>>
        BY <1>5, <2>3, <3>2, <4>4
      <4> QED
        BY <2>3, <4>1, <4>2, <4>3, <4>5, CompactCells DEF sb
    <3>3. CASE e[1] > r
      <4>1. e[1] \in r..Height - 2
        BY <2>3, <3>3
      <4>2. e \in b
        BY <1>10, <1>11, <3>3, <4>1
      <4>3. e[1] \notin Full(b)
        BY <3>3, <4>1
      <4>4. sb(e[1]) = sd(e[1])
        BY <1>3, <4>1
      <4> QED
        BY <2>3, <4>2, <4>3, <4>4, CompactCells DEF sb
    <3> QED
      BY <2>3, <3>1, <3>2, <3>3
  <2> QED
    BY <2>1, <2>2, <2>3, CompactCells DEF nd, sd
<1> QED
  BY <1>12, <1>13

\* Without a complete row nothing moves.
LEMMA CompactNone ==
  ASSUME NEW b, b \subseteq Cells, Full(b) = {}
  PROVE  Rows!Compact(b) = b
<1>1. Cardinality(Full(b)) = 0 /\ \A r : Cardinality(FullBelow(b, r)) = 0
  <2>1. Cardinality({}) = 0
    BY FS_EmptySet
  <2>2. \A r : FullBelow(b, r) = {}
    BY DEF FullBelow
  <2> QED
    BY <2>1, <2>2
<1>2. \A c \in b : c = <<c[1], c[2]>> /\ c[1] \in Int
  BY DimensionAssumption DEF Cells
<1>3. 2..1 + 0 = {}
  OBVIOUS
<1>4. ASSUME NEW c \in b PROVE c \in Rows!Compact(b)
  <2>1. CASE c[1] \notin 2..Height - 2 \/ c[2] \notin Inner
    BY <2>1, CompactCells
  <2>2. CASE c[1] \in 2..Height - 2 /\ c[2] \in Inner
    <3>1. c = <<c[1] + Cardinality(FullBelow(b, c[1])), c[2]>>
      BY <1>1, <1>2
    <3> QED
      BY <2>2, <3>1, CompactCells
  <2> QED
    BY <2>1, <2>2
<1>5. ASSUME NEW c \in Rows!Compact(b) PROVE c \in b
  <2>1. CASE c \in (2..1 + Cardinality(Full(b))) \X Inner
    BY <1>1, <1>3, <2>1
  <2>2. ASSUME NEW e \in b, c = <<e[1] + Cardinality(FullBelow(b, e[1])), e[2]>>
        PROVE  c \in b
    BY <1>1, <1>2, <2>2
  <2> QED
    BY <2>1, <2>2, CompactCells
<1> QED
  BY <1>4, <1>5
-----------------------------------------------------------------------------
\* A piece has four cells: its points are different, and columns do not wrap far
\* enough to bring two of them together.
LEMMA FourCells ==
  ASSUME NEW p \in Pieces
  PROVE  PieceCells(p) # {} /\ Cardinality(PieceCells(p)) = 4
<1> DEFINE f == [i \in Points |-> Point(p, i)]
<1>1. ASSUME NEW i \in Points, NEW j \in Points, Point(p, i) = Point(p, j)
      PROVE  i = j
  <2>1. p.shape \in Shapes /\ p.y \in 0..UIntSize - 1 /\ p.x \in 0..Height - 1
    BY DEF Pieces
  <2>2. /\ Shape[p.shape][i] \in [x : 0..3, y : 0..3]
        /\ Shape[p.shape][j] \in [x : 0..3, y : 0..3]
    BY <2>1, ShapeAssumption
  <2>3. /\ Plus(p.x, Shape[p.shape][i].x) = Plus(p.x, Shape[p.shape][j].x)
        /\ Plus(p.y, Shape[p.shape][i].y) = Plus(p.y, Shape[p.shape][j].y)
    BY <1>1 DEF Point
  <2>4. Shape[p.shape][i].x = Shape[p.shape][j].x
    BY <2>1, <2>2, <2>3, DimensionAssumption DEF Plus
  <2>5. Shape[p.shape][i].y = Shape[p.shape][j].y
    BY <2>1, <2>2, <2>3, DimensionAssumption DEF Plus
  <2>6. Shape[p.shape][i] = Shape[p.shape][j]
    BY <2>2, <2>4, <2>5
  <2> QED
    BY <2>1, <2>6, DistinctAssumption
<1>2. f \in [Points -> PieceCells(p)]
  BY DEF PieceCells
<1>3. \A i, j \in Points : f[i] = f[j] => i = j
  BY <1>1
<1>4. \A c \in PieceCells(p) : \E i \in Points : f[i] = c
  BY DEF PieceCells
<1> HIDE DEF f
<1>5. f \in Bijection(Points, PieceCells(p))
  BY <1>2, <1>3, <1>4 DEF Bijection, Injection, Surjection, IsInjective
<1>6. IsFiniteSet(Points) /\ Cardinality(Points) = 4 /\ 1 \in Points
  <2>1. 1 \in Int /\ 3 \in Nat /\ 1 + 3 = 4 /\ 3 + 1 = 4
    OBVIOUS
  <2>2. IsFiniteSet(1..4) /\ Cardinality(1..4) = 4
    BY <2>1, IntervalSize
  <2> QED
    BY <2>2 DEF Points
<1> QED
  BY <1>2, <1>5, <1>6, FS_Bijection DEF ExistsBijection

\* What the rules call free.
LEMMA FreeCells == Rules!Free = Inside \ Swept
BY DEF Rules!Free, Rules!Columns, Inside, Inner

\* The first state is the first state of the rules.
LEMMA InitRules == Init => Rules!RulesInit
<1> SUFFICES ASSUME Init PROVE Rules!RulesInit
  OBVIOUS
<1>1. Swept = Frame /\ Falling = {} /\ FinalScore = 0 /\ FinallyOver = FALSE
  BY DEF Init, Swept, Falling, FinalScore, FinallyOver
<1> QED
  BY <1>1 DEF Rules!RulesInit, Frame, Cells

\* A step that changes nothing the rules see.
LEMMA Stutter ==
  ASSUME UNCHANGED <<settled, piece, score, over, at, lines>>
  PROVE  UNCHANGED <<Swept, Falling, FinalScore, FinallyOver>>
<1>1. LinesInAll' = LinesInAll
  BY DEF LinesInAll
<1>2. Swept' = Swept
  BY DEF Swept
<1>3. PieceCells(piece)' = PieceCells(piece)
  BY DEF PieceCells, Point
<1> QED
  BY <1>1, <1>2, <1>3 DEF Falling, FinalScore, FinallyOver

\* A piece that moves, or appears, glides.
LEMMA GlideStep ==
  ASSUME IInv, Playing,
         piece' \in Pieces, PieceCells(piece') \subseteq Inside \ settled,
         UNCHANGED <<settled, score, over, at, lines>>
  PROVE  Rules!Glide
<1>1. at = "rest" /\ at' = "rest" /\ ~over /\ ~over'
  BY DEF Playing
<1>2. Swept = settled /\ Swept' = settled /\ FinalScore' = FinalScore
      /\ FinallyOver = FALSE /\ FinallyOver' = FALSE
  BY <1>1 DEF Swept, FinalScore, FinallyOver, IInv, TypeOK
<1>3. Falling' = PieceCells(piece')
  BY <1>1, PieceThere DEF Falling, PieceCells, Point
<1>4. Rules!Cardinality(Falling') = 4
  BY <1>3, FourCells, SameCardinality
<1> QED
  BY <1>2, <1>3, <1>4, FreeCells DEF Rules!Glide

\* A landing settles the piece and all complete rows vanish at once.
LEMMA SettleStep ==
  ASSUME IInv, IInv', LinesInv', Land
  PROVE  Rules!Settle
<1> DEFINE F == PieceCells(Current)
<1>1. /\ Playing /\ at = "rest" /\ at' = "sweep" /\ ~over
      /\ settled' = settled \cup F /\ lines' = 0 /\ score' = score
      /\ row' = Height - 2 /\ piece' = Current
  BY DEF Land, Playing
<1>2. Current \in Pieces /\ F \subseteq Inside \ settled
  BY <1>1, CurrentFree
<1>3. /\ Swept = settled /\ FinalScore = score /\ FinallyOver = FALSE
      /\ Swept' = Rules!Compact(settled \cup F) /\ Falling' = {}
      /\ FinallyOver' = \E y \in Inner : <<3, y>> \in Swept'
  BY <1>1, CompactSame DEF Swept, FinalScore, FinallyOver, Falling, IInv, TypeOK
<1>4. F \in IF Falling = {} THEN {PieceCells(Spawn(s)) : s \in Shapes} ELSE {Falling}
  <2>1. CASE piece = NoPiece
    BY <1>1, <2>1 DEF Falling, Current, IInv, TypeOK
  <2>2. CASE piece # NoPiece
    BY <1>1, <1>2, <2>2, FourCells DEF Falling, Current
  <2> QED
    BY <2>1, <2>2
<1>5. \E c \in F : <<c[1] + 1, c[2]>> \in Swept
  <2>1. PICK i \in Points : Point(Moved("TETRIS_NONE", Current), i) \in settled
    BY DEF Land, Hits
  <2>2. Current.x < Height - 1
    BY <1>2, InsideFacts
  <2>3. <<Point(Current, i)[1] + 1, Point(Current, i)[2]>> \in settled
    BY <1>2, <2>1, <2>2, MovedPoint DEF Opers
  <2> QED
    BY <1>3, <2>3 DEF PieceCells
<1>6. FinalScore' =
        (score + Rules!Award(Rules!Cardinality(Rules!CompleteRows(settled \cup F)))) % ScoreSize
  <2> DEFINE n == Cardinality(Full(settled'))
  <2>1. FinalScore' = (score + ToScore(n)) % ScoreSize
    <3>1. LinesInAll' = 0 + n
      BY <1>1, RowsSame DEF LinesInAll
    <3>2. LinesInAll' = n
      BY <3>1, FullFinite
    <3> QED
      BY <1>1, <3>2 DEF FinalScore, ToScore
  <2>2. n \in 0..4
    <3>1. Full(settled') \subseteq piece'.x..piece'.x + 3 /\ piece'.x \in Int
      BY <1>1, <1>2 DEF LinesInv, Full, Complete, Pieces
    <3>2. IsFiniteSet(piece'.x..piece'.x + 3) /\ Cardinality(piece'.x..piece'.x + 3) = 4
      BY <3>1, IntervalSize
    <3>3. n <= 4
      BY <3>1, <3>2, FS_Subset
    <3> QED
      BY <3>3, FullFinite
  <2>3. Rules!Cardinality(Rules!CompleteRows(settled \cup F)) = n
    BY <1>1, CompactSame, SameCardinality
  <2>4. Rules!Award(n) = ToScore(n)
    BY <2>2 DEF Rules!Award, ToScore
  <2> QED
    BY <2>1, <2>3, <2>4
<1> QED
  BY <1>2, <1>3, <1>4, <1>5, <1>6, FreeCells DEF Rules!Settle, Rules!Columns, Inner

\* Clearing one row changes nothing the rules see.
LEMMA ClearRowStep ==
  ASSUME IInv, LinesInv, ClearRow
  PROVE  UNCHANGED <<Swept, Falling, FinalScore, FinallyOver>>
<1>1. /\ at = "sweep" /\ at' = "sweep" /\ row \in 2..Height - 2 /\ Complete(row)
      /\ settled' = MoveDownOneLine(row) /\ lines' = lines + 1 /\ lines \in Nat
      /\ settled \subseteq Cells /\ score' = score
  BY DEF ClearRow, IInv, SweptBelow, TypeOK
<1>2. row \in Full(settled) /\ \A q \in Full(settled) : q <= row
  BY <1>1 DEF IInv, SweptBelow, Full, Complete
<1>3. \E y \in Inner : <<1, y>> \notin settled
  BY <1>1 DEF LinesInv, Complete
<1>4. /\ Rows!Compact(settled') = Rows!Compact(settled)
      /\ Cardinality(Full(settled)) = Cardinality(Full(settled')) + 1
  BY <1>1, <1>2, <1>3, CompactStep, CompactShift DEF MoveDownOneLine
<1>5. Swept' = Swept
  BY <1>1, <1>4 DEF Swept
<1>6. LinesInAll' = LinesInAll
  BY <1>1, <1>4, RowsSame, FullFinite DEF LinesInAll
<1> QED
  BY <1>1, <1>5, <1>6 DEF Falling, FinalScore, FinallyOver

\* When the sweep ends no complete row is left to vanish.
LEMMA FinishStep ==
  ASSUME IInv, LinesInv, FinishLanding
  PROVE  UNCHANGED <<Swept, Falling, FinalScore, FinallyOver>>
<1>1. /\ at = "sweep" /\ at' = "rest" /\ piece' = NoPiece /\ settled' = settled
      /\ score' = (score + ToScore(lines)) % ScoreSize
      /\ over' = \E y \in Inner : <<3, y>> \in settled
      /\ settled \subseteq Cells /\ lines \in Nat /\ row < 2
  BY DEF FinishLanding, IInv, TypeOK
<1>2. Full(settled) = {}
  BY <1>1 DEF IInv, SweptBelow, Full, Complete
<1>3. Swept = settled /\ Swept' = settled
  BY <1>1, <1>2, CompactNone DEF Swept
<1>4. LinesInAll = lines
  BY <1>1, <1>2, RowsSame, FS_EmptySet DEF LinesInAll
<1> QED
  BY <1>1, <1>3, <1>4 DEF Falling, FinalScore, FinallyOver

\* Every step is a step of the rules, or none.
LEMMA NextRules ==
  ASSUME IInv, IInv', LinesInv, LinesInv', [Next]_vars
  PROVE  [Rules!Glide \/ Rules!Settle]_<<Swept, Falling, FinalScore, FinallyOver>>
<1>1. ASSUME NEW oper \in Opers, Move(oper) PROVE Rules!Glide
  BY <1>1, MoveInside, GlideStep DEF Move
<1>2. ASSUME NEW oper \in Opers, Refuse(oper)
      PROVE  Rules!Glide \/ UNCHANGED <<Swept, Falling, FinalScore, FinallyOver>>
  <2>1. CASE piece = NoPiece
    BY <1>2, CurrentFree, GlideStep DEF Refuse
  <2>2. CASE piece # NoPiece
    BY <1>2, <2>2, Stutter DEF Refuse, Current
  <2> QED
    BY <2>1, <2>2
<1>3. CASE Land
  BY <1>3, SettleStep
<1>4. CASE Sweep
  BY <1>4, ClearRowStep, FinishStep, Stutter DEF Sweep, PassRow
<1>5. CASE UNCHANGED vars
  BY <1>5, Stutter DEF vars
<1> QED
  BY <1>1, <1>2, <1>3, <1>4, <1>5 DEF Next, ProcessGame, Ended

\* The moves, the tests of ProcessTetris, and the row by row sweep of
\* ScoringDetection are together the rules of the game as a player knows them.
THEOREM RulesImplemented == Spec => ImplementsRules
<1>1. IInv /\ IInv' /\ LinesInv /\ LinesInv' /\ [Next]_vars
        => [Rules!Glide \/ Rules!Settle]_Rules!rulesVars
  BY NextRules DEF Rules!rulesVars
<1> QED
  BY <1>1, InitRules, Invariant, LinesInvariant, PTL DEF Spec, ImplementsRules, Rules!RulesSpec
-----------------------------------------------------------------------------
(* How many cells there are. *)

InnerCells(b) == {c \in b : c[1] < Height - 1 /\ c[2] \in Inner}

\* A board is finite.
LEMMA BoardFinite ==
  ASSUME NEW b, b \subseteq Cells
  PROVE  IsFiniteSet(InnerCells(b)) /\ Cardinality(InnerCells(b)) \in Nat
<1>1. IsFiniteSet(0..Height - 1) /\ IsFiniteSet(0..Width - 1)
  BY DimensionAssumption, FS_Interval
<1>2. IsFiniteSet(Cells)
  BY <1>1, FS_Product DEF Cells
<1>3. InnerCells(b) \subseteq Cells
  BY DEF InnerCells
<1>4. IsFiniteSet(InnerCells(b))
  BY <1>2, <1>3, FS_Subset
<1> QED
  BY <1>4, FS_CardinalityType

\* Clearing a row takes away its cells, if row 1 has none to copy.
LEMMA ClearedCells ==
  ASSUME NEW b, NEW r \in 2..Height - 2,
         b \subseteq Cells,
         \A y \in Inner : <<r, y>> \in b /\ <<1, y>> \notin b,
         NEW d,
         d = {c \in Cells : IF c[1] \in 2..r /\ c[2] \in Inner
                            THEN <<c[1] - 1, c[2]>> \in b ELSE c \in b}
  PROVE  Cardinality(InnerCells(d)) = Cardinality(InnerCells(b)) - (Width - 2)
<1> USE DimensionAssumption
<1> DEFINE R == {r} \X Inner
           S == InnerCells(b) \ R
           T == InnerCells(d)
           f == [c \in S |-> IF c[1] \in 1..r - 1 THEN <<c[1] + 1, c[2]>> ELSE c]
<1>1. R \subseteq InnerCells(b)
  <2>1. ASSUME NEW c \in R PROVE c \in b /\ c[1] = r /\ c[2] \in Inner
    <3>1. c = <<r, c[2]>> /\ c[2] \in Inner
      OBVIOUS
    <3> QED
      BY <3>1
  <2> QED
    BY <2>1 DEF InnerCells
<1>2. Cardinality(R) = Width - 2
  <2>1. IsFiniteSet({r}) /\ Cardinality({r}) = 1
    BY FS_Singleton
  <2>2. 1 \in Int /\ Width - 3 \in Nat /\ 1 + (Width - 3) = Width - 2 /\ (Width - 3) + 1 = Width - 2
    OBVIOUS
  <2>3. IsFiniteSet(Inner) /\ Cardinality(Inner) = Width - 2
    <3>1. IsFiniteSet(1..1 + (Width - 3)) /\ Cardinality(1..1 + (Width - 3)) = (Width - 3) + 1
      BY <2>2, IntervalSize
    <3> QED
      BY <2>2, <3>1 DEF Inner
  <2>4. Cardinality(R) = 1 * (Width - 2)
    BY <2>1, <2>3, FS_Product
  <2> QED
    BY <2>2, <2>4
<1>3. IsFiniteSet(S) /\ Cardinality(S) = Cardinality(InnerCells(b)) - (Width - 2)
  <2>1. InnerCells(b) \cap R = R
    BY <1>1
  <2>2. IsFiniteSet(InnerCells(b))
    BY BoardFinite
  <2> HIDE DEF R
  <2>3. /\ IsFiniteSet(InnerCells(b) \ R)
        /\ Cardinality(InnerCells(b) \ R) =
             Cardinality(InnerCells(b)) - Cardinality(InnerCells(b) \cap R)
    BY <2>2, FS_Difference
  <2> QED
    BY <1>2, <2>1, <2>3
<1>4. ASSUME NEW c \in S
      PROVE  /\ c \in b /\ c = <<c[1], c[2]>> /\ c[2] \in Inner
             /\ c[1] = 0 \/ c[1] \in 2..r - 1 \/ c[1] \in r + 1..Height - 2
  <2>1. c \in b /\ c[1] \in 0..Height - 2 /\ c[2] \in Inner /\ c = <<c[1], c[2]>>
    BY DEF InnerCells, Cells
  <2>2. c[1] # r /\ c[1] # 1
    BY <2>1
  <2> QED
    BY <2>1, <2>2
<1>5. ASSUME NEW c \in S, c[1] \in 2..r - 1
      PROVE  f[c] = <<c[1] + 1, c[2]>> /\ f[c] \in T
  <2>1. c[1] \in 1..r - 1 /\ c[1] + 1 \in 2..r /\ (c[1] + 1) - 1 = c[1]
    BY <1>5
  <2>2. <<c[1] + 1, c[2]>> \in Cells
    BY <1>4, <2>1 DEF Cells, Inner
  <2>3. <<c[1] + 1, c[2]>> \in d
    BY <1>4, <2>1, <2>2
  <2> QED
    BY <1>4, <2>1, <2>3 DEF InnerCells
<1>6. ASSUME NEW c \in S, c[1] \notin 2..r - 1
      PROVE  f[c] = c /\ f[c] \in T
  <2>1. c[1] \notin 1..r - 1 /\ c[1] \notin 2..r
    BY <1>4, <1>6
  <2>2. c \in d
    BY <1>4, <2>1
  <2> QED
    BY <2>1, <2>2 DEF InnerCells
<1>7. f \in [S -> T]
  BY <1>5, <1>6
<1>8. ASSUME NEW c \in S, NEW e \in S, f[c] = f[e] PROVE c = e
  <2>1. CASE c[1] \in 2..r - 1 /\ e[1] \in 2..r - 1
    BY <1>4, <1>5, <1>8, <2>1
  <2>2. CASE c[1] \notin 2..r - 1 /\ e[1] \notin 2..r - 1
    BY <1>6, <1>8, <2>2
  <2>3. CASE c[1] \in 2..r - 1 /\ e[1] \notin 2..r - 1
    <3>1. e[1] = c[1] + 1
      BY <1>5, <1>6, <1>8, <2>3
    <3> QED
      BY <1>4, <2>3, <3>1
  <2>4. CASE c[1] \notin 2..r - 1 /\ e[1] \in 2..r - 1
    <3>1. c[1] = e[1] + 1
      BY <1>5, <1>6, <1>8, <2>4
    <3> QED
      BY <1>4, <2>4, <3>1
  <2> QED
    BY <2>1, <2>2, <2>3, <2>4
<1>9. ASSUME NEW e \in T PROVE \E c \in S : f[c] = e
  <2>1. e \in d /\ e \in Cells /\ e[1] \in 0..Height - 2 /\ e[2] \in Inner /\ e = <<e[1], e[2]>>
    BY DEF InnerCells, Cells
  <2>2. CASE e[1] \in 2..r
    <3>1. <<e[1] - 1, e[2]>> \in b
      BY <2>1, <2>2
    <3>2. <<e[1] - 1, e[2]>> \in S
      BY <2>1, <2>2, <3>1 DEF InnerCells
    <3>3. e[1] - 1 \in 2..r - 1 /\ (e[1] - 1) + 1 = e[1]
      BY <1>4, <2>2, <3>2
    <3> QED
      BY <1>5, <2>1, <3>2, <3>3
  <2>3. CASE e[1] \notin 2..r
    <3>1. e \in S
      BY <2>1, <2>3 DEF InnerCells
    <3>2. e[1] \notin 2..r - 1
      BY <2>3
    <3>3. f[e] = e
      BY <1>6, <3>1, <3>2
    <3> QED
      BY <3>1, <3>3
  <2> QED
    BY <2>2, <2>3
<1>10. f \in Bijection(S, T)
  <2> HIDE DEF f, S, T
  <2> QED
    BY <1>7, <1>8, <1>9 DEF Bijection, Injection, Surjection, IsInjective
<1>11. Cardinality(T) = Cardinality(S)
  <2> HIDE DEF f, S, T
  <2> QED
    BY <1>3, <1>10, FS_Bijection DEF ExistsBijection
<1> QED
  BY <1>3, <1>11

\* Pieces bring four cells, rows take a multiple of four.  A landing that reaches
\* row 1 may add others, but then row 3 is occupied and the game ends.
FoursInv ==
  (Width - 2) % 4 = 0 =>
    \/ Cardinality(InnerCells(settled)) % 4 = 0
    \/ at = "sweep" /\ Occupied(1)
    \/ at = "rest" /\ over

\* A landing adds the four cells of the piece.
LEMMA LandFours == ASSUME IInv, FoursInv, Land PROVE FoursInv'
<1> DEFINE F == PieceCells(Current)
<1>1. Playing /\ at = "rest" /\ ~over /\ settled' = settled \cup F
  BY DEF Land, Playing
<1>2. Current \in Pieces /\ F \subseteq Inside \ settled
  BY <1>1, CurrentFree
<1>3. Cardinality(F) = 4
  BY <1>2, FourCells
<1>4. settled \subseteq Cells
  BY DEF IInv, TypeOK
<1>5. F \subseteq Cells /\ InnerCells(F) = F
  BY <1>2, InsideCells, DimensionAssumption DEF InnerCells, Inside
<1>6. IsFiniteSet(F) /\ IsFiniteSet(InnerCells(settled))
      /\ Cardinality(InnerCells(settled)) \in Nat
  BY <1>4, <1>5, BoardFinite
<1>7. InnerCells(settled') = InnerCells(settled) \cup F /\ InnerCells(settled) \cap F = {}
  BY <1>1, <1>2, <1>5 DEF InnerCells
<1> HIDE DEF F
<1>8. Cardinality(InnerCells(settled')) = Cardinality(InnerCells(settled)) + 4
  <2>1. Cardinality(InnerCells(settled) \cup F) =
          Cardinality(InnerCells(settled)) + Cardinality(F) - Cardinality({})
    BY <1>6, <1>7, FS_Union
  <2>2. Cardinality({}) = 0
    BY FS_EmptySet
  <2> QED
    BY <1>3, <1>6, <1>7, <2>1, <2>2
<1>9. InnerCells(settled)' = InnerCells(settled')
  BY DEF InnerCells
<1> QED
  BY <1>1, <1>6, <1>8, <1>9 DEF FoursInv

\* Clearing a row takes Width - 2 cells away, or row 1 is occupied and stays so.
LEMMA ClearRowFours == ASSUME IInv, FoursInv, ClearRow PROVE FoursInv'
<1>1. /\ at = "sweep" /\ at' = "sweep" /\ row \in 2..Height - 2 /\ Complete(row)
      /\ settled' = MoveDownOneLine(row) /\ settled \subseteq Cells
  BY DEF ClearRow, IInv, SweptBelow, TypeOK
<1>2. CASE Occupied(1)
  <2>1. PICK y \in Inner : <<1, y>> \in settled
    BY <1>2 DEF Occupied
  <2>2. <<1, y>> \in settled'
    BY <1>1, <2>1 DEF MoveDownOneLine
  <2> QED
    BY <1>1, <2>2 DEF FoursInv, Occupied
<1>3. CASE ~Occupied(1)
  <2>1. \A y \in Inner : <<row, y>> \in settled /\ <<1, y>> \notin settled
    BY <1>1, <1>3 DEF Complete, Occupied
  <2>2. Cardinality(InnerCells(settled')) = Cardinality(InnerCells(settled)) - (Width - 2)
    BY <1>1, <2>1, ClearedCells DEF MoveDownOneLine
  <2>3. Cardinality(InnerCells(settled)) \in Nat
    BY <1>1, BoardFinite
  <2>4. InnerCells(settled)' = InnerCells(settled')
    BY DEF InnerCells
  <2> QED
    BY <1>1, <1>3, <2>2, <2>3, <2>4, DimensionAssumption DEF FoursInv
<1> QED
  BY <1>2, <1>3

\* While a game goes on, pieces and cleared lines account for every settled cell,
\* although MoveDownOneLine copies row 1 and never empties it.
THEOREM CellsComeInFours == Spec => []SettledInFours
<1>1. Init => FoursInv
  <2> SUFFICES ASSUME Init PROVE Cardinality(InnerCells(settled)) = 0
    BY DEF FoursInv
  <2>1. InnerCells(settled) = {}
    BY DimensionAssumption DEF Init, Frame, Cells, InnerCells, Inner
  <2> QED
    BY <2>1, FS_EmptySet
<1>2. IInv /\ FoursInv /\ [Next]_vars => FoursInv'
  <2> SUFFICES ASSUME IInv, FoursInv, [Next]_vars PROVE FoursInv'
    OBVIOUS
  <2>1. ASSUME NEW oper \in Opers, Move(oper) \/ Refuse(oper) PROVE FoursInv'
    BY <2>1 DEF Move, Refuse, Playing, FoursInv, InnerCells
  <2>2. CASE Land
    BY <2>2, LandFours
  <2>3. CASE ClearRow
    BY <2>3, ClearRowFours
  <2>4. CASE PassRow
    BY <2>4 DEF PassRow, FoursInv, InnerCells, Occupied
  <2>5. CASE FinishLanding
    <3>1. Occupied(1) => over'
      BY <2>5 DEF FinishLanding, IInv, Supported, Occupied
    <3> QED
      BY <2>5, <3>1 DEF FinishLanding, FoursInv, InnerCells
  <2>6. CASE UNCHANGED vars
    BY <2>6 DEF vars, FoursInv, InnerCells, Occupied
  <2> QED
    BY <2>1, <2>2, <2>3, <2>4, <2>5, <2>6 DEF Next, ProcessGame, Sweep, Ended
<1>3. FoursInv => SettledInFours
  BY DEF FoursInv, SettledInFours, Playing, InnerCells
<1> QED
  BY <1>1, <1>2, <1>3, Invariant, PTL DEF Spec
=============================================================================
