---------------------------- MODULE MCTetrisBoard ----------------------------
(***************************************************************************)
(* TetrisBoard with the shapes of Tetromino, on boards small enough for    *)
(* TLC.  The pieces drawn differ from run to run; a rotation reaches the   *)
(* other shapes of their kind.                                             *)
(***************************************************************************)
EXTENDS TetrisBoard, Tetromino

\* The shapes are those of the source, whatever the size of the board.
ASSUME TableAssumption ==
  Shapes = Indexes /\ Shape = TetrominoMap /\ NextShape = NextIndex

DrawIO == {4, 18}
DrawZO == {0, 18}

\* A rotation is a quarter turn: the columns become rows, and the rows columns
\* in reverse.  Both sets of points are moved to the corner to be compared.
Least(S) == CHOOSE n \in S : \A m \in S : n <= m

Corner(C) ==
  LET x == Least({c[1] : c \in C})
      y == Least({c[2] : c \in C})
  IN  {<<c[1] - x, c[2] - y>> : c \in C}

ShapeCells(s) == {<<Shape[s][i].x, Shape[s][i].y>> : i \in Points}

RotationTurns ==
  Corner({<<c[2], -c[1]>> : c \in ShapeCells(next)}) = Corner(ShapeCells(NextShape[next]))

\* The table of NextBlock in index.html.  The page is sent TetrominoIndex(), which
\* is the index the next piece turns to, and has the shape before that turn here.
Block == <<
  {<<0, 2>>, <<1, 1>>, <<1, 2>>, <<2, 1>>}, {<<1, 0>>, <<1, 1>>, <<2, 1>>, <<2, 2>>},
  {<<0, 0>>, <<1, 0>>, <<1, 1>>, <<2, 1>>}, {<<2, 0>>, <<1, 1>>, <<2, 1>>, <<1, 2>>},
  {<<0, 2>>, <<1, 2>>, <<2, 2>>, <<3, 2>>}, {<<1, 0>>, <<1, 1>>, <<1, 2>>, <<1, 3>>},
  {<<0, 1>>, <<1, 1>>, <<2, 1>>, <<1, 2>>}, {<<1, 0>>, <<1, 1>>, <<1, 2>>, <<2, 1>>},
  {<<1, 0>>, <<0, 1>>, <<1, 1>>, <<2, 1>>}, {<<1, 1>>, <<2, 0>>, <<2, 1>>, <<2, 2>>},
  {<<0, 1>>, <<1, 1>>, <<2, 1>>, <<2, 2>>}, {<<1, 0>>, <<2, 0>>, <<1, 1>>, <<1, 2>>},
  {<<0, 0>>, <<0, 1>>, <<1, 1>>, <<2, 1>>}, {<<2, 0>>, <<2, 1>>, <<1, 2>>, <<2, 2>>},
  {<<0, 1>>, <<0, 2>>, <<1, 1>>, <<2, 1>>}, {<<1, 0>>, <<1, 1>>, <<1, 2>>, <<2, 2>>},
  {<<0, 1>>, <<1, 1>>, <<2, 1>>, <<2, 0>>}, {<<1, 0>>, <<2, 0>>, <<2, 1>>, <<2, 2>>},
  {<<0, 0>>, <<1, 0>>, <<1, 1>>, <<0, 1>>} >>

\* Mutant of NextBlock: read as the index of the piece itself.
NextBlock_OwnShape(index) == Block[NextIndex[index] + 1]

NextBlock(index) == Block[index + 1]

TetrominoIndex == NextShape[next]

\* What the page draws as the next piece is the next piece, cell by cell.
PreviewShowsNext == NextBlock(TetrominoIndex) = ShapeCells(next)
=============================================================================
