----------------------------- MODULE TetrisBoard -----------------------------
(***************************************************************************)
(* The board of a running game: ProcessGame of src/src/tetris/tetris.cpp   *)
(* with everything it calls, and the piece of src/src/tetris/tetromino.cpp.*)
(* A map is the set of its '#' cells, <<row, column>>; row 0 is the top.   *)
(*                                                                         *)
(* ProcessGame runs under tetris_mutex_, so a move is one action.  Only a  *)
(* landing is more: the loop of ScoringDetection takes one action for each *)
(* iteration, while at = "sweep", and no move interleaves with it.         *)
(*                                                                         *)
(* The coordinates are unsigned int: the column of a piece's centre may    *)
(* wrap below 0 while its cells do not.                                    *)
(***************************************************************************)
EXTENDS Integers, FiniteSets

CONSTANTS
  Height, Width,    \* TETRIS_MAP_HEIGHT, TETRIS_MAP_WIDTH: 24 and 14
  SpawnColumn,      \* column of the centre of a new piece: 6
  Shapes,           \* the indexes of tetromino_indexs_
  Shape, NextShape, \* their points and next_index, see Tetromino
  Drawn,            \* what rand() % MAX_STANZA_SIZE returns: all of Shapes
  UIntSize,         \* 2^32
  ScoreSize         \* 2^32, for score_

Points == 1..4

RowOf(s, i) == Shape[s][i].x

ASSUME DimensionAssumption ==
  /\ Height \in Nat /\ Height >= 6
  /\ Width \in Nat
  /\ SpawnColumn \in Nat \ {0}
  /\ SpawnColumn + 4 < Width
  /\ UIntSize \in Nat /\ UIntSize > Height + 4 /\ UIntSize > Width + 4
  /\ ScoreSize \in Nat \ {0}

\* Indexes are unsigned; NoPiece has none.
ASSUME IndexAssumption == Shapes \subseteq Nat

\* Four points in a 4 by 4 box, with no row missing between two of them; and a
\* point of a rotated piece is at most one row below the piece as it was, or an
\* earlier point of it is, in the row just above.
ASSUME ShapeAssumption ==
  /\ Drawn \subseteq Shapes
  /\ NextShape \in [Shapes -> Shapes]
  /\ Shape \in [Shapes -> [Points -> [x : 0..3, y : 0..3]]]
  /\ \A s \in Shapes : \A i, j \in Points : \A r \in RowOf(s, i)..RowOf(s, j) :
       \E k \in Points : RowOf(s, k) = r
  /\ \A s \in Shapes : \A i \in Points : \E k \in Points :
       \/ RowOf(NextShape[s], i) <= RowOf(s, k) + 1
       \/ \E j \in 1..(i - 1) :
            /\ RowOf(NextShape[s], j) = RowOf(NextShape[s], i) - 1
            /\ RowOf(NextShape[s], j) <= RowOf(s, k) + 1

\* The four points of a shape are different.
ASSUME DistinctAssumption ==
  \A s \in Shapes : \A i, j \in Points : Shape[s][i] = Shape[s][j] => i = j

VARIABLES
  settled,   \* tetris_map_: the frame and what has landed
  view,      \* active_map_: what responses show
  piece,     \* active_tetromino_: shape and centre of the falling piece
  next,      \* the shape of tetromino_factory_.next_tetromino_
  score,     \* score_
  over,      \* a landing has set tetris_status_ to TETRIS_GAME_OVER
  at,        \* "rest", or "sweep" inside ScoringDetection
  row,       \* x of its loop
  lines      \* its scoring_size

vars == <<settled, view, piece, next, score, over, at, row, lines>>

Cells == (0..Height - 1) \X (0..Width - 1)
Inner == 1..Width - 2

Inside == (0..Height - 2) \X Inner

\* Mutant of Frame: InitTetrisMap forgets the floor.
Frame_NoFloor == {c \in Cells : c[2] \in {0, Width - 1}}

Frame == {c \in Cells : c[1] = Height - 1 \/ c[2] \in {0, Width - 1}}

Pieces == [shape : Shapes, x : 0..Height - 1, y : 0..UIntSize - 1]

NoPiece == [shape |-> -1, x |-> 0, y |-> 0]

Opers == {"TETRIS_UP", "TETRIS_DOWN", "TETRIS_LEFT", "TETRIS_RIGHT", "TETRIS_NONE"}

TypeOK ==
  /\ settled \subseteq Cells
  /\ view \subseteq Cells
  /\ piece \in {NoPiece} \cup Pieces
  /\ next \in Shapes
  /\ score \in 0..ScoreSize - 1
  /\ over \in BOOLEAN
  /\ at \in {"rest", "sweep"}
  /\ row \in 0..Height - 1
  /\ lines \in Nat
-----------------------------------------------------------------------------
(* Pieces. *)

\* Unsigned addition of numbers below UIntSize.
Plus(a, b) == IF a + b >= UIntSize THEN a + b - UIntSize ELSE a + b

\* ToRealyMap.
Point(p, i) ==
  <<Plus(p.x, Shape[p.shape][i].x), Plus(p.y, Shape[p.shape][i].y)>>

PieceCells(p) == {Point(p, i) : i \in Points}

Spawn(s) == [shape |-> s, x |-> 0, y |-> SpawnColumn]

\* Mutant of Moved: a rotation puts the piece back to the top.
Moved_Rises(oper, p) ==
  CASE oper = "TETRIS_UP"    -> [p EXCEPT !.shape = NextShape[@], !.x = 0]
    [] oper = "TETRIS_LEFT"  -> [p EXCEPT !.y = Plus(@, UIntSize - 1)]
    [] oper = "TETRIS_RIGHT" -> [p EXCEPT !.y = Plus(@, 1)]
    [] oper \in {"TETRIS_DOWN", "TETRIS_NONE"} -> [p EXCEPT !.x = Plus(@, 1)]

\* Mutant of Moved: the column is signed.
Moved_Signed(oper, p) ==
  CASE oper = "TETRIS_UP"    -> [p EXCEPT !.shape = NextShape[@]]
    [] oper = "TETRIS_LEFT"  -> [p EXCEPT !.y = @ - 1]
    [] oper = "TETRIS_RIGHT" -> [p EXCEPT !.y = Plus(@, 1)]
    [] oper \in {"TETRIS_DOWN", "TETRIS_NONE"} -> [p EXCEPT !.x = Plus(@, 1)]

\* RotationTetromino, LeftTetromino, RightTetromino, DownTetromino.
Moved(oper, p) ==
  CASE oper = "TETRIS_UP"    -> [p EXCEPT !.shape = NextShape[@]]
    [] oper = "TETRIS_LEFT"  -> [p EXCEPT !.y = Plus(@, UIntSize - 1)]
    [] oper = "TETRIS_RIGHT" -> [p EXCEPT !.y = Plus(@, 1)]
    [] oper \in {"TETRIS_DOWN", "TETRIS_NONE"} -> [p EXCEPT !.x = Plus(@, 1)]
-----------------------------------------------------------------------------
(* Moves: ProcessGame and ProcessTetris. *)

\* A point passes the tests of ProcessTetris.  tetris_map_ is read only if the
\* column is inside; ReadsInBounds is about the row.
Clear(c) == c[2] > 0 /\ c[2] < Width /\ c \notin settled

\* Mutant of Fits: does not test the last point.
Fits_ThreePoints(p) == \A i \in Points \ {4} : Clear(Point(p, i))

Fits(p) == \A i \in Points : Clear(Point(p, i))

\* The points are tested in order, and the first that fails decides: a column
\* outside is only refused, a '#' makes a fall land.
Hits(p) ==
  \E i \in Points :
    /\ \A j \in 1..(i - 1) : Clear(Point(p, j))
    /\ Point(p, i) \in settled
    /\ Point(p, i)[2] > 0 /\ Point(p, i)[2] < Width

Playing == at = "rest" /\ ~over

\* A game with no active piece takes the next one and draws another.
Current == IF piece = NoPiece THEN Spawn(next) ELSE piece

Draw ==
  IF piece = NoPiece THEN next' \in Drawn ELSE next' = next

\* AddTerominoPoint: the piece moves and is drawn.
Move(oper) ==
  /\ Playing
  /\ Fits(Moved(oper, Current))
  /\ piece' = Moved(oper, Current)
  /\ view' = settled \cup PieceCells(piece')
  /\ Draw
  /\ UNCHANGED <<settled, score, over, at, row, lines>>

\* An early return of ProcessTetris; a piece just taken stays, undrawn.
Refuse(oper) ==
  /\ Playing
  /\ ~Fits(Moved(oper, Current))
  /\ ~(oper = "TETRIS_NONE" /\ Hits(Moved(oper, Current)))
  /\ piece' = Current
  /\ Draw
  /\ UNCHANGED <<settled, view, score, over, at, row, lines>>
-----------------------------------------------------------------------------
(* Landing: CollisionDetection, ScoringDetection, MoveDownOneLine. *)

\* Mutant of Land: settles the place the piece could not move to.
Land_Below ==
  /\ Playing
  /\ Hits(Moved("TETRIS_NONE", Current))
  /\ settled' = settled \cup PieceCells(Moved("TETRIS_NONE", Current))
  /\ at' = "sweep"
  /\ row' = Height - 2
  /\ lines' = 0
  /\ piece' = Current
  /\ Draw
  /\ UNCHANGED <<view, score, over>>

\* Lines 276-281: the piece becomes part of the settled map.
Land ==
  /\ Playing
  /\ Hits(Moved("TETRIS_NONE", Current))
  /\ settled' = settled \cup PieceCells(Current)
  /\ at' = "sweep"
  /\ row' = Height - 2
  /\ lines' = 0
  /\ piece' = Current
  /\ Draw
  /\ UNCHANGED <<view, score, over>>

Complete(r) == \A y \in Inner : <<r, y>> \in settled

\* Mutant of MoveDownOneLine: starts one row too high.
MoveDownOneLine_Short(r) ==
  {c \in Cells : IF c[1] \in 2..(r - 1) /\ c[2] \in Inner
                 THEN <<c[1] - 1, c[2]>> \in settled
                 ELSE c \in settled}

\* MoveDownOneLine(r): each row from r up to 2 gets the row above it.
MoveDownOneLine(r) ==
  {c \in Cells : IF c[1] \in 2..r /\ c[2] \in Inner
                 THEN <<c[1] - 1, c[2]>> \in settled
                 ELSE c \in settled}

\* Mutant of ClearRow: does not look at the same row again.
ClearRow_StepsOn ==
  /\ at = "sweep" /\ row >= 2
  /\ Complete(row)
  /\ settled' = MoveDownOneLine(row)
  /\ lines' = lines + 1
  /\ row' = row - 1
  /\ UNCHANGED <<view, piece, next, score, over, at>>

\* A complete row is overwritten, and the same row is looked at again.
ClearRow ==
  /\ at = "sweep" /\ row >= 2
  /\ Complete(row)
  /\ settled' = MoveDownOneLine(row)
  /\ lines' = lines + 1
  /\ UNCHANGED <<view, piece, next, score, over, at, row>>

PassRow ==
  /\ at = "sweep" /\ row >= 2
  /\ ~Complete(row)
  /\ row' = row - 1
  /\ UNCHANGED <<settled, view, piece, next, score, over, at, lines>>

ToScore(n) == IF n \in 1..4 THEN (n * (n + 1)) \div 2 ELSE 0

\* Mutant of FinishLanding: looks for the end of the game one row higher.
FinishLanding_RowTwo ==
  /\ at = "sweep" /\ row < 2
  /\ score' = (score + ToScore(lines)) % ScoreSize
  /\ over' = \E y \in Inner : <<2, y>> \in settled
  /\ view' = settled
  /\ piece' = NoPiece
  /\ at' = "rest" /\ row' = 0 /\ lines' = 0
  /\ UNCHANGED <<settled, next>>

\* Mutant of FinishLanding: keeps the old view.
FinishLanding_OldView ==
  /\ at = "sweep" /\ row < 2
  /\ score' = (score + ToScore(lines)) % ScoreSize
  /\ over' = \E y \in Inner : <<3, y>> \in settled
  /\ piece' = NoPiece
  /\ at' = "rest" /\ row' = 0 /\ lines' = 0
  /\ UNCHANGED <<settled, view, next>>

\* Mutant of FinishLanding: the piece that landed is not given up.
FinishLanding_KeepsPiece ==
  /\ at = "sweep" /\ row < 2
  /\ score' = (score + ToScore(lines)) % ScoreSize
  /\ over' = \E y \in Inner : <<3, y>> \in settled
  /\ view' = settled
  /\ at' = "rest" /\ row' = 0 /\ lines' = 0
  /\ UNCHANGED <<settled, piece, next>>

\* Lines 282-292, after the loop.
FinishLanding ==
  /\ at = "sweep" /\ row < 2
  /\ score' = (score + ToScore(lines)) % ScoreSize
  /\ over' = \E y \in Inner : <<3, y>> \in settled
  /\ view' = settled
  /\ piece' = NoPiece
  /\ at' = "rest" /\ row' = 0 /\ lines' = 0
  /\ UNCHANGED <<settled, next>>
-----------------------------------------------------------------------------
\* Start: InitTetrisMap of both maps; the factory has drawn the first piece.
Init ==
  /\ settled = Frame
  /\ view = Frame
  /\ piece = NoPiece
  /\ next \in Drawn
  /\ score = 0
  /\ over = FALSE
  /\ at = "rest"
  /\ row = 0
  /\ lines = 0

\* ProcessGame(oper); only the game thread calls it with TETRIS_NONE.
ProcessGame(oper) ==
  \/ Move(oper)
  \/ Refuse(oper)
  \/ oper = "TETRIS_NONE" /\ Land

Sweep == ClearRow \/ PassRow \/ FinishLanding

\* The game has ended and is not moved any more.
Ended == over /\ UNCHANGED vars

Next == (\E oper \in Opers : ProcessGame(oper)) \/ Sweep \/ Ended

Spec == Init /\ [][Next]_vars

\* The game thread lets the piece fall once a second, and finishes a landing.
FairSpec == Spec /\ WF_vars(ProcessGame("TETRIS_NONE")) /\ WF_vars(Sweep)

\* A game nobody sends a move to.
Unattended == ProcessGame("TETRIS_NONE") \/ Sweep \/ Ended

UnattendedSpec ==
  /\ Init /\ [][Unattended]_vars
  /\ WF_vars(ProcessGame("TETRIS_NONE")) /\ WF_vars(Sweep)
-----------------------------------------------------------------------------
\* While a game goes on, the rows a new piece appears in are free, although the
\* code never looks: it tests row 3 only, after the rows have moved down.
SpawnAreaFree ==
  Playing => \A r \in 0..3 : \A y \in Inner : <<r, y>> \notin settled

\* The falling piece is inside the frame and covers no settled cell, although
\* ProcessTetris tests no row number.
NoOverlap ==
  at = "rest" /\ piece # NoPiece => PieceCells(piece) \subseteq Inside \ settled

\* ProcessTetris reads tetris_map_ inside its bounds: a point it tests is never
\* below the floor, because the points before it stop the loop.
ReadsInBounds ==
  Playing =>
    \A oper \in Opers : \A i \in Points :
      LET p == Moved(oper, Current)
      IN  /\ \A j \in 1..(i - 1) : Clear(Point(p, j))
          /\ Point(p, i)[2] \in 1..Width - 1
          => Point(p, i)[1] < Height

\* One piece completes at most the four lines ToScore knows a score for, and
\* ScoringDetection does not clear the same line for ever.
AtMostFourLines == lines <= 4

\* ScoringDetection leaves no complete row behind: rows that come down are
\* looked at as well.
NoCompleteRow == at = "rest" => \A r \in 2..Height - 2 : ~Complete(r)

\* Pieces and cleared lines account for every settled cell while the game goes
\* on: MoveDownOneLine copies row 1 and never empties it, which adds cells when
\* row 1 is not empty.
SettledInFours ==
  Playing /\ (Width - 2) % 4 = 0 =>
    Cardinality({c \in settled : c[1] < Height - 1 /\ c[2] \in Inner}) % 4 = 0

\* What a response shows is the settled map and the piece where it is; only a
\* piece that was just taken may be missing.
ViewShowsBoard ==
  at = "rest" =>
    \/ view = settled \cup (IF piece = NoPiece THEN {} ELSE PieceCells(piece))
    \/ view = settled /\ piece = Spawn(piece.shape)

(***************************************************************************)
(* The rules implemented: a landing counts as finished from its first      *)
(* step, with the score of the lines cleared so far and still to clear.    *)
(***************************************************************************)
Rows == INSTANCE TetrisRules WITH
  Entries <- {PieceCells(Spawn(s)) : s \in Shapes},
  board <- settled, falling <- {}, points <- score, ended <- over

Swept == IF at = "sweep" THEN Rows!Compact(settled) ELSE settled

LinesInAll == lines + Cardinality(Rows!CompleteRows(settled))

Falling == IF at = "sweep" \/ piece = NoPiece THEN {} ELSE PieceCells(piece)

FinalScore ==
  IF at = "sweep" THEN (score + ToScore(LinesInAll)) % ScoreSize ELSE score

FinallyOver == IF at = "sweep" THEN \E y \in Inner : <<3, y>> \in Swept ELSE over

Rules == INSTANCE TetrisRules WITH
  Entries <- {PieceCells(Spawn(s)) : s \in Shapes},
  board <- Swept, falling <- Falling, points <- FinalScore, ended <- FinallyOver

\* Moving, landing, the row by row sweep and the test for the end of the game
\* are together the rules of TetrisRules.
ImplementsRules == Rules!RulesSpec

\* Whatever moves a player sends, the piece comes down and lands.
PieceLands == piece # NoPiece ~> piece = NoPiece

\* A game nobody plays ends.
UnattendedEnds == <>over
=============================================================================
