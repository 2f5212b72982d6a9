----------------------------- MODULE TetrisRules -----------------------------
(***************************************************************************)
(* The rules of the game as a player knows them: a piece appears at the    *)
(* top, moves through free cells, and settles in one step on something     *)
(* occupied; the complete rows vanish together, everything above them      *)
(* comes down, and the game ends when the stack reaches the entry rows.    *)
(* TetrisBoard, the loops of src/src/tetris/tetris.cpp, implements this.   *)
(***************************************************************************)
EXTENDS Integers, FiniteSets

CONSTANTS Height, Width,   \* the board with its frame
          Entries,         \* the sets of cells in which a piece can appear
          ScoreSize        \* scores are counted modulo this

VARIABLES
  board,     \* the occupied cells, frame included
  falling,   \* the cells of the falling piece, {} between two pieces
  points,    \* the score
  ended      \* the game is over

rulesVars == <<board, falling, points, ended>>

Columns == 1..Width - 2
Free == ((0..Height - 2) \X Columns) \ board

\* The rows that can be complete: the loop of the code stops above row 2.
CompleteRows(b) == {r \in 2..Height - 2 : \A y \in Columns : <<r, y>> \in b}

\* A row that is not complete sinks by the number of complete rows below it.  The
\* rows left at the top get what is in row 1: nothing, unless the game is over.
Compact(b) ==
  LET gone == CompleteRows(b)
      below(r) == Cardinality({q \in gone : q > r})
      kept == {c \in b : c[1] \in 2..Height - 2 /\ c[1] \notin gone /\ c[2] \in Columns}
      filled == {c \in (2..1 + Cardinality(gone)) \X Columns : <<1, c[2]>> \in b}
      still == {c \in b : c[1] \notin 2..Height - 2 \/ c[2] \notin Columns}
  IN  still \cup filled \cup {<<c[1] + below(c[1]), c[2]>> : c \in kept}

\* 1, 3, 6 and 10 points for one to four rows.
Award(n) == IF n = 0 THEN 0 ELSE (n * (n + 1)) \div 2

RulesInit ==
  /\ board = {c \in (0..Height - 1) \X (0..Width - 1) :
                c[1] = Height - 1 \/ c[2] \in {0, Width - 1}}
  /\ falling = {}
  /\ points = 0
  /\ ended = FALSE

\* A piece appears or moves; it always has four free cells.
Glide ==
  /\ ~ended
  /\ falling' \subseteq Free
  /\ Cardinality(falling') = 4
  /\ UNCHANGED <<board, points, ended>>

\* A piece that lies on something, or could not even appear freely above it.
Settle ==
  /\ ~ended
  /\ \E F \in IF falling = {} THEN Entries ELSE {falling} :
       /\ F \subseteq Free
       /\ \E c \in F : <<c[1] + 1, c[2]>> \in board
       /\ board' = Compact(board \cup F)
       /\ points' = (points + Award(Cardinality(CompleteRows(board \cup F)))) % ScoreSize
  /\ ended' = \E y \in Columns : <<3, y>> \in board'
  /\ falling' = {}

RulesSpec == RulesInit /\ [][Glide \/ Settle]_rulesVars
=============================================================================
