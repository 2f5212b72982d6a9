------------------------------ MODULE Tetromino ------------------------------
(***************************************************************************)
(* The shapes of src/src/tetris/tetromino.cpp: for each of the 19 indexes  *)
(* its four points, in the order the code visits them, and the index a     *)
(* rotation goes to.  x is the row and grows downwards, y is the column.   *)
(***************************************************************************)
EXTENDS Integers

P(x, y) == [x |-> x, y |-> y]

Indexes == 0..18

\* The array InitTetrominoList fills.
TetrominoList == <<
  [next_index |-> 1,  tetromino_map |-> <<P(1, 0), P(1, 1), P(2, 1), P(2, 2)>>],  \* Z
  [next_index |-> 0,  tetromino_map |-> <<P(0, 2), P(1, 1), P(1, 2), P(2, 1)>>],
  [next_index |-> 3,  tetromino_map |-> <<P(2, 0), P(1, 1), P(2, 1), P(1, 2)>>],  \* S
  [next_index |-> 2,  tetromino_map |-> <<P(0, 0), P(1, 0), P(1, 1), P(2, 1)>>],
  [next_index |-> 5,  tetromino_map |-> <<P(1, 0), P(1, 1), P(1, 2), P(1, 3)>>],  \* I
  [next_index |-> 4,  tetromino_map |-> <<P(0, 2), P(1, 2), P(2, 2), P(3, 2)>>],
  [next_index |-> 7,  tetromino_map |-> <<P(1, 0), P(1, 1), P(1, 2), P(2, 1)>>],  \* T
  [next_index |-> 8,  tetromino_map |-> <<P(1, 0), P(0, 1), P(1, 1), P(2, 1)>>],
  [next_index |-> 9,  tetromino_map |-> <<P(1, 1), P(2, 0), P(2, 1), P(2, 2)>>],
  [next_index |-> 6,  tetromino_map |-> <<P(0, 1), P(1, 1), P(2, 1), P(1, 2)>>],
  [next_index |-> 11, tetromino_map |-> <<P(1, 0), P(2, 0), P(1, 1), P(1, 2)>>],  \* L
  [next_index |-> 12, tetromino_map |-> <<P(0, 0), P(0, 1), P(1, 1), P(2, 1)>>],
  [next_index |-> 13, tetromino_map |-> <<P(2, 0), P(2, 1), P(1, 2), P(2, 2)>>],
  [next_index |-> 10, tetromino_map |-> <<P(0, 1), P(1, 1), P(2, 1), P(2, 2)>>],
  [next_index |-> 15, tetromino_map |-> <<P(1, 0), P(1, 1), P(1, 2), P(2, 2)>>],  \* 7
  [next_index |-> 16, tetromino_map |-> <<P(0, 1), P(1, 1), P(2, 1), P(2, 0)>>],
  [next_index |-> 17, tetromino_map |-> <<P(1, 0), P(2, 0), P(2, 1), P(2, 2)>>],
  [next_index |-> 14, tetromino_map |-> <<P(0, 1), P(0, 2), P(1, 1), P(2, 1)>>],
  [next_index |-> 18, tetromino_map |-> <<P(0, 0), P(1, 0), P(1, 1), P(0, 1)>>]   \* +
  >>

TetrominoMap == [i \in Indexes |-> TetrominoList[i + 1].tetromino_map]

\* Mutant of NextIndex: the last two T shapes swap with each other.
NextIndex_Typo == [i \in Indexes |-> IF i = 9 THEN 8 ELSE TetrominoList[i + 1].next_index]

NextIndex == [i \in Indexes |-> TetrominoList[i + 1].next_index]
=============================================================================
