---------------------------- MODULE MCTetrisServer ----------------------------
(***************************************************************************)
(* TetrisServer for TLC: the games are interchangeable.                    *)
(***************************************************************************)
EXTENDS TetrisServer, TLC

Symmetry == Permutations(Games)
=============================================================================
