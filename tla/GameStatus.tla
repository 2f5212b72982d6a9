------------------------------ MODULE GameStatus ------------------------------
(***************************************************************************)
(* What one game promises to the rest of the server, with every lock and   *)
(* every thread abstracted away: it is started once, it runs and pauses,   *)
(* it ends exactly once, an ended game never comes back, and its end is    *)
(* reported.  TetrisThread, the game thread and the request handler of     *)
(* src/src/tetris/tetris.cpp step by step, implements this.                *)
(***************************************************************************)

VARIABLES
  phase,      \* the life of the game
  reported    \* OnTetrisGameOver was called for it

gsVars == <<phase, reported>>

Phases == {"TETRIS_INIT", "TETRIS_START", "TETRIS_RUNING", "TETRIS_PAUSE",
           "TETRIS_GAME_OVER"}

GSTypeOK == phase \in Phases /\ reported \in BOOLEAN

GSInit == phase = "TETRIS_INIT" /\ reported = FALSE

Moves(from, to) ==
  /\ phase \in from
  /\ phase' = to
  /\ UNCHANGED reported

Begin  == Moves({"TETRIS_INIT"}, "TETRIS_START")
Launch == Moves({"TETRIS_START"}, "TETRIS_RUNING")
Pause  == Moves({"TETRIS_RUNING"}, "TETRIS_PAUSE")
Resume == Moves({"TETRIS_PAUSE"}, "TETRIS_RUNING")
End    == Moves({"TETRIS_RUNING", "TETRIS_PAUSE"}, "TETRIS_GAME_OVER")

Report ==
  /\ phase = "TETRIS_GAME_OVER"
  /\ ~reported
  /\ reported' = TRUE
  /\ UNCHANGED phase

GSNext == Begin \/ Launch \/ Pause \/ Resume \/ End \/ Report

GSSafety == GSInit /\ [][GSNext]_gsVars

GSSpec == GSSafety /\ WF_gsVars(Launch) /\ WF_gsVars(Report)
=============================================================================
