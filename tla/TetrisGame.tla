------------------------------ MODULE TetrisGame ------------------------------
(***************************************************************************)
(* One game as its player sees it: TetrisThread with the data a response   *)
(* is put together from.  GetTetrisStatus takes no lock; tetris_map,       *)
(* TetrominoIndex and score each take tetris_mutex_ for themselves         *)
(* (src/src/tetris/tetris.cpp), so the game goes on between them, and the  *)
(* compiler chooses the order in which PreProcess evaluates them.          *)
(*                                                                         *)
(* A board is a number: how often the shown map has changed; next is how   *)
(* many pieces were taken.  What a fall does to cells is TetrisBoard's.    *)
(***************************************************************************)
EXTENDS TetrisThread

CONSTANTS
  Points,       \* what a landing may score (ToScore)
  LinePieces,   \* a line takes at least so many pieces, 3 in the code
  StackPieces,  \* and a stack up to the new pieces at least so many, 5 in the code
  MaxChanges    \* bound: the changes of the map

ASSUME PointsAssumption == Points \subseteq Nat
ASSUME PiecesAssumption == {LinePieces, StackPieces, MaxChanges} \subseteq Nat

VARIABLES
  game,     \* active_map_, the pieces taken, score_
  active,   \* whether there is an active_tetromino_
  got,      \* the parts of the response that were read
  answer,   \* their values
  shown     \* the last response the player got

dataVars == <<game, active, got, answer, shown>>

gameVars == <<vars, dataVars>>

Parts == {"map", "next", "score"}

Data == [map : Nat, next : Nat, score : Nat]

NoData == [map |-> 0, next |-> 0, score |-> 0]

\* found is a status_code of 200.
Response(state, data, found) == [state |-> state, data |-> data, found |-> found]

GameTypeOK ==
  /\ TypeOK
  /\ game \in Data
  /\ active \in BOOLEAN
  /\ got \subseteq Parts
  /\ answer \in Data
  /\ shown \in [state : Status, data : Data, found : BOOLEAN]

GameInit ==
  /\ Init
  /\ game = NoData
  /\ active = FALSE
  /\ got = {}
  /\ answer = NoData
  /\ shown = Response("TETRIS_INIT", NoData, FALSE)
-----------------------------------------------------------------------------
(* The game thread. *)

\* The pieces taken when ProcessGame has seen to it that a piece is active.
Taken == IF active THEN game.next ELSE game.next + 1

\* DownTetromino fits.
Falls ==
  /\ active' = TRUE
  /\ game' = [map |-> game.map + 1, next |-> Taken, score |-> game.score]
  /\ status' = status

\* Mutant of Lands: assigns the points instead of adding them.
Lands_Assigns ==
  /\ active \/ game.next >= StackPieces
  /\ status' = "TETRIS_GAME_OVER" => Taken >= StackPieces
  /\ active' = FALSE
  /\ \E p \in Points :
       /\ p > 0 => Taken >= LinePieces
       /\ game' = [map |-> game.map + 1, next |-> Taken, score |-> p]

\* CollisionDetection: the score may grow and the game may end, if there are
\* pieces enough for a line, or for a stack that reaches row 3; under a stack of
\* that many pieces only can a new piece land before it has fallen.
Lands ==
  /\ active \/ game.next >= StackPieces
  /\ status' = "TETRIS_GAME_OVER" => Taken >= StackPieces
  /\ active' = FALSE
  /\ \E p \in Points :
       /\ p > 0 => Taken >= LinePieces
       /\ game' = [map |-> game.map + 1, next |-> Taken, score |-> game.score + p]

\* Mutant of GameStep: ProcessGame does not look at the status.
GameStep_AnyStatus ==
  /\ Step
  /\ \/ game.map < MaxChanges /\ (Falls \/ Lands)
     \/ status = "TETRIS_GAME_OVER" /\ UNCHANGED <<game, active>>
  /\ UNCHANGED <<got, answer, shown>>

\* ProcessGame(TETRIS_NONE): a game that runs falls or lands.
GameStep ==
  /\ Step
  /\ IF status = "TETRIS_RUNING"
     THEN game.map < MaxChanges /\ (Falls \/ Lands)
     ELSE UNCHANGED <<game, active>>
  /\ UNCHANGED <<got, answer, shown>>

GameThreadStep ==
  \/ GameStep
  \/ /\ Launch \/ Sample \/ Expire \/ Check \/ Sleep \/ Notify
     /\ UNCHANGED dataVars
-----------------------------------------------------------------------------
(* The event loop. *)

\* ProcessGame of a move: it fits and is shown, or it is refused.
Moves ==
  /\ status = "TETRIS_RUNING"
  /\ active' = TRUE
  /\ \E shift \in {0, 1} :
       /\ game.map + shift <= MaxChanges
       /\ game' = [map |-> game.map + shift, next |-> Taken, score |-> game.score]

GameRequest(op) ==
  /\ Request(op)
  /\ \/ op = "other" /\ Moves
     \/ UNCHANGED <<game, active>>
  /\ UNCHANGED <<got, answer, shown>>

\* tetris_map(), TetrominoIndex() or score(), before or after GetTetrisStatus.
Read(part) ==
  /\ web \in {"answer", "send"}
  /\ part \notin got
  /\ got' = got \cup {part}
  /\ answer' = [answer EXCEPT ![part] = game[part]]
  /\ UNCHANGED <<vars, game, active, shown>>

\* The response to a request for a game that was found.
Respond ==
  /\ Send
  /\ got = Parts
  /\ shown' = Response(reply, answer, TRUE)
  /\ got' = {}
  /\ answer' = NoData
  /\ UNCHANGED <<game, active>>

\* PreProcess does not find the game: game_over, with no map and a score of 0.
Missing ==
  /\ web = "idle"
  /\ thread = "done"
  /\ shown' = Response("TETRIS_GAME_OVER", NoData, FALSE)
  /\ UNCHANGED <<vars, game, active, got, answer>>

GameEventLoop ==
  \/ (Start \/ Write \/ Answer) /\ UNCHANGED dataVars
  \/ \E op \in Opers \ {"start"} : GameRequest(op)
  \/ \E part \in Parts : Read(part)
  \/ Respond
  \/ Missing
-----------------------------------------------------------------------------
GameNext == GameThreadStep \/ GameEventLoop

GameSpec == GameInit /\ [][GameNext]_gameVars

(***************************************************************************)
(* As TetrisThread's; a response is completed, and the page that shows the *)
(* game asks for it every 500 ms.  A step that MaxChanges forbids is not   *)
(* obliged to happen.                                                      *)
(***************************************************************************)
GameFairness ==
  /\ WF_gameVars(Launch /\ UNCHANGED dataVars)
  /\ WF_gameVars(Sample /\ UNCHANGED dataVars)
  /\ WF_gameVars(Expire /\ UNCHANGED dataVars)
  /\ WF_gameVars(Check /\ UNCHANGED dataVars)
  /\ WF_gameVars(Sleep /\ UNCHANGED dataVars)
  /\ SF_gameVars(GameStep)
  /\ SF_gameVars(Notify /\ UNCHANGED dataVars)
  /\ WF_gameVars(Write /\ UNCHANGED dataVars)
  /\ WF_gameVars(Answer /\ UNCHANGED dataVars)
  /\ \A part \in Parts : WF_gameVars(Read(part))
  /\ WF_gameVars(Respond)
  /\ WF_gameVars(Missing)

FairGameSpec == GameSpec /\ GameFairness

\* Responses that are sent within the second for which RunTetris sleeps.
PromptGameSpec ==
  GameInit /\ [][GameNext /\ (Sleep => web = "idle")]_gameVars
-----------------------------------------------------------------------------
\* A player who has paused sees the game as it stands, although map, next piece
\* and score were read under three separate locks, and nothing moves any more
\* until the next request, not even if the pause ends the game meanwhile.
PausedReplyIsExact ==
  web = "idle" /\ shown.state = "TETRIS_PAUSE" => shown.data = game

\* Whatever the order of the reads, no response shows an older board, an older
\* next piece or a lower score than a response before it.
RepliesMoveOn ==
  [][shown'.found => \A part \in Parts : shown'.data[part] >= shown.data[part]]_gameVars

\* Once a game has ended, by a landing, a stop or a pause that was too long, a page
\* that keeps asking shows its end some time, and from then on for good: the game
\* thread notices an end that another thread has written, in whatever state it
\* finds the game, and the responses under way do not cover it up.
EndIsTold ==
  status = "TETRIS_GAME_OVER" /\ web = "idle" ~>
    [](shown.state = "TETRIS_GAME_OVER")

\* README.md: score is the score of the game.  So a response that says the game
\* is over shows the score it ended with.
OverReplyShowsFinalScore ==
  web = "idle" /\ shown.found /\ shown.state = "TETRIS_GAME_OVER" =>
    shown.data.score = game.score
=============================================================================
