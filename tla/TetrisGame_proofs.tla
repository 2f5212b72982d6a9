--------------------------- MODULE TetrisGame_proofs ---------------------------
(***************************************************************************)
(* For every pause limit, every scoring and every bound.  First the status *)
(* of a game: the types, the two safety invariants of TetrisThread, and    *)
(* that its steps are steps of GameStatus.  Then what a response shows of  *)
(* the game, although its parts are read one by one.                       *)
(***************************************************************************)
EXTENDS TetrisGame, TLAPS
-----------------------------------------------------------------------------
(* The status of a game, and its thread. *)

\* How far the game thread is tells whether the game has begun.
Began ==
  /\ thread = "none" <=> status = "TETRIS_INIT"
  /\ thread = "launch" <=> status = "TETRIS_START"

\* An accepted operation still finds the status it was accepted in, unless the
\* game thread has expired the pause meanwhile; then that thread is waiting for
\* the mutex which the operation holds, and has not looked at the status again.
PendingWrite ==
  web = "write" =>
    /\ oper \in {"stop", "pause", "resume"}
    /\ thread \notin {"none", "launch", "notify", "done"}
    /\ \/ status = "TETRIS_GAME_OVER" /\ thread = "step"
       \/ oper = "stop"   /\ status \in {"TETRIS_RUNING", "TETRIS_PAUSE"}
       \/ oper = "pause"  /\ status = "TETRIS_RUNING"
       \/ oper = "resume" /\ status = "TETRIS_PAUSE"
    /\ reply # "TETRIS_GAME_OVER"

IInv == TypeOK /\ Began /\ PendingWrite /\ ExitMeansOver /\ OverReplyIsFinal

\* The initial state satisfies the inductive invariant.
LEMMA InitIInv == Init => IInv
BY MaxWaitAssumption DEF Init, IInv, TypeOK, Status, ThreadPoints, WebPoints,
  Opers, Began, PendingWrite, ExitMeansOver, OverReplyIsFinal

\* Every step keeps the types.
LEMMA NextTypeOK == TypeOK /\ PendingWrite /\ [Next]_vars => TypeOK'
<1> SUFFICES ASSUME TypeOK, PendingWrite, [Next]_vars PROVE TypeOK'
  OBVIOUS
<1> USE MaxWaitAssumption DEF TypeOK, Status, ThreadPoints, WebPoints, Opers
<1>1. CASE Launch  BY <1>1 DEF Launch
<1>2. CASE Sample  BY <1>2 DEF Sample, Count
<1>3. CASE Expire  BY <1>3 DEF Expire
<1>4. CASE Step    BY <1>4 DEF Step
<1>5. CASE Check   BY <1>5 DEF Check
<1>6. CASE Sleep   BY <1>6 DEF Sleep
<1>7. CASE Notify  BY <1>7 DEF Notify
<1>8. CASE Start   BY <1>8 DEF Start
<1>9. ASSUME NEW op \in Opers \ {"start"}, Request(op) PROVE TypeOK'
  BY <1>9 DEF Request
<1>10. CASE Write  BY <1>10 DEF Write, Target, PendingWrite
<1>11. CASE Answer BY <1>11 DEF Answer
<1>12. CASE Send   BY <1>12 DEF Send
<1>13. CASE UNCHANGED vars BY <1>13 DEF vars
<1> QED
  BY <1>1, <1>2, <1>3, <1>4, <1>5, <1>6, <1>7, <1>8, <1>9, <1>10, <1>11, <1>12,
     <1>13
  DEF Next, GameThread, EventLoop, Gone

\* Every step keeps the inductive invariant.
LEMMA NextIInv == IInv /\ [Next]_vars => IInv'
<1> SUFFICES ASSUME IInv, [Next]_vars PROVE IInv'
  OBVIOUS
<1>0. TypeOK'
  BY NextTypeOK DEF IInv
<1> USE <1>0 DEF IInv, TypeOK, Status, ThreadPoints, WebPoints, Opers,
  Began, PendingWrite, ExitMeansOver, OverReplyIsFinal
<1>1. CASE Launch  BY <1>1 DEF Launch
<1>2. CASE Sample  BY <1>2 DEF Sample, Count
<1>3. CASE Expire  BY <1>3 DEF Expire
<1>4. CASE Step    BY <1>4 DEF Step
<1>5. CASE Check   BY <1>5 DEF Check
<1>6. CASE Sleep   BY <1>6 DEF Sleep
<1>7. CASE Notify  BY <1>7 DEF Notify
<1>8. CASE Start   BY <1>8 DEF Start
<1>9. ASSUME NEW op \in Opers \ {"start"}, Request(op) PROVE IInv'
  BY <1>9 DEF Request, Accepts
<1>10. CASE Write  BY <1>10 DEF Write, Target, PendingWrite
<1>11. CASE Answer BY <1>11 DEF Answer
<1>12. CASE Send   BY <1>12 DEF Send
<1>13. CASE UNCHANGED vars BY <1>13 DEF vars
<1> QED
  BY <1>1, <1>2, <1>3, <1>4, <1>5, <1>6, <1>7, <1>8, <1>9, <1>10, <1>11, <1>12,
     <1>13
  DEF Next, GameThread, EventLoop, Gone

\* The inductive invariant holds in every reachable state.
LEMMA Invariant == Spec => []IInv
BY InitIInv, NextIInv, PTL DEF Spec

\* The variables of RunTetris and of the request handler keep their types;
\* wait_timeout, in particular, never passes the limit by more than one.
THEOREM TypeCorrect == Spec => []TypeOK
<1>1. IInv => TypeOK
  BY DEF IInv
<1> QED
  BY <1>1, Invariant, PTL

\* RunTetris leaves its loop only when the game is over for good.
THEOREM ExitIsFinal == Spec => []ExitMeansOver
<1>1. IInv => ExitMeansOver
  BY DEF IInv
<1> QED
  BY <1>1, Invariant, PTL

\* A response with game_over is never taken back.
THEOREM OverRepliesAreFinal == Spec => []OverReplyIsFinal
<1>1. IInv => OverReplyIsFinal
  BY DEF IInv
<1> QED
  BY <1>1, Invariant, PTL

\* A step of the two threads is a step of the abstract game or leaves it alone.
LEMMA StepRefines == IInv /\ IInv' /\ [Next]_vars => [GS!GSNext]_(GS!gsVars)
<1> SUFFICES ASSUME IInv, IInv', [Next]_vars PROVE [GS!GSNext]_(GS!gsVars)
  OBVIOUS
<1> USE DEF IInv, TypeOK, Status, ThreadPoints, WebPoints, Opers,
  Began, PendingWrite, ExitMeansOver, Phase, Overwritten,
  GS!gsVars, GS!GSNext, GS!Moves
<1>1. CASE Launch  BY <1>1 DEF Launch, GS!Launch
<1>2. CASE Sample  BY <1>2 DEF Sample
<1>3. CASE Expire  BY <1>3 DEF Expire, GS!End
<1>4. CASE Step    BY <1>4 DEF Step, GS!End
<1>5. CASE Check   BY <1>5 DEF Check
<1>6. CASE Sleep   BY <1>6 DEF Sleep
<1>7. CASE Notify  BY <1>7 DEF Notify, GS!Report
<1>8. CASE Start   BY <1>8 DEF Start, GS!Begin
<1>9. ASSUME NEW op \in Opers \ {"start"}, Request(op)
      PROVE  [GS!GSNext]_(GS!gsVars)
  BY <1>9 DEF Request, Accepts
<1>10. CASE Write  BY <1>10 DEF Write, Target, GS!End, GS!Pause, GS!Resume
<1>11. CASE Answer BY <1>11 DEF Answer
<1>12. CASE Send   BY <1>12 DEF Send
<1>13. CASE UNCHANGED vars BY <1>13 DEF vars
<1> QED
  BY <1>1, <1>2, <1>3, <1>4, <1>5, <1>6, <1>7, <1>8, <1>9, <1>10, <1>11, <1>12,
     <1>13
  DEF Next, GameThread, EventLoop, Gone

\* RunTetris and the request handlers implement the safety of GameStatus: a game
\* ends at most once, never comes back and is reported only when it is over.
THEOREM Refinement == Spec => GS!GSSafety
<1>1. Init => GS!GSInit
  BY DEF Init, GS!GSInit, Phase, Overwritten
<1> QED
  BY <1>1, Invariant, StepRefines, PTL DEF Spec, GS!GSSafety
-----------------------------------------------------------------------------
(* Responses about a game. *)

\* Parts are read for a response only, and only of a game that was started.
ReadForResponse ==
  /\ web \in {"idle", "write"} => got = {}
  /\ web = "send" => reply # "none"
  /\ status = "TETRIS_INIT" => web = "idle"

\* A part that was read is no older than the last response and no newer than
\* the game.
InOrder ==
  \A part \in Parts :
    /\ shown.data[part] <= game[part]
    /\ part \in got => /\ shown.data[part] <= answer[part]
                       /\ answer[part] <= game[part]

\* Only the event loop pauses a game, and it reads afterwards: what it reads of
\* a paused game stays true as long as nobody resumes it, which is its own work.
PausedParts ==
  /\ web = "answer" /\ status = "TETRIS_PAUSE" =>
       \A part \in got : answer[part] = game[part]
  /\ web = "send" /\ reply = "TETRIS_PAUSE" =>
       /\ status \in {"TETRIS_PAUSE", "TETRIS_GAME_OVER"}
       /\ \A part \in got : answer[part] = game[part]
  /\ web = "idle" /\ shown.state = "TETRIS_PAUSE" =>
       status \in {"TETRIS_PAUSE", "TETRIS_GAME_OVER"}

GInv ==
  /\ IInv
  /\ GameTypeOK
  /\ ReadForResponse
  /\ InOrder
  /\ PausedParts
  /\ PausedReplyIsExact

\* The data and the responses add nothing to what the two threads may do.
LEMMA GameStepIsThreadStep == [GameNext]_gameVars => [Next]_vars
BY DEF GameNext, GameThreadStep, GameEventLoop, GameStep, GameRequest, Read, Respond,
  Missing, gameVars, Next, GameThread, EventLoop

\* TetrisGame implements TetrisThread, so what holds there holds here.
THEOREM GameImplementsThread == GameSpec => Spec
<1>1. GameInit => Init
  BY DEF GameInit
<1> QED
  BY <1>1, GameStepIsThreadStep, PTL DEF GameSpec, Spec

\* The initial state satisfies the inductive invariant.
LEMMA InitGInv == GameInit => GInv
<1> SUFFICES ASSUME GameInit PROVE GInv
  OBVIOUS
<1> USE DEF GameInit, NoData, Data, Parts, Response
<1>1. IInv
  BY InitIInv
<1>2. GameTypeOK
  BY <1>1 DEF GameTypeOK, IInv, Status
<1> QED
  BY <1>1, <1>2 DEF GInv, ReadForResponse, InOrder, PausedParts, PausedReplyIsExact, Init

\* Taking a piece counts up.
LEMMA TakenGrows == ASSUME GameTypeOK PROVE Taken \in Nat /\ game.next <= Taken
<1>1. game.next \in Nat
  BY DEF GameTypeOK, Data
<1>2. CASE active
  BY <1>1, <1>2 DEF Taken
<1>3. CASE ~active
  BY <1>1, <1>3 DEF Taken
<1> QED
  BY <1>2, <1>3

\* The parts are numbers.
LEMMA PartsAreNumbers == ASSUME GameTypeOK PROVE \A part \in Parts : game[part] \in Nat
BY DEF GameTypeOK, Data, Parts

\* A fall or a landing changes the data upwards, and happens in a running game.
LEMMA GameStepGInv == ASSUME GInv, GameStep, IInv' PROVE GInv'
<1> USE DEF GInv, GameTypeOK, Data, Parts
<1>0. Taken \in Nat /\ game.next <= Taken
  BY TakenGrows
<1>1. /\ game' \in Data /\ active' \in BOOLEAN
      /\ \A part \in Parts : game[part] <= game'[part]
      /\ status # "TETRIS_RUNING" => game' = game
  <2>1. CASE status = "TETRIS_RUNING" /\ Falls
    <3>1. /\ active' = TRUE
          /\ game' = [map |-> game.map + 1, next |-> Taken, score |-> game.score]
      BY <2>1 DEF Falls
    <3> QED
      BY <1>0, <2>1, <3>1
  <2>2. CASE status = "TETRIS_RUNING" /\ Lands
    <3>1. PICK p \in Points :
            game' = [map |-> game.map + 1, next |-> Taken, score |-> game.score + p]
      BY <2>2 DEF Lands
    <3>2. p \in Nat /\ active' = FALSE
      BY <2>2, PointsAssumption DEF Lands
    <3>3. game.map \in Nat /\ game.score \in Nat
      OBVIOUS
    <3>4. game' \in Data /\ game'.map = game.map + 1 /\ game'.next = Taken
      BY <1>0, <3>1, <3>2, <3>3
    <3>5. game'.score = game.score + p
      BY <3>1
    <3>6. \A part \in Parts : game[part] <= game'[part]
      BY <1>0, <3>2, <3>3, <3>4, <3>5
    <3> QED
      BY <2>2, <3>2, <3>4, <3>6
  <2>3. CASE status # "TETRIS_RUNING" /\ UNCHANGED <<game, active>>
    <3>1. \A part \in Parts : game[part] \in Nat
      BY PartsAreNumbers
    <3> QED
      BY <2>3, <3>1
  <2> QED
    BY <2>1, <2>2, <2>3 DEF GameStep
<1>2. /\ UNCHANGED <<web, reply, got, answer, shown>>
      /\ status' = status \/ (status = "TETRIS_RUNING" /\ status' = "TETRIS_GAME_OVER")
  BY DEF GameStep, Step
<1>3. GameTypeOK'
  BY <1>1, <1>2 DEF IInv
<1>4. InOrder'
  BY <1>1, <1>2 DEF InOrder
<1> QED
  BY <1>1, <1>2, <1>3, <1>4 DEF ReadForResponse, PausedParts, PausedReplyIsExact

\* The other steps of the game thread leave the data alone and pause nothing.
LEMMA ThreadGInv ==
  ASSUME GInv, IInv', UNCHANGED dataVars,
         Launch \/ Sample \/ Expire \/ Check \/ Sleep \/ Notify
  PROVE  GInv'
<1>1. /\ UNCHANGED <<web, reply>>
      /\ \/ status' = status
         \/ status = "TETRIS_START" /\ status' = "TETRIS_RUNING"
         \/ status' = "TETRIS_GAME_OVER"
  BY DEF Launch, Sample, Expire, Check, Sleep, Notify
<1> QED
  BY <1>1 DEF GInv, IInv, GameTypeOK, dataVars, ReadForResponse, InOrder, PausedParts,
  PausedReplyIsExact

\* A request finds no part read, and its move changes the data upwards.
LEMMA RequestGInv ==
  ASSUME GInv, IInv', NEW op \in Opers \ {"start"}, GameRequest(op) PROVE GInv'
<1> USE DEF GInv, GameTypeOK, Data, Parts
<1>0. /\ Taken \in Nat /\ game.next <= Taken
      /\ \A part \in Parts : game[part] \in Nat
  BY TakenGrows, PartsAreNumbers
<1>1. game' \in Data /\ active' \in BOOLEAN /\ \A part \in Parts : game[part] <= game'[part]
  <2>1. CASE Moves
    BY <1>0, <2>1 DEF Moves
  <2>2. CASE UNCHANGED <<game, active>>
    BY <1>0, <2>2
  <2> QED
    BY <2>1, <2>2 DEF GameRequest
<1>2. /\ UNCHANGED <<status, got, answer, shown>> /\ got = {}
      /\ web' \in {"write", "answer"} /\ status # "TETRIS_INIT"
  BY DEF GameRequest, Request, ReadForResponse, IInv, Began
<1>3. GameTypeOK'
  BY <1>1, <1>2 DEF IInv
<1>4. InOrder'
  BY <1>1, <1>2 DEF InOrder
<1> QED
  BY <1>2, <1>3, <1>4 DEF ReadForResponse, PausedParts, PausedReplyIsExact

\* Start, a write and the read of the status leave the data alone; a game is
\* paused only while nothing was read.
LEMMA StatusGInv ==
  ASSUME GInv, IInv', UNCHANGED dataVars, Start \/ Write \/ Answer PROVE GInv'
<1> USE DEF GInv, GameTypeOK, dataVars
<1>1. GameTypeOK' /\ InOrder'
  BY DEF IInv, InOrder
<1>2. CASE Start \/ Write
  <2>1. got = {} /\ web' = "answer"
    BY <1>2 DEF Write, Start, ReadForResponse, IInv, Began, TypeOK, PendingWrite,
    ExitMeansOver, WebPoints, PausedParts
  <2>2. status' # "TETRIS_INIT"
    BY <1>2 DEF Write, Start, Target, IInv, PendingWrite
  <2> QED
    BY <1>1, <2>1, <2>2 DEF ReadForResponse, PausedParts, PausedReplyIsExact
<1>3. CASE Answer
  <2>1. status # "none"
    BY DEF IInv, TypeOK, Status
  <2> QED
    BY <1>1, <1>3, <2>1 DEF Answer, ReadForResponse, PausedParts, PausedReplyIsExact
<1> QED
  BY <1>2, <1>3

\* A part read now is the game's.
LEMMA ReadGInv ==
  ASSUME GInv, IInv', NEW part \in Parts, Read(part) PROVE GInv'
<1> USE DEF GInv, GameTypeOK, Data, Parts, Read, vars
<1>1. GameTypeOK'
  BY DEF IInv
<1>2. /\ UNCHANGED <<web, status, reply, game, shown>>
      /\ web \in {"answer", "send"} /\ got' = got \cup {part}
      /\ answer' = [answer EXCEPT ![part] = game[part]]
  OBVIOUS
<1>3. InOrder'
  BY <1>2 DEF InOrder
<1> QED
  BY <1>1, <1>2, <1>3 DEF ReadForResponse, PausedParts, PausedReplyIsExact

\* A response takes the parts over, all of which were read.
LEMMA RespondGInv == ASSUME GInv, IInv', Respond \/ Missing PROVE GInv'
<1> USE DEF GInv, GameTypeOK, Data, Parts, Response, NoData
<1>1. CASE Respond
  <2>1. /\ web = "send" /\ web' = "idle" /\ UNCHANGED <<status, reply, game, active>>
        /\ got = Parts /\ got' = {}
        /\ shown' = Response(reply, answer, TRUE) /\ answer' = NoData
    BY <1>1 DEF Respond, Send
  <2>2. reply # "none" => reply \in Status
    BY DEF IInv, TypeOK
  <2>3. reply # "none"
    BY <2>1 DEF ReadForResponse
  <2>4. GameTypeOK'
    BY <2>1, <2>2, <2>3 DEF IInv
  <2>5. InOrder'
    BY <2>1 DEF InOrder
  <2>6. reply = "TETRIS_PAUSE" => answer = game
    <3>1. reply = "TETRIS_PAUSE" => \A part \in Parts : answer[part] = game[part]
      BY <2>1 DEF PausedParts
    <3> QED
      BY <3>1
  <2> QED
    BY <2>1, <2>4, <2>5, <2>6 DEF ReadForResponse, PausedParts, PausedReplyIsExact
<1>2. CASE Missing
  BY <1>2 DEF Missing, IInv, Status, vars, ReadForResponse, InOrder, PausedParts,
  PausedReplyIsExact
<1> QED
  BY <1>1, <1>2

\* Every step keeps the inductive invariant.
LEMMA NextGInv == GInv /\ [GameNext]_gameVars => GInv'
<1> SUFFICES ASSUME GInv, [GameNext]_gameVars PROVE GInv'
  OBVIOUS
<1>0. IInv'
  BY GameStepIsThreadStep, NextIInv DEF GInv
<1>1. CASE GameThreadStep
  BY <1>0, <1>1, GameStepGInv, ThreadGInv DEF GameThreadStep
<1>2. CASE GameEventLoop
  BY <1>0, <1>2, StatusGInv, RequestGInv, ReadGInv, RespondGInv DEF GameEventLoop
<1>3. CASE UNCHANGED gameVars
  BY <1>0, <1>3 DEF gameVars, vars, dataVars, GInv, IInv, GameTypeOK, ReadForResponse,
  InOrder, PausedParts, PausedReplyIsExact
<1> QED
  BY <1>1, <1>2, <1>3 DEF GameNext

\* The inductive invariant holds in every reachable state.
LEMMA GameInvariant == GameSpec => []GInv
BY InitGInv, NextGInv, PTL DEF GameSpec

\* The data of a game and of its responses keep their types.
THEOREM GameTypeCorrect == GameSpec => []GameTypeOK
<1>1. GInv => GameTypeOK
  BY DEF GInv
<1> QED
  BY <1>1, GameInvariant, PTL

\* A response that says pause shows the game as it stands, whatever the order in
\* which its parts were read.
THEOREM PausedRepliesAreExact == GameSpec => []PausedReplyIsExact
<1>1. GInv => PausedReplyIsExact
  BY DEF GInv
<1> QED
  BY <1>1, GameInvariant, PTL

\* A response never takes the player back to an older map or a lower score.
THEOREM ResponsesMoveOn == GameSpec => RepliesMoveOn
<1> DEFINE Step1 == shown'.found => \A part \in Parts : shown'.data[part] >= shown.data[part]
<1>1. GInv /\ [GameNext]_gameVars => [Step1]_gameVars
  <2> SUFFICES ASSUME GInv, GameNext PROVE Step1
    BY DEF gameVars
  <2>1. GameTypeOK /\ GameTypeOK' /\ InOrder
    BY NextGInv DEF GInv
  <2>2. \/ shown' = shown
        \/ Respond
        \/ Missing
    BY DEF GameNext, GameThreadStep, GameEventLoop, GameStep, GameRequest, Read, dataVars
  <2>3. CASE shown' = shown
    BY <2>1, <2>3 DEF GameTypeOK, Data, Parts
  <2>4. CASE Respond
    BY <2>1, <2>4 DEF Respond, Response, InOrder, GameTypeOK, Data, Parts
  <2>5. CASE Missing
    BY <2>5 DEF Missing, Response
  <2> QED
    BY <2>2, <2>3, <2>4, <2>5
<1> QED
  BY <1>1, GameInvariant, PTL DEF GameSpec, RepliesMoveOn

\* What TetrisThread proves of the end of a game holds with its data.
THEOREM EndIsFinalForPlayer == GameSpec => [](ExitMeansOver /\ OverReplyIsFinal)
<1>1. IInv => ExitMeansOver /\ OverReplyIsFinal
  BY DEF IInv
<1> QED
  BY <1>1, GameImplementsThread, Invariant, PTL

\* The game with its responses implements the abstract game: by what is proved of
\* its thread, it starts once, ends once and for all, and reports its end once.
THEOREM GameImplementsStatus == GameSpec => GS!GSSafety
BY GameImplementsThread, Refinement, PTL
=============================================================================
