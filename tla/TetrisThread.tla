----------------------------- MODULE TetrisThread -----------------------------
(***************************************************************************)
(* The status of one game (class Tetris, src/src/tetris/tetris.cpp) and    *)
(* the two threads that change it: the game's own thread (RunTetris), and  *)
(* the web server's event loop, which handles one request at a time.       *)
(*                                                                         *)
(* tetris_status_ is written under tetris_mutex_ by PauseGame, ResumeGame, *)
(* StopGame and ProcessGame, but RunTetris reads and writes it, and        *)
(* GetTetrisStatus reads it, with no lock.  An action is one access to the *)
(* status that the other thread can observe; what runs under the lock      *)
(* between two such accesses is one action.  What a move or a falling      *)
(* piece does to the board is TetrisBoard's; here a fall may end the game. *)
(***************************************************************************)
EXTENDS Naturals

CONSTANT MaxWaitPauseTime   \* MAX_WAIT_PAUSE_TIME, 60 in the code

ASSUME MaxWaitAssumption == MaxWaitPauseTime \in Nat

VARIABLES
  status,   \* tetris_status_
  thread,   \* where the game thread is in RunTetris
  wait,     \* wait_timeout, a local of RunTetris
  web,      \* where the event loop is in the request about this game
  oper,     \* the operation of that request; "other" without one
  reply     \* the game_state of the last response

vars == <<status, thread, wait, web, oper, reply>>

Status == {"TETRIS_INIT", "TETRIS_START", "TETRIS_RUNING", "TETRIS_PAUSE",
           "TETRIS_GAME_OVER"}

\* "none": not created; "launch": line 216; "sample": 224; "expire": 227;
\* "step": 232; "check": 233; "sleep": 236; "notify": 238; "done": returned.
ThreadPoints == {"none", "launch", "sample", "expire", "step", "check",
                 "sleep", "notify", "done"}

\* "idle": no request; "write": tetris_mutex_ is held, the test of the
\* operation succeeded and its write is next; "answer": GetTetrisStatus is to be
\* called for the response; "send": it has been, the response is not sent yet.
WebPoints == {"idle", "write", "answer", "send"}

\* "other" stands for get_state and for the four moves, which leave the status
\* alone (with a mover, CollisionDetection is not called).
Opers == {"start", "stop", "pause", "resume", "other"}

TypeOK ==
  /\ status \in Status
  /\ thread \in ThreadPoints
  /\ wait \in 0..(MaxWaitPauseTime + 1)
  /\ web \in WebPoints
  /\ oper \in Opers
  /\ reply \in Status \cup {"none"}

Init ==
  /\ status = "TETRIS_INIT"
  /\ thread = "none"
  /\ wait = 0
  /\ web = "idle"
  /\ oper = "other"
  /\ reply = "none"
-----------------------------------------------------------------------------
(* The game thread. *)

\* Lines 216-222.  While the status is TETRIS_START only this thread writes it,
\* so the test and the write are one action.
Launch ==
  /\ thread = "launch"
  /\ status' = IF status = "TETRIS_START" THEN "TETRIS_RUNING" ELSE status
  /\ wait' = 0
  /\ thread' = "sample"
  /\ UNCHANGED <<web, oper, reply>>

\* wait_timeout++, stopped one above the limit: all values above it act alike.
Count(n) == IF n > MaxWaitPauseTime THEN n ELSE n + 1

\* Mutant of Sample: the limit is never reached.
Sample_NoLimit ==
  /\ thread = "sample"
  /\ wait' = IF status = "TETRIS_PAUSE" THEN Count(wait) ELSE 0
  /\ thread' = "step"
  /\ UNCHANGED <<status, web, oper, reply>>

\* Lines 224-231: an unlocked look at the status.
Sample ==
  /\ thread = "sample"
  /\ \/ /\ status = "TETRIS_PAUSE"
        /\ wait' = Count(wait)
        /\ thread' = IF wait' > MaxWaitPauseTime THEN "expire" ELSE "step"
     \/ /\ status # "TETRIS_PAUSE"
        /\ wait' = 0
        /\ thread' = "step"
  /\ UNCHANGED <<status, web, oper, reply>>

\* Mutant of Expire: the thread leaves its loop at once.
Expire_Breaks ==
  /\ thread = "expire"
  /\ status' = "TETRIS_GAME_OVER"
  /\ thread' = "notify"
  /\ UNCHANGED <<wait, web, oper, reply>>

\* Line 227: the write that follows the look of line 224, with no lock.
Expire ==
  /\ thread = "expire"
  /\ status' = "TETRIS_GAME_OVER"
  /\ thread' = "step"
  /\ UNCHANGED <<wait, web, oper, reply>>

\* Line 232, ProcessGame(TETRIS_NONE): waits for tetris_mutex_; if the game is
\* running the piece falls, and a landing may end the game (line 285).
Step ==
  /\ thread = "step"
  /\ web # "write"
  /\ \/ UNCHANGED status
     \/ status = "TETRIS_RUNING" /\ status' = "TETRIS_GAME_OVER"
  /\ thread' = "check"
  /\ UNCHANGED <<wait, web, oper, reply>>

\* Line 233, unlocked.
Check ==
  /\ thread = "check"
  /\ thread' = IF status = "TETRIS_GAME_OVER" THEN "notify" ELSE "sleep"
  /\ UNCHANGED <<status, wait, web, oper, reply>>

\* Line 236.
Sleep ==
  /\ thread = "sleep"
  /\ thread' = "sample"
  /\ UNCHANGED <<status, wait, web, oper, reply>>

\* Line 238, which only the break of line 234 reaches: OnTetrisGameOver takes
\* stroage_mutex_, which the event loop holds for the whole of a request, and
\* takes the game out of the storage.
Notify ==
  /\ thread = "notify"
  /\ web = "idle"
  /\ thread' = "done"
  /\ UNCHANGED <<status, wait, web, oper, reply>>
-----------------------------------------------------------------------------
(* The event loop: StartNewGame and PreProcess. *)

\* Start(), called once, by StartNewGame.
Start ==
  /\ status = "TETRIS_INIT"
  /\ status' = "TETRIS_START"
  /\ thread' = "launch"
  /\ web' = "answer"
  /\ oper' = "start"
  /\ UNCHANGED <<wait, reply>>

\* Mutant of Accepts: resume does not look at the status.
Accepts_AnyResume(op) ==
  \/ op = "stop"   /\ status \in {"TETRIS_RUNING", "TETRIS_PAUSE"}
  \/ op = "pause"  /\ status = "TETRIS_RUNING"
  \/ op = "resume"

\* Mutant of Accepts: pause does not look at the status.
Accepts_AnyPause(op) ==
  \/ op = "stop"   /\ status \in {"TETRIS_RUNING", "TETRIS_PAUSE"}
  \/ op = "pause"
  \/ op = "resume" /\ status = "TETRIS_PAUSE"

\* The tests of StopGame, PauseGame and ResumeGame.
Accepts(op) ==
  \/ op = "stop"   /\ status \in {"TETRIS_RUNING", "TETRIS_PAUSE"}
  \/ op = "pause"  /\ status = "TETRIS_RUNING"
  \/ op = "resume" /\ status = "TETRIS_PAUSE"

\* What they write.
Target(op) ==
  CASE op = "stop"   -> "TETRIS_GAME_OVER"
    [] op = "pause"  -> "TETRIS_PAUSE"
    [] op = "resume" -> "TETRIS_RUNING"

\* PreProcess finds the game (it is stored until Notify) and calls the
\* operation; a rejected one returns at once, an accepted one is about to
\* write, still under tetris_mutex_.
Request(op) ==
  /\ web = "idle"
  /\ thread \notin {"none", "done"}
  /\ web' = IF Accepts(op) THEN "write" ELSE "answer"
  /\ oper' = op
  /\ UNCHANGED <<status, thread, wait, reply>>

\* The write, and the release of tetris_mutex_.
Write ==
  /\ web = "write"
  /\ status' = Target(oper)
  /\ web' = "answer"
  /\ UNCHANGED <<thread, wait, oper, reply>>

\* GetTetrisStatus(), an argument of Response: an unlocked read.  The compiler
\* chooses the order in which the arguments are evaluated.
Answer ==
  /\ web = "answer"
  /\ reply' = status
  /\ web' = "send"
  /\ UNCHANGED <<status, thread, wait, oper>>

\* Response is called with all its arguments, and stroage_mutex_ is released.
Send ==
  /\ web = "send"
  /\ web' = "idle"
  /\ oper' = "other"
  /\ UNCHANGED <<status, thread, wait, reply>>
-----------------------------------------------------------------------------
GameThread == Launch \/ Sample \/ Expire \/ Step \/ Check \/ Sleep \/ Notify

EventLoop ==
  \/ Start
  \/ \E op \in Opers \ {"start"} : Request(op)
  \/ Write
  \/ Answer
  \/ Send

\* A game that is over, reported and answered for is gone; nothing happens to
\* it any more.
Gone == thread = "done" /\ web = "idle" /\ UNCHANGED vars

Next == GameThread \/ EventLoop \/ Gone

Spec == Init /\ [][Next]_vars

(***************************************************************************)
(* The game thread is scheduled, a request that was taken up is finished,  *)
(* and a thread that keeps asking for a mutex the event loop keeps         *)
(* releasing gets it in the end (Step: tetris_mutex_, Notify:              *)
(* stroage_mutex_; the event loop spends its time in mg_mgr_poll, outside  *)
(* both).  Nothing obliges a client to start a game or to send a request.  *)
(***************************************************************************)
Fairness ==
  /\ WF_vars(Launch) /\ WF_vars(Sample) /\ WF_vars(Expire)
  /\ WF_vars(Check) /\ WF_vars(Sleep)
  /\ SF_vars(Step) /\ SF_vars(Notify)
  /\ WF_vars(Write) /\ WF_vars(Answer) /\ WF_vars(Send)

FairSpec == Spec /\ Fairness
-----------------------------------------------------------------------------
\* When the game thread has left its loop the game is over, whatever request
\* was in flight: RunTetris leaves on an unlocked look at a status that a
\* request may be about to overwrite, and nobody runs the loop again.
ExitMeansOver == thread \in {"notify", "done"} => status = "TETRIS_GAME_OVER"

\* A client that was told game_over was told the truth for good, although
\* GetTetrisStatus reads the status without the mutex.
OverReplyIsFinal ==
  reply = "TETRIS_GAME_OVER" => status = "TETRIS_GAME_OVER"

\* No game stays paused for ever: either somebody resumes it or RunTetris ends
\* it, however often clients pause and resume it.
NeverStuckPaused == []<>(status # "TETRIS_PAUSE")

(***************************************************************************)
(* The abstract game.  Expire may write TETRIS_GAME_OVER while an accepted *)
(* request is about to overwrite it (that request holds tetris_mutex_,     *)
(* Expire does not); the game has not ended then, unless the request is a  *)
(* stop, and its phase is the one in which the request was accepted.       *)
(***************************************************************************)
Overwritten == status = "TETRIS_GAME_OVER" /\ web = "write" /\ oper # "stop"

Phase ==
  IF Overwritten
  THEN IF oper = "pause" THEN "TETRIS_RUNING" ELSE "TETRIS_PAUSE"
  ELSE status

GS == INSTANCE GameStatus WITH phase <- Phase, reported <- (thread = "done")

\* RunTetris and the request handlers together implement the abstract game:
\* it ends once, never comes back, and its end is reported to the server.
ImplementsGameStatus == GS!GSSpec
-----------------------------------------------------------------------------
(* What README.md says, and the code does not do. *)

\* README.md: pausing too long is what ends a game automatically, and a resume
\* wakes the game up.  So line 227 does not end a game whose client was told, in
\* the response to its resume, that the game runs.
ResumedGoesOn ==
  [][thread = "expire" /\ thread' # "expire" =>
       ~(status = "TETRIS_RUNING" /\ web = "idle" /\ reply = "TETRIS_RUNING")]_vars
=============================================================================
