----------------------------- MODULE TetrisServer -----------------------------
(***************************************************************************)
(* The server over any number of processes: TetrisWebServer with the       *)
(* RecordManager it calls, from StartTetrisWebServer to the end of the     *)
(* process, wherever that comes, and on to the next start.  A process has  *)
(* the games in its memory; the database has the rows.                     *)
(*                                                                         *)
(* The variables of TetrisWebServer describe one process.  Its records     *)
(* counts the calls of InsertRecord for a game; rows, here, what came of   *)
(* them.  The event loop makes all the calls of RecordManager, so a call   *)
(* is one action with the step of the event loop that makes it.  Nobody    *)
(* looks at the result of a call, InitRecordManager included.              *)
(***************************************************************************)
EXTENDS TetrisWebServer

CONSTANT MaxCalls   \* bound: the calls of InsertRecord, and of GetRankRecords, of a process

VARIABLES
  file, proc, fault, insert, select, inserts, ranks,   \* those of RecordManager
  rows,      \* how many rows the database has of each game
  earlier    \* the games of the processes before this one

DB == INSTANCE RecordManager

dbVars == <<file, proc, fault, insert, select, inserts, ranks>>
serverVars == <<vars, dbVars, rows, earlier>>

\* A process that is starting, and one that is not there, has no games.
ServerTypeOK ==
  /\ TypeOK
  /\ DB!TypeOK
  /\ rows \in [Games -> Nat]
  /\ earlier \subseteq Games \ Started
  /\ proc # "up" => Init

ServerInit ==
  /\ Init
  /\ DB!Init
  /\ rows = [g \in Games |-> 0]
  /\ earlier = {}
-----------------------------------------------------------------------------
\* Mutant of StartTetrisWebServer: a start begins with a new table.
StartTetrisWebServer_Recreates ==
  /\ DB!Boot \/ DB!CreateTable \/ DB!Open \/ DB!PrepareInsert \/ DB!PrepareSelect
  /\ rows' = [g \in Games |-> 0]
  /\ UNCHANGED <<vars, earlier>>

\* No request is served before InitRecordManager has returned.
StartTetrisWebServer ==
  /\ DB!Boot \/ DB!CreateTable \/ DB!Open \/ DB!PrepareInsert \/ DB!PrepareSelect
  /\ UNCHANGED <<vars, rows, earlier>>

\* The steps of the event loop and of the games that have no part in the database.
Serve ==
  /\ proc = "up"
  /\ \/ \E g \in Games \ earlier, t \in Tokens : StartNewGame(g, t)
     \/ \E t \in Tokens : StopGame(t)
     \/ \E g \in Games : GameThread(g)
     \/ PollBegin \/ PollEnd \/ PollClear
     \/ ListGoesOn
  /\ UNCHANGED <<dbVars, rows, earlier>>

\* One game of the poll: there is a row if the statement ran to its end.
RecordGame ==
  /\ PollInsert
  /\ DB!InsertRecord
  /\ rows' = [rows EXCEPT ![preRemove[idx]] =
                IF inserts'[Len(inserts')] = "done" THEN @ + 1 ELSE @]
  /\ UNCHANGED earlier

\* ProcessGetOnlineList reads the rank list first, which it does not use; with an
\* empty storage that is all it does.
ProcessGetOnlineList ==
  /\ DB!GetRankRecords
  /\ ListBegin
  /\ UNCHANGED <<rows, earlier>>

ProcessGetRankList ==
  /\ loop = "idle"
  /\ DB!GetRankRecords
  /\ UNCHANGED <<vars, rows, earlier>>

\* The variables of TetrisWebServer, apart from the queue, as a new process has them.
Forget ==
  /\ storage' = [t \in Tokens |-> NoGame]
  /\ tokenOf' = [g \in Games |-> AnyToken]
  /\ status' = [g \in Games |-> "none"]
  /\ thread' = [g \in Games |-> "none"]
  /\ holder' = NoGame
  /\ loop' = "idle"
  /\ idx' = 1
  /\ cursor' = AnyToken
  /\ records' = [g \in Games |-> 0]

\* Mutant of Crash: the next process takes up the queue of this one.
Crash_KeepsQueue ==
  /\ DB!Crash
  /\ Forget
  /\ earlier' = earlier \cup Started
  /\ UNCHANGED <<preRemove, rows>>

\* The process ends, anywhere: its memory is gone.
Crash ==
  /\ DB!Crash
  /\ Forget
  /\ preRemove' = <<>>
  /\ earlier' = earlier \cup Started
  /\ UNCHANGED rows

ServerNext ==
  \/ StartTetrisWebServer
  \/ Serve
  \/ RecordGame
  \/ ProcessGetOnlineList
  \/ ProcessGetRankList
  \/ Crash

ServerSpec == ServerInit /\ [][ServerNext]_serverVars
-----------------------------------------------------------------------------
\* However polls, failing calls and starts of the process come after each other, no
\* game is in the database twice, and none is there that InsertRecord was not called
\* for: in this process, or in an earlier one.
RowsAtMostOnce ==
  \A g \in Games :
    /\ rows[g] <= 1
    /\ rows[g] = 1 => g \in earlier \/ records[g] = 1

Healthy == proc = "up" /\ file = "table" /\ ~fault

\* A process that found its table, and in which no call failed, has a row for each
\* game its poll has come to, whatever happened to the processes before it.
HealthyServerStores ==
  Healthy => \A g \in Games \ earlier : rows[g] = records[g]

\* What RecordManager promises of its calls and of its file, in the server that
\* makes the calls: a failing step costs two records and not more, a value that is
\* not bound costs one...
FailedStepCostsTwo == DB!FailedStepCostsTwo

\* ...and no start mends a file that has no table, unless a call fails that should
\* not.
EmptyFileStays == DB!EmptyFileStays

Fate(g) ==
  IF rows[g] > 0 THEN "recorded"
  ELSE IF g \notin earlier /\ thread[g] = "none" THEN "unborn"
  ELSE IF Alive(g) THEN "held" ELSE "lost"

Records == INSTANCE GameRecords WITH fate <- [g \in Games |-> Fate(g)]

\* What becomes of a game is decided once: over all processes, a recorded game
\* stays recorded, and a lost one is never recorded after all.
ImplementsGameRecords == Records!RecordsSpec

\* A healthy process that goes on loses a game only if the game was queued after the
\* last test of the poll's loop: the clear drops it or, before that, its own thread
\* erases the last entry of a game that the clear has dropped already.
LosesOnlyInTheGap ==
  [][\A g \in Games :
       Fate(g) = "held" /\ Fate(g)' = "lost" /\ Healthy' =>
         \/ loop = "clear" /\ \E i \in idx..Len(preRemove) : preRemove[i] = g
         \/ ~Queued(g) /\ holder # NoGame /\ storage[tokenOf[holder]] = g]_serverVars
=============================================================================
