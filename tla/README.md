# A formal model of TetrisGame

This directory models the Tetris server of this repository in TLA+: what runs on
several threads, what a game does to its board, and how games are started, ended,
recorded and removed, in one process and over its restarts. TLC checks the modules on
small instances; TLAPS proves all invariants that hold and the safety of all refinements
for every value of the constants. Paths below are relative to the root of the repository
(`src/src/...` is `src/` in it).

## 1. The system

A process serves a web page and a JSON interface. One **event loop** thread
(`mg_mgr_poll`) handles one HTTP request or one poll event at a time. Each game
has a **game thread** (`Tetris::RunTetris`) that lets its piece fall once a second.
Two mutexes: `tetris_mutex_` in each game, `stroage_mutex_` in the server, always
taken in the order storage, game, so they cannot deadlock.

| Component | State | Operations | Interacts with |
|---|---|---|---|
| Status of a game (`Tetris`) | `tetris_status_`, `wait_timeout` | `Start`, `PauseGame`, `ResumeGame`, `StopGame`, `GetTetrisStatus`, `RunTetris` | its thread and the event loop share the status, partly without the mutex |
| Board (`Tetris`, `Tetromino`) | `tetris_map_`, `active_map_`, `active_tetromino_`, `score_`, the factory | `ProcessGame` and all it calls | called by both threads, under `tetris_mutex_` |
| Games in the server (`TetrisWebServer`) | `tetris_storage_`, `pre_remove_tetris_` | `StartNewGame`, `PreProcess`, `OnTetrisGameOver`, `MongoosePollEvent`, the two lists | game threads call `OnTetrisGameOver`; shared pointers keep instances alive |
| Responses about a game | - (a game's map, next piece, score, status) | `Response`, `GetTetrisStatus`, `tetris_map`, `TetrominoIndex`, `score` | read by the event loop, getter by getter, while the game thread goes on |
| Tokens and randomness | the seed of `rand()` | `srand` per game, `RandomString`, `TakeTetromino` | one generator for all games |
| `RecordManager` | two prepared statements, the database file | `InitRecordManager`, `InsertRecord`, `GetRankRecords` | called by the event loop only |
| Server over restarts | the games in memory beside the rows in the file | the start and the end of a process, `MongoosePollEvent`, the two lists | ties the games in the server to `RecordManager` |
| HTTP query | `key_values_` | `HttpQueryParameter::Parse`, `GetKey`, the choice of the handler | called for every request |
| Web client (`index.html`) | token, timer | keys, polling | requests may be answered out of order |

What makes each of them correct, and where it is hard:

- *Status*: a game starts once, ends once, and its end is reported; hard because
  `RunTetris` tests and writes the status with no lock while requests do so under it.
- *Board*: pieces stay in free cells, complete rows vanish, the game ends; hard
  because no row number is ever tested, columns are unsigned and wrap, a new piece is
  placed without looking, and rows are moved one at a time in a loop that changes its
  own counter.
- *Games in the server*: an ended game is recorded exactly once and leaves, and a running
  game can be found; hard because the poll takes no lock, and the walk of the online list
  none either.
- *Responses*: never older than the one before, and exact when nothing moves; hard because
  each part is read under a lock of its own, or none.
- *Tokens*: they identify games; hard because every start seeds the generator.
- *RecordManager*: every ended game gets its row; hard because of failing steps and
  of a crash during the creation of the file.
- *Over restarts*: what became of a game is decided once; hard because nobody looks at
  what a call of the database returned, and a process may end between any two of them.
- *HTTP query*: parameters are read as they are meant; hard because an empty value leaves
  its name behind in the loop.

`PROJECT.json` lists all hazards with their lines.

## 2. The modules

### TetrisThread implements GameStatus

`GameStatus` is the promise: phases init, start, running, pause, over, with an end
that is final and reported. `TetrisThread` is the code. An action is one access to
`tetris_status_` that the other thread can observe:

| Code (`src/src/tetris/tetris.cpp`) | Action |
|---|---|
| `RunTetris` 216-222 / 224-231 / 227 / 232 / 233 / 236 / 238 | `Launch` / `Sample` / `Expire` / `Step` / `Check` / `Sleep` / `Notify` |
| `Start`, called by `StartNewGame` | `Start` |
| tests of `PauseGame`, `ResumeGame`, `StopGame`, under the mutex | `Request`, with `Accepts` |
| their writes, and the release of the mutex | `Write`, with `Target` |
| `GetTetrisStatus` in the response | `Answer` |
| the response is sent, the mutexes are released | `Send` |

The pause limit is the constant `MaxWaitPauseTime`, 60 in the code. `wait` stops one
above it: all greater values act alike. `Step` waits for `tetris_mutex_` and `Notify`
for `stroage_mutex_`, which the event loop holds for a whole request. The refinement
mapping is not the identity: `Expire` writes "game over" while a request that holds
the mutex may be about to overwrite it, and the game has not ended in that moment
(`Overwritten`, `Phase`).

### TetrisBoard implements TetrisRules, with the shapes of Tetromino

`Tetromino` is the table of `InitTetrominoList`: 19 shapes, their points in the order
the code visits them, the index a rotation goes to. `TetrisBoard` is `ProcessGame`.
A map is the set of its `#` cells. A call runs under `tetris_mutex_`, so a move is one
action (`Move`, or `Refuse` for an early return). A landing is several: `Land`
(`CollisionDetection` up to `ScoringDetection`), then one `ClearRow` or `PassRow` for
each iteration of the loop, then `FinishLanding`; no move comes in between. `Point`
adds as unsigned integers do. `Hits` keeps the order of the tests: the first point that
fails decides whether a move is refused or lands.

`TetrisRules` is the game as players know it: pieces occupy four free cells, settle on
something, and all complete rows vanish in one step. The mapping lets a landing be
finished from its first step, with the rows still to clear already gone and their
score already counted.

The sizes are constants; the code has 24 rows, 14 columns and start column 6.
`ShapeAssumption` says what the board needs of the shapes: four points in a box of
four by four, no row missing between two of them, and, for a rotation, that each of
its points is at most one row below the piece as it was or comes after a point in the
row just above (this is what makes the missing test of the row harmless). TLC evaluates
it on the 19 shapes.

### TetrisGame extends TetrisThread

The game as its player sees it: `TetrisThread` with the data of a response (`game`), the
parts read so far (`got`, `answer`) and the last response (`shown`). `Read` is one getter;
the reads and `Answer` come in any order, because C++ leaves the order of the arguments of
`Response` to the compiler. Every action of `TetrisThread` is an action of `TetrisGame`
with its effect on the data: `GameStep` lets the piece fall or land, `GameRequest` moves
it, `Respond` completes `Send`, `Missing` is the answer for a game that is no longer
stored. A board is a number here, which counts the changes of the shown map; what a change
does to cells is `TetrisBoard`'s. Two constants keep what a landing may do possible on an
empty board: no points before `LinePieces` pieces were drawn (a row of 12 cells needs three),
no end, and no landing without a fall, before `StackPieces` (a stack that reaches row 3 of
24 needs five). How many rows a fall has is left out. `PromptGameSpec` is `GameSpec` for
requests that are answered within the second for which the thread sleeps. That
`TetrisGame` implements `TetrisThread` is proved.

### TetrisWebServer

The storage, the queue `pre_remove_tetris_`, how often `InsertRecord` was called for
each game, and which thread holds `stroage_mutex_`. `StartNewGame` and `StopGame` (the
only request that matters here) are one action each. `OnTetrisGameOver` holds the mutex
but `MongoosePollEvent` and `ProcessGetOnlineList` do not, so `PreRemove`, `Erase` and
`PollBegin`, `PollInsert`, `PollEnd`, `PollClear` interleave, and so do `ListBegin`,
`ListItem`, `ListNext`, `ListEnd`. Tokens are numbers in the order of their strings, which
is the order of the map; the iterator is the token of its entry. If that entry is erased
the iterator dangles, and a step through the tree while a thread erases (`Erasing`) meets it
half rebalanced: `ListBegin` and `ListLost` say so, and the model follows the event loop no
further (`lost`). No property says what a list has in it.
An instance is alive while the storage or the queue refers to it (`Alive`). The vector
`pre_remove_tetris_` is accessed without a lock, too; each access to it is taken as atomic,
so what is found here of the queue happens even then. What `InsertRecord` does with a game is left to `TetrisServer`; the poll goes
on as it does in any case. A start draws any token, also one that is
in use; `UniqueTokens` says that this has not happened yet.

### TokenSource

One `rand()` for the process, as in the C library of Linux (with the Microsoft library each
thread has its own generator, and a game thread draws apart; the property is about the
seeds of the event loop and holds there, too). A value is named by its seed and the number
of draws before it: equal names are equal values, and different names are taken to be
different values. `RandomString(8)` counts as one draw and a piece as one.

### RecordManager

The database file is absent, empty, or has its table. `Boot` and `CreateTable` are
`PrecheckDatabase`, `Open`, `PrepareInsert`, `PrepareSelect` the rest of
`InitRecordManager`; every SQLite call may fail (`fault` remembers it), and `Crash` may
come between any two steps. `Call` is what `sqlite3_reset` and
`sqlite3_step` do with a statement that is unset, null, ready, or holds the error of its
last step (`sqlite3VdbeReset` returns it once more), and `BindFails` the return of
`InsertRecord` after one of its five bindings, which leaves the statement as it was reset.
What a call did is logged: `done`, `failed` (its step failed, and `InsertRecord` returned
true), `unbound` (a value was not bound), `refused`. `sqlite3_open` creates the file at once, hence the state `empty`.

### TetrisServer implements GameRecords

`GameRecords` is what a player who looks for a record sees of a game: it is held by the
server from its start until it is recorded or lost, and either is for good.
`TetrisServer` is the server over any number of processes. It has the variables of
`TetrisWebServer` for the memory of the process, those of `RecordManager` for the database
and the calls into it, and two of its own: `rows`, the rows of each game, which outlive
the process, and `earlier`, the games of the processes before this one.

| Code (`src/src/server/tetris_web_server.cpp`) | Action |
|---|---|
| 112: `InitRecordManager`, before any request is served, its result unread | `StartTetrisWebServer` |
| requests, game threads and the poll, as far as no database is concerned | `Serve` |
| 172: an insert of the poll | `RecordGame`: `PollInsert` and `InsertRecord` together |
| 223: the rank list is read, for nothing, before the online list | `ProcessGetOnlineList`: `GetRankRecords` and `ListBegin` |
| 207 | `ProcessGetRankList` |
| the process ends, anywhere | `Crash`: `DB!Crash`, and `Forget` of all that was in memory |

`records` of `TetrisWebServer` counts the calls of `InsertRecord`; whether such a call left
a row is what the statement did (`done`), and the poll does not look. In the mapping
(`Fate`) a game is recorded once it has a row, held as long as the storage or the queue
has it, and otherwise lost: dropped by the clear, refused by the database, or gone with
its process.

### HttpQuery

`Parse`, one symbol at a time, with its two inner loops. A query is a sequence of "=", "&"
and letters. `request` is what the client means and `Encode` what it sends, parameter by
parameter (`Written`); the properties compare what is stored with what was meant.
`RequestsAssumption` says what a client writes (`Fields`): a name of letters, and a value of
any symbols. The names the server asks for are constants, sequences of letters of which none
ends in another (`NamesAssumption`), so that two names of a client can run together to one
of them, as `op=&er=stop` becomes a call to stop. `Dispatch` is the choice of `ProcessGame`
and the tests of `StartNewGame` and `PreProcess`; `StartsGame` and `OperatesGame` are the two
addresses of `index.html`.

The code promises nothing for a "&" in a text, which ends the value and makes the rest of it
parameters of their own, and nothing for names that run together. The requests with either
are in the model; `TypeOK` is of all requests, the other properties are of those without
(`Unbroken`, `NoneEnds`), and say so.

### How they fit together

`TetrisGame` composes the thread with the responses, and what `TetrisBoard` does to the
board is the change of the map, the score and the end in `Falls`, `Lands` and `Moves`. The
`thread = "done"` of `TetrisThread` is the end of `OnTetrisGameOver`, which
`TetrisWebServer` splits in `PreRemove` and `Erase`; `GameOver` there is any end of a game.
`TokenSource` shows when the premise `UniqueTokens` of `TetrisWebServer` fails.
`MCTetrisBoard` puts the table of `index.html` beside the table of the server.

`TetrisServer` composes `TetrisWebServer` and `RecordManager`; that each of its steps is a
step of `RecordManager`, or leaves it alone, is proved (`ServerImplementsDatabase`), and so is
that it keeps the invariants of `TetrisWebServer` in every process (`EveryProcess`). That
`TetrisGame` implements `TetrisThread` is proved, too. The other interfaces named here,
of `TetrisGame` with `TetrisBoard` and with `TetrisWebServer`, and of `TokenSource`, are
by reading.

## 3. What TLC checks

| Run | Instance | What it shows |
|---|---|---|
| `TetrisGame` | limit 1, 2 changes of the map, scores 0 and 1, any landing may score or end | `ExitMeansOver`: the thread leaves its loop only in a game that stays over. `OverReplyIsFinal`: a client told `game_over` was told the truth for good. `PausedReplyIsExact`: a response that says `pause` is the game as it stands, in all its parts. `RepliesMoveOn`: no response is older than the one before. `NeverStuckPaused`. `EndIsTold`: once a game has ended, by a landing, a stop or a pause, the page shows its end some time and from then on for good. `ImplementsGameStatus` |
| `TetrisBoardPieces` | 7 by 6, all 19 shapes | `SpawnAreaFree`, `NoOverlap`, `ReadsInBounds`, `ViewShowsBoard`, `RotationTurns` (the hand-written table of rotations is quarter turns), `PreviewShowsNext` (the page's table shows the next piece) |
| `TetrisBoardLines` | 9 by 6, I and O pieces | `AtMostFourLines`, `NoCompleteRow`, `SettledInFours`, `ImplementsRules`, `PieceLands` |
| `TetrisBoardUnattended` | the real 24 by 14 | `UnattendedEnds` |
| `TetrisWebServer` | 3 games, 3 tokens, drawn freely | `RecordedAtMostOnce` whatever the tokens; `RecordedWhenOver`, `RunningIsStored` while none came back; `EndedGamesLeave`, unless the event loop has met an erase in its walk of the list |
| `TokenSource` | 4 starts, 3 seconds | `RepeatsWithinASecond`: exactly when a token can come back |
| `TetrisServer` | 3 games, 2 tokens, 3 calls of each kind per process, any number of processes | `ImplementsGameRecords`: what became of a game is decided once, whatever fails and whenever the process ends. `RowsAtMostOnce`: no game is in the database twice. `HealthyServerStores`: a process that works has a row for each game its poll has come to. `LosesOnlyInTheGap`: such a process loses a game only if it is queued after the last test of the poll's loop. `FailedStepCostsTwo`: a failing step costs two records, one of them reported as recorded, and a call on a prepared statement is refused for no other reason. `EmptyFileStays`: what a crash before CREATE TABLE costs, no later start mends |
| `HttpQuery` | all requests of up to 3 of 11 parameters, and the page's | `ProperRequestsAreRead`; `NothingMisattributed`: what is stored is a whole value of the request, under a name that ends in its own; `UnderstoodOrRefused`: an empty parameter does not turn a request into another call; `PageIsUnderstood`; all of them without "&" in a value |

`TypeOK` is checked by the first run of `MCTetrisBoard` and by `HttpQuery`; `ServerTypeOK`
has that of `TetrisWebServer` and of `RecordManager` in it. `RecordManager` has no run of its
own: all its actions are taken in the run of `TetrisServer`, by the server that calls it.
The types of `TetrisGame` and `TokenSource`, and `HealthyServerRecords`, on which
`HealthyServerStores` rests, and `NoTableNoRecords` of `RecordManager` are proved.

*Bounds.* Limit 1: the counter runs through below, at and above the limit with every
interleaving; nothing in the code compares it with anything else. Two changes of the map
let a part be read before, between and after them; `LinePieces` and `StackPieces` are 1, so
that these two can be any landings, the last of a game among them. 7 by 6: four columns,
enough for every shape, for walls on both sides and for a wrapped column; a landing on
the floor and on a stack that reaches row 3. Lines: width 4 inside, so that an I
completes a row alone and a standing I completes four. `ScoreSize = 3` lets the score
wrap. `UIntSize = 16` lets columns wrap; the proofs are for any size. Unattended: the
first piece and every later one is a Z or an O, in every order (`DrawZO`), on the board of
the code. Three games: one queued, one being queued and one running while the poll
is anywhere in its loop.
`MaxStarts`, `MaxDraws`, `MaxTime` bound `TokenSource`, and a query ends; these runs
may stop there, hence no deadlock check. Three calls hold a failing step, the call
refused after it, and a success or the next failure. In `TetrisServer` a process may call
`InsertRecord` once for each game (`MaxCalls = 3`), so the bound never stops a poll; two
tokens let one be free again while the other is in use, and come back; three games can be
of three processes, or of one. Games are symmetric there: no formula of the run names one.
Three parameters: one that is read after one that was spoilt by an empty one. Of the
eleven one is empty and of no use, so that a request that means something can be spoilt, two
have names that run together to `oper`, and one has a "&" in its value. A letter in that
run is a piece of a name, and each name asked for has two: only where a name is split matters.

*Fairness.* The operating system schedules both threads, a request taken up is finished,
and each statement that needs no lock is weakly fair. A thread that waits for a mutex
which the event loop takes again and again gets it in the end (strong fairness of `Step`,
`GameStep`, `Notify`, `OnTetrisGameOver`): the loop spends its time in `mg_mgr_poll`,
outside of both mutexes. `mg_mgr_poll(…, 1000)` raises polls for ever, between requests
too (strong fairness of `PollBegin`). `EndIsTold` is about a page that keeps asking, as
`index.html` does every 500 ms (weak fairness of `Missing`); otherwise no client has to do
anything, and no game has to end unless nobody plays it.

### Where documents and code differ

Each is a run that ends in a violation.

| Run | The document | The code |
|---|---|---|
| `TetrisThreadExpire` (`ResumedGoesOn`) | `README.md:177-178`: a pause that lasts too long ends a game; resume wakes it up | `tetris.cpp:227` can end a game that was resumed after line 224 looked, and whose client was told that it runs |
| `TetrisGameFinalScore` | `README.md:136`: `score` is the score of the game | `tetris_web_server.cpp:331`: the status may be read after the landing that ended the game and the score before it. The run has the limit of 60, at least three pieces for a line, five for a stack, and prompt responses |
| `TetrisWebServerRecord` | `doc/tetris_protocol.md:19`: records can be seen later | `tetris_web_server.cpp:178` drops a game queued after the last look, with no two tokens alike |
| `TokenSourceUnique` | `README.md:161`: a token is unique | starts within one second repeat tokens |

More need no run. `README.md:177` allows a pause of 24 hours, and `tetris.cpp:215` has
60 rounds of a second. `README.md:133` lists `running`, `pause`, `game_over` for
`game_state`, and the answer to `start` may be `start` (`Answer` before `Launch`); a stop
sent before the thread has launched is ignored, and answered `start`. `README.md:157`
promises the same game for the same `rand_key`; the parameter (read as `randkey`) is only
tested for being empty. `README.md:135` calls `next_tetrismino` the number of the next
block; it is the number of the shape the next block turns to, and `index.html` reads it so.

## 4. What is proved

The proofs hold for every value of the constants that satisfies the named assumptions.

- `TetrisGame_proofs`, first part (`MaxWaitAssumption`), about `TetrisThread`: `TypeCorrect`, `ExitIsFinal`,
  `OverRepliesAreFinal`, and `Refinement`: `Spec => GS!GSSafety`. The two safety
  properties are not inductive alone: the danger is a request that overwrites "game over".
  `PendingWrite` says that an accepted request still finds the status it was accepted
  in, or else the game thread has just expired the pause and is waiting in `Step` for the
  mutex the request holds, before it looks again. `Began` ties the start of the thread to
  the status.
- `TetrisGame_proofs`, second part (also `PointsAssumption`): `GameImplementsThread`, from which
  `EndIsFinalForPlayer` follows, `GameTypeCorrect`, `PausedRepliesAreExact` and
  `ResponsesMoveOn`. The event loop alone pauses and resumes, so what it reads of a paused
  game stays true until its own next request (`PausedParts`, even if the pause expires
  into `game_over`); and a part that was read lies between the last response and the game
  (`InOrder`).
- `TetrisBoard_proofs`, first part (`DimensionAssumption`, `ShapeAssumption`, `IndexAssumption`):
  `TypeCorrect`, `SpawnAreaIsFree`, `PiecesNeverOverlap`, `CompleteRowsGo`,
  `ReadsStayInBounds`, `ResponsesShowTheBoard`, `FourLinesAtMost`. The code
  looks at row 3 only. That rows 0 to 2 are free follows from `Supported`: the stack has
  no gap above row 3, because shapes have no missing rows, a piece lands on something, and
  the sweep moves rows down in order. With `SpawnAreaFree` a new piece overlaps nothing;
  `SweptBelow` carries `NoCompleteRow` through the loop. `ReadsInBounds` follows from
  `NoOverlap`, the floor, and the order of the points. `FourLinesAtMost` needs `LinesInv`:
  the complete rows still to be found lie in the four rows of the piece, and each cleared
  one takes the lowest place; row 1, which `MoveDownOneLine` copies and never empties, is
  not complete, because a piece that lands has a point in row 3 or below.
- `TetrisWebServer_proofs` (`GamesAssumption`): `TypeCorrect`, `NoDoubleRecord`,
  `RunningGamesAreStored` and `OnlyEndedGamesAreRecorded`. `NoDoubleRecord` needs that a stored game is neither queued nor
  recorded unless it is just being erased (`Fresh`), that the queue has no game twice, and
  that exactly the games the poll has passed are recorded (`Counted`). The next two rest
  on `UInv`, which holds until a token comes back.
- `TokenSource_proofs` (`BoundsAssumption`): `TypeCorrect`, `RepeatsNeedOneSecond`, from
  `SeedsInOrder`: each token is drawn from the seed of the game before it, and seeds go
  with the time.
- `RecordManager_proofs`: `TypeCorrect`, `FailedStepsCostTwo`, `HealthyServersRecord`,
  `NoTableNothingRecorded`, `EmptyFilesStay`. `Remembers` ties the state of a prepared
  statement to the end of its log, `Refuses` that of one that was not prepared, and
  `HealthInv` both to the file and to the faults since the start.

- `TetrisBoard_proofs`, second part (also `DistinctAssumption`: the four points of a shape
  differ): `RulesImplemented`, the refinement of `TetrisRules`,
  and `CellsComeInFours`. In the mapping a landing is finished from its first step, so each
  step of the sweep must map to a stutter: clearing one row and then all complete rows is
  the same as clearing all at once (`CompactStep`), and there is one row less to count
  (`LinesInAll`). Both sides look at how many complete rows lie below a cell. No induction
  over rows is needed: a cleared row is a shift of the rows above it, so the sets of rows
  that are counted before and after are matched by a bijection (`CompactShift`,
  `ShiftCardinality`). `GlideStep`, `SettleStep` and `FinishStep` are the other actions;
  they use that the piece covers nothing settled (`NoOverlap`) and rests in row 3 or below.
  `CellsComeInFours` counts through `FoursInv`: a piece adds four different free cells, a
  cleared row takes a whole row of them, and row 1, which is copied, is empty unless the
  landing ends the game (`ClearedCells`, `LandFours`, `ClearRowFours`).
- `MCTetrisBoard_proofs` (`TableAssumption`: the shapes are those of the source, and the
  board may have any size): `RotationsTurn` and `PreviewsShowNext`. The next piece is one of
  the 19 shapes (`NextIsShape`), and each is looked at: its entry in the table of the page
  has its cells (`BlocksArePieces`), and the points of the shape it turns to are its own a
  quarter turn on, moved by some distance (`ShapesTurn`). Such a move does not change a
  `Corner` (`CornerMoves`).
- `TetrisServer_proofs` (`GamesAssumption`): `ServerImplementsDatabase`,
  `ServerStepsCostTwo`, `ServerMendsNoFile`, `ServerTypeCorrect`, `OneRowAtMost`,
  `HealthyServersStore`, `EveryProcess`, `FatesAreFinal` (the refinement of `GameRecords`) and `OnlyTheGapLoses`. Nothing is
  proved twice: as the server implements `RecordManager`, what is proved of that holds of
  the server, and the invariant of `TetrisWebServer` is preserved by all steps of a process
  (`WebStep`) and made true again by a crash, which puts a new process into `Init`.
  `SInv` adds what ties the two together (`RowsFollowCalls`): no row without a call in this
  process or an earlier one, no two calls for a game, and as long as nothing failed as many
  rows as calls. `InsertOutcome` says what a call may leave: a row needs a prepared
  statement and a table, and a process without a fault gets it. For the refinement
  (`FateStep`) a game that is recorded must not be alive any more once the poll is done
  with it, a game that is lost must not come back into the queue (`Fresh`), and a crash
  loses at once all that is held.
- `HttpQuery_proofs` (`LettersAssumption`, `NamesAssumption`, `RequestsAssumption`), for
  requests of any length, letters and names:
  `TypesOfParse`, `ProperRequests`, `Attributed`, `NoOtherCall`, `PageRequestsUnderstood`.
  First the query: `WrittenRounds` shows that the recursive function `Written` has a
  solution and satisfies its own equation, `QueryFacts` where each symbol of each parameter
  is. This needs induction. The induction theorems of the library cannot be used here, but
  that the ordering of finite sets is well founded is one formula: `Least` and
  `SetInduction` follow from it. Then the loop: `ParseInv` says that `Parse` is at symbol
  `k` of the name or value of parameter `n` (`Place`), that `value` is what it has seen of
  that value, and that `key` ends in what it has seen of that name, and is longer only after
  an empty parameter (`Reaches`). It says so of requests without "&" in a value; with one
  `Parse` is nowhere in the request any more, and only the types are proved (`TypesStep`).
  So all that is stored is a whole value under a name that ends in its own (`StoreParse`),
  and if nothing is empty, what is stored is what the first `n - 1` parameters mean (`Read`,
  `ReadStep`). `NoOtherCall` follows for every key the server looks up, as no name of the
  client is only the end of one (`StoredKeys`), and `PageRequestsUnderstood` because a request
  of the page with an empty text means nothing (`MeantKeys`).

`GameImplementsStatus` carries the refinement of `GameStatus` over to `TetrisGame`.

Only model-checked: everything under fairness (`NeverStuckPaused`, `EndIsTold`,
`ImplementsGameStatus` with its liveness, `PieceLands`, `UnattendedEnds`,
`EndedGamesLeave`), which the prover does not handle. Every invariant and every action
property of a run that passes is proved.

## 5. What is not modelled

- Timers and keys of the web client, and the order in which late responses arrive: the
  browser's and the network's. `RepliesMoveOn` shows in which order they are sent.
- What the browser does to an address: a "#" in a text ends the query, and blanks and other
  characters are percent-encoded, which the server does not undo. A field without any "=":
  no client here writes one.
- What a dangling iterator, a walk through a tree that is being changed, an uninitialised statement or a vector that grows under its
  reader do: undefined. The models say where it happens and stop there, or take the mildest
  outcome, as their comments say.
- `TetrisMapToString` (which rows are shown), `GetVzTime`, the JSON text, logging:
  presentation.
- `StopTetrisWebServer` and `UnintRecordManager`: `main` never reaches them.
  `StartTetrisWebServer`: its `srand` and `InitRecordManager` only.
- The leak of `next_tetromino_`: memory has no state here.
- SQLite and Mongoose (vendored, almost all of the lines of the repository) are modelled
  by what the code uses of them; getopt, the console test client and the build files have
  no behaviour of the system.

## 6. The plan

Done: `GameStatus`, `TetrisThread` and `TetrisGame`; `Tetromino`, `TetrisBoard` and
`TetrisRules`; `TetrisWebServer`; `TokenSource`; `RecordManager`; `TetrisServer`, which
composes these two, and `GameRecords`; `HttpQuery`; and the proofs above. What is left is
a web client with requests in flight and late answers, on top of `TetrisGame`.
