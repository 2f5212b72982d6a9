------------------------- MODULE TetrisServer_proofs -------------------------
(***************************************************************************)
(* For any number of games, processes and calls: what the database has of  *)
(* the games.  What is proved of TetrisWebServer holds in every process,   *)
(* what is proved of RecordManager over all of them.                       *)
(***************************************************************************)
EXTENDS TetrisServer, TetrisWebServer_proofs

DBProofs == INSTANCE RecordManager_proofs

\* Both instances of RecordManager are the same.
LEMMA SameDatabase ==
  /\ DB!Init <=> DBProofs!Init
  /\ DB!Next <=> DBProofs!Next
  /\ DB!TypeOK <=> DBProofs!TypeOK
<1>1. DB!Init <=> DBProofs!Init
  BY DEF DB!Init, DBProofs!Init
<1>2. DB!Next <=> DBProofs!Next
  BY DEF DB!Next, DB!Boot, DB!CreateTable, DB!Open, DB!PrepareInsert, DB!PrepareSelect,
    DB!InsertRecord, DB!GetRankRecords, DB!Crash, DB!Call, DB!BindFails, DB!stmtVars, DB!logVars,
    DB!Statements, DB!Outcomes, DBProofs!Next, DBProofs!Boot, DBProofs!CreateTable,
    DBProofs!Open, DBProofs!PrepareInsert, DBProofs!PrepareSelect, DBProofs!InsertRecord,
    DBProofs!GetRankRecords, DBProofs!Crash, DBProofs!Call, DBProofs!BindFails, DBProofs!stmtVars,
    DBProofs!logVars, DBProofs!Statements, DBProofs!Outcomes
<1>3. DB!TypeOK <=> DBProofs!TypeOK
  BY DEF DB!TypeOK, DB!Files, DB!Points, DB!Statements, DB!Outcomes, DBProofs!TypeOK,
    DBProofs!Files, DBProofs!Points, DBProofs!Statements, DBProofs!Outcomes
<1> QED
  BY <1>1, <1>2, <1>3

\* Every step of the server is a step of RecordManager, or none.
LEMMA DatabaseStep == [ServerNext]_serverVars => [DB!Next]_dbVars
BY DEF ServerNext, StartTetrisWebServer, Serve, RecordGame, ProcessGetOnlineList,
  ProcessGetRankList, Crash, DB!Next, serverVars

\* What RecordManager knows of its statements, whatever happens in the server.
DBInv ==
  /\ DBProofs!TypeOK
  /\ DBProofs!HealthyServerRecords

\* The server implements RecordManager.
THEOREM ServerImplementsDatabase == ServerSpec => DBProofs!Spec
<1>1. ServerInit => DBProofs!Init
  BY SameDatabase DEF ServerInit
<1>2. [ServerNext]_serverVars => [DBProofs!Next]_(DBProofs!vars)
  BY DatabaseStep, SameDatabase DEF dbVars, DBProofs!vars
<1> QED
  BY <1>1, <1>2, PTL DEF ServerSpec, DBProofs!Spec

LEMMA DatabaseInvariant == ServerSpec => []DBInv
<1>1. ServerSpec => DBProofs!Spec
  BY ServerImplementsDatabase
<1>2. DBProofs!Spec => []DBProofs!TypeOK
  BY DBProofs!TypeCorrect
<1>3. DBProofs!Spec => []DBProofs!HealthyServerRecords
  BY DBProofs!HealthyServersRecord
<1> QED
  BY <1>1, <1>2, <1>3, PTL DEF DBInv

\* A failing step of the server's statements costs two records and not more, a value
\* that is not bound one.
THEOREM ServerStepsCostTwo == ServerSpec => []FailedStepCostsTwo
<1>1. DBProofs!FailedStepCostsTwo => FailedStepCostsTwo
  BY DEF FailedStepCostsTwo, DB!FailedStepCostsTwo, DBProofs!FailedStepCostsTwo,
    DB!RefusedAfterFailure, DBProofs!RefusedAfterFailure
<1>2. DBProofs!Spec => []DBProofs!FailedStepCostsTwo
  BY DBProofs!FailedStepsCostTwo
<1> QED
  BY <1>1, <1>2, ServerImplementsDatabase, PTL

\* No start of the server mends a file without a table, unless a call fails.
THEOREM ServerMendsNoFile == ServerSpec => EmptyFileStays
<1>1. DBProofs!Spec => DBProofs!EmptyFileStays
  BY DBProofs!EmptyFilesStay
<1>2. [proc # "create" /\ file = "empty" /\ ~fault' =>
         file' = "empty" /\ proc' # "create"]_(DBProofs!vars)
      => [proc # "create" /\ file = "empty" /\ ~fault' =>
            file' = "empty" /\ proc' # "create"]_(DB!vars)
  BY DEF DB!vars, DBProofs!vars
<1> QED
  BY <1>1, <1>2, ServerImplementsDatabase, PTL
     DEF EmptyFileStays, DB!EmptyFileStays, DBProofs!EmptyFileStays
-----------------------------------------------------------------------------
(* The games of this process, and the rows. *)

RowsFollowCalls ==
  /\ \A g \in Games : rows[g] <= 1
  /\ \A g \in Games \ earlier : rows[g] <= records[g]

SInv ==
  /\ IInv
  /\ proc # "up" => Init
  /\ rows \in [Games -> Nat]
  /\ earlier \subseteq Games \ Started
  /\ RowsFollowCalls
  /\ HealthyServerStores

\* Within a process the server takes steps of TetrisWebServer.
LEMMA WebStep ==
  ASSUME [ServerNext]_serverVars
  PROVE  [Next]_vars \/ Crash
BY DEF ServerNext, StartTetrisWebServer, Serve, RecordGame, ProcessGetOnlineList,
  ProcessGetRankList, Next, Poll, PollGoesOn, List, serverVars

\* A new process has no games.
LEMMA CrashIsInit == ASSUME Crash PROVE Init'
BY DEF Crash, Forget, Init

\* What a call of InsertRecord did is what its log says last: if nothing has failed
\* there is a new row.
LEMMA InsertOutcome ==
  ASSUME DBInv, DBInv', DB!InsertRecord
  PROVE  /\ proc = "up" /\ UNCHANGED <<proc, file>>
         /\ ~fault' => ~fault
         /\ Healthy' => inserts'[Len(inserts')] = "done"
<1>1. PICK st2 \in DB!Statements, o \in DB!Outcomes :
        /\ DB!Call(insert, st2, o) \/ DB!BindFails(insert, st2, o)
        /\ insert' = st2 /\ inserts' = Append(inserts, o)
  BY DEF DB!InsertRecord
<1>2. inserts \in Seq(DB!Outcomes)
  BY SameDatabase DEF DBInv, DB!TypeOK
<1>3. Len(inserts') \in 1..Len(inserts') /\ inserts'[Len(inserts')] = o
  BY <1>1, <1>2
<1>4. proc = "up" /\ UNCHANGED <<proc, file>>
  BY DEF DB!InsertRecord
<1>5. ~fault' => ~fault
  BY <1>1 DEF DB!Call, DB!BindFails
<1>6. Healthy' => inserts'[Len(inserts')] = "done"
  <2>1. Healthy' => \A i \in 1..Len(inserts') : inserts'[i] = "done"
    BY DEF DBInv, DBProofs!HealthyServerRecords, Healthy
  <2> QED
    BY <2>1, <1>3
<1> QED
  BY <1>4, <1>5, <1>6

LEMMA InitSInv == ServerInit => SInv
<1> SUFFICES ASSUME ServerInit PROVE SInv
  OBVIOUS
<1>1. Init /\ IInv
  BY InitIInv DEF ServerInit
<1> QED
  BY <1>1 DEF ServerInit, SInv, RowsFollowCalls, HealthyServerStores,
    Init, Started

\* While nothing is recorded, rows and calls keep what is known of them: a game that
\* starts in this process has none of either.
LEMMA QuietSInv ==
  ASSUME SInv, DBInv', IInv', UNCHANGED <<rows, earlier, records>>,
         proc' # "up" => Init',
         Started' \cap earlier = {},
         Healthy' => Healthy \/ Init
  PROVE  SInv'
<1>1. Init => \A g \in Games \ earlier : rows[g] = 0 /\ records[g] = 0
  BY DEF SInv, RowsFollowCalls, Init
<1>2. RowsFollowCalls'
  BY DEF SInv, RowsFollowCalls
<1>3. HealthyServerStores'
  BY <1>1 DEF SInv, HealthyServerStores
<1>4. rows' \in [Games -> Nat] /\ earlier' \subseteq Games \ Started'
  BY DEF SInv
<1> QED
  BY <1>2, <1>3, <1>4 DEF SInv

\* A game that starts in this process is not of an earlier one.
LEMMA ServeStarts == ASSUME SInv, Serve PROVE UNCHANGED records /\ Started' \cap earlier = {}
<1> USE DEF SInv, IInv, TypeOK, Started
<1>1. Started \cap earlier = {}
  OBVIOUS
<1>2. ASSUME NEW g \in Games \ earlier, NEW t \in Tokens, StartNewGame(g, t)
      PROVE  UNCHANGED records /\ Started' \subseteq Started \cup {g}
  BY <1>2 DEF StartNewGame
<1>3. ASSUME NEW t \in Tokens, StopGame(t) PROVE UNCHANGED records /\ Started' = Started
  BY <1>3 DEF StopGame
<1>4. ASSUME NEW g \in Games, GameThread(g)
      PROVE  UNCHANGED records /\ Started' \subseteq Started
  BY <1>4 DEF GameThread, GameOver, OnTetrisGameOver, PreRemove, Erase, NotFound
<1>5. CASE PollBegin \/ PollEnd \/ PollClear
  BY <1>1, <1>5 DEF PollBegin, PollEnd, PollClear
<1>6. CASE ListGoesOn
  BY <1>1, <1>6 DEF ListGoesOn, ListItem, ListNext, ListEnd, ListLost, ListKeeps
<1> QED
  BY <1>1, <1>2, <1>3, <1>4, <1>5, <1>6 DEF Serve

\* The poll comes to a game of this process, once: it has no row yet.
LEMMA RecordGameSInv == ASSUME SInv, DBInv, DBInv', IInv', RecordGame PROVE SInv'
<1> DEFINE v == preRemove[idx]
           done == inserts'[Len(inserts')] = "done"
<1>1. /\ proc = "up" /\ UNCHANGED <<proc, file>>
      /\ ~fault' => ~fault
      /\ Healthy' => done
  BY InsertOutcome DEF RecordGame
<1>2. v \in Games /\ Queued(v) /\ records[v] = 0
  BY DEF SInv, IInv, TypeOK, Counted, Queued, RecordGame, PollInsert
<1>3. v \in Started
  BY <1>2 DEF SInv, IInv, Unborn, Started
<1>4. v \notin earlier /\ rows[v] = 0
  BY <1>2, <1>3 DEF SInv, RowsFollowCalls
<1>5. /\ rows' = [rows EXCEPT ![v] = IF done THEN @ + 1 ELSE @]
      /\ records' = [records EXCEPT ![v] = @ + 1]
      /\ UNCHANGED <<thread, earlier>>
  BY DEF RecordGame, PollInsert
<1>6. rows \in [Games -> Nat] /\ records \in [Games -> Nat]
  BY DEF SInv, IInv, TypeOK
<1> HIDE DEF v, done
<1>7. rows' \in [Games -> Nat] /\ earlier' \subseteq Games \ Started'
  BY <1>2, <1>5, <1>6 DEF SInv, Started
<1>8. RowsFollowCalls'
  BY <1>2, <1>4, <1>5, <1>6 DEF SInv, RowsFollowCalls
<1>9. HealthyServerStores'
  <2>1. Healthy' => Healthy
    BY <1>1 DEF Healthy
  <2> QED
    BY <1>1, <1>2, <1>4, <1>5, <1>6, <2>1 DEF SInv, HealthyServerStores
<1> QED
  BY <1>1, <1>7, <1>8, <1>9 DEF SInv

\* The next process starts with no games, and finds the rows.
LEMMA CrashSInv == ASSUME SInv, Crash PROVE SInv'
<1>1. Init' /\ IInv'
  BY CrashIsInit, InitIInv, PTL
<1>2. rows' = rows /\ earlier' = earlier \cup Started /\ file' = file /\ proc' = "down"
  BY DEF Crash, DB!Crash
<1>3. \A g \in Games \ earlier' : rows[g] = 0
  BY <1>2 DEF SInv, IInv, TypeOK, Unborn, Started, RowsFollowCalls
<1>4. records' \in [Games -> Nat] /\ Started' = {}
  BY <1>1 DEF Init, Started
<1>5. earlier' \subseteq Games \ Started'
  BY <1>2, <1>4 DEF SInv, Started
<1>6. RowsFollowCalls'
  BY <1>2, <1>3, <1>4 DEF SInv, RowsFollowCalls
<1>7. ~Healthy'
  BY <1>2 DEF Healthy
<1> QED
  BY <1>1, <1>2, <1>5, <1>6, <1>7 DEF SInv, HealthyServerStores

LEMMA NextSInv == SInv /\ DBInv /\ DBInv' /\ [ServerNext]_serverVars => SInv'
<1> SUFFICES ASSUME SInv, DBInv, DBInv', [ServerNext]_serverVars PROVE SInv'
  OBVIOUS
<1>1. CASE Crash
  BY <1>1, CrashSInv
<1>2. ~Crash => IInv'
  BY WebStep, NextIInv DEF SInv
<1>3. Started \cap earlier = {}
  BY DEF SInv
<1>4. CASE StartTetrisWebServer /\ ~Crash
  <2>1. proc # "up" /\ Init
    BY <1>4 DEF SInv, StartTetrisWebServer, DB!Boot, DB!CreateTable, DB!Open, DB!PrepareInsert,
      DB!PrepareSelect
  <2>2. UNCHANGED <<vars, rows, earlier>>
    BY <1>4 DEF StartTetrisWebServer
  <2>3. Init' /\ UNCHANGED records /\ Started' = Started
    BY <2>1, <2>2 DEF Init, Started, vars
  <2> QED
    BY <1>2, <1>3, <1>4, <2>1, <2>2, <2>3, QuietSInv
<1>5. CASE Serve /\ ~Crash
  <2>1. proc' = "up" /\ UNCHANGED <<dbVars, rows, earlier>>
    BY <1>5 DEF Serve, dbVars
  <2>2. Healthy' = Healthy
    BY <2>1 DEF Healthy, dbVars
  <2> QED
    BY <1>2, <1>5, <2>1, <2>2, ServeStarts, QuietSInv DEF dbVars
<1>6. CASE RecordGame /\ ~Crash
  BY <1>2, <1>6, RecordGameSInv
<1>7. CASE (ProcessGetOnlineList \/ ProcessGetRankList) /\ ~Crash
  <2>1. /\ proc = "up" /\ UNCHANGED <<file, proc, insert, rows, earlier, records, thread>>
        /\ ~fault' => ~fault
    BY <1>7 DEF ProcessGetOnlineList, ProcessGetRankList, DB!GetRankRecords, DB!Call, ListBegin,
      ListKeeps, vars
  <2>2. Started' = Started /\ (Healthy' => Healthy)
    BY <2>1 DEF Started, Healthy
  <2> QED
    BY <1>2, <1>3, <1>7, <2>1, <2>2, QuietSInv
<1>8. CASE UNCHANGED serverVars
  <2>1. UNCHANGED <<vars, dbVars, rows, earlier>>
    BY <1>8 DEF serverVars
  <2>2. UNCHANGED <<storage, tokenOf, status, thread, holder, preRemove, loop, idx, cursor, records>>
    BY <2>1 DEF vars
  <2>3. Init' <=> Init
    BY <2>2 DEF Init
  <2>4. Started' = Started /\ Healthy' = Healthy
    BY <2>1, <2>2 DEF Started, Healthy, dbVars
  <2>5. IInv'
    BY <2>1, NextIInv DEF SInv
  <2> QED
    BY <1>3, <2>1, <2>2, <2>3, <2>4, <2>5, QuietSInv DEF dbVars, SInv
<1> QED
  BY <1>1, <1>4, <1>5, <1>6, <1>7, <1>8 DEF ServerNext

LEMMA ServerInvariant == ServerSpec => []SInv
BY InitSInv, NextSInv, DatabaseInvariant, PTL DEF ServerSpec

\* The types of TetrisServer; a process that is not up has no games.
THEOREM ServerTypeCorrect == ServerSpec => []ServerTypeOK
<1>1. SInv /\ DBInv => ServerTypeOK
  BY SameDatabase DEF SInv, IInv, DBInv, ServerTypeOK
<1> QED
  BY <1>1, ServerInvariant, DatabaseInvariant, PTL

\* No game is in the database twice, over all processes, and none that InsertRecord
\* was not called for.
THEOREM OneRowAtMost == ServerSpec => []RowsAtMostOnce
<1>1. SInv => RowsAtMostOnce
  <2> SUFFICES ASSUME SInv, NEW g \in Games
               PROVE  rows[g] <= 1 /\ (rows[g] = 1 => g \in earlier \/ records[g] = 1)
    BY DEF RowsAtMostOnce
  <2>1. records[g] \in Nat /\ records[g] <= 1
    BY DEF SInv, IInv, TypeOK, RecordedAtMostOnce
  <2>2. rows[g] <= 1 /\ (g \notin earlier => rows[g] <= records[g])
    BY DEF SInv, RowsFollowCalls
  <2> QED
    BY <2>1, <2>2
<1> QED
  BY <1>1, ServerInvariant, PTL

\* A process that found its table, and in which no call failed, has a row for each
\* game its poll has come to.
THEOREM HealthyServersStore == ServerSpec => []HealthyServerStores
<1>1. SInv => HealthyServerStores
  BY DEF SInv
<1> QED
  BY <1>1, ServerInvariant, PTL

\* What TetrisWebServer promises of one process holds in each of them.
THEOREM EveryProcess ==
  ServerSpec => [](RecordedAtMostOnce /\ RecordedWhenOver /\ RunningIsStored)
<1>1. Init => UInv
  BY GamesAssumption DEF Init, UInv, StoredUnderToken, RunningIsStored, OverWhenQueued, Queued
<1>2. ServerInit => UInv
  BY <1>1 DEF ServerInit
<1>3. SInv /\ UInv /\ [ServerNext]_serverVars => UInv'
  <2>1. Init' => UInv'
    BY <1>1, PTL
  <2> QED
    BY <2>1, WebStep, CrashIsInit, NextUInv DEF SInv
<1>4. ServerSpec => []UInv
  BY <1>2, <1>3, ServerInvariant, PTL DEF ServerSpec
<1>5. SInv /\ UInv => RecordedAtMostOnce /\ RecordedWhenOver /\ RunningIsStored
  BY DEF SInv, IInv, UInv, OverWhenQueued, RecordedWhenOver
<1> QED
  BY <1>4, <1>5, ServerInvariant, PTL
-----------------------------------------------------------------------------
(* The fate of a game. *)

\* Where a game is decides its fate, as far as it has no row.
LEMMA SameFate ==
  ASSUME NEW g \in Games, UNCHANGED <<rows, earlier>>,
         thread'[g] = "none" <=> thread[g] = "none", Alive(g)' <=> Alive(g)
  PROVE  Fate(g)' = Fate(g)
BY DEF Fate

\* A started game of this process that is in the memory and not in the database is
\* held; one that is neither is lost.
LEMMA FateOfStarted ==
  ASSUME SInv, NEW g \in Games, thread[g] # "none"
  PROVE  /\ rows[g] > 0 <=> Fate(g) = "recorded"
         /\ rows[g] = 0 /\ Alive(g) <=> Fate(g) = "held"
         /\ rows[g] = 0 /\ ~Alive(g) <=> Fate(g) = "lost"
<1>1. rows[g] \in Nat
  BY DEF SInv
<1> QED
  BY <1>1 DEF Fate

\* A game that was not started in this process is nowhere in its memory.
LEMMA FateOfUnstarted ==
  ASSUME SInv, NEW g \in Games, thread[g] = "none"
  PROVE  /\ ~Alive(g)
         /\ g \notin earlier => rows[g] = 0 /\ Fate(g) = "unborn"
<1>1. ~Alive(g)
  BY DEF SInv, IInv, Unborn, Alive
<1>2. g \notin earlier => rows[g] = 0
  BY DEF SInv, IInv, Unborn, RowsFollowCalls
<1> QED
  BY <1>1, <1>2 DEF Fate

Unmoved == \A g \in Games : Fate(g)' = Fate(g)

\* Steps that leave the storage, the queue and the rows alone change no fate.
LEMMA QuietFate ==
  ASSUME UNCHANGED <<rows, earlier, storage, preRemove>>,
         \A g \in Games : thread'[g] = "none" <=> thread[g] = "none"
  PROVE  Unmoved
<1>1. \A g \in Games : Alive(g)' <=> Alive(g)
  BY DEF Alive, Queued
<1> QED
  BY <1>1, SameFate DEF Unmoved

\* A start gives the new game its fate: it is held if it was stored.
LEMMA StartFate ==
  ASSUME SInv, SInv', NEW g \in Games \ earlier, NEW t \in Tokens, StartNewGame(g, t),
         UNCHANGED <<rows, earlier>>
  PROVE  /\ Fate(g) = "unborn" /\ Fate(g)' \in {"held", "lost"}
         /\ \A h \in Games \ {g} : Fate(h)' = Fate(h)
<1> USE DEF StartNewGame
<1>1. thread \in [Games -> ThreadPoints] /\ storage \in [Tokens -> Games \cup {NoGame}]
  BY DEF SInv, IInv, TypeOK
<1>2. Fate(g) = "unborn" /\ rows[g] = 0
  BY FateOfUnstarted
<1>3. thread'[g] = "loop" /\ rows'[g] = 0 /\ g \notin earlier'
  BY <1>1, <1>2
<1>4. Fate(g)' \in {"held", "lost"}
  BY <1>3 DEF Fate
<1>5. ASSUME NEW h \in Games \ {g} PROVE Fate(h)' = Fate(h)
  <2>1. Alive(h)' <=> Alive(h)
    BY <1>1, GamesAssumption DEF Alive, Queued
  <2> QED
    BY <1>1, <2>1, SameFate
<1> QED
  BY <1>2, <1>4, <1>5

\* Queueing a game keeps it alive: it was stored.
LEMMA PreRemoveFate ==
  ASSUME SInv, NEW g \in Games, PreRemove(g), UNCHANGED <<rows, earlier>> PROVE Unmoved
<1> DEFINE v == storage[tokenOf[g]]
<1>1. /\ v \in Games /\ tokenOf[g] \in Tokens /\ preRemove \in Seq(Games)
      /\ thread \in [Games -> ThreadPoints]
  BY GamesAssumption DEF SInv, IInv, TypeOK, PreRemove
<1>2. preRemove' = Append(preRemove, v) /\ storage' = storage
  BY DEF PreRemove
<1>3. /\ Len(preRemove') = Len(preRemove) + 1 /\ Len(preRemove) \in Nat
      /\ preRemove'[Len(preRemove) + 1] = v
      /\ \A i \in 1..Len(preRemove) : preRemove'[i] = preRemove[i]
  BY <1>1, <1>2, AppendGame
<1>4. \A h \in Games : Queued(h)' <=> Queued(h) \/ h = v
  BY <1>3 DEF Queued
<1>5. Alive(v)
  BY <1>1 DEF Alive
<1> HIDE DEF v
<1>6. \A h \in Games : Alive(h)' <=> Alive(h)
  BY <1>2, <1>4, <1>5 DEF Alive
<1>7. \A h \in Games : thread'[h] = "none" <=> thread[h] = "none"
  BY <1>1 DEF PreRemove
<1> QED
  BY <1>6, <1>7, SameFate DEF Unmoved

\* A game may be lost when its entry is erased: the one the erasing thread finds, and
\* only if the queue does not have it.
LEMMA EraseFate ==
  ASSUME SInv, SInv', NEW g \in Games, Erase(g), UNCHANGED <<rows, earlier>>
  PROVE  \A h \in Games :
           \/ Fate(h)' = Fate(h)
           \/ /\ Fate(h) = "held" /\ Fate(h)' = "lost"
              /\ ~Queued(h) /\ holder = g /\ storage[tokenOf[g]] = h
<1> SUFFICES ASSUME NEW h \in Games, Fate(h)' # Fate(h)
             PROVE  /\ Fate(h) = "held" /\ Fate(h)' = "lost"
                    /\ ~Queued(h) /\ holder = g /\ storage[tokenOf[g]] = h
  OBVIOUS
<1>1. /\ thread \in [Games -> ThreadPoints] /\ tokenOf[g] \in Tokens
      /\ storage \in [Tokens -> Games \cup {NoGame}]
  BY DEF SInv, IInv, TypeOK
<1>2. thread'[h] = "none" <=> thread[h] = "none"
  BY <1>1 DEF Erase
<1>3. Queued(h)' <=> Queued(h)
  BY DEF Queued, Erase
<1>4. Alive(h) /\ ~Alive(h)'
  <2>1. Alive(h)' => Alive(h)
    BY <1>1, <1>3, GamesAssumption DEF Alive, Erase
  <2> QED
    BY <1>2, <2>1, SameFate
<1>5. ~Queued(h) /\ storage[tokenOf[g]] = h
  BY <1>1, <1>3, <1>4 DEF Alive, Erase
<1>6. holder = g
  BY DEF SInv, IInv, Holding, Erase
<1>7. thread[h] # "none"
  BY <1>4, FateOfUnstarted
<1>8. rows[h] = 0
  BY <1>2, <1>7 DEF Fate, SInv
<1>9. Fate(h) = "held"
  BY <1>4, <1>7, <1>8, FateOfStarted
<1>10. Fate(h)' = "lost"
  BY <1>2, <1>4, <1>7, <1>8 DEF Fate
<1> QED
  BY <1>5, <1>6, <1>9, <1>10

\* The clear loses the games that were queued after the last test of the loop, and
\* those whose call left no row.
LEMMA ClearFate ==
  ASSUME SInv, SInv', PollClear, UNCHANGED <<rows, earlier>>
  PROVE  \A h \in Games :
           \/ Fate(h)' = Fate(h)
           \/ Fate(h) = "held" /\ Fate(h)' = "lost" /\ Queued(h)
<1> SUFFICES ASSUME NEW h \in Games, Fate(h)' # Fate(h)
             PROVE  Fate(h) = "held" /\ Fate(h)' = "lost" /\ Queued(h)
  OBVIOUS
<1>1. storage' = storage /\ thread' = thread /\ ~Queued(h)'
  BY DEF PollClear, Queued
<1>2. Alive(h) /\ ~Alive(h)' /\ Queued(h)
  <2>1. Alive(h)' => Alive(h)
    BY <1>1 DEF Alive
  <2>2. Alive(h) /\ ~Alive(h)'
    BY <1>1, <2>1, SameFate
  <2> QED
    BY <1>1, <2>2 DEF Alive
<1>3. thread[h] # "none"
  BY <1>2, FateOfUnstarted
<1>4. rows[h] = 0
  BY <1>1, <1>3 DEF Fate, SInv
<1>5. Fate(h) = "held"
  BY <1>2, <1>3, <1>4, FateOfStarted
<1>6. Fate(h)' = "lost"
  BY <1>1, <1>2, <1>3, <1>4 DEF Fate
<1> QED
  BY <1>2, <1>5, <1>6

\* The end of a process loses all it held, and nothing else.
LEMMA CrashFate ==
  ASSUME SInv, Crash
  PROVE  \A h \in Games : Fate(h)' = Fate(h) \/ (Fate(h) = "held" /\ Fate(h)' = "lost")
<1> SUFFICES ASSUME NEW h \in Games
             PROVE  Fate(h)' = Fate(h) \/ (Fate(h) = "held" /\ Fate(h)' = "lost")
  OBVIOUS
<1>1. rows' = rows /\ earlier' = earlier \cup Started
  BY DEF Crash
<1>2. thread'[h] = "none" /\ ~Alive(h)'
  BY GamesAssumption DEF Crash, Forget, Alive, Queued
<1>3. rows[h] \in Nat
  BY DEF SInv
<1>4. CASE thread[h] = "none"
  <2>1. ~Alive(h) /\ (h \notin earlier => rows[h] = 0)
    BY <1>4, FateOfUnstarted
  <2>2. h \in earlier' <=> h \in earlier
    BY <1>1, <1>4 DEF Started
  <2> QED
    BY <1>1, <1>2, <1>3, <1>4, <2>1, <2>2 DEF Fate
<1>5. CASE thread[h] # "none"
  <2>1. h \in earlier'
    BY <1>1, <1>5 DEF Started
  <2>2. h \notin earlier
    BY <1>5 DEF SInv, Started
  <2> QED
    BY <1>1, <1>2, <1>3, <1>5, <2>1, <2>2 DEF Fate
<1> QED
  BY <1>4, <1>5

\* The poll records a game that is held, or leaves it.
LEMMA RecordFate ==
  ASSUME SInv, RecordGame
  PROVE  \/ Unmoved
         \/ \E g \in Games :
              /\ Fate(g) = "held" /\ Fate(g)' = "recorded"
              /\ \A h \in Games \ {g} : Fate(h)' = Fate(h)
<1> DEFINE done == inserts'[Len(inserts')] = "done"
<1>1. PICK v \in Games : v = preRemove[idx] /\ Queued(v) /\ records[v] = 0
  BY DEF SInv, IInv, TypeOK, Counted, Queued, RecordGame, PollInsert
<1>2. /\ rows' = [rows EXCEPT ![v] = IF done THEN @ + 1 ELSE @]
      /\ UNCHANGED <<thread, storage, preRemove, earlier>>
  BY <1>1 DEF RecordGame, PollInsert
<1>3. rows \in [Games -> Nat]
  BY DEF SInv
<1> HIDE DEF done
<1>4. thread[v] # "none" /\ Alive(v)
  BY <1>1, FateOfUnstarted DEF Alive
<1>5. rows[v] = 0
  BY <1>1, <1>4 DEF SInv, RowsFollowCalls, Started
<1>6. CASE done
  <2>1. rows'[v] = 1 /\ \A h \in Games \ {v} : rows'[h] = rows[h]
    BY <1>1, <1>2, <1>3, <1>5, <1>6
  <2>2. Fate(v) = "held"
    BY <1>1, <1>4, <1>5, FateOfStarted
  <2>3. Fate(v)' = "recorded"
    BY <2>1 DEF Fate
  <2>4. ASSUME NEW h \in Games \ {v} PROVE Fate(h)' = Fate(h)
    <3>1. Alive(h)' <=> Alive(h)
      BY <1>2 DEF Alive, Queued
    <3> QED
      BY <1>2, <2>1, <3>1 DEF Fate
  <2> QED
    BY <1>1, <2>2, <2>3, <2>4
<1>7. CASE ~done
  <2>1. rows' = rows
    BY <1>1, <1>2, <1>3, <1>7
  <2> QED
    BY <1>2, <2>1, QuietFate
<1> QED
  BY <1>6, <1>7
-----------------------------------------------------------------------------
\* The fates of all games, as GameRecords has them.
FateOf == [g \in Games |-> Fate(g)]

LEMMA UnmovedIsStutter == ASSUME Unmoved PROVE FateOf' = FateOf
BY DEF Unmoved, FateOf

\* Some held games are lost in one step, or none.
LEMMA LoseMany ==
  ASSUME \A h \in Games : Fate(h)' = Fate(h) \/ (Fate(h) = "held" /\ Fate(h)' = "lost")
  PROVE  Records!RecordsNext
<1> DEFINE S == {h \in Games : Fate(h) = "held" /\ Fate(h)' = "lost"}
<1>1. \A h \in S : FateOf[h] = "held"
  BY DEF FateOf
<1>2. FateOf' = [h \in Games |-> IF h \in S THEN "lost" ELSE FateOf[h]]
  BY DEF FateOf
<1>3. Records!Lose(S)
  BY <1>1, <1>2 DEF Records!Lose, FateOf
<1> QED
  BY <1>3 DEF Records!RecordsNext

\* What each step of the server does to the fates.
LEMMA FateStep ==
  ASSUME SInv, SInv', [ServerNext]_serverVars
  PROVE  \/ Unmoved
         \/ \E g \in Games :
              /\ \/ Fate(g) = "unborn" /\ Fate(g)' \in {"held", "lost"}
                 \/ Fate(g) = "held" /\ Fate(g)' = "recorded"
              /\ \A h \in Games \ {g} : Fate(h)' = Fate(h)
         \/ /\ Crash \/ (Serve /\ (PollClear \/ \E g \in Games : Erase(g)))
            /\ \A h \in Games : Fate(h)' = Fate(h) \/ (Fate(h) = "held" /\ Fate(h)' = "lost")
<1>1. CASE Serve
  <2>1. UNCHANGED <<rows, earlier>>
    BY <1>1 DEF Serve
  <2>2. ASSUME NEW g \in Games \ earlier, NEW t \in Tokens, StartNewGame(g, t)
        PROVE  /\ Fate(g) = "unborn" /\ Fate(g)' \in {"held", "lost"}
               /\ \A h \in Games \ {g} : Fate(h)' = Fate(h)
    BY <2>1, <2>2, StartFate
  <2>3. ASSUME NEW t \in Tokens, StopGame(t) PROVE Unmoved
    BY <2>1, <2>3, QuietFate DEF StopGame
  <2>4. ASSUME NEW g \in Games, GameOver(g) \/ NotFound(g) PROVE Unmoved
    <3>1. /\ UNCHANGED <<storage, preRemove>>
          /\ \A h \in Games : thread'[h] = "none" <=> thread[h] = "none"
      BY <2>4 DEF GameOver, NotFound, SInv, IInv, TypeOK
    <3> QED
      BY <2>1, <3>1, QuietFate
  <2>5. ASSUME NEW g \in Games, PreRemove(g) PROVE Unmoved
    BY <2>1, <2>5, PreRemoveFate
  <2>6. ASSUME NEW g \in Games, Erase(g)
        PROVE  \A h \in Games : Fate(h)' = Fate(h) \/ (Fate(h) = "held" /\ Fate(h)' = "lost")
    BY <2>1, <2>6, EraseFate
  <2>7. CASE PollBegin \/ PollEnd
    BY <2>1, <2>7, QuietFate DEF PollBegin, PollEnd
  <2>8. ASSUME PollClear
        PROVE  \A h \in Games : Fate(h)' = Fate(h) \/ (Fate(h) = "held" /\ Fate(h)' = "lost")
    BY <2>1, <2>8, ClearFate
  <2>9. CASE ListGoesOn
    <3>1. UNCHANGED <<storage, preRemove, thread>>
      BY <2>9 DEF ListGoesOn, ListItem, ListNext, ListEnd, ListLost, ListKeeps
    <3> QED
      BY <2>1, <3>1, QuietFate
  <2> QED
    BY <1>1, <2>2, <2>3, <2>4, <2>5, <2>6, <2>7, <2>8, <2>9
      DEF Serve, GameThread, OnTetrisGameOver
<1>2. CASE StartTetrisWebServer \/ ProcessGetOnlineList \/ ProcessGetRankList \/ UNCHANGED serverVars
  <2>1. UNCHANGED <<rows, earlier, storage, preRemove, thread>>
    BY <1>2 DEF StartTetrisWebServer, ProcessGetOnlineList, ProcessGetRankList, ListBegin,
      ListKeeps, serverVars, vars
  <2> QED
    BY <2>1, QuietFate
<1>3. CASE RecordGame
  BY <1>3, RecordFate
<1>4. CASE Crash
  BY <1>4, CrashFate
<1> QED
  BY <1>1, <1>2, <1>3, <1>4 DEF ServerNext

\* The fate of a game is decided once, over all processes.
THEOREM FatesAreFinal == ServerSpec => ImplementsGameRecords
<1>1. ServerInit => Records!RecordsInit
  <2> SUFFICES ASSUME ServerInit, NEW g \in Games PROVE Fate(g) = "unborn"
    BY DEF Records!RecordsInit
  <2> QED
    BY DEF ServerInit, Init, Fate
<1>2. ASSUME SInv, SInv', [ServerNext]_serverVars PROVE [Records!RecordsNext]_FateOf
  <2>1. CASE Unmoved
    BY <2>1, UnmovedIsStutter
  <2>2. ASSUME NEW g \in Games,
               \/ Fate(g) = "unborn" /\ Fate(g)' \in {"held", "lost"}
               \/ Fate(g) = "held" /\ Fate(g)' = "recorded",
               \A h \in Games \ {g} : Fate(h)' = Fate(h)
        PROVE  Records!RecordsNext
    <3>1. FateOf' = [FateOf EXCEPT ![g] = Fate(g)']
      BY <2>2 DEF FateOf
    <3>2. FateOf[g] = Fate(g)
      BY DEF FateOf
    <3>3. Records!Start(g) \/ Records!Record(g)
      BY <2>2, <3>1, <3>2 DEF Records!Start, Records!Record, FateOf
    <3> QED
      BY <3>3 DEF Records!RecordsNext
  <2>3. CASE \A h \in Games : Fate(h)' = Fate(h) \/ (Fate(h) = "held" /\ Fate(h)' = "lost")
    BY <2>3, LoseMany
  <2> QED
    BY <1>2, <2>1, <2>2, <2>3, FateStep
<1>3. SInv /\ SInv' /\ [ServerNext]_serverVars
        => [Records!RecordsNext]_([g \in Games |-> Fate(g)])
  BY <1>2 DEF FateOf
<1> QED
  BY <1>1, <1>3, ServerInvariant, PTL DEF ServerSpec, ImplementsGameRecords, Records!RecordsSpec

\* A healthy process that goes on loses a game only in the gap of the poll.
THEOREM OnlyTheGapLoses == ServerSpec => LosesOnlyInTheGap
<1>1. ASSUME SInv, SInv', [ServerNext]_serverVars, NEW g \in Games,
             Fate(g) = "held", Fate(g)' = "lost", Healthy'
      PROVE  \/ loop = "clear" /\ \E i \in idx..Len(preRemove) : preRemove[i] = g
             \/ ~Queued(g) /\ holder # NoGame /\ storage[tokenOf[holder]] = g
  <2>1. Crash \/ (Serve /\ (PollClear \/ \E h \in Games : Erase(h)))
    BY <1>1, FateStep DEF Unmoved
  <2>2. ~Crash
    BY <1>1 DEF Crash, DB!Crash, Healthy
  <2>3. UNCHANGED <<dbVars, rows, earlier>> /\ Healthy
    BY <1>1, <2>1, <2>2 DEF Serve, Healthy, dbVars
  <2>4. CASE PollClear
    <3>1. Queued(g)
      BY <1>1, <2>3, <2>4, ClearFate
    <3>2. PICK i \in 1..Len(preRemove) : preRemove[i] = g
      BY <3>1 DEF Queued
    <3>3. idx \in Nat /\ Len(preRemove) \in Nat
      BY <1>1 DEF SInv, IInv, TypeOK
    <3>4. i >= idx
      <4> SUFFICES ASSUME i < idx PROVE FALSE
        BY <3>2, <3>3
      <4>1. records[g] = 1
        BY <1>1, <3>2 DEF SInv, IInv, Counted
      <4>2. thread[g] # "none"
        BY <1>1, <3>1 DEF SInv, IInv, Unborn
      <4>3. rows[g] = 1
        BY <1>1, <2>3, <4>1, <4>2 DEF SInv, HealthyServerStores, Started
      <4> QED
        BY <1>1, <4>3 DEF Fate
    <3> QED
      BY <2>4, <3>2, <3>3, <3>4 DEF PollClear
  <2>5. ASSUME NEW h \in Games, Erase(h)
        PROVE  ~Queued(g) /\ holder # NoGame /\ storage[tokenOf[holder]] = g
    <3>1. ~Queued(g) /\ holder = h /\ storage[tokenOf[h]] = g
      BY <1>1, <2>3, <2>5, EraseFate
    <3> QED
      BY <3>1, GamesAssumption
  <2> QED
    BY <2>1, <2>2, <2>4, <2>5
<1>2. SInv /\ SInv' /\ [ServerNext]_serverVars =>
        [\A g \in Games :
           Fate(g) = "held" /\ Fate(g)' = "lost" /\ Healthy' =>
             \/ loop = "clear" /\ \E i \in idx..Len(preRemove) : preRemove[i] = g
             \/ ~Queued(g) /\ holder # NoGame /\ storage[tokenOf[holder]] = g]_serverVars
  BY <1>1
<1> QED
  BY <1>2, ServerInvariant, PTL DEF ServerSpec, LosesOnlyInTheGap
=============================================================================
