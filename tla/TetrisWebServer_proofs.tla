------------------------ MODULE TetrisWebServer_proofs ------------------------
(***************************************************************************)
(* For any number of games and tokens: the types, and that no game is      *)
(* recorded twice, although the poll takes no lock.  As long as tokens are *)
(* unique, a running game is stored under its token, and only ended games  *)
(* are recorded.                                                           *)
(***************************************************************************)
EXTENDS TetrisWebServer, TLAPS

\* A game that was not started is nowhere.
Unborn ==
  \A g \in Games : thread[g] = "none" =>
    /\ \A t \in Tokens : storage[t] # g
    /\ ~Queued(g)
    /\ records[g] = 0

OneEntry ==
  \A t, u \in Tokens : storage[t] = storage[u] /\ storage[t] # NoGame => t = u

\* The mutex is held between the push_back and the erase, and then the entry to
\* be erased is still stored.
Holding ==
  /\ \A g \in Games : thread[g] = "locked" <=> holder = g
  /\ holder # NoGame => storage[tokenOf[holder]] # NoGame

\* A stored game is not queued and not recorded, unless it is about to be erased.
Fresh ==
  \A t \in Tokens :
    storage[t] # NoGame /\ ~(holder # NoGame /\ t = tokenOf[holder]) =>
      ~Queued(storage[t]) /\ records[storage[t]] = 0

QueuedOnce ==
  \A i, j \in 1..Len(preRemove) : preRemove[i] = preRemove[j] => i = j

\* Of the queued games exactly those the poll has passed are recorded.
Counted ==
  /\ idx \in 1..Len(preRemove) + 1
  /\ loop \notin {"insert", "clear"} => idx = 1
  /\ \A i \in 1..Len(preRemove) :
       /\ i < idx => records[preRemove[i]] = 1
       /\ i >= idx => records[preRemove[i]] = 0

IInv ==
  /\ TypeOK
  /\ Unborn
  /\ OneEntry
  /\ Holding
  /\ Fresh
  /\ QueuedOnce
  /\ Counted
  /\ RecordedAtMostOnce

\* The initial state satisfies the inductive invariant.
LEMMA InitIInv == Init => IInv
<1>1. AnyToken \in Tokens
  BY GamesAssumption DEF AnyToken
<1> QED
  BY <1>1, GamesAssumption DEF Init, IInv, TypeOK, ThreadPoints, LoopPoints, Unborn,
  OneEntry, Holding, Fresh, QueuedOnce, Counted, RecordedAtMostOnce, Queued

\* A start stores the new game or nothing.
LEMMA StartIInv ==
  ASSUME IInv, NEW g \in Games, NEW t \in Tokens, StartNewGame(g, t) PROVE IInv'
<1> USE GamesAssumption DEF StartNewGame, Serving, IInv, TypeOK, ThreadPoints
<1>1. TypeOK'
  OBVIOUS
<1>2. \A h \in Games : Queued(h)' <=> Queued(h)
  BY DEF Queued
<1>3. Unborn' /\ OneEntry'
  BY <1>2 DEF Unborn, OneEntry
<1>4. Holding'
  BY DEF Holding
<1>5. Fresh'
  BY <1>2 DEF Fresh, Unborn
<1> QED
  BY <1>1, <1>3, <1>4, <1>5 DEF QueuedOnce, Counted, RecordedAtMostOnce

\* The end of a game, by a stop or by itself, changes its status only.
LEMMA OverIInv ==
  ASSUME IInv,
         UNCHANGED <<storage, tokenOf, thread, holder, preRemove, loop, idx, cursor, records>>,
         NEW g \in Games, status' = [status EXCEPT ![g] = "over"]
  PROVE  IInv'
BY DEF IInv, TypeOK, Unborn, OneEntry, Holding, Fresh, QueuedOnce, Counted,
  RecordedAtMostOnce, Queued

\* The queued game was stored, so it was neither queued nor recorded before.
LEMMA PreRemoveIInv == ASSUME IInv, NEW g \in Games, PreRemove(g) PROVE IInv'
<1> DEFINE v == storage[tokenOf[g]]
<1> USE GamesAssumption DEF PreRemove, IInv, TypeOK, ThreadPoints
<1>1. v \in Games /\ tokenOf[g] \in Tokens
  OBVIOUS
<1>2. TypeOK'
  BY <1>1
<1>3. ~Queued(v) /\ records[v] = 0 /\ thread[v] # "none"
  BY <1>1 DEF Fresh, Unborn
<1>4. /\ Len(preRemove') = Len(preRemove) + 1
      /\ preRemove'[Len(preRemove) + 1] = v
      /\ \A i \in 1..Len(preRemove) : preRemove'[i] = preRemove[i]
  BY <1>1
<1>5. \A h \in Games : Queued(h)' <=> Queued(h) \/ h = v
  BY <1>4 DEF Queued
<1>6. Unborn' /\ OneEntry' /\ Holding'
  BY <1>1, <1>3, <1>5 DEF Unborn, OneEntry, Holding
<1>7. Fresh'
  BY <1>1, <1>5 DEF Fresh, OneEntry
<1>8. /\ QueuedOnce /\ Counted /\ Len(preRemove) \in Nat
      /\ UNCHANGED <<loop, idx, cursor, records>>
  OBVIOUS
<1> HIDE DEF PreRemove, IInv, TypeOK, ThreadPoints, v
<1>9. QueuedOnce'
  BY <1>3, <1>4, <1>8 DEF QueuedOnce, Queued
<1>10. Counted'
  BY <1>3, <1>4, <1>8 DEF Counted
<1>11. RecordedAtMostOnce'
  BY <1>8 DEF RecordedAtMostOnce, IInv
<1> QED
  BY <1>2, <1>6, <1>7, <1>9, <1>10, <1>11 DEF IInv

\* The entry goes while its game stays queued, or has been recorded by now.
LEMMA EraseIInv == ASSUME IInv, NEW g \in Games, Erase(g) PROVE IInv'
<1> USE GamesAssumption DEF Erase, IInv, TypeOK, ThreadPoints
<1>1. TypeOK'
  OBVIOUS
<1>2. \A h \in Games : Queued(h)' <=> Queued(h)
  BY DEF Queued
<1>3. Unborn' /\ OneEntry' /\ Holding'
  BY <1>2 DEF Unborn, OneEntry, Holding
<1>4. Fresh'
  BY <1>2 DEF Fresh, Holding
<1> QED
  BY <1>1, <1>3, <1>4 DEF QueuedOnce, Counted, RecordedAtMostOnce

\* A thread that finds nothing to remove only exits.
LEMMA NotFoundIInv == ASSUME IInv, NEW g \in Games, NotFound(g) PROVE IInv'
<1> USE GamesAssumption DEF NotFound, IInv, TypeOK, ThreadPoints
<1>1. TypeOK'
  OBVIOUS
<1>2. \A h \in Games : Queued(h)' <=> Queued(h)
  BY DEF Queued
<1>3. Unborn' /\ OneEntry' /\ Holding' /\ Fresh'
  BY <1>2 DEF Unborn, OneEntry, Holding, Fresh
<1> QED
  BY <1>1, <1>3 DEF QueuedOnce, Counted, RecordedAtMostOnce

\* The poll records the game at idx, which is queued once and was not recorded.
LEMMA PollInsertIInv == ASSUME IInv, PollInsert PROVE IInv'
<1> DEFINE v == preRemove[idx]
<1> USE GamesAssumption DEF PollInsert, IInv, TypeOK, ThreadPoints
<1>1. v \in Games /\ idx \in 1..Len(preRemove)
  BY DEF Counted
<1>2. TypeOK'
  BY <1>1
<1>3. Queued(v) /\ records[v] = 0
  BY <1>1 DEF Queued, Counted
<1>4. \A h \in Games : Queued(h)' <=> Queued(h)
  BY DEF Queued
<1>5. Unborn' /\ OneEntry' /\ Holding'
  BY <1>1, <1>3, <1>4 DEF Unborn, OneEntry, Holding
<1>6. Fresh'
  BY <1>1, <1>3, <1>4 DEF Fresh
<1>7. QueuedOnce'
  BY DEF QueuedOnce
<1>8. Counted'
  BY <1>1, <1>3 DEF Counted, QueuedOnce
<1> QED
  BY <1>1, <1>2, <1>3, <1>5, <1>6, <1>7, <1>8 DEF RecordedAtMostOnce

\* Clearing the queue makes nothing fresh: what is stored was not queued.
LEMMA PollClearIInv == ASSUME IInv, PollClear PROVE IInv'
<1> USE DEF PollClear, IInv, TypeOK, LoopPoints
<1>1. \A h \in Games : ~Queued(h)'
  BY DEF Queued
<1> QED
  BY <1>1 DEF Unborn, OneEntry, Holding, Fresh, QueuedOnce, Counted, RecordedAtMostOnce

\* The rest of the poll moves the event loop only.
LEMMA PollOtherIInv ==
  ASSUME IInv, PollBegin \/ PollEnd \/ UNCHANGED vars PROVE IInv'
<1> USE DEF IInv, TypeOK, LoopPoints, Unborn, OneEntry, Holding, Fresh, QueuedOnce, Counted,
  RecordedAtMostOnce, Queued
<1>1. CASE PollBegin
  BY <1>1 DEF PollBegin
<1>2. CASE PollEnd
  BY <1>2 DEF PollEnd
<1>3. CASE UNCHANGED vars
  BY <1>3 DEF vars
<1> QED
  BY <1>1, <1>2, <1>3

\* A walk through the storage changes the iterator only.
LEMMA ListIInv == ASSUME IInv, List PROVE IInv'
<1> USE GamesAssumption DEF IInv, TypeOK, LoopPoints
<1>1. AnyToken \in Tokens
  BY DEF AnyToken
<1>2. CASE Undefined
  BY <1>2, PollOtherIInv DEF Undefined
<1>3. CASE ListBegin \/ ListGoesOn
  <2>1. /\ ListKeeps /\ loop \notin {"insert", "clear"}
        /\ loop' \in LoopPoints \ {"insert", "clear"}
    BY <1>3 DEF ListBegin, ListGoesOn, ListItem, ListNext, ListEnd, ListLost
  <2>2. cursor' \in Tokens
    BY <1>1, <1>3 DEF ListBegin, ListGoesOn, ListItem, ListNext, ListEnd, ListLost, Stored, Later
  <2>3. \A h \in Games : Queued(h)' <=> Queued(h)
    BY <2>1 DEF Queued, ListKeeps
  <2> QED
    BY <2>1, <2>2, <2>3 DEF ListKeeps, Unborn, OneEntry, Holding, Fresh, QueuedOnce,
    Counted, RecordedAtMostOnce
<1> QED
  BY <1>2, <1>3 DEF List

\* Every step keeps the inductive invariant.
LEMMA NextIInv == IInv /\ [Next]_vars => IInv'
<1> SUFFICES ASSUME IInv, [Next]_vars PROVE IInv'
  OBVIOUS
<1>1. ASSUME NEW g \in Games, NEW t \in Tokens, StartNewGame(g, t) PROVE IInv'
  BY <1>1, StartIInv
<1>2. ASSUME NEW t \in Tokens, StopGame(t) PROVE IInv'
  <2>1. storage[t] \in Games
    BY <1>2 DEF StopGame, IInv, TypeOK
  <2> QED
    BY <1>2, <2>1, OverIInv DEF StopGame
<1>3. ASSUME NEW g \in Games, GameThread(g) PROVE IInv'
  <2>1. CASE GameOver(g)
    BY <2>1, OverIInv DEF GameOver
  <2> QED
    BY <1>3, <2>1, PreRemoveIInv, EraseIInv, NotFoundIInv DEF GameThread, OnTetrisGameOver
<1>4. CASE Poll
  BY <1>4, PollInsertIInv, PollClearIInv, PollOtherIInv DEF Poll, PollNothing, PollGoesOn
<1>5. CASE List
  BY <1>5, ListIInv
<1>6. CASE UNCHANGED vars
  BY <1>6, PollOtherIInv
<1> QED
  BY <1>1, <1>2, <1>3, <1>4, <1>5, <1>6 DEF Next

\* The inductive invariant holds in every reachable state.
LEMMA Invariant == Spec => []IInv
BY InitIInv, NextIInv, PTL DEF Spec

\* The server's containers keep their types.
THEOREM TypeCorrect == Spec => []TypeOK
<1>1. IInv => TypeOK
  BY DEF IInv
<1> QED
  BY <1>1, Invariant, PTL

\* However the poll interleaves with games that end, none is recorded twice.
THEOREM NoDoubleRecord == Spec => []RecordedAtMostOnce
<1>1. IInv => RecordedAtMostOnce
  BY DEF IInv
<1> QED
  BY <1>1, Invariant, PTL
-----------------------------------------------------------------------------
\* What appending a game does to a list of games.
LEMMA AppendGame ==
  ASSUME NEW s \in Seq(Games), NEW h \in Games
  PROVE  /\ Append(s, h) \in Seq(Games)
         /\ Len(s) \in Nat
         /\ Len(Append(s, h)) = Len(s) + 1
         /\ Append(s, h)[Len(s) + 1] = h
         /\ \A i \in 1..Len(s) : Append(s, h)[i] = s[i]
  OBVIOUS

-----------------------------------------------------------------------------
(* Unique tokens. *)

\* An entry is under the token of its game, which was started.
StoredUnderToken ==
  \A t \in Tokens :
    storage[t] # NoGame => tokenOf[storage[t]] = t /\ thread[storage[t]] # "none"

\* As long as no token came back, only ended games are queued or recorded.
OverWhenQueued ==
  UniqueTokens => \A g \in Games : Queued(g) \/ records[g] > 0 => status[g] = "over"

UInv == StoredUnderToken /\ RunningIsStored /\ OverWhenQueued

\* Uniqueness of the tokens, once lost, does not come back: no game changes its
\* token, and none is unstarted.
LEMMA TokensStayRepeated == ASSUME TypeOK, [Next]_vars, UniqueTokens' PROVE UniqueTokens
<1>1. \A g \in Started : g \in Started' /\ tokenOf'[g] = tokenOf[g]
  <2> USE DEF Started, TypeOK, ThreadPoints
  <2>1. ASSUME NEW g \in Games, NEW t \in Tokens, StartNewGame(g, t) PROVE <1>1
    BY <2>1 DEF StartNewGame
  <2>2. ASSUME NEW g \in Games, GameThread(g) PROVE <1>1
    BY <2>2 DEF GameThread, OnTetrisGameOver, GameOver, PreRemove, Erase, NotFound
  <2>3. CASE UNCHANGED <<thread, tokenOf>>
    BY <2>3
  <2>4. ASSUME NEW t \in Tokens, StopGame(t) PROVE <1>1
    BY <2>4 DEF StopGame
  <2>5. CASE Poll
    BY <2>5 DEF Poll, PollNothing, PollBegin, PollGoesOn, PollInsert, PollEnd, PollClear, vars
  <2>6. CASE List
    BY <2>6 DEF List, ListBegin, ListGoesOn, ListItem, ListNext, ListEnd, ListLost,
    ListKeeps, Undefined, vars
  <2> QED
    BY <2>1, <2>2, <2>3, <2>4, <2>5, <2>6 DEF Next, vars
<1> QED
  BY <1>1 DEF UniqueTokens

\* Steps that leave the storage, the threads, the queue and the records alone.
LEMMA QuietUInv ==
  ASSUME UInv, UNCHANGED <<storage, tokenOf, status, thread, preRemove, records>>
  PROVE  UInv'
BY DEF UInv, StoredUnderToken, RunningIsStored, OverWhenQueued, UniqueTokens, Started, Queued

\* A start finds its token unused, unless a token has come back.
LEMMA StartUInv ==
  ASSUME IInv, UInv, NEW g \in Games, NEW t \in Tokens, StartNewGame(g, t) PROVE UInv'
<1> USE GamesAssumption DEF IInv, TypeOK, ThreadPoints, StartNewGame, Started
<1>1. UniqueTokens' => UniqueTokens
  BY TokensStayRepeated DEF Next
<1>2. UniqueTokens' => \A h \in Games : thread[h] # "none" => tokenOf[h] # t
  BY DEF UniqueTokens
<1>3. StoredUnderToken'
  BY DEF UInv, StoredUnderToken, Unborn
<1>4. UniqueTokens' => storage[t] = NoGame
  BY <1>2 DEF UInv, StoredUnderToken
<1>5. RunningIsStored'
  BY <1>1, <1>2, <1>4 DEF UInv, RunningIsStored
<1>6. \A h \in Games : Queued(h)' <=> Queued(h)
  BY DEF Queued
<1>7. OverWhenQueued'
  BY <1>1, <1>6 DEF UInv, OverWhenQueued, Unborn
<1> QED
  BY <1>3, <1>5, <1>7 DEF UInv

\* The end of a game takes no entry away.
LEMMA OverUInv ==
  ASSUME IInv, UInv,
         UNCHANGED <<storage, tokenOf, thread, preRemove, records>>,
         NEW g \in Games, status' = [status EXCEPT ![g] = "over"]
  PROVE  UInv'
BY DEF IInv, TypeOK, UInv, StoredUnderToken, RunningIsStored, OverWhenQueued, UniqueTokens,
  Started, Queued

\* As long as tokens are unique the thread of an ended game queues its own game,
\* and erases its own entry.
LEMMA GameThreadUInv ==
  ASSUME IInv, UInv, NEW g \in Games, OnTetrisGameOver(g) PROVE UInv'
<1> USE GamesAssumption DEF IInv, TypeOK, ThreadPoints
<1>1. UniqueTokens' => UniqueTokens
  BY TokensStayRepeated DEF Next, GameThread
<1>2. StoredUnderToken'
  BY DEF OnTetrisGameOver, PreRemove, Erase, NotFound, UInv, StoredUnderToken
<1>3. RunningIsStored'
  <2> SUFFICES ASSUME UniqueTokens', NEW h \in Games, thread'[h] \in {"loop", "locked"}
               PROVE  storage'[tokenOf'[h]] = h
    BY DEF RunningIsStored
  <2>1. thread[h] \in {"loop", "locked"} /\ tokenOf' = tokenOf
    BY DEF OnTetrisGameOver, PreRemove, Erase, NotFound
  <2>2. storage[tokenOf[h]] = h
    BY <1>1, <2>1 DEF UInv, RunningIsStored
  <2>3. CASE PreRemove(g) \/ NotFound(g)
    BY <2>1, <2>2, <2>3 DEF PreRemove, NotFound
  <2>4. CASE Erase(g)
    <3>1. h # g
      BY <2>4 DEF Erase
    <3>2. tokenOf[h] # tokenOf[g]
      BY <1>1, <2>1, <2>4, <3>1 DEF Erase, UniqueTokens, Started
    <3> QED
      BY <2>1, <2>2, <2>4, <3>2 DEF Erase
  <2> QED
    BY <2>3, <2>4 DEF OnTetrisGameOver
<1>4. OverWhenQueued'
  <2>1. CASE PreRemove(g)
    <3>1. UniqueTokens' => storage[tokenOf[g]] = g
      BY <1>1, <2>1 DEF PreRemove, UInv, RunningIsStored
    <3>2. UniqueTokens' => preRemove' = Append(preRemove, g)
      BY <2>1, <3>1 DEF PreRemove
    <3>3. UniqueTokens' => \A h \in Games : Queued(h)' => Queued(h) \/ h = g
      <4> SUFFICES ASSUME UniqueTokens', NEW h \in Games, Queued(h)' PROVE Queued(h) \/ h = g
        OBVIOUS
      <4>1. PICK i \in 1..Len(preRemove') : preRemove'[i] = h
        BY DEF Queued
      <4>2. /\ Len(preRemove) \in Nat /\ Len(preRemove') = Len(preRemove) + 1
            /\ preRemove'[Len(preRemove) + 1] = g
            /\ \A k \in 1..Len(preRemove) : preRemove'[k] = preRemove[k]
        <5>1. preRemove \in Seq(Games) /\ preRemove' = Append(preRemove, g)
          BY <3>2 DEF IInv, TypeOK
        <5> HIDE DEF IInv
        <5> QED
          BY <5>1, AppendGame
      <4>3. CASE i = Len(preRemove) + 1
        BY <4>1, <4>2, <4>3
      <4>4. CASE i \in 1..Len(preRemove)
        BY <4>1, <4>2, <4>4 DEF Queued
      <4> QED
        BY <4>1, <4>2, <4>3, <4>4
    <3> QED
      BY <1>1, <2>1, <3>3 DEF PreRemove, UInv, OverWhenQueued
  <2>2. CASE Erase(g) \/ NotFound(g)
    BY <1>1, <2>2 DEF Erase, NotFound, UInv, OverWhenQueued, Queued
  <2> QED
    BY <2>1, <2>2 DEF OnTetrisGameOver
<1> QED
  BY <1>2, <1>3, <1>4 DEF UInv

\* The poll records queued games, and empties the queue.
LEMMA PollUInv == ASSUME IInv, UInv, PollGoesOn PROVE UInv'
<1> USE DEF IInv, TypeOK, UInv, StoredUnderToken, RunningIsStored, OverWhenQueued,
  UniqueTokens, Started
<1>1. CASE PollInsert
  <2>1. preRemove[idx] \in Games /\ Queued(preRemove[idx])
    BY <1>1 DEF PollInsert, Queued, Counted
  <2>2. \A h \in Games : Queued(h)' <=> Queued(h)
    BY <1>1 DEF PollInsert, Queued
  <2>3. \A h \in Games : records'[h] > 0 => records[h] > 0 \/ h = preRemove[idx]
    BY <1>1, <2>1 DEF PollInsert
  <2> QED
    BY <1>1, <2>1, <2>2, <2>3 DEF PollInsert
<1>2. CASE PollEnd
  BY <1>2, QuietUInv DEF PollEnd
<1>3. CASE PollClear
  <2>1. \A h \in Games : ~Queued(h)'
    BY <1>3 DEF PollClear, Queued
  <2> QED
    BY <1>3, <2>1 DEF PollClear
<1> QED
  BY <1>1, <1>2, <1>3 DEF PollGoesOn

\* Every step keeps the running games stored as long as tokens are unique.
LEMMA NextUInv == IInv /\ UInv /\ [Next]_vars => UInv'
<1> SUFFICES ASSUME IInv, UInv, [Next]_vars PROVE UInv'
  OBVIOUS
<1>1. ASSUME NEW g \in Games, NEW t \in Tokens, StartNewGame(g, t) PROVE UInv'
  BY <1>1, StartUInv
<1>2. ASSUME NEW t \in Tokens, StopGame(t) PROVE UInv'
  <2>1. storage[t] \in Games
    BY <1>2 DEF StopGame, IInv, TypeOK
  <2> QED
    BY <1>2, <2>1, OverUInv DEF StopGame
<1>3. ASSUME NEW g \in Games, GameThread(g) PROVE UInv'
  BY <1>3, OverUInv, GameThreadUInv DEF GameThread, GameOver
<1>4. CASE Poll
  BY <1>4, PollUInv, QuietUInv DEF Poll, PollNothing, PollBegin, vars
<1>5. CASE List
  BY <1>5, QuietUInv DEF List, ListBegin, ListGoesOn, ListItem, ListNext, ListEnd, ListLost,
  ListKeeps, Undefined, vars
<1>6. CASE UNCHANGED vars
  BY <1>6, QuietUInv DEF vars
<1> QED
  BY <1>1, <1>2, <1>3, <1>4, <1>5, <1>6 DEF Next

\* The invariant about unique tokens holds in every reachable state.
LEMMA UniqueInvariant == Spec => []UInv
<1>1. Init => UInv
  BY GamesAssumption DEF Init, UInv, StoredUnderToken, RunningIsStored, OverWhenQueued, Queued
<1> QED
  BY <1>1, NextUInv, Invariant, PTL DEF Spec

\* As long as tokens are unique, requests find a game while its thread runs.
THEOREM RunningGamesAreStored == Spec => []RunningIsStored
<1>1. UInv => RunningIsStored
  BY DEF UInv
<1> QED
  BY <1>1, UniqueInvariant, PTL

\* As long as tokens are unique, only the final score of a game is recorded.
THEOREM OnlyEndedGamesAreRecorded == Spec => []RecordedWhenOver
<1>1. UInv => RecordedWhenOver
  BY DEF UInv, OverWhenQueued, RecordedWhenOver
<1> QED
  BY <1>1, UniqueInvariant, PTL
=============================================================================
