--------------------------- MODULE TetrisWebServer ---------------------------
(***************************************************************************)
(* The life of the games in the server (src/src/server/tetris_web_server.  *)
(* cpp): the storage of running games, the queue of games to be recorded   *)
(* and removed, and the record of a game in the database.  Two kinds of    *)
(* threads act: the event loop, which serves requests and polls, and one   *)
(* thread for each game, which calls OnTetrisGameOver when its game ended. *)
(*                                                                         *)
(* StartNewGame and PreProcess hold stroage_mutex_ from their first access *)
(* to the storage to their end and are one action each.  OnTetrisGameOver  *)
(* holds it too, but MongoosePollEvent does not take it, so these two are  *)
(* split at each access to pre_remove_tetris_.  The accesses race (the     *)
(* vector has no lock); each is modelled as atomic, the mildest outcome.   *)
(* ProcessGetOnlineList walks through the storage without the mutex, too:  *)
(* if it steps from entry to entry while a thread erases one, or if the    *)
(* entry its iterator points at is erased, what it does from there on is   *)
(* undefined: it may go right, or the model follows it no further.         *)
(* TetrisThread says when a game ends; here it may at any time, and before *)
(* its thread has started it, too.  The poll does not look at what         *)
(* InsertRecord returns; TetrisServer says which calls leave a row.        *)
(***************************************************************************)
EXTENDS Naturals, Sequences

CONSTANTS
  Games,          \* the Tetris instances
  Tokens,         \* the values of token_id, in the order of their strings
  NoGame

ASSUME GamesAssumption == NoGame \notin Games /\ Tokens # {} /\ Tokens \subseteq Nat

VARIABLES
  storage,     \* tetris_storage_
  tokenOf,     \* token_id_ of each game; of no meaning before its start
  status,      \* its tetris_status_, as far as it is over or not
  thread,      \* where its thread is
  holder,      \* the game whose thread holds stroage_mutex_
  preRemove,   \* pre_remove_tetris_
  loop, idx,   \* where the event loop is, and i + 1 in MongoosePollEvent
  cursor,      \* iter of ProcessGetOnlineList, by the token of its entry
  records      \* how often InsertRecord was called for each game

vars ==
  <<storage, tokenOf, status, thread, holder, preRemove, loop, idx, cursor, records>>

\* "loop": in RunTetris; "locked": in OnTetrisGameOver, after the push_back.
ThreadPoints == {"none", "loop", "locked", "exited"}

\* "insert", "clear": in MongoosePollEvent; "list": at an entry of the storage in
\* ProcessGetOnlineList; "next": before iter++; "lost": iter points nowhere.
LoopPoints == {"idle", "insert", "clear", "list", "next", "lost"}

AnyToken == CHOOSE t \in Tokens : TRUE

TypeOK ==
  /\ storage \in [Tokens -> Games \cup {NoGame}]
  /\ tokenOf \in [Games -> Tokens]
  /\ status \in [Games -> {"none", "running", "over"}]
  /\ thread \in [Games -> ThreadPoints]
  /\ holder \in Games \cup {NoGame}
  /\ preRemove \in Seq(Games)
  /\ loop \in LoopPoints
  /\ idx \in Nat
  /\ cursor \in Tokens
  /\ records \in [Games -> Nat]

Init ==
  /\ storage = [t \in Tokens |-> NoGame]
  /\ tokenOf = [g \in Games |-> AnyToken]
  /\ status = [g \in Games |-> "none"]
  /\ thread = [g \in Games |-> "none"]
  /\ holder = NoGame
  /\ preRemove = <<>>
  /\ loop = "idle"
  /\ idx = 1
  /\ cursor = AnyToken
  /\ records = [g \in Games |-> 0]

Started == {g \in Games : thread[g] # "none"}

UniqueTokens == \A g, h \in Started : tokenOf[g] = tokenOf[h] => g = h

\* The tokens under which a game is stored.
Stored == {t \in Tokens : storage[t] # NoGame}

Queued(g) == \E i \in 1..Len(preRemove) : preRemove[i] = g

\* The instance is held by a shared_ptr, in the storage or in the queue.
Alive(g) == Queued(g) \/ \E t \in Tokens : storage[t] = g
-----------------------------------------------------------------------------
(* Requests, served by the event loop while it is not polling. *)

Serving == loop = "idle" /\ holder = NoGame

\* StartNewGame, with whatever token rand() gives (TokenSource says when one comes
\* back).  std::map::insert does not replace an entry; a game that is not stored
\* is started all the same, and loses its instance with this call.
StartNewGame(g, t) ==
  /\ Serving
  /\ thread[g] = "none"
  /\ storage' = IF storage[t] = NoGame THEN [storage EXCEPT ![t] = g] ELSE storage
  /\ tokenOf' = [tokenOf EXCEPT ![g] = t]
  /\ status' = [status EXCEPT ![g] = "running"]
  /\ thread' = [thread EXCEPT ![g] = "loop"]
  /\ UNCHANGED <<holder, preRemove, loop, idx, cursor, records>>

\* Mutant of StopGame: takes the game out of the storage at once.
StopGame_Removes(t) ==
  /\ Serving
  /\ storage[t] # NoGame
  /\ status[storage[t]] = "running"
  /\ status' = [status EXCEPT ![storage[t]] = "over"]
  /\ storage' = [storage EXCEPT ![t] = NoGame]
  /\ UNCHANGED <<tokenOf, thread, holder, preRemove, loop, idx, cursor, records>>

\* PreProcess of a stop; the other operations change nothing modelled here.
StopGame(t) ==
  /\ Serving
  /\ storage[t] # NoGame
  /\ status[storage[t]] = "running"
  /\ status' = [status EXCEPT ![storage[t]] = "over"]
  /\ UNCHANGED <<storage, tokenOf, thread, holder, preRemove, loop, idx, cursor, records>>
-----------------------------------------------------------------------------
(* The thread of a game. *)

\* A landing, or a pause that lasts too long, ends the game.
GameOver(g) ==
  /\ thread[g] = "loop"
  /\ status[g] = "running"
  /\ status' = [status EXCEPT ![g] = "over"]
  /\ UNCHANGED <<storage, tokenOf, thread, holder, preRemove, loop, idx, cursor, records>>

\* Mutant of PreRemove: the thread leaves its loop whatever the status.
PreRemove_AnyStatus(g) ==
  /\ thread[g] = "loop"
  /\ holder = NoGame
  /\ storage[tokenOf[g]] # NoGame
  /\ preRemove' = Append(preRemove, storage[tokenOf[g]])
  /\ holder' = g
  /\ thread' = [thread EXCEPT ![g] = "locked"]
  /\ UNCHANGED <<storage, tokenOf, status, loop, idx, cursor, records>>

\* OnTetrisGameOver, lines 289-292: under the mutex, whatever is stored under
\* the token of this game is queued.
PreRemove(g) ==
  /\ thread[g] = "loop" /\ status[g] = "over"
  /\ holder = NoGame
  /\ storage[tokenOf[g]] # NoGame
  /\ preRemove' = Append(preRemove, storage[tokenOf[g]])
  /\ holder' = g
  /\ thread' = [thread EXCEPT ![g] = "locked"]
  /\ UNCHANGED <<storage, tokenOf, status, loop, idx, cursor, records>>

\* Mutant of Erase: leaves the entry in the storage.
Erase_Keeps(g) ==
  /\ thread[g] = "locked"
  /\ holder' = NoGame
  /\ thread' = [thread EXCEPT ![g] = "exited"]
  /\ UNCHANGED <<storage, tokenOf, status, preRemove, loop, idx, cursor, records>>

\* Lines 293-296: the entry is erased, the mutex released, the thread returns.
Erase(g) ==
  /\ thread[g] = "locked"
  /\ storage' = [storage EXCEPT ![tokenOf[g]] = NoGame]
  /\ holder' = NoGame
  /\ thread' = [thread EXCEPT ![g] = "exited"]
  /\ UNCHANGED <<tokenOf, status, preRemove, loop, idx, cursor, records>>

\* Line 291: nothing is stored under the token.
NotFound(g) ==
  /\ thread[g] = "loop" /\ status[g] = "over"
  /\ holder = NoGame
  /\ storage[tokenOf[g]] = NoGame
  /\ thread' = [thread EXCEPT ![g] = "exited"]
  /\ UNCHANGED <<storage, tokenOf, status, holder, preRemove, loop, idx, cursor, records>>
-----------------------------------------------------------------------------
(* MongoosePollEvent, without the mutex. *)

\* Lines 165-167.
PollNothing ==
  /\ loop = "idle"
  /\ preRemove = <<>>
  /\ UNCHANGED vars

PollBegin ==
  /\ loop = "idle"
  /\ preRemove # <<>>
  /\ loop' = "insert"
  /\ idx' = 1
  /\ UNCHANGED <<storage, tokenOf, status, thread, holder, preRemove, cursor, records>>

\* One iteration of the loop, lines 169-177.
PollInsert ==
  /\ loop = "insert"
  /\ idx <= Len(preRemove)
  /\ records' = [records EXCEPT ![preRemove[idx]] = @ + 1]
  /\ idx' = idx + 1
  /\ UNCHANGED <<storage, tokenOf, status, thread, holder, preRemove, loop, cursor>>

\* The last test of the loop.
PollEnd ==
  /\ loop = "insert"
  /\ idx > Len(preRemove)
  /\ loop' = "clear"
  /\ UNCHANGED <<storage, tokenOf, status, thread, holder, preRemove, idx, cursor, records>>

\* Mutant of PollClear: forgets to clear.
PollClear_Forgets ==
  /\ loop = "clear"
  /\ loop' = "idle"
  /\ idx' = 1
  /\ UNCHANGED <<storage, tokenOf, status, thread, holder, preRemove, cursor, records>>

\* Line 178: whatever is queued by now is dropped.
PollClear ==
  /\ loop = "clear"
  /\ preRemove' = <<>>
  /\ loop' = "idle"
  /\ idx' = 1
  /\ UNCHANGED <<storage, tokenOf, status, thread, holder, cursor, records>>
-----------------------------------------------------------------------------
(* ProcessGetOnlineList, without the mutex. *)

ListKeeps == UNCHANGED <<storage, tokenOf, status, thread, holder, preRemove, idx, records>>

\* The thread of a game is between the push_back and the end of the erase: a step
\* through the tree without the mutex races with it.
Erasing == holder # NoGame

\* begin(); an empty storage gives an empty answer.
ListBegin ==
  /\ loop = "idle"
  /\ Stored # {}
  /\ \/ (\E t \in Stored : (\A u \in Stored : t <= u) /\ cursor' = t) /\ loop' = "list"
     \/ Erasing /\ cursor' = AnyToken /\ loop' = "lost"
  /\ ListKeeps

\* Lines 226-233.
ListItem ==
  /\ loop = "list"
  /\ cursor \in Stored
  /\ loop' = "next"
  /\ UNCHANGED cursor
  /\ ListKeeps

\* The entries behind the iterator.
Later == {t \in Stored : t > cursor}

\* iter++, to the entry with the next token.
ListNext ==
  /\ loop = "next"
  /\ cursor \in Stored
  /\ \E t \in Later : (\A u \in Later : t <= u) /\ cursor' = t
  /\ loop' = "list"
  /\ ListKeeps

\* iter == end(): the answer is sent.
ListEnd ==
  /\ loop = "next"
  /\ cursor \in Stored
  /\ Later = {}
  /\ loop' = "idle"
  /\ cursor' = AnyToken
  /\ ListKeeps

\* The entry was erased under the iterator, or is; or iter++ meets an erase.
ListLost ==
  /\ \/ loop \in {"list", "next"} /\ cursor \notin Stored
     \/ loop = "list" /\ Erasing /\ cursor = tokenOf[holder]
     \/ loop = "next" /\ Erasing
  /\ loop' = "lost"
  /\ cursor' = AnyToken
  /\ ListKeeps

\* The model of the event loop ends here; the threads of the games go on.
Undefined == loop = "lost" /\ UNCHANGED vars
-----------------------------------------------------------------------------
OnTetrisGameOver(g) == PreRemove(g) \/ Erase(g) \/ NotFound(g)

GameThread(g) == GameOver(g) \/ OnTetrisGameOver(g)

PollGoesOn == PollInsert \/ PollEnd \/ PollClear

Poll == PollNothing \/ PollBegin \/ PollGoesOn

ListGoesOn == ListItem \/ ListNext \/ ListEnd \/ ListLost

List == ListBegin \/ ListGoesOn \/ Undefined

Next ==
  \/ \E g \in Games, t \in Tokens : StartNewGame(g, t)
  \/ \E t \in Tokens : StopGame(t)
  \/ \E g \in Games : GameThread(g)
  \/ Poll
  \/ List

Spec == Init /\ [][Next]_vars

(***************************************************************************)
(* mg_mgr_poll raises MG_EV_POLL for every connection again and again, for *)
(* ever and between the requests: a poll gets its turn however many lists  *)
(* are asked for.  The thread of an ended game gets stroage_mutex_ in the  *)
(* end, although the event loop takes it again and again.  No game has to  *)
(* end, and nobody has to ask for a list.                                  *)
(***************************************************************************)
FairSpec ==
  /\ Spec
  /\ SF_vars(PollBegin)
  /\ WF_vars(PollGoesOn \/ ListGoesOn)
  /\ \A g \in Games : SF_vars(OnTetrisGameOver(g))
-----------------------------------------------------------------------------
\* No game is recorded twice: not by the next poll, not when its entry is still
\* stored while the poll has recorded it already, not when tokens come back and
\* one game's thread removes another game.
RecordedAtMostOnce == \A g \in Games : records[g] <= 1

\* As long as no token came back: only ended games are recorded, so the score in
\* the record is final.
RecordedWhenOver ==
  UniqueTokens => \A g \in Games : records[g] > 0 => status[g] = "over"

\* As long as no token came back: while the thread of a game runs, requests find
\* the game under its token.
RunningIsStored ==
  UniqueTokens =>
    \A g \in Games : thread[g] \in {"loop", "locked"} => storage[tokenOf[g]] = g

\* An ended game leaves the server, unless the event loop has lost its way.
EndedGamesLeave ==
  \A g \in Games : status[g] = "over" ~> ~Alive(g) \/ loop = "lost"

\* doc/tetris_protocol.md: the user can look at the record of a game later.  So a
\* game that has left the server, and its thread with it, is in the database (as
\* long as no token came back).
GoneIsRecorded ==
  UniqueTokens =>
    \A g \in Games : thread[g] = "exited" /\ ~Alive(g) => records[g] > 0
=============================================================================
