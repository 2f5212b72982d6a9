----------------------------- MODULE TokenSource -----------------------------
(***************************************************************************)
(* Where tokens and pieces come from: the one rand() of the process.       *)
(* StartTetrisWebServer seeds it with the time; every new game seeds it    *)
(* again with the time (TetrominoFactory), and every RandomString and      *)
(* every piece of every game draws from it.  A random value is named by    *)
(* the seed it was drawn from and the number of draws before it; values    *)
(* with one name are equal, others are taken to differ.                    *)
(***************************************************************************)
EXTENDS Naturals, Sequences

CONSTANTS
  Players,     \* the values of player_name
  MaxTime,     \* bound: the seconds a run lasts
  MaxStarts,   \* bound: the games started
  MaxDraws     \* bound: the draws after one seeding

ASSUME BoundsAssumption ==
  MaxTime \in Nat /\ MaxStarts \in Nat /\ MaxDraws \in Nat \ {0}

VARIABLES
  now,     \* time(NULL)
  seed,    \* the last argument of srand
  drawn,   \* how often rand() was called since
  games    \* the games in the order of their start

vars == <<now, seed, drawn, games>>

Names == [seed : 0..MaxTime, drawn : 0..MaxDraws]

\* token is the random part of token_id, at is the start_time_.
Game == [player : Players, token : Names, at : 0..MaxTime]

TypeOK ==
  /\ now \in 0..MaxTime
  /\ seed \in 0..now
  /\ drawn \in 0..MaxDraws
  /\ games \in Seq(Game)

Init ==
  /\ now = 0
  /\ seed = 0
  /\ drawn = 0
  /\ games = <<>>

Tick ==
  /\ now < MaxTime
  /\ now' = now + 1
  /\ UNCHANGED <<seed, drawn, games>>

\* A new game whose token is the next draw.
Started(p) == [player |-> p, token |-> [seed |-> seed, drawn |-> drawn], at |-> now]

\* RandomString(8) is one draw here.  The constructor of the factory seeds, and
\* draws the first piece; randkey was tested for being empty, and is not used.
StartNewGame(p) ==
  /\ Len(games) < MaxStarts
  /\ games' = Append(games, Started(p))
  /\ seed' = now
  /\ drawn' = 1
  /\ UNCHANGED now

\* Mutant of TakeTetromino: seeds again, with a constant.
TakeTetromino_Seeds ==
  /\ games # <<>>
  /\ drawn < MaxDraws
  /\ seed' = 0
  /\ drawn' = 0
  /\ UNCHANGED <<now, games>>

\* A game takes its next piece: two draws in the code, one step here.
TakeTetromino ==
  /\ games # <<>>
  /\ drawn < MaxDraws
  /\ drawn' = drawn + 1
  /\ UNCHANGED <<now, seed, games>>

Next ==
  \/ Tick
  \/ \E p \in Players : StartNewGame(p)
  \/ TakeTetromino

Spec == Init /\ [][Next]_vars
-----------------------------------------------------------------------------
TokenId(g) == <<g.player, g.token>>

\* A token comes back only if a whole run of starts falls into one second: the
\* game that got it first was started in the second of its seed, and so was the
\* last game before the one that gets it again.
RepeatsWithinASecond ==
  \A i, j \in 1..Len(games) :
    i < j /\ TokenId(games[i]) = TokenId(games[j]) =>
      /\ games[i].at = games[i].token.seed
      /\ games[j - 1].at = games[i].token.seed

\* README.md: the token identifies one game on the server.
TokensUnique ==
  \A i, j \in 1..Len(games) : TokenId(games[i]) = TokenId(games[j]) => i = j
=============================================================================
