-------------------------- MODULE TokenSource_proofs --------------------------
(***************************************************************************)
(* For all players, times and bounds: when a token can come back.          *)
(***************************************************************************)
EXTENDS TokenSource, TLAPS

\* The seeds go with the time: a token is drawn from a seed that is no younger
\* than its game, and every game seeds for the ones after it.
SeedsInOrder ==
  /\ \A i \in 1..Len(games) :
       games[i].token.seed <= games[i].at /\ games[i].at <= seed
  /\ \A i, j \in 1..Len(games) : i < j => games[i].at <= games[j].token.seed
  /\ \A j \in 1..Len(games) : j > 1 => games[j].token.seed = games[j - 1].at
  /\ games # <<>> => seed = games[Len(games)].at

SInv == TypeOK /\ SeedsInOrder

\* A start appends a game that was drawn from the seed of the one before it.
LEMMA StartSInv == ASSUME SInv, NEW p \in Players, StartNewGame(p) PROVE SInv'
<1>1. /\ now \in 0..MaxTime /\ seed \in 0..now /\ drawn \in 0..MaxDraws
      /\ games \in Seq(Game) /\ MaxTime \in Nat /\ MaxDraws \in Nat \ {0}
      /\ Len(games) \in Nat
  BY BoundsAssumption DEF SInv, TypeOK
<1>2. /\ games' = Append(games, Started(p))
      /\ seed' = now /\ drawn' = 1 /\ now' = now
  BY DEF StartNewGame
<1>3. /\ Started(p) \in Game /\ Started(p).at = now
      /\ Started(p).token.seed = seed
  BY <1>1 DEF Started, Game, Names
<1>4. TypeOK'
  BY <1>1, <1>2, <1>3 DEF TypeOK
<1>5. /\ Len(games') = Len(games) + 1
      /\ games'[Len(games) + 1] = Started(p)
      /\ \A i \in 1..Len(games) : games'[i] = games[i]
  BY <1>1, <1>2, <1>3
<1>6. \A i \in 1..Len(games) : games[i].at \in Nat /\ games[i].token.seed \in Nat
  <2>1. \A i \in 1..Len(games) : games[i] \in Game
    BY <1>1
  <2> QED
    BY <1>1, <2>1 DEF Game, Names
<1>7. \A i \in 1..Len(games') :
        games'[i].token.seed <= games'[i].at /\ games'[i].at <= seed'
  <2> SUFFICES ASSUME NEW i \in 1..Len(games')
               PROVE  games'[i].token.seed <= games'[i].at /\ games'[i].at <= now
    BY <1>2
  <2>1. CASE i \in 1..Len(games)
    <3>1. games[i].token.seed <= games[i].at /\ games[i].at <= seed /\ seed <= now
      BY <1>1, <2>1 DEF SInv, SeedsInOrder
    <3> QED
      BY <1>1, <1>5, <1>6, <2>1, <3>1
  <2>2. CASE i = Len(games) + 1
    BY <1>1, <1>3, <1>5, <2>2
  <2> QED
    BY <1>1, <1>5, <2>1, <2>2
<1>8. \A i, j \in 1..Len(games') : i < j => games'[i].at <= games'[j].token.seed
  <2> SUFFICES ASSUME NEW i \in 1..Len(games'), NEW j \in 1..Len(games'), i < j
               PROVE  games'[i].at <= games'[j].token.seed
    OBVIOUS
  <2>1. i \in 1..Len(games) /\ games'[i] = games[i]
    BY <1>1, <1>5
  <2>2. CASE j \in 1..Len(games)
    BY <1>5, <2>1, <2>2 DEF SInv, SeedsInOrder
  <2>3. CASE j = Len(games) + 1
    BY <1>3, <1>5, <2>1, <2>3 DEF SInv, SeedsInOrder
  <2> QED
    BY <1>1, <1>5, <2>2, <2>3
<1>9. \A j \in 1..Len(games') : j > 1 => games'[j].token.seed = games'[j - 1].at
  <2> SUFFICES ASSUME NEW j \in 1..Len(games'), j > 1
               PROVE  games'[j].token.seed = games'[j - 1].at
    OBVIOUS
  <2>1. CASE j \in 1..Len(games)
    BY <1>1, <1>5, <2>1 DEF SInv, SeedsInOrder
  <2>2. CASE j = Len(games) + 1
    <3>1. Len(games) > 0 /\ games # <<>>
      BY <1>1, <2>2
    <3> QED
      BY <1>1, <1>3, <1>5, <2>2, <3>1 DEF SInv, SeedsInOrder
  <2> QED
    BY <1>1, <1>5, <2>1, <2>2
<1>10. seed' = games'[Len(games')].at
  BY <1>1, <1>2, <1>3, <1>5
<1> QED
  BY <1>4, <1>7, <1>8, <1>9, <1>10 DEF SInv, SeedsInOrder

\* Every step keeps the inductive invariant.
LEMMA NextSInv == SInv /\ [Next]_vars => SInv'
<1> SUFFICES ASSUME SInv, [Next]_vars PROVE SInv'
  OBVIOUS
<1>1. CASE Tick
  BY <1>1, BoundsAssumption DEF Tick, SInv, TypeOK, SeedsInOrder
<1>2. ASSUME NEW p \in Players, StartNewGame(p) PROVE SInv'
  BY <1>2, StartSInv
<1>3. CASE TakeTetromino
  BY <1>3, BoundsAssumption DEF TakeTetromino, SInv, TypeOK, SeedsInOrder
<1>4. CASE UNCHANGED vars
  BY <1>4 DEF vars, SInv, TypeOK, SeedsInOrder
<1> QED
  BY <1>1, <1>2, <1>3, <1>4 DEF Next

\* The inductive invariant holds in every reachable state.
LEMMA SeedInvariant == Spec => []SInv
<1>1. Init => SInv
  BY BoundsAssumption DEF Init, SInv, TypeOK, SeedsInOrder
<1> QED
  BY <1>1, NextSInv, PTL DEF Spec

\* Seeds, draws and games keep their types.
THEOREM TypeCorrect == Spec => []TypeOK
<1>1. SInv => TypeOK
  BY DEF SInv
<1> QED
  BY <1>1, SeedInvariant, PTL

\* A token comes back only by starts that all fall into the second of its seed.
THEOREM RepeatsNeedOneSecond == Spec => []RepeatsWithinASecond
<1>1. SInv => RepeatsWithinASecond
  <2> SUFFICES ASSUME SInv, NEW i \in 1..Len(games), NEW j \in 1..Len(games), i < j,
                      TokenId(games[i]) = TokenId(games[j])
               PROVE  /\ games[i].at = games[i].token.seed
                      /\ games[j - 1].at = games[i].token.seed
    BY DEF RepeatsWithinASecond
  <2>1. games[i].token.seed = games[j].token.seed
    BY DEF TokenId
  <2>2. games[j].token.seed = games[j - 1].at
    BY DEF SInv, SeedsInOrder
  <2>3. games[i].at <= games[j].token.seed /\ games[i].token.seed <= games[i].at
    BY DEF SInv, SeedsInOrder
  <2>4. games[i].at \in Nat /\ games[i].token.seed \in Nat
    <3>1. games[i] \in Game
      BY DEF SInv, TypeOK
    <3> QED
      BY <3>1, BoundsAssumption DEF Game, Names
  <2> QED
    BY <2>1, <2>2, <2>3, <2>4
<1> QED
  BY <1>1, SeedInvariant, PTL
=============================================================================
