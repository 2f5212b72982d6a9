----------------------------- MODULE GameRecords -----------------------------
(***************************************************************************)
(* What becomes of a game, as the players who look for its record see it:  *)
(* the server holds it from its start, until it is recorded or lost, and   *)
(* either is for good, whatever processes come later.  TetrisServer        *)
(* implements this.                                                        *)
(***************************************************************************)
CONSTANT Games

VARIABLE fate

Fates == {"unborn", "held", "recorded", "lost"}

RecordsInit == fate = [g \in Games |-> "unborn"]

\* A game may be lost from its start: nobody can reach it, and its thread finds
\* nothing to record.
Start(g) ==
  /\ fate[g] = "unborn"
  /\ \E f \in {"held", "lost"} : fate' = [fate EXCEPT ![g] = f]

Record(g) ==
  /\ fate[g] = "held"
  /\ fate' = [fate EXCEPT ![g] = "recorded"]

\* Several games may be lost at once.
Lose(S) ==
  /\ \A g \in S : fate[g] = "held"
  /\ fate' = [g \in Games |-> IF g \in S THEN "lost" ELSE fate[g]]

RecordsNext ==
  \/ \E g \in Games : Start(g) \/ Record(g)
  \/ \E S \in SUBSET Games : Lose(S)

RecordsSpec == RecordsInit /\ [][RecordsNext]_fate
=============================================================================
