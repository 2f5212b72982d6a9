SPECIFICATION Spec
CONSTANTS
  Games = {g1, g2, g3}
  Tokens = {1, 2, 3}
  NoGame = NoGame
INVARIANT GoneIsRecorded
