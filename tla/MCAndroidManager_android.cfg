CONSTANTS
  Users = {u1, u2}
  Nobody = Nobody
  Tokens = {t1, t2}
  NoToken = NoToken
  NoState = NoState
  MaxRotations = 2
  MaxFaults = 2
SPECIFICATION FairSpec
INVARIANTS RegistrationsTracked RotationWins
PROPERTY Reachable
