CONSTANTS
  Users = {u1, u2}
  Nobody = Nobody
  Targets = {t1}
  Callers = {c1}
  NoBinding = NoBinding
  Used = {"bind", "unbind"}
SPECIFICATION FairSpec
PROPERTY NoCrossing
