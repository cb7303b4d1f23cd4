CONSTANTS
  Users = {u1, u2}
  Nobody = Nobody
  Targets = {t1, t2}
  Callers = {c1, c2}
  NoBinding = NoBinding
  Used = {"bind", "heartbeat", "unbind", "mark", "forget"}
SPECIFICATION FairSpec
INVARIANTS Tracked AuthoritativeKept BindingCurrent
PROPERTIES AccountSwitch CallsEnd
