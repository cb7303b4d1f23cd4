CONSTANTS
  Users = {u1}
  Nobody = Nobody
  Devices = {1,2,3}
  MaxInstallations = 2
  ActiveWindow = 2
  Retention = 3
  DisabledRetention = 1
  CreateUsers = TRUE
  FenceConfigured = TRUE
  Markers = {}
  NoMarker = NoMarker
  Leavers = {}
  MaxClock = 5
  MaxDelay = 2
SPECIFICATION Spec
PROPERTY FreshestKept
CHECK_DEADLOCK FALSE
