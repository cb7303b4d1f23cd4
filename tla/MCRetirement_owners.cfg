CONSTANTS
  Users = {u1, u2}
  Nobody = Nobody
  Devices = {1, 2}
  MaxInstallations = 1
  ActiveWindow = 1
  Retention = 2
  DisabledRetention = 1
  CreateUsers = TRUE
  FenceConfigured = TRUE
  Markers = {m}
  NoMarker = NoMarker
  Leavers = {u1}
  MaxClock = 2
  MaxDelay = 1
SPECIFICATION SpecEither
INVARIANTS TypeOK SoleTarget AddressOwned OwnersGone
PROPERTIES MarkersKept RegisteredKept
CHECK_DEADLOCK FALSE
