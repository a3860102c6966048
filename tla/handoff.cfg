SPECIFICATION MCSpec
CONSTANTS
  s1 = s1
  s2 = s2
  Signers = {s1, s2}
  Pins = {2, 4}
  Drop = 0
  GeoParams <- SomeParams
  Devices <- SomeDevices
  Clocks <- SomeClocks
  NoFix = NoFix
  MaxTime = 1
  MaxFaults = 1
PROPERTIES
  Consent
  HandoffsComplete
CHECK_DEADLOCK FALSE
