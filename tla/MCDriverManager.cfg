SPECIFICATION FairSpec
CONSTANTS
  s1 = s1
  s2 = s2
  common = common
  dac = dac
  clock = clock
  app = app
  Sessions <- TwoSessions
  Drivers <- FourDrivers
  Common = common
  ServerDriver = ServerDriver
  Deps <- SharedAndCircular
  Main = Main
  Nobody = Nobody
INVARIANTS
  SingleInstance
  DeviceFoundUnlessRaced
  DependenciesBound
  AllocationFailureExits
PROPERTIES
  StartsEventually
  WaitsForItsDriver
