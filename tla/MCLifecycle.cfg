SPECIFICATION Spec
CONSTANT MaxFd = 2
INVARIANTS
  DestroyedUnused
  DeviceHeld
PROPERTY
  ShutdownCompletes
