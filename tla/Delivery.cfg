SPECIFICATION DeliverySpec
CONSTANTS
  Carrier = {"requests", "messages", "desktop"}
  Depth = 3
  StackCount = 3
  Deaf = {1}
  Ways = {"skip", "set"}
  Invokes <- MCInvokes
  Retries = 2
  LoopCap = 3
  DesktopCap = 1
  PolledTablet = TRUE
  MaxWindow = 2
  MaxId = 2
  Program = 2
  FrameButton = {"close", "min"}
INVARIANTS TypeOK HolderOwnsLocation CalledForInstaller FreedWhenIdle DesktopSound
PROPERTIES ImplementsChain RequestEnds LoopEnds
CHECK_DEADLOCK FALSE
