SPECIFICATION Spec
CONSTANTS
  Part = {"processes", "files", "heap", "frames", "drivers", "registry",
          "volume", "disk", "gpu queue", "display", "interrupts", "processors",
          "d3d11", "d3d12", "d2d1",
          "dwrite", "dxgi", "dxcore", "ddraw", "d3d9", "dsound", "mmdevapi", "audioses",
          "ws2_32", "secur32", "credui", "winmm", "user32", "streams", "strings", "loader", "traps", "faults", "tablet", "ps2"}
  MaxObject = 5
  MaxHandle = 2
  MaxAll = 4
  MaxNamed = 3
  ObjectName = {"vol", "dev", "p", "q"}
  MaxCid = 4
  MaxRing3 = 2
  ClosesThreads = FALSE
  Device = {"dev"}
  PipeName = {"p", "q"}
  PipeSize = 2
  ByteMod = 3
  Directory = {5}
  PlainFile = {7}
  FsRoot = 5
  Entries <- MCEntries
  HeapSize = 35
  PoolRequest = {1, 3}
  RawRequest = {4}
  MdlPages = {1}
  Frames = 7
  Region = {2}
  Levels = 2
  Page = {1}
  ArenaPages = 2
  DiskSector = {d1, d2}
  DiskData = {blank, full}
  BlankData = blank
  MaxTimeouts = 1
  DriverName = {"a", "b"}
  NoUnload = {"b"}
  CbMax = 2
  MaxLinks = 2
  MaxDevice = 4
  KeyName = {"a"}
  ValueName = {"v"}
  ValueData = {"d"}
  MaxKey = 4
  MaxKeyHandle = 2
  Record = {5, 27, 28}
  NtfsRoot = 5
  RecordRoom = 5
  FirstCells = 1
  Offset = {1}
  Length = {1}
  MaxFailures = 1
  VqSize = 5
  Line = {1, 2}
  FirstVector = 64
  LastVector = 65
  MaxInterrupt = 2
  DeviceIrql = {3, 11}
  MadtIds <- MCMadt
  BootId = 0
  MaxCpus = 3
  StartBlocks = 5
  Image <- MCImage
  Pe <- MCPe
  Booted <- MCBooted
  OnDisk <- MCOnDisk
  Wanted <- MCWanted
  MAX_MODULES = 6
  Territory = 5
  Mapped = 9
  LastUnit = 9
  CalibrationTicks = 1
  TrapIrql = {0, 2}
  PF_HIST = 2
  FaultAt = {"f", "g", "h"}
  EvSize = 2
  MaxOut = 3
  MaxArrived = 3
  KBD_BUF = 3
  Poller = {"t", "u"}
INVARIANTS TypeOK ObjectTablesSound FilesSound MemorySound DriversSound   LoadedSound
 
CHECK_DEADLOCK FALSE
