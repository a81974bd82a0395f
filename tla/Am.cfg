SPECIFICATION AmSpec
CONSTANTS
  None = None
  u1 = u1
  u2 = u2
  s1 = s1
  s2 = s2
  p = p
  q = q
  rw = rw
  ro = ro
  Kernels = {boot}
  Boot = boot
  Users = {u1, u2}
  Spaces = {s1, s2}
  SpaceOf <- MCSpaceOf
  MaxNested = 2
  Pages = {p, q}
  Backings = {rw, ro}
  Writable <- MCWritable
  NativeWanted <- MCNativeWanted
  Irqs = {timer}
  Kernel = kernel
  Levels = 2
  Index = {0, 1, 2}
  KernelTop = {0}
  Frames = {1, 2, 3, 4, 5, 6, 7}
  QemuWanted <- MCQemuWanted
  Ncpu = 3
  Nprocs = 3
  Chars = {0, 7}
  Xlens = {32, 64}
  MaxSent = 3
  MaxTyped = 2
  SectorUnits = 2
  MemoryUnits = 14
  Images <- MCImages
  MpTables <- MCMpTables
  MaxCpu = 2
  Width = 3
  Height = 2
  VbufSize = 12
  Draws <- MCDraws
  Canvases <- MCCanvases
  MaxCalls = 1
  StartDates <- MCStartDates
  MaxTicks = 3
  Sectors <- MCSectors
  Transfers <- MCTransfers
  PipeSize = 3
  PipeBuf = 2
  StreamLen = 2
  MaxAsked = 4
INVARIANTS EventOfContext UserInOwnSpace SpacesOwned StartsInOrder DevicesRight
PROPERTIES ProcessesEnter LoneHaltPowersOff
CHECK_DEADLOCK FALSE
