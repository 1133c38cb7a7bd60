SPECIFICATION FairSpec
CONSTANTS
  StreamSize = 15
  robc_buffer_size = 4
  robc_cache_start_address = 1
  BufferLimits = {1, 2}
  Requests <- ThreeCommands
  ReadWorker = rw
  Constructors = {c1, c2}
  ByteUpgrades <- SmallByteUpgrades
  ZstdSizes = {6, 7, 20, 21}
  Commands <- SmallCommands
  MaxOffset = 9000
  MaxGiven = 70
  MaxCpus = 130
  Elements = {e1, e2, e3}
  Consumers = {q1, q2, q3}
INVARIANTS
  NeverFails
  CacheIsSound
  FifoOrder
  AwakeForEachElement
  CommandsDecode
  PadsAreGood
  CountsAreGood
PROPERTIES
  EverythingIsRead
  HaltEndsThreads
  ImplementsFairPromise
CHECK_DEADLOCK FALSE
