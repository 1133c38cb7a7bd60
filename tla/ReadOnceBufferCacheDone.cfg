SPECIFICATION Spec
CONSTANTS
  StreamSize = 11
  robc_buffer_size = 4
  robc_cache_start_address = 1
  BufferLimits = {1, 2}
  Requests <- ThreeCommands
  ReadWorker = rw
  Constructors = {c1, c2}
  ByteUpgrades <- SmallByteUpgrades
  ZstdSizes = {}
  Commands = {}
  MaxOffset = 0
  MaxGiven = 0
  MaxCpus = 1
  Elements = {}
  Consumers = {q1}
INVARIANT NeverPutWhileDone
CHECK_DEADLOCK FALSE
