\* Every way to cut the streams into chunks of at most 64 bytes, the length of
\* the whole buffer.
SPECIFICATION FairSpec
CONSTANTS
  Radix = 4
  Byte = {0, 1, 2, 3}
  HostBigEndian = FALSE
  WireBigEndian = FALSE
  InitCapacity = 16
  MaxCapacity = 64
  MaxWrite = 64
  Streams <- MCStreams
INVARIANTS
  TypeOK
  DeliveredInOrder
  PromptDelivery
  NothingLost
  RefusesOnlyLongChunks
PROPERTIES
  ParseThrowsFirst
  EventuallyDelivered
  ImplementsMessageStream
