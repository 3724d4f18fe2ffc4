\* The bytes of the repository's first parser test, written most significant
\* first as there, on a little-endian host with the real buffer capacities.
\* A byte of four bits holds every value of the test.
SPECIFICATION Spec
CONSTANTS
  Radix = 16
  Byte = {0, 1, 2, 3, 4, 5, 6, 7, 8, 9, 10, 11, 12, 13, 14, 15}
  HostBigEndian = FALSE
  WireBigEndian = TRUE
  InitCapacity = 8192
  MaxCapacity = 524288
  MaxWrite = 22
  Streams <- TestStreams
INVARIANT ReceivedIsParsed
