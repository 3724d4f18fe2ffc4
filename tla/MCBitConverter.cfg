\* Two-bit bytes: every word of 2, 4 and 8 bytes (65 808 words), each of which is also
\* the fields of a packet.
SPECIFICATION Spec
CONSTANTS
  Radix = 4
  HostBigEndian = FALSE
INVARIANTS
  NetworkOrderInMemory
  HostUndoesNetwork
  BytesRoundTrip
  MessageReadAsGiven
  NeverRefused
