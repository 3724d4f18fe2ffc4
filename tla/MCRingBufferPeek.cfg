\* The smallest buffer that can be full and hold a two-byte integer.
SPECIFICATION Spec
CONSTANTS
  Byte = {0, 1}
  Zero = 0
  InitCapacity = 2
  MaxCapacity = 4
  MaxWrite = 2
INVARIANT PeekRefusedOnlyWhenShort
