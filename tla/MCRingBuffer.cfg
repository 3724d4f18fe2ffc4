\* Capacity 3 doubles once, to 6: growth happens at each of the three rotations.
\* A write of two bytes can succeed, grow or fail half-way.
SPECIFICATION Spec
CONSTANTS
  Byte = {0, 1}
  Zero = 0
  InitCapacity = 3
  MaxCapacity = 6
  MaxWrite = 2
INVARIANTS
  TypeOK
  IndexInv
  RefusedOnlyAtMaximum
PROPERTY ImplementsByteQueue
