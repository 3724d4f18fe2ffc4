\* Every subset of the twelve options, accepted by parse() or not.
SPECIFICATION Spec
INVARIANTS
  TypeOK
  LossIsLogged
  NothingInvented
CHECK_DEADLOCK FALSE
