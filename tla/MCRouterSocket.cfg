\* Two servers, the second of which sends messages that have not three frames;
\* only the first or both have router_mandatory on.  Pipes of one message: four
\* messages fill both, with a send that waits at each end.
SPECIFICATION FairSpec
CONSTANTS
  Node = {n1, n2}
  MaxMade = 4
  Mandatories = {{n1}, {n1, n2}}
  Foreign = {n2}
  Hwm = 1
  NoNode = NoNode
  Idle = Idle
INVARIANTS
  TypeOK
  Accounted
  OnlyWholeArrive
PROPERTY BlockedOnlyByBlocked
