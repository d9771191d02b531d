SPECIFICATION Spec
CONSTANTS
  Session = {s1, s2, s3}
  Request = {r1}
  MaxConnections = 3
  CommandCap = 1
  MaxFailures = 1
SYMMETRY Exchange
INVARIANTS OnlyOneWay
\* Every connection has ended and every request was sent: the clients are done.
CHECK_DEADLOCK FALSE
