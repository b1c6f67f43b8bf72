SPECIFICATION Spec
CONSTANTS
  alice = alice
  c1 = c1
  c2 = c2
  Conns = {c1, c2}
  Players = {alice}
  Owner <- MCOwner
  Creator = alice
  None = None
  MaxVanished = 2
PROPERTIES
  LeavesOnlyItself
CHECK_DEADLOCK FALSE
