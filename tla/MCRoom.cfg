SPECIFICATION Spec
CONSTANTS
  alice = alice
  bob = bob
  a1 = a1
  a2 = a2
  b1 = b1
  Conns = {a1, a2, b1}
  Players = {alice, bob}
  Owner <- MCOwner
  Creator = alice
  None = None
  MaxVanished = 2
SYMMETRY AliceConns
INVARIANTS
  TypeOK
  RoomHoldsOpenConns
  SingleConnStaysIn
PROPERTIES
  ReplacedIsClosed
  ClosedConnStaysOut
CHECK_DEADLOCK FALSE
