SPECIFICATION Spec
CONSTANTS
  ByteBits = 2
  WordBits = 4
  Networks <- MCNetworks
  Tried <- MCTried
  Shifts = {1, 3}
  MaxShift = 2
INVARIANTS
  RouteIsInterval
PROPERTIES
  ShiftKeepsRoute
\* The instance ends once the route has been shifted MaxShift times.
CHECK_DEADLOCK FALSE
