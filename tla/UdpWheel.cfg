CONSTANTS
  Clients = {"a", "b"}
  Slots = 4
  Idles = {3, 6}
  MaxBack = 3
  MaxTime = 11
SPECIFICATION WheelSpec
INVARIANT ClosedInTime
PROPERTY NeverEarly
