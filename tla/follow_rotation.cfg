SPECIFICATION Spec
CONSTANTS
  TornWrites = TRUE
  MaxLines = 3
  MaxRotations = 2
INVARIANT DeliveredInOrderOnce
INVARIANT DeliveredIsContiguous
PROPERTY UnreadIsDelivered
PROPERTY ShortFileIsNoticed
