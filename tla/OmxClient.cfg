CONSTANTS
  Addresses = {a1, a2, a3, a4}
  MaxComponents = 5
SPECIFICATION Spec
INVARIANT EventsTrigger
CHECK_DEADLOCK FALSE
