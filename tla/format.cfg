SPECIFICATION Spec
CONSTANTS
  Inputs <- AllInputs
  IntMax = 100000
INVARIANTS IInv FieldsArrive SplitAgrees WellFormedArrives AcceptedKeepsShape ArrivesIffInRange
CHECK_DEADLOCK FALSE
