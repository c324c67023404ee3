\* A deadline in the future.
CONSTANT InitialDeadlines = {"future"}
SPECIFICATION Spec
INVARIANT SellsAtDeadline
CHECK_DEADLOCK FALSE
