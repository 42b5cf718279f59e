CONSTANTS
  p1 = p1
  p2 = p2
  d1 = d1
  d2 = d2
  n1 = n1
  NoGuid = NoGuid
  Guids = {p1, p2}
  Requests = {p1, p2}
  Counts = {1, 2}
  Names = {n1}
  Deprovisions = {d1}
  NameOf <- OneName
  TargetOf <- AllFirst
  Offering = "service-registry"
  OfferingOf <- OfOffering
  Faults <- Everything
SPECIFICATION Spec
INVARIANT
  RetryTargetsApplication
CHECK_DEADLOCK FALSE
