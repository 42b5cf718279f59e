CONSTANTS
  p1 = p1
  p2 = p2
  d1 = d1
  u1 = u1
  u2 = u2
  u3 = u3
  k1 = k1
  k2 = k2
  v1 = v1
  n1 = n1
  b1 = b1
  b2 = b2
  NoGuid = NoGuid
  NoSecret = NoSecret
  Guids = {p1}
  Requests = {p1, u1}
  Counts = {1, 2}
  Names = {n1}
  Deprovisions = {d1}
  Updates = {u1}
  Parameterless = {}
  Binds = {}
  Unbinds = {}
  Bindings = {b1}
  NameOf <- OneName
  TargetOf <- AllDeps
  UpdateTarget <- AllUpdates
  BindTarget <- AllBinds
  BindingOf <- OneBinding
  Offering = "service-registry"
  OfferingOf <- OfOffering
  Faults <- NoFaults
SPECIFICATION ServiceSpec
INVARIANT
  UpdateSticks
CHECK_DEADLOCK FALSE
