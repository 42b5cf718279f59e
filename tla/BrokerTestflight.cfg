CONSTANTS
  p1 = p1
  d1 = d1
  k1 = k1
  k2 = k2
  u1 = u1
  n1 = n1
  b1 = b1
  b2 = b2
  NoGuid = NoGuid
  NoSecret = NoSecret
  Guids = {p1}
  Requests = {p1}
  Counts = {1, 2}
  Names = {n1}
  Deprovisions = {d1}
  Binds = {k1}
  Unbinds = {}
  Bindings = {b1, b2}
  NameOf <- OneName
  TargetOf <- AllDeps
  BindTarget <- AllBinds
  BindingOf <- OneBinding
  Offering = "config-server"
  OfferingOf <- OfOffering
  Faults <- NoFaults
SPECIFICATION BrokerSpec
INVARIANT
  BindAfterProvision
CHECK_DEADLOCK FALSE
