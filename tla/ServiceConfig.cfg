CONSTANTS
  p1 = p1
  p2 = p2
  d1 = d1
  u1 = u1
  u2 = u2
  u3 = u3
  k1 = k1
  k2 = k2
  v1 = v1
  n1 = n1
  b1 = b1
  b2 = b2
  NoGuid = NoGuid
  NoSecret = NoSecret
  Guids = {p1}
  Requests = {p1, u1, u2, u3}
  Counts = {1}
  Names = {n1}
  Deprovisions = {d1}
  Updates = {u1, u2, u3}
  Parameterless = {u3}
  Binds = {k1, k2}
  Unbinds = {v1}
  Bindings = {b1, b2}
  NameOf <- OneName
  TargetOf <- AllDeps
  UpdateTarget <- AllUpdates
  BindTarget <- AllBinds
  BindingOf <- OneBinding
  Offering = "config-server"
  OfferingOf <- OfOffering
  Faults <- Everything
SPECIFICATION UpdatesOrBindings
PROPERTIES
  EventuallyGone
  ImplementsBindingLife
INVARIANTS
  UpdateTakesHold
  BrokerTypeOK
  CredentialsWork
  UnbindFinal
CHECK_DEADLOCK FALSE
