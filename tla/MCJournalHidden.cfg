CONSTANTS
  p = p
  q = q
  c = c
  source = source
  small = small
  smaller = smaller
  this = this
  that = that
  Process = {p, q}
  Thread = {p, q}
  Host <- HostValue
  Contract = {this, that}
  Candidate = {c}
  Digest = {source, small, smaller}
  Preserved = {preserved}
  Rejected = {rejected}
  Inconclusive = {flaked}
  Transition <- TransitionValue
  None = None
  MaxSessions = 2
  MaxEvents = 2
SYMMETRY Alike
SPECIFICATION Spec
PROPERTY CreateHidesNothing
