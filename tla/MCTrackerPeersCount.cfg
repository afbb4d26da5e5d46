SPECIFICATION Spec
CONSTANTS
  Handler = {h1}
  Peer = {p1}
  Info = {i1, i2}
  Obj = {o1, o2}
  None = None
  CountModulus = 3
SYMMETRY Symmetry
INVARIANTS
  RemoteCountExact
