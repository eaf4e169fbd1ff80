SPECIFICATION Spec
CONSTANTS
  a = a
  b = b
  None = None
  Child = {a, b}
  LINK_TABLE_SIZE = 3
  OutCap = 2
SYMMETRY ChildSymmetry
INVARIANT DecayAssertion
