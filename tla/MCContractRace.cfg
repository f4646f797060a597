CONSTANTS
  a1 = a1
  a2 = a2
  c1 = c1
  t1 = t1
  t2 = t2
  t3 = t3
  n1 = n1
  n2 = n2
  Admin = {a1, a2}
  Client = {c1}
  Terms <- const_Terms
  Name <- const_Names
  Text <- const_Text
  Render <- const_Render
  MaxAmendments = 2
  None = None
SPECIFICATION Spec
SYMMETRY const_Symmetry
PROPERTIES
  SignedImmutable
