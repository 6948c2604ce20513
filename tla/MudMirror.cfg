CONSTANTS
  None = None
  c1 = c1
  c2 = c2
  c3 = c3
  c4 = c4
  A = A
  B = B
  Q = Q
  Cards = {c1, c2, c3, c4}
  NameOf <- MCNameOf
  Questions = {Q}
  OwnerOf <- MCOwner
  Columns = {1, 2}
  Layouts <- MCLayouts
  Repertoires <- MCRepertoires
  StartLP = 1
  MaxTurns = 2
SPECIFICATION Spec
INVARIANT TypeOK
 
CHECK_DEADLOCK FALSE
