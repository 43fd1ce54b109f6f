CONSTANTS
  l1 = l1
  a = a
  b = b
  User = {1, 2}
  NoUser = 0
  NoLink = NoLink
  Link = {l1}
  Req = {a, b}
  MAX_USES = 1
  Given = {"owner"}
SYMMETRY MCSymmetry
SPECIFICATION Spec
INVARIANTS TypeOK NoCircle
PROPERTIES CountedOwnersStay LinkHolds
