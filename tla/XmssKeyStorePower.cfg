\* Two signers of one key, whose maker writes no public file, and a power failure
\* at any moment.
SPECIFICATION Spec
CONSTANTS
  Signers = {p1, p2}
  Makers = {m1}
  PrivOnly = {m1}
  Capacity <- MCCapacity
  MaxPowerLosses = 1
  Cut = Cut
  None = None
  Small = {}
SYMMETRY SignerSymmetry
INVARIANT SavedIsPersistent
CHECK_DEADLOCK FALSE
