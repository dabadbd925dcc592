\* Two signers, and two makers: of a key with one one-time key, and with two.
SPECIFICATION Spec
CONSTANTS
  Signers = {p1, p2}
  Makers = {m1, m2}
  PrivOnly = {}
  Capacity <- MCCapacity
  MaxPowerLosses = 1
  Cut = Cut
  None = None
  Small = {m1}
SYMMETRY SignerSymmetry
INVARIANTS TypeOK OneTimeKeysOnce FileIsAhead KeyPairMatches
CHECK_DEADLOCK FALSE
