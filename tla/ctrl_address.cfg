SPECIFICATION Spec
CONSTANTS
  Addresses = {a1, a2}
  Lookalikes = {a1}
  Default = Default
  None = None
  MaxPending = 3
INVARIANTS AddressAgrees
