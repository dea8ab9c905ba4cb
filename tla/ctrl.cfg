SPECIFICATION FairSpec
CONSTANTS
  Addresses = {a1, a2}
  Lookalikes = {}
  Default = Default
  None = None
  MaxPending = 3
INVARIANTS TypeOK AssertionsHold OneOwner AddressAgrees
PROPERTIES NoProtocolError HostAnswered
