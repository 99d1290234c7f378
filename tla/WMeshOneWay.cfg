CONSTANTS
  d1 = d1
  d2 = d2
  x = x
  s = s
  Device = {d1, d2}
  Stranger = {x}
  Service = {s}
  Sender = {d1}
  CtrMod = 8
  PeerListSize = 1
  MaxSends = 3
  PowerLoss = TRUE
  StorageErrors = TRUE
SPECIFICATION Spec
INVARIANTS TypeOK PeerBehindSender UniqueSequence CleanPeersAreStored Consistent
PROPERTIES InOrder StoredCountersGrow DeliverySpec
CHECK_DEADLOCK FALSE
