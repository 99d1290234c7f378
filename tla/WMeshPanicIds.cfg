CONSTANTS
  d1 = d1
  d2 = d2
  s = s
  Device = {d1, d2}
  Stranger = {}
  Service = {s}
  Sender = {d1, d2}
  CtrMod = 8
  PeerListSize = 1
  MaxSends = 2
  PowerLoss = FALSE
  StorageErrors = FALSE
SPECIFICATION Spec
INVARIANTS SequenceIdentifiesPacket
CHECK_DEADLOCK FALSE
