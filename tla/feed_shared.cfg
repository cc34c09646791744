SPECIFICATION Spec
CONSTANTS
  t1 = t1  t2 = t2  t3 = t3
  s1 = s1  s2 = s2  s3 = s3
  c1 = c1  c2 = c2
  Threads = {t1, t2, t3}
  Subs = {s1, s2, s3}
  Channels = {c1, c2}
  ChanOf <- Shared
  Cap <- Caps
  RemoveSub = RemoveSub
  NoThread = NoThread
  NoSub = NoSub
  MaxSends = 2
SYMMETRY ThreadSymmetry
INVARIANTS TypeOK LockDiscipline CasesAccounted RemovalFindsCase NSentExact
PROPERTIES NoDeliveryAfterLeave ImplementsBroadcast
