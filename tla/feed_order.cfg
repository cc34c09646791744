SPECIFICATION Spec
CONSTANTS
  t1 = t1  t2 = t2  t3 = t3
  s1 = s1  s2 = s2  s3 = s3
  c1 = c1  c2 = c2
  Threads = {t1, t2, t3}
  Subs = {s1, s2}
  Channels = {c1, c2}
  ChanOf <- Distinct
  Cap <- Caps
  RemoveSub = RemoveSub
  NoThread = NoThread
  NoSub = NoSub
  MaxSends = 3
SYMMETRY ThreadSymmetry
INVARIANTS ConsecutiveDelivery
