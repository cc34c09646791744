SPECIFICATION FairSpec
CONSTANTS
  t1 = t1  t2 = t2  t3 = t3
  s1 = s1  s2 = s2  s3 = s3
  c1 = c1  c2 = c2
  Threads = {t1, t2, t3}
  Subs = {s1, s2}
  Channels = {c1}
  ChanOf <- Single
  Cap <- Unbuffered
  RemoveSub = RemoveSub
  NoThread = NoThread
  NoSub = NoSub
  MaxSends = 2
PROPERTIES UnsubscribeReturns SendReturnsIfAllLeave SendReturns
