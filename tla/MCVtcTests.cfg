SPECIFICATION FairSpec
CONSTANTS
  t1 = t1
  t2 = t2
  t3 = t3
  t4 = t4
  t5 = t5
  t6 = t6
  t7 = t7
  t8 = t8
  Tests = {t1, t2, t3, t4, t5, t6, t7, t8}
  Globbed <- Pattern
  Order <- Paths
  Stem <- Called
  NotUtf8 = {t6}
  Letters = {"a"}
  Digits <- Decimal
  Max = 2
  Threads = 4
INVARIANT VtcTypeOK
INVARIANT SlotConservation
INVARIANT NoLostWakeup
INVARIANT OneTestPerFile
PROPERTY ImplementsSemaphore
PROPERTY AllFinish
