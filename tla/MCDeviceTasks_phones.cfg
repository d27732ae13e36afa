SPECIFICATION FairSpec
CONSTANTS
  t1 = t1
  t2 = t2
  t3 = t3
  t4 = t4
  a = a
  b = b
  Tasks = {t1, t2, t3, t4}
  Phones = {a, b}
  PhoneOf <- ThreeOnOnePhone
  Publishes = {t1}
  NoPhone = NoPhone
  Operations = {"set", "batch", "clear", "reapply", "mode", "switch", "force", "rotate"}
  MaxOperations = 1
INVARIANTS
  TypeOK
  OneTaskPerPhone
  LeaseCounted
PROPERTIES
  FifoSpec
  ProxyStays
  LeftAlone
  EverythingComesBack
CHECK_DEADLOCK FALSE
