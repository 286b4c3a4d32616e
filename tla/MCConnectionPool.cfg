\* Four threads and four sessions, the ratio of main.cpp.
SPECIFICATION FairSpec
CONSTANTS
  Thread = {t1, t2, t3, t4}
  PoolSize = 4
INVARIANTS
  TypeOK
  SessionsAccounted
  NeverWaits
PROPERTIES
  EveryRequestAnswered
