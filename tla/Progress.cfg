\* Every part that waits, retries or stops, one of them in each behaviour.
SPECIFICATION ProgressSpec
CONSTANTS
  None = None  Nobody = Nobody  Ticker = Ticker
  NoRecord = NoRecord  Hole = Hole  Damaged = Damaged  Unread = Unread
  c1 = c1  c2 = c2  c3 = c3  c4 = c4
  r1 = r1  p1 = p1  t1 = t1  t2 = t2  w1 = w1  w2 = w2
CHECK_DEADLOCK FALSE
PROPERTIES CallsReturn CacheCatchesUp QueriesCatchUp ServeReturns LiveGetsStream
