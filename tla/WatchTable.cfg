SPECIFICATION Spec
CONSTANTS
  None = None
  t1 = t1  t2 = t2  m1 = m1  m2 = m2  m3 = m3
  Topic = {t1, t2}
  Message = {m1, m2, m3}
  Call = {c1, c2, c3, c4}
  c1 = c1  c2 = c2  c3 = c3  c4 = c4
  OnTopic <- PostedTo
SYMMETRY Symmetric
INVARIANTS NoLostWakeup ArrivalsFindReaders
CHECK_DEADLOCK FALSE
