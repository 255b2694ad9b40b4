SPECIFICATION Spec
CONSTANTS
  a1 = a1
  a2 = a2
  b1 = b1
  b2 = b2
  b3 = b3
  c1 = c1
  c2 = c2
  d1 = d1
  d2 = d2
  w1 = w1
  x1 = x1
  y1 = y1
  z1 = z1
  p1 = p1
  p2 = p2
  A = A
  B = B
  C = C
  D = D
  W = W
  X = X
  Y = Y
  Z = Z
  Message = {a1, a2, b1, b2, b3, c1, c2, d1, d2, w1, x1, y1, z1}
  From <- MCFrom
  Words <- MCWords
  Ours = {a1, a2, b1, b2, c1, c2, d1, d2}
  Long = {d1, w1}
  MaxClock = 3
  Payload = {A, B, C, D, W, X, Y, Z}
  Content <- MCContent
  Hooks = {A, B, C, D}
  Setups <- MCSetups
  Slot = {1, 2}
  HistoryLimit = 4
  PairLimit = 3
  LineLimit = 3
  Limit = 2
  MaxMinute = 2
  None = None
CHECK_DEADLOCK FALSE
INVARIANTS TypeOK LimitHolds CountersExpire TurnsMatchAnswers StoredIsAnswered TranscriptIsNewest
PROPERTIES EveryoneAnswered
