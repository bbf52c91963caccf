SPECIFICATION USpec
CONSTANTS
  Clients = {c1, c2}
  Warehouses = {w1}
  StockItems = {i1, i2, i3}
  Locations = {noloc}
  Series = {s1, s2}
  Docs = {d1, d2}
  Calls = {m1, m2, m3, m4}
  w1 = w1  i1 = i1  i2 = i2  i3 = i3  noloc = noloc
  s1 = s1  s2 = s2  d1 = d1  d2 = d2
  m1 = m1  m2 = m2  m3 = m3  m4 = m4
  None = None
  Request <- MCRequest
  Opening <- MCOpening
  Call <- MCCall
INVARIANT BalanceValid
CHECK_DEADLOCK FALSE
