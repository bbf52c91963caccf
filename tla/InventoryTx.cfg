SPECIFICATION FairSpec
CONSTANTS
  Clients = {c1, c2}
  Warehouses = {w1, w2}
  StockItems = {i1, i2}
  Locations = {noloc}
  Series = {s1, s2}
  Docs = {d1, d2, d3}
  w1 = w1  w2 = w2  i1 = i1  i2 = i2  noloc = noloc
  s1 = s1  s2 = s2  d1 = d1  d2 = d2  d3 = d3
  None = None
  Request <- MixedRequest
  Opening <- CrossOpening
INVARIANTS BalanceMatchesLedger BalanceValid PostedOnce
PROPERTIES ImplementsLedger RequestsEnd
