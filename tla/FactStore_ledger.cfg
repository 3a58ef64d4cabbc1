CONSTANTS
  f1 = f1  f2 = f2  d1 = d1  d2 = d2  d3 = d3  s1 = s1  s2 = s2  s3 = s3
  tA = tA  tB = tB  p1 = p1  p2 = p2  None = None
  FactIds <- OneFact
  DissentIds <- TwoDissents
  Sessions <- TwoSessions
  Types <- TwoTypes
  Payloads <- OnePayload
  Writers <- UserAndAgent
  MaxVersion = 2
SPECIFICATION FairSpec
PROPERTIES ImplementsLedger TransactionsEnd
