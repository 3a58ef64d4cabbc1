CONSTANTS
  h1 = h1  h2 = h2  a = a  b = b  big = big  i1 = i1  i2 = i2  i3 = i3
  w1 = w1  w2 = w2  None = None  Gone = Gone
  Sites <- TwoSites
  Chunks = {a, b, big}
  Oversized = {big}
  Ids <- ThreeIds
  Workers <- OneWorker
  Capacity = 1
  MaxFaults = 1
  MaxTries = 2
  Versions <- EditAndVanish
SPECIFICATION FairSpec
PROPERTY ScansConverge
