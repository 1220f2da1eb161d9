CONSTANTS
  d1 = d1
  d2 = d2
  d3 = d3
  Doc = {d1, d2, d3}
  Batch = 2
SPECIFICATION FairSpec
PROPERTIES
  ExpiredArePurged
