SPECIFICATION FairSpec
CONSTANTS
  p1 = p1
  p2 = p2
  web = web
  db = db
  Unattributed = Unattributed
  Addrs = {p1}
  Services = {web}
  Metrics = {"error"}
  Threshold = 1
  MaxLines = 1
  MaxFaults = 1
  Enabled = {"drop"}
PROPERTY EveryLineReported
