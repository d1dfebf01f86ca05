SPECIFICATION FairSpec
CONSTANTS
  p1 = p1
  p2 = p2
  web = web
  db = db
  Unattributed = Unattributed
  Addrs = {p1, p2}
  Services = {web, db}
  Metrics = {"error", "warn"}
  Threshold = 1
  MaxLines = 2
  MaxFaults = 2
  Enabled = {"scrape", "leave", "crash"}
INVARIANT NoneMissed
PROPERTY EveryLineReported
