SPECIFICATION Spec
CONSTANTS
  p1 = p1
  p2 = p2
  web = web
  db = db
  Unattributed = Unattributed
  Addrs = {p1, p2}
  Services = {web}
  Metrics = {"error"}
  Threshold = 2
  MaxLines = 5
  MaxFaults = 2
  Enabled = {"scrape", "reset", "leave", "drop"}
SYMMETRY PodSymmetry
INVARIANTS TypeOK NeverOverreported
