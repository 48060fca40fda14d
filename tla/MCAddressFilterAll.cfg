SPECIFICATION FilterSpec
CONSTANTS
  Ips = {0, 1}
  Ports = {5, 50}
  MaxProcesses = 2
  MaxRows = 3
  TextRoom = 20
  Octet = 3
  LongMax = 40
  Tools = {"local"}
INVARIANTS
  CapturesAllOwn
