SPECIFICATION Spec
CONSTANTS
  Name = {"doc", "locked"}
  Body <- MCBody
  EmptyBody = "empty"
  Damaged = "damaged"
  Absent = "absent"
  Survives <- MCSurvives
  ReadOnly <- Guarded
  Files <- MCFiles
  Account = {"alice"}
  Stranger = "mallory"
  Secret <- MCSecret
  WrongSecret = "guess"
  NoUser = "nobody"
  Port <- MCPort
  ConnId = {"c1", "c2"}
  NoConn = "none"
  Backlog = 2
  Faults = {"slow", "listen", "read", "write", "reset", "shadow", "abort"}
  Script <- AllForms
  Shipment <- MCShipment
  MaxPipelined = 1
INVARIANTS TypeOK
PROPERTIES Serves
