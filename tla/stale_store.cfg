SPECIFICATION Spec
CONSTANTS
  Name = {"doc"}
  Body <- MCBody
  EmptyBody = "empty"
  Damaged = "damaged"
  Absent = "absent"
  Survives <- MCSurvives
  ReadOnly <- Neither
  Files <- OnlyClient
  Account = {"alice"}
  Stranger = "mallory"
  Secret <- MCSecret
  WrongSecret = "guess"
  NoUser = "nobody"
  Port <- MCPort
  ConnId = {"c1", "c2", "c3"}
  NoConn = "none"
  Backlog = 2
  Faults = {}
  Prompt = {"PASV", "RETR", "STOR"}
  TypedUser = {"alice"}
  TypedSecret = {"open sesame", "guess"}
  TypedPort = {0, 20000}
  Careful = FALSE
  MaxUnread = 1
INVARIANTS AckMeansSame
