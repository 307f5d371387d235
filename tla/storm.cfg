SPECIFICATION Spec
CONSTANTS
  Name = {"doc"}
  Body <- MCBody
  EmptyBody = "empty"
  Damaged = "damaged"
  Absent = "absent"
  Survives <- MCSurvives
  ReadOnly <- Neither
  Files <- OneEmpty
  Account = {"alice"}
  Stranger = "mallory"
  Secret <- MCSecret
  WrongSecret = "guess"
  NoUser = "nobody"
  Port <- MCPort
  ConnId = {"c1", "c2"}
  NoConn = "none"
  Backlog = 2
  Faults = {"slow", "listen", "read", "write", "reset", "shadow", "abort"}
  Prompt = {"PORT", "PASV", "RETR", "STOR"}
  TypedUser = {"alice", "mallory", "illegal", "malformed"}
  TypedSecret = {"open sesame", "guess"}
  TypedPort = {20000}
  Careful = FALSE
  MaxUnread = 2
INVARIANTS TypeOK LoginAgrees EndsAreHeld
PROPERTIES OnlyTheUserGoesOn
