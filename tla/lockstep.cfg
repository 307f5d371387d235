SPECIFICATION Spec
CONSTANTS
  Name = {"doc", "locked"}
  Body <- MCBody
  EmptyBody = "empty"
  Damaged = "damaged"
  Absent = "absent"
  Survives <- MCSurvives
  ReadOnly <- TheServer
  Files <- AnyFilled
  Account = {"alice"}
  Stranger = "mallory"
  Secret <- MCSecret
  WrongSecret = "guess"
  NoUser = "nobody"
  Port <- MCPort
  ConnId = {"c1", "c2", "c3"}
  NoConn = "none"
  Backlog = 2
  Faults = {"listen", "read", "shadow", "abort"}
  Prompt = {"TYPE", "MODE", "STRU", "NOOP", "PORT", "PASV", "RETR", "STOR", "OTHER"}
  TypedUser = {"alice"}
  TypedSecret = {"open sesame", "guess"}
  TypedPort = {0, 85536}
  Careful = TRUE
  MaxUnread = 1
INVARIANTS PromptMeansSettled SettledMeansAgreed AckMeansSame SomebodyGoesOn
PROPERTIES CommandsComplete
