SPECIFICATION Spec
CONSTANTS
  Process <- MCProcess
  Main = "main"
  Nobody = "nobody"
  Client <- MCClient
  NoClient = "none"
  Backlog = 2
  Faults = {"fork", "peer", "kill", "int"}
INVARIANTS TypeOK HandlerHasZombie SharedInForkOnly SessionsUndisturbed
PROPERTIES QueueMoves ClientsLetGo
