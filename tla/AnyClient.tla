----------------------------- MODULE AnyClient ------------------------------
(***************************************************************************)
(* The server's interpreter with a client that follows no protocol: it     *)
(* sends any commands (but no blank lines, which run() drops) without      *)
(* waiting for replies, opens, takes, fills and closes data connections    *)
(* when it likes, and may leave at any moment.                             *)
(***************************************************************************)
EXTENDS ServerPI

CONSTANTS
  Script,       \* the commands the client sends
  Shipment,     \* what it puts on a data connection
  MaxPipelined  \* bound: commands and replies in flight

ASSUME ScriptAssumption ==
  /\ Script \subseteq Command
  /\ Shipment \subseteq Payload
  /\ MaxPipelined \in Nat

vars == <<netVars, serverVars>>

Init ==
  /\ toServer = <<>> /\ toClient = <<>> /\ open = Side /\ late = {}
  /\ listener = [s \in Side |-> NoPort]
  /\ \E p \in Port : addr = [s \in Side |-> IF s = "client" THEN p ELSE DefaultPort]
  /\ backlog = [s \in Side |-> <<>>]
  /\ conn = [c \in ConnId |-> Fresh]
  /\ data = [s \in Side |-> NoConn]
  /\ file \in Files
  /\ ServerInit

Present == "client" \in open

Sends ==
  /\ Present
  /\ Len(toServer) + Len(toClient) < MaxPipelined
  /\ \E c \in Script : toServer' = Append(toServer, c)
  /\ UNCHANGED <<toClient, open, late, dataVars, file>>

Reads ==
  /\ Present
  /\ toClient # <<>>
  /\ toClient' = Tail(toClient)
  /\ UNCHANGED <<toServer, open, late, dataVars, file>>

Listens ==
  /\ Present
  /\ listener["client"] = NoPort
  /\ \E p \in Port : listener' = [listener EXCEPT !["client"] = p]
  /\ UNCHANGED <<ctlVars, addr, backlog, conn, data, file>>

StopsListening ==
  /\ listener["client"] # NoPort
  /\ StopListening("client")
  /\ UNCHANGED <<ctlVars, addr, data, file>>

OpensData ==
  /\ Present
  /\ data["client"] = NoConn
  /\ Connect("client") \/ Accept("client")
  /\ UNCHANGED <<ctlVars, file>>

Ships ==
  /\ data["client"] # NoConn
  /\ \E p \in Shipment :
       conn' = [conn EXCEPT ![data["client"]] = Shipped(@, "server", p)]
  /\ data' = [data EXCEPT !["client"] = NoConn]
  /\ UNCHANGED <<ctlVars, listener, addr, backlog, file>>

HangsUp ==
  /\ data["client"] # NoConn
  /\ DropData("client")
  /\ UNCHANGED <<ctlVars, file>>

Leaves ==
  /\ Present
  /\ Vanish("client")
  /\ UNCHANGED <<toServer, toClient, file>>

Next ==
  \/ (ServerStep \/ ServerFailsData \/ ServerInterrupted)
  \/ (Sends \/ Reads \/ Listens \/ StopsListening \/ OpensData \/ Ships
        \/ HangsUp \/ Leaves) /\ UNCHANGED serverVars
  \/ spc = "gone" /\ UNCHANGED vars

Spec ==
  Init /\ [][Next]_vars /\ WF_vars(ServerStep) /\ WF_vars(ServerFailsData)

-----------------------------------------------------------------------------
TypeOK == NetTypeOK /\ ServerTypeOK

(***************************************************************************)
(* The interpreter gives the service of FtpService.                        *)
(***************************************************************************)
Phase ==
  CASE spc = "greet" -> "greeting"
    [] spc = "cmd" -> "ready"
    [] spc \in {"link", "move"} -> "transfer"
    [] OTHER -> "closed"

Content == Body \cup {Absent}

Target == IF Phase = "transfer" /\ sjob.verb = "STOR" THEN {sjob.arg} ELSE {}

Offered == INSTANCE FtpService
  WITH inbox <- toServer, outbox <- toClient, hearing <- Present,
       phase <- Phase, authed <- sLoggedIn, target <- Target,
       store <- file["server"]

Serves == Offered!Service
=============================================================================
