-------------------------- MODULE FtpSessionProofs --------------------------
(***************************************************************************)
(* Theorems about a session, for every choice of the constants: of names,  *)
(* contents, accounts, ports and faults, and of what the user types.       *)
(***************************************************************************)
EXTENDS FtpSession, ServerPIProofs

-----------------------------------------------------------------------------
(***************************************************************************)
(* Every step of the client's interpreter keeps the types of the variables *)
(* and leaves the server's data connection and files alone, whatever the   *)
(* user types and whatever fails.                                          *)
(***************************************************************************)
ClientTyped == NetTypeOK /\ ClientTypeOK

\* What the server's interpreter relies on.
ServerHolds ==
  /\ data'["server"] = data["server"]
  /\ file'["server"] = file["server"]

-----------------------------------------------------------------------------
LEMMA ClientSide == "client" \in Side /\ Peer("client") = "server"
  BY SMT DEF Side, Peer

LEMMA HearsType ==
  ASSUME ControlTypeOK, toClient # <<>>
  PROVE  reply \in Response /\ Tail(toClient) \in Seq(Response)
  BY HeadTailProperties, SMT DEF ControlTypeOK, reply

LEMMA TellType ==
  ASSUME ControlTypeOK, NEW c \in Command, NEW pc, Tell(c, pc)
  PROVE  /\ toServer' \in Seq(Command) /\ cpc' \in {pc, "dying", "killed"}
         /\ toClient' = toClient /\ open' = open /\ late' \subseteq Side
  <1>1. late' = late \/ late' = late \cup {"client"}
    BY Zenon DEF Tell
  <1>2. late \subseteq Side /\ "client" \in Side
    BY Zenon DEF ControlTypeOK, Side
  <1>3. late' \subseteq Side
    BY <1>1, <1>2, Zenon
  <1> QED
    BY <1>3, SMT DEF Tell, ControlTypeOK

LEMMA NoWorkType == NoWork \in Command
  <1>1. Plain \in ArgOf("NOOP") \cap Arg /\ "NOOP" \in Verb
    BY SMT DEF ArgOf, Arg, Verb
  <1> QED
    BY <1>1, CmdType, SMT DEF NoWork

\* A step that ends where no handler of a command is running.
LEMMA QuietClientStep ==
  ASSUME ClientTyped,
         ControlTypeOK', DataTypeOK', data'["server"] = data["server"],
         UNCHANGED file,
         cType' \in Type, cLoggedIn' \in BOOLEAN, cjob' \in Command,
         cpc' \in ClientPc \ ({"reply"} \cup Transferring)
  PROVE  ClientTyped' /\ ServerHolds
  BY SMT DEF ClientTyped, ClientTypeOK, NetTypeOK, FileTypeOK, ServerHolds,
             Transferring

\* The same for a step that does not touch the data connections either.
LEMMA StillClientStep ==
  ASSUME ClientTyped,
         toServer' \in Seq(Command), toClient' \in Seq(Response), UNCHANGED open,
         late' \subseteq Side,
         UNCHANGED <<cType, cLoggedIn, dataVars, file>>, cjob' \in Command,
         cpc' \in ClientPc \ ({"reply"} \cup Transferring)
  PROVE  ClientTyped' /\ ServerHolds
  <1>1. ControlTypeOK' /\ DataTypeOK' /\ data'["server"] = data["server"]
    BY SMT DEF ClientTyped, NetTypeOK, ControlTypeOK, DataTypeOK, dataVars
  <1>2. cLoggedIn' \in BOOLEAN
    BY Zenon DEF ClientTyped, ClientTypeOK
  <1> QED
    BY <1>1, <1>2, QuietClientStep, SMT DEF ClientTyped, ClientTypeOK

-----------------------------------------------------------------------------
LEMMA ClientHearsGreetingTyped ==
  ASSUME ClientTyped, ClientHearsGreeting PROVE ClientTyped' /\ ServerHolds
  <1>1. toClient' \in Seq(Response)
    BY HearsType, SMT DEF ClientHearsGreeting, Hears, ClientTyped, NetTypeOK
  <1> QED
    BY <1>1, StillClientStep, SMT
    DEF ClientHearsGreeting, Hears, ClientTyped, NetTypeOK, ControlTypeOK,
        ClientTypeOK, ClientPc, Transferring, AtUser

LEMMA TypeUserTyped ==
  ASSUME ClientTyped, TypeUser PROVE ClientTyped' /\ ServerHolds
  <1>1. UNCHANGED <<cType, cLoggedIn, cjob, dataVars, file>>
    BY SMT DEF TypeUser
  <1>2. \/ cpc' = "dying" /\ UNCHANGED ctlVars
        \/ \E u \in TypedUser \ {Illegal}, pc \in {"userReply", "prompt"} :
             Tell(Cmd("USER", u), pc)
    BY SMT DEF TypeUser
  <1>3. \A u \in TypedUser : Cmd("USER", u) \in Command
    <2>1. \A u \in TypedUser : u \in ArgOf("USER") \cap Arg
      BY ClientAssumption, SMT DEF ArgOf, Arg
    <2> QED
      BY <2>1, CmdType, SMT DEF Verb
  <1>4. /\ toServer' \in Seq(Command) /\ toClient' = toClient /\ open' = open
        /\ late' \subseteq Side
        /\ cpc' \in {"dying", "userReply", "prompt", "killed"}
    BY <1>2, <1>3, TellType, SMT DEF ClientTyped, NetTypeOK, ControlTypeOK, ctlVars
  <1> QED
    BY <1>1, <1>4, StillClientStep, SMT
    DEF ClientTyped, NetTypeOK, ControlTypeOK, ClientTypeOK, ClientPc,
        Transferring, AtUser, Listening, Over

LEMMA ClientHearsUserReplyTyped ==
  ASSUME ClientTyped, ClientHearsUserReply PROVE ClientTyped' /\ ServerHolds
  <1>1. toClient' \in Seq(Response)
    BY HearsType, SMT DEF ClientHearsUserReply, Hears, ClientTyped, NetTypeOK
  <1> QED
    BY <1>1, StillClientStep, SMT
    DEF ClientHearsUserReply, Hears, ClientTyped, NetTypeOK, ControlTypeOK,
        ClientTypeOK, ClientPc, Transferring, AtUser

LEMMA TypePasswordTyped ==
  ASSUME ClientTyped, TypePassword PROVE ClientTyped' /\ ServerHolds
  <1>1. \A w \in TypedSecret : Cmd("PASS", w) \in Command
    <2>1. \A w \in TypedSecret : w \in ArgOf("PASS") \cap Arg
      BY ClientAssumption, SMT DEF ArgOf, Arg
    <2> QED
      BY <2>1, CmdType, SMT DEF Verb
  <1>2. /\ toServer' \in Seq(Command) /\ toClient' = toClient /\ open' = open
        /\ late' \subseteq Side
        /\ cpc' \in {"dying", "passReply", "killed"}
    BY <1>1, TellType, SMT
    DEF TypePassword, ClientTyped, NetTypeOK, ControlTypeOK, ctlVars
  <1> QED
    BY <1>2, StillClientStep, SMT
    DEF TypePassword, ClientTyped, NetTypeOK, ControlTypeOK, ClientTypeOK,
        ClientPc, Transferring, Listening, Over

\* What handle_port_command leaves behind, given a number it may bind.
LEMMA RebindType ==
  ASSUME ClientTyped, NEW n, BindPort(n) \subseteq Port, Rebind(n),
         UNCHANGED <<addr, data>>
  PROVE  /\ toServer' \in Seq(Command) /\ late' \subseteq Side
         /\ DataTypeOK' /\ data' = data
         /\ cjob' \in Command
         /\ cpc' \in {"reply", "killed", "dying"}
         /\ cpc' = "reply" => ~Fetching(cjob') /\ cjob'.verb # "TYPE"
  <1>1. DataTypeOK /\ ControlTypeOK /\ cjob \in Command
    BY SMT DEF ClientTyped, NetTypeOK, ClientTypeOK
  <1>0. late' \subseteq Side
    <2>1. late' = late \/ late' = late \cup {"client"}
      BY Zenon DEF Rebind
    <2>2. late \subseteq Side /\ "client" \in Side
      BY <1>1, Zenon DEF ControlTypeOK, Side
    <2> QED
      BY <2>1, <2>2, Zenon
  <1>2. CASE \E p \in BindPort(n) :
               /\ listener' = [listener EXCEPT !["client"] = p]
               /\ backlog' = [backlog EXCEPT !["client"] = <<>>]
               /\ conn' = HangUp(Queued("client"), "client")
               /\ IF "server" \in open
                  THEN toServer' = Append(toServer, PortCmd(p)) /\ cpc' = "reply"
                  ELSE UNCHANGED toServer /\ cpc' \in {"reply", "dying", "killed"}
               /\ cjob' = PortCmd(p)
    <2>1. PICK p \in BindPort(n) :
            /\ listener' = [listener EXCEPT !["client"] = p]
            /\ backlog' = [backlog EXCEPT !["client"] = <<>>]
            /\ conn' = HangUp(Queued("client"), "client")
            /\ IF "server" \in open
               THEN toServer' = Append(toServer, PortCmd(p)) /\ cpc' = "reply"
               ELSE UNCHANGED toServer /\ cpc' \in {"reply", "dying", "killed"}
            /\ cjob' = PortCmd(p)
      BY <1>2, Zenon
    <2>2. p \in Port
      BY Zenon
    <2>3. PortCmd(p) \in Command /\ PortCmd(p).verb = "PORT"
      BY <2>2, PortCmdType, SMT DEF PortCmd
    <2>4. conn' \in [ConnId -> Connection]
      BY <1>1, <2>1, ClientSide, HangUpType, SMT
    <2>5. toServer' \in Seq(Command) /\ cpc' \in {"reply", "killed", "dying"}
      <3>1. /\ toServer' = toServer \/ toServer' = Append(toServer, PortCmd(p))
            /\ cpc' \in {"reply", "dying", "killed"}
        BY <2>1, Zenon
      <3> QED
        BY <1>1, <2>3, <3>1, SMT DEF ControlTypeOK
    <2>6. DataTypeOK' /\ data' = data
      <3>1. /\ listener' = [listener EXCEPT !["client"] = p]
            /\ backlog' = [backlog EXCEPT !["client"] = <<>>]
        BY <2>1, Zenon
      <3>2. /\ listener \in [Side -> Port \cup {NoPort}]
            /\ backlog \in [Side -> Seq(ConnId)]
        BY <1>1, SMT DEF DataTypeOK
      <3>3. listener' \in [Side -> Port \cup {NoPort}]
        BY <2>2, <3>1, <3>2, ClientSide, SMT
      <3>4. backlog' \in [Side -> Seq(ConnId)]
        BY <3>1, <3>2, ClientSide, SMT
      <3> QED
        BY <1>1, <2>4, <3>3, <3>4, SMT DEF DataTypeOK
    <2> QED
      BY <1>0, <2>1, <2>3, <2>5, <2>6, SMT DEF Fetching
  <1>3. CASE /\ StopListening("client")
             /\ cpc' = "dying"
             /\ UNCHANGED <<toServer, cjob>>
    BY <1>0, <1>1, <1>3, ClientSide, StopListeningType, SMT
    DEF DataTypeOK, ControlTypeOK
  <1> QED
    BY <1>2, <1>3, Zenon DEF Rebind

LEMMA RebindTyped ==
  ASSUME ClientTyped, NEW n, BindPort(n) \subseteq Port, Rebind(n),
         toClient' \in Seq(Response), cLoggedIn' \in BOOLEAN,
         UNCHANGED <<open, cType, addr, data, file>>
  PROVE  ClientTyped' /\ ServerHolds
  <1>1. /\ toServer' \in Seq(Command) /\ late' \subseteq Side
        /\ DataTypeOK' /\ data' = data
        /\ cjob' \in Command
        /\ cpc' \in {"reply", "killed", "dying"}
        /\ cpc' = "reply" => ~Fetching(cjob') /\ cjob'.verb # "TYPE"
    BY RebindType, SMT
  <1>2. NetTypeOK'
    BY <1>1, SMT DEF ClientTyped, NetTypeOK, ControlTypeOK, FileTypeOK
  <1>3. ClientTypeOK'
    BY <1>1, SMT
    DEF ClientTyped, ClientTypeOK, ClientPc, Listening, Transferring, Over
  <1> QED
    BY <1>1, <1>2, <1>3, SMT DEF ClientTyped, ServerHolds

LEMMA ClientHearsPassReplyTyped ==
  ASSUME ClientTyped, ClientHearsPassReply PROVE ClientTyped' /\ ServerHolds
  <1>1. /\ toClient # <<>> /\ toClient' = Tail(toClient)
        /\ UNCHANGED <<open, cType, addr, data, file>>
        /\ \/ Rebind(listener["client"])
           \/ /\ cpc' \in {"prompt", "pass"}
              /\ UNCHANGED <<toServer, late, cjob, listener, backlog, conn>>
    BY SMT DEF ClientHearsPassReply
  <1>2. cLoggedIn' \in BOOLEAN
    BY Zenon DEF ClientHearsPassReply, loginOk
  <1>3. toClient' \in Seq(Response)
    BY <1>1, HearsType, SMT DEF ClientTyped, NetTypeOK
  <1>4. CASE Rebind(listener["client"])
    <2>1. listener["client"] \in Port \cup {NoPort}
      BY ClientSide, SMT DEF ClientTyped, NetTypeOK, DataTypeOK
    <2>2. BindPort(listener["client"]) \subseteq Port
      BY <2>1, BindPortType, SMT
    <2> QED
      BY <1>1, <1>2, <1>3, <1>4, <2>2, RebindTyped, SMT
  <1>5. CASE /\ cpc' \in {"prompt", "pass"}
             /\ UNCHANGED <<toServer, late, cjob, listener, backlog, conn>>
    <2>1. ControlTypeOK' /\ DataTypeOK'
      BY <1>1, <1>3, <1>5, SMT DEF ClientTyped, NetTypeOK, ControlTypeOK, DataTypeOK
    <2> QED
      BY <1>1, <1>2, <1>5, <2>1, QuietClientStep, SMT
      DEF ClientTyped, ClientTypeOK, ClientPc, AtUser, Transferring
  <1> QED
    BY <1>1, <1>4, <1>5, Zenon

-----------------------------------------------------------------------------
\* A command is sent whose handler then waits for its reply.
LEMMA AskTyped ==
  ASSUME ClientTyped, cjob' \in Command, Tell(cjob', "reply"),
         ~Fetching(cjob'), cjob'.verb = "TYPE" => cjob'.arg \in Type,
         UNCHANGED <<cType, cLoggedIn, dataVars, file>>
  PROVE  ClientTyped' /\ ServerHolds
  <1>1. /\ toServer' \in Seq(Command) /\ cpc' \in {"reply", "dying", "killed"}
        /\ toClient' = toClient /\ open' = open /\ late' \subseteq Side
    BY TellType, SMT DEF ClientTyped, NetTypeOK
  <1>2. NetTypeOK'
    BY <1>1, SMT
    DEF ClientTyped, NetTypeOK, ControlTypeOK, DataTypeOK, FileTypeOK, dataVars
  <1>3. cLoggedIn' \in BOOLEAN /\ cType' \in Type
    BY Zenon DEF ClientTyped, ClientTypeOK
  <1>4. ClientTypeOK'
    BY <1>1, <1>3, SMT
    DEF ClientTypeOK, ClientPc, Listening, Transferring, Over
  <1> QED
    BY <1>2, <1>4, SMT DEF ClientTyped, ServerHolds, dataVars

LEMMA SendPlainTyped ==
  ASSUME ClientTyped, SendPlain PROVE ClientTyped' /\ ServerHolds
  <1> DEFINE Plains == {"MODE", "STRU", "NOOP", "PASV", "OTHER"}
  <1>1. /\ Tell(cjob', "reply")
        /\ UNCHANGED <<cType, cLoggedIn, dataVars, file>>
        /\ \/ \E v \in Plains : cjob' = Cmd(v, Plain)
           \/ \E t \in Type : cjob' = Cmd("TYPE", t)
    BY Zenon DEF SendPlain
  <1>2. \A v \in Plains :
          /\ Cmd(v, Plain) \in Command
          /\ Cmd(v, Plain).verb \in Plains
    <2>1. \A v \in Plains : v \in Verb /\ Plain \in ArgOf(v) \cap Arg
      BY SMT DEF ArgOf, Arg, Verb
    <2> QED
      BY <2>1, CmdType, SMT DEF Cmd
  <1>3. \A t \in Type :
          /\ Cmd("TYPE", t) \in Command
          /\ Cmd("TYPE", t).verb = "TYPE" /\ Cmd("TYPE", t).arg \in Type
    <2>1. "TYPE" \in Verb /\ \A t \in Type : t \in ArgOf("TYPE") \cap Arg
      BY SMT DEF ArgOf, Arg, Verb
    <2> QED
      BY <2>1, CmdType, SMT DEF Cmd
  <1>4. /\ cjob' \in Command
        /\ cjob'.verb \in Plains \cup {"TYPE"}
        /\ cjob'.verb = "TYPE" => cjob'.arg \in Type
    BY <1>1, <1>2, <1>3, SMT
  <1>5. ~Fetching(cjob')
    BY <1>4, SMT DEF Fetching
  <1> QED
    BY <1>1, <1>4, <1>5, AskTyped, Zenon

LEMMA TypePassTyped ==
  ASSUME ClientTyped, TypePass PROVE ClientTyped' /\ ServerHolds
  BY StillClientStep, SMT
  DEF TypePass, ctlVars, ClientTyped, NetTypeOK, ControlTypeOK, ClientTypeOK,
      ClientPc, AtUser, Transferring

LEMMA TypePortTyped ==
  ASSUME ClientTyped, TypePort PROVE ClientTyped' /\ ServerHolds
  <1>1. PICK n \in TypedPort : Rebind(n)
    BY Zenon DEF TypePort
  <1>2. BindPort(n) \subseteq Port
    BY ClientAssumption, SMT
  <1>3. UNCHANGED <<toClient, open, cType, cLoggedIn, addr, data, file>>
    BY SMT DEF TypePort
  <1>4. cLoggedIn' \in BOOLEAN /\ toClient' \in Seq(Response)
    BY <1>3, SMT DEF ClientTyped, ClientTypeOK, NetTypeOK, ControlTypeOK
  <1> QED
    BY <1>1, <1>2, <1>3, <1>4, RebindTyped, SMT

LEMMA TypeQuitTyped ==
  ASSUME ClientTyped, TypeQuit PROVE ClientTyped' /\ ServerHolds
  <1>1. Cmd("QUIT", Plain) \in Command
    <2>1. Plain \in ArgOf("QUIT") \cap Arg /\ "QUIT" \in Verb
      BY SMT DEF ArgOf, Arg, Verb
    <2> QED
      BY <2>1, CmdType, SMT
  <1>2. /\ toServer' \in Seq(Command) /\ cpc' \in {"bye", "dying", "killed"}
        /\ toClient' = toClient /\ open' = open /\ late' \subseteq Side
    BY <1>1, TellType, SMT DEF TypeQuit, ClientTyped, NetTypeOK
  <1> QED
    BY <1>2, StillClientStep, SMT
    DEF TypeQuit, ClientTyped, NetTypeOK, ControlTypeOK, ClientTypeOK,
        ClientPc, Listening, Over, Transferring

LEMMA TypeTransferTyped ==
  ASSUME ClientTyped, TypeTransfer PROVE ClientTyped' /\ ServerHolds
  <1>1. PICK v \in {"RETR", "STOR"}, n \in Name : cjob' = Cmd(v, n)
    BY Zenon DEF TypeTransfer
  <1>2. /\ Cmd(v, n) \in Command /\ Fetching(Cmd(v, n))
        /\ Cmd(v, n).arg \in Name /\ Cmd(v, n).verb # "TYPE"
    <2>1. n \in ArgOf(v) \cap Arg /\ v \in Verb
      BY SMT DEF ArgOf, Arg, Verb
    <2> QED
      BY <2>1, CmdType, SMT DEF Cmd, Fetching
  <1>3. /\ UNCHANGED <<cType, cLoggedIn, dataVars, file>>
        /\ Tell(cjob', IF listener["client"] = NoPort THEN "dial" ELSE "reply")
    BY Zenon DEF TypeTransfer
  <1>4. /\ toServer' \in Seq(Command)
        /\ cpc' \in {IF listener["client"] = NoPort THEN "dial" ELSE "reply",
                 "dying", "killed"}
        /\ toClient' = toClient /\ open' = open /\ late' \subseteq Side
    BY <1>1, <1>2, <1>3, TellType, SMT DEF ClientTyped, NetTypeOK
  <1>5. NetTypeOK'
    BY <1>3, <1>4, SMT
    DEF ClientTyped, NetTypeOK, ControlTypeOK, DataTypeOK, FileTypeOK, dataVars
  <1>6. cLoggedIn' \in BOOLEAN /\ cType' \in Type
    BY <1>3, Zenon DEF ClientTyped, ClientTypeOK
  <1>7. ClientTypeOK'
    BY <1>1, <1>2, <1>3, <1>4, <1>6, SMT
    DEF ClientTypeOK, ClientPc, Listening, Transferring, Over, dataVars
  <1> QED
    BY <1>3, <1>5, <1>7, SMT DEF ClientTyped, ServerHolds, dataVars

-----------------------------------------------------------------------------
LEMMA ClientHearsReplyTyped ==
  ASSUME ClientTyped, ClientHearsReply PROVE ClientTyped' /\ ServerHolds
  <1>1. /\ toClient # <<>> /\ toClient' = Tail(toClient)
        /\ UNCHANGED <<toServer, open, late, cLoggedIn, data, file>>
        /\ cpc = "reply" /\ cpc' = "prompt" /\ cjob' = NoWork
        /\ cType' = IF cjob.verb = "TYPE" /\ reply.code = 200 THEN cjob.arg ELSE cType
        /\ \/ /\ addr' = [addr EXCEPT !["client"] = JoinPort(reply.port)]
              /\ StopListening("client")
           \/ UNCHANGED <<addr, listener, backlog, conn>>
    BY SMT DEF ClientHearsReply, Hears
  <1>2. ControlTypeOK /\ DataTypeOK
    BY SMT DEF ClientTyped, NetTypeOK
  <1>3. reply \in Response /\ toClient' \in Seq(Response)
    BY <1>1, <1>2, HearsType, SMT
  <1>4. DataTypeOK'
    <2>1. CASE /\ addr' = [addr EXCEPT !["client"] = JoinPort(reply.port)]
               /\ StopListening("client")
      <3>1. JoinPort(reply.port) \in PortNumber
        BY <1>3, JoinPortType, SMT DEF Response
      <3>2. addr' \in [Side -> PortNumber]
        BY <1>2, <2>1, <3>1, ClientSide, SMT DEF DataTypeOK
      <3> QED
        BY <1>1, <1>2, <2>1, <3>2, ClientSide, StopListeningType, SMT DEF DataTypeOK
    <2>2. CASE UNCHANGED <<addr, listener, backlog, conn>>
      BY <1>1, <1>2, <2>2, SMT DEF DataTypeOK
    <2> QED
      BY <1>1, <2>1, <2>2, Zenon
  <1>5. cType' \in Type /\ cLoggedIn' \in BOOLEAN
    BY <1>1, Zenon DEF ClientTyped, ClientTypeOK
  <1>6. ControlTypeOK'
    BY <1>1, <1>2, <1>3, SMT DEF ControlTypeOK
  <1> QED
    BY <1>1, <1>4, <1>5, <1>6, NoWorkType, QuietClientStep, SMT
    DEF ClientPc, AtUser, Transferring

LEMMA ClientDialsTyped ==
  ASSUME ClientTyped, ClientDials PROVE ClientTyped' /\ ServerHolds
  <1>1. CASE Connect("client") /\ cpc' = "reply" /\ UNCHANGED cjob
    <2>1. /\ DataTypeOK' /\ data'["client"] \in ConnId
          /\ data'["server"] = data["server"]
      BY <1>1, ConnectType, ClientSide, SMT DEF ClientTyped, NetTypeOK
    <2>2. /\ cpc = "dial" /\ UNCHANGED <<ctlVars, cType, cLoggedIn, file>>
      BY SMT DEF ClientDials
    <2>3. NetTypeOK'
      BY <2>1, <2>2, SMT
      DEF ClientTyped, NetTypeOK, ControlTypeOK, FileTypeOK, ctlVars
    <2>4. ClientTypeOK'
      BY <1>1, <2>1, <2>2, SMT
      DEF ClientTyped, ClientTypeOK, ClientPc, Transferring, Listening, Fetching
    <2> QED
      BY <2>1, <2>2, <2>3, <2>4, SMT DEF ClientTyped, ServerHolds
  <1>2. CASE ConnectFails("client") /\ cpc' = "prompt" /\ cjob' = NoWork
    BY <1>2, NoWorkType, StillClientStep, SMT
    DEF ClientDials, ConnectFails, ctlVars, ClientTyped, NetTypeOK,
        ControlTypeOK, ClientPc, AtUser, Transferring
  <1> QED
    BY <1>1, <1>2, Zenon DEF ClientDials

LEMMA ClientHearsOpeningTyped ==
  ASSUME ClientTyped, ClientHearsOpening PROVE ClientTyped' /\ ServerHolds
  <1>1. /\ toClient # <<>> /\ toClient' = Tail(toClient)
        /\ UNCHANGED <<toServer, open, late, cType, cLoggedIn, file>>
        /\ cpc = "reply" /\ Fetching(cjob)
        /\ \/ /\ cpc' = IF listener["client"] = NoPort THEN "open" ELSE "link"
              /\ UNCHANGED <<cjob, dataVars>>
           \/ /\ cpc' = "prompt" /\ cjob' = NoWork
              /\ DropData("client")
    BY SMT DEF ClientHearsOpening, Hears
  <1>2. ControlTypeOK'
    <2>1. toClient' \in Seq(Response)
      BY <1>1, HearsType, SMT DEF ClientTyped, NetTypeOK
    <2> QED
      BY <1>1, <2>1, SMT DEF ClientTyped, NetTypeOK, ControlTypeOK
  <1>3. CASE /\ cpc' = IF listener["client"] = NoPort THEN "open" ELSE "link"
             /\ UNCHANGED <<cjob, dataVars>>
    <2>1. NetTypeOK'
      BY <1>1, <1>2, <1>3, SMT
      DEF ClientTyped, NetTypeOK, DataTypeOK, FileTypeOK, dataVars
    <2>2. ClientTypeOK'
      BY <1>1, <1>3, SMT
      DEF ClientTyped, ClientTypeOK, ClientPc, Transferring, Listening, dataVars
    <2> QED
      BY <1>1, <1>3, <2>1, <2>2, SMT DEF ClientTyped, ServerHolds, dataVars
  <1>4. CASE /\ cpc' = "prompt" /\ cjob' = NoWork
             /\ DropData("client")
    <2>1. DataTypeOK' /\ data'["server"] = data["server"]
      BY <1>4, DropDataType, ClientSide, SMT DEF ClientTyped, NetTypeOK
    <2>2. cLoggedIn' \in BOOLEAN /\ cType' \in Type
      BY <1>1, Zenon DEF ClientTyped, ClientTypeOK
    <2> QED
      BY <1>1, <1>2, <1>4, <2>1, <2>2, NoWorkType, QuietClientStep, SMT
      DEF ClientPc, AtUser, Transferring
  <1> QED
    BY <1>1, <1>3, <1>4, Zenon

LEMMA ClientAcceptsTyped ==
  ASSUME ClientTyped, ClientAccepts PROVE ClientTyped' /\ ServerHolds
  <1>1. /\ DataTypeOK' /\ data'["client"] \in ConnId
        /\ data'["server"] = data["server"]
    BY AcceptType, ClientSide, SMT DEF ClientAccepts, ClientTyped, NetTypeOK
  <1>2. NetTypeOK'
    BY <1>1, SMT
    DEF ClientAccepts, ClientTyped, NetTypeOK, ControlTypeOK, FileTypeOK, ctlVars
  <1>3. ClientTypeOK'
    BY <1>1, SMT
    DEF ClientAccepts, ClientTyped, ClientTypeOK, ClientPc, Transferring, Fetching
  <1> QED
    BY <1>1, <1>2, <1>3, SMT DEF ClientAccepts, ClientTyped, ServerHolds

LEMMA ClientFailsAcceptTyped ==
  ASSUME ClientTyped, ClientFailsAccept PROVE ClientTyped' /\ ServerHolds
  BY NoWorkType, StillClientStep, SMT
  DEF ClientFailsAccept, AcceptTimesOut, ctlVars, ClientTyped, NetTypeOK,
      ControlTypeOK, ClientPc, AtUser, Transferring

-----------------------------------------------------------------------------
\* Saving a body b as a file of the client.
LEMMA ClientSaves ==
  ASSUME FileTypeOK, NEW n \in Name, NEW b \in Body,
         file' = [file EXCEPT !["client"][n] = b]
  PROVE  FileTypeOK' /\ file'["server"] = file["server"]
  BY SMT DEF FileTypeOK, Side

LEMMA ClientOpensLocalTyped ==
  ASSUME ClientTyped, ClientOpensLocal PROVE ClientTyped' /\ ServerHolds
  <1>1. /\ cpc = "open" /\ UNCHANGED <<cType, cLoggedIn>>
        /\ cjob.verb = "RETR" /\ cjob.arg \in Name /\ data["client"] \in ConnId
    BY SMT
    DEF ClientOpensLocal, ClientTyped, ClientTypeOK, Transferring, Fetching
  <1>2. cType' \in Type /\ cLoggedIn' \in BOOLEAN
    BY <1>1, Zenon DEF ClientTyped, ClientTypeOK
  <1>3. CASE /\ Tell(Cmd("OTHER", Plain), "prompt")
             /\ DropData("client")
             /\ cjob' = NoWork
             /\ UNCHANGED file
    <2>1. Cmd("OTHER", Plain) \in Command
      <3>1. Plain \in ArgOf("OTHER") \cap Arg /\ "OTHER" \in Verb
        BY SMT DEF ArgOf, Arg, Verb
      <3> QED
        BY <3>1, CmdType, SMT
    <2>2. ControlTypeOK' /\ cpc' \in {"prompt", "dying", "killed"}
      BY <1>3, <2>1, TellType, SMT DEF ClientTyped, NetTypeOK, ControlTypeOK
    <2>3. DataTypeOK' /\ data'["server"] = data["server"]
      BY <1>3, DropDataType, ClientSide, SMT DEF ClientTyped, NetTypeOK
    <2> QED
      BY <1>2, <1>3, <2>2, <2>3, NoWorkType, QuietClientStep, SMT
      DEF ClientPc, AtUser, Over, Transferring
  <1>4. CASE /\ file' = [file EXCEPT !["client"][cjob.arg] = EmptyBody]
             /\ cpc' = "recv"
             /\ UNCHANGED <<ctlVars, cjob, dataVars>>
    <2>1. FileTypeOK
      BY SMT DEF ClientTyped, NetTypeOK
    <2>2. FileTypeOK' /\ file'["server"] = file["server"]
      BY <1>1, <1>4, <2>1, ClientSaves, SpecialBodies, Zenon
    <2>3. NetTypeOK'
      BY <1>4, <2>2, SMT
      DEF ClientTyped, NetTypeOK, ControlTypeOK, DataTypeOK, ctlVars, dataVars
    <2>4. ClientTypeOK'
      BY <1>1, <1>2, <1>4, SMT
      DEF ClientTyped, ClientTypeOK, ClientPc, Transferring, Fetching, dataVars
    <2> QED
      BY <1>4, <2>2, <2>3, <2>4, SMT DEF ClientTyped, ServerHolds, dataVars
  <1> QED
    BY <1>3, <1>4, Zenon DEF ClientOpensLocal

LEMMA ClientSendsTyped ==
  ASSUME ClientTyped, ClientSends PROVE ClientTyped' /\ ServerHolds
  <1> DEFINE c == data["client"]
             ship(b) == conn' = [conn EXCEPT
                          ![c] = Shipped(@, "server", Encode(cType, b))]
             body == file["client"][cjob.arg]
  <1>1. /\ cpc = "open"
        /\ data' = [data EXCEPT !["client"] = NoConn]
        /\ UNCHANGED <<ctlVars, cType, cLoggedIn, listener, addr, backlog, file>>
    BY SMT DEF ClientSends
  <1>2. \/ conn' = HangUp({c}, "client")
        \/ body # Absent /\ ship(body)
        \/ ship(Damaged)
    BY SMT DEF ClientSends
  <1>3. /\ cpc' \in {"prompt", "done", "killed", "dying"}
        /\ cjob' = NoWork \/ cjob' = cjob
    BY SMT DEF ClientSends
  <1>4. /\ c \in ConnId /\ cjob.arg \in Name
        /\ cjob \in Command /\ cType \in Type
    BY <1>1, SMT DEF ClientTyped, ClientTypeOK, Transferring
  <1>5. /\ body # Absent => body \in Body
        /\ Damaged \in Body
    BY <1>4, SpecialBodies, ClientSide, SMT DEF ClientTyped, NetTypeOK, FileTypeOK
  <1> HIDE DEF c, body
  <1>6. \A b \in Body : ship(b) => conn' \in [ConnId -> Connection]
    <2> SUFFICES ASSUME NEW b \in Body, ship(b) PROVE conn' \in [ConnId -> Connection]
      OBVIOUS
    <2>1. conn \in [ConnId -> Connection] /\ conn[c] \in Connection
      BY <1>4, SMT DEF ClientTyped, NetTypeOK, DataTypeOK
    <2>2. Encode(cType, b) \in Payload
      BY <1>4, EncodeType, SMT
    <2>3. "server" \in Side
      BY SMT DEF Side
    <2>4. Shipped(conn[c], "server", Encode(cType, b)) \in Connection
      BY <2>1, <2>2, <2>3, ShippedType, SMT
    <2> QED
      BY <1>4, <2>1, <2>4, ConnUpdateType, SMT
  <1>7. conn' \in [ConnId -> Connection]
    <2>1. DataTypeOK
      BY SMT DEF ClientTyped, NetTypeOK
    <2>2. HangUp({c}, "client") \in [ConnId -> Connection]
      BY <2>1, HangUpType, ClientSide, SMT
    <2> QED
      BY <1>2, <1>5, <1>6, <2>2, Zenon
  <1>8. DataTypeOK' /\ data'["server"] = data["server"]
    BY <1>1, <1>7, ClientSide, SMT DEF ClientTyped, NetTypeOK, DataTypeOK, Side
  <1>9. ControlTypeOK' /\ UNCHANGED file
    BY <1>1, SMT DEF ClientTyped, NetTypeOK, ControlTypeOK, ctlVars
  <1>10. cType' \in Type /\ cLoggedIn' \in BOOLEAN
    BY <1>1, Zenon DEF ClientTyped, ClientTypeOK
  <1> QED
    BY <1>3, <1>4, <1>8, <1>9, <1>10, NoWorkType, QuietClientStep, SMT
    DEF ClientPc, AtUser, Listening, Over, Transferring

LEMMA ClientReceivesTyped ==
  ASSUME ClientTyped, ClientReceives PROVE ClientTyped' /\ ServerHolds
  <1> DEFINE received == Decode(cType, conn[data["client"]].wire["client"])
  <1>1. /\ cpc = "recv" /\ DropData("client")
        /\ UNCHANGED <<ctlVars, cType, cLoggedIn, cjob>>
        /\ cpc' \in {"done", "dying"}
    BY SMT DEF ClientReceives
  <1>2. \E b \in {received, Damaged} :
          file' = [file EXCEPT !["client"][cjob.arg] = b]
    BY SMT DEF ClientReceives
  <1>3. /\ data["client"] \in ConnId /\ cjob.arg \in Name
        /\ cType \in Type /\ cjob \in Command
    BY <1>1, SMT DEF ClientTyped, ClientTypeOK, Transferring
  <1>4. received \in Body /\ Damaged \in Body
    <2>1. conn[data["client"]].wire["client"] \in Payload
      BY <1>3, ClientSide, SMT DEF ClientTyped, NetTypeOK, DataTypeOK, Connection
    <2> QED
      BY <1>3, <2>1, DecodeType, SpecialBodies, SMT
  <1> HIDE DEF received
  <1>5. FileTypeOK' /\ file'["server"] = file["server"]
    <2>1. FileTypeOK
      BY SMT DEF ClientTyped, NetTypeOK
    <2>2. PICK b \in {received, Damaged} :
            file' = [file EXCEPT !["client"][cjob.arg] = b]
      BY <1>2, Zenon
    <2>3. b \in Body
      BY <1>4, SMT
    <2> QED
      BY <1>3, <2>1, <2>2, <2>3, ClientSaves, Zenon
  <1>6. DataTypeOK' /\ data'["server"] = data["server"]
    BY <1>1, DropDataType, ClientSide, SMT DEF ClientTyped, NetTypeOK
  <1>7. cLoggedIn' \in BOOLEAN
    BY <1>1, Zenon DEF ClientTyped, ClientTypeOK
  <1>8. ClientTypeOK'
    BY <1>1, <1>3, <1>7, SMT
    DEF ClientTypeOK, ClientPc, Listening, Over, Transferring
  <1> QED
    BY <1>1, <1>5, <1>6, <1>8, SMT
    DEF ClientTyped, NetTypeOK, ControlTypeOK, ctlVars, ServerHolds

-----------------------------------------------------------------------------
LEMMA ClientHearsLastTyped ==
  ASSUME ClientTyped, ClientHearsDone \/ ClientHearsBye
  PROVE  ClientTyped' /\ ServerHolds
  <1>1. /\ toClient # <<>> /\ toClient' = Tail(toClient)
        /\ UNCHANGED <<toServer, open, late, cType, cLoggedIn, dataVars, file>>
        /\ cpc' \in {"prompt", "dying"}
        /\ cjob' = NoWork \/ cjob' = cjob
    BY SMT DEF ClientHearsDone, ClientHearsBye, Hears
  <1>2. toClient' \in Seq(Response)
    BY <1>1, HearsType, SMT DEF ClientTyped, NetTypeOK
  <1> QED
    BY <1>1, <1>2, NoWorkType, StillClientStep, SMT
    DEF ClientTyped, NetTypeOK, ControlTypeOK, ClientTypeOK, ClientPc, AtUser,
        Over, Transferring

LEMMA ClientLosesServerTyped ==
  ASSUME ClientTyped, ClientLosesServer PROVE ClientTyped' /\ ServerHolds
  BY StillClientStep, SMT
  DEF ClientLosesServer, ctlVars, ClientTyped, NetTypeOK, ControlTypeOK,
      ClientTypeOK, ClientPc, Over, Transferring

LEMMA ClientInterruptedTyped ==
  ASSUME ClientTyped, ClientInterrupted PROVE ClientTyped' /\ ServerHolds
  <1>1. /\ cpc' = "dying"
        /\ UNCHANGED <<ctlVars, cType, cLoggedIn, cjob, dataVars>>
    BY SMT DEF ClientInterrupted
  <1>2. CASE UNCHANGED file
    BY <1>1, <1>2, StillClientStep, SMT
    DEF ctlVars, ClientTyped, NetTypeOK, ControlTypeOK, ClientTypeOK, ClientPc,
        Over, Transferring
  <1>3. CASE /\ cpc = "recv"
             /\ file' = [file EXCEPT !["client"][cjob.arg] = Damaged]
    <2>1. FileTypeOK /\ cjob.arg \in Name
      BY <1>3, SMT DEF ClientTyped, NetTypeOK, ClientTypeOK, Transferring
    <2>2. FileTypeOK' /\ file'["server"] = file["server"]
      BY <1>3, <2>1, ClientSaves, SpecialBodies, Zenon
    <2> QED
      BY <1>1, <2>2, SMT
      DEF ctlVars, dataVars, ClientTyped, NetTypeOK, ControlTypeOK, DataTypeOK,
          ClientTypeOK, ClientPc, Transferring, Over, ServerHolds
  <1> QED
    BY <1>2, <1>3, SMT DEF ClientInterrupted

LEMMA ClientExitsTyped ==
  ASSUME ClientTyped, ClientExits PROVE ClientTyped' /\ ServerHolds
  <1>1. /\ Vanish("client") /\ cpc' = "gone" /\ cjob' = NoWork
        /\ UNCHANGED <<toServer, toClient, cType, cLoggedIn, file>>
    BY SMT DEF ClientExits
  <1>2. /\ DataTypeOK' /\ open' \subseteq Side /\ late' \subseteq Side
        /\ data'["server"] = data["server"]
    BY <1>1, VanishType, ClientSide, SMT DEF ClientTyped, NetTypeOK, ControlTypeOK
  <1>3. cType' \in Type /\ cLoggedIn' \in BOOLEAN
    BY <1>1, Zenon DEF ClientTyped, ClientTypeOK
  <1>4. ControlTypeOK'
    BY <1>1, <1>2, SMT DEF ClientTyped, NetTypeOK, ControlTypeOK
  <1> QED
    BY <1>1, <1>2, <1>3, <1>4, NoWorkType, QuietClientStep, SMT
    DEF ClientPc, Over, Transferring

\* Init's part of the client, over a network that is well typed.
LEMMA ClientInitTyped ==
  ASSUME NetTypeOK, ClientInit PROVE ClientTyped
  <1>1. cLoggedIn \in BOOLEAN
    BY Zenon DEF ClientInit
  <1> QED
    BY <1>1, NoWorkType, SMT
    DEF ClientInit, ClientTyped, ClientTypeOK, ClientPc, Listening,
        Transferring, Type

(***************************************************************************)
(* Every step of the client keeps the types and the server's holdings.     *)
(***************************************************************************)
LEMMA ClientKeepsTypes ==
  ASSUME ClientTyped,
         ClientStep \/ ClientFailsAccept \/ UserStep \/ ClientInterrupted
  PROVE  ClientTyped' /\ ServerHolds
  <1>1. CASE UserStep
    BY <1>1, TypeUserTyped, TypePasswordTyped, SendPlainTyped, TypePassTyped,
       TypePortTyped, TypeQuitTyped, TypeTransferTyped, SMT
    DEF UserStep
  <1>2. CASE ClientStep
    BY <1>2, ClientHearsGreetingTyped, ClientHearsUserReplyTyped,
       ClientHearsPassReplyTyped, ClientHearsReplyTyped, ClientDialsTyped,
       ClientHearsOpeningTyped, ClientAcceptsTyped, ClientOpensLocalTyped,
       ClientSendsTyped, ClientReceivesTyped, ClientHearsLastTyped,
       ClientLosesServerTyped, ClientExitsTyped, SMT
    DEF ClientStep
  <1>3. CASE ClientFailsAccept \/ ClientInterrupted
    BY <1>3, ClientFailsAcceptTyped, ClientInterruptedTyped, SMT
  <1> QED
    BY <1>1, <1>2, <1>3, SMT

-----------------------------------------------------------------------------
LEMMA InitTyped == Init => TypeOK
  <1> SUFFICES ASSUME Init PROVE TypeOK
    OBVIOUS
  <1>1. ControlTypeOK
    BY SMT DEF Init, ControlTypeOK
  <1>2. DataTypeOK
    <2>1. DefaultPort \in PortNumber /\ NoPort \in PortNumber
      BY SMT DEF DefaultPort, NoPort, PortNumber, Word
    <2>2. conn \in [ConnId -> Connection]
      BY FreshType, SMT DEF Init
    <2> QED
      BY <2>1, <2>2, SMT DEF Init, DataTypeOK
  <1>3. FileTypeOK
    BY NetAssumption, Zenon DEF Init, FileTypeOK
  <1>4. NetTypeOK
    BY <1>1, <1>2, <1>3 DEF NetTypeOK
  <1> QED
    BY <1>4, ServerInitTyped, ClientInitTyped, SMT
    DEF Init, TypeOK, ServerTyped, ClientTyped

\* A step of one interpreter keeps what the other one relies on.
LEMMA ServerStepTyped ==
  ASSUME TypeOK, ServerStep \/ ServerFailsData \/ ServerInterrupted,
         UNCHANGED clientVars
  PROVE  TypeOK'
  <1>1. ServerTyped' /\ ClientHolds
    BY ServerKeepsTypes, SMT DEF TypeOK, ServerTyped
  <1>2. ClientTypeOK'
    BY <1>1, SMT DEF TypeOK, ClientTypeOK, clientVars, ClientHolds, Fetching
  <1> QED
    BY <1>1, <1>2, SMT DEF TypeOK, ServerTyped

LEMMA ClientStepTyped ==
  ASSUME TypeOK,
         ClientStep \/ ClientFailsAccept \/ UserStep \/ ClientInterrupted,
         UNCHANGED serverVars
  PROVE  TypeOK'
  <1>1. ClientTyped' /\ ServerHolds
    BY ClientKeepsTypes, SMT DEF TypeOK, ClientTyped
  <1>2. ServerTypeOK'
    BY <1>1, SMT DEF TypeOK, ServerTypeOK, serverVars, ServerHolds
  <1> QED
    BY <1>1, <1>2, SMT DEF TypeOK, ClientTyped

LEMMA NextSplits ==
  ASSUME Next
  PROVE  \/ /\ ServerStep \/ ServerFailsData \/ ServerInterrupted
            /\ UNCHANGED clientVars
         \/ /\ ClientStep \/ ClientFailsAccept \/ UserStep \/ ClientInterrupted
            /\ UNCHANGED serverVars
         \/ UNCHANGED vars
  BY Zenon
  DEF Next, ServerAction, ClientAction, UserAction, Interruption, Ends,
      ServerTimesOut, ClientTimesOut

LEMMA StepTyped == TypeOK /\ [Next]_vars => TypeOK'
  <1> SUFFICES ASSUME TypeOK, [Next]_vars PROVE TypeOK'
    OBVIOUS
  <1>1. CASE UNCHANGED vars
    BY <1>1, SMT
    DEF vars, netVars, serverVars, clientVars, TypeOK, NetTypeOK,
        ControlTypeOK, DataTypeOK, FileTypeOK, ServerTypeOK, ClientTypeOK
  <1> QED
    BY <1>1, NextSplits, ServerStepTyped, ClientStepTyped, Zenon

(***************************************************************************)
(* Types.  Every variable of both interpreters and of what they share      *)
(* keeps its type, a transfer always has a file name that the verb allows, *)
(* and an interpreter that moves a file holds a data connection, on every  *)
(* path through the handlers of both ServerProtocolInterpreter and         *)
(* ClientProtocolInterpreter.                                              *)
(***************************************************************************)
THEOREM SessionTyped == Spec => []TypeOK
  <1> QED
    BY InitTyped, StepTyped, PTL DEF Spec

-----------------------------------------------------------------------------
(***************************************************************************)
(* Work.  Each interpreter pays for what it sends from what it has left.   *)
(***************************************************************************)
ServerSpends ==
  5 * Len(toServer') + Len(toClient') + ServerLeft'
    < 5 * Len(toServer) + Len(toClient) + ServerLeft

ClientSpends ==
  5 * Len(toServer') + Len(toClient') + ClientLeft'
    < 5 * Len(toServer) + Len(toClient) + ClientLeft

LEMMA MessagesLeft ==
  ASSUME NEW S, NEW q \in Seq(S)
  PROVE  /\ Len(q) \in Nat
         /\ q # <<>> => Len(Tail(q)) = Len(q) - 1
         /\ \A m : Len(Append(q, m)) = Len(q) + 1
  <1>1. Len(q) \in Nat /\ (q # <<>> => Len(Tail(q)) = Len(q) - 1)
    BY LenProperties, HeadTailProperties, Zenon
  <1>2. ASSUME NEW m PROVE Len(Append(q, m)) = Len(q) + 1
    <2>1. q \in Seq(S \cup {m})
      BY SMT
    <2> QED
      BY <2>1, AppendProperties, SMT
  <1> QED
    BY <1>1, <1>2, Zenon

\* A reply is written, or not, before the server goes on to pc.
LEMMA SayCosts ==
  ASSUME ControlTypeOK, NEW r, NEW pc \in {"cmd", "link", "dying"}, Say(r, pc)
  PROVE  /\ Len(toClient') \in Nat /\ Len(toClient') =< Len(toClient) + 1
         /\ spc' \in {pc, "dying", "killed"}
  <1>1. toClient' = toClient \/ toClient' = Append(toClient, r)
    BY Zenon DEF Say
  <1>2. spc' \in {pc, "dying", "killed"}
    BY SMT DEF Say
  <1>3. /\ Len(toClient) \in Nat
        /\ Len(Append(toClient, r)) = Len(toClient) + 1
    BY MessagesLeft, Zenon DEF ControlTypeOK
  <1> QED
    BY <1>1, <1>2, <1>3, SMT

\* Every handler takes one command and gives one reply at most.
Responds ==
  \/ \E r : \E pc \in {"cmd", "link", "dying"} : Say(r, pc)
  \/ spc' = "dying" /\ UNCHANGED toClient

LEMMA HandleCommandResponds ==
  ASSUME HandleCommand
  PROVE  (\E v : Takes(v)) /\ Responds
  <1>1. \A v : Refuse(v) => Takes(v) /\ Responds
    BY ZenonT(40) DEF Refuse, Responds
  <1>2. HandleType => Takes("TYPE") /\ Responds
    BY <1>1, ZenonT(40) DEF HandleType, Responds
  <1>3. \A v : HandleModeOrStru(v) => Takes(v) /\ Responds
    BY <1>1, ZenonT(40) DEF HandleModeOrStru, Responds
  <1>4. HandleUser => Takes("USER") /\ Responds
    BY <1>1, ZenonT(40) DEF HandleUser, Responds
  <1>5. HandlePass => Takes("PASS") /\ Responds
    BY <1>1, ZenonT(40) DEF HandlePass, Responds
  <1>6. HandleQuit => Takes("QUIT") /\ Responds
    BY ZenonT(40) DEF HandleQuit, Responds
  <1>7. HandlePort => Takes("PORT") /\ Responds
    BY <1>1, ZenonT(40) DEF HandlePort, Responds
  <1>8. HandlePasv => Takes("PASV") /\ Responds
    BY <1>1, ZenonT(40) DEF HandlePasv, Responds
  <1>9. HandleRetr => Takes("RETR") /\ Responds
    BY <1>1, ZenonT(40) DEF HandleRetr, StartJob, Responds
  <1>10. HandleStor => Takes("STOR") /\ Responds
    BY <1>1, ZenonT(40) DEF HandleStor, StartJob, Responds
  <1>11. HandleNoop => Takes("NOOP") /\ Responds
    BY <1>1, ZenonT(40) DEF HandleNoop, Responds
  <1>12. HandleNotImplemented => Takes("OTHER") /\ Responds
    BY ZenonT(40) DEF HandleNotImplemented, Responds
  <1> QED
    BY <1>2, <1>3, <1>4, <1>5, <1>6, <1>7, <1>8, <1>9, <1>10, <1>11, <1>12,
       ZenonT(40) DEF HandleCommand

LEMMA ServerStepSpends ==
  ASSUME TypeOK, ServerStep \/ ServerFailsData \/ ServerInterrupted
  PROVE  ServerSpends
  <1> USE DEF ServerSpends
  <1>1. /\ ControlTypeOK /\ spc \in ServerPc
        /\ Len(toServer) \in Nat /\ Len(toClient) \in Nat
    BY LenProperties, Zenon DEF TypeOK, NetTypeOK, ControlTypeOK, ServerTypeOK
  <1>2. CASE HandleCommand
    <2>1. /\ toServer # <<>> /\ toServer' = Tail(toServer) /\ spc = "cmd"
          /\ Responds
      BY <1>2, HandleCommandResponds, Zenon DEF Takes
    <2>2. Len(toServer') = Len(toServer) - 1
      BY <1>1, <2>1, MessagesLeft, Zenon DEF ControlTypeOK
    <2>3. /\ Len(toClient') \in Nat /\ Len(toClient') =< Len(toClient) + 1
          /\ spc' \in {"cmd", "link", "dying", "killed"}
      <3>1. CASE \E r : \E pc \in {"cmd", "link", "dying"} : Say(r, pc)
        BY <1>1, <3>1, SayCosts, SMT
      <3>2. CASE spc' = "dying" /\ UNCHANGED toClient
        BY <1>1, <3>2, SMT
      <3> QED
        BY <2>1, <3>1, <3>2, Zenon DEF Responds
    <2> QED
      BY <1>1, <2>1, <2>2, <2>3, SMT DEF ServerLeft
  <1>3. CASE Greet \/ ServerFailsData
    <2>1. /\ toServer' = toServer /\ spc \in {"greet", "link"}
          /\ \E r : Say(r, "cmd")
      BY <1>3, Zenon DEF Greet, ServerFailsData
    <2>2. /\ Len(toClient') \in Nat /\ Len(toClient') =< Len(toClient) + 1
          /\ spc' \in {"cmd", "dying", "killed"}
      BY <1>1, <2>1, SayCosts, SMT
    <2> QED
      BY <1>1, <2>1, <2>2, SMT DEF ServerLeft
  <1>4. CASE ServerSends \/ ServerReceives
    <2>1. /\ toServer' = toServer /\ spc = "move"
          /\ \/ \E r : Say(r, "cmd")
             \/ spc' \in {"dying", "killed"} /\ UNCHANGED toClient
      BY <1>4, SMT DEF ServerSends, ServerReceives
    <2>2. /\ Len(toClient') \in Nat /\ Len(toClient') =< Len(toClient) + 1
          /\ spc' \in {"cmd", "dying", "killed"}
      BY <1>1, <2>1, SayCosts, SMT
    <2> QED
      BY <1>1, <2>1, <2>2, SMT DEF ServerLeft
  <1>5. CASE ServerOpensData
    BY <1>1, <1>5, SMT DEF ServerOpensData, ctlVars, ServerLeft
  <1>6. CASE ServerLosesClient \/ ServerExits \/ ServerInterrupted
    BY <1>1, <1>6, SMT
    DEF ServerLosesClient, ServerExits, ServerInterrupted, ctlVars, ServerLeft,
        ServerPc, Ended
  <1> QED
    BY <1>2, <1>3, <1>4, <1>5, <1>6, Zenon DEF ServerStep

LEMMA HearsOne ==
  ASSUME ControlTypeOK, toClient # <<>>, toClient' = Tail(toClient)
  PROVE  Len(toClient') = Len(toClient) - 1
  BY MessagesLeft, Zenon DEF ControlTypeOK

\* A command is sent, or not, before the client goes on to pc.
LEMMA TellCosts ==
  ASSUME ControlTypeOK, NEW c, NEW pc, Tell(c, pc)
  PROVE  /\ Len(toServer') \in Nat /\ Len(toServer') =< Len(toServer) + 1
         /\ cpc' \in {pc, "dying", "killed"} /\ toClient' = toClient
  <1>1. toServer' = toServer \/ toServer' = Append(toServer, c)
    BY Zenon DEF Tell
  <1>2. cpc' \in {pc, "dying", "killed"} /\ toClient' = toClient
    BY SMT DEF Tell
  <1>3. /\ Len(toServer) \in Nat
        /\ Len(Append(toServer, c)) = Len(toServer) + 1
    BY MessagesLeft, Zenon DEF ControlTypeOK
  <1> QED
    BY <1>1, <1>2, <1>3, SMT

LEMMA RebindCosts ==
  ASSUME ControlTypeOK, NEW n, Rebind(n)
  PROVE  /\ Len(toServer') \in Nat /\ Len(toServer') =< Len(toServer) + 1
         /\ cpc' \in {"reply", "dying", "killed"}
  <1>1. /\ toServer' = toServer \/ \E c : toServer' = Append(toServer, c)
        /\ cpc' \in {"reply", "dying", "killed"}
    BY SMT DEF Rebind
  <1>2. /\ Len(toServer) \in Nat
        /\ \A c : Len(Append(toServer, c)) = Len(toServer) + 1
    BY MessagesLeft, Zenon DEF ControlTypeOK
  <1> QED
    BY <1>1, <1>2, SMT

LEMMA ClientStepSpends ==
  ASSUME TypeOK, ClientStep \/ ClientFailsAccept \/ ClientInterrupted
  PROVE  ClientSpends
  <1> USE DEF ClientSpends
  <1>1. /\ ControlTypeOK /\ cpc \in ClientPc
        /\ Len(toServer) \in Nat /\ Len(toClient) \in Nat
    BY LenProperties, Zenon DEF TypeOK, NetTypeOK, ControlTypeOK, ClientTypeOK
  <1>2. CASE \/ ClientHearsGreeting \/ ClientHearsUserReply \/ ClientHearsReply
             \/ ClientHearsOpening \/ ClientHearsDone \/ ClientHearsBye
    <2>1. Hears
      BY <1>2, Zenon
      DEF ClientHearsGreeting, ClientHearsUserReply, ClientHearsReply,
          ClientHearsOpening, ClientHearsDone, ClientHearsBye
    <2>2. toServer' = toServer /\ Len(toClient') = Len(toClient) - 1
      BY <1>1, <2>1, HearsOne, Zenon DEF Hears
    <2>3. \/ cpc \in {"greet", "userReply", "done", "bye"}
             /\ cpc' \in {"user", "pass", "prompt", "dying"}
          \/ cpc = "reply" /\ cpc' \in {"prompt", "open", "link"}
      BY <1>2, SMT
      DEF ClientHearsGreeting, ClientHearsUserReply, ClientHearsReply,
          ClientHearsOpening, ClientHearsDone, ClientHearsBye
    <2> QED
      BY <1>1, <2>2, <2>3, SMTT(40) DEF ClientLeft, AtUser, Listening
  <1>3. CASE ClientHearsPassReply
    <2>1. /\ cpc = "passReply" /\ toClient # <<>> /\ toClient' = Tail(toClient)
          /\ \/ Rebind(listener["client"])
             \/ cpc' \in {"prompt", "pass"} /\ toServer' = toServer
      BY <1>3, SMT DEF ClientHearsPassReply
    <2>2. Len(toClient') = Len(toClient) - 1
      BY <1>1, <2>1, HearsOne, Zenon
    <2>3. /\ Len(toServer') \in Nat /\ Len(toServer') =< Len(toServer) + 1
          /\ cpc' \in {"reply", "prompt", "pass", "dying", "killed"}
      BY <1>1, <2>1, RebindCosts, SMT
    <2> QED
      BY <1>1, <2>1, <2>2, <2>3, SMT DEF ClientLeft, AtUser, Listening
  <1>4. CASE ClientOpensLocal
    <2>1. /\ cpc = "open"
          /\ \/ \E c : Tell(c, "prompt")
             \/ cpc' = "recv" /\ UNCHANGED <<toServer, toClient>>
      BY <1>4, Zenon DEF ClientOpensLocal, ctlVars
    <2>2. /\ Len(toServer') \in Nat /\ toClient' = toClient
          /\ \/ /\ Len(toServer') =< Len(toServer) + 1
                /\ cpc' \in {"prompt", "dying", "killed"}
             \/ cpc' = "recv" /\ toServer' = toServer
      BY <1>1, <2>1, TellCosts, SMT
    <2> QED
      BY <1>1, <2>1, <2>2, SMT DEF ClientLeft, AtUser, Listening
  <1>5. CASE \/ ClientDials \/ ClientAccepts \/ ClientSends \/ ClientReceives
             \/ ClientFailsAccept
    <2>1. /\ UNCHANGED <<toServer, toClient>>
          /\ \/ cpc = "dial" /\ cpc' \in {"reply", "prompt"}
             \/ cpc = "link" /\ cpc' \in {"open", "prompt"}
             \/ cpc = "open" /\ cpc' \in {"prompt", "done", "dying", "killed"}
             \/ cpc = "recv" /\ cpc' \in {"done", "dying"}
      BY <1>5, SMT
      DEF ClientDials, ClientAccepts, ClientSends, ClientReceives,
          ClientFailsAccept, ctlVars
    <2> QED
      BY <1>1, <2>1, SMT DEF ClientLeft, AtUser, Listening
  <1>6. CASE ClientLosesServer \/ ClientExits \/ ClientInterrupted
    <2>1. /\ UNCHANGED <<toServer, toClient>>
          /\ \/ cpc \notin Over /\ cpc' = "dying"
             \/ cpc \in {"dying", "killed"} /\ cpc' = "gone"
      BY <1>6, SMT
      DEF ClientLosesServer, ClientExits, ClientInterrupted, ctlVars,
          Listening, Over
    <2> QED
      BY <1>1, <2>1, SMT
      DEF ClientLeft, AtUser, Listening, Transferring, ClientPc, Over
  <1> QED
    BY <1>2, <1>3, <1>4, <1>5, <1>6, Zenon DEF ClientStep

LEMMA StepUsesWork ==
  TypeOK /\ TypeOK' /\ [Next]_vars => [UserAction \/ Work' < Work]_vars
  <1> SUFFICES ASSUME TypeOK, TypeOK', Next, ~UserAction, vars' # vars
               PROVE  Work' < Work
    BY Zenon
  <1>1. /\ Len(toServer) \in Nat /\ Len(toClient) \in Nat
        /\ Len(toServer') \in Nat /\ Len(toClient') \in Nat
    BY LenProperties, Zenon DEF TypeOK, NetTypeOK, ControlTypeOK
  <1>2. /\ ServerLeft \in Nat /\ ClientLeft \in Nat
        /\ ServerLeft' \in Nat /\ ClientLeft' \in Nat
    <2>1. /\ spc \in ServerPc /\ cpc \in ClientPc
          /\ spc' \in ServerPc /\ cpc' \in ClientPc
      BY Zenon DEF TypeOK, ServerTypeOK, ClientTypeOK
    <2>2. ServerLeft \in Nat /\ ServerLeft' \in Nat
      BY <2>1, SMT DEF ServerLeft, ServerPc
    <2>3. ClientLeft \in Nat /\ ClientLeft' \in Nat
      BY <2>1, SMT
      DEF ClientLeft, ClientPc, AtUser, Listening, Transferring, Over
    <2> QED
      BY <2>2, <2>3, Zenon
  <1>3. \/ /\ ServerStep \/ ServerFailsData \/ ServerInterrupted
           /\ UNCHANGED clientVars
        \/ /\ ClientStep \/ ClientFailsAccept \/ ClientInterrupted
           /\ UNCHANGED serverVars
    BY Zenon
    DEF Next, ServerAction, ClientAction, Interruption, Ends, ServerTimesOut,
        ClientTimesOut
  <1>4. CASE /\ ServerStep \/ ServerFailsData \/ ServerInterrupted
             /\ UNCHANGED clientVars
    <2>1. ServerSpends /\ ClientLeft' = ClientLeft
      BY <1>4, ServerStepSpends, Zenon DEF clientVars, ClientLeft
    <2> QED
      BY <1>1, <1>2, <2>1, SMT DEF ServerSpends, Work
  <1>5. CASE /\ ClientStep \/ ClientFailsAccept \/ ClientInterrupted
             /\ UNCHANGED serverVars
    <2>1. ClientSpends /\ ServerLeft' = ServerLeft
      BY <1>5, ClientStepSpends, Zenon DEF serverVars, ServerLeft
    <2> QED
      BY <1>1, <1>2, <2>1, SMT DEF ClientSpends, Work
  <1> QED
    BY <1>3, <1>4, <1>5, Zenon

(***************************************************************************)
(* No livelock.  Whatever the surroundings do, every step that no line of  *)
(* the user makes uses up work: the handlers of both interpreters, their   *)
(* failures and time limits included, never prompt each other for ever.    *)
(* With a fair schedule a session therefore comes to a state where it      *)
(* waits; CommandsComplete is about which.                                 *)
(***************************************************************************)
THEOREM SessionRunsDown == Spec => OnlyTheUserGoesOn
  <1> QED
    BY StepUsesWork, SessionTyped, PTL DEF Spec, OnlyTheUserGoesOn

-----------------------------------------------------------------------------
(***************************************************************************)
(* Login.  LoginAgrees is not inductive: it needs that the client is past  *)
(* its first login wherever it may send a command that needs one.          *)
(***************************************************************************)
BeyondLogin ==
  ClientPc \ ({"greet", "user", "userReply", "pass", "passReply"} \cup Over)

LoginInv == LoginAgrees /\ (cpc \in BeyondLogin => cLoggedIn)

\* A step of the server takes at most one command, writes at most one reply,
\* 230 only when the client is logged in, and never logs the client out.
ServerVouches ==
  /\ sLoggedIn => sLoggedIn'
  /\ toServer' = toServer \/ (toServer # <<>> /\ toServer' = Tail(toServer))
  /\ \/ toClient' = toClient
     \/ \E r \in Response : /\ toClient' = Append(toClient, r)
                            /\ r.code = 230 => sLoggedIn'

LEMMA SaysVouched ==
  ASSUME NEW r \in Response, NEW pc, Say(r, pc), r.code = 230 => sLoggedIn',
         sLoggedIn => sLoggedIn',
         toServer' = toServer \/ (toServer # <<>> /\ toServer' = Tail(toServer))
  PROVE  ServerVouches
  BY Zenon DEF Say, ServerVouches

LEMMA ReplyCode ==
  \A c \in Code : Reply(c) \in Response /\ Reply(c).code = c
  <1>1. \A c \in Code : Reply(c).code = c
    BY SMT DEF Reply
  <1> QED
    BY <1>1, ReplyType, Zenon

\* Codes other than 230 need no vouching for.
LEMMA PlainVouched ==
  ASSUME NEW c \in Code, c # 230, NEW pc, Say(Reply(c), pc), NEW v,
         Takes(v) \/ UNCHANGED toServer, sLoggedIn' = sLoggedIn
  PROVE  ServerVouches
  BY ReplyCode, SaysVouched, SMT DEF Takes

LEMMA RefuseVouched ==
  ASSUME NEW v, Refuse(v) PROVE ServerVouches
  <1>1. Complaint(request) \in Code /\ Complaint(request) # 230
    BY SMT DEF Refuse, Fit, Complaint, Code
  <1> QED
    BY <1>1, PlainVouched, SMT DEF Refuse

LEMMA HandlePassVouched ==
  ASSUME HandlePass PROVE ServerVouches
  <1>1. CASE Refuse("PASS")
    BY <1>1, RefuseVouched, Zenon
  <1>2. CASE ~Refuse("PASS")
    <2>1. /\ Takes("PASS")
          /\ \/ toClient' = toClient /\ sLoggedIn' = sLoggedIn
             \/ Say(Reply(530), "cmd") /\ sLoggedIn' = sLoggedIn
             \/ Say(Reply(230), "cmd") /\ sLoggedIn' = TRUE
      BY <1>2, Zenon DEF HandlePass
    <2>2. toServer # <<>> /\ toServer' = Tail(toServer)
      BY <2>1, Zenon DEF Takes
    <2>3. 530 \in Code /\ 230 \in Code /\ 530 # 230
      BY SMT DEF Code
    <2>4. Reply(530) \in Response /\ Reply(530).code # 230 /\ Reply(230) \in Response
      BY <2>3, ReplyCode, SMT
    <2> QED
      BY <2>1, <2>2, <2>4, SaysVouched, SMT DEF ServerVouches
  <1> QED
    BY <1>1, <1>2, Zenon

LEMMA HandlePasvVouched ==
  ASSUME TypeOK, HandlePasv PROVE ServerVouches
  <1>1. CASE Refuse("PASV")
    BY <1>1, RefuseVouched, Zenon
  <1>2. CASE ~Refuse("PASV")
    <2>1. /\ Takes("PASV") /\ sLoggedIn' = sLoggedIn
          /\ \/ listener["server"] # NoPort /\ Say(PasvReply(listener["server"]), "cmd")
             \/ \E p \in BindPort(0) : Say(PasvReply(p), "cmd")
             \/ toClient' = toClient
      BY <1>2, Zenon DEF HandlePasv
    <2>2. listener["server"] \in Port \cup {NoPort}
      BY ServerSide, SMT DEF TypeOK, NetTypeOK, DataTypeOK
    <2>3. BindPort(0) \subseteq Port
      BY BindPortType, SMT DEF NoPort
    <2>4. \A p \in Port : PasvReply(p) \in Response /\ PasvReply(p).code # 230
      <3>1. \A p \in Port : PasvReply(p).code # 230
        BY SMT DEF PasvReply
      <3> QED
        BY <3>1, PasvReplyType, SMT
    <2>5. \/ \E p \in Port : Say(PasvReply(p), "cmd")
          \/ toClient' = toClient
      BY <2>1, <2>2, <2>3, SMT
    <2>6. toServer # <<>> /\ toServer' = Tail(toServer)
      BY <2>1, Zenon DEF Takes
    <2> QED
      BY <2>1, <2>4, <2>5, <2>6, SaysVouched, SMT DEF ServerVouches
  <1> QED
    BY <1>1, <1>2, Zenon

\* The handlers that never write 230.
LEMMA HandleCommandVouched ==
  ASSUME TypeOK, HandleCommand PROVE ServerVouches
  <1>1. \A c \in {200, 221, 331, 502, 504, 530, 550, 150} : c \in Code /\ c # 230
    BY SMT DEF Code
  <1>2. \A v : Takes(v) => toServer # <<>> /\ toServer' = Tail(toServer)
    BY Zenon DEF Takes
  <1>3. ASSUME HandleType PROVE ServerVouches
    <2>1. \/ Refuse("TYPE")
          \/ Takes("TYPE") /\ sLoggedIn' = sLoggedIn
             /\ \E c \in {200, 504} : Say(Reply(c), "cmd")
      BY <1>3, SMT DEF HandleType
    <2> QED
      BY <1>1, <2>1, RefuseVouched, PlainVouched, SMT
  <1>4. ASSUME NEW v, HandleModeOrStru(v) PROVE ServerVouches
    <2>1. \/ Refuse(v)
          \/ Takes(v) /\ sLoggedIn' = sLoggedIn
             /\ \E c \in {200, 504} : Say(Reply(c), "cmd")
      BY <1>4, SMT DEF HandleModeOrStru
    <2> QED
      BY <1>1, <2>1, RefuseVouched, PlainVouched, SMT
  <1>5. ASSUME HandleUser PROVE ServerVouches
    <2>1. \/ Refuse("USER")
          \/ Takes("USER") /\ sLoggedIn' = sLoggedIn
             /\ \/ toClient' = toClient
                \/ \E c \in {331, 530} : Say(Reply(c), "cmd")
      BY <1>5, SMT DEF HandleUser
    <2> QED
      BY <1>1, <1>2, <2>1, RefuseVouched, PlainVouched, SMT DEF ServerVouches
  <1>6. ASSUME HandleQuit PROVE ServerVouches
    BY <1>1, <1>6, PlainVouched, SMT DEF HandleQuit
  <1>7. ASSUME HandlePort PROVE ServerVouches
    BY <1>1, <1>7, RefuseVouched, PlainVouched, SMT DEF HandlePort
  <1>8. ASSUME HandleRetr PROVE ServerVouches
    <2>1. \/ Refuse("RETR")
          \/ /\ Takes("RETR") /\ sLoggedIn' = sLoggedIn
             /\ Say(Reply(550), "cmd") \/ Say(Reply(150), "link")
      BY <1>8, SMT DEF HandleRetr, StartJob
    <2> QED
      BY <1>1, <2>1, RefuseVouched, PlainVouched, SMT
  <1>9. ASSUME HandleStor PROVE ServerVouches
    <2>1. \/ Refuse("STOR")
          \/ /\ Takes("STOR") /\ sLoggedIn' = sLoggedIn
             /\ Say(Reply(550), "cmd") \/ Say(Reply(150), "link")
      BY <1>9, SMT DEF HandleStor, StartJob
    <2> QED
      BY <1>1, <2>1, RefuseVouched, PlainVouched, SMT
  <1>10. ASSUME HandleNoop \/ HandleNotImplemented PROVE ServerVouches
    BY <1>1, <1>10, RefuseVouched, PlainVouched, SMT
    DEF HandleNoop, HandleNotImplemented
  <1> QED
    BY <1>3, <1>4, <1>5, <1>6, <1>7, <1>8, <1>9, <1>10, HandlePassVouched,
       HandlePasvVouched, Zenon
    DEF HandleCommand

LEMMA ServerStepVouched ==
  ASSUME TypeOK, ServerStep \/ ServerFailsData \/ ServerInterrupted
  PROVE  ServerVouches
  <1>1. \A c \in {220, 226, 425} : c \in Code /\ c # 230
    BY SMT DEF Code
  <1>2. CASE HandleCommand
    BY <1>2, HandleCommandVouched, Zenon
  <1>3. ASSUME Greet \/ ServerFailsData \/ ServerReceives \/ ServerSends
        PROVE  ServerVouches
    <2>1. /\ toServer' = toServer /\ sLoggedIn' = sLoggedIn
          /\ \/ toClient' = toClient
             \/ \E c \in {220, 226, 425} : Say(Reply(c), "cmd")
      BY <1>3, SMT DEF Greet, ServerFailsData, ServerReceives, ServerSends
    <2> QED
      BY <1>1, <2>1, PlainVouched, SMT DEF ServerVouches
  <1>4. ASSUME \/ ServerOpensData \/ ServerLosesClient \/ ServerExits
               \/ ServerInterrupted
        PROVE  ServerVouches
    BY <1>4, SMT
    DEF ServerOpensData, ServerLosesClient, ServerExits, ServerInterrupted,
        ctlVars, ServerVouches
  <1> QED
    BY <1>2, <1>3, <1>4, Zenon DEF ServerStep

-----------------------------------------------------------------------------
\* A step of the client reads at most one reply, sends at most one command,
\* one that needs a login only if it is logged in, and logs in by 230 alone.
ClientObeys ==
  /\ toClient' = toClient \/ (toClient # <<>> /\ toClient' = Tail(toClient))
  /\ \/ toServer' = toServer
     \/ \E c \in Command : /\ toServer' = Append(toServer, c)
                           /\ c.verb \notin LoginOnly => cLoggedIn'
  /\ cLoggedIn' => cLoggedIn \/ (toClient # <<>> /\ Head(toClient).code = 230)
  /\ cpc' \in BeyondLogin => cLoggedIn'

\* A step without a message, or one that only reads.
LEMMA QuietObeys ==
  ASSUME toClient' = toClient \/ (toClient # <<>> /\ toClient' = Tail(toClient)),
         toServer' = toServer, cLoggedIn' = cLoggedIn,
         cpc' \in BeyondLogin => cLoggedIn
  PROVE  ClientObeys
  BY Zenon DEF ClientObeys

\* A step that sends c.
LEMMA TellObeys ==
  ASSUME NEW c \in Command, NEW pc, Tell(c, pc), cLoggedIn' = cLoggedIn,
         c.verb \notin LoginOnly => cLoggedIn,
         pc \in BeyondLogin => cLoggedIn
  PROVE  ClientObeys
  <1>1. "dying" \notin BeyondLogin /\ "killed" \notin BeyondLogin
    BY SMT DEF BeyondLogin, Over
  <1>2. /\ toClient' = toClient
        /\ toServer' = toServer \/ toServer' = Append(toServer, c)
        /\ cpc' \in {pc, "dying", "killed"}
    BY SMT DEF Tell
  <1> QED
    BY <1>1, <1>2, Zenon DEF ClientObeys

LEMMA CmdVerb ==
  /\ \A v, a : Cmd(v, a).verb = v
  /\ \A p : PortCmd(p).verb = "PORT"
  BY SMT DEF Cmd, PortCmd

LEMMA TypeUserObeys ==
  ASSUME LoginInv, TypeUser PROVE ClientObeys
  <1>1. /\ cLoggedIn' = cLoggedIn
        /\ cpc \in {"user", "prompt"}
        /\ \/ cpc' = "dying" /\ UNCHANGED ctlVars
           \/ \E u \in TypedUser :
                Tell(Cmd("USER", u), IF cpc = "user" THEN "userReply" ELSE "prompt")
    BY SMT DEF TypeUser
  <1>2. \A u \in TypedUser : Cmd("USER", u) \in Command
    <2>1. \A u \in TypedUser : u \in ArgOf("USER") \cap Arg
      BY ClientAssumption, SMT DEF ArgOf, Arg
    <2> QED
      BY <2>1, CmdType, SMT DEF Verb
  <1>3. /\ cpc = "prompt" => cLoggedIn
        /\ "userReply" \notin BeyondLogin /\ "dying" \notin BeyondLogin
    BY SMT DEF LoginInv, BeyondLogin, ClientPc, AtUser, Over
  <1>4. CASE cpc' = "dying" /\ UNCHANGED ctlVars
    BY <1>1, <1>3, <1>4, QuietObeys, SMT DEF ctlVars
  <1>5. CASE \E u \in TypedUser :
               Tell(Cmd("USER", u), IF cpc = "user" THEN "userReply" ELSE "prompt")
    BY <1>1, <1>2, <1>3, <1>5, CmdVerb, TellObeys, SMT DEF LoginOnly
  <1> QED
    BY <1>1, <1>4, <1>5, Zenon

LEMMA TypePasswordObeys ==
  ASSUME LoginInv, TypePassword PROVE ClientObeys
  <1>1. /\ cLoggedIn' = cLoggedIn
        /\ \/ cpc' = "dying" /\ UNCHANGED ctlVars
           \/ \E w \in TypedSecret : Tell(Cmd("PASS", w), "passReply")
    BY SMT DEF TypePassword
  <1>2. \A w \in TypedSecret : Cmd("PASS", w) \in Command
    <2>1. \A w \in TypedSecret : w \in ArgOf("PASS") \cap Arg
      BY ClientAssumption, SMT DEF ArgOf, Arg
    <2> QED
      BY <2>1, CmdType, SMT DEF Verb
  <1>3. "passReply" \notin BeyondLogin /\ "dying" \notin BeyondLogin
    BY SMT DEF BeyondLogin, Over
  <1>4. CASE cpc' = "dying" /\ UNCHANGED ctlVars
    BY <1>1, <1>3, <1>4, QuietObeys, SMT DEF ctlVars
  <1>5. CASE \E w \in TypedSecret : Tell(Cmd("PASS", w), "passReply")
    BY <1>1, <1>2, <1>3, <1>5, CmdVerb, TellObeys, SMT DEF LoginOnly
  <1> QED
    BY <1>1, <1>4, <1>5, Zenon

\* Binding the listener again sends PORT, which a logged in client may do.
LEMMA RebindSends ==
  ASSUME NEW n, BindPort(n) \subseteq Port, Rebind(n)
  PROVE  \/ toServer' = toServer
         \/ \E c \in Command : /\ toServer' = Append(toServer, c)
                               /\ c.verb = "PORT"
  <1>1. CASE toServer' = toServer
    BY <1>1, Zenon
  <1>2. CASE toServer' # toServer
    <2>1. PICK p \in BindPort(n) : toServer' = Append(toServer, PortCmd(p))
      BY <1>2, Zenon DEF Rebind
    <2>2. PortCmd(p) \in Command /\ PortCmd(p).verb = "PORT"
      BY PortCmdType, CmdVerb, SMT
    <2> QED
      BY <2>1, <2>2, Zenon
  <1> QED
    BY <1>1, <1>2, Zenon

LEMMA ClientHearsPassReplyObeys ==
  ASSUME TypeOK, LoginInv, ClientHearsPassReply PROVE ClientObeys
  <1>1. /\ toClient # <<>> /\ toClient' = Tail(toClient)
        /\ IF loginOk /\ ~cLoggedIn
           THEN Rebind(listener["client"])
           ELSE /\ cpc' = IF loginOk THEN "prompt" ELSE "pass"
                /\ toServer' = toServer
        /\ cLoggedIn' <=> cLoggedIn \/ loginOk
    BY Zenon DEF ClientHearsPassReply
  <1>2. loginOk => Head(toClient).code = 230
    BY Zenon DEF loginOk, reply
  <1>3. "pass" \notin BeyondLogin
    BY SMT DEF BeyondLogin
  <1>4. CASE loginOk /\ ~cLoggedIn
    <2>1. listener["client"] \in Port \cup {NoPort}
      BY ClientSide, SMT DEF TypeOK, NetTypeOK, DataTypeOK
    <2>2. \/ toServer' = toServer
          \/ \E c \in Command : /\ toServer' = Append(toServer, c)
                                /\ c.verb = "PORT"
      BY <1>1, <1>4, <2>1, BindPortType, RebindSends, Zenon
    <2> QED
      BY <1>1, <1>2, <1>4, <2>2, Zenon DEF ClientObeys
  <1>5. CASE ~(loginOk /\ ~cLoggedIn)
    BY <1>1, <1>2, <1>3, <1>5, Zenon DEF ClientObeys
  <1> QED
    BY <1>4, <1>5, Zenon

LEMMA TypePortObeys ==
  ASSUME LoginInv, TypePort PROVE ClientObeys
  <1>1. cLoggedIn
    BY SMT DEF LoginInv, TypePort, Types, BeyondLogin, ClientPc, AtUser, Over
  <1>2. /\ UNCHANGED <<toClient, cLoggedIn>>
        /\ \E n \in TypedPort : Rebind(n)
    BY Zenon DEF TypePort
  <1>3. \A n \in TypedPort : BindPort(n) \subseteq Port
    BY ClientAssumption, SMT
  <1>4. \/ toServer' = toServer
        \/ \E c \in Command : toServer' = Append(toServer, c)
    BY <1>2, <1>3, RebindSends, Zenon
  <1> QED
    BY <1>1, <1>2, <1>4, Zenon DEF ClientObeys

\* What a logged in client sends at the prompt, and with what it goes on.
LEMMA PromptObeys ==
  ASSUME TypeOK, LoginInv, SendPlain \/ TypeTransfer \/ TypeQuit
  PROVE  ClientObeys
  <1>1. cLoggedIn /\ cLoggedIn' = cLoggedIn
    BY SMT
    DEF LoginInv, SendPlain, TypeTransfer, TypeQuit, Types, BeyondLogin,
        ClientPc, AtUser, Over
  <1>2. CASE SendPlain \/ TypeTransfer
    <2>1. cjob' \in Command
      <3>1. ClientTyped'
        BY <1>2, ClientKeepsTypes, SMT DEF TypeOK, ClientTyped, UserStep
      <3> QED
        BY <3>1, SMT DEF ClientTyped, ClientTypeOK
    <2>2. \E pc \in ClientPc : Tell(cjob', pc)
      BY <1>2, SMT DEF SendPlain, TypeTransfer, ClientPc, Listening, Transferring
    <2> QED
      BY <1>1, <2>1, <2>2, TellObeys, Zenon
  <1>3. CASE TypeQuit
    <2>1. Cmd("QUIT", Plain) \in Command
      <3>1. Plain \in ArgOf("QUIT") \cap Arg /\ "QUIT" \in Verb
        BY SMT DEF ArgOf, Arg, Verb
      <3> QED
        BY <3>1, CmdType, SMT
    <2> QED
      BY <1>1, <1>3, <2>1, TellObeys, Zenon DEF TypeQuit
  <1> QED
    BY <1>2, <1>3, Zenon

LEMMA ClientOpensLocalObeys ==
  ASSUME LoginInv, ClientOpensLocal PROVE ClientObeys
  <1>1. cLoggedIn /\ cLoggedIn' = cLoggedIn
    BY SMT DEF LoginInv, ClientOpensLocal, BeyondLogin, ClientPc, Transferring, Over
  <1>2. Cmd("OTHER", Plain) \in Command
    <2>1. Plain \in ArgOf("OTHER") \cap Arg /\ "OTHER" \in Verb
      BY SMT DEF ArgOf, Arg, Verb
    <2> QED
      BY <2>1, CmdType, SMT
  <1>3. Tell(Cmd("OTHER", Plain), "prompt") \/ UNCHANGED ctlVars
    BY SMT DEF ClientOpensLocal
  <1> QED
    BY <1>1, <1>2, <1>3, TellObeys, QuietObeys, SMT DEF ctlVars

LEMMA ClientStepObeys ==
  ASSUME TypeOK, LoginInv,
         ClientStep \/ ClientFailsAccept \/ UserStep \/ ClientInterrupted
  PROVE  ClientObeys
  <1>1. ASSUME \/ ClientHearsGreeting \/ ClientHearsUserReply
               \/ ClientHearsReply \/ ClientHearsOpening \/ ClientHearsDone
               \/ ClientHearsBye
        PROVE  ClientObeys
    <2>1. /\ toClient # <<>> /\ toClient' = Tail(toClient)
          /\ toServer' = toServer /\ cLoggedIn' = cLoggedIn
          /\ cpc' \in BeyondLogin => cpc \in BeyondLogin
      BY <1>1, SMT
      DEF ClientHearsGreeting, ClientHearsUserReply, ClientHearsReply,
          ClientHearsOpening, ClientHearsDone, ClientHearsBye, Hears,
          BeyondLogin, ClientPc, Listening, AtUser, Over
    <2> QED
      BY <2>1, QuietObeys, SMT DEF LoginInv
  <1>2. ASSUME \/ ClientDials \/ ClientAccepts \/ ClientFailsAccept
               \/ ClientSends \/ ClientReceives \/ TypePass
               \/ ClientLosesServer \/ ClientInterrupted \/ ClientExits
        PROVE  ClientObeys
    <2>1. /\ toClient' = toClient /\ toServer' = toServer
          /\ cLoggedIn' = cLoggedIn
          /\ cpc' \in BeyondLogin => cpc \in BeyondLogin
      BY <1>2, SMT
      DEF ClientDials, ClientAccepts, ClientFailsAccept, ClientSends,
          ClientReceives, TypePass, ClientLosesServer, ClientInterrupted,
          ClientExits, Types, ctlVars, BeyondLogin, ClientPc, Transferring,
          AtUser, Over
    <2> QED
      BY <2>1, QuietObeys, SMT DEF LoginInv
  <1> QED
    BY <1>1, <1>2, TypeUserObeys, TypePasswordObeys, ClientHearsPassReplyObeys,
       TypePortObeys, PromptObeys, ClientOpensLocalObeys, Zenon
    DEF ClientStep, UserStep

-----------------------------------------------------------------------------
LEMMA InitLogin == Init => LoginInv
  BY SMT DEF Init, ServerInit, ClientInit, LoginInv, LoginAgrees, BeyondLogin

\* What is left of a queue of messages, and one with another message.
LEMMA TailMoves ==
  ASSUME NEW S, NEW q \in Seq(S), q # <<>>, NEW t, t = Tail(q)
  PROVE  \A i \in DOMAIN t : \E j \in DOMAIN q : t[i] = q[j]
  <1> SUFFICES ASSUME NEW i \in DOMAIN t
               PROVE  \E j \in DOMAIN q : t[i] = q[j]
    OBVIOUS
  <1>1. i + 1 \in DOMAIN q /\ t[i] = q[i + 1]
    BY SMT
  <1> QED
    BY <1>1, Zenon

LEMMA AppendMoves ==
  ASSUME NEW S, NEW q \in Seq(S), NEW m \in S, NEW t, t = Append(q, m)
  PROVE  \A i \in DOMAIN t : t[i] = m \/ \E j \in DOMAIN q : t[i] = q[j]
  <1> SUFFICES ASSUME NEW i \in DOMAIN t
               PROVE  t[i] = m \/ \E j \in DOMAIN q : t[i] = q[j]
    OBVIOUS
  <1>1. t[i] = m \/ (i \in DOMAIN q /\ t[i] = q[i])
    BY SMT
  <1> QED
    BY <1>1, Zenon

LEMMA ServerKeepsLogin ==
  ASSUME TypeOK, LoginInv, ServerVouches, UNCHANGED clientVars PROVE LoginInv'
  <1>1. /\ sLoggedIn => sLoggedIn'
        /\ cLoggedIn' = cLoggedIn /\ cpc' = cpc
    BY SMT DEF ServerVouches, clientVars
  <1>2. /\ cLoggedIn => sLoggedIn
        /\ \A i \in DOMAIN toClient : toClient[i].code = 230 => sLoggedIn
        /\ \A i \in DOMAIN toServer : toServer[i].verb \notin LoginOnly => sLoggedIn
        /\ cpc \in BeyondLogin => cLoggedIn
    BY Zenon DEF LoginInv, LoginAgrees
  <1>3. toServer \in Seq(Command) /\ toClient \in Seq(Response)
    BY SMT DEF TypeOK, NetTypeOK, ControlTypeOK
  <1>4. \A i \in DOMAIN toServer' : toServer'[i].verb \notin LoginOnly => sLoggedIn'
    <2>1. CASE toServer' = toServer
      BY <1>1, <1>2, <2>1, SMT
    <2>2. CASE toServer # <<>> /\ toServer' = Tail(toServer)
      <3>1. \A i \in DOMAIN toServer' : \E j \in DOMAIN toServer : toServer'[i] = toServer[j]
        BY <1>3, <2>2, TailMoves, SMT
      <3> QED
        BY <1>1, <1>2, <3>1, SMT
    <2> QED
      BY <2>1, <2>2, Zenon DEF ServerVouches
  <1>5. \A i \in DOMAIN toClient' : toClient'[i].code = 230 => sLoggedIn'
    <2>1. CASE toClient' = toClient
      BY <1>1, <1>2, <2>1, SMT
    <2>2. ASSUME NEW r \in Response, toClient' = Append(toClient, r),
                 r.code = 230 => sLoggedIn'
          PROVE  \A i \in DOMAIN toClient' : toClient'[i].code = 230 => sLoggedIn'
      <3>1. \A i \in DOMAIN toClient' :
              toClient'[i] = r \/ \E j \in DOMAIN toClient : toClient'[i] = toClient[j]
        BY <1>3, <2>2, AppendMoves, SMT
      <3> QED
        BY <1>1, <1>2, <2>2, <3>1, SMT
    <2> QED
      BY <2>1, <2>2, SMT DEF ServerVouches
  <1> QED
    BY <1>1, <1>2, <1>4, <1>5, Zenon DEF LoginInv, LoginAgrees

LEMMA ClientKeepsLogin ==
  ASSUME TypeOK, LoginInv, ClientObeys, UNCHANGED serverVars PROVE LoginInv'
  <1>1. sLoggedIn' = sLoggedIn
    BY SMT DEF serverVars
  <1>2. /\ cLoggedIn => sLoggedIn
        /\ \A i \in DOMAIN toClient : toClient[i].code = 230 => sLoggedIn
        /\ \A i \in DOMAIN toServer : toServer[i].verb \notin LoginOnly => sLoggedIn
    BY Zenon DEF LoginInv, LoginAgrees
  <1>3. toServer \in Seq(Command) /\ toClient \in Seq(Response)
    BY SMT DEF TypeOK, NetTypeOK, ControlTypeOK
  <1>4. cLoggedIn' => sLoggedIn
    <2>1. toClient # <<>> => 1 \in DOMAIN toClient /\ Head(toClient) = toClient[1]
      BY <1>3, SMT
    <2> QED
      BY <1>2, <2>1, SMT DEF ClientObeys
  <1>5. \A i \in DOMAIN toServer' : toServer'[i].verb \notin LoginOnly => sLoggedIn
    <2>1. CASE toServer' = toServer
      BY <1>2, <2>1, SMT
    <2>2. ASSUME NEW c \in Command, toServer' = Append(toServer, c),
                 c.verb \notin LoginOnly => cLoggedIn'
          PROVE  \A i \in DOMAIN toServer' : toServer'[i].verb \notin LoginOnly => sLoggedIn
      <3>1. \A i \in DOMAIN toServer' :
              toServer'[i] = c \/ \E j \in DOMAIN toServer : toServer'[i] = toServer[j]
        BY <1>3, <2>2, AppendMoves, SMT
      <3> QED
        BY <1>2, <1>4, <2>2, <3>1, SMT
    <2> QED
      BY <2>1, <2>2, Zenon DEF ClientObeys
  <1>6. \A i \in DOMAIN toClient' : toClient'[i].code = 230 => sLoggedIn
    <2>1. CASE toClient' = toClient
      BY <1>2, <2>1, SMT
    <2>2. CASE toClient # <<>> /\ toClient' = Tail(toClient)
      <3>1. \A i \in DOMAIN toClient' : \E j \in DOMAIN toClient : toClient'[i] = toClient[j]
        BY <1>3, <2>2, TailMoves, SMT
      <3> QED
        BY <1>2, <3>1, SMT
    <2> QED
      BY <2>1, <2>2, Zenon DEF ClientObeys
  <1> QED
    BY <1>1, <1>4, <1>5, <1>6, Zenon DEF LoginInv, LoginAgrees, ClientObeys

LEMMA StepKeepsLogin == TypeOK /\ LoginInv /\ [Next]_vars => LoginInv'
  <1> SUFFICES ASSUME TypeOK, LoginInv, [Next]_vars PROVE LoginInv'
    OBVIOUS
  <1>1. CASE UNCHANGED vars
    BY <1>1, SMT
    DEF vars, netVars, serverVars, clientVars, LoginInv, LoginAgrees
  <1> QED
    BY <1>1, NextSplits, ServerStepVouched, ClientStepObeys, ServerKeepsLogin,
       ClientKeepsLogin, Zenon

(***************************************************************************)
(* Login.  The loggedIn of the client's interpreter never gets ahead of    *)
(* the server's, and no command that needs a login is on its way before    *)
(* the server has granted one, whatever the user types, in whatever state  *)
(* replies and commands are in flight, and whatever fails.                 *)
(***************************************************************************)
THEOREM SessionLoginAgrees == Spec => []LoginAgrees
  <1>1. LoginInv => LoginAgrees
    BY Zenon DEF LoginInv
  <1> QED
    BY <1>1, InitLogin, StepKeepsLogin, SessionTyped, PTL DEF Spec

-----------------------------------------------------------------------------
(***************************************************************************)
(* No data connection leaks, for any number of connections, any backlog    *)
(* and every fault.  EndsAreHeld is not inductive: it needs that the ends  *)
(* of a side are exactly those its queue and its handler hold, and where   *)
(* an interpreter holds none although EndsAreHeld does not ask for it.     *)
(***************************************************************************)
\* What a queue holds.
Elements(q) == {q[i] : i \in DOMAIN q}
NoDuplicates(q) == \A i, j \in DOMAIN q : i # j => q[i] # q[j]

HeldAt(s) ==
  /\ Held(s) = Queued(s) \cup ({data[s]} \ {NoConn})
  /\ data[s] \notin Queued(s)
  /\ NoDuplicates(backlog[s])

ServerIdle == {"greet", "cmd", "link", "gone"}
ClientIdle == (Listening \ {"reply"}) \cup AtUser \cup {"dial", "link", "gone"}

\* Before its reply has come, only a passive RETR or STOR has a connection.
ClientUnlinked ==
  \/ cpc \in ClientIdle
  \/ cpc = "reply" /\ (~Fetching(cjob) \/ listener["client"] # NoPort)

ServerEmpty == spc \in ServerIdle => data["server"] = NoConn
ClientEmpty == ClientUnlinked => data["client"] = NoConn

DialsPassive == cpc = "dial" => listener["client"] = NoPort

AllHeld == \A s \in Side : HeldAt(s)
HeldInv == AllHeld /\ ServerEmpty /\ ClientEmpty /\ DialsPassive

-----------------------------------------------------------------------------
(***************************************************************************)
(* What a step may do to the connections on behalf of side s.              *)
(***************************************************************************)
\* s closes its ends of the connections in cs, and nobody else's.
Closes(s, cs) ==
  /\ Held(s)' = Held(s) \ cs
  /\ Held(Peer(s))' = Held(Peer(s))

\* The handler lets go of its connection.
LetsGo(s) ==
  /\ Closes(s, {data[s]})
  /\ backlog' = backlog
  /\ data' = [data EXCEPT ![s] = NoConn]

\* The listener is closed.
Unlistens(s) ==
  /\ Closes(s, Queued(s))
  /\ backlog' = [backlog EXCEPT ![s] = <<>>]
  /\ data' = data

LEMMA Peers ==
  \A s \in Side : /\ Peer(s) \in Side /\ Peer(s) # s
                  /\ \A t \in Side : t = s \/ t = Peer(s)
  BY SMT DEF Side, Peer

LEMMA HangUpCloses ==
  ASSUME DataTypeOK, NEW s \in Side, NEW cs, conn' = HangUp(cs, s)
  PROVE  Closes(s, cs)
  <1>1. \A c \in ConnId : conn[c].ends \subseteq Side
    BY SMT DEF DataTypeOK, Connection
  <1>2. \A c \in ConnId : HungUp(conn[c], s).ends = conn[c].ends \ {s}
    <2> TAKE c \in ConnId
    <2>1. conn[c] \in Connection
      BY SMT DEF DataTypeOK
    <2>2. CASE conn[c].ends \subseteq {s}
      BY <2>2, SMT DEF HungUp, Fresh
    <2>3. CASE ~(conn[c].ends \subseteq {s})
      BY <2>1, <2>3, SMT DEF HungUp, Connection
    <2> QED
      BY <2>2, <2>3
  <1>3. \A c \in ConnId :
          conn'[c].ends = IF c \in cs THEN conn[c].ends \ {s} ELSE conn[c].ends
    BY <1>2, SMT DEF HangUp
  <1>4. Peer(s) # s
    BY Peers
  <1>5. ASSUME NEW c \in ConnId
        PROVE  /\ s \in conn'[c].ends <=> s \in conn[c].ends /\ c \notin cs
               /\ Peer(s) \in conn'[c].ends <=> Peer(s) \in conn[c].ends
    <2>1. CASE c \in cs
      <3>1. conn'[c].ends = conn[c].ends \ {s}
        BY <1>3, <2>1, Zenon
      <3> QED
        BY <1>4, <2>1, <3>1, Zenon
    <2>2. CASE c \notin cs
      BY <1>3, <2>2, Zenon
    <2> QED
      BY <2>1, <2>2
  <1> QED
    BY <1>5, SMT DEF Closes, Held

LEMMA ShippedCloses ==
  ASSUME DataTypeOK, NEW s \in Side, NEW c \in ConnId, NEW p,
         conn' = [conn EXCEPT ![c] = Shipped(@, Peer(s), p)]
  PROVE  Closes(s, {c})
  <1>1. \A x \in ConnId : conn[x].ends \subseteq Side
    BY SMT DEF DataTypeOK, Connection
  <1>2. Shipped(conn[c], Peer(s), p).ends = conn[c].ends \ {s}
    <2>1. CASE Peer(s) \in conn[c].ends
      BY <1>1, <2>1, Peers, SMT DEF Shipped
    <2>2. CASE Peer(s) \notin conn[c].ends
      BY <1>1, <2>2, Peers, SMT DEF Shipped, Fresh
    <2> QED
      BY <2>1, <2>2
  <1>3. /\ \A x \in ConnId : x # c => conn'[x] = conn[x]
        /\ conn'[c] = Shipped(conn[c], Peer(s), p)
    BY Zenon DEF DataTypeOK
  <1> QED
    BY <1>2, <1>3, Peers, SMT DEF Closes, Held

-----------------------------------------------------------------------------
LEMMA StillHeld ==
  ASSUME NEW s \in Side, HeldAt(s), Held(s)' = Held(s),
         backlog'[s] = backlog[s], data'[s] = data[s]
  PROVE  HeldAt(s)'
  <1>1. Queued(s)' = Queued(s)
    BY SMT DEF Queued
  <1>2. NoDuplicates(backlog'[s])
    BY Zenon DEF HeldAt
  <1> QED
    BY <1>1, <1>2, SMT DEF HeldAt

LEMMA UntouchedHeld ==
  ASSUME AllHeld, UNCHANGED <<backlog, conn, data>>
  PROVE  AllHeld'
  <1> SUFFICES ASSUME NEW s \in Side PROVE HeldAt(s)'
    BY DEF AllHeld
  <1>1. Held(s)' = Held(s)
    BY SMT DEF Held
  <1> QED
    BY <1>1, StillHeld, SMT DEF AllHeld

LEMMA LetsGoHeld ==
  ASSUME DataTypeOK, AllHeld, NEW s \in Side, LetsGo(s)
  PROVE  AllHeld'
  <1>1. HeldAt(Peer(s))'
    BY Peers, StillHeld, SMT DEF AllHeld, LetsGo, Closes, DataTypeOK
  <1>2. HeldAt(s)'
    <2>1. data'[s] = NoConn /\ backlog'[s] = backlog[s]
      BY SMT DEF LetsGo, DataTypeOK
    <2>2. Queued(s)' = Queued(s)
      BY <2>1, SMT DEF Queued
    <2>3. NoConn \notin Queued(s)
      BY NetAssumption, SMT DEF Queued, DataTypeOK
    <2>4. Held(s)' = Held(s) \ {data[s]}
      BY Zenon DEF LetsGo, Closes
    <2> QED
      BY <2>1, <2>2, <2>3, <2>4, SMT DEF AllHeld, HeldAt
  <1> QED
    BY <1>1, <1>2, Peers, SMT DEF AllHeld

LEMMA UnlistensHeld ==
  ASSUME DataTypeOK, AllHeld, NEW s \in Side, Unlistens(s)
  PROVE  AllHeld'
  <1>1. HeldAt(Peer(s))'
    BY Peers, StillHeld, SMT DEF AllHeld, Unlistens, Closes, DataTypeOK
  <1>2. HeldAt(s)'
    <2>1. data'[s] = data[s] /\ backlog'[s] = <<>>
      BY SMT DEF Unlistens, DataTypeOK
    <2>2. Queued(s)' = {} /\ NoDuplicates(backlog'[s])
      BY <2>1, SMT DEF Queued, NoDuplicates
    <2>3. Held(s)' = Held(s) \ Queued(s)
      BY Zenon DEF Unlistens, Closes
    <2> QED
      BY <2>1, <2>2, <2>3, SMT DEF AllHeld, HeldAt
  <1> QED
    BY <1>1, <1>2, Peers, SMT DEF AllHeld

LEMMA VanishHeld ==
  ASSUME DataTypeOK, AllHeld, NEW s \in Side, Vanish(s)
  PROVE  AllHeld' /\ data'[s] = NoConn
  <1>1. Closes(s, ConnId)
    BY HangUpCloses, Zenon DEF Vanish
  <1>2. HeldAt(Peer(s))'
    BY <1>1, Peers, StillHeld, SMT DEF AllHeld, Vanish, Closes, DataTypeOK
  <1>3. data'[s] = NoConn /\ backlog'[s] = <<>>
    BY SMT DEF Vanish, DataTypeOK
  <1>4. HeldAt(s)'
    <2>1. Queued(s)' = {} /\ NoDuplicates(backlog'[s])
      BY <1>3, SMT DEF Queued, NoDuplicates
    <2>2. Held(s)' = {}
      BY <1>1, SMT DEF Closes, Held
    <2> QED
      BY <1>3, <2>1, <2>2, SMT DEF AllHeld, HeldAt
  <1> QED
    BY <1>2, <1>3, <1>4, Peers, SMT DEF AllHeld

-----------------------------------------------------------------------------
\* The queue after one more connection, and after its oldest is taken off.
LEMMA OneMore ==
  ASSUME NEW S, NEW q \in Seq(S), NEW c \in S, NEW r, r = Append(q, c),
         \A i \in DOMAIN q : q[i] # c, NoDuplicates(q)
  PROVE  /\ Elements(r) = Elements(q) \cup {c}
         /\ NoDuplicates(r)
  <1>1. /\ DOMAIN r = 1 .. Len(q) + 1 /\ DOMAIN q = 1 .. Len(q)
        /\ r[Len(q) + 1] = c /\ Len(q) \in Nat
        /\ \A i \in DOMAIN q : r[i] = q[i]
    BY SMT
  <1>2. \A i \in DOMAIN r : i \in DOMAIN q \/ i = Len(q) + 1
    BY <1>1, SMT
  <1>3. Len(q) + 1 \in DOMAIN r /\ \A i \in DOMAIN q : i \in DOMAIN r
    BY <1>1, SMT
  <1>4. Elements(r) = Elements(q) \cup {c}
    BY <1>1, <1>2, <1>3, SMT DEF Elements
  <1>5. NoDuplicates(r)
    BY <1>1, <1>2, SMT DEF NoDuplicates
  <1> QED
    BY <1>4, <1>5

LEMMA OneLess ==
  ASSUME NEW S, NEW q \in Seq(S), q # <<>>, NEW r, r = Tail(q), NoDuplicates(q)
  PROVE  /\ Elements(q) = Elements(r) \cup {Head(q)}
         /\ Head(q) \notin Elements(r)
         /\ NoDuplicates(r)
  <1>1. /\ DOMAIN q = 1 .. Len(q) /\ DOMAIN r = 1 .. Len(q) - 1
        /\ Len(q) \in Nat /\ Len(q) >= 1
        /\ Head(q) = q[1]
        /\ \A i \in DOMAIN r : r[i] = q[i + 1]
    BY SMT
  <1>2. \A i \in DOMAIN q : i = 1 \/ (i - 1 \in DOMAIN r /\ q[i] = r[i - 1])
    BY <1>1, SMT
  <1>3. \A i \in DOMAIN r : i + 1 \in DOMAIN q /\ i + 1 # 1
    BY <1>1, SMT
  <1>4. \A i, j \in DOMAIN r : i # j => i + 1 # j + 1
    BY <1>1, SMT
  <1>5. 1 \in DOMAIN q
    BY <1>1, SMT
  <1>6. NoDuplicates(r)
    BY <1>1, <1>3, <1>4, SMT DEF NoDuplicates
  <1>7. \A i \in DOMAIN r : r[i] # Head(q)
    BY <1>1, <1>3, <1>5, SMT DEF NoDuplicates
  <1>8. Elements(q) = Elements(r) \cup {Head(q)}
    BY <1>1, <1>2, <1>3, <1>5, SMT DEF Elements
  <1> QED
    BY <1>6, <1>7, <1>8, Zenon DEF Elements

LEMMA ConnectHeld ==
  ASSUME DataTypeOK, AllHeld, NEW s \in Side, Connect(s),
         data[s] = NoConn
  PROVE  AllHeld'
  <1> DEFINE c == CHOOSE c \in FreeConn : TRUE
  <1>1. c \in ConnId /\ conn[c].ends = {}
    BY SMT DEF Connect, CanConnect, FreeConn
  <1>2. /\ conn' = [conn EXCEPT ![c] = Opened]
        /\ backlog' = [backlog EXCEPT ![Peer(s)] = Append(@, c)]
        /\ data' = [data EXCEPT ![s] = c]
    BY Zenon DEF Connect
  <1> HIDE DEF c
  <1>3. \A t \in Side : Held(t)' = Held(t) \cup {c}
    <2>1. /\ \A x \in ConnId : x # c => conn'[x] = conn[x]
          /\ conn'[c] = Opened
      BY <1>1, <1>2, Zenon DEF DataTypeOK
    <2>2. Opened.ends = Side
      BY SMT DEF Opened, Fresh
    <2> QED
      BY <1>1, <2>1, <2>2, SMT DEF Held
  <1>4. \A t \in Side : c \notin Held(t)
    BY <1>1, SMT DEF Held
  <1>5. \A t \in Side : c \notin Queued(t) /\ c # data[t] /\ c # NoConn
    BY <1>1, <1>4, NetAssumption, SMT DEF AllHeld, HeldAt
  <1>6. HeldAt(s)'
    <2>1. data'[s] = c /\ backlog'[s] = backlog[s]
      BY <1>2, Peers, SMT DEF DataTypeOK
    <2>2. Queued(s)' = Queued(s)
      BY <2>1, SMT DEF Queued
    <2> QED
      BY <1>3, <1>5, <2>1, <2>2, SMT DEF AllHeld, HeldAt
  <1>7. HeldAt(Peer(s))'
    <2> DEFINE t == Peer(s)
    <2>1. t \in Side /\ t # s
      BY Peers
    <2>2. data'[t] = data[t] /\ backlog'[t] = Append(backlog[t], c)
          /\ backlog[t] \in Seq(ConnId)
      BY <1>2, <2>1, SMT DEF DataTypeOK
    <2>3. NoDuplicates(backlog[t]) /\ \A i \in DOMAIN backlog[t] : backlog[t][i] # c
      BY <1>5, <2>1, Zenon DEF AllHeld, HeldAt, Queued
    <2> HIDE DEF t
    <2>4. Queued(t)' = Queued(t) \cup {c} /\ NoDuplicates(backlog'[t])
      BY <1>1, <2>2, <2>3, OneMore, Zenon DEF Queued, Elements
    <2>5. HeldAt(t)'
      BY <1>3, <1>5, <2>1, <2>2, <2>4, SMT DEF AllHeld, HeldAt
    <2> QED
      BY <2>5 DEF t
  <1> QED
    BY <1>6, <1>7, Peers, SMT DEF AllHeld

LEMMA AcceptHeld ==
  ASSUME DataTypeOK, AllHeld, NEW s \in Side, Accept(s),
         data[s] = NoConn
  PROVE  AllHeld'
  <1>1. \A t \in Side : Held(t)' = Held(t)
    BY SMT DEF Accept, Held
  <1>2. HeldAt(Peer(s))'
    BY <1>1, Peers, StillHeld, SMT DEF AllHeld, Accept, DataTypeOK
  <1>3. /\ backlog[s] \in Seq(ConnId) /\ backlog[s] # <<>>
        /\ data'[s] = Head(backlog[s]) /\ backlog'[s] = Tail(backlog[s])
    BY SMT DEF Accept, DataTypeOK
  <1>4. NoDuplicates(backlog[s])
    BY Zenon DEF AllHeld, HeldAt
  <1>5. /\ Queued(s) = Queued(s)' \cup {data'[s]}
        /\ data'[s] \notin Queued(s)'
        /\ NoDuplicates(backlog'[s])
    <2>1. Queued(s) = Elements(backlog[s]) /\ Queued(s)' = Elements(backlog'[s])
      BY Zenon DEF Queued, Elements
    <2>2. /\ Elements(backlog[s]) = Elements(backlog'[s]) \cup {Head(backlog[s])}
          /\ Head(backlog[s]) \notin Elements(backlog'[s])
          /\ NoDuplicates(backlog'[s])
      BY <1>3, <1>4, OneLess, Zenon
    <2> QED
      BY <1>3, <2>1, <2>2, Zenon
  <1>6. data'[s] # NoConn
    BY <1>3, HeadTailProperties, NetAssumption, SMT
  <1>7. HeldAt(s)'
    BY <1>1, <1>5, <1>6, SMT DEF AllHeld, HeldAt
  <1> QED
    BY <1>2, <1>7, Peers, SMT DEF AllHeld

-----------------------------------------------------------------------------
LEMMA DropDataLetsGo ==
  ASSUME DataTypeOK, NEW s \in Side, DropData(s) PROVE LetsGo(s)
  BY HangUpCloses, Zenon DEF DropData, LetsGo

LEMMA StopListeningUnlistens ==
  ASSUME DataTypeOK, NEW s \in Side, StopListening(s), data' = data
  PROVE  Unlistens(s)
  BY HangUpCloses, Zenon DEF StopListening, Unlistens

\* A command is taken when the server holds no data connection, and at most
\* its listener changes before the next wait.
LEMMA HandleCommandHeld ==
  ASSUME DataTypeOK, HeldInv, HandleCommand
  PROVE  AllHeld' /\ ServerEmpty'
  <1>1. spc = "cmd" /\ data' = data
    BY Zenon
    DEF HandleCommand, HandleType, HandleModeOrStru, HandleUser, HandlePass,
        HandleQuit, HandlePort, HandlePasv, HandleRetr, HandleStor, HandleNoop,
        HandleNotImplemented, Refuse, Takes, dataVars
  <1>2. UNCHANGED <<backlog, conn>> \/ StopListening("server")
    BY Zenon
    DEF HandleCommand, HandleType, HandleModeOrStru, HandleUser, HandlePass,
        HandleQuit, HandlePort, HandlePasv, HandleRetr, HandleStor, HandleNoop,
        HandleNotImplemented, Refuse, dataVars
  <1>3. AllHeld'
    BY <1>1, <1>2, ServerSide, UntouchedHeld, StopListeningUnlistens,
       UnlistensHeld, Zenon DEF HeldInv
  <1>4. data["server"] = NoConn
    BY <1>1, SMT DEF HeldInv, ServerEmpty, ServerIdle
  <1> QED
    BY <1>1, <1>3, <1>4, SMT DEF ServerEmpty

LEMMA ServerSendsHeld ==
  ASSUME TypeOK, HeldInv, ServerSends
  PROVE  AllHeld' /\ ServerEmpty'
  <1>1. DataTypeOK /\ data["server"] \in ConnId
    BY SMT DEF TypeOK, NetTypeOK, ServerTypeOK, ServerSends
  <1>2. /\ \/ \E p : conn' = [conn EXCEPT ![data["server"]] = Shipped(@, "client", p)]
           \/ conn' = HangUp({data["server"]}, "server")
        /\ data' = [data EXCEPT !["server"] = NoConn]
        /\ backlog' = backlog
    BY Zenon DEF ServerSends
  <1>3. Closes("server", {data["server"]})
    BY <1>1, <1>2, ServerSide, ShippedCloses, HangUpCloses, Zenon
  <1>4. LetsGo("server")
    BY <1>2, <1>3, Zenon DEF LetsGo
  <1>5. data'["server"] = NoConn
    BY <1>1, <1>2, SMT DEF DataTypeOK, Side
  <1> QED
    BY <1>1, <1>4, <1>5, ServerSide, LetsGoHeld, Zenon DEF HeldInv, ServerEmpty

LEMMA ServerStepHeld ==
  ASSUME TypeOK, HeldInv, ServerStep \/ ServerFailsData \/ ServerInterrupted
  PROVE  AllHeld' /\ ServerEmpty'
  <1>1. DataTypeOK
    BY DEF TypeOK, NetTypeOK
  <1>2. CASE Greet \/ ServerLosesClient \/ ServerFailsData \/ ServerInterrupted
    <2>1. UNCHANGED <<backlog, conn, data>>
      BY <1>2, SMT
      DEF Greet, ServerLosesClient, ServerFailsData, ServerInterrupted,
          ConnectFails, AcceptTimesOut, dataVars
    <2>2. spc \in {"greet", "link"} \/ spc' = "dying"
      BY <1>2, SMT
      DEF Greet, ServerLosesClient, ServerFailsData, ServerInterrupted
    <2>3. ServerEmpty'
      BY <2>1, <2>2, SMT DEF HeldInv, ServerEmpty, ServerIdle
    <2> QED
      BY <2>1, <2>3, UntouchedHeld, SMT DEF HeldInv
  <1>3. CASE ServerOpensData
    <2>1. /\ Connect("server") \/ Accept("server")
          /\ spc = "link" /\ spc' = "move"
      BY <1>3, SMT DEF ServerOpensData
    <2>2. data["server"] = NoConn
      BY <2>1, SMT DEF HeldInv, ServerEmpty, ServerIdle
    <2>3. AllHeld'
      BY <1>1, <2>1, <2>2, ServerSide, ConnectHeld, AcceptHeld, Zenon DEF HeldInv
    <2> QED
      BY <2>1, <2>3, SMT DEF ServerEmpty, ServerIdle
  <1>4. CASE ServerReceives
    <2>1. DropData("server")
      BY <1>4, Zenon DEF ServerReceives
    <2>2. data'["server"] = NoConn
      BY <1>1, <2>1, SMT DEF DropData, DataTypeOK, Side
    <2> QED
      BY <1>1, <2>1, <2>2, ServerSide, DropDataLetsGo, LetsGoHeld, Zenon
      DEF HeldInv, ServerEmpty
  <1>5. CASE ServerExits
    BY <1>1, <1>5, ServerSide, VanishHeld, Zenon DEF ServerExits, HeldInv, ServerEmpty
  <1> QED
    BY <1>1, <1>2, <1>3, <1>4, <1>5, ServerSendsHeld, HandleCommandHeld, Zenon
    DEF ServerStep

-----------------------------------------------------------------------------
\* The client's part of the invariant.
ClientKept == AllHeld' /\ ClientEmpty' /\ DialsPassive'

\* Steps of the client that leave all data connections as they are.
LEMMA StillClientHeld ==
  ASSUME HeldInv, UNCHANGED <<backlog, conn, data>>,
         ClientUnlinked' => ClientUnlinked, DialsPassive'
  PROVE  ClientKept
  <1>1. AllHeld'
    BY UntouchedHeld, SMT DEF HeldInv
  <1>2. ClientEmpty'
    BY Zenon DEF HeldInv, ClientEmpty
  <1> QED
    BY <1>1, <1>2 DEF ClientKept

LEMMA UnlistensClientHeld ==
  ASSUME DataTypeOK, HeldInv, Unlistens("client"), ClientUnlinked,
         cpc' # "dial"
  PROVE  ClientKept
  <1>1. AllHeld'
    BY ClientSide, UnlistensHeld, Zenon DEF HeldInv
  <1>2. ClientEmpty'
    BY Zenon DEF HeldInv, ClientEmpty, Unlistens
  <1> QED
    BY <1>1, <1>2 DEF ClientKept, DialsPassive

LEMMA LetsGoClientHeld ==
  ASSUME DataTypeOK, HeldInv, LetsGo("client"), cpc' # "dial"
  PROVE  ClientKept
  <1>1. AllHeld'
    BY ClientSide, LetsGoHeld, Zenon DEF HeldInv
  <1>2. data'["client"] = NoConn
    BY SMT DEF LetsGo, DataTypeOK, Side
  <1> QED
    BY <1>1, <1>2 DEF ClientKept, ClientEmpty, DialsPassive

\* What the user makes the client do, apart from binding a new listener.
LEMMA TypedHeld ==
  ASSUME HeldInv,
         \/ TypeUser \/ TypePassword \/ SendPlain \/ TypePass \/ TypeQuit
         \/ TypeTransfer
  PROVE  ClientKept
  <1>1. UNCHANGED <<backlog, conn, data>> /\ listener' = listener
    BY SMT
    DEF TypeUser, TypePassword, SendPlain, TypePass, TypeQuit, TypeTransfer,
        dataVars
  <1>2. ClientUnlinked
    <2>1. cpc \in AtUser
      BY SMT
      DEF TypeUser, TypePassword, SendPlain, TypePass, TypeQuit, TypeTransfer,
          Types, AtUser
    <2> QED
      BY <2>1, SMT DEF ClientUnlinked, ClientIdle
  <1>3. DialsPassive'
    <2>1. cpc' # "dial" \/ listener["client"] = NoPort
      BY SMT
      DEF TypeUser, TypePassword, SendPlain, TypePass, TypeQuit, TypeTransfer,
          Tell
    <2> QED
      BY <1>1, <2>1, SMT DEF DialsPassive
  <1> QED
    BY <1>1, <1>2, <1>3, StillClientHeld, Zenon

LEMMA RebindHeld ==
  ASSUME DataTypeOK, HeldInv, NEW n, Rebind(n), data' = data, ClientUnlinked
  PROVE  ClientKept
  <1>1. /\ conn' = HangUp(Queued("client"), "client")
        /\ backlog' = [backlog EXCEPT !["client"] = <<>>]
    BY Zenon DEF Rebind, StopListening
  <1>2. Unlistens("client")
    BY <1>1, ClientSide, HangUpCloses, Zenon DEF Unlistens
  <1>3. cpc' # "dial"
    BY SMT DEF Rebind
  <1> QED
    BY <1>2, <1>3, UnlistensClientHeld, Zenon

LEMMA ClientHearsPassReplyHeld ==
  ASSUME DataTypeOK, HeldInv, ClientHearsPassReply
  PROVE  ClientKept
  <1>1. data' = data /\ cpc = "passReply"
    BY Zenon DEF ClientHearsPassReply
  <1>2. ClientUnlinked
    BY <1>1, SMT DEF ClientUnlinked, ClientIdle, Listening
  <1>3. CASE loginOk /\ ~cLoggedIn
    BY <1>1, <1>2, <1>3, RebindHeld, Zenon DEF ClientHearsPassReply
  <1>4. CASE ~(loginOk /\ ~cLoggedIn)
    <2>1. UNCHANGED <<backlog, conn>> /\ cpc' \in {"prompt", "pass"}
      BY <1>4, SMT DEF ClientHearsPassReply
    <2>2. DialsPassive'
      BY <2>1, SMT DEF DialsPassive
    <2> QED
      BY <1>1, <1>2, <2>1, <2>2, StillClientHeld, Zenon
  <1> QED
    BY <1>3, <1>4

LEMMA ClientHearsReplyHeld ==
  ASSUME DataTypeOK, HeldInv, ClientHearsReply
  PROVE  ClientKept
  <1>1. data' = data /\ cpc' = "prompt"
    BY Zenon DEF ClientHearsReply
  <1>2. ClientUnlinked
    BY SMT DEF ClientUnlinked, ClientHearsReply
  <1>3. StopListening("client") \/ UNCHANGED <<backlog, conn>>
    BY Zenon DEF ClientHearsReply
  <1>4. cpc' # "dial" /\ DialsPassive'
    BY <1>1, SMT DEF DialsPassive
  <1> QED
    BY <1>1, <1>2, <1>3, <1>4, ClientSide, StopListeningUnlistens,
       UnlistensClientHeld, StillClientHeld, Zenon

\* The steps that open the client's data connection.
LEMMA ClientDialsHeld ==
  ASSUME TypeOK, HeldInv, ClientDials
  PROVE  ClientKept
  <1>1. /\ DataTypeOK /\ Fetching(cjob)
        /\ cpc = "dial" /\ listener["client"] = NoPort
        /\ data["client"] = NoConn
    BY SMT
    DEF TypeOK, NetTypeOK, ClientTypeOK, Transferring, HeldInv, ClientDials,
        DialsPassive, ClientEmpty, ClientUnlinked, ClientIdle
  <1>2. CASE Connect("client") /\ cpc' = "reply" /\ UNCHANGED cjob
    <2>1. AllHeld'
      BY <1>1, <1>2, ClientSide, ConnectHeld, Zenon DEF HeldInv
    <2>2. listener' = listener
      BY <1>2, SMT DEF Connect
    <2>3. ~ClientUnlinked'
      BY <1>1, <1>2, <2>2, SMT
      DEF ClientUnlinked, ClientIdle, Listening, AtUser, Fetching
    <2> QED
      BY <1>2, <2>1, <2>3, SMT DEF ClientKept, ClientEmpty, DialsPassive
  <1>3. CASE ConnectFails("client") /\ cpc' = "prompt"
    <2>1. UNCHANGED <<backlog, conn, data>>
      BY <1>3, SMT DEF ConnectFails, dataVars
    <2>2. ClientUnlinked /\ DialsPassive'
      BY <1>1, <1>3, SMT DEF ClientUnlinked, ClientIdle, DialsPassive
    <2> QED
      BY <2>1, <2>2, StillClientHeld, Zenon
  <1> QED
    BY <1>2, <1>3, Zenon DEF ClientDials

LEMMA ClientAcceptsHeld ==
  ASSUME DataTypeOK, HeldInv, ClientAccepts
  PROVE  ClientKept
  <1>1. Accept("client") /\ cpc = "link" /\ cpc' = "open"
    BY Zenon DEF ClientAccepts
  <1>2. data["client"] = NoConn
    BY <1>1, SMT DEF HeldInv, ClientEmpty, ClientUnlinked, ClientIdle
  <1>3. AllHeld'
    BY <1>1, <1>2, ClientSide, AcceptHeld, Zenon DEF HeldInv
  <1>4. ~ClientUnlinked'
    BY <1>1, SMT DEF ClientUnlinked, ClientIdle, Listening, AtUser
  <1> QED
    BY <1>1, <1>3, <1>4, SMT DEF ClientKept, ClientEmpty, DialsPassive

LEMMA ClientHearsOpeningHeld ==
  ASSUME DataTypeOK, HeldInv, ClientHearsOpening
  PROVE  ClientKept
  <1>1. cpc = "reply" /\ Fetching(cjob)
    BY Zenon DEF ClientHearsOpening
  <1>2. CASE reply.code = 150
    <2>1. /\ UNCHANGED <<cjob, dataVars>>
          /\ cpc' = IF listener["client"] = NoPort THEN "open" ELSE "link"
      BY <1>2, Zenon DEF ClientHearsOpening
    <2>2. ClientUnlinked' => ClientUnlinked
      BY <1>1, <2>1, SMT DEF ClientUnlinked, ClientIdle, Listening, AtUser
    <2>3. DialsPassive'
      BY <2>1, SMT DEF DialsPassive
    <2>4. UNCHANGED <<backlog, conn, data>>
      BY <2>1, Zenon DEF dataVars
    <2> QED
      BY <2>2, <2>3, <2>4, StillClientHeld, Zenon
  <1>3. CASE reply.code # 150
    <2>1. cpc' = "prompt" /\ DropData("client")
      BY <1>3, Zenon DEF ClientHearsOpening
    <2> QED
      BY <2>1, ClientSide, DropDataLetsGo, LetsGoClientHeld, SMT
  <1> QED
    BY <1>2, <1>3

\* The steps of a transfer that is open.
LEMMA ClientOpensLocalHeld ==
  ASSUME DataTypeOK, HeldInv, ClientOpensLocal
  PROVE  ClientKept
  <1>1. CASE Tell(Cmd("OTHER", Plain), "prompt") /\ DropData("client")
    <2>1. cpc' # "dial"
      BY <1>1, SMT DEF Tell
    <2> QED
      BY <1>1, <2>1, ClientSide, DropDataLetsGo, LetsGoClientHeld, Zenon
  <1>2. CASE cpc' = "recv" /\ UNCHANGED <<ctlVars, cjob, dataVars>>
    <2>1. ~ClientUnlinked' /\ DialsPassive'
      BY <1>2, SMT DEF ClientUnlinked, ClientIdle, Listening, AtUser, DialsPassive
    <2>2. UNCHANGED <<backlog, conn, data>>
      BY <1>2, Zenon DEF dataVars
    <2> QED
      BY <2>1, <2>2, StillClientHeld, Zenon
  <1> QED
    BY <1>1, <1>2, Zenon DEF ClientOpensLocal

LEMMA ClientSendsHeld ==
  ASSUME TypeOK, HeldInv, ClientSends
  PROVE  ClientKept
  <1>1. DataTypeOK /\ data["client"] \in ConnId
    BY SMT DEF TypeOK, NetTypeOK, ClientTypeOK, ClientSends
  <1>2. /\ \/ \E p : conn' = [conn EXCEPT ![data["client"]] = Shipped(@, "server", p)]
           \/ conn' = HangUp({data["client"]}, "client")
        /\ data' = [data EXCEPT !["client"] = NoConn]
        /\ backlog' = backlog
    BY Zenon DEF ClientSends
  <1>3. Closes("client", {data["client"]})
    BY <1>1, <1>2, ClientSide, ShippedCloses, HangUpCloses, Zenon
  <1>4. LetsGo("client")
    BY <1>2, <1>3, Zenon DEF LetsGo
  <1>5. cpc' # "dial"
    BY SMT DEF ClientSends
  <1> QED
    BY <1>1, <1>4, <1>5, LetsGoClientHeld, Zenon

LEMMA ClientReceivesHeld ==
  ASSUME DataTypeOK, HeldInv, ClientReceives
  PROVE  ClientKept
  <1>1. DropData("client")
    BY Zenon DEF ClientReceives
  <1>2. cpc' # "dial"
    BY SMT DEF ClientReceives
  <1> QED
    BY <1>1, <1>2, ClientSide, DropDataLetsGo, LetsGoClientHeld, Zenon

LEMMA ClientExitsHeld ==
  ASSUME DataTypeOK, HeldInv, ClientExits
  PROVE  ClientKept
  <1>1. AllHeld' /\ data'["client"] = NoConn
    BY ClientSide, VanishHeld, Zenon DEF ClientExits, HeldInv
  <1>2. cpc' # "dial"
    BY SMT DEF ClientExits
  <1> QED
    BY <1>1, <1>2 DEF ClientKept, ClientEmpty, DialsPassive

\* The steps that only move the client on.
LEMMA ClientMovesOnHeld ==
  ASSUME HeldInv,
         \/ ClientHearsGreeting \/ ClientHearsUserReply \/ ClientHearsDone
         \/ ClientHearsBye \/ ClientLosesServer \/ ClientFailsAccept
         \/ ClientInterrupted
  PROVE  ClientKept
  <1>1. UNCHANGED <<backlog, conn, data>>
    BY Zenon
    DEF ClientHearsGreeting, ClientHearsUserReply, ClientHearsDone,
        ClientHearsBye, ClientLosesServer, ClientFailsAccept,
        ClientInterrupted, AcceptTimesOut, dataVars
  <1>2. /\ cpc' # "dial"
        /\ \/ cpc \in {"greet", "userReply", "done", "bye", "link"}
           \/ cpc' = "dying"
    BY SMT
    DEF ClientHearsGreeting, ClientHearsUserReply, ClientHearsDone,
        ClientHearsBye, ClientLosesServer, ClientFailsAccept, ClientInterrupted
  <1>3. ClientUnlinked' => ClientUnlinked
    BY <1>2, SMT DEF ClientUnlinked, ClientIdle, Listening, AtUser
  <1> QED
    BY <1>1, <1>2, <1>3, StillClientHeld, SMT DEF DialsPassive

LEMMA ClientStepHeld ==
  ASSUME TypeOK, HeldInv,
         ClientStep \/ ClientFailsAccept \/ UserStep \/ ClientInterrupted
  PROVE  ClientKept
  <1>1. DataTypeOK
    BY DEF TypeOK, NetTypeOK
  <1>2. CASE TypePort
    <2>1. (\E n \in TypedPort : Rebind(n)) /\ data' = data /\ cpc = "prompt"
      BY <1>2, Zenon DEF TypePort, Types
    <2>2. ClientUnlinked
      BY <2>1, SMT DEF ClientUnlinked, ClientIdle, AtUser
    <2> QED
      BY <1>1, <2>1, <2>2, RebindHeld, Zenon
  <1> QED
    BY <1>1, <1>2, TypedHeld, ClientHearsPassReplyHeld, ClientHearsReplyHeld,
       ClientDialsHeld, ClientAcceptsHeld, ClientHearsOpeningHeld,
       ClientOpensLocalHeld, ClientSendsHeld, ClientReceivesHeld,
       ClientExitsHeld, ClientMovesOnHeld, Zenon
    DEF ClientStep, UserStep

-----------------------------------------------------------------------------
LEMMA InitHeld == Init => HeldInv
  <1> SUFFICES ASSUME Init PROVE HeldInv
    OBVIOUS
  <1>1. \A s \in Side : Held(s) = {} /\ data[s] = NoConn /\ backlog[s] = <<>>
    BY SMT DEF Init, Held, Fresh
  <1>2. \A s \in Side : Queued(s) = {} /\ NoDuplicates(backlog[s])
    BY <1>1, SMT DEF Queued, NoDuplicates
  <1>3. AllHeld
    BY <1>1, <1>2, SMT DEF AllHeld, HeldAt
  <1>4. ServerEmpty /\ ClientEmpty
    BY <1>1, ServerSide, ClientSide, SMT DEF ServerEmpty, ClientEmpty
  <1>5. DialsPassive
    BY SMT DEF Init, ClientInit, DialsPassive
  <1> QED
    BY <1>3, <1>4, <1>5 DEF HeldInv

\* A step of one interpreter leaves what the other one's handler holds alone.
LEMMA ServerKeepsHeld ==
  ASSUME TypeOK, HeldInv, ServerStep \/ ServerFailsData \/ ServerInterrupted,
         UNCHANGED clientVars
  PROVE  HeldInv'
  <1>1. AllHeld' /\ ServerEmpty'
    BY ServerStepHeld, Zenon
  <1>2. data'["client"] = data["client"] /\ listener'["client"] = listener["client"]
    BY ServerKeepsTypes, SMT DEF TypeOK, ServerTyped, ClientHolds
  <1>3. ClientEmpty' /\ DialsPassive'
    BY <1>2, SMT
    DEF HeldInv, ClientEmpty, ClientUnlinked, DialsPassive, clientVars, Fetching
  <1> QED
    BY <1>1, <1>3 DEF HeldInv

LEMMA ClientKeepsHeld ==
  ASSUME TypeOK, HeldInv,
         ClientStep \/ ClientFailsAccept \/ UserStep \/ ClientInterrupted,
         UNCHANGED serverVars
  PROVE  HeldInv'
  <1>1. ClientKept
    BY ClientStepHeld, Zenon
  <1>2. data'["server"] = data["server"]
    BY ClientKeepsTypes, SMT DEF TypeOK, ClientTyped, ServerHolds
  <1>3. ServerEmpty'
    BY <1>2, SMT DEF HeldInv, ServerEmpty, serverVars
  <1> QED
    BY <1>1, <1>3 DEF ClientKept, HeldInv

LEMMA StepKeepsHeld == TypeOK /\ HeldInv /\ [Next]_vars => HeldInv'
  <1> SUFFICES ASSUME TypeOK, HeldInv, [Next]_vars PROVE HeldInv'
    OBVIOUS
  <1>1. CASE UNCHANGED vars
    <2>1. AllHeld'
      BY <1>1, UntouchedHeld, Zenon DEF vars, netVars, HeldInv
    <2>2. (ServerEmpty /\ ClientEmpty /\ DialsPassive)'
      BY <1>1, SMT
      DEF vars, netVars, serverVars, clientVars, HeldInv, ServerEmpty,
          ClientEmpty, ClientUnlinked, DialsPassive
    <2> QED
      BY <2>1, <2>2 DEF HeldInv
  <1> QED
    BY <1>1, NextSplits, ServerKeepsHeld, ClientKeepsHeld, Zenon

LEMMA HeldMeansEndsAreHeld == HeldInv => EndsAreHeld
  <1> SUFFICES ASSUME HeldInv PROVE EndsAreHeld
    OBVIOUS
  <1>1. \A s \in Side :
          /\ Held(s) \subseteq Queued(s) \cup {data[s]}
          /\ data[s] \notin Queued(s)
    BY SMT DEF HeldInv, AllHeld, HeldAt
  <1>2. \A s \in Side : \A i, j \in DOMAIN backlog[s] :
          i # j => backlog[s][i] # backlog[s][j]
    BY Zenon DEF HeldInv, AllHeld, HeldAt, NoDuplicates
  <1>3. spc \in {"cmd", "link"} => data["server"] = NoConn
    BY SMT DEF HeldInv, ServerEmpty, ServerIdle
  <1>4. cpc \in AtUser \cup {"dial", "link", "done"} => data["client"] = NoConn
    BY SMT DEF HeldInv, ClientEmpty, ClientUnlinked, ClientIdle, Listening
  <1> QED
    BY <1>1, <1>2, <1>3, <1>4, Zenon DEF EndsAreHeld

(***************************************************************************)
(* No data connection leaks.  On every path through the handlers of both   *)
(* interpreters, refusals, time limits, failing files, broken connections  *)
(* and SIGINT included, an open end of a data connection is held by the    *)
(* handler of its side or queued on its listener, by exactly one of them   *)
(* and once, and an interpreter that waits for a command or for the user   *)
(* holds none.                                                             *)
(***************************************************************************)
THEOREM SessionEndsAreHeld == Spec => []EndsAreHeld
  <1> QED
    BY InitHeld, StepKeepsHeld, HeldMeansEndsAreHeld, SessionTyped, PTL DEF Spec
=============================================================================
