--------------------------- MODULE ServerPIProofs ---------------------------
(***************************************************************************)
(* Every step of the server's interpreter keeps the types of the variables *)
(* and leaves the client's data connection and listener alone, whatever    *)
(* the client sent and whatever fails.                                     *)
(***************************************************************************)
EXTENDS ServerPI, FtpNetProofs

ServerTyped == NetTypeOK /\ ServerTypeOK

\* What the client's interpreter relies on.
ClientHolds ==
  /\ data'["client"] = data["client"]
  /\ listener'["client"] = listener["client"]
  /\ file'["client"] = file["client"]

-----------------------------------------------------------------------------
LEMMA TakesType ==
  ASSUME ControlTypeOK, NEW v, Takes(v)
  PROVE  /\ toServer' \in Seq(Command)
         /\ open' \subseteq Side
         /\ request \in Command /\ request.verb = v
  <1>1. toServer \in Seq(Command) /\ toServer # <<>>
    BY SMT DEF Takes, ControlTypeOK
  <1>2. Head(toServer) \in Command /\ Tail(toServer) \in Seq(Command)
    BY <1>1, HeadTailProperties, SMT
  <1> QED
    BY <1>2, SMT DEF Takes, request, ControlTypeOK

LEMMA SayType ==
  ASSUME ControlTypeOK, NEW r \in Response, NEW pc, Say(r, pc)
  PROVE  /\ toClient' \in Seq(Response) /\ spc' \in {pc, "dying", "killed"}
         /\ late' \subseteq Side
  <1>1. toClient' = toClient \/ toClient' = Append(toClient, r)
    BY Zenon DEF Say
  <1>2. toClient' \in Seq(Response)
    BY <1>1, AppendProperties, SMT DEF ControlTypeOK
  <1>3. spc' \in {pc, "dying", "killed"}
    BY SMT DEF Say
  <1>4. late' \subseteq Side
    <2>1. late' = late \/ late' = late \cup {"server"}
      BY Zenon DEF Say
    <2>2. late \subseteq Side /\ "server" \in Side
      BY Zenon DEF ControlTypeOK, Side
    <2> QED
      BY <2>1, <2>2, Zenon
  <1> QED
    BY <1>2, <1>3, <1>4

\* A handler that gets past its complaints has an argument of the right form.
LEMMA FitArgument ==
  ASSUME request \in Command, Fit
  PROVE  /\ request.verb \in {"RETR", "STOR"} => request.arg \in Name
         /\ request.verb = "TYPE" => request.arg \in Type \cup {Unsupported}
  <1>1. request.arg \in ArgOf(request.verb)
    BY SMT DEF Command
  <1>2. request.arg # Malformed
    BY SMT DEF Fit, Complaint
  <1> QED
    BY <1>1, <1>2, SMT DEF ArgOf

LEMMA ComplaintReplies ==
  ASSUME ~Fit PROVE Reply(Complaint(request)) \in Response
  <1>1. Complaint(request) \in {530, 503, 500}
    BY SMT DEF Fit, Complaint
  <1> QED
    BY <1>1, ReplyType, SMT DEF Code

\* A step that writes control messages and ends outside of a transfer.
LEMMA QuietStep ==
  ASSUME ServerTyped,
         toServer' \in Seq(Command), toClient' \in Seq(Response),
         open' \subseteq Side, late' \subseteq Side,
         UNCHANGED <<dataVars, file>>,
         sType' \in Type, sUser' \in Account \cup {NoUser},
         sLoggedIn' \in BOOLEAN, sjob' \in Command,
         spc' \in ServerPc \ {"link", "move"}
  PROVE  ServerTyped' /\ ClientHolds
  BY SMT DEF ServerTyped, ServerTypeOK, NetTypeOK, ControlTypeOK, DataTypeOK,
             FileTypeOK, dataVars, ClientHolds

\* The same for a handler that says r and changes no variable of its own.
LEMMA PlainAnswer ==
  ASSUME ServerTyped, NEW v, Takes(v), NEW r \in Response,
         NEW pc \in {"cmd", "dying"}, Say(r, pc),
         UNCHANGED <<sType, sUser, sLoggedIn, sjob, dataVars, file>>
  PROVE  ServerTyped' /\ ClientHolds
  <1>1. toServer' \in Seq(Command) /\ open' \subseteq Side
    BY TakesType, SMT DEF ServerTyped, NetTypeOK
  <1>2. /\ toClient' \in Seq(Response) /\ spc' \in {pc, "dying", "killed"}
        /\ late' \subseteq Side
    BY SayType, SMT DEF ServerTyped, NetTypeOK
  <1> QED
    BY <1>1, <1>2, QuietStep, SMT DEF ServerTyped, ServerTypeOK, ServerPc

LEMMA RefuseTyped ==
  ASSUME ServerTyped, NEW v, Refuse(v)
  PROVE  ServerTyped' /\ ClientHolds
  BY ComplaintReplies, PlainAnswer, SMT DEF Refuse

LEMMA NoJobType == NoJob \in Command
  <1>1. Plain \in ArgOf("NOOP") \cap Arg /\ "NOOP" \in Verb
    BY SMT DEF ArgOf, Arg, Verb
  <1> QED
    BY <1>1, CmdType, SMT DEF NoJob

-----------------------------------------------------------------------------
LEMMA GreetTyped ==
  ASSUME ServerTyped, Greet PROVE ServerTyped' /\ ClientHolds
  <1>1. Reply(220) \in Response
    BY ReplyType, SMT DEF Code
  <1>2. /\ toClient' \in Seq(Response) /\ spc' \in {"cmd", "dying", "killed"}
        /\ late' \subseteq Side
    BY <1>1, SayType, SMT DEF Greet, ServerTyped, NetTypeOK
  <1> QED
    BY <1>2, QuietStep, SMT
    DEF Greet, ServerTyped, NetTypeOK, ControlTypeOK, ServerTypeOK, ServerPc

LEMMA HandleTypeTyped ==
  ASSUME ServerTyped, HandleType PROVE ServerTyped' /\ ClientHolds
  <1>1. CASE Refuse("TYPE")
    BY <1>1, RefuseTyped, SMT
  <1>2. CASE ~Refuse("TYPE")
    <2>1. /\ Takes("TYPE")
          /\ UNCHANGED <<sUser, sLoggedIn, sjob, dataVars, file>>
          /\ sType' \in Type
          /\ Say(Reply(200), "cmd") \/ Say(Reply(504), "cmd")
      BY <1>2, SMT DEF HandleType, ServerTyped, ServerTypeOK
    <2>2. toServer' \in Seq(Command) /\ open' \subseteq Side
      BY <2>1, TakesType, SMT DEF ServerTyped, NetTypeOK
    <2>3. Reply(200) \in Response /\ Reply(504) \in Response
      BY ReplyType, SMT DEF Code
    <2>4. /\ toClient' \in Seq(Response) /\ spc' \in {"cmd", "dying", "killed"}
          /\ late' \subseteq Side
      BY <2>1, <2>3, SayType, SMT DEF ServerTyped, NetTypeOK
    <2> QED
      BY <2>1, <2>2, <2>4, QuietStep, SMT
      DEF ServerTyped, ServerTypeOK, ServerPc
  <1> QED
    BY <1>1, <1>2

LEMMA HandleModeOrStruTyped ==
  ASSUME ServerTyped, NEW v, HandleModeOrStru(v)
  PROVE  ServerTyped' /\ ClientHolds
  <1>1. CASE Refuse(v)
    BY <1>1, RefuseTyped, SMT
  <1>2. CASE ~Refuse(v)
    <2> DEFINE r == Reply(IF request.arg = Unsupported THEN 504 ELSE 200)
    <2>1. /\ Takes(v) /\ Say(r, "cmd")
          /\ UNCHANGED <<sType, sUser, sLoggedIn, sjob, dataVars, file>>
      BY <1>2, SMT DEF HandleModeOrStru
    <2>2. r \in Response
      BY ReplyType, SMT DEF Code
    <2> QED
      BY <2>1, <2>2, PlainAnswer, SMT
  <1> QED
    BY <1>1, <1>2

LEMMA HandleUserTyped ==
  ASSUME ServerTyped, HandleUser PROVE ServerTyped' /\ ClientHolds
  <1>1. CASE Refuse("USER")
    BY <1>1, RefuseTyped, SMT
  <1>2. CASE ~Refuse("USER")
    <2>1. /\ Takes("USER")
          /\ UNCHANGED <<sType, sLoggedIn, sjob, dataVars, file>>
          /\ sUser' \in Account \cup {NoUser}
          /\ \/ spc' = "dying" /\ UNCHANGED <<toClient, late>>
             \/ Say(Reply(530), "cmd")
             \/ Say(Reply(331), "cmd")
      BY <1>2, SMT DEF HandleUser, known, ServerTyped, ServerTypeOK
    <2>2. toServer' \in Seq(Command) /\ open' \subseteq Side
      BY <2>1, TakesType, SMT DEF ServerTyped, NetTypeOK
    <2>3. Reply(530) \in Response /\ Reply(331) \in Response
      BY ReplyType, SMT DEF Code
    <2>4. /\ toClient' \in Seq(Response) /\ spc' \in {"cmd", "dying", "killed"}
          /\ late' \subseteq Side
      BY <2>1, <2>3, SayType, SMT DEF ServerTyped, NetTypeOK, ControlTypeOK
    <2> QED
      BY <2>1, <2>2, <2>4, QuietStep, SMT
      DEF ServerTyped, ServerTypeOK, ServerPc
  <1> QED
    BY <1>1, <1>2

LEMMA HandlePassTyped ==
  ASSUME ServerTyped, HandlePass PROVE ServerTyped' /\ ClientHolds
  <1>1. CASE Refuse("PASS")
    BY <1>1, RefuseTyped, SMT
  <1>2. CASE ~Refuse("PASS")
    <2>1. /\ Takes("PASS")
          /\ UNCHANGED <<sType, sUser, sjob, dataVars, file>>
          /\ \/ spc' = "dying" /\ UNCHANGED <<toClient, late>>
             \/ Say(Reply(530), "cmd")
             \/ Say(Reply(230), "cmd")
          /\ sLoggedIn' = sLoggedIn \/ sLoggedIn' = TRUE
      BY <1>2, Zenon DEF HandlePass
    <2>2. toServer' \in Seq(Command) /\ open' \subseteq Side
      BY <2>1, TakesType, SMT DEF ServerTyped, NetTypeOK
    <2>3. Reply(530) \in Response /\ Reply(230) \in Response
      BY ReplyType, SMT DEF Code
    <2>4. /\ toClient' \in Seq(Response) /\ spc' \in {"cmd", "dying", "killed"}
          /\ late' \subseteq Side
      BY <2>1, <2>3, SayType, SMT DEF ServerTyped, NetTypeOK, ControlTypeOK
    <2>5. sLoggedIn' \in BOOLEAN
      BY <2>1, Zenon DEF ServerTyped, ServerTypeOK
    <2> QED
      BY <2>1, <2>2, <2>4, <2>5, QuietStep, SMT
      DEF ServerTyped, ServerTypeOK, ServerPc
  <1> QED
    BY <1>1, <1>2

LEMMA HandleQuitTyped ==
  ASSUME ServerTyped, HandleQuit PROVE ServerTyped' /\ ClientHolds
  <1>1. Reply(221) \in Response
    BY ReplyType, SMT DEF Code
  <1> QED
    BY <1>1, PlainAnswer, SMT DEF HandleQuit

LEMMA HandlePortTyped ==
  ASSUME ServerTyped, HandlePort PROVE ServerTyped' /\ ClientHolds
  <1>1. CASE Refuse("PORT")
    BY <1>1, RefuseTyped, SMT
  <1>2. CASE ~Refuse("PORT")
    <2>1. /\ Takes("PORT")
          /\ addr' = [addr EXCEPT !["server"] = JoinPort(request.port)]
          /\ StopListening("server")
          /\ Say(Reply(200), "cmd")
          /\ UNCHANGED <<sType, sUser, sLoggedIn, sjob, data, file>>
      BY <1>2, SMT DEF HandlePort
    <2>2. toServer' \in Seq(Command) /\ open' \subseteq Side /\ request \in Command
      BY <2>1, TakesType, SMT DEF ServerTyped, NetTypeOK
    <2>3. /\ toClient' \in Seq(Response) /\ spc' \in {"cmd", "dying", "killed"}
          /\ late' \subseteq Side
      <3>1. Reply(200) \in Response
        BY ReplyType, SMT DEF Code
      <3> QED
        BY <2>1, <3>1, SayType, SMT DEF ServerTyped, NetTypeOK
    <2>4. JoinPort(request.port) \in PortNumber
      BY <2>2, JoinPortType, SMT DEF Command
    <2>5. "server" \in Side /\ Peer("server") = "client"
      BY SMT DEF Side, Peer
    <2>6. /\ DataTypeOK'
          /\ listener'["client"] = listener["client"]
      BY <2>1, <2>4, <2>5, StopListeningType, SMT
      DEF ServerTyped, NetTypeOK, DataTypeOK
    <2> QED
      BY <2>1, <2>2, <2>3, <2>6, SMT
      DEF ServerTyped, NetTypeOK, ControlTypeOK, FileTypeOK, ServerTypeOK,
          ServerPc, ClientHolds
  <1> QED
    BY <1>1, <1>2

LEMMA HandlePasvTyped ==
  ASSUME ServerTyped, HandlePasv PROVE ServerTyped' /\ ClientHolds
  <1>1. CASE Refuse("PASV")
    BY <1>1, RefuseTyped, SMT
  <1>2. CASE ~Refuse("PASV")
    <2>1. /\ Takes("PASV")
          /\ UNCHANGED <<sType, sUser, sLoggedIn, sjob, addr, backlog, conn, data, file>>
          /\ \/ /\ listener["server"] # NoPort /\ listener' = listener
                /\ Say(PasvReply(listener["server"]), "cmd")
             \/ \E p \in BindPort(0) :
                  /\ listener' = [listener EXCEPT !["server"] = p]
                  /\ Say(PasvReply(p), "cmd")
             \/ spc' = "dying" /\ UNCHANGED <<listener, toClient, late>>
      BY <1>2, SMT DEF HandlePasv
    <2>2. toServer' \in Seq(Command) /\ open' \subseteq Side
      BY <2>1, TakesType, SMT DEF ServerTyped, NetTypeOK
    <2>3. listener \in [Side -> Port \cup {NoPort}] /\ {"client", "server"} = Side
      BY SMT DEF ServerTyped, NetTypeOK, DataTypeOK, Side
    <2>4. BindPort(0) \subseteq Port
      BY BindPortType, SMT DEF NoPort
    <2>5. \/ \E p \in Port : Say(PasvReply(p), "cmd")
          \/ spc' = "dying" /\ UNCHANGED <<toClient, late>>
      BY <2>1, <2>3, <2>4, SMT
    <2>6. /\ toClient' \in Seq(Response) /\ spc' \in {"cmd", "dying", "killed"}
          /\ late' \subseteq Side
      BY <2>5, PasvReplyType, SayType, SMT DEF ServerTyped, NetTypeOK, ControlTypeOK
    <2>7. /\ listener' \in [Side -> Port \cup {NoPort}]
          /\ listener'["client"] = listener["client"]
      BY <2>1, <2>3, <2>4, SMT
    <2> QED
      BY <2>1, <2>2, <2>6, <2>7, SMT
      DEF ServerTyped, NetTypeOK, ControlTypeOK, DataTypeOK, FileTypeOK,
          ServerTypeOK, ServerPc, ClientHolds
  <1> QED
    BY <1>1, <1>2

-----------------------------------------------------------------------------
LEMMA HandleRetrTyped ==
  ASSUME ServerTyped, HandleRetr PROVE ServerTyped' /\ ClientHolds
  <1>1. CASE Refuse("RETR")
    BY <1>1, RefuseTyped, SMT
  <1>2. CASE ~Refuse("RETR")
    <2>1. /\ Takes("RETR") /\ Fit
          /\ UNCHANGED <<sType, sUser, sLoggedIn, dataVars, file>>
      BY <1>2, SMT DEF HandleRetr
    <2>2. /\ toServer' \in Seq(Command) /\ open' \subseteq Side
          /\ request \in Command /\ request.verb = "RETR"
      BY <2>1, TakesType, SMT DEF ServerTyped, NetTypeOK
    <2>3. request.arg \in Name
      BY <2>1, <2>2, FitArgument, SMT
    <2>4. CASE Say(Reply(550), "cmd") /\ sjob' = sjob
      <3>1. Reply(550) \in Response
        BY ReplyType, SMT DEF Code
      <3> QED
        BY <2>1, <2>4, <3>1, PlainAnswer, SMT
    <2>5. CASE StartJob /\ file["server"][request.arg] # Absent
      <3>1. Reply(150) \in Response
        BY ReplyType, SMT DEF Code
      <3>2. /\ toClient' \in Seq(Response) /\ spc' \in {"link", "dying", "killed"}
            /\ late' \subseteq Side
        BY <2>5, <3>1, SayType, SMT DEF StartJob, ServerTyped, NetTypeOK
      <3> QED
        BY <2>1, <2>2, <2>3, <2>5, <3>2, SMT
        DEF StartJob, ServerTyped, NetTypeOK, ControlTypeOK, DataTypeOK,
            FileTypeOK, dataVars, ServerTypeOK, ServerPc, ClientHolds
    <2> QED
      BY <1>2, <2>4, <2>5, SMT DEF HandleRetr
  <1> QED
    BY <1>1, <1>2

\* Saving a body of b as a file of the server.
LEMMA ServerSaves ==
  ASSUME FileTypeOK, NEW n \in Name, NEW b \in Body,
         file' = [file EXCEPT !["server"][n] = b]
  PROVE  FileTypeOK' /\ file'["client"] = file["client"]
  BY SMT DEF FileTypeOK, Side

LEMMA HandleStorTyped ==
  ASSUME ServerTyped, HandleStor PROVE ServerTyped' /\ ClientHolds
  <1>1. CASE Refuse("STOR")
    BY <1>1, RefuseTyped, SMT
  <1>2. CASE ~Refuse("STOR")
    <2>1. /\ Takes("STOR") /\ Fit
          /\ UNCHANGED <<sType, sUser, sLoggedIn, dataVars>>
      BY <1>2, SMT DEF HandleStor
    <2>2. /\ toServer' \in Seq(Command) /\ open' \subseteq Side
          /\ request \in Command /\ request.verb = "STOR"
      BY <2>1, TakesType, SMT DEF ServerTyped, NetTypeOK
    <2>3. request.arg \in Name
      BY <2>1, <2>2, FitArgument, SMT
    <2>4. CASE Say(Reply(550), "cmd") /\ sjob' = sjob /\ file' = file
      <3>1. Reply(550) \in Response
        BY ReplyType, SMT DEF Code
      <3> QED
        BY <2>1, <2>4, <3>1, PlainAnswer, SMT
    <2>5. CASE /\ StartJob
               /\ file' = [file EXCEPT !["server"][request.arg] = EmptyBody]
      <3>1. Reply(150) \in Response
        BY ReplyType, SMT DEF Code
      <3>2. /\ toClient' \in Seq(Response) /\ spc' \in {"link", "dying", "killed"}
            /\ late' \subseteq Side
        BY <2>5, <3>1, SayType, SMT DEF StartJob, ServerTyped, NetTypeOK
      <3>3. FileTypeOK' /\ file'["client"] = file["client"]
        <4>1. FileTypeOK
          BY SMT DEF ServerTyped, NetTypeOK
        <4> QED
          BY <2>3, <2>5, <4>1, ServerSaves, SpecialBodies, Zenon
      <3> QED
        BY <2>1, <2>2, <2>3, <2>5, <3>2, <3>3, SMT
        DEF StartJob, ServerTyped, NetTypeOK, ControlTypeOK, DataTypeOK,
            dataVars, ServerTypeOK, ServerPc, ClientHolds
    <2> QED
      BY <1>2, <2>4, <2>5, SMT DEF HandleStor
  <1> QED
    BY <1>1, <1>2

LEMMA HandleNoopTyped ==
  ASSUME ServerTyped, HandleNoop PROVE ServerTyped' /\ ClientHolds
  <1>1. Reply(200) \in Response
    BY ReplyType, SMT DEF Code
  <1> QED
    BY <1>1, RefuseTyped, PlainAnswer, SMT DEF HandleNoop

LEMMA HandleNotImplementedTyped ==
  ASSUME ServerTyped, HandleNotImplemented PROVE ServerTyped' /\ ClientHolds
  <1>1. Reply(502) \in Response
    BY ReplyType, SMT DEF Code
  <1> QED
    BY <1>1, PlainAnswer, SMT DEF HandleNotImplemented

-----------------------------------------------------------------------------
\* The facts about sides that the data connection's lemmas are used with.
LEMMA ServerSide == "server" \in Side /\ Peer("server") = "client"
  BY SMT DEF Side, Peer

LEMMA ServerOpensDataTyped ==
  ASSUME ServerTyped, ServerOpensData PROVE ServerTyped' /\ ClientHolds
  <1>1. DataTypeOK /\ (Connect("server") \/ Accept("server"))
    BY SMT DEF ServerOpensData, ServerTyped, NetTypeOK
  <1>2. /\ DataTypeOK'
        /\ data'["server"] \in ConnId
        /\ data'["client"] = data["client"]
        /\ listener' = listener
    BY <1>1, ConnectType, AcceptType, ServerSide, SMT
  <1> QED
    BY <1>2, SMT
    DEF ServerOpensData, ServerTyped, NetTypeOK, ControlTypeOK, FileTypeOK,
        ctlVars, ServerTypeOK, ServerPc, ClientHolds

LEMMA ServerFailsDataTyped ==
  ASSUME ServerTyped, ServerFailsData PROVE ServerTyped' /\ ClientHolds
  <1>1. Say(Reply(425), "cmd") /\ UNCHANGED dataVars
    BY SMT DEF ServerFailsData, ConnectFails, AcceptTimesOut
  <1>2. Reply(425) \in Response
    BY ReplyType, SMT DEF Code
  <1>3. /\ toClient' \in Seq(Response) /\ spc' \in {"cmd", "dying", "killed"}
        /\ late' \subseteq Side
    BY <1>1, <1>2, SayType, SMT DEF ServerTyped, NetTypeOK
  <1> QED
    BY <1>1, <1>3, NoJobType, QuietStep, SMT
    DEF ServerFailsData, ServerTyped, NetTypeOK, ControlTypeOK, ServerTypeOK,
        ServerPc

LEMMA ServerSendsTyped ==
  ASSUME ServerTyped, ServerSends PROVE ServerTyped' /\ ClientHolds
  <1> DEFINE c == data["server"]
             ship(b) == conn' = [conn EXCEPT
                          ![c] = Shipped(@, "client", Encode(sType, b))]
             sent == file["server"][sjob.arg]
  <1>1. /\ ServerTyped
        /\ data' = [data EXCEPT !["server"] = NoConn]
        /\ sjob' = NoJob
        /\ UNCHANGED <<toServer, open, sType, sUser, sLoggedIn, listener, addr,
                       backlog, file>>
    BY SMT DEF ServerSends
  <1>2. \/ ship(sent) /\ Say(Reply(226), "cmd")
        \/ /\ conn' = HangUp({c}, "server")
           /\ spc' \in {"dying", "killed"} /\ UNCHANGED <<toClient, late>>
        \/ /\ ship(Damaged) /\ spc' = "dying"
           /\ UNCHANGED <<toClient, late>>
    BY SMT DEF ServerSends
  <1>3. /\ c \in ConnId /\ sjob.arg \in Name
        /\ sjob.verb = "RETR" /\ sent # Absent
    BY SMT DEF ServerSends, ServerTyped, ServerTypeOK
  <1>4. sent \in Body /\ Damaged \in Body
    BY <1>3, SpecialBodies, ServerSide, SMT DEF ServerTyped, NetTypeOK, FileTypeOK
  <1> HIDE DEF c, sent
  <1>5. \A b \in Body : ship(b) => conn' \in [ConnId -> Connection]
    <2> SUFFICES ASSUME NEW b \in Body, ship(b) PROVE conn' \in [ConnId -> Connection]
      OBVIOUS
    <2>1. conn \in [ConnId -> Connection] /\ conn[c] \in Connection
      BY <1>3, SMT DEF ServerTyped, NetTypeOK, DataTypeOK
    <2>2. Encode(sType, b) \in Payload
      BY EncodeType, SMT DEF ServerTyped, ServerTypeOK
    <2>3. "client" \in Side
      BY SMT DEF Side
    <2>4. Shipped(conn[c], "client", Encode(sType, b)) \in Connection
      BY <2>1, <2>2, <2>3, ShippedType, SMT
    <2> QED
      BY <1>3, <2>1, <2>4, ConnUpdateType, SMT
  <1>6. conn' \in [ConnId -> Connection]
    <2>1. DataTypeOK
      BY SMT DEF ServerTyped, NetTypeOK
    <2>2. HangUp({c}, "server") \in [ConnId -> Connection]
      BY <2>1, HangUpType, ServerSide, SMT
    <2> QED
      BY <1>2, <1>4, <1>5, <2>2, Zenon
  <1>7. /\ toClient' \in Seq(Response) /\ spc' \in {"cmd", "dying", "killed"}
        /\ late' \subseteq Side
    <2>1. Reply(226) \in Response
      BY ReplyType, SMT DEF Code
    <2> QED
      BY <1>2, <2>1, SayType, SMT DEF ServerTyped, NetTypeOK, ControlTypeOK
  <1>8. DataTypeOK' /\ data'["client"] = data["client"]
    BY <1>1, <1>6, ServerSide, SMT DEF ServerTyped, NetTypeOK, DataTypeOK, Side
  <1> QED
    BY <1>1, <1>7, <1>8, NoJobType, SMT
    DEF ServerTyped, NetTypeOK, ControlTypeOK, FileTypeOK, ServerTypeOK,
        ServerPc, ClientHolds

LEMMA ServerReceivesTyped ==
  ASSUME ServerTyped, ServerReceives PROVE ServerTyped' /\ ClientHolds
  <1> DEFINE received == Decode(sType, conn[data["server"]].wire["server"])
  <1>1. /\ DropData("server")
        /\ sjob' = NoJob
        /\ UNCHANGED <<toServer, open, sType, sUser, sLoggedIn>>
    BY SMT DEF ServerReceives
  <1>2. \E b \in {received, Damaged} :
          file' = [file EXCEPT !["server"][sjob.arg] = b]
    BY SMT DEF ServerReceives
  <1>3. Say(Reply(226), "cmd") \/ (spc' = "dying" /\ UNCHANGED <<toClient, late>>)
    BY SMT DEF ServerReceives
  <1>4. data["server"] \in ConnId /\ sjob.arg \in Name /\ sType \in Type
    BY SMT DEF ServerReceives, ServerTyped, ServerTypeOK
  <1>5. received \in Body /\ Damaged \in Body
    <2>1. conn[data["server"]].wire["server"] \in Payload
      BY <1>4, ServerSide, SMT DEF ServerTyped, NetTypeOK, DataTypeOK, Connection
    <2> QED
      BY <1>4, <2>1, DecodeType, SpecialBodies, SMT
  <1> HIDE DEF received
  <1>6. FileTypeOK' /\ file'["client"] = file["client"]
    <2>1. FileTypeOK
      BY SMT DEF ServerTyped, NetTypeOK
    <2>2. PICK b \in {received, Damaged} :
            file' = [file EXCEPT !["server"][sjob.arg] = b]
      BY <1>2, Zenon
    <2>3. b \in Body
      BY <1>5, SMT
    <2> QED
      BY <1>4, <2>1, <2>2, <2>3, ServerSaves, Zenon
  <1>7. /\ toClient' \in Seq(Response) /\ spc' \in {"cmd", "dying", "killed"}
        /\ late' \subseteq Side
    <2>1. Reply(226) \in Response
      BY ReplyType, SMT DEF Code
    <2> QED
      BY <1>3, <2>1, SayType, SMT DEF ServerTyped, NetTypeOK, ControlTypeOK
  <1>8. DataTypeOK' /\ data'["client"] = data["client"] /\ listener' = listener
    BY <1>1, DropDataType, ServerSide, SMT DEF ServerTyped, NetTypeOK
  <1> QED
    BY <1>1, <1>6, <1>7, <1>8, NoJobType, SMT
    DEF ServerTyped, NetTypeOK, ControlTypeOK, ServerTypeOK, ServerPc, ClientHolds

-----------------------------------------------------------------------------
LEMMA ServerLosesClientTyped ==
  ASSUME ServerTyped, ServerLosesClient PROVE ServerTyped' /\ ClientHolds
  BY QuietStep, SMT
  DEF ServerLosesClient, ctlVars, ServerTyped, NetTypeOK, ControlTypeOK,
      ServerTypeOK, ServerPc

LEMMA ServerInterruptedTyped ==
  ASSUME ServerTyped, ServerInterrupted PROVE ServerTyped' /\ ClientHolds
  <1>1. /\ spc' = "dying"
        /\ UNCHANGED <<ctlVars, sType, sUser, sLoggedIn, sjob, dataVars>>
    BY SMT DEF ServerInterrupted
  <1>2. CASE UNCHANGED file
    BY <1>1, <1>2, QuietStep, SMT
    DEF ctlVars, ServerTyped, NetTypeOK, ControlTypeOK, ServerTypeOK, ServerPc
  <1>3. CASE /\ spc = "move" /\ sjob.verb = "STOR"
             /\ file' = [file EXCEPT !["server"][sjob.arg] = Damaged]
    <2>1. FileTypeOK /\ sjob.arg \in Name
      BY <1>3, SMT DEF ServerTyped, NetTypeOK, ServerTypeOK
    <2>2. FileTypeOK' /\ file'["client"] = file["client"]
      BY <1>3, <2>1, ServerSaves, SpecialBodies, Zenon
    <2> QED
      BY <1>1, <2>2, SMT
      DEF ctlVars, dataVars, ServerTyped, NetTypeOK, ControlTypeOK, DataTypeOK,
          ServerTypeOK, ServerPc, ClientHolds
  <1> QED
    BY <1>2, <1>3, SMT DEF ServerInterrupted

LEMMA ServerExitsTyped ==
  ASSUME ServerTyped, ServerExits PROVE ServerTyped' /\ ClientHolds
  <1>1. /\ Vanish("server") /\ spc' = "gone" /\ sjob' = NoJob
        /\ UNCHANGED <<toServer, toClient, sType, sUser, sLoggedIn, file>>
    BY SMT DEF ServerExits
  <1>2. /\ DataTypeOK' /\ open' \subseteq Side /\ late' \subseteq Side
        /\ data'["client"] = data["client"]
        /\ listener'["client"] = listener["client"]
    BY <1>1, VanishType, ServerSide, SMT DEF ServerTyped, NetTypeOK, ControlTypeOK
  <1> QED
    BY <1>1, <1>2, NoJobType, SMT
    DEF ServerTyped, NetTypeOK, ControlTypeOK, FileTypeOK, ServerTypeOK,
        ServerPc, ClientHolds

-----------------------------------------------------------------------------
\* Init's part of the server, over a network that is well typed.
LEMMA ServerInitTyped ==
  ASSUME NetTypeOK, ServerInit PROVE ServerTyped
  <1>1. sLoggedIn \in BOOLEAN
    BY Zenon DEF ServerInit
  <1> QED
    BY <1>1, NoJobType, SMT
    DEF ServerInit, ServerTyped, ServerTypeOK, ServerPc, Type

(***************************************************************************)
(* Every step of the interpreter keeps the types and the client's holdings.*)
(***************************************************************************)
LEMMA ServerKeepsTypes ==
  ASSUME ServerTyped, ServerStep \/ ServerFailsData \/ ServerInterrupted
  PROVE  ServerTyped' /\ ClientHolds
  <1>1. CASE HandleCommand
    BY <1>1, HandleTypeTyped, HandleModeOrStruTyped, HandleUserTyped,
       HandlePassTyped, HandleQuitTyped, HandlePortTyped, HandlePasvTyped,
       HandleRetrTyped, HandleStorTyped, HandleNoopTyped,
       HandleNotImplementedTyped, SMT
    DEF HandleCommand
  <1>2. CASE ServerStep /\ ~HandleCommand
    BY <1>2, GreetTyped, ServerOpensDataTyped, ServerSendsTyped,
       ServerReceivesTyped, ServerLosesClientTyped, ServerExitsTyped, SMT
    DEF ServerStep
  <1>3. CASE ServerFailsData \/ ServerInterrupted
    BY <1>3, ServerFailsDataTyped, ServerInterruptedTyped, SMT
  <1> QED
    BY <1>1, <1>2, <1>3, SMT
=============================================================================
