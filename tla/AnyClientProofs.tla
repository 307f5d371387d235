-------------------------- MODULE AnyClientProofs ---------------------------
(***************************************************************************)
(* Theorems about the server's interpreter under a client that follows no  *)
(* protocol, for every choice of the constants.                            *)
(***************************************************************************)
EXTENDS AnyClient, ServerPIProofs

-----------------------------------------------------------------------------
LEMMA InitTyped == Init => TypeOK
  <1> SUFFICES ASSUME Init PROVE TypeOK
    OBVIOUS
  <1>1. ControlTypeOK
    BY SMT DEF Init, ControlTypeOK
  <1>2. DataTypeOK
    <2>1. DefaultPort \in PortNumber /\ Port \subseteq PortNumber
      BY NetAssumption, SMT DEF DefaultPort, PortNumber, Word
    <2>2. conn \in [ConnId -> Connection]
      BY FreshType, SMT DEF Init
    <2> QED
      BY <2>1, <2>2, SMT DEF Init, DataTypeOK
  <1>3. FileTypeOK
    BY NetAssumption, Zenon DEF Init, FileTypeOK
  <1>4. NetTypeOK
    BY <1>1, <1>2, <1>3 DEF NetTypeOK
  <1> QED
    BY <1>4, ServerInitTyped, SMT DEF Init, TypeOK, ServerTyped

LEMMA SideClient == "client" \in Side /\ Peer("client") = "server"
  BY SMT DEF Side, Peer

\* A step of the client keeps the shared variables typed and leaves what
\* the server's interpreter relies on alone.
LEMMA SendsTyped ==
  ASSUME TypeOK, Sends \/ Reads PROVE NetTypeOK' /\ UNCHANGED <<data, file>>
  <1>1. ControlTypeOK
    BY SMT DEF TypeOK, NetTypeOK
  <1>2. UNCHANGED <<dataVars, file>> /\ open' = open /\ late' = late
    BY SMT DEF Sends, Reads
  <1>3. CASE Sends
    BY <1>1, <1>2, <1>3, ScriptAssumption, SMT
    DEF Sends, TypeOK, NetTypeOK, ControlTypeOK, DataTypeOK, FileTypeOK, dataVars
  <1>4. CASE Reads
    <2>1. toClient' \in Seq(Response) /\ toServer' = toServer
      BY <1>1, <1>4, HeadTailProperties, SMT DEF Reads, ControlTypeOK
    <2> QED
      BY <1>1, <1>2, <2>1, SMT
      DEF TypeOK, NetTypeOK, ControlTypeOK, DataTypeOK, FileTypeOK, dataVars
  <1> QED
    BY <1>3, <1>4, Zenon

LEMMA ListensTyped ==
  ASSUME TypeOK, Listens \/ StopsListening
  PROVE  NetTypeOK' /\ UNCHANGED <<data, file>>
  <1>1. UNCHANGED <<ctlVars, addr, data, file>>
    BY SMT DEF Listens, StopsListening
  <1>2. DataTypeOK'
    <2>1. CASE Listens
      <3>1. DataTypeOK /\ UNCHANGED <<addr, backlog, conn, data>>
        BY <2>1, SMT DEF Listens, TypeOK, NetTypeOK
      <3>2. PICK p \in Port : listener' = [listener EXCEPT !["client"] = p]
        BY <2>1, Zenon DEF Listens
      <3> QED
        BY <3>1, <3>2, SideClient, SMT DEF DataTypeOK
    <2>2. CASE StopsListening
      BY <2>2, StopListeningType, SideClient, SMT
      DEF StopsListening, TypeOK, NetTypeOK, DataTypeOK
    <2> QED
      BY <2>1, <2>2, Zenon
  <1> QED
    BY <1>1, <1>2, SMT DEF TypeOK, NetTypeOK, ControlTypeOK, FileTypeOK, ctlVars

LEMMA DataStepTyped ==
  ASSUME TypeOK, OpensData \/ Ships \/ HangsUp
  PROVE  NetTypeOK' /\ data'["server"] = data["server"] /\ file' = file
  <1>1. UNCHANGED <<ctlVars, file>>
    BY SMT DEF OpensData, Ships, HangsUp
  <1>2. DataTypeOK
    BY SMT DEF TypeOK, NetTypeOK
  <1>3. DataTypeOK' /\ data'["server"] = data["server"]
    <2>1. CASE OpensData
      BY <1>2, <2>1, ConnectType, AcceptType, SideClient, SMT DEF OpensData
    <2>2. CASE HangsUp
      BY <1>2, <2>2, DropDataType, SideClient, SMT DEF HangsUp
    <2>3. CASE Ships
      <3>1. PICK p \in Shipment :
              conn' = [conn EXCEPT ![data["client"]] = Shipped(@, "server", p)]
        BY <2>3, Zenon DEF Ships
      <3>0. p \in Payload
        BY <3>1, ScriptAssumption, SMT
      <3>2. data["client"] \in ConnId /\ "server" \in Side
        BY <1>2, <2>3, SideClient, SMT DEF Ships, DataTypeOK, Side
      <3>3. conn \in [ConnId -> Connection] /\ conn[data["client"]] \in Connection
        BY <1>2, <3>2, SMT DEF DataTypeOK
      <3>4. Shipped(conn[data["client"]], "server", p) \in Connection
        BY <3>0, <3>2, <3>3, ShippedType, SMT
      <3>5. conn' \in [ConnId -> Connection]
        BY <3>1, <3>2, <3>3, <3>4, ConnUpdateType, SMT
      <3>6. /\ data' = [data EXCEPT !["client"] = NoConn]
            /\ UNCHANGED <<listener, addr, backlog>>
        BY <2>3, SMT DEF Ships
      <3> QED
        BY <1>2, <3>5, <3>6, SideClient, SMT DEF DataTypeOK, Side
    <2> QED
      BY <2>1, <2>2, <2>3, Zenon
  <1> QED
    BY <1>1, <1>3, SMT DEF TypeOK, NetTypeOK, ControlTypeOK, FileTypeOK, ctlVars

LEMMA LeavesTyped ==
  ASSUME TypeOK, Leaves
  PROVE  NetTypeOK' /\ data'["server"] = data["server"] /\ file' = file
  <1>1. Vanish("client") /\ UNCHANGED <<toServer, toClient, file>>
    BY SMT DEF Leaves
  <1>2. /\ DataTypeOK' /\ open' \subseteq Side /\ late' \subseteq Side
        /\ data'["server"] = data["server"]
    BY <1>1, VanishType, SideClient, SMT DEF TypeOK, NetTypeOK, ControlTypeOK
  <1> QED
    BY <1>1, <1>2, SMT DEF TypeOK, NetTypeOK, ControlTypeOK, FileTypeOK

LEMMA StepTyped == TypeOK /\ [Next]_vars => TypeOK'
  <1> SUFFICES ASSUME TypeOK, [Next]_vars PROVE TypeOK'
    OBVIOUS
  <1>1. CASE UNCHANGED vars
    BY <1>1, SMT
    DEF vars, netVars, serverVars, TypeOK, NetTypeOK, ControlTypeOK,
        DataTypeOK, FileTypeOK, ServerTypeOK
  <1>2. CASE ServerStep \/ ServerFailsData \/ ServerInterrupted
    BY <1>2, ServerKeepsTypes, SMT DEF TypeOK, ServerTyped
  <1>3. CASE /\ \/ Sends \/ Reads \/ Listens \/ StopsListening \/ OpensData
                \/ Ships \/ HangsUp \/ Leaves
             /\ UNCHANGED serverVars
    <2>1. NetTypeOK' /\ data'["server"] = data["server"] /\ file' = file
      BY <1>3, SendsTyped, ListensTyped, DataStepTyped, LeavesTyped, SMT
    <2> QED
      BY <1>3, <2>1, SMT DEF TypeOK, ServerTypeOK, serverVars
  <1> QED
    BY <1>1, <1>2, <1>3, Zenon DEF Next

(***************************************************************************)
(* Types.  No sequence of commands and of moves on the data connections    *)
(* that a client makes brings ServerProtocolInterpreter out of its types:  *)
(* a transfer has a name, a file to be fetched exists, and a handler that  *)
(* moves a file holds a data connection.                                   *)
(***************************************************************************)
THEOREM AnyClientTyped == Spec => []TypeOK
  <1> QED
    BY InitTyped, StepTyped, PTL DEF Spec

-----------------------------------------------------------------------------
(***************************************************************************)
(* The refinement.  Every step of the interpreter and of its client is a   *)
(* step of FtpService or leaves all of its variables alone.                *)
(***************************************************************************)
LEMMA InitServes == Init => Offered!SInit
  <1> SUFFICES ASSUME Init PROVE Offered!SInit
    OBVIOUS
  <1>1. file["server"] \in [Name -> Content]
    BY NetAssumption, SMT DEF Init, Side, Content
  <1>2. toServer = <<>> /\ toClient = <<>> /\ Present = TRUE /\ sLoggedIn = FALSE
    BY SMT DEF Init, Present, Side, ServerInit
  <1>3. Phase = "greeting"
    BY SMT DEF Init, ServerInit, Phase
  <1>4. Target = {}
    BY <1>3, SMT DEF Target
  <1> QED
    BY <1>1, <1>2, <1>3, <1>4, Zenon DEF Offered!SInit

LEMMA PhaseOf ==
  /\ spc = "greet" => Phase = "greeting"
  /\ spc = "cmd" => Phase = "ready"
  /\ spc \in {"link", "move"} => Phase = "transfer"
  /\ spc \in Ended => Phase = "closed"
  /\ spc \notin {"link", "move"} => Target = {}
  BY SMT DEF Phase, Target, Ended

LEMMA PhaseNext ==
  /\ spc' = "cmd" => Phase' = "ready"
  /\ spc' \in {"link", "move"} => Phase' = "transfer"
  /\ spc' \in Ended => Phase' = "closed"
  /\ spc' \notin {"link", "move"} => Target' = {}
  BY SMT DEF Phase, Target, Ended

\* A write to the control connection is what the service calls a reply.
LEMMA SayEmits ==
  ASSUME ControlTypeOK, NEW r \in Response, NEW pc, Say(r, pc)
  PROVE  Offered!Emit(r.code) /\ spc' \in {pc, "dying", "killed"}
  <1>1. CASE "client" \in open
    <2>1. toClient' = Append(toClient, r) /\ toClient \in Seq(Response)
      BY <1>1, SMT DEF Say, ControlTypeOK
    <2>2. toClient' # <<>> /\ toClient'[Len(toClient')] = r
      BY <2>1, AppendProperties, SMT
    <2> QED
      BY <1>1, <2>1, <2>2, SMT DEF Say, Offered!Emit, Offered!Grows, Present
  <1>2. CASE "client" \notin open
    BY <1>2, SMT DEF Say, Offered!Emit, Present
  <1> QED
    BY <1>1, <1>2

LEMMA TakesHead ==
  ASSUME TypeOK, NEW v, Takes(v)
  PROVE  /\ Phase = "ready" /\ Target = {}
         /\ toServer # <<>> /\ toServer' = Tail(toServer)
         /\ Head(toServer) = request /\ request.verb = v
         /\ request \in Command
         /\ Present' = Present
  <1>1. request \in Command
    BY TakesType, SMT DEF TypeOK, NetTypeOK
  <1> QED
    BY <1>1, PhaseOf, SMT DEF Takes, request, Present

LEMMA SameFiles ==
  ASSUME NEW names, file'["server"] = file["server"]
  PROVE  Offered!OnlyIn(names)
  BY Zenon DEF Offered!OnlyIn

\* A handler that answers once is an Answer of the service.
LEMMA AnswerServes ==
  ASSUME TypeOK, NEW v, Takes(v),
         NEW r \in Response, NEW pc \in {"cmd", "dying"}, Say(r, pc),
         v = "QUIT" => pc = "dying",
         Offered!Due(v, r.code),
         sLoggedIn' = (sLoggedIn \/ r.code = 230),
         file' = file
  PROVE  Offered!Answer
  <1>1. /\ Phase = "ready" /\ toServer # <<>> /\ toServer' = Tail(toServer)
        /\ Head(toServer).verb = v /\ Present' = Present /\ Target = {}
    BY TakesHead, SMT
  <1>2. Offered!Emit(r.code) /\ spc' \in {pc, "dying", "killed"}
    BY SayEmits, SMT DEF TypeOK, NetTypeOK
  <1>3. /\ Phase' \in IF v = "QUIT" THEN {"closed"} ELSE {"ready", "closed"}
        /\ Target' = {}
    BY <1>2, PhaseNext, SMT DEF Ended
  <1>4. r.code \in Offered!FinalCodes(v)
    BY Zenon DEF Offered!Due
  <1>5. \E code \in Offered!FinalCodes(v) :
          /\ Offered!Due(v, code) /\ Offered!Emit(code)
          /\ sLoggedIn' = (sLoggedIn \/ code = 230)
    <2> WITNESS r.code \in Offered!FinalCodes(v)
    <2> QED
      BY <1>2
  <1>6. file["server"]' = file["server"] /\ Target' = Target
    BY <1>1, <1>3, Zenon
  <1> QED
    BY <1>1, <1>3, <1>5, <1>6, Zenon DEF Offered!Answer

\* One that ends the session instead is a BreakOff.
LEMMA BreakServes ==
  ASSUME Phase # "closed", spc' \in Ended,
         \/ toServer' = toServer
         \/ Phase = "ready" /\ toServer # <<>> /\ toServer' = Tail(toServer),
         Offered!OnlyIn(Target),
         toClient' = toClient, open' = open, sLoggedIn' = sLoggedIn
  PROVE  Offered!BreakOff
  <1>1. Phase' = "closed" /\ Target' = {}
    BY PhaseNext, SMT DEF Ended
  <1>2. Present' = Present
    BY SMT DEF Present
  <1> QED
    BY <1>1, <1>2, Zenon DEF Offered!BreakOff

-----------------------------------------------------------------------------
\* What a handler may say that got past its complaints.
LEMMA FitDue ==
  ASSUME request \in Command, Fit, request.verb \notin {"QUIT", "OTHER"},
         NEW code \in Offered!FinalCodes(request.verb),
         request.verb \in NeedsLogin => code \notin {503, 530},
         request.verb \in LoginOnly => code # 503,
         request.verb = "NOOP" => code = 200
  PROVE  Offered!Due(request.verb, code)
  <1>1. /\ request.verb \in NeedsLogin => sLoggedIn
        /\ request.verb \in LoginOnly => ~sLoggedIn
    BY SMT DEF Fit, Complaint
  <1>2. request.verb \in NeedsLogin \cup LoginOnly \cup {"NOOP"}
    BY SMT DEF Command, Verb, NeedsLogin, LoginOnly
  <1> QED
    BY <1>1, <1>2, SMT DEF Offered!Due, Offered!Open, NeedsLogin, LoginOnly

LEMMA ReplyCode == \A c : Reply(c).code = c
  BY SMT DEF Reply

LEMMA PlainAnswerServes ==
  ASSUME TypeOK, NEW v, Takes(v),
         NEW c \in Code \ {230}, NEW pc \in {"cmd", "dying"}, Say(Reply(c), pc),
         v = "QUIT" => pc = "dying",
         Offered!Due(v, c),
         sLoggedIn' = sLoggedIn, file' = file
  PROVE  Offered!Answer
  <1>1. Reply(c) \in Response /\ Reply(c).code = c
    BY ReplyType, ReplyCode, SMT
  <1>2. sLoggedIn \in BOOLEAN
    BY DEF TypeOK, ServerTypeOK
  <1>3. sLoggedIn' = (sLoggedIn \/ Reply(c).code = 230)
    BY <1>1, <1>2, SMT
  <1> QED
    BY <1>1, <1>3, AnswerServes, SMT

LEMMA RefuseServes ==
  ASSUME TypeOK, NEW v, v \notin {"QUIT", "OTHER"}, Refuse(v)
  PROVE  Offered!Answer
  <1> DEFINE c == Complaint(request)
  <1>1. /\ Takes(v) /\ ~Fit /\ Say(Reply(c), "cmd")
        /\ sLoggedIn' = sLoggedIn /\ file' = file
    BY SMT DEF Refuse
  <1>2. request \in Command /\ request.verb = v
    BY <1>1, TakesHead, SMT
  <1>7. v \in Verb
    BY <1>2, SMT DEF Command
  <1>3. \/ c = 530 /\ v \in NeedsLogin /\ ~sLoggedIn
        \/ c = 503 /\ v \in LoginOnly /\ sLoggedIn
        \/ c = 500 /\ ~(v \in NeedsLogin /\ ~sLoggedIn) /\ ~(v \in LoginOnly /\ sLoggedIn)
    <2>1. c # 0
      BY <1>1, Zenon DEF Fit
    <2>2. ~(v \in NeedsLogin /\ v \in LoginOnly)
      BY SMT DEF NeedsLogin, LoginOnly
    <2>3. CASE v \in NeedsLogin /\ ~sLoggedIn
      <3>1. c = 530
        BY <1>2, <2>2, <2>3, Zenon DEF Complaint
      <3> QED
        BY <2>3, <3>1, Zenon
    <2>4. CASE v \in LoginOnly /\ sLoggedIn
      <3>1. c = 503
        BY <1>2, <2>2, <2>4, Zenon DEF Complaint
      <3> QED
        BY <2>4, <3>1, Zenon
    <2>5. CASE ~(v \in NeedsLogin /\ ~sLoggedIn) /\ ~(v \in LoginOnly /\ sLoggedIn)
      <3>1. c \in {500, 0}
        BY <1>2, <2>5, SMT DEF Complaint
      <3> QED
        BY <2>1, <2>5, <3>1, Zenon
    <2> HIDE DEF c
    <2> QED
      BY <2>3, <2>4, <2>5
  <1>4. c \in Offered!FinalCodes(v)
    BY <1>3, <1>7, SMT DEF Offered!FinalCodes, Verb, NeedsLogin, LoginOnly
  <1>5. Offered!Due(v, c)
    BY <1>3, <1>4, <1>7, SMT DEF Offered!Due, Offered!Open, Verb, NeedsLogin, LoginOnly
  <1>6. c \in Code \ {230}
    BY <1>3, SMT DEF Code
  <1> HIDE DEF c
  <1> QED
    BY <1>1, <1>5, <1>6, PlainAnswerServes, Zenon

-----------------------------------------------------------------------------
\* One lemma per handler.
LEMMA GreetServes ==
  ASSUME TypeOK, Greet PROVE Offered!Welcome
  <1>1. Reply(220) \in Response /\ Reply(220).code = 220
    BY ReplyType, ReplyCode, SMT DEF Code
  <1>2. Offered!Emit(220) /\ spc' \in {"cmd", "dying", "killed"}
    BY <1>1, SayEmits, SMT DEF Greet, TypeOK, NetTypeOK
  <1>3. Phase' \in {"ready", "closed"} /\ Target' = {}
    BY <1>2, PhaseNext, SMT DEF Ended
  <1>4. Phase = "greeting" /\ Target = {}
    BY PhaseOf, SMT DEF Greet
  <1>5. /\ toServer' = toServer /\ Present' = Present
        /\ sLoggedIn' = sLoggedIn /\ file["server"]' = file["server"]
    BY SMT DEF Greet, Present
  <1> QED
    BY <1>2, <1>3, <1>4, <1>5, Zenon DEF Offered!Welcome

\* The answers of the handlers that change neither login nor files.
LEMMA FitAnswerServes ==
  ASSUME TypeOK, NEW v \in NeedsLogin \cup LoginOnly, Takes(v), Fit,
         NEW r \in Response, Say(r, "cmd"),
         r.code \in Offered!FinalCodes(v), r.code # 503,
         v \in NeedsLogin => r.code # 530,
         sLoggedIn' = (sLoggedIn \/ r.code = 230), file' = file
  PROVE  Offered!Answer
  <1>1. request \in Command /\ request.verb = v /\ v \notin {"QUIT", "OTHER", "NOOP"}
    BY TakesHead, SMT DEF NeedsLogin, LoginOnly
  <1>2. /\ r.code \in Offered!FinalCodes(v)
        /\ v \in NeedsLogin => r.code \notin {503, 530}
        /\ v \in LoginOnly => r.code # 503
    BY SMT
  <1>3. Offered!Due(v, r.code)
    BY <1>1, <1>2, FitDue, SMT
  <1> QED
    BY <1>1, <1>3, AnswerServes, SMT

\* The same, for a code other than 230.
LEMMA FitReplyServes ==
  ASSUME TypeOK, NEW v \in NeedsLogin \cup LoginOnly, Takes(v), Fit,
         NEW c \in Code \ {230}, Say(Reply(c), "cmd"),
         c \in Offered!FinalCodes(v), c # 503,
         v \in NeedsLogin => c # 530,
         sLoggedIn' = sLoggedIn, file' = file
  PROVE  Offered!Answer
  <1>1. Reply(c) \in Response /\ Reply(c).code = c
    BY ReplyType, ReplyCode, SMT
  <1>2. sLoggedIn \in BOOLEAN
    BY DEF TypeOK, ServerTypeOK
  <1>3. sLoggedIn' = (sLoggedIn \/ Reply(c).code = 230)
    BY <1>1, <1>2, SMT
  <1> QED
    BY <1>1, <1>3, FitAnswerServes, SMT

LEMMA HandleTypeServes ==
  ASSUME TypeOK, HandleType PROVE Offered!Answer
  <1>1. CASE Refuse("TYPE")
    BY <1>1, RefuseServes, SMT
  <1>2. CASE ~Refuse("TYPE")
    <2>1. /\ Takes("TYPE") /\ Fit /\ sLoggedIn' = sLoggedIn /\ file' = file
          /\ \E c \in {200, 504} : Say(Reply(c), "cmd")
      BY <1>2, SMT DEF HandleType
    <2>2. PICK c \in {200, 504} : Say(Reply(c), "cmd")
      BY <2>1, Zenon
    <2>3. /\ c \in Code \ {230} /\ c \in Offered!FinalCodes("TYPE") /\ c \notin {503, 530}
          /\ "TYPE" \in NeedsLogin \cup LoginOnly
      BY SMT DEF Code, Offered!FinalCodes, NeedsLogin
    <2> QED
      BY <2>1, <2>2, <2>3, FitReplyServes, SMT
  <1> QED
    BY <1>1, <1>2, Zenon

LEMMA HandleModeOrStruServes ==
  ASSUME TypeOK, NEW v \in {"MODE", "STRU"}, HandleModeOrStru(v)
  PROVE  Offered!Answer
  <1>1. CASE Refuse(v)
    BY <1>1, RefuseServes, SMT
  <1>2. CASE ~Refuse(v)
    <2>1. /\ Takes(v) /\ Fit /\ sLoggedIn' = sLoggedIn /\ file' = file
          /\ \E c \in {200, 504} : Say(Reply(c), "cmd")
      BY <1>2, SMT DEF HandleModeOrStru
    <2>2. PICK c \in {200, 504} : Say(Reply(c), "cmd")
      BY <2>1, Zenon
    <2>3. /\ c \in Code \ {230} /\ c \in Offered!FinalCodes(v) /\ c \notin {503, 530}
          /\ v \in NeedsLogin \cup LoginOnly
      BY SMT DEF Code, Offered!FinalCodes, NeedsLogin
    <2> QED
      BY <2>1, <2>2, <2>3, FitReplyServes, SMT
  <1> QED
    BY <1>1, <1>2, Zenon

\* A handler that ends the session after it has taken its command.
LEMMA DiesServes ==
  ASSUME TypeOK, NEW v, Takes(v), spc' \in Ended,
         toClient' = toClient, sLoggedIn' = sLoggedIn, file' = file
  PROVE  Offered!BreakOff
  <1>1. /\ Phase = "ready" /\ toServer # <<>> /\ toServer' = Tail(toServer)
        /\ open' = open
    BY TakesHead, SMT DEF Takes
  <1>2. Offered!OnlyIn(Target)
    BY SameFiles, SMT
  <1> QED
    BY <1>1, <1>2, BreakServes, SMT

LEMMA HandleUserServes ==
  ASSUME TypeOK, HandleUser PROVE Offered!Answer \/ Offered!BreakOff
  <1>1. CASE Refuse("USER")
    BY <1>1, RefuseServes, SMT
  <1>2. CASE ~Refuse("USER")
    <2>1. /\ Takes("USER") /\ Fit /\ sLoggedIn' = sLoggedIn /\ file' = file
          /\ \/ spc' = "dying" /\ toClient' = toClient
             \/ Say(Reply(530), "cmd")
             \/ Say(Reply(331), "cmd")
      BY <1>2, SMT DEF HandleUser
    <2>2. CASE spc' = "dying" /\ toClient' = toClient
      BY <2>1, <2>2, DiesServes, SMT DEF Ended
    <2>3. /\ {530, 331} \subseteq Code \ {230} /\ "USER" \in NeedsLogin \cup LoginOnly
          /\ {530, 331} \subseteq Offered!FinalCodes("USER")
          /\ "USER" \notin NeedsLogin
      BY SMT DEF Code, LoginOnly, NeedsLogin, Offered!FinalCodes
    <2>4. CASE Say(Reply(530), "cmd")
      BY <2>1, <2>3, <2>4, FitReplyServes, SMT
    <2>5. CASE Say(Reply(331), "cmd")
      BY <2>1, <2>3, <2>5, FitReplyServes, SMT
    <2> QED
      BY <2>1, <2>2, <2>4, <2>5, Zenon
  <1> QED
    BY <1>1, <1>2, Zenon

LEMMA HandlePassServes ==
  ASSUME TypeOK, HandlePass PROVE Offered!Answer \/ Offered!BreakOff
  <1>1. CASE Refuse("PASS")
    BY <1>1, RefuseServes, SMT
  <1>2. CASE ~Refuse("PASS")
    <2>1. /\ Takes("PASS") /\ Fit /\ file' = file
          /\ \/ spc' = "dying" /\ toClient' = toClient /\ sLoggedIn' = sLoggedIn
             \/ Say(Reply(530), "cmd") /\ sLoggedIn' = sLoggedIn
             \/ Say(Reply(230), "cmd") /\ sLoggedIn' = TRUE
      BY <1>2, Zenon DEF HandlePass
    <2>2. CASE spc' = "dying" /\ toClient' = toClient /\ sLoggedIn' = sLoggedIn
      BY <2>1, <2>2, DiesServes, SMT DEF Ended
    <2>3. /\ {530, 230} \subseteq Code /\ "PASS" \in NeedsLogin \cup LoginOnly
          /\ {530, 230} \subseteq Offered!FinalCodes("PASS")
          /\ "PASS" \notin NeedsLogin
      BY SMT DEF Code, LoginOnly, NeedsLogin, Offered!FinalCodes
    <2>4. CASE Say(Reply(530), "cmd") /\ sLoggedIn' = sLoggedIn
      BY <2>1, <2>3, <2>4, FitReplyServes, SMT
    <2>5. CASE Say(Reply(230), "cmd") /\ sLoggedIn' = TRUE
      <3>1. Reply(230) \in Response /\ Reply(230).code = 230
        BY <2>3, ReplyType, ReplyCode, SMT
      <3>2. sLoggedIn' = (sLoggedIn \/ Reply(230).code = 230)
        BY <2>5, <3>1, Zenon
      <3> QED
        BY <2>1, <2>3, <2>5, <3>1, <3>2, FitAnswerServes, SMT
    <2> QED
      BY <2>1, <2>2, <2>4, <2>5, Zenon
  <1> QED
    BY <1>1, <1>2, Zenon

LEMMA HandleQuitServes ==
  ASSUME TypeOK, HandleQuit PROVE Offered!Answer
  <1>1. /\ Takes("QUIT") /\ Say(Reply(221), "dying")
        /\ sLoggedIn' = sLoggedIn /\ file' = file
    BY SMT DEF HandleQuit
  <1>2. 221 \in Code \ {230} /\ Offered!Due("QUIT", 221)
    BY SMT DEF Code, Offered!Due, Offered!FinalCodes, Offered!Open
  <1> QED
    BY <1>1, <1>2, PlainAnswerServes, SMT

LEMMA HandlePortServes ==
  ASSUME TypeOK, HandlePort PROVE Offered!Answer
  <1>1. CASE Refuse("PORT")
    BY <1>1, RefuseServes, SMT
  <1>2. CASE ~Refuse("PORT")
    <2>1. /\ Takes("PORT") /\ Fit /\ sLoggedIn' = sLoggedIn /\ file' = file
          /\ Say(Reply(200), "cmd")
      BY <1>2, SMT DEF HandlePort
    <2>2. /\ 200 \in Code \ {230} /\ 200 \in Offered!FinalCodes("PORT")
          /\ 200 \notin {503, 530}
          /\ "PORT" \in NeedsLogin \cup LoginOnly
      BY SMT DEF Code, Offered!FinalCodes, NeedsLogin
    <2> QED
      BY <2>1, <2>2, FitReplyServes, SMT
  <1> QED
    BY <1>1, <1>2, Zenon

LEMMA HandlePasvServes ==
  ASSUME TypeOK, HandlePasv PROVE Offered!Answer \/ Offered!BreakOff
  <1>1. CASE Refuse("PASV")
    BY <1>1, RefuseServes, SMT
  <1>2. CASE ~Refuse("PASV")
    <2>1. /\ Takes("PASV") /\ Fit /\ sLoggedIn' = sLoggedIn /\ file' = file
          /\ \/ listener["server"] # NoPort /\ Say(PasvReply(listener["server"]), "cmd")
             \/ \E p \in BindPort(0) : Say(PasvReply(p), "cmd")
             \/ spc' = "dying" /\ toClient' = toClient
      BY <1>2, SMT DEF HandlePasv
    <2>2. CASE spc' = "dying" /\ toClient' = toClient
      BY <2>1, <2>2, DiesServes, SMT DEF Ended
    <2>3. CASE \E p \in Port : Say(PasvReply(p), "cmd")
      <3>1. PICK p \in Port : Say(PasvReply(p), "cmd")
        BY <2>3, Zenon
      <3>2. PasvReply(p) \in Response /\ PasvReply(p).code = 227
        BY PasvReplyType, SMT DEF PasvReply
      <3>3. PICK r \in Response : r.code = 227 /\ Say(r, "cmd")
        BY <3>1, <3>2, Zenon
      <3> QED
        <4>1. Takes("PASV") /\ Fit /\ file' = file
          BY <2>1
        <4>2. /\ "PASV" \in NeedsLogin \cup LoginOnly
              /\ r.code \in Offered!FinalCodes("PASV") /\ r.code \notin {503, 530}
          BY <3>3, SMT DEF NeedsLogin, Offered!FinalCodes
        <4>3. sLoggedIn' = (sLoggedIn \/ r.code = 230)
          BY <2>1, <3>3, SMT DEF TypeOK, ServerTypeOK
        <4> QED
          BY <3>3, <4>1, <4>2, <4>3, FitAnswerServes, SMT
    <2>4. listener["server"] # NoPort => listener["server"] \in Port
      BY SMT DEF TypeOK, NetTypeOK, DataTypeOK, Side
    <2>5. BindPort(0) = Port
      BY SMT DEF BindPort, Word
    <2> QED
      BY <2>1, <2>2, <2>3, <2>4, <2>5, Zenon
  <1> QED
    BY <1>1, <1>2, Zenon

LEMMA HandleNoopServes ==
  ASSUME TypeOK, HandleNoop PROVE Offered!Answer
  <1>1. CASE Refuse("NOOP")
    BY <1>1, RefuseServes, SMT
  <1>2. CASE ~Refuse("NOOP")
    <2>1. /\ Takes("NOOP") /\ sLoggedIn' = sLoggedIn /\ file' = file
          /\ Say(Reply(200), "cmd")
      BY <1>2, SMT DEF HandleNoop
    <2>2. 200 \in Code \ {230} /\ Offered!Due("NOOP", 200)
      BY SMT DEF Code, Offered!Due, Offered!FinalCodes, Offered!Open
    <2> QED
      BY <2>1, <2>2, PlainAnswerServes, SMT
  <1> QED
    BY <1>1, <1>2, Zenon

LEMMA HandleNotImplementedServes ==
  ASSUME TypeOK, HandleNotImplemented PROVE Offered!Answer
  <1>1. /\ Takes("OTHER") /\ Say(Reply(502), "cmd")
        /\ sLoggedIn' = sLoggedIn /\ file' = file
    BY SMT DEF HandleNotImplemented
  <1>2. 502 \in Code \ {230} /\ Offered!Due("OTHER", 502)
    BY SMT DEF Code, Offered!Due, Offered!FinalCodes, Offered!Open
  <1> QED
    BY <1>1, <1>2, PlainAnswerServes, SMT

-----------------------------------------------------------------------------
\* Transfers.  A RETR or STOR that opens its file begins one.
LEMMA BeginServes ==
  ASSUME TypeOK, NEW v \in {"RETR", "STOR"}, Takes(v), Fit, StartJob,
         sLoggedIn' = sLoggedIn,
         Offered!OnlyIn(IF v = "STOR" THEN {request.arg} ELSE {})
  PROVE  Offered!BeginTransfer
  <1> DEFINE names == IF v = "STOR" THEN {request.arg} ELSE {}
  <1>1. /\ Phase = "ready" /\ toServer # <<>> /\ toServer' = Tail(toServer)
        /\ Head(toServer).verb = v /\ Head(toServer) = request
        /\ Present' = Present
    BY TakesHead, SMT
  <1>2. sLoggedIn
    BY <1>1, SMT DEF Fit, Complaint, NeedsLogin
  <1>3. Reply(150) \in Response /\ Reply(150).code = 150
    BY ReplyType, ReplyCode, SMT DEF Code
  <1>4. Offered!Emit(150) /\ spc' \in {"link", "dying", "killed"} /\ sjob' = request
    BY <1>3, SayEmits, SMT DEF StartJob, TypeOK, NetTypeOK
  <1>5. Phase' \in {"transfer", "closed"}
    BY <1>4, PhaseNext, SMT DEF Ended
  <1>6. Target' = IF Phase' = "transfer" THEN names ELSE {}
    BY <1>1, <1>4, Zenon DEF Target
  <1>7. names = IF Head(toServer).verb = "STOR" THEN {Head(toServer).arg} ELSE {}
    BY <1>1, Zenon
  <1> HIDE DEF names
  <1>8. Head(toServer).verb \in {"RETR", "STOR"} /\ Offered!OnlyIn(names)
    BY <1>1, Zenon DEF names
  <1> QED
    BY <1>1, <1>2, <1>4, <1>5, <1>6, <1>7, <1>8, Zenon DEF Offered!BeginTransfer

LEMMA FileMissing ==
  ASSUME TypeOK, NEW v \in {"RETR", "STOR"}, Takes(v), Fit,
         Say(Reply(550), "cmd"), sLoggedIn' = sLoggedIn, file' = file
  PROVE  Offered!Answer
  <1>1. /\ 550 \in Code \ {230} /\ 550 \in Offered!FinalCodes(v)
        /\ 550 \notin {503, 530} /\ v \in NeedsLogin \cup LoginOnly
    BY SMT DEF Code, Offered!FinalCodes, NeedsLogin
  <1> QED
    BY <1>1, FitReplyServes, SMT

LEMMA HandleRetrServes ==
  ASSUME TypeOK, HandleRetr PROVE Offered!Answer \/ Offered!BeginTransfer
  <1>1. CASE Refuse("RETR")
    BY <1>1, RefuseServes, SMT
  <1>2. CASE ~Refuse("RETR")
    <2>1. /\ Takes("RETR") /\ Fit /\ sLoggedIn' = sLoggedIn /\ file' = file
          /\ Say(Reply(550), "cmd") \/ StartJob
      BY <1>2, SMT DEF HandleRetr
    <2>2. CASE Say(Reply(550), "cmd")
      BY <2>1, <2>2, FileMissing, SMT
    <2>3. CASE StartJob
      <3>1. Offered!OnlyIn(IF "RETR" = "STOR" THEN {request.arg} ELSE {})
        BY <2>1, SameFiles, SMT
      <3> QED
        BY <2>1, <2>3, <3>1, BeginServes, SMT
    <2> QED
      BY <2>1, <2>2, <2>3, Zenon
  <1> QED
    BY <1>1, <1>2, Zenon

\* A step that writes one file of the server changes no other.
LEMMA OneFileWritten ==
  ASSUME FileTypeOK, NEW n \in Name, NEW b,
         file' = [file EXCEPT !["server"][n] = b]
  PROVE  Offered!OnlyIn({n})
  <1>1. file["server"]' = [file["server"] EXCEPT ![n] = b]
    BY SMT DEF FileTypeOK, Side
  <1>2. file["server"] \in [Name -> Body \cup {Absent}]
    BY SMT DEF FileTypeOK, Side
  <1> QED
    BY <1>1, <1>2, SMT DEF Offered!OnlyIn

LEMMA HandleStorServes ==
  ASSUME TypeOK, HandleStor PROVE Offered!Answer \/ Offered!BeginTransfer
  <1>1. CASE Refuse("STOR")
    BY <1>1, RefuseServes, SMT
  <1>2. CASE ~Refuse("STOR")
    <2>1. /\ Takes("STOR") /\ Fit /\ sLoggedIn' = sLoggedIn
          /\ \/ Say(Reply(550), "cmd") /\ file' = file
             \/ StartJob /\ file' = [file EXCEPT !["server"][request.arg] = EmptyBody]
      BY <1>2, Zenon DEF HandleStor
    <2>2. CASE Say(Reply(550), "cmd") /\ file' = file
      BY <2>1, <2>2, FileMissing, SMT
    <2>3. CASE StartJob /\ file' = [file EXCEPT !["server"][request.arg] = EmptyBody]
      <3>1. request.arg \in Name
        BY <2>1, TakesHead, FitArgument, SMT
      <3>2. Offered!OnlyIn({request.arg})
        BY <2>3, <3>1, OneFileWritten, Zenon DEF TypeOK, NetTypeOK
      <3> QED
        BY <2>1, <2>3, <3>2, BeginServes, SMT
    <2> QED
      BY <2>1, <2>2, <2>3, Zenon
  <1> QED
    BY <1>1, <1>2, Zenon

\* A transfer ends with one more reply.
LEMMA EndServes ==
  ASSUME TypeOK, spc \in {"link", "move"},
         NEW c \in {226, 425}, Say(Reply(c), "cmd"),
         UNCHANGED <<toServer, open, sLoggedIn>>,
         IF c = 226 THEN Offered!OnlyIn(Target) ELSE file' = file
  PROVE  Offered!EndTransfer
  <1>1. Reply(c) \in Response /\ Reply(c).code = c
    BY ReplyType, ReplyCode, SMT DEF Code
  <1>2. Offered!Emit(c) /\ spc' \in {"cmd", "dying", "killed"}
    BY <1>1, SayEmits, SMT DEF TypeOK, NetTypeOK
  <1>3. Phase = "transfer" /\ Phase' \in {"ready", "closed"} /\ Target' = {}
    BY <1>2, PhaseOf, PhaseNext, SMT DEF Ended
  <1>4. Present' = Present
    BY SMT DEF Present
  <1>5. \/ Offered!Emit(226) /\ Offered!OnlyIn(Target)
        \/ Offered!Emit(425) /\ file["server"]' = file["server"]
    BY <1>2, SMT
  <1> QED
    BY <1>3, <1>4, <1>5, Zenon DEF Offered!EndTransfer

\* A transfer breaks off.
LEMMA TransferBreaks ==
  ASSUME TypeOK, spc \in {"link", "move"}, spc' \in Ended,
         UNCHANGED <<toServer, toClient, open, sLoggedIn>>,
         Offered!OnlyIn(Target)
  PROVE  Offered!BreakOff
  <1>1. Phase # "closed"
    BY PhaseOf, SMT
  <1> QED
    BY <1>1, BreakServes, SMT

LEMMA ServerFailsDataServes ==
  ASSUME TypeOK, ServerFailsData PROVE Offered!EndTransfer
  <1>1. /\ spc = "link" /\ Say(Reply(425), "cmd")
        /\ UNCHANGED <<toServer, open, sLoggedIn>> /\ file' = file
    BY SMT DEF ServerFailsData
  <1> QED
    BY <1>1, EndServes, SMT

LEMMA ServerSendsServes ==
  ASSUME TypeOK, ServerSends PROVE Offered!EndTransfer \/ Offered!BreakOff
  <1>1. /\ spc = "move" /\ UNCHANGED <<toServer, open, sLoggedIn>> /\ file' = file
        /\ \/ Say(Reply(226), "cmd")
           \/ spc' \in {"dying", "killed"} /\ toClient' = toClient
    BY SMT DEF ServerSends
  <1>2. Offered!OnlyIn(Target)
    BY <1>1, SameFiles, SMT
  <1>3. CASE Say(Reply(226), "cmd")
    BY <1>1, <1>2, <1>3, EndServes, SMT
  <1>4. CASE spc' \in {"dying", "killed"} /\ toClient' = toClient
    BY <1>1, <1>2, <1>4, TransferBreaks, SMT DEF Ended
  <1> QED
    BY <1>1, <1>3, <1>4, Zenon

LEMMA StoringTarget ==
  ASSUME TypeOK, spc \in {"link", "move"}, sjob.verb = "STOR"
  PROVE  Target = {sjob.arg} /\ sjob.arg \in Name
  <1>1. Phase = "transfer"
    BY PhaseOf, SMT
  <1> QED
    BY <1>1, SMT DEF Target, TypeOK, ServerTypeOK

LEMMA ServerReceivesServes ==
  ASSUME TypeOK, ServerReceives PROVE Offered!EndTransfer \/ Offered!BreakOff
  <1>1. /\ spc = "move" /\ sjob.verb = "STOR"
        /\ UNCHANGED <<toServer, open, sLoggedIn>>
        /\ \/ Say(Reply(226), "cmd")
           \/ spc' = "dying" /\ toClient' = toClient
        /\ \E b : file' = [file EXCEPT !["server"][sjob.arg] = b]
    BY Zenon DEF ServerReceives
  <1>2. Target = {sjob.arg} /\ sjob.arg \in Name
    BY <1>1, StoringTarget, SMT
  <1>3. Offered!OnlyIn(Target)
    BY <1>1, <1>2, OneFileWritten, Zenon DEF TypeOK, NetTypeOK
  <1>4. CASE Say(Reply(226), "cmd")
    BY <1>1, <1>3, <1>4, EndServes, SMT
  <1>5. CASE spc' = "dying" /\ toClient' = toClient
    BY <1>1, <1>3, <1>5, TransferBreaks, SMT DEF Ended
  <1> QED
    BY <1>1, <1>4, <1>5, Zenon

LEMMA ServerLosesClientServes ==
  ASSUME TypeOK, ServerLosesClient PROVE Offered!BreakOff
  <1>1. /\ spc = "cmd" /\ spc' = "dying" /\ file' = file
        /\ UNCHANGED <<toServer, toClient, open, sLoggedIn>>
    BY SMT DEF ServerLosesClient, ctlVars
  <1>2. Phase # "closed" /\ Offered!OnlyIn(Target)
    BY <1>1, PhaseOf, SameFiles, SMT
  <1> QED
    BY <1>1, <1>2, BreakServes, SMT DEF Ended

LEMMA ServerInterruptedServes ==
  ASSUME TypeOK, ServerInterrupted PROVE Offered!BreakOff
  <1>1. /\ spc \notin Ended /\ spc' = "dying"
        /\ UNCHANGED <<toServer, toClient, open, sLoggedIn>>
        /\ \/ file' = file
           \/ /\ spc = "move" /\ sjob.verb = "STOR"
              /\ file' = [file EXCEPT !["server"][sjob.arg] = Damaged]
    BY SMT DEF ServerInterrupted, ctlVars
  <1>2. Phase # "closed"
    BY <1>1, PhaseOf, SMT DEF TypeOK, ServerTypeOK, ServerPc, Ended
  <1>3. Offered!OnlyIn(Target)
    <2>1. CASE file' = file
      BY <2>1, SameFiles, SMT
    <2>2. CASE /\ spc = "move" /\ sjob.verb = "STOR"
               /\ file' = [file EXCEPT !["server"][sjob.arg] = Damaged]
      <3>1. Target = {sjob.arg} /\ sjob.arg \in Name
        BY <2>2, StoringTarget, SMT
      <3> QED
        BY <2>2, <3>1, OneFileWritten, Zenon DEF TypeOK, NetTypeOK
    <2> QED
      BY <1>1, <2>1, <2>2, Zenon
  <1> QED
    BY <1>1, <1>2, <1>3, BreakServes, SMT DEF Ended

-----------------------------------------------------------------------------
\* Steps the service does not see.
LEMMA Unseen ==
  ASSUME UNCHANGED <<toServer, toClient, sLoggedIn, file>>,
         Present' = Present, Phase' = Phase, Target' = Target
  PROVE  UNCHANGED Offered!svars
  BY Zenon DEF Offered!svars

LEMMA SameSession ==
  ASSUME UNCHANGED serverVars PROVE Phase' = Phase /\ Target' = Target
  <1>1. Phase' = Phase
    BY SMT DEF serverVars, Phase
  <1> QED
    BY <1>1, SMT DEF serverVars, Target

LEMMA ServerOpensDataServes ==
  ASSUME TypeOK, ServerOpensData PROVE UNCHANGED Offered!svars
  <1>1. /\ spc = "link" /\ spc' = "move"
        /\ UNCHANGED <<toServer, toClient, open, sLoggedIn, sjob, file>>
    BY SMT DEF ServerOpensData, ctlVars
  <1>2. Phase' = Phase
    BY <1>1, PhaseOf, PhaseNext, SMT
  <1>3. Target' = Target /\ Present' = Present
    BY <1>1, <1>2, SMT DEF Target, Present
  <1> QED
    BY <1>1, <1>2, <1>3, Unseen, Zenon

LEMMA ServerExitsServes ==
  ASSUME TypeOK, ServerExits PROVE UNCHANGED Offered!svars
  <1>1. /\ spc \in Ended /\ spc' \in Ended
        /\ UNCHANGED <<toServer, toClient, sLoggedIn, file>>
        /\ open' = open \ {"server"}
    BY SMT DEF ServerExits, Vanish, Ended
  <1>2. Phase' = Phase /\ Target' = Target
    BY <1>1, PhaseOf, PhaseNext, SMT DEF Ended
  <1>3. Present' = Present
    BY <1>1, SMT DEF Present
  <1> QED
    BY <1>1, <1>2, <1>3, Unseen, Zenon

LEMMA ClientStepServes ==
  ASSUME TypeOK, UNCHANGED serverVars,
         \/ Sends \/ Reads \/ Listens \/ StopsListening \/ OpensData
         \/ Ships \/ HangsUp \/ Leaves
  PROVE  Offered!SNext \/ UNCHANGED Offered!svars
  <1>1. Phase' = Phase /\ Target' = Target /\ sLoggedIn' = sLoggedIn
    BY SameSession, SMT DEF serverVars
  <1>2. CASE Sends
    <2>1. /\ Present /\ Present' = Present /\ toClient' = toClient
          /\ file["server"]' = file["server"]
      BY <1>2, SMT DEF Sends, Present
    <2>2. PICK c \in Command : toServer' = Append(toServer, c)
      BY <1>2, ScriptAssumption, SMT DEF Sends
    <2>3. toServer' # <<>> /\ toServer'[Len(toServer')] = c
      BY <2>2, AppendProperties, SMT DEF TypeOK, NetTypeOK, ControlTypeOK
    <2>4. Offered!Grows(toServer, toServer')
      BY <2>2, <2>3, Zenon DEF Offered!Grows
    <2> QED
      BY <1>1, <2>1, <2>4, Zenon DEF Offered!SNext, Offered!Ask
  <1>3. CASE Reads
    <2>1. /\ Present' = Present /\ toServer' = toServer
          /\ file["server"]' = file["server"]
          /\ toClient # <<>> /\ toClient' = Tail(toClient)
      BY <1>3, SMT DEF Reads, Present
    <2> QED
      BY <1>1, <2>1, Zenon DEF Offered!SNext, Offered!Listen
  <1>4. CASE Leaves
    <2>1. /\ Present /\ Present' = FALSE
          /\ UNCHANGED <<toServer, toClient, file>>
      BY <1>4, SMT DEF Leaves, Vanish, Present
    <2>2. file["server"]' = file["server"] /\ toServer' = toServer /\ toClient' = toClient
      BY <2>1, SMT
    <2> QED
      BY <1>1, <2>1, <2>2, Zenon DEF Offered!SNext, Offered!Leave
  <1>5. CASE Listens \/ StopsListening \/ OpensData \/ Ships \/ HangsUp
    <2>1. UNCHANGED <<toServer, toClient, open, file>>
      BY <1>5, SMT DEF Listens, StopsListening, OpensData, Ships, HangsUp, ctlVars
    <2>2. Present' = Present
      BY <2>1, SMT DEF Present
    <2> QED
      BY <1>1, <2>1, <2>2, Unseen, Zenon
  <1> QED
    BY <1>2, <1>3, <1>4, <1>5, Zenon

LEMMA HandleCommandServes ==
  ASSUME TypeOK, HandleCommand PROVE Offered!SNext
  <1>1. Offered!Answer \/ Offered!BeginTransfer \/ Offered!BreakOff
    <2>1. CASE HandleType \/ HandleUser \/ HandlePass \/ HandleQuit
      BY <2>1, HandleTypeServes, HandleUserServes, HandlePassServes,
         HandleQuitServes, Zenon
    <2>2. CASE \E v \in {"MODE", "STRU"} : HandleModeOrStru(v)
      BY <2>2, HandleModeOrStruServes, Zenon
    <2>3. CASE HandlePort \/ HandlePasv \/ HandleNoop \/ HandleNotImplemented
      BY <2>3, HandlePortServes, HandlePasvServes, HandleNoopServes,
         HandleNotImplementedServes, Zenon
    <2>4. CASE HandleRetr \/ HandleStor
      BY <2>4, HandleRetrServes, HandleStorServes, Zenon
    <2> QED
      BY <2>1, <2>2, <2>3, <2>4, Zenon DEF HandleCommand
  <1> QED
    BY <1>1, Zenon DEF Offered!SNext

LEMMA ServerServes ==
  ASSUME TypeOK, ServerStep \/ ServerFailsData \/ ServerInterrupted
  PROVE  Offered!SNext \/ UNCHANGED Offered!svars
  <1>1. CASE Greet
    BY <1>1, GreetServes, Zenon DEF Offered!SNext
  <1>2. CASE HandleCommand
    BY <1>2, HandleCommandServes, Zenon
  <1>3. CASE ServerOpensData \/ ServerExits
    BY <1>3, ServerOpensDataServes, ServerExitsServes, Zenon
  <1>4. CASE ServerSends \/ ServerReceives \/ ServerFailsData
    BY <1>4, ServerSendsServes, ServerReceivesServes, ServerFailsDataServes,
       Zenon DEF Offered!SNext
  <1>5. CASE ServerLosesClient \/ ServerInterrupted
    BY <1>5, ServerLosesClientServes, ServerInterruptedServes,
       Zenon DEF Offered!SNext
  <1> QED
    BY <1>1, <1>2, <1>3, <1>4, <1>5, Zenon DEF ServerStep

LEMMA StepServes == TypeOK /\ [Next]_vars => [Offered!SNext]_(Offered!svars)
  <1> SUFFICES ASSUME TypeOK, [Next]_vars
               PROVE  Offered!SNext \/ UNCHANGED Offered!svars
    OBVIOUS
  <1>1. CASE UNCHANGED vars
    <2>1. /\ UNCHANGED <<toServer, toClient, open, file, sLoggedIn>>
          /\ UNCHANGED serverVars
      BY <1>1, SMT DEF vars, netVars, serverVars
    <2>2. Present' = Present
      BY <2>1, SMT DEF Present
    <2> QED
      BY <2>1, <2>2, SameSession, Unseen, Zenon
  <1>2. CASE ServerStep \/ ServerFailsData \/ ServerInterrupted
    BY <1>2, ServerServes, Zenon
  <1>3. CASE /\ \/ Sends \/ Reads \/ Listens \/ StopsListening \/ OpensData
                \/ Ships \/ HangsUp \/ Leaves
             /\ UNCHANGED serverVars
    BY <1>3, ClientStepServes, Zenon
  <1> QED
    BY <1>1, <1>2, <1>3, Zenon DEF Next

(***************************************************************************)
(* The service.  Whatever commands a client sends, in whatever order and   *)
(* however fast, and whatever fails, ServerProtocolInterpreter (whose run  *)
(* drops a line of blanks, which is none of them) gives the service        *)
(* of FtpService: one final reply per command and in order, no effect      *)
(* without login, and no file touched but the one being stored.            *)
(***************************************************************************)
THEOREM AnyClientServes == Spec => Serves
  <1>1. Init => Offered!SInit
    BY InitServes
  <1>2. TypeOK /\ [Next]_vars => [Offered!SNext]_(Offered!svars)
    BY StepServes
  <1> QED
    BY <1>1, <1>2, AnyClientTyped, PTL DEF Spec, Serves, Offered!Service
=============================================================================
