--------------------------- MODULE LockstepProofs ---------------------------
(***************************************************************************)
(* Commands and replies stay in step, and 226 means equal files: for any   *)
(* number of files, ports and connections, as long as nobody is slow and   *)
(* the user is careful.  Lock, the first invariant, says which messages    *)
(* are on their way at each wait of the client, who listens, and what the  *)
(* listeners have queued; AckInv, the second one, says which connection    *)
(* the two ends of a transfer have, and what is on it.                     *)
(***************************************************************************)
EXTENDS FtpSessionProofs

(***************************************************************************)
(* The scenarios the theorems are about.  A slow peer makes an accept give *)
(* up, USER at the prompt leaves its reply unread, and a careless user     *)
(* leaves connections behind; every other failure is allowed.              *)
(***************************************************************************)
Orderly ==
  /\ "slow" \notin Faults
  /\ Careful
  /\ "USER" \notin Prompt
  /\ Malformed \notin Name
  /\ ConnId # {} /\ Backlog > 0

-----------------------------------------------------------------------------
\* What is on its way on the control connection.
Asked == Len(toServer) = 1 /\ toClient = <<>> /\ spc = "cmd"
Answers(n) == toServer = <<>> /\ Len(toClient) = n
Quiet == Answers(0) /\ spc = "cmd"
Answered == Answers(1) /\ spc = "cmd"

AskedFor(v) == Asked /\ request.verb = v
AskedJob == Asked /\ request = cjob

\* The server carries a transfer out, or has done so; n replies came before.
Carries(n) ==
  \/ Answers(n) /\ spc \in {"link", "move"}
  \/ Answers(n + 1) /\ spc = "cmd"

Refused == Answered /\ reply.code # 150
Announced == Carries(1) /\ reply.code = 150

\* The client listens and the server knows where; and the other way round.
Active ==
  /\ listener["client"] # NoPort /\ listener["server"] = NoPort
  /\ addr["server"] = listener["client"]
Passive ==
  /\ listener["server"] # NoPort /\ listener["client"] = NoPort
  /\ addr["client"] = listener["server"]

Talk ==
  /\ cpc = "greet" => (Answers(0) /\ spc = "greet") \/ Answered
  /\ cpc \in AtUser => Quiet
  /\ cpc = "userReply" => AskedFor("USER") \/ Answered
  /\ cpc = "passReply" => AskedFor("PASS") \/ Answered
  /\ cpc = "bye" => AskedFor("QUIT")
  /\ cpc = "reply" /\ ~Fetching(cjob) => AskedJob \/ Answered
  /\ cpc = "reply" /\ Fetching(cjob) =>
       \/ AskedJob
       \/ Refused /\ Active
       \/ Announced
  /\ cpc = "dial" => AskedJob \/ (Announced /\ spc = "link")
  /\ cpc \in {"link", "open", "recv", "done"} => Carries(0)

Switching == cpc = "reply" /\ cjob.verb \in {"PORT", "PASV"}

Modes ==
  /\ cLoggedIn /\ ~Switching => Active \/ Passive
  /\ cpc = "reply" /\ cjob.verb = "PORT" =>
       /\ cjob.arg = Plain
       /\ listener["client"] # NoPort /\ JoinPort(cjob.port) = listener["client"]
       /\ toServer = <<>> => Active
  /\ cpc = "reply" /\ cjob.verb = "PASV" =>
       /\ cjob.arg = Plain
       /\ toServer = <<>> =>
            /\ listener["server"] # NoPort
            /\ reply.code = 227 /\ JoinPort(reply.port) = listener["server"]

SameType ==
  IF cpc = "reply" /\ cjob.verb = "TYPE" /\ toServer = <<>>
  THEN sType = cjob.arg /\ reply.code = 200
  ELSE sType = cType

\* The client has connected to the server's listener, or waits at its own.
Dialled == Passive /\ Fetching(cjob) /\ cpc \in {"reply", "open", "recv", "done"}
Expects == Active /\ Fetching(cjob) /\ ((cpc = "reply" /\ Announced) \/ cpc = "link")

\* A queue holds what has connected and has not been accepted.
Queues ==
  /\ IF Dialled /\ (toServer # <<>> \/ spc = "link")
     THEN Len(backlog["server"]) = 1 ELSE backlog["server"] = <<>>
  /\ IF Expects /\ spc # "link"
     THEN Len(backlog["client"]) = 1 ELSE backlog["client"] = <<>>
  /\ cpc = "link" => Active
  /\ cpc = "done" => Fetching(cjob)
  /\ spc = "link" /\ Active => cpc \in {"reply", "link"}

\* What the user was careful about, and, in passive mode, the server finds.
NotInVain ==
  /\ cpc \in {"reply", "dial", "link", "open"} =>
       /\ cjob.verb = "RETR" => cjob.arg \notin ReadOnly["client"]
       /\ cjob.verb = "STOR" => file["client"][cjob.arg] # Absent
  /\ Passive /\ cpc \in {"reply", "dial"} /\ toServer # <<>> =>
       /\ cjob.verb = "RETR" => file["server"][cjob.arg] # Absent
       /\ cjob.verb = "STOR" => cjob.arg \notin ReadOnly["server"]

Lock == Side \subseteq open /\ Talk /\ Modes /\ SameType /\ Queues /\ NotInVain

Sound == Orderly /\ TypeOK /\ LoginInv /\ HeldInv /\ Alive /\ Lock

-----------------------------------------------------------------------------
(***************************************************************************)
(* Messages.                                                               *)
(***************************************************************************)
LEMMA SoundTalk ==
  ASSUME Sound
  PROVE  /\ toServer \in Seq(Command) /\ toClient \in Seq(Response)
         /\ "client" \in open /\ "server" \in open
         /\ cpc \in ClientPc \ Over /\ spc \in ServerPc \ Ended
         /\ cjob \in Command
  BY SMT
  DEF Sound, TypeOK, NetTypeOK, ControlTypeOK, ClientTypeOK, ServerTypeOK,
      Alive, Lock, Side

LEMMA MessageCount ==
  ASSUME NEW S, NEW q \in Seq(S)
  PROVE  /\ Len(q) \in Nat
         /\ q = <<>> <=> Len(q) = 0
         /\ q # <<>> => Tail(q) \in Seq(S) /\ Len(Tail(q)) = Len(q) - 1
  BY HeadTailProperties, EmptySeq, LenProperties, SMT

LEMMA FirstMessage ==
  ASSUME NEW S, NEW m \in S
  PROVE  Len(Append(<<>>, m)) = 1 /\ Head(Append(<<>>, m)) = m
  <1>1. <<>> \in Seq(S)
    BY EmptySeq, Zenon
  <1> QED
    BY <1>1, EmptySeq, AppendProperties, SMT

LEMMA LastMessage ==
  ASSUME NEW S, NEW q \in Seq(S), Len(q) = 1
  PROVE  q # <<>> /\ Tail(q) = <<>>
  <1>1. q # <<>>
    <2>1. q = <<>> <=> Len(q) = 0
      BY MessageCount, Zenon
    <2> QED
      BY <2>1, SMT
  <1>2. Tail(q) \in Seq(S) /\ Len(Tail(q)) = 0
    <2>1. Tail(q) \in Seq(S) /\ Len(Tail(q)) = Len(q) - 1
      BY <1>1, MessageCount, Zenon
    <2> QED
      BY <2>1, SMT
  <1> QED
    BY <1>1, <1>2, MessageCount, Zenon

LEMMA SecondMessage ==
  ASSUME NEW S, NEW q \in Seq(S), Len(q) = 1, NEW m \in S
  PROVE  Len(Append(q, m)) = 2 /\ Head(Append(q, m)) = Head(q)
  <1>1. q # <<>>
    BY LastMessage, Zenon
  <1>2. Len(Append(q, m)) = Len(q) + 1
    BY AppendProperties, Zenon
  <1> QED
    BY <1>1, <1>2, HeadTailAppend, SMT

\* A command the server takes is the one the client waits for the answer to.
LEMMA TakesAsked ==
  ASSUME Sound, NEW v, Takes(v)
  PROVE  /\ Asked /\ toServer' = <<>>
         /\ \/ cpc = "userReply" /\ v = "USER"
            \/ cpc = "passReply" /\ v = "PASS"
            \/ cpc = "bye" /\ v = "QUIT"
            \/ cpc \in {"reply", "dial"} /\ request = cjob /\ cjob.verb = v
  <1>1. toServer # <<>> /\ request.verb = v /\ toServer' = Tail(toServer)
    BY Zenon DEF Takes, request
  <1>2. Talk /\ cpc \in ClientPc \ Over
    BY SoundTalk, Zenon DEF Sound, Lock
  <1>3. \A n \in {0, 1, 2} : ~Answers(n)
    BY <1>1, Zenon DEF Answers
  <1>4. ~Quiet /\ ~Answered /\ ~Refused /\ ~Announced /\ ~Carries(0)
    BY <1>3, SMT DEF Quiet, Answered, Refused, Announced, Carries
  <1>5. \/ cpc = "userReply" /\ AskedFor("USER")
        \/ cpc = "passReply" /\ AskedFor("PASS")
        \/ cpc = "bye" /\ AskedFor("QUIT")
        \/ cpc \in {"reply", "dial"} /\ AskedJob
    BY <1>2, <1>3, <1>4, SMT
    DEF Talk, ClientPc, Listening, Transferring, Over
  <1>6. Asked
    BY <1>5, Zenon DEF AskedFor, AskedJob
  <1>7. toServer' = <<>>
    BY <1>1, <1>6, SoundTalk, LastMessage, Zenon DEF Asked
  <1> QED
    BY <1>1, <1>5, <1>6, <1>7, SMT DEF AskedFor, AskedJob

LEMMA SaysFirst ==
  ASSUME Sound, toClient = <<>>, NEW r \in Response, NEW pc, Say(r, pc)
  PROVE  Len(toClient') = 1 /\ reply' = r /\ spc' = pc
  <1>1. toClient' = Append(<<>>, r) /\ spc' = pc
    BY SoundTalk, Zenon DEF Say
  <1> QED
    BY <1>1, FirstMessage, Zenon DEF reply

-----------------------------------------------------------------------------
(***************************************************************************)
(* The server's handlers, apart from those that move files.                *)
(***************************************************************************)
SameData == UNCHANGED <<open, listener, addr, backlog, file>>

LEMMA AnsweredKeeps ==
  ASSUME Sound, Answered', SameData, sType' = sType, UNCHANGED clientVars,
         \/ cpc \in {"greet", "userReply", "passReply"}
         \/ /\ cpc = "reply" /\ ~Fetching(cjob)
            /\ cjob.verb \notin {"TYPE", "PORT", "PASV"}
  PROVE  Lock'
  <1>1. /\ cpc' = cpc /\ cjob' = cjob /\ cType' = cType /\ cLoggedIn' = cLoggedIn
        /\ open' = open /\ listener' = listener /\ addr' = addr
        /\ backlog' = backlog /\ file' = file
    BY Zenon DEF clientVars, SameData
  <1>2. (Active' <=> Active) /\ (Passive' <=> Passive)
    BY <1>1, Zenon DEF Active, Passive
  <1>3. Fetching(cjob)' <=> Fetching(cjob)
    BY <1>1, Zenon DEF Fetching
  <1>4. Talk'
    BY <1>1, <1>3, SMT DEF Talk, AtUser
  <1>5. Modes'
    BY <1>1, <1>2, SMT DEF Sound, Lock, Modes, Switching
  <1>6. SameType'
    BY <1>1, SMT DEF Sound, Lock, SameType
  <1>7. Queues'
    BY <1>1, <1>2, <1>3, SMT
    DEF Sound, Lock, Queues, Dialled, Expects, Answered, Fetching
  <1>8. NotInVain'
    BY <1>1, SMT DEF Sound, Lock, NotInVain, Answered, Answers
  <1> QED
    BY <1>1, <1>4, <1>5, <1>6, <1>7, <1>8, Zenon DEF Sound, Lock

\* A handler that answers once and changes nothing the client relies on.
LEMMA PlainAnswerKeeps ==
  ASSUME Sound, NEW v \in {"USER", "PASS", "MODE", "STRU", "NOOP", "OTHER"},
         Takes(v), NEW r \in Response, Say(r, "cmd"),
         sType' = sType, UNCHANGED <<listener, addr, backlog, file>>,
         UNCHANGED clientVars
  PROVE  Lock'
  <1>1. /\ Asked /\ toServer' = <<>>
        /\ \/ cpc \in {"userReply", "passReply"}
           \/ v = "QUIT"
           \/ cpc \in {"reply", "dial"} /\ cjob.verb = v
    BY TakesAsked, SMT
  <1>2. Answered'
    BY <1>1, SaysFirst, Zenon DEF Asked, Answered, Answers
  <1>3. cpc = "dial" => Fetching(cjob)
    BY SMT DEF Sound, TypeOK, ClientTypeOK, Transferring
  <1>4. \/ cpc \in {"userReply", "passReply"}
        \/ /\ cpc = "reply" /\ ~Fetching(cjob)
           /\ cjob.verb \notin {"TYPE", "PORT", "PASV"}
    BY <1>1, <1>3, SMT DEF Fetching
  <1>5. SameData
    BY Zenon DEF SameData, Takes
  <1> QED
    BY <1>2, <1>4, <1>5, AnsweredKeeps, SMT

LEMMA SimpleHandlersKeep ==
  ASSUME Sound, Alive', UNCHANGED clientVars,
         \/ HandleUser \/ HandlePass \/ HandleNoop \/ HandleNotImplemented
         \/ \E v \in {"MODE", "STRU"} : HandleModeOrStru(v)
  PROVE  Lock'
  <1>1. PICK v \in {"USER", "PASS", "MODE", "STRU", "NOOP", "OTHER"} :
          Takes(v) /\ (HandleUser \/ HandlePass \/ HandleNoop
                         \/ HandleNotImplemented \/ HandleModeOrStru(v))
    BY Zenon
    DEF HandleUser, HandlePass, HandleNoop, HandleNotImplemented,
        HandleModeOrStru, Refuse
  <1>2. spc' # "dying"
    BY Zenon DEF Alive, Ended
  <1>3. Complaint(request) = 0 \/ Complaint(request) \in Code
    BY SMT DEF Complaint, Code
  <1>4. \E c \in Code : Say(Reply(c), "cmd")
    <2>1. {200, 230, 331, 502, 503, 504, 530} \subseteq Code
      BY SMT DEF Code
    <2>2. ASSUME NEW w, Refuse(w) PROVE \E c \in Code : Say(Reply(c), "cmd")
      BY <1>3, <2>2, Zenon DEF Refuse, Fit
    <2> QED
      BY <1>1, <1>2, <2>1, <2>2, SMT
      DEF HandleUser, HandlePass, HandleNoop, HandleNotImplemented,
          HandleModeOrStru
  <1>5. /\ sType' = sType
        /\ UNCHANGED <<listener, addr, backlog, file>>
    BY <1>1, Zenon
    DEF HandleUser, HandlePass, HandleNoop, HandleNotImplemented,
        HandleModeOrStru, Refuse, dataVars
  <1> QED
    BY <1>1, <1>4, <1>5, ReplyType, PlainAnswerKeeps, Zenon

LEMMA GreetKeeps ==
  ASSUME Sound, Greet, UNCHANGED clientVars PROVE Lock'
  <1>1. /\ spc = "greet" /\ Say(Reply(220), "cmd") /\ toServer' = toServer
        /\ sType' = sType /\ SameData
    BY Zenon DEF Greet, SameData, dataVars
  <1>2. cpc = "greet" /\ toServer = <<>> /\ toClient = <<>>
    BY <1>1, SoundTalk, MessageCount, SMT
    DEF Sound, Lock, Talk, Answers, Answered, Quiet, Asked, AskedFor, AskedJob,
        Refused, Announced, Carries, ClientPc, Listening, Transferring, Over
  <1>3. Reply(220) \in Response
    BY ReplyType, SMT DEF Code
  <1>4. Answered'
    BY <1>1, <1>2, <1>3, SaysFirst, Zenon DEF Answered, Answers
  <1> QED
    BY <1>1, <1>2, <1>4, AnsweredKeeps, Zenon

\* A handler that insists on a login finds it, and a command well formed.
LEMMA AskedIsFit ==
  ASSUME Sound, NEW v \in {"TYPE", "PORT", "PASV", "RETR", "STOR"}, Takes(v)
  PROVE  /\ Fit /\ ~Refuse(v)
         /\ cpc \in {"reply", "dial"} /\ request = cjob /\ cjob.verb = v
         /\ cpc = "dial" => Fetching(cjob)
  <1>1. /\ Asked /\ cpc \in {"reply", "dial"}
        /\ request = cjob /\ cjob.verb = v
    BY TakesAsked, SMT
  <1>2. cpc = "dial" => Fetching(cjob)
    BY SMT DEF Sound, TypeOK, ClientTypeOK, Transferring
  <1>3. cjob.arg # Malformed
    <2>1. CASE v \in {"RETR", "STOR"}
      BY <1>1, <2>1, SMT
      DEF Sound, Orderly, TypeOK, ClientTypeOK, Transferring, Fetching
    <2>2. CASE v = "TYPE"
      BY <1>1, <1>2, <2>2, SMT
      DEF Sound, TypeOK, ClientTypeOK, Fetching, Type, Malformed
    <2>3. CASE v \in {"PORT", "PASV"}
      BY <1>1, <1>2, <2>3, SMT DEF Sound, Lock, Modes, Fetching, Plain, Malformed
    <2> QED
      BY <2>1, <2>2, <2>3
  <1>4. sLoggedIn
    <2>1. 1 \in DOMAIN toServer /\ request = toServer[1]
      BY <1>1, SoundTalk, LenProperties, SMT DEF Asked, request
    <2> QED
      BY <1>1, <2>1, SMT DEF Sound, LoginInv, LoginAgrees, LoginOnly
  <1>5. Complaint(request) = 0
    BY <1>1, <1>3, <1>4, SMT DEF Complaint, LoginOnly
  <1> QED
    BY <1>1, <1>2, <1>5, Zenon DEF Fit, Refuse

\* The one answer to a command that was waited for.
LEMMA AnswersAsked ==
  ASSUME Sound, NEW v \in {"TYPE", "PORT", "PASV", "RETR", "STOR"}, Takes(v),
         NEW r \in Response, NEW pc, Say(r, pc)
  PROVE  Answers(1)' /\ toServer' = <<>> /\ reply' = r /\ spc' = pc
  BY TakesAsked, SaysFirst, Zenon DEF Asked, Answers

LEMMA HandleTypeKeeps ==
  ASSUME Sound, HandleType, UNCHANGED clientVars PROVE Lock'
  <1>1. Takes("TYPE")
    BY Zenon DEF HandleType, Refuse
  <1>2. /\ ~Refuse("TYPE") /\ request = cjob
        /\ cpc = "reply" /\ cjob.verb = "TYPE"
    BY <1>1, AskedIsFit, SMT DEF Fetching
  <1>3. cjob.arg \in Type /\ cjob.arg # Unsupported
    BY <1>2, SMT DEF Sound, TypeOK, ClientTypeOK, Type, Unsupported
  <1>4. sType' = cjob.arg /\ Say(Reply(200), "cmd") /\ SameData
    BY <1>1, <1>2, <1>3, Zenon DEF HandleType, SameData, Takes, dataVars
  <1>5. Reply(200) \in Response /\ Reply(200).code = 200
    BY ReplyCode, SMT DEF Code
  <1>6. Answered' /\ reply'.code = 200 /\ toServer' = <<>>
    <2>1. PICK r \in Response : r.code = 200 /\ Say(r, "cmd")
      BY <1>4, <1>5
    <2>2. Answers(1)' /\ toServer' = <<>> /\ reply' = r /\ spc' = "cmd"
      BY <1>1, <2>1, AnswersAsked, SMT
    <2> QED
      BY <2>1, <2>2, Zenon DEF Answered
  <1>7. /\ cpc' = cpc /\ cjob' = cjob /\ cType' = cType /\ cLoggedIn' = cLoggedIn
        /\ open' = open /\ listener' = listener /\ addr' = addr
        /\ backlog' = backlog /\ file' = file
    BY <1>4, Zenon DEF clientVars, SameData
  <1>8. (Active' <=> Active) /\ (Passive' <=> Passive)
    BY <1>7, Zenon DEF Active, Passive
  <1>9. ~Fetching(cjob) /\ ~Fetching(cjob)'
    BY <1>2, <1>7, SMT DEF Fetching
  <1>10. Talk'
    BY <1>2, <1>6, <1>7, <1>9, SMT DEF Talk, AtUser
  <1>11. Modes'
    BY <1>2, <1>7, <1>8, SMT DEF Sound, Lock, Modes, Switching
  <1>12. SameType'
    BY <1>2, <1>4, <1>6, <1>7, SMT DEF SameType
  <1>13. Queues'
    BY <1>2, <1>6, <1>7, <1>8, <1>9, SMT
    DEF Sound, Lock, Queues, Dialled, Expects, Answered
  <1>14. NotInVain'
    BY <1>2, <1>6, <1>7, SMT DEF NotInVain
  <1> QED
    BY <1>7, <1>10, <1>11, <1>12, <1>13, <1>14, Zenon DEF Sound, Lock

\* After PORT and PASV: the queues are empty, and the rest follows from Modes.
LEMMA SwitchKeeps ==
  ASSUME Sound, cpc = "reply", cjob.verb \in {"PORT", "PASV"}, Answered',
         open' = open, sType' = sType, UNCHANGED clientVars,
         \A s \in Side : backlog'[s] = <<>>, Modes'
  PROVE  Lock'
  <1>1. /\ cpc' = "reply" /\ cjob' = cjob /\ cType' = cType
        /\ ~Fetching(cjob) /\ ~Fetching(cjob)'
    BY SMT DEF clientVars, Fetching
  <1>2. Talk'
    BY <1>1, SMT DEF Talk, AtUser
  <1>3. SameType'
    BY <1>1, SMT DEF Sound, Lock, SameType
  <1>4. Queues'
    BY <1>1, SMT DEF Queues, Dialled, Expects, Answered, Side
  <1>5. NotInVain'
    BY <1>1, SMT DEF NotInVain, Answered, Answers
  <1> QED
    BY <1>2, <1>3, <1>4, <1>5, Zenon DEF Sound, Lock

LEMMA HandlePortKeeps ==
  ASSUME Sound, HandlePort, UNCHANGED clientVars PROVE Lock'
  <1>1. Takes("PORT")
    BY Zenon DEF HandlePort, Refuse
  <1>2. /\ ~Refuse("PORT") /\ request = cjob
        /\ cpc = "reply" /\ cjob.verb = "PORT"
    BY <1>1, AskedIsFit, SMT DEF Fetching
  <1>3. /\ Say(Reply(200), "cmd") /\ sType' = sType /\ open' = open
        /\ StopListening("server")
        /\ addr' = [addr EXCEPT !["server"] = JoinPort(cjob.port)]
    BY <1>1, <1>2, Zenon DEF HandlePort, Takes
  <1>4. Reply(200) \in Response
    BY ReplyType, SMT DEF Code
  <1>5. Answered'
    BY <1>1, <1>3, <1>4, AnswersAsked, Zenon DEF Answered
  <1>6. DataTypeOK
    BY DEF Sound, TypeOK, NetTypeOK
  <1>7. /\ listener'["client"] = listener["client"] /\ listener'["server"] = NoPort
        /\ backlog'["client"] = backlog["client"] /\ backlog'["server"] = <<>>
        /\ addr'["server"] = JoinPort(cjob.port)
    BY <1>3, <1>6, SMT DEF StopListening, DataTypeOK, Side
  <1>8. backlog["client"] = <<>>
    BY <1>2, SMT DEF Sound, Lock, Queues, Expects, Fetching
  <1>9. cpc' = "reply" /\ cjob' = cjob
    BY <1>2, Zenon DEF clientVars
  <1>10. Modes'
    BY <1>2, <1>7, <1>9, SMT DEF Sound, Lock, Modes, Switching, Active
  <1> QED
    BY <1>2, <1>3, <1>5, <1>7, <1>8, <1>10, SwitchKeeps, SMT DEF Side

LEMMA HandlePasvKeeps ==
  ASSUME Sound, Alive', HandlePasv, UNCHANGED clientVars PROVE Lock'
  <1>1. Takes("PASV")
    BY Zenon DEF HandlePasv, Refuse
  <1>2. /\ ~Refuse("PASV") /\ request = cjob
        /\ cpc = "reply" /\ cjob.verb = "PASV"
    BY <1>1, AskedIsFit, SMT DEF Fetching
  <1>3. DataTypeOK
    BY DEF Sound, TypeOK, NetTypeOK
  <1>4. PICK p \in Port :
          Say(PasvReply(p), "cmd") /\ listener'["server"] = p
    <2>1. CASE listener["server"] # NoPort
      <3>1. listener["server"] \in Port
        BY <1>3, <2>1, SMT DEF DataTypeOK, Side
      <3> QED
        BY <1>2, <2>1, <3>1, Zenon DEF HandlePasv
    <2>2. CASE listener["server"] = NoPort
      <3>1. spc' # "dying"
        BY Zenon DEF Alive, Ended
      <3>2. PICK p \in BindPort(0) :
              /\ listener' = [listener EXCEPT !["server"] = p]
              /\ Say(PasvReply(p), "cmd")
        BY <1>2, <2>2, <3>1, Zenon DEF HandlePasv
      <3>3. p \in Port
        BY BindPortType, SMT DEF NoPort
      <3> QED
        BY <1>3, <3>2, <3>3, SMT DEF DataTypeOK, Side
    <2> QED
      BY <2>1, <2>2
  <1>5. sType' = sType /\ open' = open /\ backlog' = backlog
    BY <1>1, <1>2, Zenon DEF HandlePasv, Takes
  <1>6. PasvReply(p) \in Response /\ PasvReply(p).code = 227
        /\ JoinPort(PasvReply(p).port) = p
    <2>1. p \in PortNumber
      BY NetAssumption, Zenon
    <2> QED
      BY <2>1, PasvReplyType, PortRoundTrip, SMT DEF PasvReply
  <1>7. Answered' /\ reply' = PasvReply(p)
    BY <1>1, <1>4, <1>6, AnswersAsked, Zenon DEF Answered
  <1>8. cpc' = "reply" /\ cjob' = cjob /\ p # NoPort
    BY <1>2, NetAssumption, Zenon DEF clientVars
  <1>9. Modes'
    BY <1>2, <1>4, <1>6, <1>7, <1>8, SMT DEF Sound, Lock, Modes, Switching
  <1>10. \A s \in Side : backlog'[s] = <<>>
    BY <1>2, <1>5, SMT DEF Sound, Lock, Queues, Expects, Dialled, Fetching, Side
  <1> QED
    BY <1>2, <1>5, <1>7, <1>9, <1>10, SwitchKeeps, SMT

-----------------------------------------------------------------------------
(***************************************************************************)
(* The server's side of a transfer.                                        *)
(***************************************************************************)
LEMMA TransferMode ==
  ASSUME Sound, cpc \in {"reply", "dial", "link", "open", "recv", "done"},
         Fetching(cjob)
  PROVE  /\ Active \/ Passive
         /\ cpc = "dial" => Passive
         /\ ~(Active /\ Passive)
  <1>1. cLoggedIn
    BY SMT
    DEF Sound, LoginInv, BeyondLogin, ClientPc, Listening, Transferring, AtUser, Over
  <1>2. ~Switching
    BY SMT DEF Switching, Fetching
  <1>3. Active \/ Passive
    BY <1>1, <1>2, Zenon DEF Sound, Lock, Modes
  <1> QED
    BY <1>3, Zenon DEF Sound, HeldInv, DialsPassive, Active, Passive

LEMMA BeginsKeeps ==
  ASSUME Sound, NEW v \in {"RETR", "STOR"}, Takes(v), Say(Reply(150), "link"),
         UNCHANGED <<listener, addr, backlog>>, file'["client"] = file["client"],
         sType' = sType, UNCHANGED clientVars
  PROVE  Lock'
  <1>1. /\ cpc \in {"reply", "dial"} /\ cjob.verb = v /\ Fetching(cjob)
        /\ toServer # <<>>
    BY AskedIsFit, SMT DEF Fetching, Takes
  <1>2. Reply(150) \in Response /\ Reply(150).code = 150
    BY ReplyCode, SMT DEF Code
  <1>3. Answers(1)' /\ toServer' = <<>> /\ reply'.code = 150 /\ spc' = "link"
    BY <1>2, AnswersAsked, SMT
  <1>4. /\ cpc' = cpc /\ cjob' = cjob /\ cType' = cType /\ cLoggedIn' = cLoggedIn
        /\ open' = open /\ listener' = listener /\ addr' = addr
        /\ backlog' = backlog
    BY Zenon DEF clientVars, Takes
  <1>5. (Active' <=> Active) /\ (Passive' <=> Passive)
    BY <1>4, Zenon DEF Active, Passive
  <1>6. Fetching(cjob)'
    BY <1>1, <1>4, Zenon DEF Fetching
  <1>7. Announced'
    BY <1>3, Zenon DEF Announced, Carries
  <1>8. Talk'
    BY <1>1, <1>3, <1>4, <1>6, <1>7, SMT DEF Talk, AtUser
  <1>9. Modes'
    BY <1>1, <1>4, <1>5, SMT DEF Sound, Lock, Modes, Switching
  <1>10. SameType'
    BY <1>1, <1>4, SMT DEF Sound, Lock, SameType
  <1>11. Queues'
    <2>1. ~Announced
      BY <1>1, Zenon DEF Announced, Carries, Answers
    <2>2. /\ IF Dialled THEN Len(backlog["server"]) = 1 ELSE backlog["server"] = <<>>
          /\ backlog["client"] = <<>>
      BY <1>1, <2>1, SMT DEF Sound, Lock, Queues, Expects
    <2>3. Dialled' <=> Dialled
      BY <1>4, <1>5, Zenon DEF Dialled, Fetching
    <2>4. ~(Active /\ cpc = "dial")
      BY <1>1, TransferMode, Zenon
    <2> QED
      BY <1>1, <1>3, <1>4, <1>5, <2>2, <2>3, <2>4, SMT DEF Queues
  <1>12. NotInVain'
    BY <1>1, <1>3, <1>4, SMT DEF Sound, Lock, NotInVain
  <1> QED
    BY <1>4, <1>8, <1>9, <1>10, <1>11, <1>12, Zenon DEF Sound, Lock

\* In active mode nothing has been connected when a transfer is refused.
LEMMA RefusesKeeps ==
  ASSUME Sound, NEW v \in {"RETR", "STOR"}, Takes(v), Say(Reply(550), "cmd"),
         SameData, sType' = sType, UNCHANGED clientVars, ~Passive
  PROVE  Lock'
  <1>1. /\ cpc \in {"reply", "dial"} /\ cjob.verb = v /\ Fetching(cjob)
        /\ toServer # <<>>
    BY AskedIsFit, SMT DEF Fetching, Takes
  <1>2. cpc = "reply" /\ Active
    BY <1>1, TransferMode, SMT
  <1>3. Reply(550) \in Response /\ Reply(550).code # 150
    BY ReplyCode, SMT DEF Code
  <1>4. Answers(1)' /\ toServer' = <<>> /\ reply'.code # 150 /\ spc' = "cmd"
    BY <1>3, AnswersAsked, SMT
  <1>5. /\ cpc' = cpc /\ cjob' = cjob /\ cType' = cType /\ cLoggedIn' = cLoggedIn
        /\ open' = open /\ listener' = listener /\ addr' = addr
        /\ backlog' = backlog /\ file' = file
    BY Zenon DEF clientVars, SameData
  <1>6. Active' /\ ~Passive'
    BY <1>2, <1>5, Zenon DEF Active, Passive
  <1>7. Fetching(cjob)'
    BY <1>1, <1>5, Zenon DEF Fetching
  <1>8. Refused' /\ ~Announced'
    BY <1>4, Zenon DEF Refused, Answered, Announced
  <1>9. Talk'
    BY <1>2, <1>5, <1>6, <1>7, <1>8, SMT DEF Talk, AtUser
  <1>10. Modes'
    BY <1>1, <1>5, <1>6, SMT DEF Sound, Lock, Modes, Switching
  <1>11. SameType'
    BY <1>1, <1>5, SMT DEF Sound, Lock, SameType
  <1>12. Queues'
    <2>1. ~Announced /\ ~Dialled
      BY <1>1, Zenon DEF Announced, Carries, Answers, Dialled
    <2>2. \A s \in Side : backlog[s] = <<>>
      BY <1>2, <2>1, SMT DEF Sound, Lock, Queues, Expects, Side
    <2> QED
      BY <1>2, <1>4, <1>5, <1>6, <1>7, <1>8, <2>2, SMT
      DEF Queues, Dialled, Expects, Side
  <1>13. NotInVain'
    BY <1>1, <1>4, <1>5, SMT DEF Sound, Lock, NotInVain
  <1> QED
    BY <1>5, <1>9, <1>10, <1>11, <1>12, <1>13, Zenon DEF Sound, Lock

LEMMA HandleRetrKeeps ==
  ASSUME Sound, HandleRetr, UNCHANGED clientVars PROVE Lock'
  <1>1. Takes("RETR")
    BY Zenon DEF HandleRetr, Refuse
  <1>2. /\ ~Refuse("RETR") /\ request = cjob /\ toServer # <<>>
        /\ cpc \in {"reply", "dial"} /\ cjob.verb = "RETR"
    BY <1>1, AskedIsFit, SMT DEF Takes
  <1>3. /\ sType' = sType /\ SameData
    BY <1>1, <1>2, Zenon DEF HandleRetr, SameData, Takes, dataVars
  <1>4. CASE file["server"][cjob.arg] = Absent
    <2>1. ~Passive
      BY <1>2, <1>4, SMT DEF Sound, Lock, NotInVain
    <2>2. Say(Reply(550), "cmd")
      BY <1>2, <1>4, Zenon DEF HandleRetr
    <2> QED
      BY <1>1, <1>3, <2>1, <2>2, RefusesKeeps, Zenon
  <1>5. CASE file["server"][cjob.arg] # Absent
    <2>1. Say(Reply(150), "link")
      BY <1>2, <1>5, Zenon DEF HandleRetr, StartJob
    <2>2. UNCHANGED <<listener, addr, backlog>> /\ file' = file
      BY <1>3, Zenon DEF SameData
    <2> QED
      BY <1>1, <1>3, <2>1, <2>2, BeginsKeeps, Zenon
  <1> QED
    BY <1>4, <1>5

LEMMA HandleStorKeeps ==
  ASSUME Sound, HandleStor, UNCHANGED clientVars PROVE Lock'
  <1>1. Takes("STOR")
    BY Zenon DEF HandleStor, Refuse
  <1>2. /\ ~Refuse("STOR") /\ request = cjob /\ toServer # <<>>
        /\ cpc \in {"reply", "dial"} /\ cjob.verb = "STOR"
    BY <1>1, AskedIsFit, SMT DEF Takes
  <1>3. sType' = sType /\ UNCHANGED <<listener, addr, backlog>> /\ open' = open
    BY <1>1, <1>2, Zenon DEF HandleStor, Takes, dataVars
  <1>4. CASE cjob.arg \in ReadOnly["server"]
    <2>1. ~Passive
      BY <1>2, <1>4, SMT DEF Sound, Lock, NotInVain
    <2>2. Say(Reply(550), "cmd") /\ SameData
      BY <1>2, <1>3, <1>4, Zenon DEF HandleStor, SameData
    <2> QED
      BY <1>1, <1>3, <2>1, <2>2, RefusesKeeps, Zenon
  <1>5. CASE cjob.arg \notin ReadOnly["server"]
    <2>1. /\ Say(Reply(150), "link")
          /\ file' = [file EXCEPT !["server"][cjob.arg] = EmptyBody]
      BY <1>2, <1>5, Zenon DEF HandleStor, StartJob
    <2>2. file'["client"] = file["client"]
      BY <2>1, SMT DEF Sound, TypeOK, NetTypeOK, FileTypeOK, Side
    <2> QED
      BY <1>1, <1>3, <2>1, <2>2, BeginsKeeps, Zenon
  <1> QED
    BY <1>4, <1>5

LEMMA LinkPhase ==
  ASSUME Sound, spc \in {"link", "move"}
  PROVE  /\ toServer = <<>> /\ Fetching(cjob)
         /\ cpc \in {"reply", "dial", "link", "open", "recv", "done"}
         /\ cpc \in {"reply", "dial"} => Announced
         /\ cpc \in {"link", "open", "recv", "done"} => Answers(0)
         /\ cpc = "dial" => spc = "link"
  <1>1. /\ ~Asked /\ ~Quiet /\ ~Answered /\ ~Refused
        /\ ~AskedJob /\ \A v : ~AskedFor(v)
    BY SMT DEF Asked, Quiet, Answered, Refused, AskedJob, AskedFor
  <1>2. Talk /\ cpc \in ClientPc \ Over
    BY SoundTalk, Zenon DEF Sound, Lock
  <1>3. \/ cpc = "reply" /\ Fetching(cjob) /\ Announced
        \/ cpc = "dial" /\ Announced /\ spc = "link"
        \/ cpc \in {"link", "open", "recv", "done"} /\ Carries(0)
    BY <1>1, <1>2, SMT DEF Talk, ClientPc, Listening, Transferring, AtUser, Over
  <1>4. cpc \in {"dial", "link", "open", "recv", "done"} => Fetching(cjob)
    BY SMT DEF Sound, TypeOK, ClientTypeOK, Transferring, Lock, Queues
  <1>5. Carries(0) => Answers(0)
    BY SMT DEF Carries
  <1>6. Answers(0) \/ Answers(1)
    BY <1>3, <1>5, SMT DEF Announced, Carries
  <1> QED
    BY <1>3, <1>4, <1>5, <1>6, SMT DEF Answers

\* With nothing queued and nothing held no connection is in use.
LEMMA AllFree ==
  ASSUME Sound, \A s \in Side : backlog[s] = <<>> /\ data[s] = NoConn
  PROVE  FreeConn # {}
  <1>1. \A s \in Side : Queued(s) = {}
    BY SMT DEF Queued
  <1>2. \A s \in Side : Held(s) = {}
    BY <1>1, Zenon DEF Sound, HeldInv, AllHeld, HeldAt
  <1>3. \A c \in ConnId : conn[c].ends \subseteq Side
    BY SMT DEF Sound, TypeOK, NetTypeOK, DataTypeOK, Connection
  <1>4. \A c \in ConnId : conn[c].ends = {}
    BY <1>2, <1>3, SMT DEF Held
  <1> QED
    BY <1>4, SMT DEF FreeConn, Sound, Orderly

\* A server that has no listener can connect, one that has finds a connection.
LEMMA ServerFinds ==
  ASSUME Sound, spc = "link"
  PROVE  /\ listener["server"] = NoPort =>
              /\ Active /\ CanConnect("server") /\ backlog["client"] = <<>>
              /\ cpc \in {"reply", "link"}
         /\ listener["server"] # NoPort =>
              /\ Passive
              /\ IF cpc = "dial" THEN backlog["server"] = <<>>
                 ELSE Len(backlog["server"]) = 1
  <1>1. /\ Fetching(cjob)
        /\ cpc \in {"reply", "dial", "link", "open", "recv", "done"}
    BY LinkPhase, SMT
  <1>2. /\ Active \/ Passive
        /\ cpc = "dial" => Passive
        /\ ~(Active /\ Passive)
    BY <1>1, TransferMode, SMT
  <1>3. listener["server"] = NoPort <=> Active
    BY <1>2, Zenon DEF Active, Passive
  <1>4. ASSUME Active
        PROVE  CanConnect("server") /\ backlog["client"] = <<>> /\ cpc \in {"reply", "link"}
    <2>1. cpc \in {"reply", "link"}
      BY <1>4, SMT DEF Sound, Lock, Queues
    <2>2. backlog["client"] = <<>> /\ backlog["server"] = <<>>
      BY <1>2, <1>4, Zenon DEF Sound, Lock, Queues, Dialled
    <2>3. data["server"] = NoConn /\ data["client"] = NoConn
      <3>1. listener["client"] # NoPort
        BY <1>4, Zenon DEF Active
      <3> QED
        BY <2>1, <3>1, SMT
        DEF Sound, HeldInv, ServerEmpty, ServerIdle, ClientEmpty, ClientUnlinked,
            ClientIdle
    <2>4. FreeConn # {}
      BY <2>2, <2>3, AllFree, SMT DEF Side
    <2>5. listener["client"] = addr["server"]
      BY <1>4, Zenon DEF Active
    <2>6. Len(backlog["client"]) < Backlog
      BY <2>2, NetAssumption, SMT DEF Sound, Orderly
    <2> QED
      BY <2>1, <2>2, <2>4, <2>5, <2>6, ServerSide, Zenon DEF CanConnect
  <1>5. ASSUME Passive
        PROVE  IF cpc = "dial" THEN backlog["server"] = <<>>
               ELSE Len(backlog["server"]) = 1
    <2>1. cpc # "link"
      BY <1>2, <1>5, Zenon DEF Sound, Lock, Queues
    <2>2. Dialled <=> cpc # "dial"
      BY <1>1, <1>5, <2>1, SMT DEF Dialled
    <2> QED
      BY <2>2, Zenon DEF Sound, Lock, Queues
  <1> QED
    BY <1>2, <1>3, <1>4, <1>5, Zenon

\* The connection is made or taken: no message, and the queues as they must be.
LEMMA LinksKeep ==
  ASSUME Sound, spc = "link", spc' = "move", cpc # "dial",
         UNCHANGED <<ctlVars, sType, listener, addr, file>>, UNCHANGED clientVars,
         backlog'["server"] = <<>>,
         IF Active THEN Len(backlog'["client"]) = 1 ELSE backlog'["client"] = <<>>
  PROVE  Lock'
  <1>1. /\ cpc' = cpc /\ cjob' = cjob /\ cType' = cType /\ cLoggedIn' = cLoggedIn
        /\ toServer' = toServer /\ toClient' = toClient
        /\ open' = open /\ listener' = listener /\ addr' = addr /\ file' = file
    BY Zenon DEF clientVars, ctlVars
  <1>2. /\ toServer = <<>> /\ Fetching(cjob)
        /\ cpc \in {"reply", "link", "open", "recv", "done"}
        /\ cpc = "reply" => Announced
    BY LinkPhase, SMT
  <1>3. /\ (Active' <=> Active) /\ (Passive' <=> Passive)
        /\ Fetching(cjob)' /\ reply' = reply
    BY <1>1, <1>2, Zenon DEF Active, Passive, Fetching, reply
  <1>4. Answers(0)' = Answers(0) /\ Answers(1)' = Answers(1)
    BY <1>1, Zenon DEF Answers
  <1>5. /\ Announced => Announced'
        /\ Carries(0) => Carries(0)'
    <2>1. Carries(1) => Carries(1)'
      BY <1>4, Zenon DEF Carries
    <2>2. Carries(0) => Carries(0)'
      BY <1>4, Zenon DEF Carries
    <2> QED
      BY <1>3, <2>1, <2>2, Zenon DEF Announced
  <1>6. Talk'
    <2>1. cpc \in {"link", "open", "recv", "done"} => Carries(0)
      BY Zenon DEF Sound, Lock, Talk
    <2> QED
      BY <1>1, <1>2, <1>3, <1>5, <2>1, SMT DEF Talk, AtUser
  <1>7. Modes'
    BY <1>1, <1>2, <1>3, SMT DEF Sound, Lock, Modes, Switching, Fetching
  <1>8. SameType'
    BY <1>1, <1>2, SMT DEF Sound, Lock, SameType, Fetching
  <1>9. Queues'
    <2>1. Expects' <=> Active
      <3>1. Active /\ cpc # "reply" => cpc = "link"
        BY <1>2, SMT DEF Sound, Lock, Queues
      <3> QED
        BY <1>1, <1>2, <1>3, <1>5, <3>1, SMT DEF Expects
    <2>2. ~(toServer' # <<>> \/ spc' = "link")
      BY <1>1, <1>2, SMT
    <2>3. cpc = "link" => Active
      BY Zenon DEF Sound, Lock, Queues
    <2> QED
      BY <1>1, <1>2, <1>3, <2>1, <2>2, <2>3, SMT DEF Queues
  <1>10. NotInVain'
    BY <1>1, <1>2, <1>3, SMT DEF Sound, Lock, NotInVain
  <1> QED
    BY <1>1, <1>6, <1>7, <1>8, <1>9, <1>10, Zenon DEF Sound, Lock

LEMMA ServerOpensDataKeeps ==
  ASSUME Sound, ServerOpensData, UNCHANGED clientVars PROVE Lock'
  <1>1. /\ spc = "link" /\ spc' = "move"
        /\ UNCHANGED <<ctlVars, sType, file>>
    BY Zenon DEF ServerOpensData
  <1>2. DataTypeOK
    BY DEF Sound, TypeOK, NetTypeOK
  <1>3. CASE listener["server"] = NoPort
    <2>1. Connect("server")
      BY <1>3, Zenon DEF ServerOpensData
    <2>2. Active /\ ~Passive /\ backlog["client"] = <<>> /\ cpc # "dial"
      BY <1>1, <1>3, ServerFinds, SMT DEF Active, Passive
    <2>3. backlog["server"] = <<>>
      BY <2>2, Zenon DEF Sound, Lock, Queues, Dialled
    <2>4. PICK c \in ConnId :
            /\ backlog' = [backlog EXCEPT !["client"] = Append(@, c)]
            /\ UNCHANGED <<listener, addr>>
      <3> DEFINE c == CHOOSE c \in FreeConn : TRUE
      <3>1. c \in ConnId
        BY <2>1, SMT DEF Connect, CanConnect, FreeConn
      <3>2. /\ backlog' = [backlog EXCEPT !["client"] = Append(@, c)]
            /\ UNCHANGED <<listener, addr>>
        BY <2>1, ServerSide, Zenon DEF Connect
      <3> QED
        BY <3>1, <3>2, Zenon
    <2>5. /\ backlog'["client"] = Append(<<>>, c)
          /\ backlog'["server"] = <<>>
      BY <1>2, <2>2, <2>3, <2>4, SMT DEF DataTypeOK, Side
    <2>6. Len(backlog'["client"]) = 1
      BY <2>5, FirstMessage, Zenon
    <2> QED
      BY <1>1, <2>2, <2>4, <2>5, <2>6, LinksKeep, SMT
  <1>4. CASE listener["server"] # NoPort
    <2>1. Accept("server")
      BY <1>4, Zenon DEF ServerOpensData
    <2>2. Passive /\ cpc # "dial" /\ Len(backlog["server"]) = 1
      BY <1>1, <1>4, <2>1, ServerFinds, Zenon DEF Accept
    <2>3. ~Active
      BY <2>2, Zenon DEF Active, Passive
    <2>4. backlog["client"] = <<>>
      BY <2>3, Zenon DEF Sound, Lock, Queues, Expects
    <2>5. /\ backlog' = [backlog EXCEPT !["server"] = Tail(@)]
          /\ UNCHANGED <<listener, addr>>
      BY <2>1, Zenon DEF Accept
    <2>6. backlog["server"] \in Seq(ConnId)
      BY <1>2, SMT DEF DataTypeOK, Side
    <2>7. Tail(backlog["server"]) = <<>>
      BY <2>2, <2>6, LastMessage, Zenon
    <2>8. backlog'["server"] = <<>> /\ backlog'["client"] = <<>>
      BY <1>2, <2>4, <2>5, <2>7, SMT DEF DataTypeOK, Side
    <2> QED
      BY <1>1, <2>2, <2>3, <2>5, <2>8, LinksKeep, SMT
  <1> QED
    BY <1>3, <1>4

\* The wait at the server's listener ends with a connection.
LEMMA ServerNeverTimesOut ==
  ASSUME Sound PROVE ~ServerTimesOut
  <1> SUFFICES ASSUME ServerTimesOut PROVE FALSE
    OBVIOUS
  <1>1. spc = "link" /\ "slow" \notin Faults
    BY Zenon DEF ServerTimesOut, ServerFailsData, Sound, Orderly
  <1>2. CASE listener["server"] = NoPort
    <2>1. CanConnect("server")
      BY <1>1, <1>2, ServerFinds, Zenon
    <2> QED
      BY <1>1, <1>2, <2>1, Zenon DEF ServerTimesOut, ServerFailsData, ConnectFails
  <1>3. CASE listener["server"] # NoPort
    <2>1. backlog["server"] = <<>> /\ ClientWaits
      BY <1>1, <1>3, Zenon DEF ServerTimesOut, ServerFailsData, AcceptTimesOut
    <2>2. backlog["server"] \in Seq(ConnId)
      BY SMT DEF Sound, TypeOK, NetTypeOK, DataTypeOK, Side
    <2>3. cpc = "dial"
      <3>1. Len(backlog["server"]) # 1
        BY <2>1, <2>2, LastMessage, Zenon
      <3> QED
        BY <1>1, <1>3, <3>1, ServerFinds, Zenon
    <2> QED
      BY <2>1, <2>3, SMT DEF ClientWaits, AtUser, Listening
  <1> QED
    BY <1>2, <1>3

\* 226 follows what the client has not read yet of a transfer.
LEMMA FinishSaid ==
  ASSUME Sound, spc = "move", Say(Reply(226), "cmd")
  PROVE  /\ toServer = <<>> /\ Fetching(cjob) /\ spc' = "cmd"
         /\ cpc \in {"reply", "link", "open", "recv", "done"}
         /\ cpc # "reply" => Len(toClient') = 1
         /\ cpc = "reply" => Announced /\ Len(toClient') = 2 /\ reply'.code = 150
  <1>1. /\ toServer = <<>> /\ Fetching(cjob)
        /\ cpc \in {"reply", "link", "open", "recv", "done"}
        /\ cpc = "reply" => Announced
        /\ cpc # "reply" => Answers(0)
    BY LinkPhase, SMT
  <1>2. PICK r \in Response : Say(r, "cmd")
    <2>1. Reply(226) \in Response
      BY ReplyType, SMT DEF Code
    <2> QED
      BY <2>1, Zenon
  <1>3. toClient' = Append(toClient, r) /\ spc' = "cmd"
    BY <1>2, SoundTalk, Zenon DEF Say
  <1>4. ASSUME cpc # "reply" PROVE Len(toClient') = 1
    <2>1. toClient = <<>>
      BY <1>1, <1>4, SoundTalk, MessageCount, Zenon DEF Answers
    <2> QED
      BY <1>2, <1>3, <2>1, FirstMessage, Zenon
  <1>5. ASSUME cpc = "reply" PROVE Len(toClient') = 2 /\ reply'.code = 150
    <2>1. Len(toClient) = 1 /\ reply.code = 150
      BY <1>1, <1>5, SMT DEF Announced, Carries, Answers
    <2>2. toClient \in Seq(Response)
      BY SoundTalk
    <2>3. /\ Len(Append(toClient, r)) = 2
          /\ Head(Append(toClient, r)) = Head(toClient)
      BY <2>1, <2>2, SecondMessage, Zenon
    <2> QED
      BY <1>3, <2>1, <2>3, Zenon DEF reply
  <1> QED
    BY <1>1, <1>3, <1>4, <1>5, Zenon

\* The transfer is over on the server's side: 226 is on its way too.
LEMMA FinishKeeps ==
  ASSUME Sound, spc = "move", Say(Reply(226), "cmd"),
         UNCHANGED <<toServer, open, sType, listener, addr, backlog>>,
         file'["client"] = file["client"], UNCHANGED clientVars
  PROVE  Lock'
  <1>1. /\ cpc' = cpc /\ cjob' = cjob /\ cType' = cType /\ cLoggedIn' = cLoggedIn
        /\ toServer' = toServer /\ open' = open /\ listener' = listener
        /\ addr' = addr /\ backlog' = backlog
    BY Zenon DEF clientVars
  <1>2. /\ toServer = <<>> /\ Fetching(cjob) /\ spc' = "cmd"
        /\ cpc \in {"reply", "link", "open", "recv", "done"}
        /\ cpc # "reply" => Len(toClient') = 1
        /\ cpc = "reply" => Announced /\ Len(toClient') = 2 /\ reply'.code = 150
    BY FinishSaid, Zenon
  <1>3. /\ cpc # "reply" => Carries(0)'
        /\ cpc = "reply" => Announced /\ Announced'
    BY <1>1, <1>2, SMT DEF Announced, Carries, Answers
  <1>4. (Active' <=> Active) /\ (Passive' <=> Passive) /\ Fetching(cjob)'
    <2>1. Active' <=> Active
      BY <1>1, Zenon DEF Active
    <2>2. Passive' <=> Passive
      BY <1>1, Zenon DEF Passive
    <2>3. Fetching(cjob)'
      BY <1>1, <1>2, Zenon DEF Fetching
    <2> QED BY <2>1, <2>2, <2>3, Zenon
  <1>5. Talk'
    BY <1>1, <1>2, <1>3, <1>4, SMT DEF Talk, AtUser
  <1>6. Modes'
    BY <1>1, <1>2, <1>4, SMT DEF Sound, Lock, Modes, Switching, Fetching
  <1>7. SameType'
    BY <1>1, <1>2, SMT DEF Sound, Lock, SameType, Fetching
  <1>8. Queues'
    BY <1>1, <1>2, <1>3, <1>4, SMT DEF Sound, Lock, Queues, Expects, Dialled
  <1>9. NotInVain'
    BY <1>1, <1>2, <1>4, SMT DEF Sound, Lock, NotInVain
  <1> QED
    BY <1>1, <1>5, <1>6, <1>7, <1>8, <1>9, Zenon DEF Sound, Lock

LEMMA MovesKeep ==
  ASSUME Sound, Alive', ServerSends \/ ServerReceives, UNCHANGED clientVars
  PROVE  Lock'
  <1>1. spc = "move" /\ spc' \notin {"dying", "killed"}
    BY SMT DEF ServerSends, ServerReceives, Alive, Ended
  <1>2. Say(Reply(226), "cmd")
    BY <1>1, SMT DEF ServerSends, ServerReceives
  <1>3. UNCHANGED <<toServer, open, sType, listener, addr, backlog>>
    BY Zenon DEF ServerSends, ServerReceives, DropData
  <1>4. file'["client"] = file["client"]
    BY SMT DEF ServerSends, ServerReceives, Sound, TypeOK, NetTypeOK, FileTypeOK, Side
  <1> QED
    BY <1>1, <1>2, <1>3, <1>4, FinishKeeps, Zenon

LEMMA ServerKeepsLock ==
  ASSUME Sound, Alive', ServerAction PROVE Lock'
  <1>1. UNCHANGED clientVars /\ (ServerStep \/ ServerTimesOut)
    BY Zenon DEF ServerAction
  <1>2. spc' \notin {"dying", "gone"}
    BY Zenon DEF Alive, Ended
  <1>3. ~HandleQuit
    <2>1. HandleQuit => spc' = "dying"
      BY SoundTalk, Zenon DEF HandleQuit, Say
    <2> QED
      BY <1>2, <2>1, Zenon
  <1>4. ~ServerLosesClient /\ ~ServerExits
    BY <1>2, Zenon DEF ServerLosesClient, ServerExits
  <1>5. CASE Greet
    BY <1>1, <1>5, GreetKeeps, Zenon
  <1>6. CASE HandleCommand
    BY <1>1, <1>3, <1>6, SimpleHandlersKeep, HandleTypeKeeps, HandlePortKeeps,
       HandlePasvKeeps, HandleRetrKeeps, HandleStorKeeps, Zenon
    DEF HandleCommand
  <1>7. CASE ServerOpensData
    BY <1>1, <1>7, ServerOpensDataKeeps, Zenon
  <1>8. CASE ServerSends \/ ServerReceives
    BY <1>1, <1>8, MovesKeep, Zenon
  <1> QED
    BY <1>1, <1>4, <1>5, <1>6, <1>7, <1>8, ServerNeverTimesOut, Zenon
    DEF ServerStep

-----------------------------------------------------------------------------
(***************************************************************************)
(* The client.                                                             *)
(***************************************************************************)
SameServer == spc' = spc /\ sType' = sType

LEMMA Tells ==
  ASSUME Sound, NEW c, NEW pc, Tell(c, pc)
  PROVE  /\ toServer' = Append(toServer, c) /\ cpc' = pc
         /\ toClient' = toClient /\ open' = open
  BY SoundTalk, Zenon DEF Tell

LEMMA QuietAsked ==
  ASSUME Quiet, TypeOK, NEW c \in Command, toServer' = Append(toServer, c),
         toClient' = toClient, SameServer
  PROVE  Asked' /\ request' = c
  <1>1. toServer = <<>> /\ Len(toClient) = 0 /\ spc = "cmd"
    BY Zenon DEF Quiet, Answers
  <1>2. toClient = <<>>
    BY <1>1, MessageCount, SMT DEF TypeOK, NetTypeOK, ControlTypeOK
  <1>3. Len(toServer') = 1 /\ Head(toServer') = c
    BY <1>1, FirstMessage, Zenon
  <1> QED
    BY <1>1, <1>2, <1>3, Zenon DEF Asked, request, SameServer

LEMMA AnswerHeard ==
  ASSUME Sound, Answered, toClient' = Tail(toClient), SameServer
  PROVE  toClient' = <<>> /\ (toServer' = toServer => Quiet')
  <1>1. toServer = <<>> /\ Len(toClient) = 1 /\ spc = "cmd"
    BY Zenon DEF Answered, Answers
  <1>2. toClient' = <<>>
    BY <1>1, SoundTalk, LastMessage, Zenon
  <1>3. Len(<<>>) = 0
    BY EmptySeq, MessageCount, Zenon
  <1> QED
    BY <1>1, <1>2, <1>3, Zenon DEF Quiet, Answers, SameServer

\* Outside transfers nothing is queued.
LEMMA NothingQueued ==
  ASSUME Sound,
         \/ cpc \in AtUser \cup {"greet", "userReply", "passReply", "bye"}
         \/ cpc = "reply" /\ ~Fetching(cjob)
         \/ cpc = "done" /\ spc # "link"
         \/ cpc = "reply" /\ Refused /\ Active
  PROVE  \A s \in Side : backlog[s] = <<>>
  <1>1. CASE cpc \in AtUser \cup {"greet", "userReply", "passReply", "bye"}
    BY <1>1, SMT DEF Sound, Lock, Queues, Dialled, Expects, Side, AtUser
  <1>2. CASE cpc = "reply" /\ ~Fetching(cjob)
    BY <1>2, SMT DEF Sound, Lock, Queues, Dialled, Expects, Side
  <1>3. CASE cpc = "done" /\ spc # "link"
    <2>1. toServer = <<>>
      BY <1>3, Zenon DEF Sound, Lock, Talk, Carries, Answers
    <2> QED
      BY <1>3, <2>1, SMT DEF Sound, Lock, Queues, Expects, Side
  <1>4. CASE cpc = "reply" /\ Refused /\ Active
    <2>1. ~Passive /\ ~Announced
      BY <1>4, Zenon DEF Active, Passive, Refused, Announced
    <2> QED
      BY <1>4, <2>1, SMT DEF Sound, Lock, Queues, Dialled, Expects, Side
  <1> QED
    BY <1>1, <1>2, <1>3, <1>4

LEMMA ModeKept ==
  ASSUME Sound, cLoggedIn, ~Switching, listener' = listener, addr' = addr
  PROVE  Active' \/ Passive'
  BY Zenon DEF Sound, Lock, Modes, Active, Passive

\* The client returns to the user.
LEMMA ReturnKeeps ==
  ASSUME Sound, cpc' \in AtUser, Quiet', open' = open, sType' = cType',
         cLoggedIn' => Active' \/ Passive',
         \A s \in Side : backlog'[s] = <<>>
  PROVE  Lock'
  <1>1. Talk'
    BY SMT DEF Talk, AtUser
  <1>2. Modes' /\ SameType' /\ NotInVain'
    BY SMT DEF Modes, SameType, NotInVain, AtUser
  <1>3. Queues'
    BY SMT DEF Queues, Dialled, Expects, Quiet, AtUser, Side
  <1> QED
    BY <1>1, <1>2, <1>3, Zenon DEF Sound, Lock

\* The client sends a command other than PORT.
LEMMA AskKeeps ==
  ASSUME Sound, cpc \in AtUser, Asked', SameServer, NotInVain',
         UNCHANGED <<open, listener, addr, backlog, cType, cLoggedIn>>,
         \/ cpc' = "userReply" /\ request'.verb = "USER"
         \/ cpc' = "passReply" /\ request'.verb = "PASS"
         \/ cpc' = "bye" /\ request'.verb = "QUIT"
         \/ /\ cpc' = "reply" /\ request' = cjob' /\ ~Fetching(cjob)'
            /\ cjob'.verb # "PORT" /\ (cjob'.verb = "PASV" => cjob'.arg = Plain)
         \/ /\ request' = cjob' /\ Fetching(cjob)'
            /\ cpc' = IF listener["client"] = NoPort THEN "dial" ELSE "reply"
  PROVE  Lock'
  <1>1. toServer' # <<>> /\ spc' = "cmd" /\ \A n \in {0, 1, 2} : ~Answers(n)'
    <2>1. Len(toServer') = 1 /\ spc' = "cmd"
      BY Zenon DEF Asked
    <2>2. toServer' # <<>>
      BY <2>1, EmptySeq, MessageCount, SMT
    <2> QED
      BY <2>1, <2>2, Zenon DEF Answers
  <1>2. /\ listener' = listener /\ addr' = addr /\ open' = open
        /\ backlog' = backlog /\ cType' = cType /\ cLoggedIn' = cLoggedIn
        /\ sType' = sType
    BY Zenon DEF SameServer
  <1>3. (Active' <=> Active) /\ (Passive' <=> Passive)
    BY <1>2, Zenon DEF Active, Passive
  <1>4. ~Announced'
    BY <1>1, SMT DEF Announced, Carries
  <1>5. \A s \in Side : backlog[s] = <<>>
    BY NothingQueued, SMT
  <1>6. Talk'
    BY SMT DEF Talk, AtUser, AskedFor, AskedJob, Fetching
  <1>7. Modes'
    <2>1. cLoggedIn => Active \/ Passive
      BY SMT DEF Sound, Lock, Modes, Switching, AtUser
    <2> QED
      BY <1>1, <1>2, <1>3, <2>1, SMT DEF Modes, Fetching
  <1>8. SameType'
    <2>1. sType = cType
      BY SMT DEF Sound, Lock, SameType, AtUser
    <2> QED
      BY <1>1, <1>2, <2>1, SMT DEF SameType
  <1>9. Queues'
    <2>1. ~Dialled'
      <3>1. Passive' => listener["client"] = NoPort
        BY <1>2, Zenon DEF Passive
      <3> QED
        BY <3>1, SMT DEF Dialled
    <2>2. ~Expects'
      BY <1>4, SMT DEF Expects
    <2> QED
      BY <1>1, <1>2, <1>5, <2>1, <2>2, SMT DEF Queues, Side
  <1> QED
    BY <1>2, <1>6, <1>7, <1>8, <1>9, Zenon DEF Sound, Lock

\* The client binds a listener and tells the server.
LEMMA RebindKeeps ==
  ASSUME Sound, Alive', NEW n, BindPort(n) \subseteq Port, Rebind(n), SameServer,
         UNCHANGED <<open, addr, cType>>,
         \/ cpc \in AtUser /\ toClient' = toClient
         \/ cpc = "passReply" /\ Answered /\ toClient' = <<>>
  PROVE  Lock'
  <1>1. DataTypeOK
    BY DEF Sound, TypeOK, NetTypeOK
  <1>2. PICK p \in BindPort(n) :
          /\ listener' = [listener EXCEPT !["client"] = p]
          /\ backlog' = [backlog EXCEPT !["client"] = <<>>]
          /\ toServer' = Append(toServer, PortCmd(p)) /\ cpc' = "reply"
          /\ cjob' = PortCmd(p)
    <2>1. cpc' # "dying"
      BY Zenon DEF Alive, Over
    <2> QED
      BY <2>1, SoundTalk, Zenon DEF Rebind
  <1>3. /\ p \in Port /\ p # NoPort /\ p \in PortNumber
        /\ PortCmd(p) \in Command /\ PortCmd(p).verb = "PORT"
        /\ PortCmd(p).arg = Plain /\ PortCmd(p).port = SplitPort(p)
    BY <1>2, PortCmdType, NetAssumption, SMT DEF PortCmd
  <1>4. Asked' /\ request' = cjob' /\ toServer' # <<>>
    <2>1. toServer = <<>> /\ toClient' = <<>> /\ spc = "cmd"
      <3>1. CASE cpc \in AtUser
        <4>1. Quiet
          BY <3>1, Zenon DEF Sound, Lock, Talk
        <4>2. toClient' = toClient
          BY <3>1, SMT DEF AtUser
        <4> QED
          BY <4>1, <4>2, SoundTalk, MessageCount, Zenon DEF Quiet, Answers
      <3>2. CASE cpc = "passReply"
        BY <3>2, SMT DEF Answered, Answers, AtUser
      <3> QED
        BY <3>1, <3>2
    <2>2. Len(toServer') = 1 /\ Head(toServer') = PortCmd(p)
      BY <1>2, <1>3, <2>1, FirstMessage, Zenon
    <2>3. toServer' # <<>>
      BY <2>2, EmptySeq, MessageCount, SMT
    <2> QED
      BY <1>2, <2>1, <2>2, <2>3, Zenon DEF Asked, request, SameServer
  <1>5. \A s \in Side : backlog'[s] = <<>>
    <2>1. \A s \in Side : backlog[s] = <<>>
      BY NothingQueued, SMT
    <2> QED
      BY <1>1, <1>2, <2>1, SMT DEF DataTypeOK, Side
  <1>6. listener'["client"] = p
    BY <1>1, <1>2, SMT DEF DataTypeOK, Side
  <1>7. /\ cpc' = "reply" /\ cjob'.verb = "PORT" /\ cjob'.arg = Plain
        /\ JoinPort(cjob'.port) = p /\ ~Fetching(cjob)'
    <2>1. JoinPort(SplitPort(p)) = p
      BY <1>3, PortRoundTrip, Zenon
    <2> QED
      BY <1>2, <1>3, <2>1, SMT DEF Fetching
  <1>8. Talk'
    BY <1>4, <1>7, SMT DEF Talk, AtUser, AskedJob
  <1>9. Modes'
    BY <1>3, <1>4, <1>6, <1>7, SMT DEF Modes, Switching
  <1>10. SameType'
    <2>1. sType = cType
      BY SMT DEF Sound, Lock, SameType, AtUser
    <2> QED
      BY <1>4, <2>1, SMT DEF SameType, SameServer
  <1>11. Queues'
    BY <1>4, <1>5, <1>7, SMT DEF Queues, Dialled, Expects, Side
  <1>12. NotInVain'
    BY <1>7, SMT DEF NotInVain
  <1> QED
    BY <1>8, <1>9, <1>10, <1>11, <1>12, Zenon DEF Sound, Lock

-----------------------------------------------------------------------------
(***************************************************************************)
(* Logging in, and what the user types.                                    *)
(***************************************************************************)
\* A reply to what is not a transfer: the server is back at its next command.
LEMMA AnswerCame ==
  ASSUME Sound, toClient # <<>>,
         \/ cpc \in {"greet", "userReply", "passReply"}
         \/ cpc = "reply" /\ ~Fetching(cjob)
  PROVE  Answered
  <1>1. ~Asked /\ ~Answers(0)
    BY SoundTalk, MessageCount, SMT DEF Asked, Answers
  <1> QED
    BY <1>1, SMT DEF Sound, Lock, Talk, AskedFor, AskedJob

LEMMA HearsLoginKeeps ==
  ASSUME Sound, ClientHearsGreeting \/ ClientHearsUserReply, SameServer
  PROVE  Lock'
  <1>1. /\ toClient # <<>> /\ toClient' = Tail(toClient) /\ toServer' = toServer
        /\ cpc \in {"greet", "userReply"} /\ cpc' \in AtUser
        /\ open' = open /\ listener' = listener /\ addr' = addr
        /\ backlog' = backlog /\ cType' = cType /\ cLoggedIn' = cLoggedIn
    BY SMT DEF ClientHearsGreeting, ClientHearsUserReply, Hears, dataVars, AtUser
  <1>2. Quiet'
    BY <1>1, AnswerCame, AnswerHeard, SMT
  <1>3. sType' = cType'
    BY <1>1, SMT DEF Sound, Lock, SameType, SameServer
  <1>4. cLoggedIn' => Active' \/ Passive'
    BY <1>1, ModeKept, SMT DEF Switching
  <1>5. \A s \in Side : backlog'[s] = <<>>
    BY <1>1, NothingQueued, SMT
  <1> QED
    BY <1>1, <1>2, <1>3, <1>4, <1>5, ReturnKeeps, Zenon

LEMMA HearsPassReplyKeeps ==
  ASSUME Sound, Alive', ClientHearsPassReply, SameServer PROVE Lock'
  <1>1. /\ toClient # <<>> /\ toClient' = Tail(toClient) /\ cpc = "passReply"
        /\ UNCHANGED <<open, addr, cType>>
        /\ cLoggedIn' = (cLoggedIn \/ loginOk)
    BY Zenon DEF ClientHearsPassReply
  <1>2. Answered /\ toClient' = <<>> /\ (toServer' = toServer => Quiet')
    BY <1>1, AnswerCame, AnswerHeard, SMT
  <1>3. CASE loginOk /\ ~cLoggedIn
    <2>1. Rebind(listener["client"])
      BY <1>3, Zenon DEF ClientHearsPassReply
    <2>2. BindPort(listener["client"]) \subseteq Port
      <3>1. listener["client"] \in Port \cup {NoPort}
        BY SMT DEF Sound, TypeOK, NetTypeOK, DataTypeOK, Side
      <3> QED
        BY <3>1, BindPortType, Zenon
    <2> QED
      BY <1>1, <1>2, <2>1, <2>2, RebindKeeps, Zenon
  <1>4. CASE ~(loginOk /\ ~cLoggedIn)
    <2>1. /\ toServer' = toServer /\ cpc' \in {"prompt", "pass"}
          /\ listener' = listener /\ backlog' = backlog
      BY <1>4, Zenon DEF ClientHearsPassReply
    <2>2. cLoggedIn' => cLoggedIn
      BY <1>1, <1>4, Zenon
    <2>3. cLoggedIn' => Active' \/ Passive'
      BY <1>1, <2>1, <2>2, ModeKept, SMT DEF Switching
    <2>4. sType' = cType'
      BY <1>1, SMT DEF Sound, Lock, SameType, SameServer
    <2>5. \A s \in Side : backlog'[s] = <<>>
      BY <1>1, <2>1, NothingQueued, SMT
    <2>6. cpc' \in AtUser
      BY <2>1, SMT DEF AtUser
    <2> QED
      BY <1>1, <1>2, <2>1, <2>3, <2>4, <2>5, <2>6, ReturnKeeps, Zenon
  <1> QED
    BY <1>3, <1>4

LEMMA TypesLoginKeeps ==
  ASSUME Sound, Alive', TypeUser \/ TypePassword \/ TypeQuit, SameServer
  PROVE  Lock'
  <1>1. /\ cpc \in AtUser
        /\ UNCHANGED <<open, listener, addr, backlog, cType, cLoggedIn>>
        /\ toClient' = toClient
    BY SMT DEF TypeUser, TypePassword, TypeQuit, Tell, ctlVars, dataVars, AtUser
  <1>2. PICK c \in Command, pc \in {"userReply", "passReply", "bye"} :
          /\ Tell(c, pc)
          /\ \/ c.verb = "USER" /\ pc = "userReply"
             \/ c.verb = "PASS" /\ pc = "passReply"
             \/ c.verb = "QUIT" /\ pc = "bye"
    <2>1. cpc' # "dying"
      BY Zenon DEF Alive, Over
    <2>2. CASE TypeUser
      <3>1. cpc = "user"
        BY <2>2, SMT DEF TypeUser, Sound, Orderly
      <3>2. PICK u \in TypedUser : Tell(Cmd("USER", u), "userReply")
        BY <2>1, <2>2, <3>1, Zenon DEF TypeUser
      <3>3. Cmd("USER", u) \in Command /\ Cmd("USER", u).verb = "USER"
        <4>1. u \in ArgOf("USER") \cap Arg
          BY ClientAssumption, SMT DEF ArgOf, Arg
        <4> QED
          BY <4>1, CmdType, CmdVerb, SMT DEF Verb
      <3> QED
        BY <3>2, <3>3, SMT
    <2>3. CASE TypePassword
      <3>1. PICK w \in TypedSecret : Tell(Cmd("PASS", w), "passReply")
        BY <2>1, <2>3, Zenon DEF TypePassword
      <3>2. Cmd("PASS", w) \in Command /\ Cmd("PASS", w).verb = "PASS"
        <4>1. w \in ArgOf("PASS") \cap Arg
          BY ClientAssumption, SMT DEF ArgOf, Arg
        <4> QED
          BY <4>1, CmdType, CmdVerb, SMT DEF Verb
      <3> QED
        BY <3>1, <3>2, SMT
    <2>4. CASE TypeQuit
      <3>1. Cmd("QUIT", Plain) \in Command /\ Cmd("QUIT", Plain).verb = "QUIT"
        <4>1. Plain \in ArgOf("QUIT") \cap Arg
          BY SMT DEF ArgOf, Arg
        <4> QED
          BY <4>1, CmdType, CmdVerb, SMT DEF Verb
      <3>2. Tell(Cmd("QUIT", Plain), "bye")
        BY <2>4, Zenon DEF TypeQuit
      <3> QED
        BY <3>1, <3>2, SMT
    <2> QED
      BY <2>2, <2>3, <2>4
  <1>3. toServer' = Append(toServer, c) /\ cpc' = pc
    BY <1>2, Tells, Zenon
  <1>4. Asked' /\ request' = c
    <2>1. Quiet /\ TypeOK
      BY <1>1, Zenon DEF Sound, Lock, Talk
    <2> QED
      BY <1>1, <1>3, <2>1, QuietAsked, Zenon
  <1>5. NotInVain'
    BY <1>2, <1>3, SMT DEF NotInVain
  <1>6. \/ cpc' = "userReply" /\ request'.verb = "USER"
        \/ cpc' = "passReply" /\ request'.verb = "PASS"
        \/ cpc' = "bye" /\ request'.verb = "QUIT"
    BY <1>2, <1>3, <1>4, Zenon
  <1> QED
    BY <1>1, <1>4, <1>5, <1>6, AskKeeps, Zenon

LEMMA SendPlainKeeps ==
  ASSUME Sound, TypeOK', SendPlain, SameServer PROVE Lock'
  <1>1. /\ cpc = "prompt" /\ cpc \in AtUser /\ Tell(cjob', "reply")
        /\ UNCHANGED <<listener, addr, backlog, cType, cLoggedIn>>
    BY SMT DEF SendPlain, Types, dataVars, AtUser
  <1>2. /\ ~Fetching(cjob)' /\ cjob'.verb # "PORT"
        /\ cjob'.verb = "PASV" => cjob'.arg = Plain
    BY SMT DEF SendPlain, Fetching, Cmd
  <1>3. cjob' \in Command
    BY DEF TypeOK, ClientTypeOK
  <1>4. /\ toServer' = Append(toServer, cjob') /\ cpc' = "reply"
        /\ toClient' = toClient /\ open' = open
    BY <1>1, Tells, Zenon
  <1>5. Asked' /\ request' = cjob'
    <2>1. Quiet /\ TypeOK
      BY <1>1, Zenon DEF Sound, Lock, Talk
    <2> QED
      BY <1>3, <1>4, <2>1, QuietAsked, Zenon
  <1>6. NotInVain'
    <2>1. cjob'.verb \notin {"RETR", "STOR"}
      BY <1>2, Zenon DEF Fetching
    <2> QED
      BY <2>1, SMT DEF NotInVain
  <1> QED
    BY <1>1, <1>2, <1>4, <1>5, <1>6, AskKeeps, Zenon

LEMMA TypeTransferKeeps ==
  ASSUME Sound, TypeOK', TypeTransfer, ~AsksInVain', SameServer PROVE Lock'
  <1>1. /\ cpc = "prompt" /\ cpc \in AtUser
        /\ UNCHANGED <<listener, addr, backlog, cType, cLoggedIn, file>>
    BY SMT DEF TypeTransfer, Types, dataVars, AtUser
  <1>2. /\ Tell(cjob', IF listener["client"] = NoPort THEN "dial" ELSE "reply")
        /\ Fetching(cjob)'
    BY SMT DEF TypeTransfer, Fetching, Cmd
  <1>3. cjob' \in Command
    BY DEF TypeOK, ClientTypeOK
  <1>4. /\ toServer' = Append(toServer, cjob')
        /\ cpc' = IF listener["client"] = NoPort THEN "dial" ELSE "reply"
        /\ toClient' = toClient /\ open' = open
    <2>1. PICK pc : /\ Tell(cjob', pc)
                    /\ pc = IF listener["client"] = NoPort THEN "dial" ELSE "reply"
      BY <1>2
    <2> QED
      BY <2>1, Tells
  <1>5. Asked' /\ request' = cjob'
    <2>1. Quiet /\ TypeOK
      BY <1>1, Zenon DEF Sound, Lock, Talk
    <2> QED
      BY <1>3, <1>4, <2>1, QuietAsked, Zenon
  <1>6. NotInVain'
    <2>1. cpc' \in {"dial", "reply"} /\ (Passive' => cpc' = "dial")
      BY <1>1, <1>4, Zenon DEF Passive
    <2> QED
      BY <1>2, <2>1, SMT DEF NotInVain, AsksInVain
  <1> QED
    BY <1>1, <1>2, <1>4, <1>5, <1>6, AskKeeps, Zenon

LEMMA TypePassKeeps ==
  ASSUME Sound, TypePass, SameServer PROVE Lock'
  <1>1. /\ cpc = "prompt" /\ cpc' = "pass"
        /\ toServer' = toServer /\ toClient' = toClient /\ open' = open
        /\ listener' = listener /\ addr' = addr /\ backlog' = backlog
        /\ cType' = cType /\ cLoggedIn' = cLoggedIn
    BY SMT DEF TypePass, Types, ctlVars, dataVars
  <1>2. Quiet'
    <2>1. Quiet
      BY <1>1, SMT DEF Sound, Lock, Talk, AtUser
    <2> QED
      BY <1>1, <2>1, Zenon DEF Quiet, Answers, SameServer
  <1>3. sType' = cType'
    BY <1>1, SMT DEF Sound, Lock, SameType, SameServer
  <1>4. cLoggedIn' => Active' \/ Passive'
    BY <1>1, ModeKept, SMT DEF Switching
  <1>5. \A s \in Side : backlog'[s] = <<>>
    BY <1>1, NothingQueued, SMT DEF AtUser
  <1>6. cpc' \in AtUser
    BY <1>1, SMT DEF AtUser
  <1> QED
    BY <1>1, <1>2, <1>3, <1>4, <1>5, <1>6, ReturnKeeps, Zenon

LEMMA TypePortKeeps ==
  ASSUME Sound, Alive', TypePort, SameServer PROVE Lock'
  <1>1. PICK n \in TypedPort : Rebind(n)
    BY Zenon DEF TypePort
  <1>2. /\ BindPort(n) \subseteq Port /\ cpc \in AtUser
        /\ UNCHANGED <<open, addr, cType>> /\ toClient' = toClient
    BY ClientAssumption, SMT DEF TypePort, Types, AtUser
  <1> QED
    BY <1>1, <1>2, RebindKeeps, Zenon

-----------------------------------------------------------------------------
(***************************************************************************)
(* The replies, and the client's side of a transfer.                       *)
(***************************************************************************)
LEMMA HearsReplyKeeps ==
  ASSUME Sound, ClientHearsReply, SameServer PROVE Lock'
  <1>1. /\ cpc = "reply" /\ ~Fetching(cjob) /\ toClient # <<>>
        /\ toClient' = Tail(toClient) /\ toServer' = toServer /\ open' = open
        /\ cpc' = "prompt" /\ cLoggedIn' = cLoggedIn
        /\ cType' = IF cjob.verb = "TYPE" /\ reply.code = 200 THEN cjob.arg ELSE cType
    BY Zenon DEF ClientHearsReply, Hears
  <1>2. Answered /\ Quiet' /\ toServer = <<>>
    BY <1>1, AnswerCame, AnswerHeard, Zenon DEF Answered, Answers
  <1>3. sType' = cType'
    BY <1>1, <1>2, SMT DEF Sound, Lock, SameType, SameServer
  <1>4. \A s \in Side : backlog[s] = <<>>
    BY <1>1, NothingQueued, SMT
  <1>5. DataTypeOK
    BY DEF Sound, TypeOK, NetTypeOK
  <1>6. cpc' \in AtUser
    BY <1>1, SMT DEF AtUser
  <1>7. CASE cjob.verb = "PASV"
    <2>1. /\ listener["server"] # NoPort
          /\ reply.code = 227 /\ JoinPort(reply.port) = listener["server"]
      BY <1>1, <1>2, <1>7, Zenon DEF Sound, Lock, Modes
    <2>2. /\ addr' = [addr EXCEPT !["client"] = JoinPort(reply.port)]
          /\ StopListening("client")
      BY <1>7, <2>1, Zenon DEF ClientHearsReply
    <2>3. Passive'
      BY <1>5, <2>1, <2>2, SMT DEF StopListening, DataTypeOK, Passive, Side
    <2>4. \A s \in Side : backlog'[s] = <<>>
      BY <1>4, <1>5, <2>2, SMT DEF StopListening, DataTypeOK, Side
    <2> QED
      BY <1>1, <1>2, <1>3, <1>6, <2>3, <2>4, ReturnKeeps, Zenon
  <1>8. CASE cjob.verb # "PASV"
    <2>1. listener' = listener /\ addr' = addr /\ backlog' = backlog
      BY <1>8, Zenon DEF ClientHearsReply
    <2>2. cLoggedIn' => Active' \/ Passive'
      <3>1. CASE cjob.verb = "PORT"
        <4>1. Active
          BY <1>1, <1>2, <3>1, Zenon DEF Sound, Lock, Modes
        <4> QED
          BY <2>1, <4>1, Zenon DEF Active
      <3>2. CASE cjob.verb # "PORT"
        BY <1>1, <1>8, <2>1, <3>2, ModeKept, SMT DEF Switching
      <3> QED
        BY <3>1, <3>2
    <2> QED
      BY <1>1, <1>2, <1>3, <1>4, <1>6, <2>1, <2>2, ReturnKeeps, Zenon
  <1> QED
    BY <1>7, <1>8

\* What a client that dials or waits for the server relies on.
LEMMA ClientFinds ==
  ASSUME Sound
  PROVE  /\ cpc = "dial" =>
              /\ Passive /\ CanConnect("client")
              /\ \A s \in Side : backlog[s] = <<>>
         /\ cpc = "link" =>
              /\ Active /\ ~Passive /\ backlog["server"] = <<>>
              /\ IF spc = "link" THEN backlog["client"] = <<>>
                 ELSE Len(backlog["client"]) = 1
  <1>1. cpc \in {"dial", "link"} => Fetching(cjob)
    BY SMT DEF Sound, TypeOK, ClientTypeOK, Transferring
  <1>2. ASSUME cpc = "dial"
        PROVE  Passive /\ CanConnect("client") /\ \A s \in Side : backlog[s] = <<>>
    <2>1. Passive /\ ~Active
      BY <1>1, <1>2, TransferMode, SMT
    <2>2. \A s \in Side : backlog[s] = <<>>
      BY <1>2, <2>1, SMT DEF Sound, Lock, Queues, Dialled, Expects, Side
    <2>3. spc \in {"cmd", "link"}
      BY <1>2, SMT DEF Sound, Lock, Talk, AskedJob, Asked
    <2>4. \A s \in Side : data[s] = NoConn
      BY <1>2, <2>3, SMT
      DEF Sound, HeldInv, ServerEmpty, ServerIdle, ClientEmpty, ClientUnlinked,
          ClientIdle, Side
    <2>5. FreeConn # {}
      BY <2>2, <2>4, AllFree, Zenon
    <2>6. listener["server"] = addr["client"]
      BY <2>1, Zenon DEF Passive
    <2>7. Len(backlog["server"]) < Backlog
      <3>1. backlog["server"] = <<>>
        BY <2>2, ServerSide, Zenon
      <3> QED
        BY <3>1, NetAssumption, SMT DEF Sound, Orderly
    <2> QED
      BY <2>1, <2>2, <2>5, <2>6, <2>7, ClientSide, Zenon DEF CanConnect
  <1>3. ASSUME cpc = "link"
        PROVE  /\ Active /\ ~Passive /\ backlog["server"] = <<>>
               /\ IF spc = "link" THEN backlog["client"] = <<>>
                  ELSE Len(backlog["client"]) = 1
    <2>1. Active /\ ~Passive
      BY <1>3, Zenon DEF Sound, Lock, Queues, Active, Passive
    <2> QED
      BY <1>1, <1>3, <2>1, SMT DEF Sound, Lock, Queues, Dialled, Expects
  <1> QED
    BY <1>2, <1>3

LEMMA DialsKeeps ==
  ASSUME Sound, ClientDials, SameServer PROVE Lock'
  <1>1. /\ cpc = "dial" /\ Fetching(cjob)
        /\ toServer' = toServer /\ toClient' = toClient /\ open' = open
        /\ cType' = cType /\ cLoggedIn' = cLoggedIn /\ file' = file
    BY SMT DEF ClientDials, ctlVars, Sound, TypeOK, ClientTypeOK, Transferring
  <1>2. Passive /\ CanConnect("client") /\ \A s \in Side : backlog[s] = <<>>
    BY <1>1, ClientFinds, Zenon
  <1>3. Connect("client") /\ cpc' = "reply" /\ cjob' = cjob
    BY <1>2, Zenon DEF ClientDials, ConnectFails, Sound, Orderly
  <1>4. PICK c \in ConnId :
          /\ backlog' = [backlog EXCEPT !["server"] = Append(@, c)]
          /\ listener' = listener /\ addr' = addr
    <2> DEFINE c == CHOOSE c \in FreeConn : TRUE
    <2>1. c \in ConnId
      BY <1>2, SMT DEF CanConnect, FreeConn
    <2>2. /\ backlog' = [backlog EXCEPT !["server"] = Append(@, c)]
          /\ listener' = listener /\ addr' = addr
      BY <1>3, ClientSide, Zenon DEF Connect
    <2> QED
      BY <2>1, <2>2, Zenon
  <1>5. Len(backlog'["server"]) = 1 /\ backlog'["client"] = <<>>
    <2>1. /\ backlog'["server"] = Append(<<>>, c)
          /\ backlog'["client"] = <<>>
      <3>1. DataTypeOK
        BY DEF Sound, TypeOK, NetTypeOK
      <3>2. backlog["server"] = <<>> /\ backlog["client"] = <<>>
        BY <1>2, ServerSide, ClientSide, Zenon
      <3> QED
        BY <1>4, <3>1, <3>2, SMT DEF DataTypeOK, Side
    <2> QED
      BY <2>1, FirstMessage, Zenon
  <1>6. /\ Passive' /\ ~Active' /\ Fetching(cjob)'
        /\ (AskedJob' <=> AskedJob) /\ (Announced' <=> Announced)
    BY <1>1, <1>2, <1>3, <1>4, Zenon
    DEF Passive, Active, Fetching, AskedJob, Asked, Announced, Carries, Answers,
        request, reply, SameServer
  <1>7. AskedJob \/ (Announced /\ spc = "link")
    BY <1>1, Zenon DEF Sound, Lock, Talk
  <1>8. Talk'
    BY <1>3, <1>6, <1>7, SMT DEF Talk, AtUser
  <1>9. Modes'
    BY <1>3, <1>6, SMT DEF Modes, Fetching
  <1>10. SameType'
    BY <1>1, <1>3, <1>6, SMT DEF Sound, Lock, SameType, SameServer, Fetching
  <1>11. Queues'
    <2>1. toServer' # <<>> \/ spc' = "link"
      <3>1. AskedJob => toServer # <<>>
        BY SoundTalk, LastMessage, Zenon DEF AskedJob, Asked
      <3> QED
        BY <1>1, <1>7, <3>1, Zenon DEF SameServer
    <2>2. Dialled' /\ ~Expects'
      BY <1>3, <1>6, SMT DEF Dialled, Expects
    <2> QED
      BY <1>3, <1>5, <1>6, <2>1, <2>2, SMT DEF Queues
  <1>12. NotInVain'
    BY <1>1, <1>2, <1>3, SMT DEF Sound, Lock, NotInVain
  <1> QED
    BY <1>1, <1>8, <1>9, <1>10, <1>11, <1>12, Zenon DEF Sound, Lock

LEMMA HearsOpeningKeeps ==
  ASSUME Sound, ClientHearsOpening, SameServer PROVE Lock'
  <1>1. /\ cpc = "reply" /\ Fetching(cjob) /\ toClient # <<>>
        /\ toClient' = Tail(toClient) /\ toServer' = toServer /\ open' = open
        /\ cType' = cType /\ cLoggedIn' = cLoggedIn /\ file' = file
    BY Zenon DEF ClientHearsOpening, Hears
  <1>2. (Refused /\ Active) \/ Announced
    <2>1. ~AskedJob
      BY <1>1, Zenon DEF AskedJob, Asked
    <2> QED
      BY <1>1, <2>1, Zenon DEF Sound, Lock, Talk
  <1>3. Active \/ Passive
    BY <1>1, TransferMode, SMT
  <1>4. ~Switching
    BY <1>1, SMT DEF Switching, Fetching
  <1>5. sType = cType
    BY <1>1, SMT DEF Sound, Lock, SameType, Fetching
  <1>6. CASE Refused /\ Active
    <2>1. /\ cpc' = "prompt" /\ UNCHANGED <<listener, addr, backlog>>
      BY <1>6, Zenon DEF ClientHearsOpening, Refused, DropData
    <2>2. Quiet'
      BY <1>1, <1>6, AnswerHeard, Zenon DEF Refused
    <2>3. \A s \in Side : backlog'[s] = <<>>
      BY <1>1, <1>6, <2>1, NothingQueued, SMT
    <2>4. Active'
      BY <1>6, <2>1, Zenon DEF Active
    <2>5. sType' = cType' /\ cpc' \in AtUser
      BY <1>1, <1>5, <2>1, SMT DEF SameServer, AtUser
    <2> QED
      BY <1>1, <2>2, <2>3, <2>4, <2>5, ReturnKeeps, Zenon
  <1>7. CASE Announced
    <2>1. /\ cpc' = IF listener["client"] = NoPort THEN "open" ELSE "link"
          /\ cjob' = cjob /\ listener' = listener /\ addr' = addr /\ backlog' = backlog
      BY <1>7, Zenon DEF ClientHearsOpening, Announced, dataVars
    <2>2. Carries(0)' /\ toServer' = <<>>
      <3>1. Len(toClient') = Len(toClient) - 1 /\ toServer = <<>>
        BY <1>1, <1>7, SoundTalk, MessageCount, SMT DEF Announced, Carries, Answers
      <3> QED
        BY <1>1, <1>7, <3>1, SMT DEF Announced, Carries, Answers, SameServer
    <2>3. /\ (Active' <=> Active) /\ (Passive' <=> Passive) /\ Fetching(cjob)'
      BY <1>1, <2>1, Zenon DEF Active, Passive, Fetching
    <2>4. IF Active THEN cpc' = "link" ELSE cpc' = "open"
      BY <1>3, <2>1, Zenon DEF Active, Passive
    <2>5. Talk'
      BY <2>2, <2>4, SMT DEF Talk, AtUser
    <2>6. Modes'
      BY <1>3, <2>3, <2>4, SMT DEF Modes
    <2>7. SameType'
      BY <1>1, <1>5, <2>4, SMT DEF SameType, SameServer
    <2>8. Queues'
      <3>1. (Dialled' <=> Dialled) /\ (Expects' <=> Expects)
        BY <1>1, <1>3, <1>7, <2>3, <2>4, SMT DEF Dialled, Expects, Active, Passive
      <3>2. spc' = spc
        BY Zenon DEF SameServer
      <3> QED
        BY <1>1, <2>1, <2>3, <2>4, <3>1, <3>2, SMT DEF Sound, Lock, Queues
    <2>9. NotInVain'
      BY <1>1, <2>1, <2>4, SMT DEF Sound, Lock, NotInVain
    <2> QED
      BY <1>1, <2>5, <2>6, <2>7, <2>8, <2>9, Zenon DEF Sound, Lock
  <1> QED
    BY <1>2, <1>6, <1>7

\* The client goes on with a transfer; the server's side of it stands.
LEMMA ProceedKeeps ==
  ASSUME Sound, cpc \in {"link", "open", "recv"}, cpc' \in {"open", "recv", "done"},
         UNCHANGED <<toServer, toClient, open, cType, cLoggedIn, cjob, listener, addr>>,
         SameServer, ~(Active /\ spc = "link"),
         backlog'["server"] = backlog["server"], backlog'["client"] = <<>>,
         cpc' = "open" => file' = file /\ cpc = "link"
  PROVE  Lock'
  <1>1. Fetching(cjob)
    BY SMT DEF Sound, TypeOK, ClientTypeOK, Transferring
  <1>2. /\ toServer' = toServer /\ toClient' = toClient /\ open' = open
        /\ cType' = cType /\ cLoggedIn' = cLoggedIn /\ cjob' = cjob
        /\ listener' = listener /\ addr' = addr /\ spc' = spc /\ sType' = sType
    BY Zenon DEF SameServer
  <1>3. /\ (Active' <=> Active) /\ (Passive' <=> Passive) /\ Fetching(cjob)'
        /\ Active \/ Passive
    <2>1. Active \/ Passive
      BY <1>1, TransferMode, SMT
    <2> QED
      BY <1>1, <1>2, <2>1, Zenon DEF Active, Passive, Fetching
  <1>4. Carries(0)' /\ toServer' = <<>>
    <2>1. Carries(0)
      BY SMT DEF Sound, Lock, Talk
    <2> QED
      BY <1>2, <2>1, Zenon DEF Carries, Answers
  <1>5. Talk'
    BY <1>4, SMT DEF Talk, AtUser
  <1>6. Modes'
    BY <1>3, SMT DEF Modes
  <1>7. SameType'
    BY <1>2, SMT DEF Sound, Lock, SameType
  <1>8. Queues'
    <2>1. Dialled' <=> Dialled
      <3>1. cpc = "link" => ~Passive
        BY ClientFinds, Zenon
      <3> QED
        BY <1>1, <1>2, <1>3, <3>1, SMT DEF Dialled
    <2>2. ~Expects'
      BY SMT DEF Expects
    <2>3. IF Dialled /\ (toServer # <<>> \/ spc = "link")
          THEN Len(backlog["server"]) = 1 ELSE backlog["server"] = <<>>
      BY Zenon DEF Sound, Lock, Queues
    <2> QED
      BY <1>2, <1>3, <2>1, <2>2, <2>3, SMT DEF Queues
  <1>9. NotInVain'
    BY <1>2, SMT DEF Sound, Lock, NotInVain
  <1> QED
    BY <1>2, <1>5, <1>6, <1>7, <1>8, <1>9, Zenon DEF Sound, Lock

LEMMA AcceptsKeeps ==
  ASSUME Sound, ClientAccepts, SameServer PROVE Lock'
  <1>1. /\ cpc = "link" /\ cpc' = "open" /\ Accept("client")
        /\ UNCHANGED <<toServer, toClient, open, cType, cLoggedIn, cjob, file>>
    BY Zenon DEF ClientAccepts, ctlVars
  <1>2. /\ backlog["client"] # <<>>
        /\ backlog' = [backlog EXCEPT !["client"] = Tail(@)]
        /\ UNCHANGED <<listener, addr>>
    BY <1>1, Zenon DEF Accept
  <1>3. spc # "link" /\ Len(backlog["client"]) = 1
    BY <1>1, <1>2, ClientFinds, Zenon
  <1>4. DataTypeOK /\ backlog["client"] \in Seq(ConnId)
    BY SMT DEF Sound, TypeOK, NetTypeOK, DataTypeOK, Side
  <1>5. Tail(backlog["client"]) = <<>>
    BY <1>3, <1>4, LastMessage, Zenon
  <1>6. backlog'["server"] = backlog["server"] /\ backlog'["client"] = <<>>
    BY <1>2, <1>4, <1>5, SMT DEF DataTypeOK, Side
  <1> QED
    BY <1>1, <1>2, <1>3, <1>6, ProceedKeeps, SMT

LEMMA DataKeeps ==
  ASSUME Sound, Alive', ClientOpensLocal \/ ClientSends \/ ClientReceives,
         SameServer
  PROVE  Lock'
  <1>1. cpc \in {"open", "recv"} /\ cpc' \notin {"dying", "killed"}
    BY SMT DEF ClientOpensLocal, ClientSends, ClientReceives, Alive, Over
  <1>2. /\ cpc' \in {"recv", "done"} /\ cjob' = cjob
        /\ UNCHANGED <<toServer, toClient, open, listener, addr, backlog>>
    <2>1. CASE ClientOpensLocal
      <3>1. cjob.arg \notin ReadOnly["client"]
        BY <2>1, Zenon DEF ClientOpensLocal, Sound, Lock, NotInVain
      <3> QED
        BY <2>1, <3>1, SMT DEF ClientOpensLocal, ctlVars, dataVars
    <2>2. CASE ClientSends
      <3>1. file["client"][cjob.arg] # Absent
        BY <2>2, Zenon DEF ClientSends, Sound, Lock, NotInVain
      <3>2. cpc' = "done" /\ cjob' = cjob
        BY <1>1, <2>2, <3>1, SMT DEF ClientSends
      <3> QED
        BY <2>2, <3>2, Zenon DEF ClientSends, ctlVars
    <2>3. CASE ClientReceives
      <3>1. cpc' = "done"
        BY <1>1, <2>3, SMT DEF ClientReceives
      <3> QED
        BY <2>3, <3>1, Zenon DEF ClientReceives, DropData, ctlVars
    <2> QED
      BY <2>1, <2>2, <2>3
  <1>3. UNCHANGED <<cType, cLoggedIn>>
    BY Zenon DEF ClientOpensLocal, ClientSends, ClientReceives
  <1>4. ~(Active /\ spc = "link") /\ backlog["client"] = <<>>
    BY <1>1, SMT DEF Sound, Lock, Queues, Expects
  <1> QED
    BY <1>1, <1>2, <1>3, <1>4, ProceedKeeps, SMT

LEMMA HearsDoneKeeps ==
  ASSUME Sound, ClientHearsDone, SameServer PROVE Lock'
  <1>1. /\ cpc = "done" /\ cpc' = "prompt" /\ toClient # <<>>
        /\ toClient' = Tail(toClient) /\ toServer' = toServer /\ open' = open
        /\ listener' = listener /\ addr' = addr /\ backlog' = backlog
        /\ cType' = cType /\ cLoggedIn' = cLoggedIn
    BY Zenon DEF ClientHearsDone, Hears, dataVars
  <1>2. Answered
    <2>1. ~Answers(0)
      BY <1>1, SoundTalk, MessageCount, SMT DEF Answers
    <2> QED
      BY <1>1, <2>1, SMT DEF Sound, Lock, Talk, Carries, Answered
  <1>3. Quiet'
    BY <1>1, <1>2, AnswerHeard, Zenon
  <1>4. sType' = cType'
    BY <1>1, SMT DEF Sound, Lock, SameType, SameServer
  <1>5. cLoggedIn' => Active' \/ Passive'
    BY <1>1, ModeKept, SMT DEF Switching
  <1>6. \A s \in Side : backlog'[s] = <<>>
    BY <1>1, <1>2, NothingQueued, SMT DEF Answered
  <1>7. cpc' \in AtUser
    BY <1>1, SMT DEF AtUser
  <1> QED
    BY <1>1, <1>3, <1>4, <1>5, <1>6, <1>7, ReturnKeeps, Zenon

\* The wait at the client's listener ends with a connection.
LEMMA ClientNeverTimesOut ==
  ASSUME Sound PROVE ~ClientTimesOut
  <1> SUFFICES ASSUME ClientTimesOut PROVE FALSE
    OBVIOUS
  <1>1. cpc = "link" /\ backlog["client"] = <<>> /\ ServerWaits
    BY Zenon DEF ClientTimesOut, ClientFailsAccept, AcceptTimesOut, Sound, Orderly
  <1>2. spc = "link" /\ Active
    <2>1. Len(backlog["client"]) # 1
      <3>1. backlog["client"] \in Seq(ConnId)
        BY SMT DEF Sound, TypeOK, NetTypeOK, DataTypeOK, Side
      <3> QED
        BY <1>1, <3>1, LastMessage, Zenon
    <2> QED
      BY <1>1, <2>1, ClientFinds, Zenon
  <1> QED
    BY <1>1, <1>2, SMT DEF ServerWaits, Active

LEMMA ClientKeepsLock ==
  ASSUME Sound, Alive', ClientAction PROVE Lock'
  <1>1. UNCHANGED serverVars /\ (ClientStep \/ ClientTimesOut)
    BY Zenon DEF ClientAction
  <1>2. SameServer
    BY <1>1, Zenon DEF SameServer, serverVars
  <1>3. cpc' \notin {"dying", "gone"}
    BY Zenon DEF Alive, Over
  <1>4. ~ClientLosesServer /\ ~ClientExits /\ ~ClientHearsBye
    BY <1>3, Zenon DEF ClientLosesServer, ClientExits, ClientHearsBye
  <1>5. ClientStep
    BY <1>1, ClientNeverTimesOut, Zenon
  <1> QED
    BY <1>2, <1>4, <1>5, HearsLoginKeeps, HearsPassReplyKeeps, HearsReplyKeeps,
       DialsKeeps, HearsOpeningKeeps, AcceptsKeeps, DataKeeps, HearsDoneKeeps,
       Zenon
    DEF ClientStep

LEMMA UserKeepsLock ==
  ASSUME Sound, TypeOK', Alive', UserAction PROVE Lock'
  <1>1. SameServer
    BY Zenon DEF UserAction, serverVars, SameServer
  <1>2. UserStep /\ ~AsksInVain'
    BY Zenon DEF UserAction, Sound, Orderly
  <1> QED
    BY <1>1, <1>2, TypesLoginKeeps, SendPlainKeeps, TypePassKeeps, TypePortKeeps,
       TypeTransferKeeps, Zenon
    DEF UserStep

-----------------------------------------------------------------------------
\* Nobody comes back to life.
ClientMoves ==
  ClientStep \/ ClientFailsAccept \/ UserStep \/ ClientInterrupted

LEMMA OverStays ==
  ASSUME ClientMoves, cpc \in Over PROVE cpc' \in Over
  BY SMT
  DEF ClientMoves, ClientStep, ClientHearsGreeting, ClientHearsUserReply,
      ClientHearsPassReply, ClientHearsReply, ClientDials, ClientHearsOpening,
      ClientAccepts, ClientOpensLocal, ClientSends, ClientReceives,
      ClientHearsDone, ClientHearsBye, ClientLosesServer, ClientExits,
      ClientFailsAccept, ClientInterrupted, UserStep, TypeUser, TypePassword,
      SendPlain, TypePass, TypePort, TypeQuit, TypeTransfer, Types, Listening,
      Over

ServerMoves == ServerStep \/ ServerFailsData \/ ServerInterrupted

LEMMA CommandsTaken ==
  ASSUME HandleCommand PROVE spc = "cmd"
  BY SMT
  DEF HandleCommand, HandleType, HandleModeOrStru, HandleUser, HandlePass,
      HandleQuit, HandlePort, HandlePasv, HandleRetr, HandleStor,
      HandleNoop, HandleNotImplemented, Refuse, Takes

LEMMA EndedExits ==
  ASSUME ServerMoves, spc \in Ended PROVE ServerExits
  <1>1. spc \notin {"greet", "cmd", "link", "move"}
    BY SMT DEF Ended
  <1>2. ~HandleCommand
    BY <1>1, CommandsTaken, Zenon
  <1>3. ~Greet /\ ~ServerOpensData /\ ~ServerFailsData
    BY <1>1, SMT DEF Greet, ServerOpensData, ServerFailsData
  <1>4. ~ServerSends /\ ~ServerReceives /\ ~ServerLosesClient
    BY <1>1, SMT DEF ServerSends, ServerReceives, ServerLosesClient
  <1>5. ~ServerInterrupted
    BY Zenon DEF ServerInterrupted
  <1> QED BY <1>2, <1>3, <1>4, <1>5, Zenon DEF ServerMoves, ServerStep

LEMMA AliveBefore ==
  ASSUME [Next]_vars, Alive' PROVE Alive
  <1>1. CASE UNCHANGED vars
    BY <1>1, SMT DEF vars, serverVars, clientVars, Alive
  <1>2. ASSUME ServerMoves, spc \in Ended PROVE spc' \in Ended
    BY <1>2, EndedExits, SMT DEF ServerExits, Ended
  <1>3. ASSUME ClientStep \/ ClientFailsAccept \/ UserStep \/ ClientInterrupted,
               cpc \in Over
        PROVE  cpc' \in Over
    BY <1>3, OverStays, Zenon DEF ClientMoves
  <1>4. /\ UNCHANGED serverVars => spc' = spc
        /\ UNCHANGED clientVars => cpc' = cpc
    BY Zenon DEF serverVars, clientVars
  <1> QED
    BY <1>1, <1>2, <1>3, <1>4, NextSplits, Zenon DEF Alive, ServerMoves

LEMMA InitLock == Init => Lock
  <1> SUFFICES ASSUME Init PROVE Lock
    OBVIOUS
  <1>1. /\ cpc = "greet" /\ spc = "greet" /\ ~cLoggedIn /\ sType = cType
        /\ toServer = <<>> /\ toClient = <<>> /\ open = Side
        /\ \A s \in Side : backlog[s] = <<>>
    BY SMT DEF Init, ServerInit, ClientInit
  <1>2. Answers(0)
    <2>1. Len(<<>>) = 0
      BY EmptySeq, MessageCount, Zenon
    <2> QED
      BY <1>1, <2>1, Zenon DEF Answers
  <1>3. Talk
    BY <1>1, <1>2, SMT DEF Talk, AtUser
  <1>4. Modes /\ SameType /\ NotInVain
    BY <1>1, SMT DEF Modes, SameType, NotInVain
  <1>5. Queues
    BY <1>1, SMT DEF Queues, Dialled, Expects, Side
  <1> QED
    BY <1>1, <1>3, <1>4, <1>5, Zenon DEF Lock

LEMMA StutterKeeps ==
  ASSUME Lock, UNCHANGED <<netVars, serverVars, clientVars>> PROVE Lock'
  <1>1. /\ toServer' = toServer /\ toClient' = toClient /\ open' = open
        /\ listener' = listener /\ addr' = addr /\ backlog' = backlog
        /\ file' = file /\ spc' = spc /\ sType' = sType /\ cpc' = cpc
        /\ cType' = cType /\ cLoggedIn' = cLoggedIn /\ cjob' = cjob
    BY Zenon DEF netVars, serverVars, clientVars
  <1>2. /\ (Active' <=> Active) /\ (Passive' <=> Passive)
        /\ (Fetching(cjob)' <=> Fetching(cjob)) /\ (Asked' <=> Asked)
        /\ request' = request /\ reply' = reply
        /\ \A n : Answers(n)' <=> Answers(n)
    BY <1>1, Zenon DEF Active, Passive, Fetching, Asked, request, reply, Answers
  <1>3. /\ (Quiet' <=> Quiet) /\ (Answered' <=> Answered)
        /\ (AskedJob' <=> AskedJob) /\ (\A v : AskedFor(v)' <=> AskedFor(v))
        /\ (Carries(0)' <=> Carries(0)) /\ (Carries(1)' <=> Carries(1))
    BY <1>1, <1>2, Zenon DEF Quiet, Answered, AskedJob, AskedFor, Carries
  <1>4. (Refused' <=> Refused) /\ (Announced' <=> Announced)
    BY <1>2, <1>3, Zenon DEF Refused, Announced
  <1>5. (Dialled' <=> Dialled) /\ (Expects' <=> Expects)
    BY <1>1, <1>2, <1>4, Zenon DEF Dialled, Expects
  <1>6. Talk'
    BY <1>1, <1>2, <1>3, <1>4, ZenonT(40) DEF Lock, Talk
  <1>7. Modes' /\ SameType' /\ NotInVain'
    BY <1>1, <1>2, Zenon DEF Lock, Modes, Switching, SameType, NotInVain
  <1>8. Queues'
    BY <1>1, <1>2, <1>5, Zenon DEF Lock, Queues
  <1> QED
    BY <1>1, <1>6, <1>7, <1>8, Zenon DEF Lock

LockInv == Alive => Lock

LEMMA StepKeepsLock ==
  Orderly /\ TypeOK /\ TypeOK' /\ LoginInv /\ HeldInv /\ LockInv /\ [Next]_vars
    => LockInv'
  <1> SUFFICES ASSUME Orderly, TypeOK, TypeOK', LoginInv, HeldInv, LockInv,
                      [Next]_vars, Alive'
               PROVE  Lock'
    BY DEF LockInv
  <1>1. Sound
    BY AliveBefore, Zenon DEF Sound, LockInv
  <1>2. CASE UNCHANGED vars
    <2>1. UNCHANGED <<netVars, serverVars, clientVars>>
      BY <1>2 DEF vars
    <2> QED
      BY <1>1, <2>1, StutterKeeps, Zenon DEF Sound
  <1>3. CASE Next
    <2>1. ~Interruption /\ ~Ends
      BY SMT
      DEF Interruption, ServerInterrupted, ClientInterrupted, Ends, Alive, Ended,
          Over, vars, serverVars, clientVars
    <2> QED
      BY <1>1, <1>3, <2>1, ServerKeepsLock, ClientKeepsLock, UserKeepsLock, Zenon
      DEF Next
  <1> QED
    BY <1>2, <1>3

LEMMA LockSettles ==
  Orderly /\ TypeOK /\ LoginInv /\ HeldInv /\ LockInv
    => PromptMeansSettled /\ SettledMeansAgreed
  <1> SUFFICES ASSUME Orderly, TypeOK, LoginInv, HeldInv, LockInv,
                      cpc = "prompt", Alive
               PROVE  /\ toServer = <<>> /\ toClient = <<>> /\ spc = "cmd"
                      /\ cType = sType
                      /\ \E s \in Side :
                           /\ listener[s] # NoPort /\ listener[Peer(s)] = NoPort
                           /\ addr[Peer(s)] = listener[s]
                      /\ \A s \in Side : backlog[s] = <<>>
    BY Zenon DEF PromptMeansSettled, SettledMeansAgreed
  <1>1. Sound
    BY DEF Sound, LockInv
  <1>2. cpc \in AtUser
    BY SMT DEF AtUser
  <1>3. Quiet
    BY <1>1, <1>2, Zenon DEF Sound, Lock, Talk
  <1>4. toServer = <<>> /\ toClient = <<>> /\ spc = "cmd"
    BY <1>1, <1>3, SoundTalk, MessageCount, Zenon DEF Quiet, Answers
  <1>5. cType = sType
    BY <1>1, SMT DEF Sound, Lock, SameType
  <1>6. \A s \in Side : backlog[s] = <<>>
    BY <1>1, <1>2, NothingQueued, SMT
  <1>7. Active \/ Passive
    <2>1. cLoggedIn
      BY SMT DEF LoginInv, BeyondLogin, ClientPc, AtUser, Over
    <2>2. ~Switching
      BY SMT DEF Switching
    <2> QED
      BY <1>1, <2>1, <2>2, Zenon DEF Sound, Lock, Modes
  <1>8. \E s \in Side : /\ listener[s] # NoPort /\ listener[Peer(s)] = NoPort
                       /\ addr[Peer(s)] = listener[s]
    BY <1>7, ServerSide, ClientSide, Zenon DEF Active, Passive
  <1> QED
    BY <1>4, <1>5, <1>6, <1>8, Zenon

(***************************************************************************)
(* Lockstep.  In orderly scenarios, whatever ends either process, breaks a *)
(* data connection or makes a file, a listener or a login fail, the client *)
(* asks for a command only when each of its commands has been answered     *)
(* once, every answer has been read, and run() of the server waits for the *)
(* next command.                                                           *)
(***************************************************************************)
THEOREM OrderlyPromptsAreSettled ==
  ASSUME Orderly PROVE Spec => []PromptMeansSettled
  <1> QED
    BY LockSettles, InitLock, StepKeepsLock, InitLogin, StepKeepsLogin, InitHeld,
       StepKeepsHeld, SessionTyped, PTL DEF Spec, LockInv

(***************************************************************************)
(* Agreement.  In the same scenarios, whenever the client asks for a       *)
(* command both ends hold the same representation type, exactly one of     *)
(* them listens, the other one holds the port it listens on, through every *)
(* PORT and PASV, and no connection is left on a listener.                 *)
(***************************************************************************)
THEOREM OrderlyPromptsAgree ==
  ASSUME Orderly PROVE Spec => []SettledMeansAgreed
  <1> QED
    BY LockSettles, InitLock, StepKeepsLock, InitLogin, StepKeepsLogin, InitHeld,
       StepKeepsHeld, SessionTyped, PTL DEF Spec, LockInv

-----------------------------------------------------------------------------
(***************************************************************************)
(* 226 means equal files.  The bytes of a transfer are followed from the   *)
(* file that is sent, over the connection both sides hold or have queued,  *)
(* to the file that is written.  226 may be read after the server has      *)
(* gone, so that part of the invariant does not ask for both to live.      *)
(***************************************************************************)
\* A broken connection and a full disk are acknowledged like a whole file.
Reliable == Faults \cap {"reset", "write"} = {}

Confirmed == \E i \in DOMAIN toClient : toClient[i].code = 226

\* The connection of the transfer, as the client and as the server finds it.
Accepting == cpc = "link" \/ (cpc = "reply" /\ listener["client"] # NoPort)
ClientEnd == IF Accepting THEN Head(backlog["client"]) ELSE data["client"]
ServerEnd == IF spc = "move" THEN data["server"] ELSE Head(backlog["server"])

\* Only s has its end of c open, and can read there b, encoded as of type t.
Holds(c, s, t, b) ==
  conn[c].ends = {s} /\ conn[c].wire[s] = Encode(t, b)

\* Both ends have the connection, and the server is not yet done with it.
Linked ==
  /\ Fetching(cjob)
  /\ spc = "move" \/ (Dialled /\ (toServer # <<>> \/ spc = "link"))

Paired ==
  /\ spc \in {"link", "move"} => sjob = cjob
  /\ Linked =>
       IF cpc = "done"
       THEN /\ cjob.verb = "STOR"
            /\ Holds(ServerEnd, "server", cType, file["client"][cjob.arg])
       ELSE ServerEnd = ClientEnd /\ conn[ServerEnd].ends = Side

\* What is true once the server has written 226.
Vouched ==
  /\ Fetching(cjob) /\ sType = cType /\ spc \notin {"link", "move"}
  /\ \/ cpc = "reply" /\ Len(toClient) = 2 /\ reply.code = 150
     \/ cpc \in {"link", "open", "recv", "done"} /\ Len(toClient) = 1
  /\ cjob.verb = "STOR" =>
       /\ cpc = "done"
       /\ file["server"][cjob.arg] =
            Decode(sType, Encode(cType, file["client"][cjob.arg]))
  /\ cjob.verb = "RETR" =>
       /\ cpc \notin {"recv", "done"} => cjob.arg \notin ReadOnly["client"]
       /\ Accepting => backlog["client"] # <<>>
       /\ IF cpc = "done"
          THEN file["client"][cjob.arg] =
                 Decode(cType, Encode(sType, file["server"][cjob.arg]))
          ELSE Holds(ClientEnd, "client", sType, file["server"][cjob.arg])

AckInv ==
  /\ Alive => Paired
  /\ Confirmed /\ cpc \notin Over => Vouched

-----------------------------------------------------------------------------
LEMMA NoneConfirmed ==
  ASSUME toClient = <<>> PROVE ~Confirmed
  BY SMT DEF Confirmed

LEMMA ConfirmedAfter ==
  ASSUME toClient \in Seq(Response), Confirmed',
         \/ toClient' = toClient
         \/ toClient # <<>> /\ toClient' = Tail(toClient)
         \/ \E r \in Response : toClient' = Append(toClient, r) /\ r.code # 226
  PROVE  Confirmed
  <1>1. CASE toClient' = toClient
    BY <1>1, Zenon DEF Confirmed
  <1>2. CASE toClient # <<>> /\ toClient' = Tail(toClient)
    <2>1. \A i \in DOMAIN toClient' :
            \E j \in DOMAIN toClient : toClient'[i] = toClient[j]
      BY <1>2, TailMoves, SMT
    <2> QED
      BY <2>1, SMT DEF Confirmed
  <1>3. CASE \E r \in Response : toClient' = Append(toClient, r) /\ r.code # 226
    <2>1. PICK r \in Response : toClient' = Append(toClient, r) /\ r.code # 226
      BY <1>3
    <2>2. \A i \in DOMAIN toClient' :
            toClient'[i] = r \/ \E j \in DOMAIN toClient : toClient'[i] = toClient[j]
      BY <2>1, AppendMoves, SMT
    <2> QED
      BY <2>1, <2>2, SMT DEF Confirmed
  <1> QED
    BY <1>1, <1>2, <1>3

\* What a handler answers a command with, apart from the end of a transfer.
LEMMA CommandAnswers ==
  ASSUME Sound, HandleCommand
  PROVE  /\ \E v : Takes(v)
         /\ \/ toClient' = toClient /\ spc' = "dying"
            \/ \E r \in Response :
                 /\ toClient' = Append(toClient, r) /\ r.code # 226
                 /\ spc' \in {"cmd", "link", "dying"}
  <1>1. \E v : Takes(v)
    BY Zenon
    DEF HandleCommand, HandleType, HandleModeOrStru, HandleUser, HandlePass,
        HandleQuit, HandlePort, HandlePasv, HandleRetr, HandleStor, HandleNoop,
        HandleNotImplemented, Refuse
  <1>2. \/ toClient' = toClient /\ spc' = "dying"
        \/ \E c \in Code \ {226}, pc \in {"cmd", "link", "dying"} : Say(Reply(c), pc)
        \/ \E p \in Port : Say(PasvReply(p), "cmd")
    <2>1. {150, 200, 221, 230, 331, 500, 502, 503, 504, 530, 550} \subseteq Code \ {226}
      BY SMT DEF Code
    <2>2. ASSUME NEW v, Refuse(v)
          PROVE  \E c \in Code \ {226} : Say(Reply(c), "cmd")
      <3>1. Complaint(request) \in {530, 503, 500}
        BY <2>2, SMT DEF Refuse, Fit, Complaint
      <3> QED
        BY <2>1, <2>2, <3>1, SMT DEF Refuse
    <2>3. CASE HandlePasv
      <3>1. listener["server"] # NoPort => listener["server"] \in Port
        BY SMT DEF Sound, TypeOK, NetTypeOK, DataTypeOK, Side
      <3>2. BindPort(0) \subseteq Port
        BY BindPortType, SMT DEF NoPort
      <3> QED
        BY <2>2, <2>3, <3>1, <3>2, Zenon DEF HandlePasv
    <2>4. CASE HandleRetr \/ HandleStor
      BY <2>1, <2>2, <2>4, SMT DEF HandleRetr, HandleStor, StartJob
    <2>5. CASE HandleUser \/ HandlePass \/ HandleQuit
      BY <2>1, <2>2, <2>5, SMT DEF HandleUser, HandlePass, HandleQuit
    <2>6. CASE \/ HandleType \/ HandlePort \/ HandleNoop \/ HandleNotImplemented
               \/ \E v \in {"MODE", "STRU"} : HandleModeOrStru(v)
      BY <2>1, <2>2, <2>6, SMT
      DEF HandleType, HandlePort, HandleNoop, HandleNotImplemented, HandleModeOrStru
    <2> QED
      BY <2>3, <2>4, <2>5, <2>6, Zenon DEF HandleCommand
  <1>3. \A r, pc : Say(r, pc) => toClient' = Append(toClient, r) /\ spc' = pc
    BY SoundTalk, Zenon DEF Say
  <1>4. /\ \A c \in Code \ {226} : Reply(c) \in Response /\ Reply(c).code # 226
        /\ \A p \in Port : PasvReply(p) \in Response /\ PasvReply(p).code # 226
    BY ReplyCode, PasvReplyType, SMT DEF PasvReply
  <1> QED
    BY <1>1, <1>2, <1>3, <1>4, SMT

\* A handler that begins a transfer leaves the connections to a later step.
LEMMA CommandBegins ==
  ASSUME Sound, HandleCommand, spc' = "link"
  PROVE  /\ \E v \in {"RETR", "STOR"} : Takes(v)
         /\ sjob' = request /\ file'["client"] = file["client"]
         /\ UNCHANGED <<listener, backlog, addr, conn, data>>
  <1>1. \A r, pc : Say(r, pc) => spc' = pc
    BY SoundTalk, Zenon DEF Say
  <1>2. \A v : ~Refuse(v)
    BY <1>1, SMT DEF Refuse
  <1>3. HandleRetr \/ HandleStor
    BY <1>1, <1>2, SMT
    DEF HandleCommand, HandleType, HandleModeOrStru, HandleUser, HandlePass,
        HandleQuit, HandlePort, HandlePasv, HandleNoop, HandleNotImplemented
  <1>4. \E v \in {"RETR", "STOR"} : Takes(v)
    BY <1>2, <1>3, SMT DEF HandleRetr, HandleStor
  <1>5. sjob' = request
    BY <1>1, <1>2, <1>3, SMT DEF HandleRetr, HandleStor, StartJob
  <1>6. UNCHANGED <<listener, backlog, addr, conn, data>>
    BY <1>2, <1>3, Zenon DEF HandleRetr, HandleStor, dataVars
  <1>7. file'["client"] = file["client"]
    BY <1>2, <1>3, SMT
    DEF HandleRetr, HandleStor, Sound, TypeOK, NetTypeOK, FileTypeOK, Side
  <1> QED
    BY <1>4, <1>5, <1>6, <1>7, Zenon

LEMMA CommandKeepsAck ==
  ASSUME Sound, AckInv, HandleCommand, UNCHANGED clientVars PROVE AckInv'
  <1>1. PICK v : Takes(v)
    BY CommandAnswers, Zenon
  <1>2. toClient = <<>> /\ toServer # <<>> /\ toServer' = <<>> /\ spc = "cmd"
    BY <1>1, TakesAsked, Zenon DEF Asked, Takes
  <1>3. ~Confirmed'
    BY <1>2, CommandAnswers, NoneConfirmed, ConfirmedAfter, SoundTalk, Zenon
  <1>4. spc' \in {"cmd", "link", "dying"}
    BY CommandAnswers, SMT
  <1>5. cpc' = cpc /\ cjob' = cjob /\ cType' = cType
    BY Zenon DEF clientVars
  <1>6. CASE spc' # "link"
    <2>1. ~Linked'
      BY <1>2, <1>4, <1>6, SMT DEF Linked
    <2>2. Paired'
      BY <1>4, <1>6, <2>1, SMT DEF Paired
    <2> QED
      BY <1>3, <2>2, Zenon DEF AckInv
  <1>7. CASE spc' = "link"
    <2>1. /\ sjob' = request
          /\ UNCHANGED <<listener, backlog, addr, conn, data>>
      BY <1>7, CommandBegins, Zenon
    <2>2. /\ request = cjob /\ cpc \in {"reply", "dial"}
      <3>1. PICK w \in {"RETR", "STOR"} : Takes(w)
        BY <1>7, CommandBegins, Zenon
      <3> QED
        BY <3>1, TakesAsked, SMT
    <2>3. Paired
      BY Zenon DEF AckInv, Sound
    <2>4. Dialled' <=> Dialled
      BY <1>5, <2>1, Zenon DEF Dialled, Passive, Fetching
    <2>5. Linked' => Linked
      BY <1>2, <1>5, <1>7, <2>4, Zenon DEF Linked, Fetching
    <2>6. ServerEnd' = ServerEnd /\ ClientEnd' = ClientEnd /\ conn' = conn
      BY <1>2, <1>5, <1>7, <2>1, SMT DEF ServerEnd, ClientEnd, Accepting
    <2>7. Paired'
      BY <1>5, <2>1, <2>2, <2>3, <2>5, <2>6, SMT DEF Paired
    <2> QED
      BY <1>3, <2>7, Zenon DEF AckInv
  <1> QED
    BY <1>6, <1>7

\* The server has just made or taken the connection of the transfer.
LEMMA ServerOpensDataKeepsAck ==
  ASSUME Sound, AckInv, ServerOpensData, UNCHANGED clientVars PROVE AckInv'
  <1>1. /\ spc = "link" /\ spc' = "move" /\ sjob' = sjob /\ sType' = sType
        /\ toServer' = toServer /\ toClient' = toClient /\ file' = file
        /\ cpc' = cpc /\ cjob' = cjob /\ cType' = cType
    BY Zenon DEF ServerOpensData, ctlVars, clientVars
  <1>2. ~Confirmed' \/ cpc \in Over
    <2>1. Confirmed' => Confirmed
      BY <1>1, Zenon DEF Confirmed
    <2> QED
      BY <1>1, <2>1, Zenon DEF AckInv, Vouched
  <1>3. Paired /\ sjob = cjob
    BY <1>1, Zenon DEF AckInv, Sound, Paired
  <1>4. DataTypeOK /\ Fetching(cjob)
    BY <1>1, LinkPhase, Zenon DEF Sound, TypeOK, NetTypeOK
  <1>5. CASE listener["server"] = NoPort
    <2>1. Connect("server")
      BY <1>5, Zenon DEF ServerOpensData
    <2>2. Active /\ backlog["client"] = <<>> /\ cpc \in {"reply", "link"}
      BY <1>1, <1>5, ServerFinds, Zenon
    <2>3. PICK c \in ConnId :
            /\ conn' = [conn EXCEPT ![c] = Opened]
            /\ backlog' = [backlog EXCEPT !["client"] = Append(@, c)]
            /\ data' = [data EXCEPT !["server"] = c]
            /\ listener' = listener
      <3> DEFINE c == CHOOSE c \in FreeConn : TRUE
      <3>1. c \in ConnId
        BY <2>1, SMT DEF Connect, CanConnect, FreeConn
      <3>2. /\ conn' = [conn EXCEPT ![c] = Opened]
            /\ backlog' = [backlog EXCEPT !["client"] = Append(@, c)]
            /\ data' = [data EXCEPT !["server"] = c]
            /\ listener' = listener
        BY <2>1, ServerSide, Zenon DEF Connect
      <3> QED
        BY <3>1, <3>2, Zenon
    <2>4. /\ backlog'["client"] = Append(<<>>, c) /\ data'["server"] = c
          /\ conn'[c].ends = Side
      BY <1>4, <2>2, <2>3, SMT DEF DataTypeOK, Side, Opened, Fresh
    <2>5. Accepting'
      BY <1>1, <2>2, <2>3, SMT DEF Accepting, Active
    <2>6. Head(backlog'["client"]) = c
      BY <2>4, FirstMessage, Zenon
    <2>7. ServerEnd' = c /\ ClientEnd' = c
      BY <1>1, <2>4, <2>5, <2>6, Zenon DEF ServerEnd, ClientEnd
    <2>8. Paired'
      BY <1>1, <1>3, <2>2, <2>4, <2>7, SMT DEF Paired
    <2> QED
      BY <1>1, <1>2, <2>8, Zenon DEF AckInv
  <1>6. CASE listener["server"] # NoPort
    <2>1. Accept("server")
      BY <1>6, Zenon DEF ServerOpensData
    <2>2. Passive /\ cpc # "dial" /\ Len(backlog["server"]) = 1
      BY <1>1, <1>6, <2>1, ServerFinds, Zenon DEF Accept
    <2>3. /\ data' = [data EXCEPT !["server"] = Head(backlog["server"])]
          /\ backlog' = [backlog EXCEPT !["server"] = Tail(@)]
          /\ listener' = listener /\ conn' = conn
      BY <2>1, Zenon DEF Accept
    <2>4. /\ data'["server"] = Head(backlog["server"])
          /\ data'["client"] = data["client"]
          /\ backlog'["client"] = backlog["client"]
      BY <1>4, <2>3, SMT DEF DataTypeOK, Side
    <2>5. Linked
      <3>1. cpc \in {"reply", "open", "recv", "done"}
        <4>1. cpc # "link"
          BY <2>2, ClientFinds, Zenon
        <4> QED
          BY <1>1, <2>2, <4>1, LinkPhase, SMT
      <3> QED
        BY <1>1, <1>4, <2>2, <3>1, Zenon DEF Linked, Dialled
    <2>6. ServerEnd' = ServerEnd /\ ClientEnd' = ClientEnd
      BY <1>1, <2>3, <2>4, SMT DEF ServerEnd, ClientEnd, Accepting
    <2>7. Paired'
      BY <1>1, <1>3, <2>3, <2>5, <2>6, SMT DEF Paired, Holds
    <2> QED
      BY <1>1, <1>2, <2>7, Zenon DEF AckInv
  <1> QED
    BY <1>5, <1>6

LEMMA NotYetConfirmed ==
  ASSUME Sound, AckInv, spc \in {"link", "move"} PROVE ~Confirmed /\ Paired
  BY SMT DEF AckInv, Vouched, Sound, Alive

LEMMA GreetKeepsAck ==
  ASSUME Sound, Greet, UNCHANGED clientVars PROVE AckInv'
  <1>1. /\ spc = "greet" /\ Say(Reply(220), "cmd") /\ toServer' = toServer
        /\ cpc' = cpc /\ cjob' = cjob
    BY Zenon DEF Greet, clientVars
  <1>2. cpc = "greet" /\ toServer = <<>> /\ toClient = <<>>
    BY <1>1, SoundTalk, MessageCount, SMT
    DEF Sound, Lock, Talk, Answers, Answered, Quiet, Asked, AskedFor, AskedJob,
        Refused, Announced, Carries, ClientPc, Listening, Transferring, Over
  <1>3. toClient' = Append(toClient, Reply(220)) /\ spc' = "cmd"
    BY <1>1, SoundTalk, Zenon DEF Say
  <1>4. PICK r \in Response : toClient' = Append(toClient, r) /\ r.code # 226
    <2>1. 220 \in Code
      BY SMT DEF Code
    <2>2. Reply(220) \in Response /\ Reply(220).code = 220
      BY <2>1, ReplyCode, Zenon
    <2> QED
      BY <1>3, <2>2, SMT
  <1>5. ~Confirmed'
    <2>1. toClient \in Seq(Response) /\ ~Confirmed
      BY <1>2, NoneConfirmed, SoundTalk, Zenon
    <2>2. \E q \in Response : toClient' = Append(toClient, q) /\ q.code # 226
      BY <1>4
    <2> QED
      BY <2>1, <2>2, ConfirmedAfter, Zenon
  <1>6. ~Linked'
    BY <1>1, <1>2, <1>3, SMT DEF Linked
  <1>7. Paired'
    BY <1>3, <1>6, SMT DEF Paired
  <1> QED
    BY <1>5, <1>7, Zenon DEF AckInv

\* A client that accepts has the server's connection in its queue.
LEMMA SentIsQueued ==
  ASSUME Sound, spc = "move", Accepting
  PROVE  Len(backlog["client"]) = 1
  <1>1. Fetching(cjob) /\ (cpc = "reply" => Announced)
    BY LinkPhase, SMT
  <1>2. CASE cpc = "link"
    BY <1>2, ClientFinds, SMT
  <1>3. CASE cpc = "reply" /\ listener["client"] # NoPort
    <2>1. Active
      BY <1>1, <1>3, TransferMode, SMT DEF Passive
    <2>2. Expects
      BY <1>1, <1>3, <2>1, Zenon DEF Expects
    <2> QED
      BY <2>2, SMT DEF Sound, Lock, Queues
  <1> QED
    BY <1>2, <1>3, Zenon DEF Accepting

\* The file is on the wire to the client before 226 is said.
LEMMA ServerSendsKeepsAck ==
  ASSUME Sound, AckInv, ServerSends, UNCHANGED clientVars PROVE AckInv'
  <1>1. /\ spc = "move" /\ sjob.verb = "RETR" /\ sType' = sType
        /\ toServer' = toServer /\ file' = file /\ backlog' = backlog
        /\ listener' = listener
        /\ data' = [data EXCEPT !["server"] = NoConn]
        /\ cpc' = cpc /\ cjob' = cjob /\ cType' = cType
    BY Zenon DEF ServerSends, clientVars
  <1>2. ~Confirmed /\ Paired /\ sjob = cjob
    BY <1>1, NotYetConfirmed, SMT DEF Paired
  <1>3. CASE toClient' = toClient /\ spc' \in {"dying", "killed"}
    BY <1>1, <1>2, <1>3, SMT DEF AckInv, Confirmed, Alive, Ended
  <1>4. CASE ~(toClient' = toClient /\ spc' \in {"dying", "killed"})
    <2> DEFINE c == data["server"]
    <2>1. /\ Say(Reply(226), "cmd")
          /\ conn' = [conn EXCEPT ![c] = Shipped(@, "client",
                        Encode(sType, file["server"][sjob.arg]))]
      BY <1>1, <1>4, SMT DEF ServerSends
    <2>2. /\ toServer = <<>> /\ Fetching(cjob) /\ spc' = "cmd"
          /\ cpc \in {"reply", "link", "open", "recv", "done"}
          /\ cpc # "reply" => Len(toClient') = 1
          /\ cpc = "reply" => Announced /\ Len(toClient') = 2 /\ reply'.code = 150
      BY <1>1, <2>1, FinishSaid, Zenon
    <2>3. cpc # "done" /\ c = ClientEnd /\ conn[c].ends = Side
      BY <1>1, <1>2, <2>2, SMT DEF Paired, Linked, ServerEnd
    <2>4. DataTypeOK /\ c \in ConnId
      BY <1>1, Zenon DEF Sound, TypeOK, NetTypeOK, ServerTypeOK
    <2>5. sType = cType
      BY <2>2, SMT DEF Sound, Lock, SameType, Fetching
    <2>6. ClientEnd' = ClientEnd /\ (Accepting' <=> Accepting)
      <3>1. data'["client"] = data["client"]
        BY <1>1, <2>4, SMT DEF DataTypeOK, Side
      <3> QED
        BY <1>1, <3>1, Zenon DEF ClientEnd, Accepting
    <2>7. /\ conn'[c].ends = {"client"}
          /\ conn'[c].wire["client"] = Encode(sType, file["server"][cjob.arg])
      <3>1. conn[c] \in Connection
        BY <2>4, SMT DEF DataTypeOK
      <3>2. conn'[c] = Shipped(conn[c], "client",
                         Encode(sType, file["server"][cjob.arg]))
        BY <1>2, <2>1, <2>4, SMT DEF DataTypeOK
      <3> QED
        BY <2>3, <3>1, <3>2, SMT DEF Shipped, Connection, Side
    <2>8. Accepting => backlog["client"] # <<>>
      <3>1. backlog["client"] \in Seq(ConnId)
        BY <2>4, SMT DEF DataTypeOK, Side
      <3> QED
        BY <1>1, <3>1, SentIsQueued, LastMessage, Zenon
    <2>9. cpc # "recv" => cjob.arg \notin ReadOnly["client"]
      BY <1>1, <1>2, <2>2, <2>3, SMT DEF Sound, Lock, NotInVain
    <2>10. Holds(ClientEnd, "client", sType, file["server"][cjob.arg])'
      BY <1>1, <2>3, <2>6, <2>7, Zenon DEF Holds
    <2>11. Vouched'
      BY <1>1, <1>2, <2>2, <2>3, <2>5, <2>6, <2>8, <2>9, <2>10, SMT
      DEF Vouched, Fetching
    <2>12. Paired'
      BY <1>1, <2>2, SMT DEF Paired, Linked
    <2> QED
      BY <2>11, <2>12, Zenon DEF AckInv
  <1> QED
    BY <1>3, <1>4

\* The end of the stream follows the whole file of the client.
LEMMA ServerReceivesKeepsAck ==
  ASSUME Sound, Reliable, AckInv, ServerReceives, UNCHANGED clientVars
  PROVE  AckInv'
  <1>1. /\ spc = "move" /\ sjob.verb = "STOR" /\ sType' = sType
        /\ toServer' = toServer
        /\ cpc' = cpc /\ cjob' = cjob /\ cType' = cType
    BY Zenon DEF ServerReceives, clientVars
  <1>2. Paired /\ sjob = cjob
    BY <1>1, NotYetConfirmed, SMT DEF Paired
  <1> DEFINE c == data["server"]
             got == Decode(sType, conn[c].wire["server"])
  <1>3. /\ AtEof("server") /\ Say(Reply(226), "cmd")
        /\ file' = [file EXCEPT !["server"][sjob.arg] = got]
    BY Zenon DEF ServerReceives, Reliable
  <1>4. /\ toServer = <<>> /\ Fetching(cjob) /\ spc' = "cmd"
        /\ cpc \in {"reply", "link", "open", "recv", "done"}
        /\ cpc # "reply" => Len(toClient') = 1
    BY <1>1, <1>3, FinishSaid, Zenon
  <1>5. "client" \notin conn[c].ends
    BY <1>3, ServerSide, Zenon DEF AtEof
  <1>6. /\ cpc = "done"
        /\ Holds(c, "server", cType, file["client"][cjob.arg])
    BY <1>1, <1>2, <1>4, <1>5, SMT DEF Paired, Linked, ServerEnd, Side
  <1>7. sType = cType
    BY <1>6, SMT DEF Sound, Lock, SameType
  <1>8. /\ file'["client"] = file["client"]
        /\ file'["server"][cjob.arg] =
             Decode(sType, Encode(cType, file["client"][cjob.arg]))
    <2>1. got = Decode(sType, Encode(cType, file["client"][cjob.arg]))
      BY <1>6, Zenon DEF Holds
    <2>2. FileTypeOK /\ sjob.arg \in Name
      BY <1>1, SMT DEF Sound, TypeOK, NetTypeOK, ServerTypeOK
    <2> HIDE DEF got
    <2>3. file'["client"] = file["client"] /\ file'["server"][sjob.arg] = got
      BY <1>3, <2>2, SMT DEF FileTypeOK, Side
    <2> QED
      BY <1>2, <2>1, <2>3, Zenon
  <1>9. Vouched'
    BY <1>1, <1>2, <1>4, <1>6, <1>7, <1>8, SMT DEF Vouched, Fetching
  <1>10. Paired'
    BY <1>1, <1>4, SMT DEF Paired, Linked
  <1> QED
    BY <1>9, <1>10, Zenon DEF AckInv

\* A server that ends leaves what the client holds as it is.
LEMMA InterruptedKeepsAck ==
  ASSUME AckInv, ServerInterrupted, Alive, UNCHANGED clientVars
  PROVE  AckInv'
  <1>1. /\ spc' = "dying" /\ sType' = sType /\ toClient' = toClient
        /\ listener' = listener /\ backlog' = backlog /\ data' = data
        /\ conn' = conn /\ (file' = file \/ spc = "move")
        /\ cpc' = cpc /\ cjob' = cjob /\ cType' = cType
    BY Zenon DEF ServerInterrupted, ctlVars, dataVars, clientVars
  <1>2. ~Alive'
    BY <1>1, SMT DEF Alive, Ended
  <1>3. ASSUME Confirmed', cpc' \notin Over PROVE Vouched'
    <2>1. Vouched
      BY <1>1, <1>3, Zenon DEF AckInv, Confirmed
    <2>2. file' = file
      BY <1>1, <2>1, SMT DEF Vouched
    <2>3. /\ (Accepting' <=> Accepting) /\ ClientEnd' = ClientEnd
          /\ reply' = reply /\ (Fetching(cjob)' <=> Fetching(cjob))
      BY <1>1, Zenon DEF Accepting, ClientEnd, reply, Fetching
    <2>4. Holds(ClientEnd, "client", sType, file["server"][cjob.arg])'
            <=> Holds(ClientEnd, "client", sType, file["server"][cjob.arg])
      BY <1>1, <2>2, <2>3, Zenon DEF Holds
    <2> QED
      BY <1>1, <2>1, <2>2, <2>3, <2>4, SMT DEF Vouched
  <1> QED
    BY <1>2, <1>3, Zenon DEF AckInv

LEMMA ServerExitsKeepsAck ==
  ASSUME TypeOK, AckInv, ServerExits, UNCHANGED clientVars PROVE AckInv'
  <1>1. /\ spc' = "gone" /\ sType' = sType /\ toClient' = toClient /\ file' = file
        /\ listener' = [listener EXCEPT !["server"] = NoPort]
        /\ backlog' = [backlog EXCEPT !["server"] = <<>>]
        /\ data' = [data EXCEPT !["server"] = NoConn]
        /\ conn' = HangUp(ConnId, "server")
        /\ cpc' = cpc /\ cjob' = cjob /\ cType' = cType
    BY Zenon DEF ServerExits, Vanish, clientVars
  <1>2. ~Alive'
    BY <1>1, SMT DEF Alive, Ended
  <1>3. DataTypeOK
    BY Zenon DEF TypeOK, NetTypeOK
  <1>4. /\ listener'["client"] = listener["client"]
        /\ backlog'["client"] = backlog["client"]
        /\ data'["client"] = data["client"]
    BY <1>1, <1>3, SMT DEF DataTypeOK, Side
  <1>5. /\ (Accepting' <=> Accepting) /\ ClientEnd' = ClientEnd
        /\ reply' = reply /\ (Fetching(cjob)' <=> Fetching(cjob))
    <2>1. cpc' = cpc /\ toClient' = toClient /\ cjob' = cjob
      BY <1>1
    <2>2. Accepting' <=> Accepting
      BY <1>4, <2>1, Zenon DEF Accepting
    <2>3. ClientEnd' = ClientEnd
      BY <1>4, <2>2, Zenon DEF ClientEnd
    <2>4. reply' = reply /\ (Fetching(cjob)' <=> Fetching(cjob))
      BY <2>1, Zenon DEF reply, Fetching
    <2> QED
      BY <2>2, <2>3, <2>4
  <1>6. ASSUME Confirmed', cpc' \notin Over PROVE Vouched'
    <2>1. Vouched
      BY <1>1, <1>6, Zenon DEF AckInv, Confirmed
    <2>2. ASSUME cjob.verb = "RETR", cpc # "done"
          PROVE  Holds(ClientEnd, "client", sType, file["server"][cjob.arg])'
      <3>1. Holds(ClientEnd, "client", sType, file["server"][cjob.arg])
        BY <2>1, <2>2, Zenon DEF Vouched
      <3>2. ClientEnd \in ConnId
        <4>1. CASE Accepting
          <5>1. backlog["client"] # <<>>
            BY <2>1, <2>2, <4>1, Zenon DEF Vouched
          <5>2. backlog["client"] \in Seq(ConnId)
            BY <1>3, SMT DEF DataTypeOK, Side
          <5>3. Head(backlog["client"]) \in ConnId
            BY <5>1, <5>2, HeadTailProperties, Zenon
          <5> QED
            BY <4>1, <5>3, Zenon DEF ClientEnd
        <4>2. CASE ~Accepting
          BY <2>1, <2>2, <4>2, SMT
          DEF Vouched, Accepting, ClientEnd, TypeOK, ClientTypeOK
        <4> QED
          BY <4>1, <4>2
      <3>3. conn'[ClientEnd] = HungUp(conn[ClientEnd], "server")
        BY <1>1, <3>2, SMT DEF HangUp
      <3>4. /\ conn'[ClientEnd].ends = {"client"}
            /\ conn'[ClientEnd].wire = conn[ClientEnd].wire
        <4>1. conn[ClientEnd] \in Connection
          BY <1>3, <3>2, SMT DEF DataTypeOK
        <4> QED
          BY <3>1, <3>3, <4>1, SMT DEF Holds, HungUp, Connection
      <3> QED
        BY <1>1, <1>5, <3>1, <3>4, Zenon DEF Holds
    <2> QED
      BY <1>1, <1>4, <1>5, <2>1, <2>2, SMT DEF Vouched
  <1> QED
    BY <1>2, <1>6, Zenon DEF AckInv

LEMMA ServerKeepsAck ==
  ASSUME Orderly, Reliable, TypeOK, LoginInv, HeldInv, LockInv, AckInv,
         UNCHANGED clientVars,
         ServerStep \/ ServerTimesOut \/ ServerInterrupted
  PROVE  AckInv'
  <1>1. cpc' = cpc
    BY Zenon DEF clientVars
  <1>2. CASE cpc \in Over
    BY <1>1, <1>2, Zenon DEF AckInv, Alive
  <1>3. CASE cpc \notin Over /\ spc \in Ended
    <2>1. ServerExits
      BY <1>3, EndedExits, Zenon DEF ServerMoves, ServerTimesOut
    <2> QED
      BY <2>1, ServerExitsKeepsAck, Zenon
  <1>4. CASE cpc \notin Over /\ spc \notin Ended
    <2>1. Sound
      BY <1>4, Zenon DEF Sound, LockInv, Alive
    <2>2. ~ServerTimesOut
      BY <2>1, ServerNeverTimesOut, Zenon
    <2>3. ~ServerLosesClient
      BY <2>1, SoundTalk, Zenon DEF ServerLosesClient
    <2>4. ~ServerExits
      BY <1>4, SMT DEF ServerExits, Ended
    <2>5. CASE ServerInterrupted
      BY <2>1, <2>5, InterruptedKeepsAck, Zenon DEF Sound
    <2>6. CASE ServerStep
      BY <2>1, <2>3, <2>4, <2>6, GreetKeepsAck, CommandKeepsAck,
         ServerOpensDataKeepsAck, ServerSendsKeepsAck, ServerReceivesKeepsAck, Zenon
      DEF ServerStep
    <2> QED
      BY <2>2, <2>5, <2>6
  <1> QED
    BY <1>2, <1>3, <1>4

-----------------------------------------------------------------------------
LEMMA ClientOnlyReads ==
  ASSUME ClientMoves
  PROVE  toClient' = toClient \/ (toClient # <<>> /\ toClient' = Tail(toClient))
  <1>1. CASE UserStep
    BY <1>1, SMTT(30)
    DEF UserStep, TypeUser, TypePassword, SendPlain, TypePass, TypePort, TypeQuit,
        TypeTransfer, Tell, ctlVars
  <1>2. CASE ClientStep
    BY <1>2, SMT
    DEF ClientStep, ClientHearsGreeting, ClientHearsUserReply,
        ClientHearsPassReply, ClientHearsReply, ClientDials, ClientHearsOpening,
        ClientAccepts, ClientOpensLocal, ClientSends, ClientReceives,
        ClientHearsDone, ClientHearsBye, ClientLosesServer, ClientExits, Hears,
        Tell, ctlVars
  <1>3. CASE ClientFailsAccept \/ ClientInterrupted
    BY <1>3, Zenon DEF ClientFailsAccept, ClientInterrupted, ctlVars
  <1> QED
    BY <1>1, <1>2, <1>3 DEF ClientMoves

\* Once 226 is on its way the client goes through its transfer to the end.
LEMMA VouchedMoves ==
  ASSUME Vouched, ClientMoves, cpc' \notin Over
  PROVE  \/ ClientHearsOpening \/ ClientAccepts \/ ClientFailsAccept
         \/ ClientOpensLocal \/ ClientSends \/ ClientReceives \/ ClientHearsDone
  <1>1. /\ cpc \in {"reply", "link", "open", "recv", "done"}
        /\ Fetching(cjob)
    BY SMT DEF Vouched
  <1>2. ~UserStep
    BY <1>1, SMT
    DEF UserStep, TypeUser, TypePassword, SendPlain, TypePass, TypePort, TypeQuit,
        TypeTransfer, Types
  <1>3. ~ClientLosesServer /\ ~ClientInterrupted
    BY SMT DEF ClientLosesServer, ClientInterrupted, Over
  <1>4. /\ ~ClientHearsGreeting /\ ~ClientHearsUserReply /\ ~ClientHearsPassReply
        /\ ~ClientHearsReply /\ ~ClientDials /\ ~ClientHearsBye /\ ~ClientExits
    BY <1>1, SMT
    DEF ClientHearsGreeting, ClientHearsUserReply, ClientHearsPassReply,
        ClientHearsReply, ClientDials, ClientHearsBye, ClientExits
  <1> QED
    BY <1>2, <1>3, <1>4, Zenon DEF ClientMoves, ClientStep

LEMMA ClientKeepsVouch ==
  ASSUME TypeOK, Reliable, AckInv, ClientMoves, UNCHANGED serverVars,
         Confirmed', cpc' \notin Over
  PROVE  Vouched'
  <1>1. spc' = spc /\ sType' = sType
    BY Zenon DEF serverVars
  <1>2. toClient \in Seq(Response) /\ DataTypeOK /\ FileTypeOK
    BY Zenon DEF TypeOK, NetTypeOK, ControlTypeOK
  <1>3. Vouched
    <2>1. Confirmed
      BY <1>2, ClientOnlyReads, ConfirmedAfter, Zenon
    <2> QED
      BY <2>1, OverStays, Zenon DEF AckInv
  <1>4. /\ Fetching(cjob) /\ sType = cType /\ spc \notin {"link", "move"}
        /\ cjob.verb = "STOR" => cpc = "done"
        /\ cpc # "done" => cjob.verb = "RETR"
    BY <1>3, SMT DEF Vouched, Fetching
  <1>5. CASE ClientHearsOpening
    <2>1. /\ cpc = "reply" /\ toClient' = Tail(toClient) /\ cType' = cType
          /\ file' = file
      BY <1>5, Zenon DEF ClientHearsOpening, Hears
    <2>2. Len(toClient) = 2 /\ reply.code = 150
      BY <1>3, <2>1, SMT DEF Vouched
    <2>3. /\ cpc' = IF listener["client"] = NoPort THEN "open" ELSE "link"
          /\ cjob' = cjob /\ listener' = listener /\ backlog' = backlog
          /\ data' = data /\ conn' = conn
      BY <1>5, <2>2, Zenon DEF ClientHearsOpening, dataVars
    <2>4. Len(toClient') = 1
      <3>1. toClient # <<>> /\ Len(Tail(toClient)) = Len(toClient) - 1
        <4>1. toClient # <<>>
          BY <1>5, Zenon DEF ClientHearsOpening, Hears
        <4> QED
          BY <1>2, <4>1, MessageCount, Zenon
      <3> QED
        BY <2>1, <2>2, <3>1, SMT
    <2>5. (Accepting' <=> Accepting) /\ ClientEnd' = ClientEnd
      <3>1. Accepting' <=> Accepting
        BY <2>1, <2>3, SMT DEF Accepting
      <3> QED
        BY <2>3, <3>1, Zenon DEF ClientEnd
    <2>6. Holds(ClientEnd, "client", sType, file["server"][cjob.arg])'
      BY <1>1, <1>3, <1>4, <2>1, <2>3, <2>5, SMT DEF Vouched, Holds
    <2> QED
      BY <1>1, <1>3, <1>4, <2>1, <2>3, <2>4, <2>5, <2>6, SMT DEF Vouched, Fetching
  <1>6. CASE ClientAccepts
    <2>1. /\ cpc = "link" /\ cpc' = "open" /\ toClient' = toClient
          /\ cType' = cType /\ cjob' = cjob /\ file' = file /\ conn' = conn
          /\ data' = [data EXCEPT !["client"] = Head(backlog["client"])]
      BY <1>6, Zenon DEF ClientAccepts, Accept, ctlVars
    <2>2. data'["client"] = Head(backlog["client"])
      BY <1>2, <2>1, SMT DEF DataTypeOK, Side
    <2>3. ~Accepting' /\ ClientEnd' = ClientEnd
      BY <2>1, <2>2, SMT DEF Accepting, ClientEnd
    <2>4. Holds(ClientEnd, "client", sType, file["server"][cjob.arg])'
      BY <1>1, <1>3, <1>4, <2>1, <2>3, SMT DEF Vouched, Holds
    <2> QED
      BY <1>1, <1>3, <1>4, <2>1, <2>3, <2>4, SMT DEF Vouched, Fetching
  <1>7. CASE ClientFailsAccept
    BY <1>3, <1>4, <1>7, SMT
    DEF ClientFailsAccept, AcceptTimesOut, Vouched, Accepting
  <1>8. CASE ClientOpensLocal
    <2>1. /\ cpc = "open" /\ cType' = cType /\ cjob.arg \notin ReadOnly["client"]
      BY <1>3, <1>8, SMT DEF ClientOpensLocal, Vouched
    <2>2. /\ cpc' = "recv" /\ toClient' = toClient /\ cjob' = cjob
          /\ data' = data /\ conn' = conn
          /\ file' = [file EXCEPT !["client"][cjob.arg] = EmptyBody]
      BY <1>8, <2>1, Zenon DEF ClientOpensLocal, ctlVars, dataVars
    <2>3. file'["server"] = file["server"]
      BY <1>2, <2>2, SMT DEF FileTypeOK, Side
    <2>4. ~Accepting' /\ ClientEnd' = ClientEnd
      BY <2>1, <2>2, SMT DEF Accepting, ClientEnd
    <2>5. Holds(ClientEnd, "client", sType, file["server"][cjob.arg])'
      BY <1>1, <1>3, <1>4, <2>1, <2>2, <2>3, <2>4, SMT DEF Vouched, Holds
    <2> QED
      BY <1>1, <1>3, <1>4, <2>1, <2>2, <2>4, <2>5, SMT DEF Vouched, Fetching
  <1>9. CASE ClientSends
    BY <1>4, <1>9, SMT DEF ClientSends
  <1>10. CASE ClientReceives
    <2> DEFINE got == Decode(cType, conn[data["client"]].wire["client"])
    <2>1. /\ cpc = "recv" /\ cpc' = "done" /\ toClient' = toClient
          /\ cType' = cType /\ cjob' = cjob
          /\ file' = [file EXCEPT !["client"][cjob.arg] = got]
      BY <1>10, Zenon DEF ClientReceives, Reliable, ctlVars
    <2>2. ClientEnd = data["client"]
      BY <2>1, SMT DEF ClientEnd, Accepting
    <2>3. got = Decode(cType, Encode(sType, file["server"][cjob.arg]))
      BY <1>3, <1>4, <2>1, <2>2, SMT DEF Vouched, Holds
    <2>4. cjob.arg \in Name
      BY <1>4, <2>1, SMT DEF TypeOK, ClientTypeOK, Transferring
    <2> HIDE DEF got
    <2>5. /\ file'["server"] = file["server"]
          /\ file'["client"][cjob.arg] = got
      BY <1>2, <2>1, <2>4, SMT DEF FileTypeOK, Side
    <2> QED
      BY <1>1, <1>3, <1>4, <2>1, <2>3, <2>5, SMT DEF Vouched, Fetching, Accepting
  <1>11. CASE ClientHearsDone
    <2>1. cpc = "done" /\ toClient' = Tail(toClient)
      BY <1>11, Zenon DEF ClientHearsDone, Hears
    <2>2. Len(toClient) = 1
      BY <1>3, <2>1, SMT DEF Vouched
    <2>3. toClient' = <<>>
      BY <1>2, <2>1, <2>2, LastMessage, Zenon
    <2> QED
      BY <2>3, SMT DEF Confirmed
  <1> QED
    BY <1>3, <1>5, <1>6, <1>7, <1>8, <1>9, <1>10, <1>11, VouchedMoves, Zenon

LEMMA RebindAsks ==
  ASSUME NEW n, Rebind(n)
  PROVE  /\ cpc' \in {"reply", "dying", "killed"}
         /\ cpc' = "reply" => ~Fetching(cjob)'
  <1>1. CASE \E p \in BindPort(n) :
               /\ cjob' = PortCmd(p)
               /\ cpc' \in {"reply", "dying", "killed"}
    BY <1>1, SMT DEF PortCmd, Fetching
  <1>2. CASE cpc' = "dying"
    BY <1>2, SMT
  <1> QED
    BY <1>1, <1>2, SMT DEF Rebind

\* No transfer is on, and the client begins none in passive mode but to dial.
LEMMA IdleStaysPaired ==
  ASSUME Sound, ClientMoves, SameServer,
         \/ cpc \in AtUser \cup {"greet", "userReply", "passReply", "bye"}
         \/ cpc = "reply" /\ ~Fetching(cjob)
  PROVE  Paired'
  <1>1. spc' = spc /\ spc \notin {"link", "move"}
    BY LinkPhase, SMT DEF SameServer, AtUser
  <1>2. /\ cpc' \notin {"open", "recv", "done"}
        /\ cpc' = "reply" /\ Fetching(cjob)' => listener'["client"] # NoPort
    <2>1. CASE UserStep
      <3>1. CASE TypeTransfer
        <4>1. /\ cpc' = IF listener["client"] = NoPort THEN "dial" ELSE "reply"
              /\ listener' = listener
          BY <3>1, SoundTalk, Zenon DEF TypeTransfer, Tell, dataVars
        <4> QED
          BY <4>1, SMT
      <3>2. CASE TypePort
        BY <3>2, RebindAsks, SMT DEF TypePort
      <3>3. CASE SendPlain
        <4>1. ~Fetching(cjob)'
          BY <3>3, SMT DEF SendPlain, Cmd, Fetching
        <4>2. cpc' = "reply"
          BY <3>3, SoundTalk, Zenon DEF SendPlain, Tell
        <4> QED
          BY <4>1, <4>2, SMT
      <3>4. CASE TypeUser \/ TypePassword \/ TypePass \/ TypeQuit
        BY <3>4, SoundTalk, SMT DEF TypeUser, TypePassword, TypePass, TypeQuit, Tell
      <3> QED
        BY <2>1, <3>1, <3>2, <3>3, <3>4, Zenon DEF UserStep
    <2>2. CASE ClientHearsPassReply
      BY <2>2, RebindAsks, SMT DEF ClientHearsPassReply
    <2>3. CASE ~UserStep /\ ~ClientHearsPassReply
      <3>1. cpc' \notin {"reply", "open", "recv", "done"}
        BY <2>3, SMT
        DEF ClientMoves, ClientStep, ClientHearsGreeting, ClientHearsUserReply,
            ClientHearsReply, ClientDials, ClientHearsOpening, ClientAccepts,
            ClientOpensLocal, ClientSends, ClientReceives, ClientHearsDone,
            ClientHearsBye, ClientLosesServer, ClientExits, ClientFailsAccept,
            ClientInterrupted, AtUser
      <3> QED
        BY <3>1, SMT
    <2> QED
      BY <2>1, <2>2, <2>3
  <1>3. ~Dialled'
    BY <1>2, SMT DEF Dialled, Passive
  <1>4. ~Linked'
    BY <1>1, <1>3, SMT DEF Linked
  <1> QED
    BY <1>1, <1>4, SMT DEF Paired

\* A transfer returns to the prompt once the server is done with it.
LEMMA EndsPaired ==
  ASSUME spc' = "cmd", cpc' = "prompt" PROVE Paired'
  BY SMT DEF Paired, Linked, Dialled

\* A step that leaves the connections where the other side looks for them.
LEMMA StaysPaired ==
  ASSUME Paired, spc' = spc, sjob' = sjob, cjob' = cjob, conn' = conn,
         ServerEnd' = ServerEnd, ClientEnd' = ClientEnd, Linked' => Linked,
         cpc # "done", cpc' # "done"
  PROVE  Paired'
  BY SMT DEF Paired

LEMMA DialsPaired ==
  ASSUME Sound, AckInv, ClientDials, SameServer, sjob' = sjob PROVE Paired'
  <1>1. cpc = "dial" /\ Passive /\ CanConnect("client") /\ \A s \in Side : backlog[s] = <<>>
    BY ClientFinds, Zenon DEF ClientDials
  <1>2. Connect("client") /\ cpc' = "reply" /\ cjob' = cjob
    BY <1>1, Zenon DEF ClientDials, ConnectFails, Sound, Orderly
  <1>3. DataTypeOK /\ Paired
    BY Zenon DEF Sound, TypeOK, NetTypeOK, AckInv
  <1>4. PICK c \in ConnId :
          /\ conn' = [conn EXCEPT ![c] = Opened]
          /\ backlog' = [backlog EXCEPT !["server"] = Append(@, c)]
          /\ data' = [data EXCEPT !["client"] = c]
          /\ listener' = listener
    <2> DEFINE c == CHOOSE c \in FreeConn : TRUE
    <2>1. c \in ConnId
      BY <1>1, SMT DEF CanConnect, FreeConn
    <2>2. /\ conn' = [conn EXCEPT ![c] = Opened]
          /\ backlog' = [backlog EXCEPT !["server"] = Append(@, c)]
          /\ data' = [data EXCEPT !["client"] = c]
          /\ listener' = listener
      BY <1>2, ClientSide, Zenon DEF Connect
    <2> QED
      BY <2>1, <2>2, Zenon
  <1>5. /\ backlog'["server"] = Append(<<>>, c) /\ data'["client"] = c
        /\ conn'[c].ends = Side
    <2>1. backlog["server"] = <<>>
      BY <1>1, ServerSide, Zenon
    <2> QED
      BY <1>3, <1>4, <2>1, SMT DEF DataTypeOK, Side, Opened, Fresh
  <1>6. Head(backlog'["server"]) = c
    BY <1>5, FirstMessage, Zenon
  <1>7. spc' = spc /\ spc # "move"
    BY <1>1, LinkPhase, SMT DEF SameServer
  <1>8. ServerEnd' = c
    BY <1>6, <1>7, SMT DEF ServerEnd
  <1>9. ClientEnd' = c
    BY <1>1, <1>2, <1>4, <1>5, SMT DEF ClientEnd, Accepting, Passive
  <1> QED
    BY <1>2, <1>3, <1>5, <1>7, <1>8, <1>9, SMT DEF Paired

LEMMA HearsOpeningPaired ==
  ASSUME Sound, AckInv, ClientHearsOpening, SameServer, sjob' = sjob
  PROVE  Paired'
  <1>1. /\ cpc = "reply" /\ Fetching(cjob) /\ toClient # <<>>
        /\ toServer' = toServer /\ spc' = spc
    BY Zenon DEF ClientHearsOpening, Hears, SameServer
  <1>2. (Refused /\ Active) \/ Announced
    <2>1. ~AskedJob
      BY <1>1, Zenon DEF AskedJob, Asked
    <2> QED
      BY <1>1, <2>1, Zenon DEF Sound, Lock, Talk
  <1>3. CASE Refused
    <2>1. cpc' = "prompt" /\ spc' = "cmd"
      BY <1>1, <1>3, Zenon DEF ClientHearsOpening, Refused, Answered
    <2> QED
      BY <2>1, EndsPaired, Zenon
  <1>4. CASE Announced
    <2>1. /\ cpc' = IF listener["client"] = NoPort THEN "open" ELSE "link"
          /\ cjob' = cjob /\ listener' = listener /\ addr' = addr
          /\ backlog' = backlog /\ data' = data /\ conn' = conn
      BY <1>4, Zenon DEF ClientHearsOpening, Announced, dataVars
    <2>2. Accepting' <=> Accepting
      BY <1>1, <2>1, SMT DEF Accepting
    <2>3. ClientEnd' = ClientEnd /\ ServerEnd' = ServerEnd
      BY <1>1, <2>1, <2>2, Zenon DEF ClientEnd, ServerEnd
    <2>4. Linked' => Linked
      <3>1. (Passive' <=> Passive) /\ (Fetching(cjob)' <=> Fetching(cjob))
        BY <2>1, Zenon DEF Passive, Fetching
      <3>2. Dialled' => Dialled
        BY <1>1, <3>1, SMT DEF Dialled
      <3>3. toServer' = toServer /\ spc' = spc
        BY <1>1, Zenon
      <3> QED
        BY <3>1, <3>2, <3>3, ZenonT(40) DEF Linked
    <2>5. Paired
      BY Zenon DEF Sound, AckInv
    <2>6. cpc # "done" /\ cpc' # "done"
      BY <1>1, <2>1, SMT
    <2> QED
      BY <1>1, <2>1, <2>3, <2>4, <2>5, <2>6, StaysPaired, Zenon
  <1> QED
    BY <1>2, <1>3, <1>4

LEMMA AcceptsPaired ==
  ASSUME Sound, AckInv, ClientAccepts, SameServer, sjob' = sjob PROVE Paired'
  <1>1. /\ cpc = "link" /\ cpc' = "open" /\ toServer' = toServer
        /\ cjob' = cjob /\ listener' = listener /\ conn' = conn /\ spc' = spc
        /\ data' = [data EXCEPT !["client"] = Head(backlog["client"])]
        /\ backlog' = [backlog EXCEPT !["client"] = Tail(@)]
    BY Zenon DEF ClientAccepts, Accept, ctlVars, SameServer
  <1>2. DataTypeOK /\ Paired
    BY Zenon DEF Sound, TypeOK, NetTypeOK, AckInv
  <1>3. /\ data'["client"] = Head(backlog["client"])
        /\ data'["server"] = data["server"] /\ backlog'["server"] = backlog["server"]
    BY <1>1, <1>2, SMT DEF DataTypeOK, Side
  <1>4. ClientEnd' = ClientEnd
    BY <1>1, <1>3, SMT DEF ClientEnd, Accepting
  <1>5. ServerEnd' = ServerEnd
    BY <1>1, <1>3, SMT DEF ServerEnd
  <1>6. Linked' => Linked
    <2>1. Active
      BY <1>1, ClientFinds, Zenon
    <2>2. ~Dialled'
      BY <1>1, <2>1, SMT DEF Dialled, Active, Passive
    <2> QED
      BY <1>1, <2>2, Zenon DEF Linked, Fetching
  <1>7. cpc # "done" /\ cpc' # "done"
    BY <1>1, SMT
  <1> QED
    BY <1>1, <1>2, <1>4, <1>5, <1>6, <1>7, StaysPaired, Zenon

LEMMA OpensLocalPaired ==
  ASSUME Sound, AckInv, ClientOpensLocal, SameServer, sjob' = sjob
  PROVE  Paired'
  <1>1. /\ cpc = "open" /\ spc' = spc
        /\ cjob.arg \notin ReadOnly["client"]
    BY Zenon DEF ClientOpensLocal, SameServer, Sound, Lock, NotInVain
  <1>2. /\ cpc' = "recv" /\ cjob' = cjob /\ toServer' = toServer
        /\ listener' = listener /\ addr' = addr /\ backlog' = backlog
        /\ data' = data /\ conn' = conn
    BY <1>1, Zenon DEF ClientOpensLocal, ctlVars, dataVars
  <1>3. ClientEnd' = ClientEnd /\ ServerEnd' = ServerEnd
    BY <1>1, <1>2, SMT DEF ClientEnd, Accepting, ServerEnd
  <1>4. Linked' => Linked
    <2>1. (Passive' <=> Passive) /\ (Fetching(cjob)' <=> Fetching(cjob))
      BY <1>2, Zenon DEF Passive, Fetching
    <2>2. Dialled' => Dialled
      BY <1>1, <2>1, SMT DEF Dialled
    <2> QED
      BY <1>1, <1>2, <2>1, <2>2, Zenon DEF Linked
  <1>5. Paired /\ cpc # "done" /\ cpc' # "done"
    BY <1>1, <1>2, SMT DEF Sound, AckInv
  <1> QED
    BY <1>1, <1>2, <1>3, <1>4, <1>5, StaysPaired, Zenon

\* The whole file is on the wire before the client waits for 226.
LEMMA SendsPaired ==
  ASSUME Sound, AckInv, Alive', ClientSends, SameServer, sjob' = sjob
  PROVE  Paired'
  <1> DEFINE c == data["client"]
             body == file["client"][cjob.arg]
  <1>1. /\ cpc = "open" /\ cjob.verb = "STOR" /\ spc' = spc /\ body # Absent
        /\ toServer' = toServer /\ listener' = listener /\ addr' = addr
        /\ backlog' = backlog /\ file' = file /\ cType' = cType
        /\ data' = [data EXCEPT !["client"] = NoConn]
    BY Zenon DEF ClientSends, ctlVars, SameServer, Sound, Lock, NotInVain
  <1>2. /\ cpc' = "done" /\ cjob' = cjob
        /\ conn' = [conn EXCEPT
             ![c] = Shipped(@, "server", Encode(cType, body))]
    <2>1. cpc' \notin {"dying", "killed"}
      BY SMT DEF Alive, Over
    <2> QED
      BY <1>1, <2>1, SMT DEF ClientSends
  <1>3. DataTypeOK /\ Paired /\ c \in ConnId
    BY <1>1, SMT DEF Sound, TypeOK, NetTypeOK, ClientTypeOK, AckInv
  <1>4. ServerEnd' = ServerEnd
    <2>1. data'["server"] = data["server"]
      BY <1>1, <1>3, SMT DEF DataTypeOK, Side
    <2> QED
      BY <1>1, <2>1, SMT DEF ServerEnd
  <1>5. Linked' => Linked
    <2>1. (Passive' <=> Passive) /\ (Fetching(cjob)' <=> Fetching(cjob))
      BY <1>1, <1>2, Zenon DEF Passive, Fetching
    <2>2. Dialled' => Dialled
      BY <1>1, <2>1, SMT DEF Dialled
    <2> QED
      BY <1>1, <2>1, <2>2, ZenonT(40) DEF Linked
  <1>6. ASSUME Linked
        PROVE  Holds(ServerEnd, "server", cType, body)'
    <2>1. ServerEnd = c /\ conn[c].ends = Side
      BY <1>1, <1>3, <1>6, SMT DEF Paired, ClientEnd, Accepting
    <2>2. conn[c] \in Connection
      BY <1>3, SMT DEF DataTypeOK
    <2>3. conn'[c] = Shipped(conn[c], "server", Encode(cType, body))
      BY <1>2, <1>3, SMT DEF DataTypeOK
    <2>4. /\ conn'[c].ends = {"server"}
          /\ conn'[c].wire["server"] = Encode(cType, body)
      BY <2>1, <2>2, <2>3, SMT DEF Shipped, Connection, Side
    <2> QED
      BY <1>1, <1>2, <1>4, <2>1, <2>4, SMT DEF Holds
  <1> QED
    BY <1>1, <1>2, <1>3, <1>5, <1>6, SMT DEF Paired

\* Nobody sees the end of a stream before its sender is done.
LEMMA ReceivesPaired ==
  ASSUME Sound, Reliable, AckInv, ClientReceives, SameServer, sjob' = sjob
  PROVE  Paired'
  <1>1. /\ cpc = "recv" /\ cpc' = "done" /\ AtEof("client") /\ spc' = spc
        /\ toServer' = toServer /\ cjob' = cjob /\ listener' = listener
        /\ addr' = addr
    BY Zenon DEF ClientReceives, Reliable, DropData, ctlVars, SameServer
  <1>2. Paired /\ "server" \notin conn[data["client"]].ends
    BY <1>1, ClientSide, Zenon DEF AtEof, Sound, AckInv
  <1>3. ~Linked
    BY <1>1, <1>2, SMT DEF Paired, ClientEnd, Accepting, Side
  <1>4. ~Linked'
    <2>1. (Passive' <=> Passive) /\ (Fetching(cjob)' <=> Fetching(cjob))
      BY <1>1, Zenon DEF Passive, Fetching
    <2>2. Dialled' => Dialled
      BY <1>1, <2>1, SMT DEF Dialled
    <2> QED
      BY <1>1, <1>3, <2>1, <2>2, Zenon DEF Linked
  <1> QED
    BY <1>1, <1>2, <1>4, SMT DEF Paired

LEMMA HearsDonePaired ==
  ASSUME Sound, ClientHearsDone, SameServer PROVE Paired'
  <1>1. cpc = "done" /\ cpc' = "prompt" /\ toClient # <<>>
    BY Zenon DEF ClientHearsDone, Hears
  <1>2. ~Answers(0)
    BY <1>1, SoundTalk, MessageCount, SMT DEF Answers
  <1>3. spc' = "cmd"
    BY <1>1, <1>2, SMT DEF Sound, Lock, Talk, Carries, SameServer
  <1> QED
    BY <1>1, <1>3, EndsPaired, Zenon

LEMMA ClientKeepsPaired ==
  ASSUME Sound, Reliable, AckInv, Alive', ClientStep \/ UserStep,
         UNCHANGED serverVars
  PROVE  Paired'
  <1>1. SameServer /\ sjob' = sjob /\ ClientMoves
    BY Zenon DEF SameServer, serverVars, ClientMoves
  <1>2. CASE \/ cpc \in AtUser \cup {"greet", "userReply", "passReply", "bye"}
             \/ cpc = "reply" /\ ~Fetching(cjob)
    BY <1>1, <1>2, IdleStaysPaired, Zenon
  <1>3. CASE ~(\/ cpc \in AtUser \cup {"greet", "userReply", "passReply", "bye"}
               \/ cpc = "reply" /\ ~Fetching(cjob))
    <2>1. ~UserStep
      BY <1>3, SMT
      DEF UserStep, TypeUser, TypePassword, SendPlain, TypePass, TypePort,
          TypeQuit, TypeTransfer, Types, AtUser
    <2>2. /\ ~ClientHearsGreeting /\ ~ClientHearsUserReply
          /\ ~ClientHearsPassReply /\ ~ClientHearsReply /\ ~ClientHearsBye
      BY <1>3, SMT
      DEF ClientHearsGreeting, ClientHearsUserReply, ClientHearsPassReply,
          ClientHearsReply, ClientHearsBye
    <2>3. ~ClientLosesServer /\ ~ClientExits
      BY SMT DEF ClientLosesServer, ClientExits, Alive, Over
    <2>4. CASE ClientDials \/ ClientHearsOpening \/ ClientAccepts
      BY <1>1, <2>4, DialsPaired, HearsOpeningPaired, AcceptsPaired, Zenon
    <2>5. CASE ClientOpensLocal \/ ClientSends
      BY <1>1, <2>5, OpensLocalPaired, SendsPaired, Zenon
    <2>6. CASE ClientReceives \/ ClientHearsDone
      BY <1>1, <2>6, ReceivesPaired, HearsDonePaired, Zenon
    <2> QED
      BY <2>1, <2>2, <2>3, <2>4, <2>5, <2>6, Zenon DEF ClientStep
  <1> QED
    BY <1>2, <1>3

-----------------------------------------------------------------------------
LEMMA InitAck == Init => AckInv
  <1> SUFFICES ASSUME Init PROVE AckInv
    OBVIOUS
  <1>1. spc = "greet" /\ cpc = "greet" /\ toServer = <<>> /\ toClient = <<>>
    BY Zenon DEF Init, ServerInit, ClientInit
  <1>2. ~Confirmed
    BY <1>1, NoneConfirmed, Zenon
  <1>3. Paired
    BY <1>1, SMT DEF Paired, Linked
  <1> QED
    BY <1>2, <1>3, Zenon DEF AckInv

LEMMA StutterKeepsAck ==
  ASSUME AckInv, UNCHANGED <<netVars, serverVars, clientVars>> PROVE AckInv'
  <1>1. /\ toServer' = toServer /\ toClient' = toClient /\ listener' = listener
        /\ addr' = addr /\ backlog' = backlog /\ conn' = conn /\ data' = data
        /\ file' = file /\ spc' = spc /\ sType' = sType /\ sjob' = sjob
        /\ cpc' = cpc /\ cType' = cType /\ cjob' = cjob
    BY Zenon DEF netVars, serverVars, clientVars
  <1>2. /\ (Alive' <=> Alive) /\ (Confirmed' <=> Confirmed) /\ reply' = reply
        /\ (Accepting' <=> Accepting) /\ (Passive' <=> Passive)
        /\ (Fetching(cjob)' <=> Fetching(cjob)) /\ ServerEnd' = ServerEnd
    BY <1>1, Zenon
    DEF Alive, Confirmed, reply, Accepting, Passive, Fetching, ServerEnd
  <1>3. ClientEnd' = ClientEnd /\ (Dialled' <=> Dialled)
    BY <1>1, <1>2, Zenon DEF ClientEnd, Dialled
  <1>4. Linked' <=> Linked
    BY <1>1, <1>2, <1>3, Zenon DEF Linked
  <1>5. /\ Holds(ServerEnd, "server", cType, file["client"][cjob.arg])'
             <=> Holds(ServerEnd, "server", cType, file["client"][cjob.arg])
        /\ Holds(ClientEnd, "client", sType, file["server"][cjob.arg])'
             <=> Holds(ClientEnd, "client", sType, file["server"][cjob.arg])
    BY <1>1, <1>2, <1>3, Zenon DEF Holds
  <1>6. Paired' <=> Paired
    BY <1>1, <1>2, <1>3, <1>4, <1>5, Zenon DEF Paired
  <1>7. Vouched' <=> Vouched
    BY <1>1, <1>2, <1>3, <1>5, Zenon DEF Vouched
  <1> QED
    BY <1>1, <1>2, <1>6, <1>7, Zenon DEF AckInv

LEMMA ClientKeepsAck ==
  ASSUME Orderly, Reliable, TypeOK, LoginInv, HeldInv, LockInv, AckInv,
         [Next]_vars, UNCHANGED serverVars,
         ClientStep \/ ClientTimesOut \/ UserStep \/ ClientInterrupted
  PROVE  AckInv'
  <1>1. ASSUME Alive' PROVE Paired'
    <2>1. Sound
      BY <1>1, AliveBefore, Zenon DEF Sound, LockInv
    <2>2. ~ClientTimesOut
      BY <2>1, ClientNeverTimesOut, Zenon
    <2>3. ~ClientInterrupted
      BY <1>1, SMT DEF ClientInterrupted, Alive, Over
    <2> QED
      BY <1>1, <2>1, <2>2, <2>3, ClientKeepsPaired, Zenon
  <1>2. ASSUME Confirmed', cpc' \notin Over PROVE Vouched'
    <2>1. ClientMoves
      BY Zenon DEF ClientMoves, ClientTimesOut
    <2> QED
      BY <1>2, <2>1, ClientKeepsVouch, Zenon
  <1> QED
    BY <1>1, <1>2, Zenon DEF AckInv

LEMMA StepKeepsAck ==
  Orderly /\ Reliable /\ TypeOK /\ LoginInv /\ HeldInv /\ LockInv /\ AckInv
    /\ [Next]_vars => AckInv'
  <1> SUFFICES ASSUME Orderly, Reliable, TypeOK, LoginInv, HeldInv, LockInv,
                      AckInv, [Next]_vars
               PROVE  AckInv'
    OBVIOUS
  <1>1. CASE UNCHANGED vars
    <2>1. UNCHANGED <<netVars, serverVars, clientVars>>
      BY <1>1 DEF vars
    <2> QED
      BY <2>1, StutterKeepsAck, Zenon
  <1>2. CASE ServerAction \/ (ServerInterrupted /\ UNCHANGED clientVars)
    <2>1. /\ UNCHANGED clientVars
          /\ ServerStep \/ ServerTimesOut \/ ServerInterrupted
      BY <1>2, Zenon DEF ServerAction
    <2> QED
      BY <2>1, ServerKeepsAck, Zenon
  <1>3. CASE ClientAction \/ UserAction \/ (ClientInterrupted /\ UNCHANGED serverVars)
    <2>1. /\ UNCHANGED serverVars
          /\ ClientStep \/ ClientTimesOut \/ UserStep \/ ClientInterrupted
      BY <1>3, Zenon DEF ClientAction, UserAction
    <2> QED
      BY <2>1, ClientKeepsAck, Zenon
  <1> QED
    BY <1>1, <1>2, <1>3, Zenon DEF Next, Interruption, Ends

LEMMA AckShows == TypeOK /\ AckInv => AckMeansSame
  <1> SUFFICES ASSUME TypeOK, AckInv, Acknowledged PROVE AckMeansSame
    BY Zenon DEF AckMeansSame
  <1>1. cpc = "done" /\ toClient # <<>> /\ Head(toClient).code = 226
    BY Zenon DEF Acknowledged
  <1>2. Confirmed
    <2>1. toClient \in Seq(Response)
      BY Zenon DEF TypeOK, NetTypeOK, ControlTypeOK
    <2>2. 1 \in DOMAIN toClient /\ Head(toClient) = toClient[1]
      BY <1>1, <2>1, SMT
    <2>3. toClient[1].code = 226
      BY <1>1, <2>2
    <2> QED
      BY <2>1, <2>2, <2>3, SMT DEF Confirmed
  <1>3. Vouched
    BY <1>1, <1>2, SMT DEF AckInv, Over
  <1>4. CASE cjob.verb = "STOR"
    BY <1>1, <1>3, <1>4, SMT
    DEF Vouched, AckMeansSame, Peer, Decode, Encode
  <1>5. CASE cjob.verb = "RETR"
    BY <1>1, <1>3, <1>5, SMT
    DEF Vouched, AckMeansSame, Peer, Decode, Encode
  <1> QED
    BY <1>3, <1>4, <1>5, SMT DEF Vouched, Fetching

(***************************************************************************)
(* 226 means equal files.  In orderly scenarios, with connections that do  *)
(* not break midway and disks that are not full, whatever ends either      *)
(* process or makes reading a file, a listener or a login fail: when the   *)
(* client reads 226 both hosts have the same file, unless its content does *)
(* not survive the type both ends were told to use.                        *)
(***************************************************************************)
THEOREM OrderlyAcksAreTrue ==
  ASSUME Orderly, Reliable PROVE Spec => []AckMeansSame
  <1> QED
    BY AckShows, InitAck, StepKeepsAck, InitLock, StepKeepsLock, InitLogin,
       StepKeepsLogin, InitHeld, StepKeepsHeld, SessionTyped, PTL
    DEF Spec, LockInv

-----------------------------------------------------------------------------
(***************************************************************************)
(* Somebody goes on.  Each wait of the server is set against each wait of  *)
(* the client.                                                             *)
(***************************************************************************)
OnlyRetrReads == cpc = "recv" => cjob.verb = "RETR"

LEMMA InitReads == Init => OnlyRetrReads
  BY SMT DEF Init, ClientInit, OnlyRetrReads

LEMMA StepKeepsReads == OnlyRetrReads /\ [Next]_vars => OnlyRetrReads'
  <1> SUFFICES ASSUME OnlyRetrReads, [Next]_vars, cpc' = "recv"
               PROVE  cjob'.verb = "RETR"
    BY Zenon DEF OnlyRetrReads
  <1>1. CASE UNCHANGED clientVars \/ UNCHANGED vars
    <2>1. cpc' = cpc /\ cjob' = cjob
      BY <1>1, Zenon DEF clientVars, vars
    <2> QED
      BY <2>1, Zenon DEF OnlyRetrReads
  <1>2. CASE ClientMoves
    <2>1. ClientOpensLocal /\ cjob' = cjob
      BY <1>2, SMT
      DEF ClientMoves, ClientStep, ClientHearsGreeting, ClientHearsUserReply,
          ClientHearsPassReply, ClientHearsReply, ClientDials, ClientHearsOpening,
          ClientAccepts, ClientOpensLocal, ClientSends, ClientReceives,
          ClientHearsDone, ClientHearsBye, ClientLosesServer, ClientExits,
          ClientFailsAccept, ClientInterrupted, UserStep, TypeUser, TypePassword,
          SendPlain, TypePass, TypePort, TypeQuit, TypeTransfer, Tell, Rebind
    <2> QED
      BY <2>1, Zenon DEF ClientOpensLocal
  <1> QED
    BY <1>1, <1>2, NextSplits, Zenon DEF ClientMoves, serverVars

LEMMA EmptyLength == Len(<<>>) = 0
  BY EmptySeq, MessageCount, Zenon

\* The server waits for a command: all its replies are read, its ends closed.
LEMMA CommandAwaited ==
  ASSUME Sound, spc = "cmd", toServer = <<>>, ClientWaits PROVE cpc \in AtUser
  <1>1. /\ ~Asked /\ \A v : ~AskedFor(v)
        /\ ~AskedJob
    <2>1. Len(toServer) # 1
      BY SoundTalk, MessageCount, SMT
    <2> QED
      BY <2>1, Zenon DEF Asked, AskedFor, AskedJob
  <1>2. toClient = <<>> => ~Answers(1) /\ ~Answers(2)
    BY SoundTalk, MessageCount, SMT DEF Answers
  <1>3. toClient = <<>> => ~Answered /\ ~Refused /\ ~Announced /\ ~Carries(0)
    BY <1>2, SMT DEF Answered, Refused, Announced, Carries
  <1>4. Talk /\ cpc \in ClientPc \ Over
    BY SoundTalk, Zenon DEF Sound, Lock
  <1>5. CASE cpc \in Listening
    <2>1. toClient = <<>>
      BY <1>5, SMT DEF ClientWaits, Listening, AtUser
    <2> QED
      BY <1>1, <1>3, <1>4, <1>5, <2>1, SMT DEF Talk, Listening
  <1>6. CASE cpc = "link"
    <2>1. Len(backlog["client"]) = 1 /\ backlog["client"] = <<>>
      BY <1>6, ClientFinds, SMT DEF ClientWaits, Listening, AtUser
    <2> QED
      BY <2>1, EmptyLength, SMT
  <1>7. CASE cpc = "recv"
    <2>1. "server" \in conn[data["client"]].ends /\ data["client"] \in ConnId
      BY <1>7, ClientSide, SMT
      DEF ClientWaits, Listening, AtUser, AtEof, Sound, TypeOK, ClientTypeOK
    <2>2. data["client"] \in Queued("server") \cup {data["server"]}
      BY <2>1, SMT DEF Sound, HeldInv, AllHeld, HeldAt, Held, Side
    <2>3. data["server"] = NoConn
      BY SMT DEF Sound, HeldInv, ServerEmpty, ServerIdle
    <2>4. backlog["server"] = <<>>
      BY Zenon DEF Sound, Lock, Queues
    <2>5. Queued("server") = {}
      BY <2>4, SMT DEF Queued
    <2> QED
      BY <2>1, <2>2, <2>3, <2>5, NetAssumption, SMT
  <1> QED
    BY <1>4, <1>5, <1>6, <1>7, SMT
    DEF ClientWaits, ClientPc, Over, AtUser, Listening, Transferring

\* The server waits for a connection: the client is about to make it.
LEMMA ConnectionAwaited ==
  ASSUME Sound, spc = "link", listener["server"] # NoPort,
         backlog["server"] = <<>>, ClientWaits
  PROVE  FALSE
  <1>1. cpc = "dial"
    BY ServerFinds, EmptyLength, SMT
  <1> QED
    BY <1>1, SMT DEF ClientWaits, Listening, AtUser

\* The server reads a stream: the client has yet to write it, or has closed it.
LEMMA StreamAwaited ==
  ASSUME Sound, AckInv, OnlyRetrReads, spc = "move", sjob.verb = "STOR",
         ~AtEof("server"), ClientWaits
  PROVE  FALSE
  <1>1. /\ Fetching(cjob)
        /\ cpc \in {"reply", "link", "open", "recv", "done"}
        /\ cpc = "reply" => Announced
    BY LinkPhase, SMT
  <1>2. Paired /\ sjob = cjob /\ Linked
    BY <1>1, Zenon DEF AckInv, Sound, Paired, Linked
  <1>3. CASE cpc = "reply"
    <2>1. toClient = <<>>
      BY <1>3, SMT DEF ClientWaits, Listening, AtUser
    <2>2. Answers(1)
      BY <1>1, <1>3, SMT DEF Announced, Carries
    <2> QED
      BY <2>1, <2>2, EmptyLength, SMT DEF Answers
  <1>4. CASE cpc = "link"
    <2>1. Len(backlog["client"]) = 1 /\ backlog["client"] = <<>>
      BY <1>4, ClientFinds, SMT DEF ClientWaits, Listening, AtUser
    <2> QED
      BY <2>1, EmptyLength, SMT
  <1>5. CASE cpc = "done"
    <2>1. conn[data["server"]].ends = {"server"}
      BY <1>2, <1>5, Zenon DEF Paired, Holds, ServerEnd
    <2> QED
      BY <2>1, ServerSide, SMT DEF AtEof
  <1>6. CASE cpc \in {"open", "recv"}
    BY <1>2, <1>6, SMT DEF ClientWaits, Listening, AtUser, OnlyRetrReads
  <1> QED
    BY <1>1, <1>3, <1>4, <1>5, <1>6, SMT

LEMMA WaitsApart ==
  Orderly /\ TypeOK /\ LoginInv /\ HeldInv /\ LockInv /\ AckInv /\ OnlyRetrReads
    => SomebodyGoesOn
  <1> SUFFICES ASSUME Orderly, TypeOK, LoginInv, HeldInv, LockInv, AckInv,
                      OnlyRetrReads, Alive, ServerWaits, ClientWaits
               PROVE  cpc \in AtUser
    BY Zenon DEF SomebodyGoesOn
  <1>1. Sound
    BY Zenon DEF Sound, LockInv
  <1>2. spc # "gone"
    BY SMT DEF Alive, Ended
  <1> QED
    BY <1>1, <1>2, CommandAwaited, ConnectionAwaited, StreamAwaited, Zenon
    DEF ServerWaits

(***************************************************************************)
(* Somebody goes on.  In orderly scenarios, with connections that do not   *)
(* break midway and disks that are not full, the two processes never both  *)
(* wait while neither waits for the user, whatever ends either of them and *)
(* whatever else fails.                                                    *)
(***************************************************************************)
THEOREM OrderlyGoesOn ==
  ASSUME Orderly, Reliable PROVE Spec => []SomebodyGoesOn
  <1> QED
    BY WaitsApart, InitReads, StepKeepsReads, InitAck, StepKeepsAck, InitLock,
       StepKeepsLock, InitLogin, StepKeepsLogin, InitHeld, StepKeepsHeld,
       SessionTyped, PTL
    DEF Spec, LockInv
=============================================================================
