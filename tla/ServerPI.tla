------------------------------ MODULE ServerPI ------------------------------
(***************************************************************************)
(* ServerProtocolInterpreter: the server's end of one session, run by the  *)
(* child that main forks for each client.  Its only blocking calls are the *)
(* control read of run(), and in handle_retr_command and                   *)
(* handle_stor_command the connect or poll that opens the data connection  *)
(* and the transfer over it; spc says which of them is pending.            *)
(***************************************************************************)
EXTENDS FtpNet

CONSTANT NoUser      \* user == nullopt

ASSUME NoUserAssumption == NoUser \notin Account

VARIABLES
  spc,        \* what the interpreter does next
  sType,      \* type
  sUser,      \* user
  sLoggedIn,  \* loggedIn
  sjob        \* the RETR or STOR being carried out

serverVars == <<spc, sType, sUser, sLoggedIn, sjob>>

NoJob == Cmd("NOOP", Plain)

(***************************************************************************)
(* greet: about to write 220.  cmd: in get_next_command.  link: 150 is     *)
(* written, the data connection is being opened.  move: the file is being  *)
(* moved over it.  dying: an exception has reached run(), or the handler   *)
(* of SIGINT has called exit().  killed: SIGPIPE has come, which the       *)
(* program leaves at its default.  gone: the process has ended.            *)
(***************************************************************************)
ServerPc == {"greet", "cmd", "link", "move", "dying", "killed", "gone"}
Ended == {"dying", "killed", "gone"}

ServerTypeOK ==
  /\ spc \in ServerPc
  /\ sType \in Type
  /\ sUser \in Account \cup {NoUser}
  /\ sLoggedIn \in BOOLEAN
  /\ sjob \in Command
  /\ spc \in {"link", "move"} => sjob.verb \in {"RETR", "STOR"} /\ sjob.arg \in Name
  /\ spc \in {"link", "move"} /\ sjob.verb = "RETR" =>
       file["server"][sjob.arg] # Absent
  /\ spc = "move" => data["server"] \in ConnId

ServerInit ==
  /\ spc = "greet"
  /\ sType = "A"
  /\ sUser = NoUser
  /\ sLoggedIn = FALSE
  /\ sjob = NoJob

-----------------------------------------------------------------------------
\* run() reads the next command, of verb v.  (A line of blanks is no Command:
\* run() drops it without a reply, and the models have none.)
Takes(v) ==
  /\ spc = "cmd"
  /\ toServer # <<>>
  /\ Head(toServer).verb = v
  /\ toServer' = Tail(toServer)
  /\ UNCHANGED open

request == Head(toServer)

(***************************************************************************)
(* send_next_command(r), one write, then on to pc.  The first write to a   *)
(* connection the client has closed is lost and makes the client's kernel  *)
(* reset the connection; if it was reset already the write fails, and the  *)
(* exception reaches run().  A later write may also raise SIGPIPE.         *)
(***************************************************************************)
Say(r, pc) ==
  IF "client" \in open
  THEN toClient' = Append(toClient, r) /\ spc' = pc /\ UNCHANGED late
  ELSE /\ UNCHANGED toClient /\ spc' \in {pc, "dying", "killed"}
       /\ spc' = "killed" => "server" \in late
       /\ late' = late \cup {"server"}

\* Mutant: handle_pasv_command does not look at loggedIn.
NeedsLoginButPasv == {"TYPE", "MODE", "STRU", "PORT", "RETR", "STOR"}

NeedsLogin == {"TYPE", "MODE", "STRU", "PORT", "PASV", "RETR", "STOR"}
LoginOnly == {"USER", "PASS"}

\* What the handlers check before they look at the argument, in their order.
Complaint(c) ==
  IF c.verb \in NeedsLogin /\ ~sLoggedIn THEN 530
  ELSE IF c.verb \in LoginOnly /\ sLoggedIn THEN 503
  ELSE IF c.arg = Malformed THEN 500 ELSE 0

Fit == Complaint(request) = 0

\* The handler of v answers with a complaint and changes nothing.
Refuse(v) ==
  /\ Takes(v)
  /\ ~Fit
  /\ Say(Reply(Complaint(request)), "cmd")
  /\ UNCHANGED <<sType, sUser, sLoggedIn, sjob, dataVars, file>>

Greet ==
  /\ spc = "greet"
  /\ Say(Reply(220), "cmd")
  /\ UNCHANGED <<toServer, open, sType, sUser, sLoggedIn, sjob, dataVars, file>>

HandleType ==
  \/ Refuse("TYPE")
  \/ /\ Takes("TYPE") /\ Fit
     /\ \/ /\ request.arg \in Type
           /\ sType' = request.arg
           /\ Say(Reply(200), "cmd")
        \/ /\ request.arg = Unsupported
           /\ Say(Reply(504), "cmd")
           /\ UNCHANGED sType
     /\ UNCHANGED <<sUser, sLoggedIn, sjob, dataVars, file>>

\* handle_mode_command and handle_stru_command: STREAM and FILE are all there is.
HandleModeOrStru(v) ==
  \/ Refuse(v)
  \/ /\ Takes(v) /\ Fit
     /\ Say(Reply(IF request.arg = Unsupported THEN 504 ELSE 200), "cmd")
     /\ UNCHANGED <<sType, sUser, sLoggedIn, sjob, dataVars, file>>

\* Mutant: nobody asks getpwnam.
knownUnasked == request.arg # Illegal

known == request.arg \in Account

\* A user getpwnam does not know leaves the user of an earlier USER in place.
HandleUser ==
  \/ Refuse("USER")
  \/ /\ Takes("USER") /\ Fit
     /\ \/ /\ request.arg = Illegal
           /\ spc' = "dying"
           /\ UNCHANGED <<sUser, toClient, late>>
        \/ /\ request.arg # Illegal /\ ~known
           /\ Say(Reply(530), "cmd")
           /\ UNCHANGED sUser
        \/ /\ known
           /\ sUser' = request.arg
           /\ Say(Reply(331), "cmd")
     /\ UNCHANGED <<sType, sLoggedIn, sjob, dataVars, file>>

authOk == sUser # NoUser /\ request.arg = Secret[sUser]

HandlePass ==
  \/ Refuse("PASS")
  \/ /\ Takes("PASS") /\ Fit
     /\ \/ /\ \/ request.arg = Illegal
              \/ "shadow" \in Faults /\ sUser # NoUser
           /\ spc' = "dying"
           /\ UNCHANGED <<sLoggedIn, toClient, late>>
        \/ /\ request.arg # Illegal
           /\ ~authOk
           /\ Say(Reply(530), "cmd")
           /\ UNCHANGED sLoggedIn
        \/ /\ request.arg # Illegal
           /\ authOk
           /\ sLoggedIn' = TRUE
           /\ Say(Reply(230), "cmd")
     /\ UNCHANGED <<sType, sUser, sjob, dataVars, file>>

\* 221 is written, then an exception leaves the loop of run().
HandleQuit ==
  /\ Takes("QUIT")
  /\ Say(Reply(221), "dying")
  /\ UNCHANGED <<sType, sUser, sLoggedIn, sjob, dataVars, file>>

\* The server turns active: it forgets its own listener.
HandlePort ==
  \/ Refuse("PORT")
  \/ /\ Takes("PORT") /\ Fit
     /\ addr' = [addr EXCEPT !["server"] = JoinPort(request.port)]
     /\ StopListening("server")
     /\ Say(Reply(200), "cmd")
     /\ UNCHANGED <<sType, sUser, sLoggedIn, sjob, data, file>>

(***************************************************************************)
(* The server turns passive.  A listener it already has is announced again *)
(* with what is queued on it.                                              *)
(***************************************************************************)
HandlePasv ==
  \/ Refuse("PASV")
  \/ /\ Takes("PASV") /\ Fit
     /\ \/ /\ listener["server"] # NoPort
           /\ Say(PasvReply(listener["server"]), "cmd")
           /\ UNCHANGED listener
        \/ /\ listener["server"] = NoPort
           /\ \E p \in BindPort(0) :
                /\ listener' = [listener EXCEPT !["server"] = p]
                /\ Say(PasvReply(p), "cmd")
        \/ /\ listener["server"] = NoPort
           /\ "listen" \in Faults
           /\ spc' = "dying"
           /\ UNCHANGED <<listener, toClient, late>>
     /\ UNCHANGED <<sType, sUser, sLoggedIn, sjob, addr, backlog, conn, data, file>>

-----------------------------------------------------------------------------
\* The file opens, 150 announces the data connection.
StartJob ==
  /\ Say(Reply(150), "link")
  /\ sjob' = request

HandleRetr ==
  \/ Refuse("RETR")
  \/ /\ Takes("RETR") /\ Fit
     /\ \/ /\ file["server"][request.arg] = Absent
           /\ Say(Reply(550), "cmd")
           /\ UNCHANGED sjob
        \/ /\ file["server"][request.arg] # Absent
           /\ StartJob
     /\ UNCHANGED <<sType, sUser, sLoggedIn, dataVars, file>>

\* The write type truncates the file before there is a data connection.
HandleStor ==
  \/ Refuse("STOR")
  \/ /\ Takes("STOR") /\ Fit
     /\ \/ /\ request.arg \in ReadOnly["server"]
           /\ Say(Reply(550), "cmd")
           /\ UNCHANGED <<sjob, file>>
        \/ /\ request.arg \notin ReadOnly["server"]
           /\ file' = [file EXCEPT !["server"][request.arg] = EmptyBody]
           /\ StartJob
     /\ UNCHANGED <<sType, sUser, sLoggedIn, dataVars>>

HandleNoop ==
  \/ Refuse("NOOP")
  \/ /\ Takes("NOOP") /\ Fit
     /\ Say(Reply(200), "cmd")
     /\ UNCHANGED <<sType, sUser, sLoggedIn, sjob, dataVars, file>>

HandleNotImplemented ==
  /\ Takes("OTHER")
  /\ Say(Reply(502), "cmd")
  /\ UNCHANGED <<sType, sUser, sLoggedIn, sjob, dataVars, file>>

-----------------------------------------------------------------------------
\* The data connection: active without a listener, passive with one.
ServerOpensData ==
  /\ spc = "link"
  /\ \/ listener["server"] = NoPort /\ Connect("server")
     \/ listener["server"] # NoPort /\ Accept("server")
  /\ spc' = "move"
  /\ UNCHANGED <<ctlVars, sType, sUser, sLoggedIn, sjob, file>>

\* Mutant: the handler goes on after 425.
ServerFailsDataOn ==
  /\ spc = "link"
  /\ \/ listener["server"] = NoPort /\ ConnectFails("server")
     \/ listener["server"] # NoPort /\ AcceptTimesOut("server")
  /\ Say(Reply(425), "move")
  /\ UNCHANGED <<toServer, open, sType, sUser, sLoggedIn, sjob, file>>

\* SocketCreationException: 425.
ServerFailsData ==
  /\ spc = "link"
  /\ \/ listener["server"] = NoPort /\ ConnectFails("server")
     \/ listener["server"] # NoPort /\ AcceptTimesOut("server")
  /\ Say(Reply(425), "cmd")
  /\ sjob' = NoJob
  /\ UNCHANGED <<toServer, open, sType, sUser, sLoggedIn, file>>

\* Mutant: the loop of StreamMode::send has no end.
ServerSendsOn ==
  /\ spc = "move" /\ sjob.verb = "RETR"
  /\ conn' = [conn EXCEPT ![data["server"]].wire["client"] =
                Encode(sType, file["server"][sjob.arg])]
  /\ UNCHANGED <<ctlVars, serverVars, listener, addr, backlog, data, file>>

(***************************************************************************)
(* StreamMode::send in handle_retr_command.  When reading the file fails   *)
(* the connection is closed by the unwinding, after part of the file.      *)
(* When the client's end is closed, a write may be lost, fail, or kill.    *)
(***************************************************************************)
ServerSends ==
  /\ spc = "move" /\ sjob.verb = "RETR"
  /\ LET c == data["server"]
         ship(b) == conn' = [conn EXCEPT
                      ![c] = Shipped(@, "client", Encode(sType, b))]
     IN \/ /\ ship(file["server"][sjob.arg])
           /\ Say(Reply(226), "cmd")
        \/ /\ "client" \notin conn[c].ends
           /\ conn' = HangUp({c}, "server")
           /\ spc' \in {"dying", "killed"}
           /\ UNCHANGED <<toClient, late>>
        \/ /\ "read" \in Faults
           /\ ship(Damaged)
           /\ spc' = "dying"
           /\ UNCHANGED <<toClient, late>>
  /\ data' = [data EXCEPT !["server"] = NoConn]
  /\ sjob' = NoJob
  /\ UNCHANGED <<toServer, open, sType, sUser, sLoggedIn, listener, addr, backlog, file>>

(***************************************************************************)
(* StreamMode::recv in handle_stor_command, at the end of the stream.  A   *)
(* connection that breaks ends the stream like one that is closed.  A      *)
(* write that fails in the loop ends the session; the last write, in the   *)
(* destructor of the write type, fails unnoticed.                          *)
(***************************************************************************)
ServerReceives ==
  /\ spc = "move" /\ sjob.verb = "STOR"
  /\ LET received == Decode(sType, conn[data["server"]].wire["server"])
         save(b) == file' = [file EXCEPT !["server"][sjob.arg] = b]
     IN \/ /\ AtEof("server")
           /\ save(received)
           /\ Say(Reply(226), "cmd")
        \/ /\ "reset" \in Faults
           /\ save(Damaged)
           /\ Say(Reply(226), "cmd")
        \/ /\ "write" \in Faults /\ AtEof("server") /\ received # EmptyBody
           /\ save(Damaged)
           /\ \/ Say(Reply(226), "cmd")
              \/ spc' = "dying" /\ UNCHANGED <<toClient, late>>
  /\ DropData("server")
  /\ sjob' = NoJob
  /\ UNCHANGED <<toServer, open, sType, sUser, sLoggedIn>>

-----------------------------------------------------------------------------
\* ConnectionClosedException from get_next_command.
ServerLosesClient ==
  /\ spc = "cmd"
  /\ toServer = <<>>
  /\ "client" \notin open
  /\ spc' = "dying"
  /\ UNCHANGED <<ctlVars, sType, sUser, sLoggedIn, sjob, dataVars, file>>

\* exit() runs no handler's destructors: of a file that is being received,
\* what the write type has not written yet is lost.
ServerInterrupted ==
  /\ "abort" \in Faults
  /\ spc \notin Ended
  /\ spc' = "dying"
  /\ \/ UNCHANGED file
     \/ /\ spc = "move" /\ sjob.verb = "STOR"
        /\ file' = [file EXCEPT !["server"][sjob.arg] = Damaged]
  /\ UNCHANGED <<ctlVars, sType, sUser, sLoggedIn, sjob, dataVars>>

\* The child's branch of main ends in exit(0); a killed child just ends.
ServerExits ==
  /\ spc \in {"dying", "killed"}
  /\ Vanish("server")
  /\ spc' = "gone"
  /\ sjob' = NoJob
  /\ UNCHANGED <<toServer, toClient, sType, sUser, sLoggedIn, file>>

\* One branch of run()'s dispatch on the command.
HandleCommand ==
  \/ HandleType
  \/ \E v \in {"MODE", "STRU"} : HandleModeOrStru(v)
  \/ HandleUser
  \/ HandlePass
  \/ HandleQuit
  \/ HandlePort
  \/ HandlePasv
  \/ HandleRetr
  \/ HandleStor
  \/ HandleNoop
  \/ HandleNotImplemented

\* Every step but ServerFailsData, which the composition may have to time,
\* and ServerInterrupted, which is not the server's doing.
ServerStep ==
  \/ Greet
  \/ HandleCommand
  \/ ServerOpensData
  \/ ServerSends
  \/ ServerReceives
  \/ ServerLosesClient
  \/ ServerExits
=============================================================================
