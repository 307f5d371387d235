------------------------------ MODULE ClientPI ------------------------------
(***************************************************************************)
(* ClientProtocolInterpreter: the interactive client.  Its blocking calls  *)
(* are the reads of the control connection and of standard input, and in   *)
(* handle_retr_command and handle_stor_command the connect or poll that    *)
(* opens the data connection and the transfer over it; cpc says which of   *)
(* them is pending.  What the user types is chosen freely; a line that a   *)
(* handler rejects without sending anything leaves the state as it is.     *)
(***************************************************************************)
EXTENDS FtpNet

CONSTANTS
  Prompt,       \* the commands the user types at "ftp> "
  TypedUser,    \* the lines the user answers "USER ...:" with
  TypedSecret,  \* the words the user answers "Enter password:" with
  TypedPort,    \* the arguments the user gives PORT
  MaxUnread     \* bound: messages in flight beyond which the user only quits

ASSUME ClientAssumption ==
  /\ Prompt \subseteq Verb
  /\ TypedUser \subseteq UserName \cup {Malformed}
  /\ TypedSecret \subseteq Password
  /\ \A n \in TypedPort : n \in Int /\ BindPort(n) \subseteq Port
  /\ MaxUnread \in Nat

VARIABLES
  cpc,        \* what the interpreter does next
  cType,      \* type
  cLoggedIn,  \* loggedIn
  cjob        \* the command whose handler is running

clientVars == <<cpc, cType, cLoggedIn, cjob>>

NoWork == Cmd("NOOP", Plain)

(***************************************************************************)
(* greet, userReply, passReply, reply: reading a reply; done: reading the  *)
(* reply that follows a transfer; bye: reading the reply to QUIT.  user,   *)
(* pass, prompt: reading standard input.  dial: connecting to the server's *)
(* listener.  link: waiting at its own.  open: about to open the local     *)
(* file.  recv: reading the data connection.  dying, killed, gone: as for  *)
(* the server.                                                             *)
(***************************************************************************)
Listening == {"greet", "userReply", "passReply", "reply", "done", "bye"}
Transferring == {"dial", "link", "open", "recv"}
AtUser == {"user", "pass", "prompt"}
Over == {"dying", "killed", "gone"}
ClientPc == Listening \cup Transferring \cup AtUser \cup Over

Fetching(j) == j.verb \in {"RETR", "STOR"}

ClientTypeOK ==
  /\ cpc \in ClientPc
  /\ cType \in Type
  /\ cLoggedIn \in BOOLEAN
  /\ cjob \in Command
  /\ cpc \in Transferring => Fetching(cjob)
  /\ cpc \in {"reply"} \cup Transferring /\ Fetching(cjob) => cjob.arg \in Name
  /\ cpc = "reply" /\ cjob.verb = "TYPE" => cjob.arg \in Type
  /\ \/ cpc \in {"open", "recv"}
     \/ cpc = "reply" /\ Fetching(cjob) /\ listener["client"] = NoPort
     => data["client"] \in ConnId

ClientInit ==
  /\ cpc = "greet"
  /\ cType = "A"
  /\ cLoggedIn = FALSE
  /\ cjob = NoWork

-----------------------------------------------------------------------------
\* get_next_command returns reply.
reply == Head(toClient)

Hears ==
  /\ toClient # <<>>
  /\ toClient' = Tail(toClient)
  /\ UNCHANGED <<toServer, open, late>>

(***************************************************************************)
(* send_next_command(c), one write, then on to pc.  As for the server, the *)
(* first write after the server's close is lost or fails, and only a later *)
(* one may raise SIGPIPE.                                                  *)
(***************************************************************************)
Tell(c, pc) ==
  /\ IF "server" \in open
     THEN toServer' = Append(toServer, c) /\ cpc' = pc /\ UNCHANGED late
     ELSE /\ UNCHANGED toServer /\ cpc' \in {pc, "dying", "killed"}
          /\ cpc' = "killed" => "client" \in late
          /\ late' = late \cup {"client"}
  /\ UNCHANGED <<toClient, open>>

ClientHearsGreeting ==
  /\ cpc = "greet"
  /\ Hears
  /\ cpc' = "user"
  /\ UNCHANGED <<cType, cLoggedIn, cjob, dataVars, file>>

(***************************************************************************)
(* handle_user_command: in first_login its reply is read, at the prompt it *)
(* is not.                                                                 *)
(***************************************************************************)
TypeUser ==
  /\ \/ cpc = "user"
     \/ cpc = "prompt" /\ "USER" \in Prompt
        /\ Len(toServer) + Len(toClient) < MaxUnread
  /\ \E u \in TypedUser :
       IF u = Illegal
       THEN cpc' = "dying" /\ UNCHANGED ctlVars
       ELSE Tell(Cmd("USER", u), IF cpc = "user" THEN "userReply" ELSE "prompt")
  /\ UNCHANGED <<cType, cLoggedIn, cjob, dataVars, file>>

ClientHearsUserReply ==
  /\ cpc = "userReply"
  /\ Hears
  /\ cpc' = "pass"
  /\ UNCHANGED <<cType, cLoggedIn, cjob, dataVars, file>>

\* handle_pass_command reads a password; at the end of the input it throws.
TypePassword ==
  /\ cpc = "pass"
  /\ \/ \E w \in TypedSecret \ {Illegal} : Tell(Cmd("PASS", w), "passReply")
     \/ cpc' = "dying" /\ UNCHANGED ctlVars
  /\ UNCHANGED <<cType, cLoggedIn, cjob, dataVars, file>>

(***************************************************************************)
(* handle_port_command(n): the old listener is closed, a new one is bound  *)
(* and its port told to the server.  When it cannot be bound the exception *)
(* ends the client.                                                        *)
(***************************************************************************)
Rebind(n) ==
  \/ \E p \in BindPort(n) :
       /\ listener' = [listener EXCEPT !["client"] = p]
       /\ backlog' = [backlog EXCEPT !["client"] = <<>>]
       /\ conn' = HangUp(Queued("client"), "client")
       /\ IF "server" \in open
          THEN /\ toServer' = Append(toServer, PortCmd(p)) /\ cpc' = "reply"
               /\ UNCHANGED late
          ELSE /\ UNCHANGED toServer /\ cpc' \in {"reply", "dying", "killed"}
               /\ cpc' = "killed" => "client" \in late
               /\ late' = late \cup {"client"}
       /\ cjob' = PortCmd(p)
  \/ /\ "listen" \in Faults
     /\ StopListening("client")
     /\ cpc' = "dying"
     /\ UNCHANGED <<toServer, late, cjob>>

\* Mutant: any reply to PASS will do.
loginOkAlways == TRUE

loginOk == reply.code = 230

\* The loop of handle_pass_command ends with 230; the first login goes on
\* to PORT, a PASS typed at the prompt returns there.
ClientHearsPassReply ==
  /\ cpc = "passReply"
  /\ toClient # <<>>
  /\ toClient' = Tail(toClient)
  /\ IF loginOk /\ ~cLoggedIn
     THEN Rebind(listener["client"])
     ELSE /\ cpc' = IF loginOk THEN "prompt" ELSE "pass"
          /\ UNCHANGED <<toServer, late, cjob, listener, backlog, conn>>
  /\ cLoggedIn' = (cLoggedIn \/ loginOk)
  /\ UNCHANGED <<open, cType, addr, data, file>>

-----------------------------------------------------------------------------
\* The user types command v at the prompt and run() dispatches it.
Types(v) ==
  /\ cpc = "prompt"
  /\ v \in Prompt
  /\ Len(toServer) + Len(toClient) < MaxUnread

\* Commands that are sent and answered with one reply.
SendPlain ==
  /\ \/ \E v \in {"MODE", "STRU", "NOOP", "PASV", "OTHER"} :
          /\ Types(v)
          /\ cjob' = Cmd(v, Plain)
     \/ /\ Types("TYPE")
        /\ \E t \in Type : cjob' = Cmd("TYPE", t)
  /\ Tell(cjob', "reply")
  /\ UNCHANGED <<cType, cLoggedIn, dataVars, file>>

TypePass ==
  /\ Types("PASS")
  /\ cpc' = "pass"
  /\ UNCHANGED <<ctlVars, cType, cLoggedIn, cjob, dataVars, file>>

TypePort ==
  /\ Types("PORT")
  /\ \E n \in TypedPort : Rebind(n)
  /\ UNCHANGED <<toClient, open, cType, cLoggedIn, addr, data, file>>

\* QUIT, or the end of the input.
TypeQuit ==
  /\ cpc = "prompt"
  /\ Tell(Cmd("QUIT", Plain), "bye")
  /\ UNCHANGED <<cType, cLoggedIn, cjob, dataVars, file>>

\* A passive transfer connects before it reads the reply.
TypeTransfer ==
  /\ \E v \in {"RETR", "STOR"}, n \in Name :
       /\ Types(v)
       /\ cjob' = Cmd(v, n)
  /\ Tell(cjob', IF listener["client"] = NoPort THEN "dial" ELSE "reply")
  /\ UNCHANGED <<cType, cLoggedIn, dataVars, file>>

-----------------------------------------------------------------------------
\* The reply to a command other than RETR and STOR.
ClientHearsReply ==
  /\ cpc = "reply" /\ ~Fetching(cjob)
  /\ Hears
  /\ cType' = IF cjob.verb = "TYPE" /\ reply.code = 200 THEN cjob.arg ELSE cType
  /\ IF cjob.verb = "PASV" /\ reply.code = 227
     THEN /\ addr' = [addr EXCEPT !["client"] = JoinPort(reply.port)]
          /\ StopListening("client")
     ELSE UNCHANGED <<addr, listener, backlog, conn>>
  /\ cpc' = "prompt"
  /\ cjob' = NoWork
  /\ UNCHANGED <<cLoggedIn, data, file>>

\* ActiveStartedConnection in the passive mode of a transfer; when it
\* throws, the reply to the command is left unread.
ClientDials ==
  /\ cpc = "dial"
  /\ \/ Connect("client") /\ cpc' = "reply" /\ UNCHANGED cjob
     \/ ConnectFails("client") /\ cpc' = "prompt" /\ cjob' = NoWork
  /\ UNCHANGED <<ctlVars, cType, cLoggedIn, file>>

\* The reply to RETR or STOR.
ClientHearsOpening ==
  /\ cpc = "reply" /\ Fetching(cjob)
  /\ Hears
  /\ IF reply.code = 150
     THEN /\ cpc' = IF listener["client"] = NoPort THEN "open" ELSE "link"
          /\ UNCHANGED <<cjob, dataVars>>
     ELSE /\ cpc' = "prompt"
          /\ cjob' = NoWork
          /\ DropData("client")
  /\ UNCHANGED <<cType, cLoggedIn, file>>

ClientAccepts ==
  /\ cpc = "link"
  /\ Accept("client")
  /\ cpc' = "open"
  /\ UNCHANGED <<ctlVars, cType, cLoggedIn, cjob, file>>

\* The reply that follows the server's own failure is left unread.
ClientFailsAccept ==
  /\ cpc = "link"
  /\ AcceptTimesOut("client")
  /\ cpc' = "prompt"
  /\ cjob' = NoWork
  /\ UNCHANGED <<ctlVars, cType, cLoggedIn, file>>

-----------------------------------------------------------------------------
\* The write type of a RETR: without it a text that is no command is sent.
ClientOpensLocal ==
  /\ cpc = "open" /\ cjob.verb = "RETR"
  /\ \/ /\ cjob.arg \in ReadOnly["client"]
        /\ Tell(Cmd("OTHER", Plain), "prompt")
        /\ DropData("client")
        /\ cjob' = NoWork
        /\ UNCHANGED file
     \/ /\ cjob.arg \notin ReadOnly["client"]
        /\ file' = [file EXCEPT !["client"][cjob.arg] = EmptyBody]
        /\ cpc' = "recv"
        /\ UNCHANGED <<ctlVars, cjob, dataVars>>
  /\ UNCHANGED <<cType, cLoggedIn>>

(***************************************************************************)
(* The read type of a STOR, then StreamMode::send.  Without the local file *)
(* the connection is closed and the reply to the transfer is left unread.  *)
(***************************************************************************)
ClientSends ==
  /\ cpc = "open" /\ cjob.verb = "STOR"
  /\ LET c == data["client"]
         body == file["client"][cjob.arg]
         ship(b) == conn' = [conn EXCEPT
                      ![c] = Shipped(@, "server", Encode(cType, b))]
     IN \/ /\ body = Absent
           /\ conn' = HangUp({c}, "client")
           /\ cpc' = "prompt"
           /\ cjob' = NoWork
        \/ /\ body # Absent
           /\ ship(body)
           /\ cpc' = "done"
           /\ UNCHANGED cjob
        \/ /\ body # Absent /\ "server" \notin conn[c].ends
           /\ conn' = HangUp({c}, "client")
           /\ cpc' \in {"dying", "killed"}
           /\ UNCHANGED cjob
        \/ /\ body # Absent /\ "read" \in Faults
           /\ ship(Damaged)
           /\ cpc' = "dying"
           /\ UNCHANGED cjob
  /\ data' = [data EXCEPT !["client"] = NoConn]
  /\ UNCHANGED <<ctlVars, cType, cLoggedIn, listener, addr, backlog, file>>

\* StreamMode::recv in handle_retr_command, at the end of the stream.
ClientReceives ==
  /\ cpc = "recv"
  /\ LET received == Decode(cType, conn[data["client"]].wire["client"])
         save(b) == file' = [file EXCEPT !["client"][cjob.arg] = b]
     IN \/ AtEof("client") /\ save(received) /\ cpc' = "done"
        \/ "reset" \in Faults /\ save(Damaged) /\ cpc' = "done"
        \/ /\ "write" \in Faults /\ AtEof("client") /\ received # EmptyBody
           /\ save(Damaged)
           /\ cpc' \in {"done", "dying"}
  /\ DropData("client")
  /\ UNCHANGED <<ctlVars, cType, cLoggedIn, cjob>>

\* Mutant: nobody reads the reply that follows a transfer.
ClientHearsNothing ==
  /\ cpc = "done"
  /\ cpc' = "prompt"
  /\ cjob' = NoWork
  /\ UNCHANGED <<ctlVars, cType, cLoggedIn, dataVars, file>>

\* Whatever comes after a transfer is printed, not looked at.
ClientHearsDone ==
  /\ cpc = "done"
  /\ Hears
  /\ cpc' = "prompt"
  /\ cjob' = NoWork
  /\ UNCHANGED <<cType, cLoggedIn, dataVars, file>>

-----------------------------------------------------------------------------
ClientHearsBye ==
  /\ cpc = "bye"
  /\ Hears
  /\ cpc' = "dying"
  /\ UNCHANGED <<cType, cLoggedIn, cjob, dataVars, file>>

\* ConnectionClosedException from get_next_command.
ClientLosesServer ==
  /\ cpc \in Listening
  /\ toClient = <<>>
  /\ "server" \notin open
  /\ cpc' = "dying"
  /\ UNCHANGED <<ctlVars, cType, cLoggedIn, cjob, dataVars, file>>

\* As for the server, a file that is being received may be cut short.
ClientInterrupted ==
  /\ "abort" \in Faults
  /\ cpc \notin Over
  /\ cpc' = "dying"
  /\ \/ UNCHANGED file
     \/ /\ cpc = "recv"
        /\ file' = [file EXCEPT !["client"][cjob.arg] = Damaged]
  /\ UNCHANGED <<ctlVars, cType, cLoggedIn, cjob, dataVars>>

ClientExits ==
  /\ cpc \in {"dying", "killed"}
  /\ Vanish("client")
  /\ cpc' = "gone"
  /\ cjob' = NoWork
  /\ UNCHANGED <<toServer, toClient, cType, cLoggedIn, file>>

\* What waits for the user.
UserStep ==
  \/ TypeUser
  \/ TypePassword
  \/ SendPlain
  \/ TypePass
  \/ TypePort
  \/ TypeQuit
  \/ TypeTransfer

\* Every other step but ClientFailsAccept, which the composition may have to
\* time, and ClientInterrupted.
ClientStep ==
  \/ ClientHearsGreeting
  \/ ClientHearsUserReply
  \/ ClientHearsPassReply
  \/ ClientHearsReply
  \/ ClientDials
  \/ ClientHearsOpening
  \/ ClientAccepts
  \/ ClientOpensLocal
  \/ ClientSends
  \/ ClientReceives
  \/ ClientHearsDone
  \/ ClientHearsBye
  \/ ClientLosesServer
  \/ ClientExits
=============================================================================
