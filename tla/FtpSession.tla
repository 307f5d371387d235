----------------------------- MODULE FtpSession -----------------------------
(***************************************************************************)
(* One session of the ftplite client with the ftplite server: the two      *)
(* interpreters, joined by the control connection and by the data          *)
(* connections they make and take.                                         *)
(***************************************************************************)
EXTENDS ServerPI, ClientPI

CONSTANT
  Careful  \* whether the user keeps off transfers that AsksInVain names

ASSUME UserAssumption == Careful \in BOOLEAN

vars == <<netVars, serverVars, clientVars>>

Init ==
  /\ toServer = <<>> /\ toClient = <<>> /\ open = Side /\ late = {}
  /\ \E p \in Port : listener = [s \in Side |-> IF s = "client" THEN p ELSE NoPort]
  /\ addr = [s \in Side |-> DefaultPort]
  /\ backlog = [s \in Side |-> <<>>]
  /\ conn = [c \in ConnId |-> Fresh]
  /\ data = [s \in Side |-> NoConn]
  /\ file \in Files
  /\ ServerInit
  /\ ClientInit

(***************************************************************************)
(* An accept gives up after five seconds.  Unless the peer may be slow,    *)
(* that is long enough for it to do all it can do without an answer.       *)
(***************************************************************************)
ServerWaits ==
  \/ spc = "cmd" /\ toServer = <<>> /\ "client" \in open
  \/ spc = "link" /\ listener["server"] # NoPort /\ backlog["server"] = <<>>
  \/ spc = "move" /\ sjob.verb = "STOR" /\ ~AtEof("server")
  \/ spc = "gone"

ClientWaits ==
  \/ cpc \in AtUser
  \/ cpc \in Listening /\ toClient = <<>> /\ "server" \in open
  \/ cpc = "link" /\ backlog["client"] = <<>>
  \/ cpc = "recv" /\ ~AtEof("client")
  \/ cpc = "gone"

ServerTimesOut ==
  /\ ServerFailsData
  /\ \/ listener["server"] = NoPort
     \/ ClientWaits
     \/ "slow" \in Faults

ClientTimesOut ==
  /\ ClientFailsAccept
  /\ \/ ServerWaits
     \/ "slow" \in Faults

ServerAction ==
  /\ ServerStep \/ ServerTimesOut
  /\ UNCHANGED clientVars

ClientAction ==
  /\ ClientStep \/ ClientTimesOut
  /\ UNCHANGED serverVars

(***************************************************************************)
(* Transfers that leave something behind: those the client finds out too   *)
(* late that it cannot do, and in passive mode those the server refuses.   *)
(***************************************************************************)
AsksInVain ==
  /\ Fetching(cjob) /\ cpc \in {"dial", "reply"}
  /\ \/ cjob.verb = "RETR" /\ cjob.arg \in ReadOnly["client"]
     \/ cjob.verb = "STOR" /\ file["client"][cjob.arg] = Absent
     \/ cpc = "dial" /\ cjob.verb = "RETR" /\ file["server"][cjob.arg] = Absent
     \/ cpc = "dial" /\ cjob.verb = "STOR" /\ cjob.arg \in ReadOnly["server"]

UserAction ==
  /\ UserStep
  /\ Careful => ~AsksInVain'
  /\ UNCHANGED serverVars

Interruption ==
  \/ ServerInterrupted /\ UNCHANGED clientVars
  \/ ClientInterrupted /\ UNCHANGED serverVars

\* Both processes have ended.
Ends ==
  /\ spc = "gone" /\ cpc = "gone"
  /\ UNCHANGED vars

Next ==
  \/ ServerAction
  \/ ClientAction
  \/ UserAction
  \/ Interruption
  \/ Ends

(***************************************************************************)
(* Each process is scheduled while it can run: a read returns once there   *)
(* is something to read, a connect succeeds or fails, a poll ends at its   *)
(* time limit.  Nothing makes the user type.                               *)
(***************************************************************************)
Spec == Init /\ [][Next]_vars /\ WF_vars(ServerAction) /\ WF_vars(ClientAction)

-----------------------------------------------------------------------------
TypeOK == NetTypeOK /\ ServerTypeOK /\ ClientTypeOK

(***************************************************************************)
(* Login.  The client holds itself logged in only if the server does, and  *)
(* so does every command on its way that only a logged in client sends:    *)
(* each process checks a loggedIn of its own, the client's is set from a   *)
(* reply code alone, and nothing but the order of the replies keeps the    *)
(* two together.                                                           *)
(***************************************************************************)
LoginAgrees ==
  /\ cLoggedIn => sLoggedIn
  /\ \A i \in DOMAIN toClient : toClient[i].code = 230 => sLoggedIn
  /\ \A i \in DOMAIN toServer :
       toServer[i].verb \notin LoginOnly => sLoggedIn

(***************************************************************************)
(* No data connection leaks: each open end is held by exactly one of the   *)
(* handler of its side and the queue of its side's listener, once; and an  *)
(* interpreter that waits for a command or for the user holds none.  It is *)
(* what the destructors of the connection classes and of data_listener     *)
(* have to achieve on every path out of the handlers.                      *)
(***************************************************************************)
Held(s) == {c \in ConnId : s \in conn[c].ends}

EndsAreHeld ==
  /\ \A s \in Side :
       /\ Held(s) \subseteq Queued(s) \cup {data[s]}
       /\ data[s] \notin Queued(s)
       /\ \A i, j \in DOMAIN backlog[s] :
            i # j => backlog[s][i] # backlog[s][j]
  /\ spc \in {"cmd", "link"} => data["server"] = NoConn
  /\ cpc \in AtUser \cup {"dial", "link", "done"} => data["client"] = NoConn

(***************************************************************************)
(* Lockstep.  Whenever the client asks the user for a command, everything  *)
(* it sent has been answered and every answer read, and the server waits   *)
(* for the next command.  The client takes the next line it reads for the  *)
(* reply to its last command, so without this every later reply is         *)
(* mistaken for another one's.                                             *)
(***************************************************************************)
Alive == spc \notin Ended /\ cpc \notin Over

PromptMeansSettled ==
  cpc = "prompt" /\ Alive =>
    /\ toServer = <<>>
    /\ toClient = <<>>
    /\ spc = "cmd"

(***************************************************************************)
(* Somebody goes on.  Never do both processes wait for one another, for a  *)
(* command or a reply, for a connection to be made, or for the end of a    *)
(* stream: when both wait, it is for the user.  get_next_command and the   *)
(* reads of a transfer have no time limit, so two ends that take each      *)
(* other's turn for the next one would hang without a word.                *)
(***************************************************************************)
SomebodyGoesOn == Alive /\ ServerWaits /\ ClientWaits => cpc \in AtUser

(***************************************************************************)
(* The two ends agree, whenever the client asks for a command, on the      *)
(* representation type, and on who opens the next data connection and      *)
(* where: exactly one side listens, the other one holds its port, and no   *)
(* connection of an earlier transfer is queued on the listener.            *)
(***************************************************************************)
SettledMeansAgreed ==
  cpc = "prompt" /\ Alive =>
    /\ cType = sType
    /\ \E s \in Side :
         /\ listener[s] # NoPort /\ listener[Peer(s)] = NoPort
         /\ addr[Peer(s)] = listener[s]
    /\ \A s \in Side : backlog[s] = <<>>

(***************************************************************************)
(* 226 Transfer complete: when the client reads it after a transfer, both  *)
(* hosts have the same file, unless its content does not survive the type  *)
(* both ends were told to use.                                             *)
(***************************************************************************)
Acknowledged ==
  cpc = "done" /\ toClient # <<>> /\ Head(toClient).code = 226

AckMeansSame ==
  Acknowledged =>
    LET source == IF cjob.verb = "STOR" THEN "client" ELSE "server"
        sent == file[source][cjob.arg]
        got == file[Peer(source)][cjob.arg]
    IN sent = Absent \/ (<<cType, cType>> \in Survives[sent] => got = sent)

(***************************************************************************)
(* A write to a connection the peer has closed is reported to the writer:  *)
(* "@throws ConnectionClosedException if connection closes" (Abstract-     *)
(* Connection::write).  No process is killed by it, whether it is the      *)
(* first such write or one after it.                                       *)
(***************************************************************************)
ClosedIsReported == spc # "killed" /\ cpc # "killed"

(***************************************************************************)
(* Every command comes to an end: the client returns to the user, or is    *)
(* over, after each line the user typed.  Transfers wait for the peer      *)
(* without a time limit, so both ends could wait for each other.           *)
(***************************************************************************)
CommandsComplete == cpc \notin AtUser ~> cpc \in AtUser \cup {"gone"}

(***************************************************************************)
(* Nothing goes round in circles.  Every step that is not the user's uses  *)
(* up some of the work there is: commands and replies on their way, and    *)
(* what each interpreter has left to do before it waits for the other or   *)
(* for the user.  A command weighs as much as all that can come of it, so  *)
(* that no exchange of the two interpreters, on any of the paths through   *)
(* their handlers that fail, prompts itself.                               *)
(***************************************************************************)
ServerLeft ==
  CASE spc = "gone" -> 0
    [] spc \in {"dying", "killed"} -> 1
    [] spc = "cmd" -> 2
    [] spc \in {"greet", "move"} -> 4
    [] spc = "link" -> 5

ClientLeft ==
  CASE cpc = "gone" -> 0
    [] cpc \in {"dying", "killed"} -> 1
    [] cpc \in AtUser -> 2
    [] cpc \in Listening \ {"reply", "passReply"} -> 3
    [] cpc = "recv" -> 4
    [] cpc = "open" -> 8
    [] cpc = "link" -> 9
    [] cpc = "reply" -> 10
    [] cpc = "dial" -> 11
    [] cpc = "passReply" -> 15

Work == 5 * Len(toServer) + Len(toClient) + ServerLeft + ClientLeft

OnlyTheUserGoesOn == [][UserAction \/ Work' < Work]_vars

(***************************************************************************)
(* A process never outlives its peer for good: once the client has ended   *)
(* the server's child ends, whatever it was doing, and once the child has  *)
(* ended the client stops waiting for it.                                  *)
(***************************************************************************)
NobodyLingers ==
  /\ cpc = "gone" ~> spc = "gone"
  /\ spc = "gone" ~> cpc \in AtUser \cup {"gone"}
=============================================================================
