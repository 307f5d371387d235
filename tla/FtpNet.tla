------------------------------- MODULE FtpNet -------------------------------
(***************************************************************************)
(* What the client and the server stand on: the control connection, the    *)
(* data listeners and data connections (the classes of src/common/         *)
(* connection over kernel TCP), the control messages, the two transfer     *)
(* types, and the files of the two hosts.  ServerPI and ClientPI extend    *)
(* this module and share its variables; FtpSession composes them.          *)
(*                                                                         *)
(* One action of those modules is the code that runs from the return of    *)
(* one blocking call (a control read, poll, connect, a data read) to the   *)
(* next one.                                                               *)
(***************************************************************************)
EXTENDS Integers, Sequences

CONSTANTS
  Name,       \* file names
  Body,       \* contents a file may have
  EmptyBody,  \* the content of a file of zero bytes
  Damaged,    \* any content that is not the whole of what was sent
  Survives,   \* per content, the pairs of types it is unharmed by (see Decode)
  Absent,     \* a name no file exists under
  ReadOnly,   \* per host, the names open(..., O_WRONLY | O_CREAT) fails for
  Files,      \* what the two hosts may hold when a session begins
  Account,    \* users getpwnam knows
  Stranger,   \* a well-formed user name getpwnam does not know
  Secret,     \* per account, its password
  WrongSecret,\* a well-formed password that is no account's
  Port,       \* ports the kernel hands out
  ConnId,     \* identities of data connections
  NoConn,     \* "no data connection"
  Backlog,    \* connections a listener queues before connect stops succeeding
  Faults      \* which failures of the surroundings may happen

(***************************************************************************)
(* slow:   a connect or an accept may run into its time limit although the *)
(*         peer is there.      listen: the kernel may refuse a listener.   *)
(* read:   reading a local file may fail midway.                           *)
(* write:  writing a local file may fail (disk full).                      *)
(* reset:  a data connection may break midway.                             *)
(* shadow: the password data base may be unreadable for the server.        *)
(* abort:  either process may be interrupted (SIGINT) at any moment.       *)
(***************************************************************************)
FaultKind == {"slow", "listen", "read", "write", "reset", "shadow",
              "abort"}

Side == {"client", "server"}
Peer(s) == IF s = "client" THEN "server" ELSE "client"

\* uint16_t
Word == 65536
PortNumber == {p \in Nat : p < Word}
NoPort == 0
DefaultPort == 21

Type == {"A", "I"}

ASSUME NetAssumption ==
  /\ Port \subseteq PortNumber /\ NoPort \notin Port
  /\ Port # {}
  /\ NoConn \notin ConnId
  /\ Backlog \in Nat
  /\ {EmptyBody, Damaged} \subseteq Body
  /\ Survives \in [Body -> SUBSET (Type \X Type)]
  /\ Absent \notin Body
  /\ ReadOnly \in [Side -> SUBSET Name]
  /\ Files \subseteq [Side -> [Name -> Body \cup {Absent}]]
  /\ Stranger \notin Account
  /\ WrongSecret \notin {Secret[u] : u \in Account}
  /\ Faults \subseteq FaultKind

-----------------------------------------------------------------------------
(***************************************************************************)
(* A payload is what StreamMode::send put on the wire: a body in the form  *)
(* the read type gave it.  Reading ASCII puts a CR before each LF, writing *)
(* ASCII takes off the last CR of each run of them unless the run ends the *)
(* file, and IMAGE does neither; Survives[b] holds the pairs <<type read   *)
(* with, type written with>> that give b back.  A text of several lines    *)
(* without CR survives all but <<"A", "I">>, one that also has a CR within *)
(* a line only <<"I", "I">>.  Nothing is what a reader sees of a           *)
(* connection that closes before a byte was sent.                          *)
(***************************************************************************)
Payload == [type : Type, body : Body]
Nothing == [type |-> "I", body |-> EmptyBody]
Encode(t, b) == [type |-> t, body |-> b]

Decode(t, p) == IF <<p.type, t>> \in Survives[p.body] THEN p.body ELSE Damaged

(***************************************************************************)
(* Control messages.  A port travels as its high and low byte.             *)
(***************************************************************************)
SplitPort(p) == <<p \div 256, p % 256>>
JoinPort(hp) == (hp[1] * 256 + hp[2]) % Word
HostPort == (0 .. 255) \X (0 .. 255)
NoHostPort == <<0, 0>>

\* OTHER stands for every command that has no handler.
Verb == {"USER", "PASS", "TYPE", "MODE", "STRU", "PORT", "PASV", "RETR",
         "STOR", "NOOP", "QUIT", "OTHER"}

Plain == "plain"            \* the argument the command requires, or none
Malformed == "malformed"    \* the wrong number or form of arguments
Unsupported == "unsupported"\* a TYPE, MODE or STRU that is not implemented
Illegal == "illegal"        \* holds a character outside the portable file
                            \* name character set
UserName == Account \cup {Stranger, Illegal}
Password == {Secret[u] : u \in Account} \cup {WrongSecret, Illegal}

ArgOf(v) ==
  CASE v = "USER" -> UserName \cup {Malformed}
    [] v = "PASS" -> Password \cup {Malformed}
    [] v = "TYPE" -> Type \cup {Unsupported, Malformed}
    [] v \in {"MODE", "STRU"} -> {Plain, Unsupported, Malformed}
    [] v \in {"RETR", "STOR"} -> Name \cup {Malformed}
    [] OTHER -> {Plain, Malformed}
Arg == UserName \cup Password \cup Type \cup Name
       \cup {Plain, Unsupported, Malformed}

Command == {c \in [verb : Verb, arg : Arg, port : HostPort] :
              c.arg \in ArgOf(c.verb)}
Cmd(v, a) == [verb |-> v, arg |-> a, port |-> NoHostPort]
PortCmd(p) == [verb |-> "PORT", arg |-> Plain, port |-> SplitPort(p)]

Code == {150, 200, 220, 221, 226, 227, 230, 331, 425, 500, 502, 503, 504,
         530, 550}
Response == [code : Code, port : HostPort]
Reply(c) == [code |-> c, port |-> NoHostPort]
PasvReply(p) == [code |-> 227, port |-> SplitPort(p)]

-----------------------------------------------------------------------------
VARIABLES
  toServer,  \* commands written by the client and not yet read
  toClient,  \* replies written by the server and not yet read
  open,      \* sides that still hold their end of the control connection
  late,      \* sides that have written to it after the peer closed it
  listener,  \* per side, the port of its data_listener, or NoPort
  addr,      \* per side, the port of the peer that it would connect to
  backlog,   \* per side, connections its listener queues, not yet accepted
  conn,      \* the data connections
  data,      \* per side, the data connection its handler holds, or NoConn
  file       \* per side, its files

ctlVars == <<toServer, toClient, open, late>>
dataVars == <<listener, addr, backlog, conn, data>>
netVars == <<toServer, toClient, open, late, listener, addr, backlog, conn,
             data, file>>

(***************************************************************************)
(* ends are the sides whose end is open (the end of a queued connection is *)
(* held by the listener); wire is what each side can read.  An identity    *)
(* with no end open is free.                                               *)
(***************************************************************************)
Connection == [ends : SUBSET Side, wire : [Side -> Payload]]
Fresh == [ends |-> {}, wire |-> [s \in Side |-> Nothing]]
Opened == [Fresh EXCEPT !.ends = Side]

ControlTypeOK ==
  /\ toServer \in Seq(Command)
  /\ toClient \in Seq(Response)
  /\ open \subseteq Side
  /\ late \subseteq Side

DataTypeOK ==
  /\ listener \in [Side -> Port \cup {NoPort}]
  /\ addr \in [Side -> PortNumber]
  /\ backlog \in [Side -> Seq(ConnId)]
  /\ conn \in [ConnId -> Connection]
  /\ data \in [Side -> ConnId \cup {NoConn}]

FileTypeOK == file \in [Side -> [Name -> Body \cup {Absent}]]

NetTypeOK == ControlTypeOK /\ DataTypeOK /\ FileTypeOK

\* AbstractConnection::~AbstractConnection on side s's end of connection k.
HungUp(k, s) ==
  IF k.ends \subseteq {s} THEN Fresh ELSE [k EXCEPT !.ends = @ \ {s}]

HangUp(cs, s) ==
  [c \in ConnId |-> IF c \in cs THEN HungUp(conn[c], s) ELSE conn[c]]

\* Mutant: the sender's end stays open.
ShippedOpen(k, s, p) ==
  IF s \in k.ends THEN [k EXCEPT !.wire[s] = p] ELSE k

\* StreamMode::send of p to side s, with the sender's end closed after it.
\* What is written to an end already closed is lost.
Shipped(k, s, p) ==
  IF s \in k.ends THEN [ends |-> {s}, wire |-> [k.wire EXCEPT ![s] = p]]
  ELSE Fresh

Queued(s) == {backlog[s][i] : i \in DOMAIN backlog[s]}
FreeConn == {c \in ConnId : conn[c].ends = {}}

\* TCPListener(uint16_t port): the ports the constructor may bind for n.
BindPort(n) == IF n % Word = 0 THEN Port ELSE {n % Word}

(***************************************************************************)
(* ActiveStartedConnection(sock_addr): side s connects to the address it   *)
(* holds.  The kernel completes the connection as soon as the peer's       *)
(* listener queues it, whether or not anyone accepts it.                   *)
(***************************************************************************)
CanConnect(s) ==
  /\ listener[Peer(s)] = addr[s]
  /\ Len(backlog[Peer(s)]) < Backlog
  /\ FreeConn # {}

Connect(s) ==
  LET c == CHOOSE c \in FreeConn : TRUE IN
    /\ CanConnect(s)
    /\ conn' = [conn EXCEPT ![c] = Opened]
    /\ backlog' = [backlog EXCEPT ![Peer(s)] = Append(@, c)]
    /\ data' = [data EXCEPT ![s] = c]
    /\ UNCHANGED <<listener, addr>>

ConnectFails(s) ==
  /\ ~CanConnect(s) \/ "slow" \in Faults
  /\ UNCHANGED dataVars

(***************************************************************************)
(* PasiveStartedConnection(listener, 5000): poll, then accept the oldest   *)
(* queued connection.  With none queued the wait ends at its time limit:   *)
(* poll returns 0 and accept fails, the listener being non-blocking.       *)
(***************************************************************************)
Accept(s) ==
  /\ backlog[s] # <<>>
  /\ data' = [data EXCEPT ![s] = Head(backlog[s])]
  /\ backlog' = [backlog EXCEPT ![s] = Tail(@)]
  /\ UNCHANGED <<listener, addr, conn>>

AcceptTimesOut(s) ==
  /\ backlog[s] = <<>>
  /\ UNCHANGED dataVars

\* Mutant: the connection is let go of but not closed.
DropDataOpen(s) ==
  /\ data' = [data EXCEPT ![s] = NoConn]
  /\ UNCHANGED <<listener, addr, backlog, conn>>

\* The data connection of side s is closed by its handler's return.
DropData(s) ==
  /\ conn' = HangUp({data[s]}, s)
  /\ data' = [data EXCEPT ![s] = NoConn]
  /\ UNCHANGED <<listener, addr, backlog>>

\* Mutant: the listener is kept.
KeepListening(s) == UNCHANGED <<listener, backlog, conn>>

\* data_listener = nullopt on side s: what the listener queued is cut off.
\* The connection identities that remain are those of conn'.
StopListening(s) ==
  /\ listener' = [listener EXCEPT ![s] = NoPort]
  /\ backlog' = [backlog EXCEPT ![s] = <<>>]
  /\ conn' = HangUp(Queued(s), s)

\* Mutant: the first read is taken for the last.
AtEofAtOnce(s) == TRUE

\* A reader sees the end of the file once the peer's end is closed.
AtEof(s) == Peer(s) \notin conn[data[s]].ends

\* Mutant: the data connections stay open.
VanishInPart(s) ==
  /\ open' = open \ {s}
  /\ listener' = [listener EXCEPT ![s] = NoPort]
  /\ backlog' = [backlog EXCEPT ![s] = <<>>]
  /\ data' = [data EXCEPT ![s] = NoConn]
  /\ UNCHANGED <<addr, late, conn>>

\* The process of side s ends: the kernel closes everything it held.
Vanish(s) ==
  /\ open' = open \ {s}
  /\ listener' = [listener EXCEPT ![s] = NoPort]
  /\ backlog' = [backlog EXCEPT ![s] = <<>>]
  /\ conn' = HangUp(ConnId, s)
  /\ data' = [data EXCEPT ![s] = NoConn]
  /\ UNCHANGED <<addr, late>>
=============================================================================
