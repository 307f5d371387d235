---------------------------- MODULE FtpNetProofs ----------------------------
(***************************************************************************)
(* Facts about the operators of FtpNet, for every choice of the constants: *)
(* ports survive the trip through PORT and 227, and each operation on the  *)
(* data connections keeps their types and touches one side's handler only. *)
(***************************************************************************)
EXTENDS FtpNet, SequenceTheorems, TLAPS

-----------------------------------------------------------------------------
LEMMA Divide ==
  ASSUME NEW p \in Nat
  PROVE  /\ p \div 256 \in Int /\ p % 256 \in Int
         /\ p = 256 * (p \div 256) + (p % 256)
         /\ 0 =< p % 256 /\ p % 256 =< 255
  <1>1. p \div 256 \in Int /\ p % 256 \in Int
    BY SMT
  <1>2. p = 256 * (p \div 256) + (p % 256)
    BY SMT
  <1>3. 0 =< p % 256 /\ p % 256 =< 255
    BY SMT
  <1> QED
    BY <1>1, <1>2, <1>3, SMT

LEMMA TwoBytes ==
  ASSUME NEW p \in Nat, NEW q \in Int, NEW r \in Int, p =< 65535,
         p = 256 * q + r, 0 =< r, r =< 255
  PROVE  q \in 0 .. 255 /\ r \in 0 .. 255 /\ q * 256 + r = p
  <1>1. q \in 0 .. 255
    BY SMT
  <1>2. r \in 0 .. 255
    BY SMT
  <1>3. q * 256 + r = p
    BY SMT
  <1> QED
    BY <1>1, <1>2, <1>3, SMT

LEMMA PortNumbers == \A p \in PortNumber : p \in Nat /\ p =< 65535
  BY SMT DEF PortNumber, Word

LEMMA Bytes ==
  ASSUME NEW p \in PortNumber
  PROVE  /\ p \div 256 \in 0 .. 255
         /\ p % 256 \in 0 .. 255
         /\ (p \div 256) * 256 + (p % 256) = p
  <1>1. p \in Nat /\ p =< 65535
    BY PortNumbers, SMT
  <1> QED
    BY <1>1, Divide, TwoBytes, SMT

LEMMA Narrow == \A n \in Nat : n % Word \in PortNumber
  <1>1. \A n \in Nat : n % Word \in Nat /\ n % Word < Word
    BY SMTT(30) DEF Word
  <1> QED
    BY <1>1, SMT DEF PortNumber

LEMMA NarrowSmall == \A p \in PortNumber : p % Word = p
  <1>1. \A n \in Nat : n < Word => n % Word = n
    BY SMTT(30) DEF Word
  <1> QED
    BY <1>1, SMT DEF PortNumber

(***************************************************************************)
(* The two bytes of PORT and of 227 give back the port they were made      *)
(* from, whatever it is: the sender divides by 256, the receiver           *)
(* multiplies and narrows to 16 bits.                                      *)
(***************************************************************************)
THEOREM PortRoundTrip == \A p \in PortNumber : JoinPort(SplitPort(p)) = p
  <1> TAKE p \in PortNumber
  <1>1. (p \div 256) * 256 + (p % 256) = p
    BY Bytes, SMT
  <1>2. JoinPort(SplitPort(p)) = ((p \div 256) * 256 + (p % 256)) % Word
    BY SMT DEF JoinPort, SplitPort
  <1>3. p % Word = p
    BY NarrowSmall, SMT
  <1> QED
    BY <1>1, <1>2, <1>3, SMT

LEMMA SplitPortType == \A p \in PortNumber : SplitPort(p) \in HostPort
  BY Bytes, SMT DEF SplitPort, HostPort

LEMMA JoinPortType == \A hp \in HostPort : JoinPort(hp) \in PortNumber
  <1> TAKE hp \in HostPort
  <1>1. hp \in Nat \X Nat
    BY SMT DEF HostPort
  <1>2. hp[1] * 256 + hp[2] \in Nat
    BY <1>1, SMT
  <1> QED
    BY <1>2, Narrow, SMT DEF JoinPort

LEMMA BindPortType ==
  \A n \in Port \cup {NoPort} : BindPort(n) \subseteq Port
  <1> TAKE n \in Port \cup {NoPort}
  <1>1. CASE n \in Port
    <2>1. n % Word = n /\ n # 0
      BY <1>1, NarrowSmall, NetAssumption, SMT DEF NoPort
    <2> QED
      BY <1>1, <2>1, SMT DEF BindPort
  <1>2. CASE n = NoPort
    <2>1. n % Word = 0
      BY <1>2, SMT DEF NoPort, Word
    <2> QED
      BY <2>1, SMT DEF BindPort
  <1> QED
    BY <1>1, <1>2, SMT

-----------------------------------------------------------------------------
LEMMA ReplyType == \A c \in Code : Reply(c) \in Response
  <1>1. NoHostPort \in HostPort
    BY SMT DEF NoHostPort, HostPort
  <1> QED
    BY <1>1, SMT DEF Reply, Response

LEMMA PasvReplyType ==
  \A p \in Port : PasvReply(p) \in Response
  BY SplitPortType, NetAssumption, SMT DEF PasvReply, Response, Code

LEMMA PortCmdType ==
  \A p \in Port : PortCmd(p) \in Command
  <1>1. Plain \in ArgOf("PORT") /\ Plain \in Arg
    BY SMT DEF ArgOf, Arg
  <1> QED
    BY <1>1, SplitPortType, NetAssumption, SMT DEF PortCmd, Command, Verb

LEMMA CmdType ==
  \A v \in Verb : \A a \in ArgOf(v) \cap Arg : Cmd(v, a) \in Command
  <1>1. NoHostPort \in HostPort
    BY SMT DEF NoHostPort, HostPort
  <1> QED
    BY <1>1, SMT DEF Cmd, Command

LEMMA SpecialBodies == EmptyBody \in Body /\ Damaged \in Body
  BY NetAssumption, SMT

LEMMA FreshType ==
  Fresh \in Connection /\ Opened \in Connection
  <1>1. Nothing \in Payload
    BY NetAssumption, SMT DEF Nothing, Payload, Type
  <1>2. [s \in Side |-> Nothing] \in [Side -> Payload]
    BY <1>1, SMT
  <1>3. Fresh \in Connection
    BY <1>2, SMT DEF Fresh, Connection
  <1>4. Opened = [ends |-> Side, wire |-> [s \in Side |-> Nothing]]
    BY SMT DEF Opened, Fresh
  <1> QED
    BY <1>2, <1>3, <1>4, SMT DEF Connection

LEMMA HungUpType ==
  ASSUME NEW k \in Connection, NEW s \in Side
  PROVE  HungUp(k, s) \in Connection
  <1>1. [k EXCEPT !.ends = @ \ {s}] \in Connection
    BY SMT DEF Connection
  <1> QED
    BY <1>1, FreshType, SMT DEF HungUp

LEMMA HangUpType ==
  ASSUME DataTypeOK, NEW cs, NEW s \in Side
  PROVE  HangUp(cs, s) \in [ConnId -> Connection]
  <1>1. \A c \in ConnId : conn[c] \in Connection
    BY SMT DEF DataTypeOK
  <1>2. \A c \in ConnId : HungUp(conn[c], s) \in Connection
    BY <1>1, HungUpType, SMT
  <1> QED
    BY <1>1, <1>2, SMT DEF HangUp

LEMMA ShippedType ==
  ASSUME NEW k \in Connection, NEW s \in Side, NEW p \in Payload
  PROVE  Shipped(k, s, p) \in Connection
  <1>1. [ends |-> {s}, wire |-> [k.wire EXCEPT ![s] = p]] \in Connection
    BY SMT DEF Connection
  <1> QED
    BY <1>1, FreshType, SMT DEF Shipped

LEMMA ConnUpdateType ==
  ASSUME NEW f \in [ConnId -> Connection], NEW c \in ConnId, NEW k \in Connection
  PROVE  [f EXCEPT ![c] = k] \in [ConnId -> Connection]
  BY Zenon

LEMMA EncodeType ==
  ASSUME NEW t \in Type, NEW b \in Body PROVE Encode(t, b) \in Payload
  BY SMT DEF Encode, Payload

LEMMA DecodeType ==
  ASSUME NEW t \in Type, NEW p \in Payload
  PROVE  Decode(t, p) \in Body
  BY NetAssumption, SMT DEF Decode, Payload

\* Opening a data connection gives side s a connection and leaves the rest
\* of what the handlers hold alone.
LEMMA ConnectType ==
  ASSUME DataTypeOK, NEW s \in Side, Connect(s)
  PROVE  /\ DataTypeOK'
         /\ data'[s] \in ConnId
         /\ data'[Peer(s)] = data[Peer(s)]
         /\ listener' = listener
  <1> DEFINE c == CHOOSE c \in FreeConn : TRUE
  <1>1. c \in ConnId
    BY SMT DEF Connect, CanConnect, FreeConn
  <1>2. Peer(s) \in Side /\ Peer(s) # s
    BY SMT DEF Peer, Side
  <1>3. /\ conn' = [conn EXCEPT ![c] = Opened]
        /\ backlog' = [backlog EXCEPT ![Peer(s)] = Append(@, c)]
        /\ data' = [data EXCEPT ![s] = c]
        /\ listener' = listener /\ addr' = addr
    BY SMT DEF Connect
  <1> HIDE DEF c
  <1>4. conn' \in [ConnId -> Connection]
    <2>1. conn \in [ConnId -> Connection]
      BY SMT DEF DataTypeOK
    <2>2. Opened \in Connection
      BY FreshType, SMT
    <2>3. conn' = [x \in ConnId |-> IF x = c THEN Opened ELSE conn[x]]
      BY <1>3, <2>1, Zenon
    <2> QED
      BY <2>1, <2>2, <2>3, Zenon
  <1>5. backlog' \in [Side -> Seq(ConnId)]
    BY <1>1, <1>2, <1>3, SMT DEF DataTypeOK
  <1>6. /\ data' \in [Side -> ConnId \cup {NoConn}]
        /\ data'[s] = c /\ data'[Peer(s)] = data[Peer(s)]
    BY <1>1, <1>2, <1>3, SMT DEF DataTypeOK
  <1> QED
    BY <1>1, <1>3, <1>4, <1>5, <1>6, SMT DEF DataTypeOK

LEMMA AcceptType ==
  ASSUME DataTypeOK, NEW s \in Side, Accept(s)
  PROVE  /\ DataTypeOK'
         /\ data'[s] \in ConnId
         /\ data'[Peer(s)] = data[Peer(s)]
         /\ listener' = listener
  <1>1. Head(backlog[s]) \in ConnId /\ Tail(backlog[s]) \in Seq(ConnId)
    BY HeadTailProperties DEF DataTypeOK, Accept
  <1>2. Peer(s) \in Side /\ Peer(s) # s
    BY DEF Peer, Side
  <1> QED
    BY <1>1, <1>2 DEF Accept, DataTypeOK

LEMMA DropDataType ==
  ASSUME DataTypeOK, NEW s \in Side, DropData(s)
  PROVE  /\ DataTypeOK'
         /\ data'[Peer(s)] = data[Peer(s)]
         /\ listener' = listener
  <1>1. Peer(s) \in Side /\ Peer(s) # s
    BY DEF Peer, Side
  <1> QED
    BY <1>1, HangUpType DEF DropData, DataTypeOK

LEMMA StopListeningType ==
  ASSUME DataTypeOK, NEW s \in Side, StopListening(s)
  PROVE  /\ listener' \in [Side -> Port \cup {NoPort}]
         /\ backlog' \in [Side -> Seq(ConnId)]
         /\ conn' \in [ConnId -> Connection]
         /\ listener'[Peer(s)] = listener[Peer(s)]
  <1>1. Peer(s) \in Side /\ Peer(s) # s
    BY DEF Peer, Side
  <1> QED
    BY <1>1, HangUpType DEF StopListening, DataTypeOK

LEMMA VanishType ==
  ASSUME DataTypeOK, NEW s \in Side, Vanish(s), open \subseteq Side
  PROVE  /\ DataTypeOK'
         /\ open' \subseteq Side /\ late' = late
         /\ data'[Peer(s)] = data[Peer(s)]
         /\ listener'[Peer(s)] = listener[Peer(s)]
  <1>1. Peer(s) \in Side /\ Peer(s) # s
    BY DEF Peer, Side
  <1> QED
    BY <1>1, HangUpType DEF Vanish, DataTypeOK
=============================================================================
