---------------------------- MODULE MCFtpSession ----------------------------
(***************************************************************************)
(* Values for TLC: one account, a file or two, contents that tell the      *)
(* types apart, and two ports that need both of their bytes.               *)
(***************************************************************************)
EXTENDS FtpSession

MCBody == {"empty", "damaged", "text", "binary"}
MCSurvives ==
  [b \in MCBody |->
     CASE b = "text" -> Type \X Type \ {<<"A", "I">>}
       [] b = "binary" -> {<<"I", "I">>}
       [] OTHER -> Type \X Type]

MCSecret == [u \in {"alice"} |-> "open sesame"]
MCPort == {300, 20000}

\* Who can write nothing.
Neither == [s \in Side |-> {}]
TheClient == [s \in Side |-> IF s = "client" THEN Name ELSE {}]
TheServer == [s \in Side |-> IF s = "server" THEN {"locked"} ELSE {}]

\* The hosts at the start: client's file doc, server's file doc; no others.
Hosts(client, server) ==
  [s \in Side |-> [n \in Name |->
     IF n # "doc" THEN "absent" ELSE IF s = "client" THEN client ELSE server]]

BothFilled == {Hosts("text", "binary"), Hosts("empty", "text")}
ClientHasAll == [s \in Side |-> [n \in Name |-> IF s = "client" THEN "text" ELSE "absent"]]
AnyFilled == BothFilled \cup {ClientHasAll, Hosts("absent", "binary")}
OneEmpty == {Hosts("text", "absent"), Hosts("absent", "text")}
OnlyClient == {Hosts("text", "absent")}
OnlyServer == {Hosts("absent", "text")}
=============================================================================
