---------------------------- MODULE MCAnyClient -----------------------------
(***************************************************************************)
(* Values for TLC: a client that knows every command in every form.        *)
(***************************************************************************)
EXTENDS AnyClient

MCBody == {"empty", "damaged", "text"}
MCSurvives ==
  [b \in MCBody |-> IF b = "text" THEN Type \X Type \ {<<"A", "I">>}
                    ELSE Type \X Type]
MCSecret == [u \in {"alice"} |-> "open sesame"]
MCPort == {300}
Guarded == [s \in Side |-> IF s = "server" THEN {"locked"} ELSE {}]
MCFiles ==
  {[s \in Side |-> [n \in {"doc", "locked"} |->
      IF s = "server" /\ n = "locked" THEN "text" ELSE "absent"]]}

LoginScript == {Cmd("USER", "alice"), Cmd("PASS", "open sesame")}

\* Every form of every command.
AllForms ==
  ({Cmd(v, a) : v \in Verb \ {"PORT"}, a \in Arg} \cap Command)
    \cup {PortCmd(300), Cmd("PORT", Malformed)}

\* A logged in client that moves files.
TransferScript ==
  LoginScript \cup
  {Cmd("RETR", "locked"), Cmd("STOR", "doc"), Cmd("PASV", Plain), PortCmd(300)}

\* A text, and one that was cut on the way.
MCShipment == {Encode("A", "text"), Encode("A", "damaged")}
=============================================================================
