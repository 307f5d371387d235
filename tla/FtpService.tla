----------------------------- MODULE FtpService -----------------------------
(***************************************************************************)
(* What a session promises to whoever holds its other end, whatever        *)
(* commands they send and however fast: they are answered one at a time, in*)
(* order, each by exactly one final reply out of those the verb allows,    *)
(* a transfer by 150 first; before login nothing but USER, PASS, NOOP and  *)
(* QUIT has an effect, login comes from 230 alone and lasts; and a file of *)
(* the server changes only while a logged in client stores that file.      *)
(* A session may break off at any moment, after which nothing follows.     *)
(***************************************************************************)
EXTENDS Integers, Sequences

CONSTANTS Name, Content   \* the server's files and what may be in them

VARIABLES
  inbox,    \* commands the client has sent
  outbox,   \* replies the client has not read
  hearing,  \* the client still holds its end
  phase,    \* where the session stands
  authed,   \* the client is logged in
  target,   \* the file being stored, if one is
  store     \* the files of the server

svars == <<inbox, outbox, hearing, phase, authed, target, store>>

FinalCodes(verb) ==
  CASE verb = "USER" -> {331, 500, 503, 530}
    [] verb = "PASS" -> {230, 500, 503, 530}
    [] verb \in {"TYPE", "MODE", "STRU"} -> {200, 500, 504, 530}
    [] verb = "PORT" -> {200, 500, 530}
    [] verb = "PASV" -> {227, 500, 530}
    [] verb \in {"RETR", "STOR"} -> {500, 530, 550}
    [] verb = "NOOP" -> {200, 500}
    [] verb = "QUIT" -> {221}
    [] OTHER -> {502}

Open == {"USER", "PASS", "NOOP", "QUIT", "OTHER"}

\* What a client may be told before and after it has logged in.
Due(verb, code) ==
  /\ code \in FinalCodes(verb)
  /\ IF authed
     THEN code # 530 /\ (verb \in {"USER", "PASS"} => code = 503)
     ELSE code # 503 /\ (verb \notin Open => code = 530)

\* to is from with one more element.
Grows(from, to) == to # <<>> /\ to = Append(from, to[Len(to)])

Emit(code) ==
  IF hearing
  THEN Grows(outbox, outbox') /\ outbox'[Len(outbox')].code = code
  ELSE outbox' = outbox

OnlyIn(names) == \A n \in Name \ names : store'[n] = store[n]

Welcome ==
  /\ phase = "greeting"
  /\ Emit(220)
  /\ phase' \in {"ready", "closed"}
  /\ UNCHANGED <<inbox, hearing, authed, target, store>>

Answer ==
  /\ phase = "ready" /\ inbox # <<>>
  /\ inbox' = Tail(inbox)
  /\ \E code \in FinalCodes(Head(inbox).verb) :
       /\ Due(Head(inbox).verb, code)
       /\ Emit(code)
       /\ authed' = (authed \/ code = 230)
  /\ phase' \in IF Head(inbox).verb = "QUIT" THEN {"closed"} ELSE {"ready", "closed"}
  /\ UNCHANGED <<hearing, target, store>>

\* A file to be stored may lose its content before the first byte arrives.
BeginTransfer ==
  /\ phase = "ready" /\ inbox # <<>> /\ authed
  /\ Head(inbox).verb \in {"RETR", "STOR"}
  /\ inbox' = Tail(inbox)
  /\ Emit(150)
  /\ phase' \in {"transfer", "closed"}
  /\ LET names == IF Head(inbox).verb = "STOR" THEN {Head(inbox).arg} ELSE {}
     IN /\ target' = IF phase' = "transfer" THEN names ELSE {}
        /\ OnlyIn(names)
  /\ UNCHANGED <<hearing, authed>>

EndTransfer ==
  /\ phase = "transfer"
  /\ \/ Emit(226) /\ OnlyIn(target)
     \/ Emit(425) /\ store' = store
  /\ phase' \in {"ready", "closed"}
  /\ target' = {}
  /\ UNCHANGED <<inbox, hearing, authed>>

BreakOff ==
  /\ phase # "closed"
  /\ phase' = "closed"
  /\ \/ inbox' = inbox
     \/ phase = "ready" /\ inbox # <<>> /\ inbox' = Tail(inbox)
  /\ OnlyIn(target)
  /\ target' = {}
  /\ UNCHANGED <<outbox, hearing, authed>>

\* The client's own steps.
Ask ==
  /\ hearing
  /\ Grows(inbox, inbox')
  /\ UNCHANGED <<outbox, hearing, phase, authed, target, store>>

Listen ==
  /\ outbox # <<>>
  /\ outbox' = Tail(outbox)
  /\ UNCHANGED <<inbox, hearing, phase, authed, target, store>>

Leave ==
  /\ hearing
  /\ hearing' = FALSE
  /\ UNCHANGED <<inbox, outbox, phase, authed, target, store>>

SInit ==
  /\ inbox = <<>> /\ outbox = <<>> /\ hearing = TRUE
  /\ phase = "greeting"
  /\ authed = FALSE
  /\ target = {}
  /\ store \in [Name -> Content]

SNext ==
  \/ Welcome \/ Answer \/ BeginTransfer \/ EndTransfer \/ BreakOff
  \/ Ask \/ Listen \/ Leave

Service == SInit /\ [][SNext]_svars
=============================================================================
