----------------------------- MODULE ServerMain -----------------------------
(***************************************************************************)
(* The server's main(): processes that accept clients and fork a child for *)
(* each, the descriptors they share meanwhile, the two signal handlers,    *)
(* and what the kernel keeps of children that have ended.  Inside a child  *)
(* ServerPI takes over; here its session just ends some day.               *)
(***************************************************************************)
EXTENDS Integers, Sequences

CONSTANTS
  Process,    \* process identities; one that is gone may be used again
  Main,       \* the process the server is started as
  Nobody,     \* the parent of Main, and of a process whose parent has ended
  Client,     \* clients, each with its one connection
  NoClient,   \* "no connection"
  Backlog,    \* connections the listener queues
  Faults      \* which failures of the surroundings may happen

(***************************************************************************)
(* fork: fork() may fail.  peer: the interpreter's constructor may throw   *)
(* (getpeername of a client that has left).  kill: a child may be killed   *)
(* (SIGPIPE).  int: any process may be sent SIGINT at any moment.          *)
(***************************************************************************)
FaultKind == {"fork", "peer", "kill", "int"}

ASSUME MainAssumption ==
  /\ Main \in Process /\ Nobody \notin Process
  /\ NoClient \notin Client
  /\ Backlog \in Nat
  /\ Faults \subseteq FaultKind

VARIABLES
  pc,       \* where each process stands
  parent,   \* its parent
  held,     \* the connection whose descriptor it has open
  chld,     \* SIGCHLD is pending for it: a flag, not a queue
  reaping,  \* it is in sigchld_handler
  came,     \* clients that have connected
  queue,    \* those of them the listener queues
  shut      \* connections shut down for both directions

procVars == <<pc, parent, chld, reaping>>
vars == <<procVars, held, came, queue, shut>>

(***************************************************************************)
(* accept: in poll or on its way to it.   fork: server holds a connection. *)
(* move: forked, not yet through move_to_child.  start: a child whose      *)
(* interpreter is not built.  serve: in run().  zombie: ended, not waited  *)
(* for.                                                                    *)
(***************************************************************************)
PC == {"accept", "fork", "move", "start", "serve", "zombie", "gone"}

Living == {p \in Process : pc[p] \notin {"zombie", "gone"}}
Zombies(p) == {q \in Process : pc[q] = "zombie" /\ parent[q] = p}
Children(p) == {q \in Process : pc[q] # "gone" /\ parent[q] = p}
InQueue == {queue[i] : i \in DOMAIN queue}

Init ==
  /\ pc = [p \in Process |-> IF p = Main THEN "accept" ELSE "gone"]
  /\ parent = [p \in Process |-> Nobody]
  /\ held = [p \in Process |-> NoClient]
  /\ chld = [p \in Process |-> FALSE]
  /\ reaping = [p \in Process |-> FALSE]
  /\ came = {} /\ queue = <<>> /\ shut = {}

-----------------------------------------------------------------------------
\* Mutant: the queue has no limit.
ArriveAnyway(c) ==
  /\ c \notin came
  /\ Living # {}
  /\ came' = came \cup {c}
  /\ queue' = Append(queue, c)
  /\ UNCHANGED <<procVars, held, shut>>

\* Every process alive has the listening socket open.
Arrive(c) ==
  /\ c \notin came
  /\ Living # {} /\ Len(queue) < Backlog
  /\ came' = came \cup {c}
  /\ queue' = Append(queue, c)
  /\ UNCHANGED <<procVars, held, shut>>

\* p executes main() at this point: no handler interrupts it.
At(p, where) == pc[p] = where /\ ~reaping[p]
Goto(p, where) ==
  pc' = [pc EXCEPT ![p] = where] /\ UNCHANGED <<parent, chld, reaping>>

\* PasiveStartedConnection(listener): without a client poll waits, and one
\* that another process takes in between only leads to another turn.
Accept(p) ==
  /\ At(p, "accept") /\ queue # <<>>
  /\ held' = [held EXCEPT ![p] = Head(queue)]
  /\ queue' = Tail(queue)
  /\ Goto(p, "fork")
  /\ UNCHANGED <<came, shut>>

\* The child has its parent's descriptors, and no signal pending.
Fork(p) ==
  /\ At(p, "fork")
  /\ \E q \in Process :
       /\ pc[q] = "gone"
       /\ pc' = [pc EXCEPT ![p] = "move", ![q] = "start"]
       /\ parent' = [parent EXCEPT ![q] = p]
       /\ held' = [held EXCEPT ![q] = held[p]]
  /\ UNCHANGED <<chld, reaping, came, queue, shut>>

\* fork() = -1 is not 0 either: the parent goes on as after a fork.
ForkFails(p) ==
  /\ "fork" \in Faults
  /\ At(p, "fork")
  /\ Goto(p, "move")
  /\ UNCHANGED <<held, came, queue, shut>>

\* Mutant: the parent lets the destructor close its copy.
ShutByParent(p) ==
  /\ At(p, "move")
  /\ held' = [held EXCEPT ![p] = NoClient]
  /\ shut' = shut \cup {held[p]}
  /\ Goto(p, "accept")
  /\ UNCHANGED <<came, queue>>

\* Mutant: the parent keeps its copy until the next client replaces it.
KeepCopy(p) ==
  /\ At(p, "move")
  /\ Goto(p, "accept")
  /\ UNCHANGED <<held, came, queue, shut>>

MoveToChild(p) ==
  /\ At(p, "move")
  /\ held' = [held EXCEPT ![p] = NoClient]
  /\ Goto(p, "accept")
  /\ UNCHANGED <<came, queue, shut>>

Start(p) ==
  /\ At(p, "start")
  /\ Goto(p, "serve")
  /\ UNCHANGED <<held, came, queue, shut>>

\* The catch of main()'s loop: the child goes on as an accepting process.
StartFails(p) ==
  /\ "peer" \in Faults
  /\ At(p, "start")
  /\ held' = [held EXCEPT ![p] = NoClient]
  /\ shut' = shut \cup {held[p]}
  /\ Goto(p, "accept")
  /\ UNCHANGED <<came, queue>>

-----------------------------------------------------------------------------
\* p ends: its children lose their parent, and its parent, if it has one,
\* is sent SIGCHLD.  The listening socket goes with the last process.
Dies(p) ==
  /\ pc' = [q \in Process |->
              CASE q = p -> IF parent[p] \in Living THEN "zombie" ELSE "gone"
                [] q # p /\ q \in Zombies(p) -> "gone"
                [] OTHER -> pc[q]]
  /\ parent' = [q \in Process |-> IF q # p /\ parent[q] = p THEN Nobody ELSE parent[q]]
  /\ held' = [held EXCEPT ![p] = NoClient]
  /\ chld' = [q \in Process |->
                q # p /\ (chld[q] \/ (q = parent[p] /\ q \in Living))]
  /\ reaping' = [reaping EXCEPT ![p] = FALSE]
  /\ queue' = IF Living = {p} THEN <<>> ELSE queue
  /\ UNCHANGED came

\* run() returns, the interpreter's destructor shuts the connection, exit(0).
EndSession(p) ==
  /\ At(p, "serve")
  /\ shut' = shut \cup {held[p]}
  /\ Dies(p)

Killed(p) ==
  /\ "kill" \in Faults
  /\ At(p, "serve")
  /\ Dies(p)
  /\ UNCHANGED shut

\* sigint_handler: ~unique_ptr of server shuts down what server still holds.
InServer(p) == IF pc[p] \in {"fork", "move", "start"} THEN {held[p]} ELSE {}

Interrupted(p) ==
  /\ "int" \in Faults
  /\ p \in Living
  /\ shut' = shut \cup InServer(p)
  /\ Dies(p)

\* sigchld_handler, entered between any two instructions, but not again
\* before it returns.
Notice(p) ==
  /\ p \in Living /\ chld[p] /\ ~reaping[p]
  /\ chld' = [chld EXCEPT ![p] = FALSE]
  /\ reaping' = [reaping EXCEPT ![p] = TRUE]
  /\ UNCHANGED <<pc, parent, held, came, queue, shut>>

\* Mutant: all children that have ended are waited for at once.
ReapAll(p) ==
  /\ reaping[p] /\ Zombies(p) # {}
  /\ pc' = [q \in Process |-> IF q \in Zombies(p) THEN "gone" ELSE pc[q]]
  /\ reaping' = [reaping EXCEPT ![p] = FALSE]
  /\ UNCHANGED <<parent, chld, held, came, queue, shut>>

\* wait(NULL) takes one child that has ended, returns at once without any
\* children, and otherwise blocks.
Reap(p) ==
  /\ reaping[p]
  /\ \/ \E q \in Zombies(p) : pc' = [pc EXCEPT ![q] = "gone"]
     \/ Children(p) = {} /\ UNCHANGED pc
  /\ reaping' = [reaping EXCEPT ![p] = FALSE]
  /\ UNCHANGED <<parent, chld, held, came, queue, shut>>

Step(p) ==
  \/ Accept(p) \/ Fork(p) \/ ForkFails(p) \/ MoveToChild(p)
  \/ Start(p) \/ StartFails(p)
  \/ Notice(p) \/ Reap(p)

\* Every client has come, and those who accept wait for more.
Rests ==
  /\ came = Client \/ Living = {}
  /\ \A p \in Process : pc[p] \notin {"fork", "move", "start"}
  /\ UNCHANGED vars

Next ==
  \/ \E c \in Client : Arrive(c)
  \/ \E p \in Process : Step(p) \/ EndSession(p) \/ Killed(p) \/ Interrupted(p)
  \/ Rests

\* Each process runs while it can.  Sessions need not end.
Spec == Init /\ [][Next]_vars /\ \A p \in Process : WF_vars(Step(p))

-----------------------------------------------------------------------------
TypeOK ==
  /\ pc \in [Process -> PC]
  /\ parent \in [Process -> Process \cup {Nobody}]
  /\ held \in [Process -> Client \cup {NoClient}]
  /\ chld \in [Process -> BOOLEAN] /\ reaping \in [Process -> BOOLEAN]
  /\ came \subseteq Client /\ queue \in Seq(Client) /\ shut \subseteq came
  /\ Len(queue) <= Backlog

(***************************************************************************)
(* The wait in sigchld_handler never blocks, so that the parent keeps      *)
(* accepting: a pending signal and a running handler each have a zombie of *)
(* their own, although SIGCHLD is a flag and the handler waits for any     *)
(* child.                                                                  *)
(***************************************************************************)
HandlerHasZombie ==
  \A p \in Process :
    /\ chld[p] \/ reaping[p] => Zombies(p) # {}
    /\ chld[p] /\ reaping[p] => \E q, r \in Zombies(p) : q # r

(***************************************************************************)
(* No connection leaks into a process it does not belong to: two processes *)
(* have one open only between fork and move_to_child, as parent and child. *)
(* A copy left in the parent, or in the child of a later client, would     *)
(* keep a client from ever seeing the end of its session.                  *)
(***************************************************************************)
SharedInForkOnly ==
  \A p, q \in Process :
    p # q /\ held[p] = held[q] /\ held[p] # NoClient =>
      \/ pc[p] = "move" /\ parent[q] = p /\ pc[q] \in {"start", "serve"}
      \/ pc[q] = "move" /\ parent[p] = q /\ pc[p] \in {"start", "serve"}

(***************************************************************************)
(* move_to_child is called "to prevent shutdown of the connection"         *)
(* (AbstractConnection.h:65): no process shuts a connection down while     *)
(* another one's session is on it, but a parent that SIGINT ends before it *)
(* has come that far.                                                      *)
(***************************************************************************)
SessionsUndisturbed ==
  \A p \in Process : pc[p] = "serve" /\ held[p] \in shut => parent[p] = Nobody

(***************************************************************************)
(* A client whose session has ended, however it ended, or could not begin, *)
(* sees its connection close: nobody keeps a copy of it for good.          *)
(***************************************************************************)
Holders(c) == {p \in Process : held[p] = c}
Served(c) == \E p \in Holders(c) : pc[p] \in {"start", "serve"}

ClientsLetGo ==
  \A c \in Client :
    c \in came \ InQueue /\ ~Served(c) ~> Served(c) \/ Holders(c) = {}

(***************************************************************************)
(* A client that waits in the queue is accepted, as long as a process that *)
(* accepts is left: neither children that end nor failed forks keep them   *)
(* from it.                                                                *)
(***************************************************************************)
Acceptors == {p \in Process : pc[p] \in {"accept", "fork", "move"}}

QueueMoves ==
  \A c \in Client : c \in InQueue ~> c \notin InQueue \/ Acceptors = {}
=============================================================================
