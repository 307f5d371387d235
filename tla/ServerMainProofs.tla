-------------------------- MODULE ServerMainProofs --------------------------
(***************************************************************************)
(* Theorems about the server's processes, for any number of processes and  *)
(* clients and with every fault allowed: who holds which connection, who   *)
(* shuts it down, and which children the signal handler finds.             *)
(***************************************************************************)
EXTENDS ServerMain, SequenceTheorems, TLAPS

\* Where a process has a connection open.
Engaged == {"fork", "move", "start", "serve"}

HoldsWhileEngaged ==
  \A p \in Process :
    /\ held[p] # NoClient <=> pc[p] \in Engaged
    /\ held[p] \in came \cup {NoClient}

\* What waits in the queue is whole, once, and nobody's.
QueueIsFresh ==
  /\ \A i \in DOMAIN queue :
       /\ queue[i] \in came /\ queue[i] \notin shut
       /\ \A p \in Process : held[p] # queue[i]
  /\ \A i, j \in DOMAIN queue : queue[i] = queue[j] => i = j

\* A connection that is shut down is on its way out of every process.
ShutIsLeft ==
  \A p \in Process :
    held[p] \in shut =>
      \/ pc[p] = "move"
      \/ pc[p] \in {"start", "serve"} /\ parent[p] = Nobody

ConnInv ==
  /\ TypeOK
  /\ HoldsWhileEngaged
  /\ QueueIsFresh
  /\ SharedInForkOnly
  /\ ShutIsLeft

-----------------------------------------------------------------------------
LEMMA DiesTyped ==
  ASSUME TypeOK, NEW p \in Process, Dies(p)
  PROVE  /\ pc' \in [Process -> PC]
         /\ parent' \in [Process -> Process \cup {Nobody}]
         /\ held' \in [Process -> Client \cup {NoClient}]
         /\ chld' \in [Process -> BOOLEAN] /\ reaping' \in [Process -> BOOLEAN]
         /\ came' \subseteq Client /\ queue' \in Seq(Client)
         /\ Len(queue') <= Backlog
  <1>1. pc' \in [Process -> PC]
    <2> DEFINE F(q) == CASE q = p -> IF parent[p] \in Living THEN "zombie" ELSE "gone"
                         [] q # p /\ q \in Zombies(p) -> "gone"
                         [] OTHER -> pc[q]
    <2>1. pc' = [q \in Process |-> F(q)]
      BY Zenon DEF Dies
    <2>2. \A q \in Process : F(q) \in PC
      BY SMT DEF TypeOK, PC
    <2> QED
      BY <2>1, <2>2, Zenon
  <1>2. parent' \in [Process -> Process \cup {Nobody}]
    BY SMT DEF Dies, TypeOK
  <1>3. held' \in [Process -> Client \cup {NoClient}]
    BY SMT DEF Dies, TypeOK
  <1>4. chld' \in [Process -> BOOLEAN]
    <2> DEFINE G(q) == q # p /\ (chld[q] \/ (q = parent[p] /\ q \in Living))
    <2>1. chld' = [q \in Process |-> G(q)]
      BY Zenon DEF Dies
    <2>2. \A q \in Process : G(q) \in BOOLEAN
      BY Zenon
    <2> QED
      BY <2>1, <2>2, Zenon
  <1>5. reaping' \in [Process -> BOOLEAN]
    <2>1. reaping' = [reaping EXCEPT ![p] = FALSE] /\ reaping \in [Process -> BOOLEAN]
      BY Zenon DEF Dies, TypeOK
    <2> QED
      BY <2>1, Zenon
  <1>6. came' \subseteq Client
    BY Zenon DEF Dies, TypeOK
  <1>7. queue' \in Seq(Client) /\ Len(queue') <= Backlog
    <2>1. queue' = queue \/ queue' = <<>>
      BY Zenon DEF Dies
    <2>2. queue \in Seq(Client) /\ Len(queue) <= Backlog /\ Backlog \in Nat
      BY MainAssumption, Zenon DEF TypeOK
    <2>3. <<>> \in Seq(Client)
      BY EmptySeq, Zenon
    <2>4. Len(<<>>) <= Backlog
      BY <2>2, SMT
    <2> QED
      BY <2>1, <2>2, <2>3, <2>4, Zenon
  <1> QED
    BY <1>1, <1>2, <1>3, <1>4, <1>5, <1>6, <1>7

\* The end of process p, told process by process.
LEMMA DiesLeaves ==
  ASSUME TypeOK, NEW p \in Process, Dies(p)
  PROVE  /\ pc'[p] \in {"zombie", "gone"}
         /\ \A q \in Process \ {p} :
              /\ pc'[q] = pc[q] \/ (pc[q] = "zombie" /\ pc'[q] = "gone")
              /\ parent'[q] = IF parent[q] = p THEN Nobody ELSE parent[q]
         /\ held' = [held EXCEPT ![p] = NoClient]
         /\ queue' = queue \/ queue' = <<>>
         /\ came' = came
  <1>1. pc'[p] \in {"zombie", "gone"}
    BY SMT DEF Dies
  <1>2. ASSUME NEW q \in Process \ {p}
        PROVE  pc'[q] = pc[q] \/ (pc[q] = "zombie" /\ pc'[q] = "gone")
    BY SMT DEF Dies, Zombies
  <1>3. ASSUME NEW q \in Process \ {p}
        PROVE  parent'[q] = IF parent[q] = p THEN Nobody ELSE parent[q]
    BY SMT DEF Dies
  <1>4. /\ held' = [held EXCEPT ![p] = NoClient]
        /\ queue' = queue \/ queue' = <<>>
        /\ came' = came
    BY Zenon DEF Dies
  <1> QED
    BY <1>1, <1>2, <1>3, <1>4, Zenon

-----------------------------------------------------------------------------
(***************************************************************************)
(* Process p lets go of its connection, shutting it down or not, because   *)
(* it ends, because it fails, or because the child has it now.             *)
(***************************************************************************)
LetsGo(p) ==
  /\ pc'[p] \notin Engaged
  /\ \A q \in Process \ {p} :
       /\ pc'[q] = pc[q] \/ (pc[q] = "zombie" /\ pc'[q] = "gone")
       /\ parent'[q] = parent[q] \/ (parent'[q] = Nobody /\ parent[q] = p)
  /\ held' = [held EXCEPT ![p] = NoClient]
  /\ queue' = queue \/ queue' = <<>>
  /\ came' = came
  /\ \/ shut' = shut
     \/ /\ pc[p] \in Engaged
        /\ shut' = shut \cup {held[p]}
        /\ pc[p] = "move" =>
             \A q \in Process \ {p} : parent[q] = p => parent'[q] = Nobody

LEMMA LetsGoHeld ==
  ASSUME ConnInv, NEW p \in Process, LetsGo(p)
  PROVE  /\ held'[p] = NoClient
         /\ \A q \in Process \ {p} :
              /\ held'[q] = held[q]
              /\ pc[q] \in Engaged \/ pc'[q] \in Engaged => pc'[q] = pc[q]
  BY SMT DEF LetsGo, ConnInv, TypeOK, Engaged

LEMMA LetsGoShut ==
  ASSUME ConnInv, NEW p \in Process, LetsGo(p)
  PROVE  /\ shut' \subseteq came'
         /\ NoClient \notin shut'
         /\ \A i \in DOMAIN queue : queue[i] \notin shut'
  <1>1. shut \subseteq came /\ came \subseteq Client /\ came' = came
    BY Zenon DEF ConnInv, TypeOK, LetsGo
  <1>2. pc[p] \in Engaged => held[p] \in came
    BY SMT DEF ConnInv, HoldsWhileEngaged
  <1>3. \A i \in DOMAIN queue : queue[i] \notin shut /\ queue[i] # held[p]
    BY Zenon DEF ConnInv, QueueIsFresh
  <1>4. shut' = shut \/ (pc[p] \in Engaged /\ shut' = shut \cup {held[p]})
    BY Zenon DEF LetsGo
  <1>5. NoClient \notin Client
    BY MainAssumption, Zenon
  <1> QED
    BY <1>1, <1>2, <1>3, <1>4, <1>5, SMT

LEMMA LetsGoKeeps ==
  ASSUME ConnInv, NEW p \in Process, LetsGo(p)
  PROVE  HoldsWhileEngaged' /\ QueueIsFresh' /\ SharedInForkOnly' /\ ShutIsLeft'
  <1>1. /\ held'[p] = NoClient /\ pc'[p] \notin Engaged
        /\ \A q \in Process \ {p} :
              /\ held'[q] = held[q]
              /\ pc[q] \in Engaged \/ pc'[q] \in Engaged => pc'[q] = pc[q]
              /\ parent'[q] = parent[q] \/ (parent'[q] = Nobody /\ parent[q] = p)
    BY LetsGoHeld, Zenon DEF LetsGo
  <1>2. came' = came /\ (queue' = queue \/ queue' = <<>>)
    BY Zenon DEF LetsGo
  <1>3. HoldsWhileEngaged'
    BY <1>1, <1>2, SMT DEF ConnInv, HoldsWhileEngaged
  <1>4. QueueIsFresh'
    <2>1. CASE queue' = <<>>
      BY <2>1, SMT DEF QueueIsFresh
    <2>2. CASE queue' = queue
      <3>1. \A i \in DOMAIN queue : NoClient # queue[i]
        <4>1. came \subseteq Client /\ NoClient \notin Client
          BY MainAssumption, Zenon DEF ConnInv, TypeOK
        <4>2. \A i \in DOMAIN queue : queue[i] \in came
          BY Zenon DEF ConnInv, QueueIsFresh
        <4> QED
          BY <4>1, <4>2, Zenon
      <3>2. \A i \in DOMAIN queue : \A q \in Process : held'[q] # queue[i]
        <4>1. \A q \in Process : held'[q] = held[q] \/ held'[q] = NoClient
          BY <1>1, Zenon
        <4>2. \A i \in DOMAIN queue : \A q \in Process : held[q] # queue[i]
          BY Zenon DEF ConnInv, QueueIsFresh
        <4> QED
          BY <3>1, <4>1, <4>2, Zenon
      <3> QED
        BY <1>2, <2>2, <3>2, LetsGoShut, Zenon DEF ConnInv, QueueIsFresh
    <2> QED
      BY <1>2, <2>1, <2>2
  <1>5. SharedInForkOnly'
    <2> SUFFICES ASSUME NEW q \in Process, NEW r \in Process, q # r,
                        held'[q] = held'[r], held'[q] # NoClient
                 PROVE  \/ pc'[q] = "move" /\ parent'[r] = q /\ pc'[r] \in {"start", "serve"}
                        \/ pc'[r] = "move" /\ parent'[q] = r /\ pc'[q] \in {"start", "serve"}
      BY Zenon DEF SharedInForkOnly
    <2>1. q # p /\ r # p
      BY <1>1, Zenon
    <2>2. held[q] = held[r] /\ held[q] # NoClient
      BY <1>1, <2>1, Zenon
    <2>3. pc'[q] = pc[q] /\ pc'[r] = pc[r]
      BY <1>1, <2>1, <2>2, SMT DEF ConnInv, HoldsWhileEngaged
    <2>4. \/ pc[q] = "move" /\ parent[r] = q /\ pc[r] \in {"start", "serve"}
          \/ pc[r] = "move" /\ parent[q] = r /\ pc[q] \in {"start", "serve"}
      BY <2>2, Zenon DEF ConnInv, SharedInForkOnly
    <2> QED
      BY <1>1, <2>1, <2>3, <2>4, SMT
  <1>6. ShutIsLeft'
    <2> SUFFICES ASSUME NEW q \in Process, held'[q] \in shut'
                 PROVE  \/ pc'[q] = "move"
                        \/ pc'[q] \in {"start", "serve"} /\ parent'[q] = Nobody
      BY Zenon DEF ShutIsLeft
    <2>1. q # p /\ held[q] # NoClient /\ held'[q] = held[q]
      BY <1>1, LetsGoShut, Zenon
    <2>2. pc'[q] = pc[q] /\ (parent'[q] = parent[q] \/ parent'[q] = Nobody)
      BY <1>1, <2>1, SMT DEF ConnInv, HoldsWhileEngaged
    <2>3. CASE held[q] \in shut
      BY <2>2, <2>3, Zenon DEF ConnInv, ShutIsLeft
    <2>4. CASE held[q] \notin shut
      <3>1. /\ held[q] = held[p] /\ pc[p] \in Engaged
            /\ pc[p] = "move" =>
                 \A s \in Process \ {p} : parent[s] = p => parent'[s] = Nobody
        BY <2>1, <2>4, SMT DEF LetsGo
      <3>2. \/ pc[p] = "move" /\ parent[q] = p /\ pc[q] \in {"start", "serve"}
            \/ pc[q] = "move" /\ parent[p] = q /\ pc[p] \in {"start", "serve"}
        BY <2>1, <3>1, Zenon DEF ConnInv, SharedInForkOnly
      <3> QED
        BY <2>1, <2>2, <3>1, <3>2, SMT
    <2> QED
      BY <2>3, <2>4
  <1> QED
    BY <1>3, <1>4, <1>5, <1>6

LEMMA EndingKeeps ==
  ASSUME ConnInv, NEW p \in Process,
         EndSession(p) \/ Killed(p) \/ Interrupted(p)
  PROVE  ConnInv'
  <1>1. TypeOK /\ Dies(p)
    BY Zenon DEF ConnInv, EndSession, Killed, Interrupted
  <1>2. \/ shut' = shut
        \/ pc[p] \in Engaged /\ shut' = shut \cup {held[p]}
    <2>1. CASE EndSession(p)
      BY <2>1, SMT DEF EndSession, At, Engaged
    <2>2. CASE Killed(p)
      BY <2>2, Zenon DEF Killed
    <2>3. CASE Interrupted(p)
      <3>1. shut' = shut \cup InServer(p)
        BY <2>3, Zenon DEF Interrupted
      <3>2. CASE pc[p] \in {"fork", "move", "start"}
        BY <3>1, <3>2, SMT DEF InServer, Engaged
      <3>3. CASE pc[p] \notin {"fork", "move", "start"}
        BY <3>1, <3>3, SMT DEF InServer
      <3> QED
        BY <3>2, <3>3
    <2> QED
      BY <2>1, <2>2, <2>3
  <1>3. LetsGo(p)
    <2>1. pc'[p] \notin Engaged
      BY <1>1, DiesLeaves, SMT DEF Engaged
    <2>2. \A q \in Process \ {p} :
            /\ parent'[q] = parent[q] \/ (parent'[q] = Nobody /\ parent[q] = p)
            /\ parent[q] = p => parent'[q] = Nobody
      BY <1>1, DiesLeaves, SMT
    <2> QED
      BY <1>1, <1>2, <2>1, <2>2, DiesLeaves, Zenon DEF LetsGo
  <1>4. TypeOK'
    BY <1>1, <1>3, DiesTyped, LetsGoShut, Zenon DEF TypeOK
  <1> QED
    BY <1>3, <1>4, LetsGoKeeps, Zenon DEF ConnInv

LEMMA StayingKeeps ==
  ASSUME ConnInv, NEW p \in Process, MoveToChild(p) \/ StartFails(p)
  PROVE  ConnInv'
  <1>1. /\ pc[p] \in {"move", "start"}
        /\ pc' = [pc EXCEPT ![p] = "accept"]
        /\ held' = [held EXCEPT ![p] = NoClient]
        /\ UNCHANGED <<parent, chld, reaping, came, queue>>
        /\ shut' = shut \/ (pc[p] = "start" /\ shut' = shut \cup {held[p]})
    BY SMT DEF MoveToChild, StartFails, At, Goto
  <1>2. LetsGo(p)
    BY <1>1, SMT DEF LetsGo, Engaged, ConnInv, TypeOK
  <1>3. TypeOK'
    BY <1>1, <1>2, LetsGoShut, SMT DEF ConnInv, TypeOK, PC
  <1> QED
    BY <1>2, <1>3, LetsGoKeeps, Zenon DEF ConnInv

-----------------------------------------------------------------------------
LEMMA ArriveKeeps ==
  ASSUME ConnInv, NEW c \in Client, Arrive(c)
  PROVE  ConnInv'
  <1>1. /\ c \notin came /\ came' = came \cup {c} /\ queue' = Append(queue, c)
        /\ Len(queue) < Backlog
        /\ UNCHANGED <<pc, parent, chld, reaping, held, shut>>
    BY Zenon DEF Arrive, procVars
  <1>2. TypeOK /\ queue \in Seq(Client) /\ shut \subseteq came
    BY Zenon DEF ConnInv, TypeOK
  <1>3. /\ queue' \in Seq(Client) /\ Len(queue') = Len(queue) + 1
        /\ \A i \in 1 .. Len(queue) : queue'[i] = queue[i]
        /\ queue'[Len(queue) + 1] = c
        /\ DOMAIN queue = 1 .. Len(queue) /\ DOMAIN queue' = 1 .. Len(queue) + 1
        /\ Len(queue) \in Nat
    BY <1>1, <1>2, AppendProperties, LenProperties, SMT
  <1>4. TypeOK'
    BY <1>1, <1>2, <1>3, MainAssumption, SMT DEF TypeOK
  <1>5. HoldsWhileEngaged' /\ SharedInForkOnly' /\ ShutIsLeft'
    BY <1>1, SMT DEF ConnInv, HoldsWhileEngaged, SharedInForkOnly, ShutIsLeft
  <1>6. QueueIsFresh'
    <2>1. \A i \in DOMAIN queue : queue[i] # c
      BY <1>1, Zenon DEF ConnInv, QueueIsFresh
    <2>2. c \notin shut /\ \A p \in Process : held[p] # c
      BY <1>1, <1>2, MainAssumption, SMT DEF ConnInv, HoldsWhileEngaged
    <2>3. \A i \in DOMAIN queue' : (queue'[i] = c /\ i = Len(queue) + 1)
            \/ (i \in DOMAIN queue /\ queue'[i] = queue[i])
      BY <1>3, SMT
    <2> QED
      BY <1>1, <2>1, <2>2, <2>3, SMT DEF ConnInv, QueueIsFresh
  <1> QED
    BY <1>4, <1>5, <1>6, Zenon DEF ConnInv

LEMMA AcceptKeeps ==
  ASSUME ConnInv, NEW p \in Process, Accept(p)
  PROVE  ConnInv'
  <1>1. /\ pc[p] = "accept" /\ queue # <<>>
        /\ held' = [held EXCEPT ![p] = Head(queue)]
        /\ queue' = Tail(queue)
        /\ pc' = [pc EXCEPT ![p] = "fork"]
        /\ UNCHANGED <<parent, chld, reaping, came, shut>>
    BY Zenon DEF Accept, At, Goto
  <1>2. TypeOK /\ queue \in Seq(Client) /\ Len(queue) <= Backlog
    BY Zenon DEF ConnInv, TypeOK
  <1>3. /\ DOMAIN queue = 1 .. Len(queue) /\ Len(queue) \in Nat \ {0}
        /\ Head(queue) = queue[1] /\ Head(queue) \in Client
        /\ queue' \in Seq(Client) /\ Len(queue') = Len(queue) - 1
        /\ DOMAIN queue' = 1 .. Len(queue) - 1
        /\ \A i \in 1 .. Len(queue) - 1 : queue'[i] = queue[i + 1]
    BY <1>1, <1>2, HeadTailProperties, LenProperties, EmptySeq, SMT
  <1>4. TypeOK'
    BY <1>1, <1>2, <1>3, MainAssumption, SMT DEF TypeOK, PC
  <1>5. /\ Head(queue) \in came /\ Head(queue) \notin shut
        /\ \A q \in Process : held[q] # Head(queue)
        /\ Head(queue) # NoClient
        /\ \A i \in DOMAIN queue' : queue'[i] # Head(queue)
    BY <1>3, MainAssumption, SMT DEF ConnInv, QueueIsFresh
  <1>6. held'[p] = Head(queue) /\ pc'[p] = "fork"
    BY <1>1, <1>2, SMT DEF TypeOK
  <1>7. \A q \in Process \ {p} : held'[q] = held[q] /\ pc'[q] = pc[q]
    BY <1>1, <1>2, SMT DEF TypeOK
  <1>8. HoldsWhileEngaged'
    BY <1>1, <1>5, <1>6, <1>7, SMT DEF ConnInv, HoldsWhileEngaged, Engaged
  <1>9. QueueIsFresh'
    <2>1. \A i \in DOMAIN queue' :
            i + 1 \in DOMAIN queue /\ queue'[i] = queue[i + 1]
      BY <1>3, SMT
    <2>2. \A i \in DOMAIN queue' :
            /\ queue'[i] \in came /\ queue'[i] \notin shut
            /\ \A q \in Process : held[q] # queue'[i]
      <3>1. \A i \in DOMAIN queue :
              /\ queue[i] \in came /\ queue[i] \notin shut
              /\ \A q \in Process : held[q] # queue[i]
        BY Zenon DEF ConnInv, QueueIsFresh
      <3> SUFFICES ASSUME NEW i \in DOMAIN queue'
                   PROVE  /\ queue'[i] \in came /\ queue'[i] \notin shut
                          /\ \A q \in Process : held[q] # queue'[i]
        OBVIOUS
      <3>2. i + 1 \in DOMAIN queue /\ queue'[i] = queue[i + 1]
        BY <2>1, Zenon
      <3> QED
        BY <3>1, <3>2, Zenon
    <2>3. \A i \in DOMAIN queue' : \A q \in Process : held'[q] # queue'[i]
      BY <1>5, <1>6, <1>7, <2>2, Zenon
    <2>4. \A i, j \in DOMAIN queue' : queue'[i] = queue'[j] => i = j
      BY <1>3, <2>1, SMT DEF ConnInv, QueueIsFresh
    <2> QED
      BY <1>1, <2>2, <2>3, <2>4, Zenon DEF QueueIsFresh
  <1>10. SharedInForkOnly'
    <2> SUFFICES ASSUME NEW q \in Process, NEW r \in Process, q # r,
                        held'[q] = held'[r], held'[q] # NoClient
                 PROVE  \/ pc'[q] = "move" /\ parent'[r] = q /\ pc'[r] \in {"start", "serve"}
                        \/ pc'[r] = "move" /\ parent'[q] = r /\ pc'[q] \in {"start", "serve"}
      BY Zenon DEF SharedInForkOnly
    <2>1. q # p /\ r # p
      BY <1>5, <1>6, <1>7, Zenon
    <2>2. \/ pc[q] = "move" /\ parent[r] = q /\ pc[r] \in {"start", "serve"}
          \/ pc[r] = "move" /\ parent[q] = r /\ pc[q] \in {"start", "serve"}
      BY <1>7, <2>1, Zenon DEF ConnInv, SharedInForkOnly
    <2> QED
      BY <1>1, <1>7, <2>1, <2>2, SMT
  <1>11. ShutIsLeft'
    BY <1>1, <1>5, <1>6, <1>7, SMT DEF ConnInv, ShutIsLeft
  <1> QED
    BY <1>4, <1>8, <1>9, <1>10, <1>11, Zenon DEF ConnInv

\* Nobody else has the connection of a process that has just accepted it.
LEMMA AtForkAlone ==
  ASSUME ConnInv, NEW p \in Process, pc[p] = "fork"
  PROVE  /\ held[p] \in came /\ held[p] # NoClient /\ held[p] \notin shut
         /\ \A q \in Process \ {p} : held[q] # held[p]
  <1>1. held[p] \in came /\ held[p] # NoClient
    BY SMT DEF ConnInv, HoldsWhileEngaged, Engaged
  <1>2. held[p] \notin shut
    BY SMT DEF ConnInv, ShutIsLeft
  <1>3. \A q \in Process \ {p} : held[q] # held[p]
    BY <1>1, SMT DEF ConnInv, SharedInForkOnly
  <1> QED
    BY <1>1, <1>2, <1>3

LEMMA ForkKeeps ==
  ASSUME ConnInv, NEW p \in Process, Fork(p)
  PROVE  ConnInv'
  <1>1. PICK q \in Process :
          /\ pc[q] = "gone"
          /\ pc' = [pc EXCEPT ![p] = "move", ![q] = "start"]
          /\ parent' = [parent EXCEPT ![q] = p]
          /\ held' = [held EXCEPT ![q] = held[p]]
    BY Zenon DEF Fork
  <1>2. pc[p] = "fork" /\ UNCHANGED <<chld, reaping, came, queue, shut>>
    BY Zenon DEF Fork, At
  <1>3. p # q /\ TypeOK
    BY <1>1, <1>2, SMT DEF ConnInv
  <1>4. TypeOK'
    <2>1. pc' \in [Process -> PC]
      BY <1>1, <1>3, SMT DEF TypeOK, PC
    <2>2. parent' \in [Process -> Process \cup {Nobody}]
      BY <1>1, <1>3, SMT DEF TypeOK
    <2>3. held' \in [Process -> Client \cup {NoClient}]
      BY <1>1, <1>3, SMT DEF TypeOK
    <2> QED
      BY <1>2, <1>3, <2>1, <2>2, <2>3, Zenon DEF TypeOK
  <1>5. /\ pc'[p] = "move" /\ pc'[q] = "start" /\ parent'[q] = p
        /\ held'[q] = held[p] /\ held'[p] = held[p]
    BY <1>1, <1>3, SMT DEF TypeOK
  <1>6. \A r \in Process \ {p, q} :
          pc'[r] = pc[r] /\ parent'[r] = parent[r] /\ held'[r] = held[r]
    BY <1>1, <1>3, SMT DEF TypeOK
  <1>7. HoldsWhileEngaged'
    BY <1>2, <1>5, <1>6, AtForkAlone, SMT DEF ConnInv, HoldsWhileEngaged, Engaged
  <1>8. QueueIsFresh'
    <2>1. \A r \in Process : held'[r] = held[r] \/ held'[r] = held[p]
      BY <1>5, <1>6, SMT
    <2>2. \A i \in DOMAIN queue : \A r \in Process : held'[r] # queue[i]
      BY <2>1, Zenon DEF ConnInv, QueueIsFresh
    <2> QED
      BY <1>2, <2>2, Zenon DEF ConnInv, QueueIsFresh
  <1>9. SharedInForkOnly'
    <2> SUFFICES ASSUME NEW r \in Process, NEW s \in Process, r # s,
                        held'[r] = held'[s], held'[r] # NoClient
                 PROVE  \/ pc'[r] = "move" /\ parent'[s] = r /\ pc'[s] \in {"start", "serve"}
                        \/ pc'[s] = "move" /\ parent'[r] = s /\ pc'[r] \in {"start", "serve"}
      BY Zenon DEF SharedInForkOnly
    <2>1. CASE r \in {p, q} /\ s \in {p, q}
      BY <1>5, <2>1, SMT
    <2>2. CASE r \notin {p, q} /\ s \notin {p, q}
      <3>1. \/ pc[r] = "move" /\ parent[s] = r /\ pc[s] \in {"start", "serve"}
            \/ pc[s] = "move" /\ parent[r] = s /\ pc[r] \in {"start", "serve"}
        <4>1. held[r] = held[s] /\ held[r] # NoClient
          BY <1>6, <2>2, Zenon
        <4> QED
          BY <4>1, Zenon DEF ConnInv, SharedInForkOnly
      <3>2. /\ pc'[r] = pc[r] /\ parent'[r] = parent[r]
            /\ pc'[s] = pc[s] /\ parent'[s] = parent[s]
        BY <1>6, <2>2, Zenon
      <3> QED
        BY <3>1, <3>2, Zenon
    <2>3. ASSUME NEW t \in Process \ {p, q} PROVE held'[t] # held[p]
      BY <1>2, <1>6, AtForkAlone, SMT
    <2> QED
      BY <1>5, <2>1, <2>2, <2>3, SMT
  <1>10. ShutIsLeft'
    BY <1>2, <1>5, <1>6, AtForkAlone, SMT DEF ConnInv, ShutIsLeft
  <1> QED
    BY <1>4, <1>7, <1>8, <1>9, <1>10, Zenon DEF ConnInv

LEMMA ForkFailsKeeps ==
  ASSUME ConnInv, NEW p \in Process, ForkFails(p)
  PROVE  ConnInv'
  <1>1. /\ pc[p] = "fork" /\ pc' = [pc EXCEPT ![p] = "move"]
        /\ UNCHANGED <<parent, chld, reaping, held, came, queue, shut>>
    BY Zenon DEF ForkFails, At, Goto
  <1>2. TypeOK
    BY Zenon DEF ConnInv
  <1>3. TypeOK'
    BY <1>1, <1>2, SMT DEF TypeOK, PC
  <1>4. pc'[p] = "move" /\ \A q \in Process \ {p} : pc'[q] = pc[q]
    BY <1>1, <1>2, SMT DEF TypeOK
  <1>5. HoldsWhileEngaged'
    BY <1>1, <1>4, AtForkAlone, SMT DEF ConnInv, HoldsWhileEngaged, Engaged
  <1>6. QueueIsFresh'
    BY <1>1, Zenon DEF ConnInv, QueueIsFresh
  <1>7. SharedInForkOnly'
    BY <1>1, <1>4, AtForkAlone, SMT DEF ConnInv, SharedInForkOnly
  <1>8. ShutIsLeft'
    BY <1>1, <1>4, SMT DEF ConnInv, ShutIsLeft
  <1> QED
    BY <1>3, <1>5, <1>6, <1>7, <1>8, Zenon DEF ConnInv

LEMMA StartKeeps ==
  ASSUME ConnInv, NEW p \in Process, Start(p)
  PROVE  ConnInv'
  <1>1. /\ pc[p] = "start" /\ pc' = [pc EXCEPT ![p] = "serve"]
        /\ UNCHANGED <<parent, chld, reaping, held, came, queue, shut>>
    BY Zenon DEF Start, At, Goto
  <1>2. TypeOK
    BY Zenon DEF ConnInv
  <1>3. TypeOK'
    BY <1>1, <1>2, SMT DEF TypeOK, PC
  <1>4. pc'[p] = "serve" /\ \A q \in Process \ {p} : pc'[q] = pc[q]
    BY <1>1, <1>2, SMT DEF TypeOK
  <1>5. HoldsWhileEngaged'
    BY <1>1, <1>4, SMT DEF ConnInv, HoldsWhileEngaged, Engaged
  <1>6. QueueIsFresh'
    BY <1>1, Zenon DEF ConnInv, QueueIsFresh
  <1>7. SharedInForkOnly'
    BY <1>1, <1>4, SMT DEF ConnInv, SharedInForkOnly
  <1>8. ShutIsLeft'
    BY <1>1, <1>4, SMT DEF ConnInv, ShutIsLeft
  <1> QED
    BY <1>3, <1>5, <1>6, <1>7, <1>8, Zenon DEF ConnInv

\* The signal handler touches no connection and nobody who has one.
LEMMA HandlerKeeps ==
  ASSUME ConnInv, NEW p \in Process, Notice(p) \/ Reap(p)
  PROVE  ConnInv'
  <1>1. UNCHANGED <<parent, held, came, queue, shut>>
    BY Zenon DEF Notice, Reap
  <1>2. TypeOK
    BY Zenon DEF ConnInv
  <1>3. /\ chld' = chld \/ chld' = [chld EXCEPT ![p] = FALSE]
        /\ \/ reaping' = [reaping EXCEPT ![p] = FALSE]
           \/ reaping' = [reaping EXCEPT ![p] = TRUE]
    BY Zenon DEF Notice, Reap
  <1>4. chld' \in [Process -> BOOLEAN] /\ reaping' \in [Process -> BOOLEAN]
    BY <1>2, <1>3, Zenon DEF TypeOK
  <1>5. \/ pc' = pc
        \/ \E q \in Process : pc[q] = "zombie" /\ pc' = [pc EXCEPT ![q] = "gone"]
    BY Zenon DEF Notice, Reap, Zombies
  <1>6. pc' \in [Process -> PC]
    BY <1>2, <1>5, SMT DEF TypeOK, PC
  <1>7. TypeOK'
    BY <1>1, <1>2, <1>4, <1>6, Zenon DEF TypeOK
  <1>8. \A r \in Process : pc'[r] = pc[r] \/ (pc[r] = "zombie" /\ pc'[r] = "gone")
    BY <1>2, <1>5, SMT DEF TypeOK
  <1>9. HoldsWhileEngaged'
    BY <1>1, <1>8, SMT DEF ConnInv, HoldsWhileEngaged, Engaged
  <1>10. QueueIsFresh'
    BY <1>1, Zenon DEF ConnInv, QueueIsFresh
  <1>11. SharedInForkOnly'
    BY <1>1, <1>8, SMT DEF ConnInv, SharedInForkOnly
  <1>12. ShutIsLeft'
    BY <1>1, <1>8, SMT DEF ConnInv, ShutIsLeft
  <1> QED
    BY <1>7, <1>9, <1>10, <1>11, <1>12, Zenon DEF ConnInv

LEMMA ConnStep == ConnInv /\ [Next]_vars => ConnInv'
  <1> SUFFICES ASSUME ConnInv, [Next]_vars PROVE ConnInv'
    OBVIOUS
  <1>1. CASE UNCHANGED vars
    BY <1>1, SMT
    DEF vars, procVars, ConnInv, TypeOK, HoldsWhileEngaged, QueueIsFresh,
        SharedInForkOnly, ShutIsLeft
  <1>2. CASE \E c \in Client : Arrive(c)
    BY <1>2, ArriveKeeps, Zenon
  <1>3. CASE \E p \in Process : Step(p)
    BY <1>3, AcceptKeeps, ForkKeeps, ForkFailsKeeps, StayingKeeps, StartKeeps,
       HandlerKeeps, Zenon DEF Step
  <1>4. CASE \E p \in Process : EndSession(p) \/ Killed(p) \/ Interrupted(p)
    BY <1>4, EndingKeeps, Zenon
  <1> QED
    BY <1>1, <1>2, <1>3, <1>4, Zenon DEF Next, Rests

LEMMA ConnInit == Init => ConnInv
  <1> SUFFICES ASSUME Init PROVE ConnInv
    OBVIOUS
  <1>1. /\ \A p \in Process : held[p] = NoClient /\ pc[p] \in {"accept", "gone"}
        /\ queue = <<>> /\ shut = {} /\ came = {}
    BY SMT DEF Init
  <1>2. TypeOK
    <2>1. pc \in [Process -> PC]
      BY SMT DEF Init, PC
    <2>2. /\ parent \in [Process -> Process \cup {Nobody}]
          /\ held \in [Process -> Client \cup {NoClient}]
          /\ chld \in [Process -> BOOLEAN] /\ reaping \in [Process -> BOOLEAN]
      BY SMT DEF Init
    <2>3. queue \in Seq(Client)
      BY <1>1, EmptySeq, Zenon
    <2>4. Len(queue) <= Backlog
      BY <1>1, MainAssumption, SMT
    <2> QED
      BY <1>1, <2>1, <2>2, <2>3, <2>4, SMT DEF TypeOK
  <1>3. HoldsWhileEngaged /\ SharedInForkOnly /\ ShutIsLeft
    BY <1>1, SMT DEF HoldsWhileEngaged, SharedInForkOnly, ShutIsLeft, Engaged
  <1>4. QueueIsFresh
    BY <1>1, SMT DEF QueueIsFresh
  <1> QED
    BY <1>2, <1>3, <1>4, Zenon DEF ConnInv

LEMMA ConnAlways == Spec => []ConnInv
  BY ConnInit, ConnStep, PTL DEF Spec

(***************************************************************************)
(* Types.  Every variable keeps its type, and the listener's queue its     *)
(* limit, whatever processes come and go in main() and in its handlers.    *)
(***************************************************************************)
THEOREM MainTyped == Spec => []TypeOK
  <1>1. ConnInv => TypeOK
    BY Zenon DEF ConnInv
  <1> QED
    BY <1>1, ConnAlways, PTL

(***************************************************************************)
(* Two processes have one connection open only between fork() and          *)
(* move_to_child(), as parent and child.                                   *)
(***************************************************************************)
THEOREM MainSharesInForkOnly == Spec => []SharedInForkOnly
  <1>1. ConnInv => SharedInForkOnly
    BY Zenon DEF ConnInv
  <1> QED
    BY <1>1, ConnAlways, PTL

(***************************************************************************)
(* No process that goes on living shuts a connection down on which a child *)
(* has its session: only sigint_handler does, in the window before         *)
(* move_to_child(), and that child has no parent any more.                 *)
(***************************************************************************)
THEOREM MainLeavesSessionsAlone == Spec => []SessionsUndisturbed
  <1>1. ConnInv => SessionsUndisturbed
    BY SMT DEF ConnInv, ShutIsLeft, SessionsUndisturbed
  <1> QED
    BY <1>1, ConnAlways, PTL

-----------------------------------------------------------------------------
(***************************************************************************)
(* The signal handler.  Besides HandlerHasZombie, a process that has ended *)
(* has nothing pending, so that its identity can be used again.            *)
(***************************************************************************)
ReapInv ==
  /\ HandlerHasZombie
  /\ \A p \in Process : chld[p] \/ reaping[p] => p \in Living

\* What the handler of p may count on.
HasZombies(p) ==
  /\ chld[p] \/ reaping[p] => \E q \in Process : pc[q] = "zombie" /\ parent[q] = p
  /\ chld[p] /\ reaping[p] =>
       \E q, r \in Process :
         q # r /\ pc[q] = "zombie" /\ parent[q] = p /\ pc[r] = "zombie" /\ parent[r] = p
  /\ chld[p] \/ reaping[p] => pc[p] \notin {"zombie", "gone"}

LEMMA ReapByProcess ==
  /\ ReapInv <=> \A p \in Process : HasZombies(p)
  /\ ReapInv' <=> \A p \in Process : HasZombies(p)'
  <1>1. \A p, q : q \in Zombies(p) <=> q \in Process /\ pc[q] = "zombie" /\ parent[q] = p
    BY SMT DEF Zombies
  <1>2. \A p : p \in Living <=> p \in Process /\ pc[p] \notin {"zombie", "gone"}
    BY SMT DEF Living
  <1>3. \A p, q : q \in Zombies(p)' <=> q \in Process /\ pc'[q] = "zombie" /\ parent'[q] = p
    BY SMT DEF Zombies
  <1>4. \A p : p \in Living' <=> p \in Process /\ pc'[p] \notin {"zombie", "gone"}
    BY SMT DEF Living
  <1>5. ReapInv <=> \A p \in Process : HasZombies(p)
    BY <1>1, <1>2, SMT DEF ReapInv, HandlerHasZombie, HasZombies
  <1>6. ReapInv' <=> \A p \in Process : HasZombies(p)'
    BY <1>3, <1>4, SMT DEF ReapInv, HandlerHasZombie, HasZombies
  <1> QED
    BY <1>5, <1>6

\* A handler keeps what it counts on as long as its zombies stay, its process
\* lives on, and nothing new becomes pending.
LEMMA HasZombiesStill ==
  ASSUME NEW p \in Process, HasZombies(p),
         chld'[p] => chld[p], reaping'[p] => reaping[p],
         \A q \in Process :
           pc[q] = "zombie" /\ parent[q] = p => pc'[q] = "zombie" /\ parent'[q] = p,
         pc[p] \notin {"zombie", "gone"} => pc'[p] \notin {"zombie", "gone"}
  PROVE  HasZombies(p)'
  <1>1. ASSUME chld'[p] \/ reaping'[p]
        PROVE  \E q \in Process : pc'[q] = "zombie" /\ parent'[q] = p
    <2>1. PICK q \in Process : pc[q] = "zombie" /\ parent[q] = p
      BY <1>1, Zenon DEF HasZombies
    <2> QED
      BY <2>1, Zenon
  <1>2. ASSUME chld'[p], reaping'[p]
        PROVE  \E q, r \in Process :
                 /\ q # r
                 /\ pc'[q] = "zombie" /\ parent'[q] = p
                 /\ pc'[r] = "zombie" /\ parent'[r] = p
    <2>1. PICK q \in Process, r \in Process :
            /\ q # r
            /\ pc[q] = "zombie" /\ parent[q] = p
            /\ pc[r] = "zombie" /\ parent[r] = p
      BY <1>2, Zenon DEF HasZombies
    <2>2. /\ pc'[q] = "zombie" /\ parent'[q] = p
          /\ pc'[r] = "zombie" /\ parent'[r] = p
      BY <2>1, Zenon
    <2> QED
      BY <2>1, <2>2, Zenon
  <1>3. chld'[p] \/ reaping'[p] => pc'[p] \notin {"zombie", "gone"}
    BY Zenon DEF HasZombies
  <1> QED
    BY <1>1, <1>2, <1>3, Zenon DEF HasZombies

\* Neither processes that go on living nor new ones disturb a handler.
LEMMA MainReaps ==
  ASSUME TypeOK, ReapInv, UNCHANGED <<chld, reaping>>,
         \A q \in Process :
           \/ pc'[q] = pc[q] /\ parent'[q] = parent[q]
           \/ pc'[q] \notin {"zombie", "gone"} /\ pc[q] # "zombie"
  PROVE  ReapInv'
  <1>1. \A p \in Process : HasZombies(p)
    BY ReapByProcess, Zenon
  <1>2. \A q, p \in Process :
          pc[q] = "zombie" /\ parent[q] = p => pc'[q] = "zombie" /\ parent'[q] = p
    BY Zenon
  <1>3. \A q \in Process :
          pc[q] \notin {"zombie", "gone"} => pc'[q] \notin {"zombie", "gone"}
    BY Zenon
  <1>4. \A p \in Process : chld'[p] = chld[p] /\ reaping'[p] = reaping[p]
    BY Zenon
  <1>5. ASSUME NEW p \in Process PROVE HasZombies(p)'
    BY <1>1, <1>2, <1>3, <1>4, HasZombiesStill, Zenon
  <1> QED
    BY <1>5, ReapByProcess, Zenon

LEMMA LifeReaps ==
  ASSUME TypeOK, ReapInv, NEW p \in Process,
         Accept(p) \/ Fork(p) \/ ForkFails(p) \/ MoveToChild(p)
           \/ Start(p) \/ StartFails(p)
  PROVE  ReapInv'
  <1>1. UNCHANGED <<chld, reaping>>
    BY Zenon DEF Accept, Fork, ForkFails, MoveToChild, Start, StartFails, Goto
  <1>2. ASSUME NEW to \in {"accept", "fork", "move", "serve"}, Goto(p, to),
               pc[p] \in {"accept", "fork", "move", "start"}
        PROVE  \A q \in Process :
                 \/ pc'[q] = pc[q] /\ parent'[q] = parent[q]
                 \/ pc'[q] \notin {"zombie", "gone"} /\ pc[q] # "zombie"
    BY <1>2, SMT DEF Goto, TypeOK
  <1>3. CASE Fork(p)
    <2>1. PICK q \in Process :
            /\ pc[q] = "gone"
            /\ pc' = [pc EXCEPT ![p] = "move", ![q] = "start"]
            /\ parent' = [parent EXCEPT ![q] = p]
      BY <1>3, Zenon DEF Fork
    <2>2. pc[p] = "fork"
      BY <1>3, Zenon DEF Fork, At
    <2>3. \A r \in Process :
            \/ pc'[r] = pc[r] /\ parent'[r] = parent[r]
            \/ pc'[r] \notin {"zombie", "gone"} /\ pc[r] # "zombie"
      BY <2>1, <2>2, SMT DEF TypeOK
    <2> QED
      BY <1>1, <2>3, MainReaps, Zenon
  <1>4. CASE ~Fork(p)
    <2>1. \E to \in {"accept", "fork", "move", "serve"} :
            Goto(p, to) /\ pc[p] \in {"accept", "fork", "move", "start"}
      BY <1>4, SMT DEF Accept, ForkFails, MoveToChild, Start, StartFails, At
    <2> QED
      BY <1>1, <1>2, <2>1, MainReaps, Zenon
  <1> QED
    BY <1>3, <1>4

LEMMA DeathReaps ==
  ASSUME TypeOK, ReapInv, NEW p \in Process, p \in Living, Dies(p)
  PROVE  ReapInv'
  <1>1. \A q \in Process : HasZombies(q)
    BY ReapByProcess, Zenon
  <1>2. pc[p] \notin {"zombie", "gone"} /\ pc'[p] \in {"zombie", "gone"}
    BY DiesLeaves, SMT DEF Living
  <1>3. ~chld'[p] /\ ~reaping'[p]
    <2>1. reaping' = [reaping EXCEPT ![p] = FALSE] /\ reaping \in [Process -> BOOLEAN]
      BY Zenon DEF Dies, TypeOK
    <2>2. chld' = [q \in Process |->
                     q # p /\ (chld[q] \/ (q = parent[p] /\ q \in Living))]
      BY Zenon DEF Dies
    <2> QED
      BY <2>1, <2>2, Zenon
  <1>4. ASSUME NEW q \in Process \ {p}
        PROVE  HasZombies(q)'
    <2>1. reaping'[q] <=> reaping[q]
      <3>1. reaping' = [reaping EXCEPT ![p] = FALSE] /\ reaping \in [Process -> BOOLEAN]
        BY Zenon DEF Dies, TypeOK
      <3> QED
        BY <3>1, Zenon
    <2>2. chld'[q] <=> chld[q] \/ (q = parent[p] /\ q \in Living)
      <3>1. chld' = [r \in Process |->
                       r # p /\ (chld[r] \/ (r = parent[p] /\ r \in Living))]
        BY Zenon DEF Dies
      <3> QED
        BY <3>1, Zenon
    \* Its zombies stay, and its state but for p's.
    <2>3. \A z \in Process :
            pc[z] = "zombie" /\ parent[z] = q =>
              z # p /\ pc'[z] = "zombie" /\ parent'[z] = q
      <3> SUFFICES ASSUME NEW z \in Process, pc[z] = "zombie", parent[z] = q
                   PROVE  z # p /\ pc'[z] = "zombie" /\ parent'[z] = q
        OBVIOUS
      <3>1. z # p
        BY <1>2, Zenon
      <3>2. z \notin Zombies(p)
        BY SMT DEF Zombies
      <3>3. pc'[z] = pc[z]
        BY <3>1, <3>2, SMT DEF Dies
      <3>4. parent'[z] = q
        BY <3>1, SMT DEF Dies
      <3> QED
        BY <3>1, <3>3, <3>4, Zenon
    <2>4. q \in Living => pc'[q] \notin {"zombie", "gone"}
      BY DiesLeaves, SMT DEF Living
    <2>5. q = parent[p] /\ q \in Living => pc'[p] = "zombie" /\ parent'[p] = q
      BY SMT DEF Dies, TypeOK
    <2>6. HasZombies(q) /\ (q \in Living <=> pc[q] \notin {"zombie", "gone"})
      BY <1>1, SMT DEF Living
    <2>7. CASE q = parent[p] /\ q \in Living
      BY <2>1, <2>2, <2>3, <2>4, <2>5, <2>6, <2>7, Zenon DEF HasZombies
    <2>8. CASE ~(q = parent[p] /\ q \in Living)
      BY <2>1, <2>2, <2>3, <2>4, <2>6, <2>8, Zenon DEF HasZombies
    <2> QED
      BY <2>7, <2>8
  <1>5. HasZombies(p)'
    BY <1>3, Zenon DEF HasZombies
  <1> QED
    BY <1>4, <1>5, ReapByProcess, Zenon

\* Waiting takes one zombie, and one cause for it.
LEMMA HandlerReaps ==
  ASSUME TypeOK, ReapInv, NEW p \in Process, Notice(p) \/ Reap(p)
  PROVE  ReapInv'
  <1>1. \A q \in Process : HasZombies(q)
    BY ReapByProcess, Zenon
  <1>2. CASE Notice(p)
    <2>1. /\ p \in Living /\ chld[p] /\ ~reaping[p]
          /\ chld' = [chld EXCEPT ![p] = FALSE]
          /\ reaping' = [reaping EXCEPT ![p] = TRUE]
          /\ UNCHANGED <<pc, parent>>
      BY <1>2, Zenon DEF Notice
    <2>2. chld \in [Process -> BOOLEAN] /\ reaping \in [Process -> BOOLEAN]
      BY Zenon DEF TypeOK
    <2>3. ~chld'[p] /\ \A q \in Process \ {p} : chld'[q] = chld[q] /\ reaping'[q] = reaping[q]
      BY <2>1, <2>2, Zenon
    <2>4. ASSUME NEW q \in Process PROVE HasZombies(q)'
      <3>1. CASE q = p
        <4>1. \E z \in Process : pc[z] = "zombie" /\ parent[z] = p
          BY <1>1, <2>1, Zenon DEF HasZombies
        <4>2. pc[p] \notin {"zombie", "gone"}
          BY <1>1, <2>1, Zenon DEF HasZombies
        <4> QED
          BY <2>1, <2>3, <3>1, <4>1, <4>2, Zenon DEF HasZombies
      <3>2. CASE q # p
        BY <1>1, <2>1, <2>3, <3>2, HasZombiesStill, Zenon
      <3> QED
        BY <3>1, <3>2
    <2> QED
      BY <2>4, ReapByProcess, Zenon
  <1>3. CASE Reap(p)
    <2>1. /\ reaping[p]
          /\ reaping' = [reaping EXCEPT ![p] = FALSE]
          /\ UNCHANGED <<parent, chld>>
          /\ \/ \E q \in Zombies(p) : pc' = [pc EXCEPT ![q] = "gone"]
             \/ pc' = pc /\ Children(p) = {}
      BY <1>3, Zenon DEF Reap
    <2>2. pc' # pc \/ \E q \in Zombies(p) : pc' = [pc EXCEPT ![q] = "gone"]
      <3>1. \E q \in Process : pc[q] = "zombie" /\ parent[q] = p
        BY <1>1, <2>1, Zenon DEF HasZombies
      <3>2. Children(p) # {}
        BY <3>1, SMT DEF Children
      <3> QED
        BY <2>1, <3>2, Zenon
    <2>3. PICK z \in Process :
            pc[z] = "zombie" /\ parent[z] = p /\ pc' = [pc EXCEPT ![z] = "gone"]
      BY <2>1, <2>2, Zenon DEF Zombies
    <2>4. /\ pc'[z] = "gone" /\ z # p
          /\ \A q \in Process \ {z} : pc'[q] = pc[q]
      <3>1. z # p
        <4>1. pc[p] # "zombie"
          BY <1>1, <2>1, Zenon DEF HasZombies
        <4> QED
          BY <2>3, <4>1, Zenon
      <3> QED
        BY <2>3, <3>1, SMT DEF TypeOK
    <2>5. ~reaping'[p] /\ \A q \in Process \ {p} : reaping'[q] = reaping[q]
      <3>1. reaping \in [Process -> BOOLEAN]
        BY Zenon DEF TypeOK
      <3> QED
        BY <2>1, <3>1, Zenon
    <2>6. ASSUME NEW q \in Process \ {p} PROVE HasZombies(q)'
      <3>1. \A y \in Process : pc[y] = "zombie" /\ parent[y] = q =>
              pc'[y] = "zombie" /\ parent'[y] = q
        BY <2>1, <2>3, <2>4, Zenon
      <3>2. pc[q] \notin {"zombie", "gone"} => pc'[q] \notin {"zombie", "gone"}
        BY <2>3, <2>4, SMT
      <3>3. chld'[q] = chld[q] /\ reaping'[q] = reaping[q]
        BY <2>1, <2>5, Zenon
      <3> QED
        BY <1>1, <3>1, <3>2, <3>3, HasZombiesStill, Zenon
    <2>7. HasZombies(p)'
      <3>1. ASSUME chld[p]
            PROVE  \E y \in Process : pc'[y] = "zombie" /\ parent'[y] = p
        <4>1. PICK q \in Process, r \in Process :
                /\ q # r
                /\ pc[q] = "zombie" /\ parent[q] = p
                /\ pc[r] = "zombie" /\ parent[r] = p
          <5>1. HasZombies(p) /\ chld[p] /\ reaping[p]
            BY <1>1, <2>1, <3>1, Zenon
          <5> QED
            BY <5>1, Zenon DEF HasZombies
        <4>2. PICK y \in {q, r} : y # z
          BY <4>1, Zenon
        <4>3. y \in Process /\ pc'[y] = "zombie" /\ parent'[y] = p
          BY <2>1, <2>4, <4>1, <4>2, Zenon
        <4> QED
          BY <4>3, Zenon
      <3>3. pc'[p] \notin {"zombie", "gone"}
        BY <1>1, <2>1, <2>4, Zenon DEF HasZombies
      <3> QED
        BY <2>1, <2>5, <3>1, <3>3, Zenon DEF HasZombies
    <2> QED
      BY <2>6, <2>7, ReapByProcess, Zenon
  <1> QED
    BY <1>2, <1>3

LEMMA ReapStep == TypeOK /\ ReapInv /\ [Next]_vars => ReapInv'
  <1> SUFFICES ASSUME TypeOK, ReapInv, [Next]_vars PROVE ReapInv'
    OBVIOUS
  <1>1. CASE UNCHANGED <<pc, parent, chld, reaping>>
    BY <1>1, MainReaps, Zenon
  <1>2. CASE \E c \in Client : Arrive(c)
    BY <1>1, <1>2, Zenon DEF Arrive, procVars
  <1>3. CASE \E p \in Process : Step(p)
    BY <1>3, LifeReaps, HandlerReaps, Zenon DEF Step
  <1>4. CASE \E p \in Process : EndSession(p) \/ Killed(p) \/ Interrupted(p)
    <2>1. PICK p \in Process : EndSession(p) \/ Killed(p) \/ Interrupted(p)
      BY <1>4, Zenon
    <2>2. Dies(p)
      BY <2>1, Zenon DEF EndSession, Killed, Interrupted
    <2>3. p \in Living
      BY <2>1, SMT DEF EndSession, Killed, Interrupted, At, Living
    <2> QED
      BY <2>2, <2>3, DeathReaps, Zenon
  <1> QED
    BY <1>1, <1>2, <1>3, <1>4, Zenon DEF Next, Rests, vars, procVars

(***************************************************************************)
(* The wait in sigchld_handler always finds a child that has ended.        *)
(***************************************************************************)
THEOREM MainHandlerHasZombie == Spec => []HandlerHasZombie
  <1>1. Init => ReapInv
    BY SMT DEF Init, ReapInv, HandlerHasZombie
  <1>2. ReapInv => HandlerHasZombie
    BY Zenon DEF ReapInv
  <1> QED
    BY <1>1, <1>2, ReapStep, MainTyped, PTL DEF Spec
=============================================================================
