# A verification development for ftplite

ftplite is a small FTP server and an interactive FTP client in C++.  This
directory holds TLA+ models of a session between them, of what carries its
bytes and of the server's processes, the TLC configurations that check the
models, and theorems about them with proofs for TLAPS.  Paths below are
relative to the repository's root.

## 1. The system

| Part | State it keeps | Operations |
|---|---|---|
| `ServerProtocolInterpreter` (`src/server`) | `type`, `mode`, `stru`, `user`, `loggedIn`, the client's address (its data port), `data_listener` | `run()` reads a command and dispatches it to a handler for USER, PASS, QUIT, TYPE, MODE, STRU, PORT, PASV, RETR, STOR, NOOP, or to the 502 handler |
| `ClientProtocolInterpreter` (`src/client`) | `type`, `loggedIn`, the server's data address, `data_listener` (open from the start) | `first_login()`, then a prompt; one handler per command, each of which sends, and reads the reply |
| Connections (`src/common/connection`) | a socket; for `TCPListener` a port and the kernel's queue of completed connections | connect, poll and accept with 5 s, read, write, close in the destructor |
| `StreamMode` (`src/common/modes`) | a buffer | `send`: file to connection; `recv`: connection to file; the end of the file is the close of the connection |
| Types (`src/common/types`) | a file, a buffer, the CR held back | ASCII: LF becomes CR LF on the wire and back; IMAGE: bytes as they are |
| `CommunicationWrapper` (`src/common`) | a buffer of the control connection | `get_next_command`: next non-empty line; `send_next_command` |
| `main` of the server | the listener, the connection just accepted | accept, fork, run the interpreter in the child; SIGINT, SIGCHLD |
| `main` of the client | the connection | connect, run the interpreter; SIGINT |

How they interact.  The control connection carries commands one way and
replies the other; each interpreter blocks on it.  A transfer uses a second
connection, opened by the server to the client's listener (*active*, after
PORT) or by the client to the server's listener (*passive*, after PASV).  The
kernel completes a connection before anyone accepts it.  Each handler relies
on the order in which the other one does things: the client connects *before*
it reads the reply in passive mode, and accepts *after* it in active mode; the
server opens the file, writes 150, opens the connection, moves the file, and
writes 226 or 425.  Each side has its own idea of being logged in, of the type
and of who listens, and only replies read in order keep them equal.

What is hard here: handlers that return early with a reply unread or a
connection queued; a peer that closes, dies or is slow between two steps;
waits without a time limit on both sides; the accept that gives up after five
seconds; writes after a close (SIGPIPE); files truncated before the transfer
begins; and a server that has to bear any client.  `PROJECT.json` lists each
hazard at its line with the properties aimed at it.

What makes each part correct:

* server: one final reply per command, in order, nothing without login, only
  the stored file changes (`Serves`);
* client: replies are paired with commands (`PromptMeansSettled`), login is
  believed only when it holds (`LoginAgrees`), every command ends
  (`CommandsComplete`);
* both: agreement on type and on who listens where (`SettledMeansAgreed`),
  226 means equal files (`AckMeansSame`), no connection leaks
  (`EndsAreHeld`), the two processes never wait for one another
  (`SomebodyGoesOn`), nor go on without the user (`OnlyTheUserGoesOn`), and
  neither outlives the other (`NobodyLingers`);
* types and mode: what arrives is what the definition of the two types makes
  of what was sent, however it was cut up and whatever failed
  (`ArrivesAsDefined`), and both ends stop (`TransferEnds`), no turn of a loop
  being in vain (`EveryStepCounts`);
* framing: the lines read are the lines written (`CarriesLines`,
  `EveryLineHeard`), and nobody waits with a line in hand (`BlocksForMore`);
* the server's `main`: connections are shared only during a fork
  (`SharedInForkOnly`), no session is cut off by another process
  (`SessionsUndisturbed`), waiting for children never blocks
  (`HandlerHasZombie`), clients are accepted and let go (`QueueMoves`,
  `ClientsLetGo`).

## 2. Modules

| Module | What it models |
|---|---|
| `FtpNet` | what both interpreters stand on: control messages, data connections and listeners, the types, the files, and the constants that describe a scenario |
| `ServerPI` | the server's interpreter: one action per handler, split where it blocks |
| `ClientPI` | the client's interpreter, with what the user types chosen freely |
| `FtpSession` | client and server together; the properties of a session |
| `AnyClient` | the server with a client that follows no protocol |
| `FtpService` | the abstract specification of a session as seen from the client's end, which `AnyClient` implements |
| `Framing` | one direction of the control connection, byte by byte: `send_next_command` and `get_next_command` with the buffer and both kinds of read |
| `LineChannel` | the abstract specification of that direction, which `Framing` implements and on which `FtpNet` builds |
| `StreamTransfer` | one transfer, byte by byte: `StreamMode::send` and `recv`, the read and write types with their buffers, the two files |
| `ServerMain` | the server's `main()`: accepting processes and their children, descriptors, signals |
| `MC*` | values of the constants for TLC |
| `*Proofs` | lemmas and theorems |

`ServerPI` and `ClientPI` extend `FtpNet` and share its variables;
`FtpSession` extends both, `AnyClient` extends `ServerPI`.  `Framing`,
`StreamTransfer` and `ServerMain` are models of their own: each opens one thing
that the session takes as a whole (a message, the move of a file, a server
process) and shows what the session assumes of it.

### The session

**Grain.**  An action is what an interpreter does from the return of one
blocking call to the next one.  Between them a process touches only its own
state, its queues and its files, which is why nothing can be told apart at a
finer grain, with two exceptions that are named in the code: the server's
interpreter blocks in the middle of RETR and STOR (states `link` and `move`),
and the client's in the middle of every command (`cpc`).

**State.**  `spc` and `cpc` say which call is pending.  `sType`, `sUser`,
`sLoggedIn`, `cType`, `cLoggedIn` are the interpreters' members of these names;
`mode` and `stru` have one value and are left out.  `listener[s]` is
`data_listener` (`NoPort` for `nullopt`), `addr[s]` the port in
`client_sock_addr` at the server and in `server_sock_addr` at the client,
`data[s]` the local `connection` of the handler that is running, `backlog[s]`
the kernel's queue.  `conn[c]` says which ends of a data connection are open
and what each can still read.  `sjob` and `cjob` are the command whose handler
is running.

**Actions** are named for the handlers (`HandleStor` for
`handle_stor_command`) or for what the client does at a blocking call
(`ClientDials`, `ClientHearsOpening`, ...); `PROJECT.json` maps each to its
lines.  A write to the control connection is part of the action (`Say`,
`Tell`); so is every destructor that the end of the handler runs.

**Data.**  A file has a body out of a small set.  `Survives[b]` holds the
pairs of types (read with, written with) that give a body back: a text of
several lines survives everything but ASCII into IMAGE, a body with a CR within
a line only IMAGE into IMAGE (`StreamTransfer!SurvivesAsAssumed` checks this
against the code's byte loops).  `Damaged` stands for any other content.
Commands carry an argument out of the forms a handler tells apart (`plain`,
`malformed`, `unsupported`, `illegal`, or a name).  Ports are numbers of 16
bits and travel as two bytes, as in PORT and the 227 reply.

**Failures of the surroundings** are switched on per run by `Faults`: `slow`
(a connect or an accept runs into its limit although the peer is there),
`listen`, `read`, `write`, `reset`, `shadow`, `abort` (SIGINT to either
process at any moment).  The first write to the control connection after the
peer's close is lost and provokes the peer's reset, or fails with the exception
if the connection was reset before; a later one may also raise SIGPIPE, which
neither `main` handles.  `late` holds the sides that have made that first write.
A file moves in several writes of one action, so its sender may be killed in
that action.  Replies already in
the reader's queue stay readable when the writer has gone.

**Time.**  An accept may give up only when the peer has nothing left to do
before it needs an answer (`ServerTimesOut`, `ClientTimesOut`), unless `slow`
is on: five seconds are taken to be long enough for local work, and no more is
assumed about time.  A connect that finds no listener or a full queue fails.

**Assumptions.**  A file fits the buffers of its connection, so `send` does
not block on a reader (`StreamTransfer` has the senders that do).  Both ends
see one address of each other (data connections come only from the peer).  A
port can be bound again as soon as its listener is closed, unless `listen` is
on (ports in TIME_WAIT make the constructor fail, as that fault does).  After
`setuid` the server may read and write what `Files` and `ReadOnly` say.

### The bytes of the control connection

`Framing` has one writer and one reader.  `wire` holds what is in the sockets,
`buffer` the bytes between `buffer_pos` and `buffer_len`, `command` the string
under assembly; `rpc` is where `get_next_command` stands: between calls
(`idle`), before its non-blocking read (`read`), in the blocking read of one
byte (`block`), or out by an exception (`over`).  A read returns any number of
the bytes that are there.  The innermost loop of `get_next_command`, which
moves bytes until the line is finished, too long, or the buffer empty, is one
step: `Gather`, `Return`, `SkipBlank` and `Reject` are the ways it ends.  The
peer may leave in the middle of a line, and the connection may lose its tail.

### The bytes of a transfer

`StreamTransfer` has a sender (`unread`, `rbuf`, `crSent`, `sbuf`) and a
receiver (`rcvd`, `held`, `wbuf`, `disk`), one turn of the loop of `send` or
`recv` per action, with the calls that fill or empty a buffer.  The read and
write types are named by their letters; `HandOut` and `HoldsBack` are what the
ASCII types do to a byte.  The write type is destroyed in the step in which
`recv` ends, which may write twice, and may kill the process (`Destroy`).
`ToWire` and `FromWire` are the reference definition of the two types: what
their buffers and flags are meant to compute, said over whole files.

### The server's processes

`ServerMain` has the pool of processes, and for each where it stands in
`main()` (`pc`), its parent, the connection it has open (`held`), whether
SIGCHLD is pending (a flag: signals merge) and whether it is in the handler.
`shut` are the connections somebody called `shutdown` on: that acts on the
connection, whoever else holds it, while a close acts on a descriptor.  A child
whose interpreter cannot be built falls into the `catch` of the loop it
inherited and accepts clients itself (`StartFails`).  `Dies` is the end of any
process, with what the kernel does to children, parent and listening socket.

## 3. Runs

| Run | Question | Scenario | States |
|---|---|---|---|
| `lockstep` | do both ends stay in step, do they ever wait for one another, and does every command end? | TYPE, MODE, STRU, NOOP, PORT, PASV, RETR, STOR and an unknown command, files that exist on both hosts, on one, or cannot be written; a careful user; listeners that cannot be bound, files that cannot be read to their end, an unreadable password data base, SIGINT to either process | 84 676 |
| `storm` | types, login, leaks and endless exchanges under everything at once | all seven faults, wrong users and passwords, modes switched, up to two messages in flight | 1.5 million |
| `linger` | does one process ever outlive the other? | `slow` and `abort`, commands typed out of turn, a client that cannot write its files | 241 740 |
| `anyclient` | does the server keep its service against any client? | every form of every command, two connections used in any way, all seven faults, one command or reply in flight | 2.5 million |
| `framing` | are the lines read the lines written? | lines up to two bytes too long, with CR and LF in them, blank ones; the peer leaves anywhere, the connection breaks | 39 473 |
| `transfer` | does what arrives follow the definition of the types, and does every step bring the end nearer? | every file of up to four bytes and three longer ones, all pairs of types, reads that fail, a connection that breaks, a disk that fills up | 134 135 |
| `children` | do the processes of the server get along? | three clients, four processes, forks that fail, children killed, SIGINT to anybody | 95 908 |

Five runs show where the code departs from what its documents and tests say
(the quotations are in `PROJECT.json`):

* `stale_store`: in passive mode a refused RETR leaves the connection that the
  client opened before it read the 550 on the server's queue.  The next STOR
  takes it, reads the end of the stream at once and says 226 over an empty
  file.  The same leftover makes a later RETR hang the client for ever, while
  the server has already said 226.
* `unread_user`: USER at the prompt leaves its reply unread; every later reply
  is read one command late.
* `disk_full`: the last write of a file is made in a destructor that ignores
  its result; 226 is said over a damaged file.
* `sigpipe`: the second write to a connection the peer has closed kills the
  process, where the header promises an exception.  The client sends RETR, is
  interrupted and exits; the server's 150 is lost, it cannot connect, and the
  write of 425 raises SIGPIPE.
* `long_line`: `send_next_command` sends lines that `get_next_command` of the
  other end takes for an attack: a path of 250 characters ends the session.

Other consequences of the code that the models contain and no property denies:
a CR held back at the end of a file together with a full disk ends the process
by an exception out of a destructor (`Destroy`); SIGINT to the parent between
`fork` and `move_to_child` shuts the new session down (the exception named in
`SessionsUndisturbed`); children that end together leave zombies; the children
keep the listening socket open, so that clients connect to a server whose
parent is gone and are accepted by nobody (`QueueMoves` promises nothing then).

`lockstep` is the scenario outside the first two defects.  Its user is
`Careful`: a transfer that the server would refuse is asked for in active mode
only, a file that the client can neither read nor write not at all; and USER
is not typed at the prompt.  `AckMeansSame` is not checked under the faults
`write` and `reset`, under which the code acknowledges damaged files
(`disk_full`, and the catch in `StreamMode.cpp:58`).

**Bounds.**  `ConnId`: three connections are one in each handler and one left
over (`lockstep`, `linger`); two are enough for one held and one stale
(`storm`, `anyclient`).  `Backlog` is 2 where the code's `listen(fd, 5)` gives
6; what matters is that it can be full, and it is in `linger`, `storm` and
`children`.  `MaxUnread` bounds what the user types while messages are in
flight; 1 keeps the client in lockstep unless a handler leaves a reply unread,
2 lets it run on one reply late.  It guards only the user's actions.
`MaxPipelined` does the same for `AnyClient`.  It is 1, so TLC never has two
commands in the queue: that pipelined commands are answered in order rests on
the theorem `AnyClientServes`, which has no such bound.  `Shipment` is what that client may send over a data
connection: a text, and one that was cut on the way.  `Port` has two ports that
need both bytes (300 = 1 * 256 + 44, 20000 = 78 * 256 + 32); `TypedPort` has 0
(any port) and 85536, which `uint16_t` turns into 20000.

In `framing` the limit and the buffer are of four bytes and six fit the
sockets: a line of two characters is the longest that is let through, so lines
at the limit, one over and two over occur, and two lines in one buffer as well.
In `transfer` the buffers are of two bytes and four fit the sockets: files
longer than all buffers together, a CR LF across two buffers, and a sender that
blocks.  `children` has a process more than parent and two children, for a
child that became a parent; identities of processes that are gone are used
again, as the kernel does.

**Fairness.**  `FtpSession` has weak fairness on all that the server's process
does and on all that the client's does on its own: the operating system runs a
process that can run, a read returns when there is something to read, a
connect succeeds or fails, a poll ends.  Nothing makes the user type and
nothing makes a fault happen.  `CommandsComplete` and `NobodyLingers` rest on
that; `EveryLineHeard` on the same of the reader, `TransferEnds` of both ends
of the transfer, `QueueMoves` and `ClientsLetGo` of each of the server's
processes, but not of the session in it: sessions need not end, clients need
not come.

**Refinement.**  `AnyClient!Serves` is `FtpService` with its queue of commands,
queue of replies, login and files read off the server's variables, and its
phase off `spc`.  It is a safety specification: commands are taken in order,
each gets one final reply out of those due to its verb and to the login,
transfers get 150 and then 226 or 425 or the session ends, login comes from 230
and lasts, and a file changes only while it is being stored.

`Framing!CarriesLines` is `LineChannel` with its queue of lines read off the
bytes in the command, the buffer and the wire together.  So a byte may move
from one to the other in any portions; a line leaves the queue exactly when it
is returned, and only whole.

Each property of each passing run has a mutant of a mapped definition that
breaks it.

## 4. Theorems

All are for every value of the constants that satisfies the assumptions named
in the modules (`NetAssumption`, `NoUserAssumption`, `ClientAssumption`,
`ScriptAssumption`, `FramingAssumption`, `LinesAreLines`,
`TransferAssumption`, `MainAssumption`), in particular for any number of files,
connections, messages, clients and processes, for files, buffers and limits of
every size, and with every fault allowed; the four theorems of
`LockstepProofs` add assumptions of their own.

| Theorem | States | Argument |
|---|---|---|
| `FtpNetProofs!PortRoundTrip` | joining the two bytes of a port gives the port back | arithmetic of division by 256 |
| `FtpSessionProofs!SessionTyped` | `Spec => []TypeOK` | `TypeOK` is inductive; one lemma per action of the server (`ServerPIProofs!ServerKeepsTypes`) and of the client (`ClientKeepsTypes`), which say besides what each interpreter leaves alone for the other |
| `FtpSessionProofs!SessionLoginAgrees` | `Spec => []LoginAgrees` | the inductive invariant `LoginInv`, below |
| `FtpSessionProofs!SessionEndsAreHeld` | `Spec => []EndsAreHeld` | the inductive invariant `HeldInv`, below |
| `FtpSessionProofs!SessionRunsDown` | `Spec => OnlyTheUserGoesOn` | each step pays for what it sends, below |
| `LockstepProofs!OrderlyPromptsAreSettled` | `Spec => []PromptMeansSettled` in the scenarios `Orderly` | the inductive invariant `Lock`, below |
| `LockstepProofs!OrderlyPromptsAgree` | `Spec => []SettledMeansAgreed` in the same scenarios | the same invariant |
| `LockstepProofs!OrderlyAcksAreTrue` | `Spec => []AckMeansSame` in those of them that are `Reliable` | `AckInv`, on top of `Lock` |
| `LockstepProofs!OrderlyGoesOn` | `Spec => []SomebodyGoesOn` in the same scenarios | each wait of the server against each of the client, from `Lock`, `HeldInv` and `AckInv`, below |
| `AnyClientProofs!AnyClientTyped` | `Spec => []TypeOK` for the server with any client | `ServerKeepsTypes` again, and one lemma per action of the client |
| `AnyClientProofs!AnyClientServes` | `Spec => Serves`: the interpreter implements `FtpService` | step by step, below |
| `FramingProofs!FramingTyped`, `FramingBlocksForMore` | the bounds of command and buffer; nobody waits with a line in hand | `FramingInv` adds that the command under assembly is never finished |
| `FramingProofs!FramingCarriesLines` | `Spec => CarriesLines`: the two calls implement `LineChannel` | step by step with `LinesInv`, below |
| `StreamTransferProofs!TransferTyped` | no buffer of a transfer is written past its end | `TypeOK` is inductive |
| `StreamTransferProofs!TransferArrives` | `Spec => []ArrivesAsDefined`, for files and buffers of every size | the inductive invariant `TransferInv`, below |
| `StreamTransferProofs!TransferSurvives` | `Spec => []SurvivesAsAssumed`, for every file | `TransferInv`, and `SurvivesIff` about the definitions alone |
| `StreamTransferProofs!TransferRunsDown` | `Spec => EveryStepCounts`, for every file and all buffers | one lemma per action, below |
| `ServerMainProofs!MainTyped`, `MainSharesInForkOnly`, `MainLeavesSessionsAlone` | types; who shares a connection; who may shut one down | `ConnInv`, below |
| `ServerMainProofs!MainHandlerHasZombie` | `wait` never blocks | `ReapInv`, below |

`TypeOK` of a session says more than the shape of the variables: a transfer
that is under way names a file that exists, and the handler that moves it holds
a data connection; a step of either process must not take these from the other.

`LoginAgrees` is not inductive: it says nothing of a client that has read 230
and not yet set its flag, nor of one that is beyond the login but has not sent
anything.  `LoginInv` adds that a client beyond its login (`BeyondLogin`)
holds itself logged in, and that commands which need login are sent only from
there; the server never takes login back, so each step of the server
(`ServerVouches`) preserves it, and each of the client's adds to its queue
only what its state allows.

`EndsAreHeld` is not inductive either: it would allow a queue to name a
connection whose end is closed, which a second `Connect` could hand out again.
`HeldInv` says that the open ends of a side are exactly those its queue and its
handler hold, and names every wait in which a handler holds none; for the
client the reply to a passive RETR or STOR is the one exception
(`ClientUnlinked`).  Whatever a handler does to the connections is one of five
moves (let go, close the listener, end the process, connect, accept), each with
a lemma that it preserves `HeldAt` on both sides; each action is shown to make
one of them from a state that allows it.

The theorems of `LockstepProofs` assume `Orderly`: nobody is slow, the user is
careful, does not type USER at the prompt and gives file names that are
arguments, and there is a connection and a place in the queue.  `lockstep` is
such a scenario with every fault that the last two theorems allow; the first two
allow every fault but `slow`. Without the user's care the statements are false
(`unread_user`, `stale_store`), and with a slow peer an accept that gives up
leaves a reply unread.  While both processes live, `Lock` says for every wait
of the client which messages are on their way and where the server stands
(`Talk`), that exactly one side listens and the other one knows where, or what
is missing of it between PORT or PASV and its reply (`Modes`), whose type is
ahead (`SameType`), what the two listeners have queued (`Queues`), and what the
care of the user has left true (`NotInVain`).  From it and `HeldInv` the proof
concludes that no connect and no accept fails: the one who connects finds a
listener with room and a free connection, and the one who accepts is never
without a connection while the other one waits (`ServerNeverTimesOut`,
`ClientNeverTimesOut`).  Those are the steps that would leave a reply unread.

`OrderlyAcksAreTrue` assumes `Reliable` besides: no data connection breaks
midway and no disk is full, since the code acknowledges both (`disk_full`, and
the catch in `StreamMode.cpp:58`).  Files that cannot be read to their end,
interrupts of either process and everything else remain.  `AckInv` follows the
bytes of a transfer.  Before 226 it says (`Paired`) that both ends mean the
same transfer and have the same connection, be it in a handler or still in the
queue of a listener, with nobody's end closed, unless the client has sent the
whole file and closed its own: so no end sees the end of a stream too early.
Once 226 is written it says (`Vouched`) what the client will find when it gets
there: the file of the server on the wire of the connection it holds or will
accept, or the files equal already.  The second part is stated for a client
alone, because the server may exit between its 226 and the client's last read:
what it has sent stays readable, and `Lock`, which speaks of two living
processes, no longer holds.

`OrderlyGoesOn` is what those invariants say about waiting.  A server that
waits for a command has every reply read (`Talk`), nothing of its own open
(`HeldInv`), and has connected where it was told to, so the client waits neither
for a reply, nor for the end of a stream, nor for a connection
(`CommandAwaited`).  One that waits at its listener finds the client about to
connect (`ConnectionAwaited`).  One that reads a stream has the client's
connection and means the same transfer (`Paired`), so the client has the whole
file ahead of it or has sent it and closed its end (`StreamAwaited`); that a
client reads a stream for RETR only (`OnlyRetrReads`) is an invariant of its
own.

`SessionRunsDown` needs no invariant but `TypeOK`.  `Work` weighs the messages
on their way and how far each interpreter is from waiting for the other or for
the user; a command weighs as much as all that can come of it.  Each step of
the server is shown to spend of its own or of the command it takes what its
reply and its new state cost (`ServerSpends`), each step of the client likewise
(`ClientSpends`).  Together with `OrderlyGoesOn` this is the safe part of
`CommandsComplete`: left alone by the user, the two take finitely many steps,
and do not stop at one another.  That a step which can be taken is taken is the
fairness TLC checks the rest under.

`AnyClientServes` speaks of any commands, in any number at once, of any client;
it has one lemma per handler.  Each handler is one of four
steps of the service: it answers with a final reply due to its verb
(`AnswerServes`), begins a transfer, ends one, or breaks the session off.  The
proof needs `TypeOK` for the file a transfer is bound to; no other invariant,
because the service's state is read off variables that no step of the client
but its own sends and reads can touch (`SameSession`).

`ConnInv` is what makes sharing a connection harmless: whoever is engaged holds
a connection, those in the queue are held by nobody, and a connection that has
been shut down is open only in a parent about to let go of it, or in a child
whose parent has gone.  The delicate step is `Fork`, which makes a second holder: `AtForkAlone`
says there was no other one.  `ReapInv` counts: a pending SIGCHLD and a handler
that runs each have a zombie of their own, and only living processes have
either; `Dies` both makes a zombie and takes a parent away, in one step.

`TransferInv` ties the loops of `send` and `recv` to `ToWire` and `FromWire`,
which speak of whole files and know nothing of buffers.  `ArrivesAsDefined` is
not inductive: it looks at the receiver's disk alone.  The invariant follows
the file with two counters that the program does not have (`Follow`): k bytes of it
are through with the read type, and n bytes of its form on the wire have been
taken by the write type.  What lies between the two is what the buffers and the
wire hold, piece after piece (`Sending`, `InOrder`), and what those n bytes
stand for is on the disk and in the write type's buffer, with a CR held back at
most (`Stored`).  A full disk only cuts it short, by less than a buffer for the
bytes and one for those the destructor still tried to write.  Once `recv` has
ended, `Ended` says what that leaves.  TLC found the invariant true in all states of
`transfer` before it was proved.

`TransferRunsDown` needs `TypeOK` only.  A byte weighs the more the farther it
is from the end of its way, and the flag `crSent` weighs what the CR costs
that it stands for: so the turn of `send` that puts a CR before an LF, and
leaves the buffer alone, pays with the flag, and the turn that takes the flag
back pays with the LF.

The two definitions are recursive functions, and what they compute is shown by
induction over the length of the data.  The library's induction theorems take
an operator; `SetInduction` takes a set of naturals instead and follows from
the well-founded order on them.  With it `FromWireKeeps` and `ToWireEnds` say
what each byte contributes, and each step of a loop is compared with one byte
of the definition.  `SurvivesIff` is then about data alone: a file comes back
if nothing is dropped, and is shorter if something is, by the same induction.

`FramingCarriesLines` reads the abstract queue off the bytes by `Lines`, so the
proof first says what `Lines` does with one byte more (`CutMore`: it ends a
line, or waits with what is left for the end of one) and then, by induction
over strings of bytes (`BytesInduction`), what it does with two strings put
together: where nothing is left the lines before and after are apart
(`CutJoins`), more bytes only add lines (`MoreLines`), and what waits is part of
the first line to come (`FirstIsLong`).  `LinesInv` adds to `FramingInv` that no
line ends within the command under assembly, that the bytes of a writer that is
still there are whole lines, and that all of them are lines it may write; TLC
found it true in all states of `framing`.  From that each read and each scan
that returns nothing is a stutter, a scan that returns takes exactly the head
of the queue, and the reader gives up only if the head is too long, or nothing
whole is left and the writer has gone.  The assumption is `LinesAreLines`: no
line has a CR LF of its own.

**Only model-checked.**  Liveness (`CommandsComplete`,
`NobodyLingers`, `EveryLineHeard`, `TransferEnds`, `QueueMoves`,
`ClientsLetGo`), which is out of the prover's reach.  Of `CommandsComplete` and
`TransferEnds` the parts that need no fairness are proved (`OnlyTheUserGoesOn`
and `SomebodyGoesOn`, `EveryStepCounts`).

## 5. Not modelled

* A client with an arbitrary server: `ClientPI` is composed with `ServerPI`
  only, so a 227 reply without six numbers does not occur.
* A line of blanks, which `run()` drops without a reply
  (`ServerProtocolInterpreter.cpp:425-427`): it is not a command, ftplite's
  client never sends one, and what `AnyClient` and its theorem say of any
  client is about the commands it sends.
* Writes on a connection that a signal cuts short (`AbstractConnection.cpp:80`);
  a disk that has room again after a write failed.
* Interruption within a library call, where the SIGINT handler destroys objects
  that are being built; children that are stopped, for which SIGCHLD is sent
  and `wait` blocks.
* Terminal echo, texts of messages, arguments of the programs, `getlogin`,
  `crypt`, host names and addresses.
* Exceptions' classes, build files and scripts: no state.

## 6. Plan

Done: the session, the server with any client and the service it gives, the
two byte streams, the server's processes, and the theorems above.  Left, in
this order:

1. A client with a server that answers what it likes, for `ClientPI` alone.
2. Short writes on both kinds of connection.
