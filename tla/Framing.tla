------------------------------ MODULE Framing -------------------------------
(***************************************************************************)
(* One direction of the control connection, byte by byte: what one end's   *)
(* CommunicationWrapper::send_next_command writes and how the other end's  *)
(* get_next_command puts it together again from a non-blocking read into   *)
(* a buffer, a blocking read of one byte when that had nothing, and what   *)
(* an earlier call left in the buffer.  FtpNet takes a command or a reply  *)
(* for one message; LineChannel says what that means.                      *)
(***************************************************************************)
EXTENDS Integers, Sequences

CONSTANTS
  Text,            \* bytes other than CR and LF
  Line,            \* what the writer may pass to send_next_command
  NoLine,          \* "no line has been returned"
  BufferSize,      \* BUFFER_SIZE
  MaxCommandSize,  \* MAX_COMMAND_SIZE
  InFlight,        \* bytes the socket buffers hold
  Breaks           \* whether the connection may break

CR == "CR"
LF == "LF"
Byte == Text \cup {CR, LF}
EndOfLine == <<CR, LF>>

\* checkCommandFinished
Finished(c) == Len(c) >= 2 /\ c[Len(c) - 1] = CR /\ c[Len(c)] = LF

ASSUME FramingAssumption ==
  /\ BufferSize \in Nat \ {0} /\ MaxCommandSize \in Nat \ {0, 1}
  /\ InFlight \in Nat
  /\ Line \subseteq Seq(Byte)
  /\ NoLine \notin Seq(Byte)
  /\ Breaks \in BOOLEAN

\* A line holds no CR LF of its own.
ASSUME LinesAreLines ==
  \A l \in Line : \A i \in 1 .. Len(l) : ~Finished(SubSeq(l, 1, i))

VARIABLES
  wire,     \* bytes written and not yet read
  writing,  \* the writer holds its end
  rpc,      \* the reader: idle between calls, read, block, or over
  buffer,   \* the buffer's bytes from buffer_pos to buffer_len
  command,  \* the command under assembly
  last      \* what get_next_command returned last

vars == <<wire, writing, rpc, buffer, command, last>>

Init ==
  /\ wire = <<>> /\ writing = TRUE
  /\ rpc = "idle" /\ buffer = <<>> /\ command = <<>> /\ last = NoLine

-----------------------------------------------------------------------------
\* The writer.  The kernel takes a whole line: the socket blocks.
SendNextCommand(l) ==
  /\ writing /\ rpc # "over"
  /\ Len(wire) + Len(l) + 2 <= InFlight
  /\ wire' = wire \o l \o EndOfLine
  /\ UNCHANGED <<writing, rpc, buffer, command, last>>

\* The writer closes its end, or is killed in the middle of a line.
Hangup(l) ==
  /\ writing
  /\ \E n \in 0 .. Len(l) + 1 : wire' = wire \o SubSeq(l \o EndOfLine, 1, n)
  /\ writing' = FALSE
  /\ UNCHANGED <<rpc, buffer, command, last>>

\* The connection breaks: what had not arrived is lost.
Break ==
  /\ Breaks /\ writing
  /\ \E n \in 0 .. Len(wire) : wire' = SubSeq(wire, 1, n)
  /\ writing' = FALSE
  /\ UNCHANGED <<rpc, buffer, command, last>>

-----------------------------------------------------------------------------
\* The reader.

\* Mutant: a call begins with the blocking read, whatever is in the buffer.
GetAnew ==
  /\ rpc = "idle"
  /\ rpc' = "block"
  /\ last' = NoLine
  /\ UNCHANGED <<wire, writing, buffer, command>>

GetNextCommand ==
  /\ rpc = "idle"
  /\ rpc' = "read"
  /\ last' = NoLine
  /\ UNCHANGED <<wire, writing, buffer, command>>

\* read_non_blocking(buffer, BUFFER_SIZE): some of what is there, or nothing.
\* It does not tell the end of the stream from an empty one.
ReadNonBlocking ==
  /\ rpc = "read" /\ buffer = <<>>
  /\ \E n \in 0 .. BufferSize :
       /\ n <= Len(wire)
       /\ buffer' = SubSeq(wire, 1, n)
       /\ wire' = SubSeq(wire, n + 1, Len(wire))
       /\ rpc' = IF n = 0 THEN "block" ELSE "read"
  /\ UNCHANGED <<writing, command, last>>

\* read(buffer, 1) with something to read.
ReadOne ==
  /\ rpc = "block" /\ wire # <<>>
  /\ buffer' = <<Head(wire)>>
  /\ wire' = Tail(wire)
  /\ rpc' = "read"
  /\ UNCHANGED <<writing, command, last>>

\* The call throws: the interpreter ends, its wrapper with it.
Over ==
  /\ rpc' = "over"
  /\ wire' = <<>> /\ buffer' = <<>> /\ command' = <<>>
  /\ UNCHANGED <<writing, last>>

\* read(buffer, 1) at the end: it closes the connection and returns 0, and
\* read_non_blocking then throws ConnectionClosedException.
ReadEnd ==
  /\ rpc = "block" /\ wire = <<>> /\ ~writing
  /\ Over

\* The innermost loop moves bytes from the buffer to the command until the
\* command is finished or too long, or the buffer is empty: n bytes.
Moved(n) == command \o SubSeq(buffer, 1, n)

\* Mutant: the limit applies to lines that have come to their end only.
TooLongAtEnd(c) == Len(c) > MaxCommandSize /\ Finished(c)

TooLong(c) == Len(c) > MaxCommandSize
Stops(n) == Finished(Moved(n)) \/ TooLong(Moved(n)) \/ n = Len(buffer)

Scans(n) ==
  /\ rpc = "read" /\ buffer # <<>>
  /\ Stops(n) /\ \A m \in 1 .. n - 1 : ~Stops(m)

\* Mutant: what is left in the buffer is thrown away.
ForgetRest(n) == buffer' = <<>>

KeepRest(n) == buffer' = SubSeq(buffer, n + 1, Len(buffer))

\* MaliciousCounterPartyException
Reject(n) ==
  /\ Scans(n)
  /\ TooLong(Moved(n))
  /\ Over

Return(n) ==
  /\ Scans(n)
  /\ Finished(Moved(n)) /\ ~TooLong(Moved(n)) /\ Moved(n) # EndOfLine
  /\ last' = SubSeq(Moved(n), 1, Len(Moved(n)) - 2)
  /\ KeepRest(n)
  /\ command' = <<>>
  /\ rpc' = "idle"
  /\ UNCHANGED <<wire, writing>>

\* The outer loop: an empty command is not returned.
SkipBlank(n) ==
  /\ Scans(n)
  /\ Moved(n) = EndOfLine
  /\ KeepRest(n)
  /\ command' = <<>>
  /\ UNCHANGED <<wire, writing, rpc, last>>

\* Mutant: the whole buffer is moved, whether or not a line ends in it.
GatherAll(n) ==
  /\ rpc = "read" /\ buffer # <<>>
  /\ ~TooLong(command \o buffer)
  /\ command' = command \o buffer
  /\ buffer' = <<>>
  /\ UNCHANGED <<wire, writing, rpc, last>>

Gather(n) ==
  /\ Scans(n)
  /\ ~Finished(Moved(n)) /\ ~TooLong(Moved(n))
  /\ command' = Moved(n)
  /\ KeepRest(n)
  /\ UNCHANGED <<wire, writing, rpc, last>>

Reader ==
  \/ GetNextCommand \/ ReadNonBlocking \/ ReadOne \/ ReadEnd
  \/ \E n \in 1 .. Len(buffer) :
       Reject(n) \/ Return(n) \/ SkipBlank(n) \/ Gather(n)

Writer ==
  \/ \E l \in Line : SendNextCommand(l) \/ Hangup(l)
  \/ Break

\* The interpreter has ended and its peer has left.
Ends == rpc = "over" /\ UNCHANGED vars

Next == Reader \/ Writer \/ Ends

\* The reader's process runs while it can.
Spec == Init /\ [][Next]_vars /\ WF_vars(Reader)

-----------------------------------------------------------------------------
(***************************************************************************)
(* Whatever arrives, and from whoever, the command under assembly stays    *)
(* within MAX_COMMAND_SIZE and the buffer within BUFFER_SIZE.              *)
(***************************************************************************)
TypeOK ==
  /\ wire \in Seq(Byte)
  /\ writing \in BOOLEAN
  /\ rpc \in {"idle", "read", "block", "over"}
  /\ buffer \in Seq(Byte) /\ Len(buffer) <= BufferSize
  /\ command \in Seq(Byte) /\ Len(command) <= MaxCommandSize
  /\ last \in Seq(Byte) \cup {NoLine}

(***************************************************************************)
(* get_next_command never waits for the peer with a whole line in hand:    *)
(* when it blocks, the buffer is used up and the command unfinished.  The  *)
(* peer waits for the answer to that line, so both would wait for ever.    *)
(***************************************************************************)
BlocksForMore ==
  rpc = "block" => buffer = <<>> /\ ~Finished(command)

(***************************************************************************)
(* Refinement.  The lines of the abstract channel are those that the bytes *)
(* in the command, the buffer and the wire make up together.               *)
(***************************************************************************)
LineEnds(bytes, i) == i > 1 /\ bytes[i - 1] = CR /\ bytes[i] = LF

\* How many of the first i bytes belong to lines that have come to their end.
Before(bytes, i) ==
  CHOOSE e \in 0 .. i :
    /\ e = 0 \/ LineEnds(bytes, e)
    /\ \A j \in e + 1 .. i : ~LineEnds(bytes, j)

\* The lines that are whole, without the blank ones.
Lines(bytes) ==
  LET Ending(i) == SubSeq(bytes, Before(bytes, i - 1) + 1, i - 2)
      upTo[i \in 0 .. Len(bytes)] ==
        IF i = 0 THEN <<>>
        ELSE IF LineEnds(bytes, i) /\ Ending(i) # <<>> THEN Append(upTo[i - 1], Ending(i))
        ELSE upTo[i - 1]
  IN upTo[Len(bytes)]

Pending == Lines(command \o buffer \o wire)

LC == INSTANCE LineChannel WITH
  Line <- Line \ {<<>>},
  Fitting <- {l \in Line : Len(l) + 2 <= MaxCommandSize},
  lines <- Pending,
  reading <- (rpc # "over")

\* get_next_command and send_next_command are together a channel of lines.
CarriesLines == LC!Channel

(***************************************************************************)
(* Every line that comes to the head of the connection is returned, or the *)
(* reader is over: however the bytes were cut up on the way, no line       *)
(* stays behind in the buffer.                                             *)
(***************************************************************************)
EveryLineHeard ==
  \A l \in Line :
    (Pending # <<>> /\ Head(Pending) = l) ~> (last = l \/ rpc = "over")

(***************************************************************************)
(* get_next_command gives up "if the connection closed" or "if the other   *)
(* party deomonstrates malicious behavior" (CommunicationWrapper.h:32-34). *)
(* The writer here is the other end's send_next_command, which takes lines *)
(* of any length: it is given up on only once it has left.                 *)
(***************************************************************************)
HonestIsHeard == rpc = "over" => ~writing
=============================================================================
