--------------------------- MODULE StreamTransfer ---------------------------
(***************************************************************************)
(* One transfer of one file, byte by byte: StreamMode::send with a read    *)
(* type at one end of a data connection, StreamMode::recv with a write     *)
(* type at the other, each with its buffers, between the file of the       *)
(* sender and the file of the receiver.  FtpNet moves files as a whole and *)
(* says with Survives which types give them back; this module says why.    *)
(***************************************************************************)
EXTENDS Integers, Sequences, SequencesExt

CONSTANTS
  Text,        \* bytes other than CR and LF
  Contents,    \* what the sender's file may hold
  BufferSize,  \* BUFFER_SIZE of the mode and of the types
  InFlight,    \* bytes the socket buffers hold
  Faults       \* which failures of the surroundings may happen

(***************************************************************************)
(* read:  reading the file may fail.   reset: the connection may break.    *)
(* full:  the receiver's disk may fill up, for good.                       *)
(***************************************************************************)
FaultKind == {"read", "reset", "full"}

CR == "CR"
LF == "LF"
Byte == Text \cup {CR, LF}
Type == {"A", "I"}

ASSUME TransferAssumption ==
  /\ CR \notin Text /\ LF \notin Text
  /\ Contents \subseteq Seq(Byte)
  /\ BufferSize \in Nat \ {0}
  /\ InFlight \in Nat /\ InFlight >= BufferSize
  /\ Faults \subseteq FaultKind

VARIABLES
  content,  \* the sender's file
  rType,    \* the type it is read with
  wType,    \* the type the receiver writes with
  spc,      \* the sender: send, done, failed, killed
  unread,   \* what the read type has not read of the file
  rbuf,     \* what it has read and not handed out
  crSent,   \* previously_sent_cr_for_lf
  sbuf,     \* the buffer of send
  wire,     \* bytes on their way
  broken,   \* the connection broke
  rpc,      \* the receiver: recv, done, failed, killed
  rcvd,     \* what recv has read and not handed to the write type
  held,     \* previously_read_cr
  wbuf,     \* the buffer of the write type
  disk,     \* the receiver's file
  full      \* its disk is full

chosen == <<content, rType, wType>>
sending == <<spc, unread, rbuf, crSent, sbuf>>
receiving == <<rpc, rcvd, held, wbuf, disk, full>>
vars == <<chosen, sending, wire, broken, receiving>>

\* The read type is built: the file is open, nothing is read.
OpenedToRead ==
  /\ content \in Contents /\ rType \in Type
  /\ unread = content
  /\ rbuf = <<>> /\ crSent = FALSE

\* The write type is built: the file is open and empty.
OpenedToWrite ==
  /\ wType \in Type
  /\ held = FALSE /\ wbuf = <<>>
  /\ disk = <<>> /\ full = FALSE

Init ==
  /\ OpenedToRead /\ spc = "send" /\ sbuf = <<>>
  /\ OpenedToWrite /\ rpc = "recv" /\ rcvd = <<>>
  /\ wire = <<>> /\ broken = FALSE

FirstBytes(s) == SubSeq(s, 1, BufferSize)

-----------------------------------------------------------------------------
\* The sender.

\* read_next_byte with an empty buffer: regular files are read in full.
ReadFile ==
  /\ spc = "send" /\ rbuf = <<>> /\ unread # <<>>
  /\ rbuf' = IF Len(unread) <= BufferSize THEN unread ELSE FirstBytes(unread)
  /\ unread' = SubSeq(unread, Len(rbuf') + 1, Len(unread))
  /\ UNCHANGED <<chosen, spc, crSent, sbuf, wire, broken, receiving>>

\* ReadFileException: what send has buffered is dropped with it.
ReadFails ==
  /\ "read" \in Faults
  /\ spc = "send" /\ rbuf = <<>>
  /\ spc' = "failed"
  /\ UNCHANGED <<chosen, unread, rbuf, crSent, sbuf, wire, broken, receiving>>

Listened == rpc = "recv" /\ ~broken

(***************************************************************************)
(* connection->write(bytes), after which send goes on as spc' says when it *)
(* succeeds.  A blocking socket takes all of them once there is room.      *)
(* Nobody at the other end: they are lost, or the exception, or SIGPIPE.   *)
(***************************************************************************)
Write(bytes, next) ==
  \/ /\ Listened /\ Len(wire) + Len(bytes) <= InFlight
     /\ wire' = wire \o bytes /\ spc' = next
  \/ /\ ~Listened
     /\ spc' \in {next, "failed", "killed"} /\ UNCHANGED wire

\* Mutant: the flag that a CR was sent is not looked at.
AddsCRAgain == rType = "A" /\ Head(rbuf) = LF

\* ASCIIReadType::read_next_byte: a CR is put before an LF.
AddsCR == rType = "A" /\ Head(rbuf) = LF /\ ~crSent
NextByte == IF AddsCR THEN CR ELSE Head(rbuf)

\* Mutant: the flag that a CR was sent is never taken back.
HandOutOnce ==
  /\ crSent' = (crSent \/ AddsCR)
  /\ rbuf' = IF AddsCR THEN rbuf ELSE Tail(rbuf)

HandOut ==
  /\ crSent' = AddsCR
  /\ rbuf' = IF AddsCR THEN rbuf ELSE Tail(rbuf)

\* Mutant: the buffer is written one byte late.
SendByteLate ==
  /\ spc = "send" /\ rbuf # <<>>
  /\ HandOut
  /\ \/ /\ Len(sbuf) > BufferSize
        /\ Write(sbuf, "send")
        /\ sbuf' = <<NextByte>>
     \/ /\ Len(sbuf) <= BufferSize
        /\ sbuf' = Append(sbuf, NextByte)
        /\ UNCHANGED <<spc, wire>>
  /\ UNCHANGED <<chosen, unread, broken, receiving>>

\* One turn of the loop of send.
SendByte ==
  /\ spc = "send" /\ rbuf # <<>>
  /\ HandOut
  /\ \/ /\ Len(sbuf) = BufferSize
        /\ Write(sbuf, "send")
        /\ sbuf' = <<NextByte>>
     \/ /\ Len(sbuf) < BufferSize
        /\ sbuf' = Append(sbuf, NextByte)
        /\ UNCHANGED <<spc, wire>>
  /\ UNCHANGED <<chosen, unread, broken, receiving>>

\* TypeIterationEndedException: the rest is written, the connection closed.
SendRest ==
  /\ spc = "send" /\ rbuf = <<>> /\ unread = <<>>
  /\ IF sbuf = <<>> THEN spc' = "done" /\ UNCHANGED wire ELSE Write(sbuf, "done")
  /\ sbuf' = <<>>
  /\ UNCHANGED <<chosen, unread, rbuf, crSent, broken, receiving>>

Sender == ReadFile \/ ReadFails \/ SendByte \/ SendRest

Reset ==
  /\ "reset" \in Faults /\ ~broken
  /\ broken' = TRUE
  /\ \E n \in 0 .. Len(wire) : wire' = SubSeq(wire, 1, n)
  /\ UNCHANGED <<chosen, sending, receiving>>

-----------------------------------------------------------------------------
\* The receiver.

\* Mutant: a read waits for as many bytes as the buffer holds.
ReceiveAll ==
  /\ rpc = "recv" /\ rcvd = <<>> /\ Len(wire) >= BufferSize
  /\ rcvd' = FirstBytes(wire)
  /\ wire' = SubSeq(wire, BufferSize + 1, Len(wire))
  /\ UNCHANGED <<chosen, sending, broken, rpc, held, wbuf, disk, full>>

\* connection->read(buffer, BUFFER_SIZE): some of what has arrived.
Receive ==
  /\ rpc = "recv" /\ rcvd = <<>>
  /\ \E n \in 1 .. BufferSize :
       /\ n <= Len(wire)
       /\ rcvd' = SubSeq(wire, 1, n)
       /\ wire' = SubSeq(wire, n + 1, Len(wire))
  /\ UNCHANGED <<chosen, sending, broken, rpc, held, wbuf, disk, full>>

(***************************************************************************)
(* What write(fd, bytes) may leave in the file d.  On the disk that fills  *)
(* up it stops early, on one that is full it fails.  ok is what the code   *)
(* takes the result for: everything but -1 and 0 counts as all of them.    *)
(***************************************************************************)
Written(d, bytes, n, f) == [ok |-> n > 0, disk |-> d \o SubSeq(bytes, 1, n), full |-> f]

Writes(d, bytes) ==
  IF full
  THEN {Written(d, bytes, 0, TRUE)}
  ELSE {Written(d, bytes, Len(bytes), FALSE)}
         \cup {Written(d, bytes, n, TRUE) :
                 n \in IF "full" \in Faults THEN 0 .. Len(bytes) - 1 ELSE {}}

Leaves(w) == disk' = w.disk /\ full' = w.full

\* The last write, in the destructor: its result is not looked at.
WriteLast(bytes) ==
  IF bytes = <<>> THEN UNCHANGED <<disk, full>>
  ELSE \E w \in Writes(disk, bytes) : Leaves(w)

Discard == held' = FALSE /\ wbuf' = <<>> /\ rcvd' = <<>>

\* Mutant: a CR at the end of the file is not written.
DestroyDropsCR(h, next) ==
  /\ WriteLast(wbuf)
  /\ rpc' = next
  /\ Discard

(***************************************************************************)
(* The write type is destroyed as recv comes to its end (next).  With a CR *)
(* held back (h) it calls write_next_byte once more, which may have to     *)
(* write out a full buffer first; an exception of that leaves a destructor *)
(* and ends the process.                                                   *)
(***************************************************************************)
Destroy(h, next) ==
  /\ \/ /\ ~h
        /\ WriteLast(wbuf) /\ rpc' = next
     \/ /\ h /\ Len(wbuf) < BufferSize
        /\ WriteLast(Append(wbuf, CR)) /\ rpc' = next
     \/ /\ h /\ Len(wbuf) = BufferSize
        /\ \E w \in Writes(disk, wbuf) :
             \/ /\ w.ok /\ ~w.full
                /\ \E l \in Writes(w.disk, <<CR>>) : Leaves(l)
                /\ rpc' = next
             \/ w.ok /\ w.full /\ Leaves(w) /\ rpc' = next
             \/ ~w.ok /\ Leaves(w) /\ rpc' = "killed"
  /\ Discard

\* ASCIIWriteType::write_next_byte returns early on the first CR of a run.
HoldsBack(b) == wType = "A" /\ b = CR /\ ~held

HoldCR ==
  /\ rpc = "recv" /\ rcvd # <<>> /\ HoldsBack(Head(rcvd))
  /\ held' = TRUE
  /\ rcvd' = Tail(rcvd)
  /\ UNCHANGED <<chosen, sending, wire, broken, rpc, wbuf, disk, full>>

\* The flag after a byte that is not held back.
IsCR(b) == wType = "A" /\ b = CR

WriteByte ==
  /\ rpc = "recv" /\ rcvd # <<>> /\ ~HoldsBack(Head(rcvd))
  /\ IF Len(wbuf) = BufferSize
     THEN /\ \E w \in Writes(disk, wbuf) : w.ok /\ Leaves(w)
          /\ wbuf' = <<Head(rcvd)>>
     ELSE wbuf' = Append(wbuf, Head(rcvd)) /\ UNCHANGED <<disk, full>>
  /\ held' = IsCR(Head(rcvd))
  /\ rcvd' = Tail(rcvd)
  /\ UNCHANGED <<chosen, sending, wire, broken, rpc>>

\* WriteFileException: recv passes it on, and its parameters are destroyed;
\* what the destructor tries to write fails as well.
WriteFails ==
  /\ full \/ "full" \in Faults
  /\ rpc = "recv" /\ rcvd # <<>> /\ ~HoldsBack(Head(rcvd))
  /\ Len(wbuf) = BufferSize
  /\ rpc' = IF IsCR(Head(rcvd)) THEN "killed" ELSE "failed"
  /\ full' = TRUE
  /\ Discard
  /\ UNCHANGED <<chosen, sending, wire, broken, disk>>

\* read returns 0 or throws ConnectionClosedException: both end the file.
RecvEnds ==
  /\ rpc = "recv" /\ rcvd = <<>> /\ wire = <<>>
  /\ spc # "send" \/ broken
  /\ Destroy(held, "done")
  /\ UNCHANGED <<chosen, sending, wire, broken>>

Receiver == Receive \/ HoldCR \/ WriteByte \/ WriteFails \/ RecvEnds

Over == {"done", "failed", "killed"}

\* Both ends come to a stop.
Next == Sender \/ Receiver \/ Reset

\* Both processes run while they can.
Spec == Init /\ [][Next]_vars /\ WF_vars(Sender) /\ WF_vars(Receiver)

-----------------------------------------------------------------------------
(***************************************************************************)
(* What the types mean, without buffers, flags or processes.               *)
(***************************************************************************)
ToWire(t, f) ==
  FlattenSeq([i \in DOMAIN f |->
                IF t = "A" /\ f[i] = LF THEN <<CR, LF>> ELSE <<f[i]>>])

\* The last CR of each run is dropped, unless the run ends the file.
FromWire(t, w) ==
  LET Kept(i) == t = "I" \/ w[i] # CR \/ i = Len(w) \/ w[i + 1] = CR
      upTo[i \in 0 .. Len(w)] ==  \* what is kept of the first i bytes
        IF i = 0 THEN <<>>
        ELSE IF Kept(i) THEN Append(upTo[i - 1], w[i]) ELSE upTo[i - 1]
  IN upTo[Len(w)]

Form == ToWire(rType, content)

(***************************************************************************)
(* No buffer is ever written past its end, and no byte past the sockets'.  *)
(***************************************************************************)
TypeOK ==
  /\ content \in Contents /\ rType \in Type /\ wType \in Type
  /\ spc \in {"send"} \cup Over /\ rpc \in {"recv"} \cup Over
  /\ unread \in Seq(Byte) /\ disk \in Seq(Byte)
  /\ \A b \in {rbuf, sbuf, rcvd, wbuf} : b \in Seq(Byte) /\ Len(b) <= BufferSize
  /\ wire \in Seq(Byte) /\ Len(wire) <= InFlight
  /\ crSent \in BOOLEAN /\ broken \in BOOLEAN /\ held \in BOOLEAN
  /\ full \in BOOLEAN

(***************************************************************************)
(* However the bytes are cut up into buffers and packets, and whatever     *)
(* fails, the receiver's file is a beginning of what the definition of the *)
(* types makes of the bytes that were sent, without a hole.  When recv     *)
(* returns it is what the definition makes of the bytes that arrived:      *)
(* all of them, unless the connection broke or the sender failed.  On a    *)
(* full disk a return may hide that a last part is missing, but only one   *)
(* of less than two buffers.                                               *)
(***************************************************************************)
Arrived(n) == FromWire(wType, SubSeq(Form, 1, n))

ArrivesAsDefined ==
  /\ \E n \in 0 .. Len(Form) : IsPrefix(disk, Arrived(n))
  /\ rpc = "done" =>
       \E n \in 0 .. Len(Form) :
         /\ IsPrefix(disk, Arrived(n))
         /\ IF full THEN Len(disk) > Len(Arrived(n)) - 2 * BufferSize
                    ELSE disk = Arrived(n)
         /\ spc = "done" /\ ~broken => n = Len(Form)

(***************************************************************************)
(* Which pairs of types give a file back.  The two classes of files that   *)
(* FtpNet tells apart with Survives are instances: a text with an LF and   *)
(* no CR survives all but <<"A", "I">>, one that also has a CR before      *)
(* another byte of its line <<"I", "I">> alone.                            *)
(***************************************************************************)
CRBefore(bytes) ==
  \E i \in 1 .. Len(content) - 1 : content[i] = CR /\ content[i + 1] \in bytes

SurvivingTypes ==
  {<<"I", "I">>}
  \cup (IF Contains(content, LF) THEN {} ELSE {<<"A", "I">>})
  \cup (IF CRBefore(Text \cup {LF}) THEN {} ELSE {<<"I", "A">>})
  \cup (IF CRBefore(Text) THEN {} ELSE {<<"A", "A">>})

SurvivesAsAssumed ==
  spc = "done" /\ rpc = "done" /\ ~broken /\ ~full =>
    (disk = content <=> <<rType, wType>> \in SurvivingTypes)

(***************************************************************************)
(* No turn of a loop is in vain.  Work weighs each byte by what has still  *)
(* to be done with it, and every step of either end makes it less, also    *)
(* the one of ASCIIReadType that hands out a CR and takes nothing from its *)
(* buffer: what it sends on has only that buffer and the flag to come from.*)
(***************************************************************************)
SenderLeft ==
  9 * Len(unread) + 8 * Len(rbuf) + (IF crSent THEN 0 ELSE 4) + 3 * Len(sbuf)
    + (IF spc = "send" THEN 1 ELSE 0)

ReceiverLeft == Len(rcvd) + (IF rpc = "recv" THEN 1 ELSE 0)

Work ==
  SenderLeft + 2 * Len(wire) + ReceiverLeft + (IF broken THEN 0 ELSE 1)

EveryStepCounts == [][Work' < Work]_vars

(***************************************************************************)
(* A transfer ends on both sides, whatever fails on either.                *)
(***************************************************************************)
TransferEnds == <>(spc \in Over /\ rpc \in Over)
=============================================================================
