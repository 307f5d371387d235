--------------------------- MODULE FramingProofs ----------------------------
(***************************************************************************)
(* Theorems about get_next_command, for any lines, any buffer and limit,   *)
(* and any way in which the bytes arrive.                                  *)
(***************************************************************************)
EXTENDS Framing, SequenceTheorems, WellFoundedInduction, TLAPS

(***************************************************************************)
(* BlocksForMore is not inductive: the blocking read follows a read that   *)
(* has found nothing, and the command was looked at last before that one.  *)
(***************************************************************************)
FramingInv ==
  /\ TypeOK
  /\ ~Finished(command)
  /\ rpc = "block" => buffer = <<>>

LEMMA SubSeqTyped ==
  ASSUME NEW S, NEW s \in Seq(S), NEW m \in Nat \ {0}, NEW n \in Nat, n <= Len(s)
  PROVE  /\ SubSeq(s, m, n) \in Seq(S)
         /\ Len(SubSeq(s, m, n)) = IF m <= n THEN n - m + 1 ELSE 0
  BY SMT

LEMMA NothingIsUnfinished == ~Finished(<<>>)
  BY SMT DEF Finished

LEMMA LinesTyped == EndOfLine \in Seq(Byte) /\ Line \subseteq Seq(Byte)
  <1>1. EndOfLine \in Seq(Byte)
    BY SMT DEF EndOfLine, Byte
  <1> QED
    BY <1>1, FramingAssumption, Zenon

LEMMA MovedTyped ==
  ASSUME TypeOK, NEW n \in 1 .. Len(buffer)
  PROVE  /\ Moved(n) \in Seq(Byte)
         /\ Len(Moved(n)) \in Nat
         /\ SubSeq(buffer, n + 1, Len(buffer)) \in Seq(Byte)
         /\ Len(SubSeq(buffer, n + 1, Len(buffer))) <= BufferSize
  <1>1. command \in Seq(Byte) /\ buffer \in Seq(Byte) /\ Len(buffer) <= BufferSize
    BY Zenon DEF TypeOK
  <1>2. BufferSize \in Nat /\ Len(buffer) \in Nat
    BY <1>1, FramingAssumption, LenProperties, SMT
  <1>3. SubSeq(buffer, 1, n) \in Seq(Byte)
    BY <1>1, <1>2, SubSeqTyped, SMT
  <1>4. Moved(n) \in Seq(Byte) /\ Len(Moved(n)) \in Nat
    BY <1>1, <1>3, ConcatProperties, LenProperties, Zenon DEF Moved
  <1>5. /\ SubSeq(buffer, n + 1, Len(buffer)) \in Seq(Byte)
        /\ Len(SubSeq(buffer, n + 1, Len(buffer))) <= BufferSize
    BY <1>1, <1>2, SubSeqTyped, SMT
  <1> QED
    BY <1>4, <1>5

-----------------------------------------------------------------------------
\* The writer and the network touch the wire alone.
LEMMA WriterKeeps ==
  ASSUME FramingInv, Writer
  PROVE  FramingInv'
  <1>1. UNCHANGED <<rpc, buffer, command, last>>
    BY Zenon DEF Writer, SendNextCommand, Hangup, Break
  <1>2. wire \in Seq(Byte)
    BY Zenon DEF FramingInv, TypeOK
  <1>3. writing' \in BOOLEAN
    BY Zenon DEF Writer, SendNextCommand, Hangup, Break, FramingInv, TypeOK
  <1>4. wire' \in Seq(Byte)
    <2>1. ASSUME NEW l \in Line, SendNextCommand(l)
          PROVE  wire' \in Seq(Byte)
      BY <1>2, <2>1, LinesTyped, SMT DEF SendNextCommand
    <2>2. ASSUME NEW l \in Line, Hangup(l)
          PROVE  wire' \in Seq(Byte)
      <3>1. l \o EndOfLine \in Seq(Byte) /\ Len(l \o EndOfLine) = Len(l) + 2
        BY LinesTyped, SMT DEF EndOfLine
      <3>2. PICK n \in 0 .. Len(l) + 1 : wire' = wire \o SubSeq(l \o EndOfLine, 1, n)
        BY <2>2, Zenon DEF Hangup
      <3>3. l \in Seq(Byte) /\ Len(l) \in Nat
        BY LinesTyped, LenProperties, Zenon
      <3>4. SubSeq(l \o EndOfLine, 1, n) \in Seq(Byte)
        BY <3>1, <3>3, SubSeqTyped, SMT
      <3> QED
        BY <1>2, <3>2, <3>4, ConcatProperties, Zenon
    <2>3. ASSUME Break
          PROVE  wire' \in Seq(Byte)
      <3>1. PICK n \in 0 .. Len(wire) : wire' = SubSeq(wire, 1, n)
        BY <2>3, Zenon DEF Break
      <3>2. Len(wire) \in Nat
        BY <1>2, LenProperties, Zenon
      <3> QED
        BY <1>2, <3>1, <3>2, SubSeqTyped, SMT
    <2> QED
      BY <2>1, <2>2, <2>3, Zenon DEF Writer
  <1>5. TypeOK'
    BY <1>1, <1>3, <1>4, Zenon DEF FramingInv, TypeOK
  <1> QED
    BY <1>1, <1>5, Zenon DEF FramingInv, Finished

LEMMA OverKeeps ==
  ASSUME FramingInv, Over
  PROVE  FramingInv'
  <1>1. /\ rpc' = "over" /\ wire' = <<>> /\ buffer' = <<>> /\ command' = <<>>
        /\ writing' = writing /\ last' = last
    BY Zenon DEF Over
  <1>2. <<>> \in Seq(Byte)
    BY EmptySeq, Zenon
  <1>3. 0 <= BufferSize /\ 0 <= MaxCommandSize /\ Len(<<>>) = 0
    BY FramingAssumption, SMT
  <1>4. TypeOK'
    BY <1>1, <1>2, <1>3, SMT DEF FramingInv, TypeOK
  <1>5. ~Finished(command')
    BY <1>1, NothingIsUnfinished, Zenon
  <1> QED
    BY <1>1, <1>4, <1>5, Zenon DEF FramingInv, Finished

LEMMA GetKeeps ==
  ASSUME FramingInv, GetNextCommand
  PROVE  FramingInv'
  <1>1. rpc' = "read" /\ last' = NoLine /\ UNCHANGED <<wire, writing, buffer, command>>
    BY Zenon DEF GetNextCommand
  <1>2. TypeOK'
    BY <1>1, SMT DEF FramingInv, TypeOK
  <1> QED
    BY <1>1, <1>2, SMT DEF FramingInv, Finished

LEMMA ReadsKeep ==
  ASSUME FramingInv, ReadNonBlocking \/ ReadOne
  PROVE  FramingInv'
  <1>1. /\ UNCHANGED <<writing, command, last>>
        /\ wire \in Seq(Byte) /\ Len(wire) \in Nat /\ BufferSize \in Nat \ {0}
    BY FramingAssumption, LenProperties, Zenon
    DEF FramingInv, TypeOK, ReadNonBlocking, ReadOne
  <1>2. CASE ReadNonBlocking
    <2>1. PICK n \in 0 .. BufferSize :
            /\ n <= Len(wire)
            /\ buffer' = SubSeq(wire, 1, n)
            /\ wire' = SubSeq(wire, n + 1, Len(wire))
            /\ rpc' = IF n = 0 THEN "block" ELSE "read"
      BY <1>2, Zenon DEF ReadNonBlocking
    <2>2. buffer' \in Seq(Byte) /\ Len(buffer') = n
      BY <1>1, <2>1, SubSeqTyped, SMT
    <2>3. wire' \in Seq(Byte)
      BY <1>1, <2>1, SubSeqTyped, SMT
    <2>4. rpc' \in {"read", "block"} /\ (rpc' = "block" => buffer' = <<>>)
      BY <1>1, <2>1, <2>2, EmptySeq, SMT
    <2>5. TypeOK'
      BY <1>1, <2>1, <2>2, <2>3, <2>4, SMT DEF FramingInv, TypeOK
    <2> QED
      BY <1>1, <2>4, <2>5, Zenon DEF FramingInv, Finished
  <1>3. CASE ReadOne
    <2>1. /\ wire # <<>> /\ buffer' = <<Head(wire)>>
          /\ wire' = Tail(wire) /\ rpc' = "read"
      BY <1>3, Zenon DEF ReadOne
    <2>2. Head(wire) \in Byte /\ wire' \in Seq(Byte)
      BY <1>1, <2>1, HeadTailProperties, Zenon
    <2>3. buffer' \in Seq(Byte) /\ Len(buffer') = 1
      BY <2>1, <2>2, SMT
    <2>4. TypeOK'
      BY <1>1, <2>1, <2>2, <2>3, SMT DEF FramingInv, TypeOK
    <2> QED
      BY <1>1, <2>1, <2>4, SMT DEF FramingInv, Finished
  <1> QED
    BY <1>2, <1>3

\* The scan of the buffer, which ends with the first byte that stops it.
LEMMA ScansKeep ==
  ASSUME FramingInv, NEW n \in 1 .. Len(buffer),
         Return(n) \/ SkipBlank(n) \/ Gather(n)
  PROVE  FramingInv'
  <1>1. /\ TypeOK /\ rpc = "read"
        /\ KeepRest(n) /\ UNCHANGED <<wire, writing>>
    BY Zenon DEF FramingInv, Return, SkipBlank, Gather, Scans
  <1>2. buffer' \in Seq(Byte) /\ Len(buffer') <= BufferSize
    BY <1>1, MovedTyped, Zenon DEF KeepRest
  <1>3. rpc' \in {"idle", "read"}
    BY <1>1, SMT DEF Return, SkipBlank, Gather
  <1>4. /\ command' \in Seq(Byte) /\ Len(command') <= MaxCommandSize
        /\ ~Finished(command')
    <2>1. CASE Return(n) \/ SkipBlank(n)
      <3>1. command' = <<>>
        BY <2>1, Zenon DEF Return, SkipBlank
      <3>2. <<>> \in Seq(Byte) /\ Len(<<>>) <= MaxCommandSize
        BY EmptySeq, FramingAssumption, SMT
      <3> QED
        BY <3>1, <3>2, NothingIsUnfinished, Zenon
    <2>2. CASE Gather(n)
      <3>1. command' = Moved(n) /\ ~Finished(Moved(n)) /\ ~TooLong(Moved(n))
        BY <2>2, Zenon DEF Gather
      <3>2. Len(Moved(n)) <= MaxCommandSize
        BY <1>1, <3>1, MovedTyped, FramingAssumption, SMT DEF TooLong
      <3> QED
        BY <1>1, <3>1, <3>2, MovedTyped, Zenon
    <2> QED
      BY <2>1, <2>2
  <1>5. last' \in Seq(Byte) \cup {NoLine}
    <2>1. CASE Return(n)
      <3>1. last' = SubSeq(Moved(n), 1, Len(Moved(n)) - 2) /\ Finished(Moved(n))
        BY <2>1, Zenon DEF Return
      <3>2. Len(Moved(n)) >= 2
        BY <3>1, Zenon DEF Finished
      <3> QED
        BY <1>1, <3>1, <3>2, MovedTyped, SubSeqTyped, SMT
    <2>2. CASE SkipBlank(n) \/ Gather(n)
      BY <1>1, <2>2, Zenon DEF SkipBlank, Gather, TypeOK
    <2> QED
      BY <2>1, <2>2
  <1>6. TypeOK'
    BY <1>1, <1>2, <1>3, <1>4, <1>5, SMT DEF TypeOK
  <1> QED
    BY <1>3, <1>4, <1>6, SMT DEF FramingInv, Finished

LEMMA FramingStep == FramingInv /\ [Next]_vars => FramingInv'
  <1> SUFFICES ASSUME FramingInv, [Next]_vars PROVE FramingInv'
    OBVIOUS
  <1>1. CASE UNCHANGED vars
    BY <1>1, SMT DEF vars, FramingInv, TypeOK, Finished
  <1>2. CASE Reader
    BY <1>2, GetKeeps, ReadsKeep, OverKeeps, ScansKeep, Zenon
    DEF Reader, ReadEnd, Reject
  <1>3. CASE Writer
    BY <1>3, WriterKeeps
  <1> QED
    BY <1>1, <1>2, <1>3, Zenon DEF Next, Ends

LEMMA FramingAlways == Spec => []FramingInv
  <1>1. Init => FramingInv
    <2> SUFFICES ASSUME Init PROVE FramingInv
      OBVIOUS
    <2>1. <<>> \in Seq(Byte) /\ Len(<<>>) = 0
      BY EmptySeq, Zenon
    <2>2. TypeOK
      BY <2>1, FramingAssumption, SMT DEF Init, TypeOK
    <2> QED
      BY <2>2, NothingIsUnfinished, SMT DEF Init, FramingInv
  <1> QED
    BY <1>1, FramingStep, PTL DEF Spec

(***************************************************************************)
(* Types and limits.  Whatever arrives, the command under assembly stays   *)
(* within MAX_COMMAND_SIZE and the buffer within BUFFER_SIZE.              *)
(***************************************************************************)
THEOREM FramingTyped == Spec => []TypeOK
  <1>1. FramingInv => TypeOK
    BY Zenon DEF FramingInv
  <1> QED
    BY <1>1, FramingAlways, PTL

(***************************************************************************)
(* get_next_command does not wait for the peer with a whole line in hand.  *)
(***************************************************************************)
THEOREM FramingBlocksForMore == Spec => []BlocksForMore
  <1>1. FramingInv => BlocksForMore
    BY Zenon DEF FramingInv, BlocksForMore
  <1> QED
    BY <1>1, FramingAlways, PTL

-----------------------------------------------------------------------------
(***************************************************************************)
(* CarriesLines.  What Lines makes of a string of bytes is proved by       *)
(* induction over the string; SetInduction and BytesInduction state that   *)
(* for a set, because the provers cannot instantiate an operator.          *)
(***************************************************************************)
LEMMA NatOrder ==
  \E R : /\ IsWellFoundedOn(R, Nat)
         /\ \A m \in Nat, n \in Nat : m < n => <<m, n>> \in R
  <1>1. \A m \in Nat, n \in Nat : m < n => <<m, n>> \in OpToRel(<, Nat)
    BY SMT DEF OpToRel
  <1> QED
    BY <1>1, NatLessThanWellFounded, Zenon

LEMMA SetInduction ==
  ASSUME NEW S, 0 \in S, \A n \in Nat : n \in S => n + 1 \in S
  PROVE  Nat \subseteq S
  <1> SUFFICES ASSUME Nat \ S # {} PROVE FALSE
    BY Zenon
  <1>1. PICK R : /\ IsWellFoundedOn(R, Nat)
                 /\ \A m \in Nat, n \in Nat : m < n => <<m, n>> \in R
    BY NatOrder, Zenon
  <1>2. PICK x \in Nat \ S : \A y \in Nat \ S : ~(<<y, x>> \in R)
    <2>1. Nat \ S \subseteq Nat
      BY Zenon
    <2> QED
      BY <1>1, <2>1, WFMin, Zenon
  <1>3. x # 0 /\ x - 1 \in Nat /\ x - 1 < x /\ x = (x - 1) + 1
    BY <1>2, SMT
  <1>4. x - 1 \in S
    BY <1>1, <1>2, <1>3, Zenon
  <1> QED
    BY <1>2, <1>3, <1>4, Zenon

\* Induction over strings of bytes.
LEMMA BytesInduction ==
  ASSUME NEW P, <<>> \in P,
         \A s \in Seq(Byte), x \in Byte : s \in P => Append(s, x) \in P
  PROVE  Seq(Byte) \subseteq P
  <1> DEFINE S == {n \in Nat : \A s \in Seq(Byte) : Len(s) = n => s \in P}
  <1>1. 0 \in S
    <2>1. \A s \in Seq(Byte) : Len(s) = 0 => s = <<>>
      BY SMT
    <2> QED BY <2>1, SMT
  <1>2. ASSUME NEW n \in Nat, n \in S PROVE n + 1 \in S
    <2>1. ASSUME NEW s \in Seq(Byte), Len(s) = n + 1 PROVE s \in P
      <3>1. PICK v \in Seq(Byte) : v = SubSeq(s, 1, n) /\ Len(v) = n
        <4>1. SubSeq(s, 1, n) \in Seq(Byte) /\ Len(SubSeq(s, 1, n)) = n
          BY <2>1, SMT
        <4> QED BY <4>1, Zenon
      <3>2. PICK x \in Byte : x = s[n + 1]
        BY <2>1, SMT
      <3>3. Append(v, x) = s
        <4>1. PICK u \in Seq(Byte) : u = Append(v, x)
          BY AppendProperties, Zenon
        <4>2. Len(u) = n + 1 /\ \A i \in 1 .. n + 1 : u[i] = s[i]
          BY <2>1, <3>1, <3>2, <4>1, SMT
        <4>3. u = s
          BY <2>1, <4>2, SeqEqual, SMT
        <4> QED BY <4>1, <4>3, Zenon
      <3>4. v \in P
        BY <1>2, <3>1, Zenon
      <3> QED BY <3>3, <3>4, Zenon
    <2> QED BY <2>1, SMT
  <1> HIDE DEF S
  <1>3. Nat \subseteq S
    BY <1>1, <1>2, SetInduction, Zenon
  <1>4. ASSUME NEW s \in Seq(Byte) PROVE s \in P
    <2>1. Len(s) \in Nat
      BY SMT
    <2> QED BY <1>3, <2>1, Zenon DEF S
  <1> QED BY <1>4, Zenon

-----------------------------------------------------------------------------
IsBefore(b, i, e) ==
  /\ e \in 0 .. i
  /\ e = 0 \/ LineEnds(b, e)
  /\ \A j \in e + 1 .. i : ~LineEnds(b, j)

LEMMA BeforeExists ==
  ASSUME NEW b
  PROVE  \A i \in Nat : \E e : IsBefore(b, i, e)
  <1> DEFINE S == {i \in Nat : \E e : IsBefore(b, i, e)}
  <1>1. 0 \in S
    <2>1. IsBefore(b, 0, 0)
      BY SMT DEF IsBefore
    <2> QED BY <2>1, SMT
  <1>2. ASSUME NEW i \in Nat, i \in S PROVE i + 1 \in S
    <2>1. PICK e : IsBefore(b, i, e)
      BY <1>2, Zenon
    <2>2. CASE LineEnds(b, i + 1)
      <3>1. IsBefore(b, i + 1, i + 1)
        BY <2>2, SMT DEF IsBefore
      <3> QED BY <3>1, SMT
    <2>3. CASE ~LineEnds(b, i + 1)
      <3>1. IsBefore(b, i + 1, e)
        <4>1. e \in 0 .. i + 1 /\ (e = 0 \/ LineEnds(b, e))
          BY <2>1, SMT DEF IsBefore
        <4>2. ASSUME NEW j \in e + 1 .. i + 1 PROVE ~LineEnds(b, j)
          <5>1. j = i + 1 \/ j \in e + 1 .. i
            BY <4>1, SMT
          <5> QED BY <2>1, <2>3, <5>1, Zenon DEF IsBefore
        <4> QED BY <4>1, <4>2, Zenon DEF IsBefore
      <3> QED BY <3>1, SMT
    <2> QED BY <2>2, <2>3, Zenon
  <1> HIDE DEF S
  <1>3. Nat \subseteq S
    BY <1>1, <1>2, SetInduction, Zenon
  <1> QED BY <1>3, Zenon DEF S

LEMMA BeforeIs ==
  ASSUME NEW b, NEW i \in Nat
  PROVE  /\ IsBefore(b, i, Before(b, i))
         /\ \A e : IsBefore(b, i, e) => e = Before(b, i)
  <1>1. \E e \in 0 .. i : /\ e = 0 \/ LineEnds(b, e)
                          /\ \A j \in e + 1 .. i : ~LineEnds(b, j)
    BY BeforeExists, Zenon DEF IsBefore
  <1>2. IsBefore(b, i, Before(b, i))
    BY <1>1, Zenon DEF Before, IsBefore
  <1>3. ASSUME NEW e, NEW f, IsBefore(b, i, e), IsBefore(b, i, f), e < f
        PROVE  FALSE
    <2>1. f \in e + 1 .. i /\ f # 0
      BY <1>3, SMT DEF IsBefore
    <2> QED BY <1>3, <2>1, Zenon DEF IsBefore
  <1>4. ASSUME NEW e, IsBefore(b, i, e) PROVE e = Before(b, i)
    <2>1. PICK f : f = Before(b, i)
      BY Zenon
    <2>2. e \in Int /\ f \in Int
      BY <1>2, <1>4, <2>1, SMT DEF IsBefore
    <2>3. ~(e < f) /\ ~(f < e)
      BY <1>2, <1>3, <1>4, <2>1, Zenon
    <2> QED BY <2>1, <2>2, <2>3, SMT
  <1> QED BY <1>2, <1>4, Zenon

Alike(v, b, m) == \A i \in 1 .. m : v[i] = b[i]

LEMMA EndsAlike ==
  ASSUME NEW v, NEW b, NEW m \in Nat, Alike(v, b, m), NEW i \in Nat, i <= m
  PROVE  LineEnds(v, i) <=> LineEnds(b, i)
  <1>1. CASE i > 1
    <2>1. i \in 1 .. m /\ i - 1 \in 1 .. m
      BY <1>1, SMT
    <2> QED BY <2>1, Zenon DEF Alike, LineEnds
  <1>2. CASE ~(i > 1)
    BY <1>2, Zenon DEF LineEnds
  <1> QED BY <1>1, <1>2, Zenon

LEMMA BeforeAlike ==
  ASSUME NEW v, NEW b, NEW m \in Nat, Alike(v, b, m), NEW i \in Nat, i <= m
  PROVE  Before(v, i) = Before(b, i)
  <1>1. PICK e : e = Before(b, i) /\ IsBefore(b, i, e)
    BY BeforeIs, Zenon
  <1>2. IsBefore(v, i, e)
    <2>1. e \in 0 .. i /\ e \in Nat /\ e <= m
      BY <1>1, SMT DEF IsBefore
    <2>2. e = 0 \/ LineEnds(v, e)
      BY <1>1, <2>1, EndsAlike, Zenon DEF IsBefore
    <2>3. ASSUME NEW j \in e + 1 .. i PROVE ~LineEnds(v, j)
      <3>1. j \in Nat /\ j <= m
        BY <2>1, SMT
      <3> QED BY <1>1, <3>1, EndsAlike, Zenon DEF IsBefore
    <2> QED BY <2>1, <2>2, <2>3, Zenon DEF IsBefore
  <1> QED BY <1>1, <1>2, BeforeIs, Zenon

LEMMA BeforeNext ==
  ASSUME NEW b, NEW i \in Nat
  PROVE  /\ LineEnds(b, i + 1) => Before(b, i + 1) = i + 1
         /\ ~LineEnds(b, i + 1) => Before(b, i + 1) = Before(b, i)
  <1>1. i + 1 \in Nat
    BY SMT
  <1>2. ASSUME LineEnds(b, i + 1) PROVE Before(b, i + 1) = i + 1
    <2>1. IsBefore(b, i + 1, i + 1)
      BY <1>2, SMT DEF IsBefore
    <2> QED BY <1>1, <2>1, BeforeIs, Zenon
  <1>3. ASSUME ~LineEnds(b, i + 1) PROVE Before(b, i + 1) = Before(b, i)
    <2>1. PICK e : e = Before(b, i) /\ IsBefore(b, i, e)
      BY BeforeIs, Zenon
    <2>2. IsBefore(b, i + 1, e)
      <3>1. e \in 0 .. i + 1 /\ (e = 0 \/ LineEnds(b, e))
        BY <2>1, SMT DEF IsBefore
      <3>2. ASSUME NEW j \in e + 1 .. i + 1 PROVE ~LineEnds(b, j)
        <4>1. j = i + 1 \/ j \in e + 1 .. i
          BY <3>1, SMT
        <4> QED BY <1>3, <2>1, <4>1, Zenon DEF IsBefore
      <3> QED BY <3>1, <3>2, Zenon DEF IsBefore
    <2> QED BY <1>1, <2>1, <2>2, BeforeIs, Zenon
  <1> QED BY <1>2, <1>3, Zenon

\* A piece of a string of bytes.
IsSlice(u, s, i, j) ==
  /\ u = SubSeq(s, i + 1, j) /\ Len(u) = j - i
  /\ \A k \in 1 .. j - i : u[k] = s[i + k]

LEMMA Slice ==
  ASSUME NEW s \in Seq(Byte), NEW i \in Nat, NEW j \in Nat, i <= j, j <= Len(s)
  PROVE  \E u \in Seq(Byte) : IsSlice(u, s, i, j)
  <1>1. SubSeq(s, i + 1, j) \in Seq(Byte)
    BY SMT
  <1>2. Len(SubSeq(s, i + 1, j)) = j - i
    BY SMT
  <1>3. \A k \in 1 .. j - i : SubSeq(s, i + 1, j)[k] = s[i + k]
    BY SMT
  <1> QED BY <1>1, <1>2, <1>3, Zenon DEF IsSlice

\* Lines, unfolded.
Ending(b, i) == SubSeq(b, Before(b, i - 1) + 1, i - 2)

Next1(b, i, s) == IF LineEnds(b, i) /\ Ending(b, i) # <<>> THEN Append(s, Ending(b, i)) ELSE s

LinesUpTo(b, n, g) ==
  g = [i \in 0 .. n |-> IF i = 0 THEN <<>> ELSE Next1(b, i, g[i - 1])]

LEMMA LinesUnfold ==
  ASSUME NEW b
  PROVE  Lines(b) = (CHOOSE g : LinesUpTo(b, Len(b), g))[Len(b)]
  BY Zenon DEF Lines, LinesUpTo, Next1, Ending

LEMMA LinesExist ==
  ASSUME NEW b
  PROVE  \A n \in Nat : \E g : LinesUpTo(b, n, g)
  <1> DEFINE S == {n \in Nat : \E g : LinesUpTo(b, n, g)}
  <1>1. 0 \in S
    <2>1. LinesUpTo(b, 0, [i \in 0 .. 0 |-> <<>>])
      BY SMT DEF LinesUpTo
    <2> QED BY <2>1, SMT
  <1>2. ASSUME NEW n \in Nat, n \in S PROVE n + 1 \in S
    <2>1. PICK g : LinesUpTo(b, n, g)
      BY <1>2, Zenon
    <2> DEFINE h == [i \in 0 .. n + 1 |-> IF i <= n THEN g[i] ELSE Next1(b, n + 1, g[n])]
    <2>2. \A i \in 0 .. n + 1 : h[i] = IF i = 0 THEN <<>> ELSE Next1(b, i, h[i - 1])
      <3> TAKE i \in 0 .. n + 1
      <3>1. CASE i = 0
        BY <2>1, <3>1, SMT DEF LinesUpTo
      <3>2. CASE i # 0 /\ i <= n
        <4>1. h[i] = g[i] /\ h[i - 1] = g[i - 1] /\ i \in 0 .. n
          BY <3>2, SMT
        <4>2. g[i] = Next1(b, i, g[i - 1])
          BY <2>1, <3>2, <4>1, SMT DEF LinesUpTo
        <4> QED BY <3>2, <4>1, <4>2, Zenon
      <3>3. CASE i = n + 1
        <4>1. h[i] = Next1(b, i, g[n]) /\ h[i - 1] = g[n] /\ i # 0
          BY <3>3, SMT
        <4> QED BY <4>1, Zenon
      <3> QED BY <3>1, <3>2, <3>3, SMT
    <2> HIDE DEF h
    <2>3. h = [i \in 0 .. n + 1 |-> h[i]]
      BY Zenon DEF h
    <2>4. LinesUpTo(b, n + 1, h)
      BY <2>2, <2>3, Zenon DEF LinesUpTo
    <2> QED BY <2>4, SMT
  <1> HIDE DEF S
  <1>3. Nat \subseteq S
    BY <1>1, <1>2, SetInduction, Zenon
  <1> QED BY <1>3, Zenon DEF S

LEMMA LinesIs ==
  ASSUME NEW b, Len(b) \in Nat
  PROVE  \E g : LinesUpTo(b, Len(b), g) /\ Lines(b) = g[Len(b)]
  BY LinesUnfold, LinesExist, Zenon

LEMMA EndingAlike ==
  ASSUME NEW b \in Seq(Byte), NEW v \in Seq(Byte), NEW m \in Nat, m <= Len(b), m <= Len(v),
         Alike(v, b, m), NEW i \in 1 .. m
  PROVE  Ending(v, i) = Ending(b, i)
  <1>1. i - 1 \in Nat /\ i - 1 <= m
    BY SMT
  <1>2. PICK e \in Nat : e = Before(b, i - 1) /\ e = Before(v, i - 1)
    <2> DEFINE k == i - 1
    <2>0. k \in Nat /\ k <= m
      BY <1>1, Zenon
    <2> HIDE DEF k
    <2>1. Before(v, k) = Before(b, k)
      BY <2>0, BeforeAlike, Zenon
    <2>3. IsBefore(b, k, Before(b, k))
      BY <2>0, BeforeIs, Zenon
    <2>2. Before(b, k) \in Nat
      BY <2>0, <2>3, SMT DEF IsBefore
    <2> QED BY <2>1, <2>2, Zenon DEF k
  <1>3. SubSeq(v, e + 1, i - 2) = SubSeq(b, e + 1, i - 2)
    BY SMT DEF Alike
  <1> QED BY <1>2, <1>3, Zenon DEF Ending

LEMMA LinesAlike ==
  ASSUME NEW b \in Seq(Byte), NEW v \in Seq(Byte), NEW m \in Nat, m = Len(b), m <= Len(v),
         Alike(v, b, m), NEW g, LinesUpTo(b, Len(b), g), NEW h, LinesUpTo(v, Len(v), h)
  PROVE  h[m] = g[m]
  <1> DEFINE S == {i \in Nat : i <= m => h[i] = g[i]}
  <1>1. 0 \in S
    BY SMT DEF LinesUpTo
  <1>2. ASSUME NEW i \in Nat, i \in S PROVE i + 1 \in S
    <2> SUFFICES ASSUME i + 1 <= m PROVE h[i + 1] = g[i + 1]
      BY SMT
    <2>1. g[i + 1] = Next1(b, i + 1, g[i]) /\ h[i + 1] = Next1(v, i + 1, h[i])
      <3>1. /\ i + 1 \in 0 .. Len(b) /\ i + 1 \in 0 .. Len(v)
            /\ i + 1 # 0 /\ (i + 1) - 1 = i
        BY SMT
      <3>2. g[i + 1] = Next1(b, i + 1, g[(i + 1) - 1])
        BY <3>1, Zenon DEF LinesUpTo
      <3>3. h[i + 1] = Next1(v, i + 1, h[(i + 1) - 1])
        BY <3>1, Zenon DEF LinesUpTo
      <3> QED BY <3>1, <3>2, <3>3, Zenon
    <2>2. h[i] = g[i]
      BY <1>2, SMT
    <2>3. PICK j \in 1 .. m : j = i + 1
      BY SMT
    <2>4. j \in Nat /\ j <= m /\ m <= Len(b)
      BY SMT
    <2>5. Ending(v, j) = Ending(b, j)
      BY <2>4, EndingAlike, Zenon
    <2>6. LineEnds(v, j) <=> LineEnds(b, j)
      BY <2>4, EndsAlike, Zenon
    <2>7. Next1(v, j, g[i]) = Next1(b, j, g[i])
      BY <2>5, <2>6, Zenon DEF Next1
    <2> QED BY <2>1, <2>2, <2>3, <2>7, Zenon
  <1> HIDE DEF S
  <1>3. Nat \subseteq S
    BY <1>1, <1>2, SetInduction, Zenon
  <1>4. m <= m
    BY SMT
  <1> QED BY <1>3, <1>4, Zenon DEF S

-----------------------------------------------------------------------------
\* What comes after the last line that is whole.
Left(b) == SubSeq(b, Before(b, Len(b)) + 1, Len(b))
Body(r) == SubSeq(r, 1, Len(r) - 2)

LEMMA CutEmpty == Lines(<<>>) = <<>> /\ Left(<<>>) = <<>>
  <1>1. PICK b : b = <<>>
    BY Zenon
  <1>2. Len(b) = 0
    BY <1>1, SMT
  <1>3. PICK g : LinesUpTo(b, Len(b), g) /\ Lines(b) = g[Len(b)]
    <2>1. Len(b) \in Nat
      BY <1>2, SMT
    <2> QED BY <2>1, LinesIs, Zenon
  <1>4. g[0] = <<>>
    BY <1>2, <1>3, SMT DEF LinesUpTo
  <1>5. Left(b) = <<>>
    <2>1. Before(b, 0) = 0
      <3>1. IsBefore(b, 0, Before(b, 0))
        <4>1. 0 \in Nat
          BY SMT
        <4> QED BY <4>1, BeforeIs, Zenon
      <3> QED BY <3>1, SMT DEF IsBefore
    <2>2. SubSeq(<<>>, 0 + 1, 0) = <<>>
      BY SMT
    <2> QED BY <1>1, <1>2, <2>1, <2>2, Zenon DEF Left
  <1> QED BY <1>1, <1>2, <1>3, <1>4, <1>5, Zenon

LEMMA BeforeTyped ==
  ASSUME NEW b, NEW i \in Nat
  PROVE  Before(b, i) \in 0 .. i
  BY BeforeIs, Zenon DEF IsBefore

LEMMA LeftTyped ==
  ASSUME NEW b \in Seq(Byte)
  PROVE  Left(b) \in Seq(Byte)
  <1>1. PICK e \in 0 .. Len(b) : e = Before(b, Len(b))
    <2>1. Len(b) \in Nat
      BY SMT
    <2> QED BY <2>1, BeforeTyped, Zenon
  <1>2. SubSeq(b, e + 1, Len(b)) \in Seq(Byte)
    BY SMT
  <1> QED BY <1>1, <1>2, Zenon DEF Left

\* One more byte: it ends a line, or waits with the rest for the end of one.
LEMMA CutMore ==
  ASSUME NEW b \in Seq(Byte), NEW x \in Byte
  PROVE  LET r == Append(Left(b), x) IN
         /\ Finished(r) =>
              /\ Left(Append(b, x)) = <<>>
              /\ Lines(Append(b, x)) =
                   IF Body(r) # <<>> THEN Append(Lines(b), Body(r)) ELSE Lines(b)
         /\ ~Finished(r) =>
              Left(Append(b, x)) = r /\ Lines(Append(b, x)) = Lines(b)
  <1>1. PICK m \in Nat : m = Len(b)
    BY SMT
  <1>2. PICK v \in Seq(Byte) : v = Append(b, x)
    BY AppendProperties, Zenon
  <1>3. Len(v) = m + 1 /\ v[m + 1] = x /\ Alike(v, b, m) /\ m <= Len(v) /\ m <= Len(b) /\ m <= m
    BY <1>1, <1>2, SMT DEF Alike
  <1>4. PICK e : e = Before(b, m) /\ e = Before(v, m) /\ IsBefore(b, m, e)
    <2>1. Before(v, m) = Before(b, m)
      BY <1>3, BeforeAlike, Zenon
    <2>2. IsBefore(b, m, Before(b, m))
      BY BeforeIs, Zenon
    <2> QED BY <2>1, <2>2, Zenon
  <1>5. e \in Nat /\ e <= m
    BY <1>4, SMT DEF IsBefore
  <1>6. PICK l \in Seq(Byte) : l = Left(b)
    BY LeftTyped, Zenon
  <1>7. l = SubSeq(b, e + 1, m)
    BY <1>1, <1>4, <1>6, Zenon DEF Left
  <1>8. PICK r \in Seq(Byte) : r = Append(l, x)
    BY AppendProperties, Zenon
  <1>9. Len(r) = m + 1 - e /\ \A j \in 1 .. m + 1 - e : r[j] = v[e + j]
    <2>1. PICK w \in Seq(Byte) : IsSlice(w, b, e, m)
      BY <1>3, <1>5, Slice, Zenon
    <2>2. w = l
      BY <1>7, <2>1, Zenon DEF IsSlice
    <2>3. /\ Len(r) = m + 1 - e /\ r[m + 1 - e] = x
          /\ \A j \in 1 .. m - e : r[j] = w[j]
      <3>1. r = Append(w, x) /\ Len(w) = m - e
        BY <1>8, <2>1, <2>2, Zenon DEF IsSlice
      <3>2. Len(r) = Len(w) + 1 /\ r[Len(w) + 1] = x /\ \A j \in 1 .. Len(w) : r[j] = w[j]
        BY <3>1, AppendProperties, SMT
      <3>3. Len(w) + 1 = m + 1 - e
        BY <1>5, <3>1, SMT
      <3> QED BY <3>1, <3>2, <3>3, Zenon
    <2>4. ASSUME NEW j \in 1 .. m + 1 - e PROVE r[j] = v[e + j]
      <3>1. CASE j = m + 1 - e
        <4>1. e + j = m + 1
          BY <1>5, <3>1, SMT
        <4> QED BY <1>3, <2>3, <3>1, <4>1, Zenon
      <3>2. CASE j # m + 1 - e
        <4>1. j \in 1 .. m - e /\ e + j \in 1 .. m
          BY <1>5, <3>2, SMT
        <4> QED BY <1>3, <2>1, <2>3, <4>1, Zenon DEF Alike, IsSlice
      <3> QED BY <3>1, <3>2, Zenon
    <2> QED BY <2>3, <2>4, Zenon
  <1>10. r = SubSeq(v, e + 1, m + 1)
    <2>0. m + 1 \in Nat /\ e <= m + 1 /\ m + 1 <= Len(v)
      BY <1>3, <1>5, SMT
    <2>1. PICK u \in Seq(Byte) : IsSlice(u, v, e, m + 1)
      BY <1>5, <2>0, Slice, Zenon
    <2>2. Len(u) = m + 1 - e /\ \A j \in 1 .. m + 1 - e : u[j] = v[e + j]
      <3>1. (m + 1) - e = m + 1 - e
        BY <1>5, SMT
      <3> QED BY <2>1, <3>1, Zenon DEF IsSlice
    <2>3. r = u
      BY <1>9, <2>2, SeqEqual, SMT
    <2> QED BY <2>1, <2>3, Zenon DEF IsSlice
  <1>11. Finished(r) <=> LineEnds(v, m + 1)
    <2>1. ASSUME Finished(r) PROVE LineEnds(v, m + 1)
      <3>1. Len(r) >= 2 /\ r[Len(r) - 1] = CR /\ r[Len(r)] = LF
        BY <2>1, Zenon DEF Finished
      <3>2. Len(r) - 1 \in 1 .. m + 1 - e /\ Len(r) \in 1 .. m + 1 - e
            /\ e + (Len(r) - 1) = (m + 1) - 1 /\ e + Len(r) = m + 1 /\ m + 1 > 1
        BY <1>5, <1>9, <3>1, SMT
      <3> QED BY <1>9, <3>1, <3>2, Zenon DEF LineEnds
    <2>2. ASSUME LineEnds(v, m + 1) PROVE Finished(r)
      <3>1. m + 1 > 1 /\ v[m] = CR /\ v[m + 1] = LF
        <4>1. (m + 1) - 1 = m
          BY SMT
        <4> QED BY <2>2, <4>1, Zenon DEF LineEnds
      <3>2. e # m
        <4>1. m # 0 /\ m \in 1 .. m
          BY <3>1, SMT
        <4>2. b[m] = CR
          BY <1>3, <3>1, <4>1, Zenon DEF Alike
        <4>3. CR # LF
          BY SMT DEF CR, LF
        <4> QED BY <1>4, <4>1, <4>2, <4>3, Zenon DEF IsBefore, LineEnds
      <3>3. Len(r) >= 2 /\ Len(r) - 1 \in 1 .. m + 1 - e /\ Len(r) \in 1 .. m + 1 - e
            /\ e + (Len(r) - 1) = m /\ e + Len(r) = m + 1
        BY <1>5, <1>9, <3>2, SMT
      <3> QED BY <1>9, <3>1, <3>3, Zenon DEF Finished
    <2> QED BY <2>1, <2>2, Zenon
  <1>12. PICK g, h : /\ LinesUpTo(b, Len(b), g) /\ Lines(b) = g[m]
                     /\ LinesUpTo(v, Len(v), h) /\ Lines(v) = h[m + 1]
    <2>1. Len(b) \in Nat /\ Len(v) \in Nat
      BY SMT
    <2> QED BY <1>1, <1>3, <2>1, LinesIs, Zenon
  <1>13. h[m] = g[m]
    <2>1. m = Len(b) /\ m <= Len(v) /\ Alike(v, b, m)
      BY <1>1, <1>3, Zenon
    <2>2. LinesUpTo(b, Len(b), g) /\ LinesUpTo(v, Len(v), h)
      BY <1>12, Zenon
    <2> QED BY <2>1, <2>2, LinesAlike, SMT
  <1>14. Lines(v) = Next1(v, m + 1, Lines(b))
    <2>1. m + 1 \in 0 .. Len(v) /\ m + 1 # 0 /\ (m + 1) - 1 = m
      BY <1>3, SMT
    <2>2. h[m + 1] = Next1(v, m + 1, h[(m + 1) - 1])
      BY <1>12, <2>1, Zenon DEF LinesUpTo
    <2> QED BY <1>12, <1>13, <2>1, <2>2, Zenon
  <1>15. ASSUME Finished(r) PROVE Ending(v, m + 1) = Body(r)
    <2>1. (m + 1) - 1 = m /\ (m + 1) - 2 = m - 1
      BY SMT
    <2>2. Ending(v, m + 1) = SubSeq(v, e + 1, m - 1)
      BY <1>4, <2>1, Zenon DEF Ending
    <2>3. PICK k \in Nat : k = m - 1 /\ e <= k /\ k <= Len(v) /\ k - e = Len(r) - 2
      <3>1. Len(r) >= 2
        BY <1>15, Zenon DEF Finished
      <3> QED BY <1>3, <1>5, <1>9, <3>1, SMT
    <2>4. PICK q \in Seq(Byte) : IsSlice(q, v, e, k)
      BY <1>5, <2>3, Slice, Zenon
    <2>5. 0 \in Nat /\ k - e \in Nat /\ 0 <= k - e /\ k - e <= Len(r)
      BY <1>5, <1>9, <2>3, SMT
    <2>6. PICK p \in Seq(Byte) : IsSlice(p, r, 0, k - e)
      BY <2>5, Slice, Zenon
    <2>7. ASSUME NEW j \in 1 .. k - e PROVE p[j] = q[j]
      <3>1. j \in 1 .. (k - e) - 0 /\ 0 + j = j /\ j \in 1 .. m + 1 - e
        BY <1>5, <2>3, <2>5, SMT
      <3> QED BY <1>9, <2>4, <2>6, <3>1, Zenon DEF IsSlice
    <2>8. Len(p) = Len(q) /\ Len(p) = k - e
      BY <2>4, <2>5, <2>6, SMT DEF IsSlice
    <2>9. p = q
      <3>1. \A j \in 1 .. Len(p) : p[j] = q[j]
        BY <2>7, <2>8, Zenon
      <3> QED BY <2>8, <3>1, SeqEqual, Zenon
    <2>10. p = SubSeq(r, 1, Len(r) - 2) /\ q = SubSeq(v, e + 1, m - 1)
      <3>1. 0 + 1 = 1
        BY SMT
      <3> QED BY <2>3, <2>4, <2>6, <3>1, Zenon DEF IsSlice
    <2> QED BY <2>2, <2>9, <2>10, Zenon DEF Body
  <1>16. ASSUME Finished(r)
         PROVE  /\ Left(v) = <<>>
                /\ Lines(v) = IF Body(r) # <<>> THEN Append(Lines(b), Body(r)) ELSE Lines(b)
    <2>1. Before(v, m + 1) = m + 1
      BY <1>11, <1>16, BeforeNext, Zenon
    <2>2. Left(v) = SubSeq(v, (m + 1) + 1, m + 1)
      BY <1>3, <2>1, Zenon DEF Left
    <2>3. Left(v) = <<>>
      BY <2>2, SMT
    <2> QED BY <1>11, <1>14, <1>15, <1>16, <2>3, Zenon DEF Next1
  <1>17. ASSUME ~Finished(r) PROVE Left(v) = r /\ Lines(v) = Lines(b)
    <2>1. Before(v, m + 1) = e
      BY <1>4, <1>11, <1>17, BeforeNext, Zenon
    <2>2. Left(v) = r
      BY <1>3, <1>10, <2>1, Zenon DEF Left
    <2> QED BY <1>11, <1>14, <1>17, <2>2, Zenon DEF Next1
  <1> QED BY <1>2, <1>6, <1>8, <1>16, <1>17, Zenon

Shifts(b, s, x) == b \o Append(s, x) = Append(b \o s, x)

LEMMA AppendShifts ==
  ASSUME NEW S, NEW b \in Seq(S), NEW s \in Seq(S), NEW x \in S
  PROVE  Shifts(b, s, x)
  <1>1. b \o Append(s, x) = Append(b \o s, x)
    BY SMT
  <1> QED BY <1>1, Zenon DEF Shifts

Assoc(a, b, c) == (a \o b) \o c = a \o (b \o c)

LEMMA Concat ==
  ASSUME NEW S, NEW a \in Seq(S), NEW b \in Seq(S), NEW c \in Seq(S)
  PROVE  Assoc(a, b, c)
  BY SMT DEF Assoc

LEMMA Halves ==
  ASSUME NEW s \in Seq(Byte), NEW n \in Nat, n <= Len(s)
  PROVE  /\ SubSeq(s, 1, n) \o SubSeq(s, n + 1, Len(s)) = s
         /\ SubSeq(s, 1, n) \in Seq(Byte) /\ SubSeq(s, n + 1, Len(s)) \in Seq(Byte)
         /\ Len(SubSeq(s, 1, n)) = n
  <1>1. PICK m \in Nat : m = Len(s)
    BY LenProperties, Zenon
  <1>2. 0 \in Nat /\ 0 <= n /\ n <= m /\ m <= Len(s) /\ n <= Len(s)
    BY <1>1, SMT
  <1>3. PICK u \in Seq(Byte) : IsSlice(u, s, 0, n)
    BY <1>2, Slice, Zenon
  <1>4. PICK v \in Seq(Byte) : IsSlice(v, s, n, m)
    BY <1>1, <1>2, Slice, Zenon
  <1>8. u = SubSeq(s, 1, n) /\ Len(u) = n /\ \A i \in 1 .. n : u[i] = s[i]
    BY <1>3, SMT DEF IsSlice
  <1>5. PICK w \in Seq(Byte) : w = u \o v
    BY ConcatProperties, Zenon
  <1>9. v = SubSeq(s, n + 1, m) /\ Len(v) = m - n /\ \A k \in 1 .. m - n : v[k] = s[n + k]
    BY <1>4, Zenon DEF IsSlice
  <1>6. Len(w) = Len(s) /\ \A i \in 1 .. Len(w) : w[i] = s[i]
    <2>1. /\ Len(w) = m
          /\ \A i \in 1 .. m : w[i] = IF i <= n THEN u[i] ELSE v[i - n]
      <3>1. /\ Len(w) = Len(u) + Len(v)
            /\ \A i \in 1 .. Len(u) + Len(v) : w[i] = IF i <= Len(u) THEN u[i] ELSE v[i - Len(u)]
        BY <1>5, ConcatProperties, Zenon
      <3>2. Len(u) + Len(v) = m /\ Len(u) = n
        <4>1. Len(u) = n /\ Len(v) = m - n
          BY <1>8, <1>9, Zenon
        <4>2. n + (m - n) = m
          BY <1>1, SMT
        <4> QED BY <4>1, <4>2, Zenon
      <3> QED BY <3>1, <3>2, Zenon
    <2>2. ASSUME NEW i \in 1 .. m PROVE w[i] = s[i]
      <3>1. CASE i <= n
        <4>1. i \in 1 .. n
          BY <3>1, SMT
        <4> QED BY <1>8, <2>1, <3>1, <4>1, Zenon
      <3>2. CASE ~(i <= n)
        <4>1. i - n \in 1 .. m - n /\ n + (i - n) = i
          BY <1>1, <3>2, SMT
        <4> QED BY <1>9, <2>1, <3>2, <4>1, Zenon
      <3> QED BY <3>1, <3>2, Zenon
    <2> QED BY <1>1, <2>1, <2>2, Zenon
  <1>7. w = s
    BY <1>6, SeqEqual, Zenon
  <1> QED BY <1>1, <1>5, <1>7, <1>8, <1>9, Zenon

LEMMA PrefixGrows ==
  ASSUME NEW s \in Seq(Byte), NEW n \in Nat, n + 1 <= Len(s)
  PROVE  SubSeq(s, 1, n + 1) = Append(SubSeq(s, 1, n), s[n + 1]) /\ s[n + 1] \in Byte
  BY SMT

\* r is the line under assembly when x has been read after b.
Reads(b, x, r) == r = Append(Left(b), x)

\* CutMore, apart: x ends a line, ends an empty one, or ends none.
LEMMA CutGains ==
  ASSUME NEW b \in Seq(Byte), NEW x \in Byte, NEW r,
         Reads(b, x, r), Finished(r), Body(r) # <<>>
  PROVE  Lines(Append(b, x)) = Append(Lines(b), Body(r)) /\ Left(Append(b, x)) = <<>>
  <1>1. r = Append(Left(b), x)
    BY Zenon DEF Reads
  <1>2. Finished(Append(Left(b), x)) /\ Body(Append(Left(b), x)) # <<>>
    BY <1>1, Zenon
  <1>3. /\ Lines(Append(b, x)) = Append(Lines(b), Body(Append(Left(b), x)))
        /\ Left(Append(b, x)) = <<>>
    BY <1>2, CutMore, ZenonT(40)
  <1> QED BY <1>1, <1>3, Zenon

LEMMA CutSkips ==
  ASSUME NEW b \in Seq(Byte), NEW x \in Byte, NEW r,
         Reads(b, x, r), Finished(r), Body(r) = <<>>
  PROVE  Lines(Append(b, x)) = Lines(b) /\ Left(Append(b, x)) = <<>>
  <1>1. r = Append(Left(b), x)
    BY Zenon DEF Reads
  <1>2. Finished(Append(Left(b), x)) /\ Body(Append(Left(b), x)) = <<>>
    BY <1>1, Zenon
  <1> QED BY <1>2, CutMore, ZenonT(40)

LEMMA CutWaits ==
  ASSUME NEW b \in Seq(Byte), NEW x \in Byte, NEW r, Reads(b, x, r), ~Finished(r)
  PROVE  Lines(Append(b, x)) = Lines(b) /\ Left(Append(b, x)) = r
  <1>1. r = Append(Left(b), x)
    BY Zenon DEF Reads
  <1>2. ~Finished(Append(Left(b), x))
    BY <1>1, Zenon
  <1>3. Left(Append(b, x)) = Append(Left(b), x) /\ Lines(Append(b, x)) = Lines(b)
    BY <1>2, CutMore, ZenonT(40)
  <1> QED BY <1>1, <1>3, Zenon

LEMMA BodyTyped ==
  ASSUME NEW r \in Seq(Byte), Finished(r)
  PROVE  Body(r) \in Seq(Byte) /\ Len(Body(r)) = Len(r) - 2 /\ Len(r) >= 2
  <1>1. Len(r) \in Nat /\ Len(r) >= 2
    BY LenProperties, Zenon DEF Finished
  <1>2. PICK n \in Nat : n = Len(r) - 2 /\ n <= Len(r)
    <2>1. \A k \in Nat : k >= 2 => k - 2 \in Nat /\ k - 2 <= k
      BY SMT
    <2> QED BY <1>1, <2>1, Zenon
  <1>3. SubSeq(r, 1, n) \in Seq(Byte) /\ Len(SubSeq(r, 1, n)) = n
    BY <1>2, Halves, Zenon
  <1> QED BY <1>1, <1>2, <1>3, Zenon DEF Body

LEMMA LinesOfBytes == \A b \in Seq(Byte) : Lines(b) \in Seq(Seq(Byte))
  <1> DEFINE P == {b \in Seq(Byte) : Lines(b) \in Seq(Seq(Byte))}
  <1>1. <<>> \in P
    BY CutEmpty, EmptySeq, Zenon
  <1>2. ASSUME NEW b \in Seq(Byte), NEW x \in Byte, b \in P PROVE Append(b, x) \in P
    <2>1. Append(b, x) \in Seq(Byte) /\ Left(b) \in Seq(Byte) /\ Lines(b) \in Seq(Seq(Byte))
      BY <1>2, AppendProperties, LeftTyped, Zenon
    <2>2. PICK r \in Seq(Byte) : Reads(b, x, r)
      BY <2>1, AppendProperties, Zenon DEF Reads
    <2>3. Finished(r) => Append(Lines(b), Body(r)) \in Seq(Seq(Byte))
      BY <2>1, BodyTyped, AppendProperties, Zenon
    <2>4. Lines(Append(b, x)) \in Seq(Seq(Byte))
      <3>1. CASE ~Finished(r)
        BY <2>1, <2>2, <3>1, CutWaits, Zenon
      <3>2. CASE Finished(r) /\ Body(r) = <<>>
        BY <2>1, <2>2, <3>2, CutSkips, Zenon
      <3>3. CASE Finished(r) /\ Body(r) # <<>>
        <4>1. Lines(Append(b, x)) = Append(Lines(b), Body(r))
          BY <2>2, <3>3, CutGains, Zenon
        <4> QED BY <2>3, <3>3, <4>1, Zenon
      <3> QED BY <3>1, <3>2, <3>3, Zenon
    <2> QED BY <2>1, <2>4, Zenon
  <1> HIDE DEF P
  <1>3. Seq(Byte) \subseteq P
    BY <1>1, <1>2, BytesInduction, Zenon
  <1> QED BY <1>3, Zenon DEF P

Joins(b, s) == Lines(b \o s) = Lines(b) \o Lines(s) /\ Left(b \o s) = Left(s)

\* Where no line is unfinished, the lines before and after are apart.
LEMMA CutJoins ==
  ASSUME NEW b \in Seq(Byte), Left(b) = <<>>
  PROVE  \A s \in Seq(Byte) : Joins(b, s)
  <1> DEFINE P == {s \in Seq(Byte) : Joins(b, s)}
  <1>0. Lines(b) \in Seq(Seq(Byte))
    BY LinesOfBytes, Zenon
  <1>1. <<>> \in P
    <2>1. b \o <<>> = b /\ Lines(b) \o <<>> = Lines(b) /\ <<>> \in Seq(Byte)
      BY <1>0, ConcatEmptySeq, EmptySeq, Zenon
    <2> QED BY <2>1, CutEmpty, Zenon DEF Joins
  <1>2. ASSUME NEW s \in Seq(Byte), NEW x \in Byte, s \in P PROVE Append(s, x) \in P
    <2>1. PICK c \in Seq(Byte) : c = b \o s
      BY ConcatProperties, Zenon
    <2>2. Lines(c) = Lines(b) \o Lines(s) /\ Left(c) = Left(s)
      BY <1>2, <2>1, Zenon DEF Joins
    <2>3. b \o Append(s, x) = Append(c, x) /\ Append(s, x) \in Seq(Byte)
      <3>1. b \o Append(s, x) = Append(b \o s, x)
        <4>1. Shifts(b, s, x)
          BY AppendShifts, Zenon
        <4> QED BY <4>1, Zenon DEF Shifts
      <3> QED BY <2>1, <3>1, AppendProperties, Zenon
    <2>4. PICK r \in Seq(Byte) : Reads(s, x, r) /\ Reads(c, x, r)
      <3>1. Append(Left(s), x) \in Seq(Byte) /\ Append(Left(c), x) = Append(Left(s), x)
        BY <2>2, LeftTyped, AppendProperties, Zenon
      <3> QED BY <3>1, Zenon DEF Reads
    <2>5. Lines(s) \in Seq(Seq(Byte))
      BY LinesOfBytes, Zenon
    <2>6. Joins(b, Append(s, x))
      <3>1. CASE ~Finished(r)
        <4>1. Lines(Append(c, x)) = Lines(c) /\ Left(Append(c, x)) = r
          BY <2>4, <3>1, CutWaits, Zenon
        <4>2. Lines(Append(s, x)) = Lines(s) /\ Left(Append(s, x)) = r
          BY <2>4, <3>1, CutWaits, Zenon
        <4> QED BY <2>2, <2>3, <4>1, <4>2, Zenon DEF Joins
      <3>2. CASE Finished(r) /\ Body(r) = <<>>
        <4>1. Lines(Append(c, x)) = Lines(c) /\ Left(Append(c, x)) = <<>>
          BY <2>4, <3>2, CutSkips, Zenon
        <4>2. Lines(Append(s, x)) = Lines(s) /\ Left(Append(s, x)) = <<>>
          BY <2>4, <3>2, CutSkips, Zenon
        <4> QED BY <2>2, <2>3, <4>1, <4>2, Zenon DEF Joins
      <3>3. CASE Finished(r) /\ Body(r) # <<>>
        <4>1. Lines(Append(c, x)) = Append(Lines(c), Body(r)) /\ Left(Append(c, x)) = <<>>
          BY <2>4, <3>3, CutGains, Zenon
        <4>2. Lines(Append(s, x)) = Append(Lines(s), Body(r)) /\ Left(Append(s, x)) = <<>>
          BY <2>4, <3>3, CutGains, Zenon
        <4>3. Body(r) \in Seq(Byte)
          BY <3>3, BodyTyped, Zenon
        <4>4. Lines(b) \o Append(Lines(s), Body(r)) = Append(Lines(b) \o Lines(s), Body(r))
          <5>1. Shifts(Lines(b), Lines(s), Body(r))
            BY <1>0, <2>5, <4>3, AppendShifts, Zenon
          <5> QED BY <5>1, Zenon DEF Shifts
        <4> QED BY <2>2, <2>3, <4>1, <4>2, <4>4, Zenon DEF Joins
      <3> QED BY <3>1, <3>2, <3>3, Zenon
    <2> QED BY <2>3, <2>6, Zenon
  <1> HIDE DEF P
  <1>3. Seq(Byte) \subseteq P
    BY <1>1, <1>2, BytesInduction, Zenon
  <1> QED BY <1>3, Zenon DEF P

\* No line ends in m: it waits as it is.
Waits(m) == Lines(m) = <<>> /\ Left(m) = m

LEMMA WaitsMore ==
  ASSUME NEW m \in Seq(Byte), Waits(m), NEW x \in Byte, ~Finished(Append(m, x))
  PROVE  Waits(Append(m, x))
  <1>1. Left(m) = m /\ Lines(m) = <<>>
    BY Zenon DEF Waits
  <1>2. PICK r : r = Append(m, x)
    OBVIOUS
  <1>3. Reads(m, x, r) /\ ~Finished(r)
    BY <1>1, <1>2, Zenon DEF Reads
  <1>4. Lines(Append(m, x)) = Lines(m) /\ Left(Append(m, x)) = r
    BY <1>3, CutWaits, Zenon
  <1> QED BY <1>1, <1>2, <1>4, Zenon DEF Waits

LEMMA WaitsEnds ==
  ASSUME NEW m \in Seq(Byte), Waits(m), NEW x \in Byte, Finished(Append(m, x))
  PROVE  /\ Left(Append(m, x)) = <<>>
         /\ Body(Append(m, x)) # <<>> => Lines(Append(m, x)) = <<Body(Append(m, x))>>
         /\ Body(Append(m, x)) = <<>> => Lines(Append(m, x)) = <<>>
  <1>1. Left(m) = m /\ Lines(m) = <<>>
    BY Zenon DEF Waits
  <1>2. PICK r : r = Append(m, x)
    OBVIOUS
  <1>3. Reads(m, x, r) /\ Finished(r)
    BY <1>1, <1>2, Zenon DEF Reads
  <1>4. CASE Body(r) = <<>>
    <2>1. Lines(Append(m, x)) = Lines(m) /\ Left(Append(m, x)) = <<>>
      BY <1>3, <1>4, CutSkips, Zenon
    <2> QED BY <1>1, <1>2, <1>4, <2>1, Zenon
  <1>5. CASE Body(r) # <<>>
    <2>1. Lines(Append(m, x)) = Append(Lines(m), Body(r)) /\ Left(Append(m, x)) = <<>>
      BY <1>3, <1>5, CutGains, Zenon
    <2>2. Append(<<>>, Body(r)) = <<Body(r)>>
      BY SMT
    <2>3. Lines(Append(m, x)) = <<Body(r)>>
      BY <1>1, <2>1, <2>2, Zenon
    <2> QED BY <1>2, <1>5, <2>1, <2>3, Zenon
  <1> QED BY <1>4, <1>5, Zenon

\* Byte by byte, as long as no line has come to its end.
Quiet(c, s, k) == \A i \in 1 .. k : ~Finished(c \o SubSeq(s, 1, i))

LEMMA QuietWaits ==
  ASSUME NEW c \in Seq(Byte), Waits(c), NEW s \in Seq(Byte)
  PROVE  \A k \in Nat : k <= Len(s) /\ Quiet(c, s, k) => Waits(c \o SubSeq(s, 1, k))
  <1> DEFINE S == {k \in Nat : k <= Len(s) /\ Quiet(c, s, k) => Waits(c \o SubSeq(s, 1, k))}
  <1>1. 0 \in S
    <2>1. SubSeq(s, 1, 0) = <<>>
      BY SMT
    <2>2. c \o <<>> = c
      BY ConcatEmptySeq, Zenon
    <2>3. c \o SubSeq(s, 1, 0) = c
      BY <2>1, <2>2, Zenon
    <2>4. 0 \in Nat
      BY SMT
    <2> QED BY <2>3, <2>4, Zenon
  <1>2. ASSUME NEW k \in Nat, k \in S PROVE k + 1 \in S
    <2> SUFFICES ASSUME k + 1 <= Len(s), Quiet(c, s, k + 1)
                 PROVE  Waits(c \o SubSeq(s, 1, k + 1))
      BY SMT
    <2>1. k <= Len(s) /\ (k + 1) \in 1 .. k + 1 /\ (1 .. k \subseteq 1 .. k + 1)
      BY LenProperties, SMT
    <2>2. Quiet(c, s, k) /\ ~Finished(c \o SubSeq(s, 1, k + 1))
      BY <2>1, Zenon DEF Quiet
    <2>3. Waits(c \o SubSeq(s, 1, k))
      BY <1>2, <2>1, <2>2, Zenon
    <2>4. PICK u \in Seq(Byte) : u = SubSeq(s, 1, k)
      BY <2>1, Halves, Zenon
    <2>5. PICK x \in Byte : x = s[k + 1] /\ SubSeq(s, 1, k + 1) = Append(u, x)
      BY <2>4, PrefixGrows, Zenon
    <2>6. PICK m \in Seq(Byte) : m = c \o u
      BY ConcatProperties, Zenon
    <2>7. c \o Append(u, x) = Append(m, x)
      <3>1. Shifts(c, u, x)
        BY <2>6, AppendShifts, Zenon
      <3> QED BY <2>6, <3>1, Zenon DEF Shifts
    <2>8. c \o SubSeq(s, 1, k + 1) = Append(m, x)
      BY <2>5, <2>7, Zenon
    <2>9. Waits(m) /\ ~Finished(Append(m, x))
      BY <2>2, <2>3, <2>4, <2>6, <2>8, Zenon
    <2>10. Waits(Append(m, x))
      BY <2>9, WaitsMore, Zenon
    <2> QED BY <2>8, <2>10, Zenon
  <1> HIDE DEF S
  <1>3. Nat \subseteq S
    BY <1>1, <1>2, SetInduction, Zenon
  <1> QED BY <1>3, Zenon DEF S

\* What the writer writes.
LEMMA NothingWaits == Waits(<<>>)
  BY CutEmpty, Zenon DEF Waits

LEMMA LineWaits ==
  ASSUME NEW l \in Line
  PROVE  \A k \in Nat : k <= Len(l) => Waits(SubSeq(l, 1, k))
  <1>1. l \in Seq(Byte) /\ Len(l) \in Nat
    BY LinesTyped, LenProperties, Zenon
  <1>2. TAKE k \in Nat
  <1>3. HAVE k <= Len(l)
  <1>4. \A i \in 1 .. k : i \in 1 .. Len(l) /\ i \in Nat /\ i <= Len(l)
    BY <1>1, <1>3, SMT
  <1>5. \A i \in Nat : i <= Len(l) => <<>> \o SubSeq(l, 1, i) = SubSeq(l, 1, i)
    BY <1>1, Halves, ConcatEmptySeq, Zenon
  <1>6. Quiet(<<>>, l, k)
    BY <1>4, <1>5, LinesAreLines, Zenon DEF Quiet
  <1>7. Waits(<<>> \o SubSeq(l, 1, k))
    BY <1>1, <1>3, <1>6, EmptySeq, NothingWaits, QuietWaits, Zenon
  <1> QED BY <1>3, <1>5, <1>7, Zenon

LEMMA WireLine ==
  ASSUME NEW l \in Line
  PROVE  /\ l \o EndOfLine \in Seq(Byte)
         /\ l # <<>> => Lines(l \o EndOfLine) = <<l>>
         /\ l = <<>> => Lines(l \o EndOfLine) = <<>>
         /\ Left(l \o EndOfLine) = <<>>
         /\ \A n \in 0 .. Len(l) + 1 : Waits(SubSeq(l \o EndOfLine, 1, n))
  <1>1. PICK m \in Nat : m = Len(l)
    BY LinesTyped, LenProperties, Zenon
  <1>2. l \in Seq(Byte) /\ CR \in Byte /\ LF \in Byte /\ CR # LF
    BY LinesTyped, SMT DEF Byte, CR, LF
  <1>3. PICK c \in Seq(Byte) : c = Append(l, CR)
    BY <1>2, AppendProperties, Zenon
  <1>4. PICK w \in Seq(Byte) : w = Append(c, LF)
    BY <1>2, AppendProperties, Zenon
  <1>5. l \o EndOfLine = w
    BY <1>2, <1>3, <1>4, SMT DEF EndOfLine
  <1>6. Len(c) = m + 1 /\ Len(w) = m + 2
    BY <1>1, <1>2, <1>3, <1>4, AppendProperties, SMT
  <1>7. c[m + 1] = CR /\ w[m + 1] = CR /\ w[m + 2] = LF
    BY <1>1, <1>2, <1>3, <1>4, SMT
  <1>8. SubSeq(w, 1, m + 1) = c /\ \A n \in 0 .. m : SubSeq(w, 1, n) = SubSeq(l, 1, n)
    BY <1>1, <1>2, <1>3, <1>4, SMT
  <1>9. SubSeq(l, 1, m) = l
    BY <1>1, <1>2, SMT
  <1>10. Waits(l)
    <2>1. m <= Len(l)
      BY <1>1, SMT
    <2> QED BY <1>9, <2>1, LineWaits, Zenon
  <1>11. Waits(c)
    <2>1. ~Finished(c)
      BY <1>2, <1>6, <1>7, Zenon DEF Finished
    <2> QED BY <1>2, <1>3, <1>10, <2>1, WaitsMore, Zenon
  <1>12. Finished(w) /\ Body(w) = l
    <2>1. m + 2 >= 2 /\ (m + 2) - 1 = m + 1 /\ (m + 2) - 2 = m /\ m \in 0 .. m
      BY SMT
    <2>2. Finished(w)
      BY <1>6, <1>7, <2>1, Zenon DEF Finished
    <2> QED BY <1>6, <1>8, <1>9, <2>1, <2>2, Zenon DEF Body
  <1>13. Left(w) = <<>> /\ (l # <<>> => Lines(w) = <<l>>) /\ (l = <<>> => Lines(w) = <<>>)
    BY <1>2, <1>4, <1>11, <1>12, WaitsEnds, Zenon
  <1>14. ASSUME NEW n \in 0 .. Len(l) + 1 PROVE Waits(SubSeq(w, 1, n))
    <2>1. n = m + 1 \/ (n \in 0 .. m /\ n \in Nat /\ n <= Len(l))
      BY <1>1, SMT
    <2> QED BY <1>8, <1>11, <2>1, LineWaits, Zenon
  <1> QED BY <1>5, <1>13, <1>14, Zenon

Longer(a, s) == \E t \in Seq(Seq(Byte)) : Lines(a \o s) = Lines(a) \o t

\* More bytes only add lines.
LEMMA MoreLines ==
  ASSUME NEW a \in Seq(Byte)
  PROVE  \A s \in Seq(Byte) : Longer(a, s)
  <1> DEFINE P == {s \in Seq(Byte) : Longer(a, s)}
  <1>0. Lines(a) \in Seq(Seq(Byte))
    BY LinesOfBytes, Zenon
  <1>1. <<>> \in P
    <2>1. a \o <<>> = a /\ Lines(a) \o <<>> = Lines(a) /\ <<>> \in Seq(Byte) /\ <<>> \in Seq(Seq(Byte))
      BY <1>0, ConcatEmptySeq, EmptySeq, Zenon
    <2> QED BY <2>1, Zenon DEF Longer
  <1>2. ASSUME NEW s \in Seq(Byte), NEW x \in Byte, s \in P PROVE Append(s, x) \in P
    <2>1. PICK c \in Seq(Byte) : c = a \o s
      BY ConcatProperties, Zenon
    <2>2. PICK t \in Seq(Seq(Byte)) : Lines(c) = Lines(a) \o t
      BY <1>2, <2>1, Zenon DEF Longer
    <2>3. a \o Append(s, x) = Append(c, x) /\ Append(s, x) \in Seq(Byte)
      <3>1. a \o Append(s, x) = Append(a \o s, x)
        <4>1. Shifts(a, s, x)
          BY AppendShifts, Zenon
        <4> QED BY <4>1, Zenon DEF Shifts
      <3> QED BY <2>1, <3>1, AppendProperties, Zenon
    <2>4. PICK r \in Seq(Byte) : Reads(c, x, r)
      BY LeftTyped, AppendProperties, Zenon DEF Reads
    <2>5. Longer(a, Append(s, x))
      <3>1. CASE ~Finished(r) \/ Body(r) = <<>>
        <4>1. Lines(Append(c, x)) = Lines(c)
          <5>1. CASE ~Finished(r)
            BY <2>4, <5>1, CutWaits, Zenon
          <5>2. CASE Finished(r)
            BY <2>4, <3>1, <5>2, CutSkips, Zenon
          <5> QED BY <5>1, <5>2, Zenon
        <4> QED BY <2>2, <2>3, <4>1, Zenon DEF Longer
      <3>2. CASE Finished(r) /\ Body(r) # <<>>
        <4>1. Lines(Append(c, x)) = Append(Lines(c), Body(r))
          BY <2>4, <3>2, CutGains, Zenon
        <4>2. Body(r) \in Seq(Byte) /\ Append(t, Body(r)) \in Seq(Seq(Byte))
          BY <3>2, BodyTyped, AppendProperties, Zenon
        <4>3. Lines(a) \o Append(t, Body(r)) = Append(Lines(a) \o t, Body(r))
          <5>1. Shifts(Lines(a), t, Body(r))
            BY <1>0, <4>2, AppendShifts, Zenon
          <5> QED BY <5>1, Zenon DEF Shifts
        <4> QED BY <2>2, <2>3, <4>1, <4>2, <4>3, Zenon DEF Longer
      <3> QED BY <3>1, <3>2, Zenon
    <2> QED BY <2>3, <2>5, Zenon
  <1> HIDE DEF P
  <1>3. Seq(Byte) \subseteq P
    BY <1>1, <1>2, BytesInduction, Zenon
  <1> QED BY <1>3, Zenon DEF P

LEMMA HeadAppend ==
  ASSUME NEW S, NEW q \in Seq(S), q # <<>>, NEW u \in S
  PROVE  Append(q, u) # <<>> /\ Head(Append(q, u)) = Head(q)
  BY SMT

FirstHas(m, s) ==
  IF Lines(m \o s) = <<>> THEN Left(m \o s) = m \o s
  ELSE Len(Head(Lines(m \o s))) + 2 >= Len(m)

\* What waits is part of the first line, wherever that ends.
LEMMA FirstIsLong ==
  ASSUME NEW m \in Seq(Byte), Waits(m), Len(m) > 2
  PROVE  \A s \in Seq(Byte) : FirstHas(m, s)
  <1> DEFINE P == {s \in Seq(Byte) : FirstHas(m, s)}
  <1>1. <<>> \in P
    <2>1. m \o <<>> = m /\ <<>> \in Seq(Byte)
      BY ConcatEmptySeq, EmptySeq, Zenon
    <2> QED BY <2>1, Zenon DEF FirstHas, Waits
  <1>2. ASSUME NEW s \in Seq(Byte), NEW x \in Byte, s \in P PROVE Append(s, x) \in P
    <2>1. PICK c \in Seq(Byte) : c = m \o s /\ Len(c) >= Len(m)
      <3>1. m \o s \in Seq(Byte) /\ Len(m \o s) >= Len(m)
        BY SMT
      <3> QED BY <3>1, Zenon
    <2>2. PICK d \in Seq(Byte) : d = Append(c, x)
      BY AppendProperties, Zenon
    <2>3. m \o Append(s, x) = d /\ Append(s, x) \in Seq(Byte)
      <3>1. m \o Append(s, x) = Append(m \o s, x)
        <4>1. Shifts(m, s, x)
          BY AppendShifts, Zenon
        <4> QED BY <4>1, Zenon DEF Shifts
      <3> QED BY <2>1, <2>2, <3>1, AppendProperties, Zenon
    <2>4. PICK r \in Seq(Byte) : Reads(c, x, r)
      BY LeftTyped, AppendProperties, Zenon DEF Reads
    <2>5. PICK q \in Seq(Seq(Byte)) : q = Lines(c)
      BY LinesOfBytes, Zenon
    <2>6. FirstHas(m, Append(s, x))
      <3>1. CASE q = <<>>
        <4>1. Left(c) = c
          BY <1>2, <2>1, <2>5, <3>1, Zenon DEF FirstHas
        <4>4. r = d
          BY <2>2, <2>4, <4>1, Zenon DEF Reads
        <4>2. CASE ~Finished(r)
          <5>1. Lines(Append(c, x)) = Lines(c) /\ Left(Append(c, x)) = r
            BY <2>4, <4>2, CutWaits, Zenon
          <5>2. Lines(d) = <<>> /\ Left(d) = d
            BY <2>2, <2>5, <3>1, <4>4, <5>1, Zenon
          <5> QED BY <2>3, <5>2, Zenon DEF FirstHas
        <4>3. CASE Finished(r)
          <5>1. Len(r) = Len(c) + 1
            BY <2>2, <4>4, AppendProperties, Zenon
          <5>2. PICK u \in Seq(Byte) : u = Body(r) /\ Len(u) = Len(r) - 2
            BY <4>3, BodyTyped, Zenon
          <5>3. Len(m) \in Nat /\ Len(c) \in Nat
            BY LenProperties, Zenon
          <5>4. Len(u) + 2 >= Len(m) /\ Len(u) > 0
            BY <2>1, <5>1, <5>2, <5>3, SMT
          <5>5. u # <<>>
            BY <5>4, SMT
          <5>6. Lines(d) = Append(<<>>, u)
            <6>1. Lines(Append(c, x)) = Append(Lines(c), Body(r))
              <7>1. Body(r) # <<>>
                BY <5>2, <5>5, Zenon
              <7> QED BY <2>4, <4>3, <7>1, CutGains, Zenon
            <6> QED BY <2>2, <2>5, <3>1, <5>2, <6>1, Zenon
          <5>7. Lines(d) # <<>> /\ Head(Lines(d)) = u
            BY <5>6, SMT
          <5> QED BY <2>3, <5>4, <5>7, Zenon DEF FirstHas
        <4> QED BY <4>2, <4>3, Zenon
      <3>2. CASE q # <<>>
        <4>1. Len(Head(q)) + 2 >= Len(m)
          BY <1>2, <2>1, <2>5, <3>2, Zenon DEF FirstHas
        <4>2. Lines(d) # <<>> /\ Head(Lines(d)) = Head(q)
          <5>1. CASE Lines(d) = q
            BY <3>2, <5>1, Zenon
          <5>2. CASE Finished(r) /\ Lines(d) = Append(q, Body(r))
            <6>1. PICK u \in Seq(Byte) : u = Body(r)
              BY <5>2, BodyTyped, Zenon
            <6>2. Append(q, u) # <<>> /\ Head(Append(q, u)) = Head(q)
              BY <3>2, HeadAppend, Zenon
            <6> QED BY <5>2, <6>1, <6>2, Zenon
          <5>3. Lines(d) = q \/ (Finished(r) /\ Lines(d) = Append(q, Body(r)))
            <6>1. CASE ~Finished(r)
              <7>1. Lines(Append(c, x)) = Lines(c)
                BY <2>4, <6>1, CutWaits, Zenon
              <7> QED BY <2>2, <2>5, <7>1, Zenon
            <6>2. CASE Finished(r) /\ Body(r) = <<>>
              <7>1. Lines(Append(c, x)) = Lines(c)
                BY <2>4, <6>2, CutSkips, Zenon
              <7> QED BY <2>2, <2>5, <7>1, Zenon
            <6>3. CASE Finished(r) /\ Body(r) # <<>>
              <7>1. Lines(Append(c, x)) = Append(Lines(c), Body(r))
                BY <2>4, <6>3, CutGains, Zenon
              <7> QED BY <2>2, <2>5, <6>3, <7>1, Zenon
            <6> QED BY <6>1, <6>2, <6>3, Zenon
          <5> QED BY <5>1, <5>2, <5>3, Zenon
        <4> QED BY <2>3, <4>1, <4>2, Zenon DEF FirstHas
      <3> QED BY <3>1, <3>2, Zenon
    <2> QED BY <2>3, <2>6, Zenon
  <1> HIDE DEF P
  <1>3. Seq(Byte) \subseteq P
    BY <1>1, <1>2, BytesInduction, Zenon
  <1> QED BY <1>3, Zenon DEF P

\* The bytes that are on their way to get_next_command's caller.
All == command \o buffer \o wire

(***************************************************************************)
(* What makes the bytes a channel of lines.  No line ends in the command   *)
(* under assembly; all that was written by a writer that is still there is *)
(* whole lines; a call under way has not returned.                         *)
(***************************************************************************)
LinesInv ==
  /\ Waits(command)
  /\ rpc \in {"read", "block"} => last = NoLine
  /\ writing => Left(All) = <<>>
  /\ Pending \in Seq(Line \ {<<>>})

ChannelInv == FramingInv /\ LinesInv

LEMMA AllTyped ==
  ASSUME FramingInv
  PROVE  /\ command \in Seq(Byte) /\ buffer \in Seq(Byte) /\ wire \in Seq(Byte)
         /\ command \o buffer \in Seq(Byte) /\ All \in Seq(Byte)
         /\ All = command \o (buffer \o wire) /\ Pending = Lines(All)
  <1>1. command \in Seq(Byte) /\ buffer \in Seq(Byte) /\ wire \in Seq(Byte)
    BY Zenon DEF FramingInv, TypeOK
  <1>2. command \o buffer \in Seq(Byte)
    BY <1>1, ConcatProperties, Zenon
  <1>3. All \in Seq(Byte)
    BY <1>1, <1>2, ConcatProperties, Zenon DEF All
  <1>4. All = command \o (buffer \o wire)
    <2>1. Assoc(command, buffer, wire)
      BY <1>1, Concat, Zenon
    <2> QED BY <2>1, Zenon DEF Assoc, All
  <1> QED BY <1>1, <1>2, <1>3, <1>4, Zenon DEF Pending, All

\* A step that moves bytes, or none, within the reader.
Within == UNCHANGED <<last, writing>> /\ All' = All /\ (rpc' = "over") = (rpc = "over")

LEMMA WithinStutters ==
  ASSUME Within, FramingInv
  PROVE  UNCHANGED LC!lvars /\ Pending' = Pending
  <1>1. Pending' = Pending
    <2>1. Pending = Lines(All) /\ Pending' = Lines(All')
      BY Zenon DEF Pending, All
    <2> QED BY <2>1, Zenon DEF Within
  <1> QED BY <1>1, Zenon DEF Within, LC!lvars

\* The writer.
LEMMA Wired ==
  ASSUME FramingInv, UNCHANGED <<command, buffer>>,
         NEW p \in Seq(Byte), wire' = wire \o p
  PROVE  All' = All \o p
  <1>1. PICK c \in Seq(Byte) : c = command \o buffer
    BY AllTyped, Zenon
  <1>2. wire \in Seq(Byte)
    BY AllTyped, Zenon
  <1>3. c \o (wire \o p) = (c \o wire) \o p
    <2>1. Assoc(c, wire, p)
      BY <1>2, Concat, Zenon
    <2> QED BY <2>1, Zenon DEF Assoc
  <1>4. All = c \o wire /\ All' = c \o (wire \o p)
    BY <1>1, Zenon DEF All
  <1> QED BY <1>3, <1>4, Zenon

LEMMA SendWrites ==
  ASSUME ChannelInv, NEW l \in Line, SendNextCommand(l)
  PROVE  LinesInv' /\ (LC!Write \/ UNCHANGED LC!lvars)
  <1>1. /\ FramingInv /\ LinesInv /\ writing
        /\ wire' = wire \o l \o EndOfLine /\ UNCHANGED <<writing, rpc, buffer, command, last>>
    BY Zenon DEF SendNextCommand, ChannelInv
  <1>2. PICK p \in Seq(Byte) : p = l \o EndOfLine
    BY WireLine, Zenon
  <1>3. wire' = wire \o p
    <2>1. l \in Seq(Byte) /\ EndOfLine \in Seq(Byte) /\ wire \in Seq(Byte)
      BY <1>1, LinesTyped, AllTyped, Zenon
    <2>2. (wire \o l) \o EndOfLine = wire \o (l \o EndOfLine)
      <3>1. Assoc(wire, l, EndOfLine)
        BY <2>1, Concat, Zenon
      <3> QED BY <3>1, Zenon DEF Assoc
    <2> QED BY <1>1, <1>2, <2>2, Zenon
  <1>4. PICK a \in Seq(Byte) : a = All /\ a \o p = All'
    BY <1>1, <1>3, AllTyped, Wired, Zenon
  <1>5. Pending = Lines(a) /\ Left(a) = <<>> /\ Pending' = Lines(a \o p)
    BY <1>1, <1>4, Zenon DEF LinesInv, Pending, All
  <1>6. Lines(a \o p) = Lines(a) \o Lines(p) /\ Left(a \o p) = Left(p)
    BY <1>5, CutJoins, Zenon DEF Joins
  <1>7. Pending \in Seq(Line \ {<<>>})
    BY <1>1, Zenon DEF LinesInv
  <1>8. Left(All') = <<>>
    BY <1>2, <1>4, <1>6, WireLine, Zenon
  <1>9. CASE l = <<>>
    <2>1. Lines(a) \o <<>> = Lines(a)
      BY <1>5, <1>7, ConcatEmptySeq, Zenon
    <2>2. Pending' = Pending
      BY <1>2, <1>5, <1>6, <1>9, <2>1, WireLine, Zenon
    <2>3. LinesInv'
      BY <1>1, <1>7, <1>8, <2>2, Zenon DEF LinesInv, Waits, All
    <2> QED BY <1>1, <2>2, <2>3, Zenon DEF LC!lvars
  <1>10. CASE l # <<>>
    <2>1. PICK q \in Seq(Line \ {<<>>}) : q = Pending
      BY <1>7, Zenon
    <2>2. Pending' = q \o <<l>>
      BY <1>2, <1>5, <1>6, <1>10, <2>1, WireLine, Zenon
    <2>3. q \o <<l>> = Append(q, l) /\ Append(q, l) \in Seq(Line \ {<<>>})
      BY <1>10, SMT
    <2>4. LinesInv'
      BY <1>1, <1>8, <2>2, <2>3, Zenon DEF LinesInv, Waits, All
    <2>5. LC!Write
      BY <1>1, <1>10, <2>1, <2>2, <2>3, Zenon DEF LC!Write
    <2> QED BY <2>4, <2>5, Zenon
  <1> QED BY <1>9, <1>10, Zenon

LEMMA HangupLeaves ==
  ASSUME ChannelInv, NEW l \in Line, Hangup(l)
  PROVE  LinesInv' /\ LC!Leave
  <1>1. /\ FramingInv /\ LinesInv /\ writing /\ writing' = FALSE
        /\ UNCHANGED <<rpc, buffer, command, last>>
    BY Zenon DEF Hangup, ChannelInv
  <1>2. PICK n \in 0 .. Len(l) + 1 : wire' = wire \o SubSeq(l \o EndOfLine, 1, n)
    BY Zenon DEF Hangup
  <1>3. PICK p \in Seq(Byte) : p = SubSeq(l \o EndOfLine, 1, n)
    <2>1. n \in Nat /\ n <= Len(l \o EndOfLine)
      <3>1. l \in Seq(Byte) /\ EndOfLine \in Seq(Byte) /\ Len(EndOfLine) = 2
        BY LinesTyped, SMT DEF EndOfLine
      <3>2. Len(l \o EndOfLine) = Len(l) + 2 /\ Len(l) \in Nat
        <4>1. Len(l \o EndOfLine) = Len(l) + Len(EndOfLine)
          BY <3>1, ConcatProperties, Zenon
        <4> QED BY <3>1, <4>1, LenProperties, Zenon
      <3> QED BY <3>2, SMT
    <2> QED BY <2>1, WireLine, Halves, Zenon
  <1>4. Lines(p) = <<>>
    BY <1>2, <1>3, WireLine, Zenon DEF Waits
  <1>5. PICK a \in Seq(Byte) : a = All /\ a \o p = All'
    BY <1>1, <1>2, <1>3, AllTyped, Wired, Zenon
  <1>6. Pending = Lines(a) /\ Left(a) = <<>> /\ Pending' = Lines(a \o p)
    BY <1>1, <1>5, Zenon DEF LinesInv, Pending, All
  <1>7. Lines(a \o p) = Lines(a) \o Lines(p)
    BY <1>6, CutJoins, Zenon DEF Joins
  <1>8. Pending \in Seq(Line \ {<<>>})
    BY <1>1, Zenon DEF LinesInv
  <1>9. Lines(a) \o <<>> = Lines(a)
    BY <1>6, <1>8, ConcatEmptySeq, Zenon
  <1>10. Pending' = Pending
    BY <1>4, <1>6, <1>7, <1>9, Zenon
  <1>11. LinesInv'
    BY <1>1, <1>8, <1>10, Zenon DEF LinesInv, Waits
  <1>12. LC!IsPrefix(Pending, Pending)
    BY <1>8, SMT DEF LC!IsPrefix
  <1> QED BY <1>1, <1>10, <1>11, <1>12, Zenon DEF LC!Leave

LEMMA PrefixOfConcat ==
  ASSUME NEW S, NEW q \in Seq(S), NEW t \in Seq(S), NEW T, q \o t \in Seq(T)
  PROVE  q \in Seq(T) /\ LC!IsPrefix(q, q \o t)
  <1>1. Len(q) <= Len(q \o t) /\ Len(q) \in Nat /\ Len(q \o t) = Len(q) + Len(t) /\ Len(t) \in Nat
    BY SMT
  <1>2. \A i \in 1 .. Len(q) : (q \o t)[i] = q[i] /\ (q \o t)[i] \in T
    <2>1. ASSUME NEW i \in 1 .. Len(q) PROVE (q \o t)[i] = q[i] /\ (q \o t)[i] \in T
      <3>1. (q \o t)[i] = q[i]
        BY SMT
      <3>2. i \in 1 .. Len(q \o t)
        BY <1>1, SMT
      <3>3. (q \o t)[i] \in T
        BY <3>2, ElementOfSeq, Zenon
      <3> QED BY <3>1, <3>3, Zenon
    <2> QED BY <2>1, Zenon
  <1>3. q \in Seq(T)
    <2>1. \A i \in 1 .. Len(q) : q[i] \in T
      BY <1>2, Zenon
    <2> QED BY <2>1, SMT
  <1>4. SubSeq(q, 1, Len(q)) = SubSeq(q \o t, 1, Len(q))
    <2>1. SubSeq(q, 1, Len(q)) = q
      BY SMT
    <2>2. SubSeq(q \o t, 1, Len(q)) = q
      BY SMT
    <2> QED BY <2>1, <2>2, Zenon
  <1> QED BY <1>1, <1>3, <1>4, Zenon DEF LC!IsPrefix

LEMMA BreakLeaves ==
  ASSUME ChannelInv, Break
  PROVE  LinesInv' /\ LC!Leave
  <1>1. /\ FramingInv /\ LinesInv /\ writing /\ writing' = FALSE
        /\ UNCHANGED <<rpc, buffer, command, last>>
    BY Zenon DEF Break, ChannelInv
  <1>2. PICK n \in 0 .. Len(wire) : wire' = SubSeq(wire, 1, n)
    BY Zenon DEF Break
  <1>3. wire \in Seq(Byte) /\ Len(wire) \in Nat
    BY <1>1, AllTyped, LenProperties, Zenon
  <1>4. n \in Nat /\ n <= Len(wire)
    BY <1>3, SMT
  <1>5. PICK s \in Seq(Byte) : wire' \o s = wire /\ wire' \in Seq(Byte)
    BY <1>2, <1>3, <1>4, Halves, Zenon
  <1>6. PICK a \in Seq(Byte) : a = All' /\ a \o s = All
    <2>1. PICK c \in Seq(Byte) : c = command \o buffer
      BY <1>1, AllTyped, Zenon
    <2>2. All' = c \o wire' /\ All = c \o wire
      BY <1>1, <2>1, Zenon DEF All
    <2>3. PICK w \in Seq(Byte) : w = wire'
      BY <1>5, Zenon
    <2>4. c \o w \in Seq(Byte) /\ (c \o w) \o s = c \o (w \o s)
      <3>1. Assoc(c, w, s)
        BY Concat, Zenon
      <3> QED BY <3>1, ConcatProperties, Zenon DEF Assoc
    <2> QED BY <1>5, <2>2, <2>3, <2>4, Zenon
  <1>7. PICK t \in Seq(Seq(Byte)) : Lines(a \o s) = Lines(a) \o t
    BY MoreLines, Zenon DEF Longer
  <1>8. PICK q \in Seq(Seq(Byte)) : q = Lines(a)
    BY LinesOfBytes, Zenon
  <1>9. Pending' = q /\ Pending = q \o t
    BY <1>6, <1>7, <1>8, Zenon DEF Pending, All
  <1>10. q \o t \in Seq(Line \ {<<>>})
    BY <1>1, <1>9, Zenon DEF LinesInv
  <1>11. q \in Seq(Line \ {<<>>}) /\ LC!IsPrefix(q, q \o t)
    BY <1>10, PrefixOfConcat, Zenon
  <1>12. LinesInv'
    BY <1>1, <1>9, <1>11, Zenon DEF LinesInv, Waits
  <1> QED BY <1>1, <1>9, <1>11, <1>12, Zenon DEF LC!Leave

LEMMA CallStutters ==
  ASSUME ChannelInv, GetNextCommand
  PROVE  LinesInv' /\ (LC!Call \/ UNCHANGED LC!lvars)
  <1>1. /\ FramingInv /\ LinesInv /\ rpc = "idle"
        /\ rpc' = "read" /\ last' = NoLine /\ UNCHANGED <<wire, writing, buffer, command>>
    BY Zenon DEF GetNextCommand, ChannelInv
  <1>2. Pending' = Pending /\ All' = All /\ (rpc # "over") /\ (rpc' # "over")
    <2>1. "idle" # "over" /\ "read" # "over"
      BY SMT
    <2> QED BY <1>1, <2>1, Zenon DEF Pending, All
  <1>3. LinesInv'
    BY <1>1, <1>2, Zenon DEF LinesInv, Waits
  <1>4. CASE last = NoLine
    BY <1>1, <1>2, <1>3, <1>4, Zenon DEF LC!lvars
  <1>5. CASE last # NoLine
    BY <1>1, <1>2, <1>3, <1>5, Zenon DEF LC!Call
  <1> QED BY <1>3, <1>4, <1>5, Zenon

LEMMA HeadTail ==
  ASSUME NEW s \in Seq(Byte), s # <<>>
  PROVE  <<Head(s)>> \o Tail(s) = s
  BY SMT

LEMMA ReadsStutter ==
  ASSUME ChannelInv, FramingInv', ReadNonBlocking \/ ReadOne
  PROVE  LinesInv' /\ UNCHANGED LC!lvars
  <1>1. /\ FramingInv /\ LinesInv /\ UNCHANGED <<writing, command, last>>
        /\ rpc \in {"read", "block"} /\ rpc' \in {"read", "block"}
        /\ buffer = <<>>
    <2>1. FramingInv /\ LinesInv
      BY Zenon DEF ChannelInv
    <2>2. CASE ReadNonBlocking
      <3>1. rpc = "read" /\ buffer = <<>> /\ UNCHANGED <<writing, command, last>>
        BY <2>2, Zenon DEF ReadNonBlocking
      <3>2. rpc' \in {"read", "block"}
        BY <2>2, Zenon DEF ReadNonBlocking
      <3> QED BY <2>1, <3>1, <3>2, Zenon
    <2>3. CASE ReadOne
      <3>1. rpc = "block" /\ rpc' = "read" /\ UNCHANGED <<writing, command, last>>
        BY <2>3, Zenon DEF ReadOne
      <3>2. buffer = <<>>
        BY <2>1, <3>1, Zenon DEF FramingInv
      <3> QED BY <2>1, <3>1, <3>2, Zenon
    <2> QED BY <2>2, <2>3, Zenon
  <1>2. PICK w \in Seq(Byte) : w = wire /\ Len(w) \in Nat
    BY <1>1, AllTyped, LenProperties, Zenon
  <1>3. buffer' \o wire' = w
    <2>1. CASE ReadNonBlocking
      <3>1. PICK n \in 0 .. BufferSize :
              n <= Len(w) /\ buffer' = SubSeq(w, 1, n) /\ wire' = SubSeq(w, n + 1, Len(w))
        BY <1>2, <2>1, Zenon DEF ReadNonBlocking
      <3>2. n \in Nat
        BY FramingAssumption, SMT
      <3> QED BY <3>1, <3>2, Halves, Zenon
    <2>2. CASE ReadOne
      <3>1. w # <<>> /\ buffer' = <<Head(w)>> /\ wire' = Tail(w)
        BY <1>2, <2>2, Zenon DEF ReadOne
      <3>2. <<Head(w)>> \o Tail(w) = w
        BY <3>1, HeadTail, Zenon
      <3> QED BY <3>1, <3>2, Zenon
    <2> QED BY <2>1, <2>2, Zenon
  <1>4. All' = All
    <2>1. PICK b \in Seq(Byte), v \in Seq(Byte), c \in Seq(Byte) : b = buffer' /\ v = wire' /\ c = command
      <3>1. buffer' \in Seq(Byte) /\ wire' \in Seq(Byte)
        BY Zenon DEF FramingInv, TypeOK
      <3> QED BY <1>1, <3>1, AllTyped, Zenon
    <2>2. (c \o b) \o v = c \o (b \o v)
      <3>1. Assoc(c, b, v)
        BY Concat, Zenon
      <3> QED BY <3>1, Zenon DEF Assoc
    <2>3. <<>> \o w = w
      BY ConcatEmptySeq, Zenon
    <2>4. All = c \o (buffer \o wire)
      BY <1>1, <2>1, AllTyped, Zenon
    <2>5. All = c \o w
      BY <1>1, <1>2, <2>3, <2>4, Zenon
    <2>6. All' = (c \o b) \o v
      BY <1>1, <2>1, Zenon DEF All
    <2> QED BY <1>3, <2>1, <2>2, <2>5, <2>6, Zenon
  <1>5. UNCHANGED LC!lvars /\ Pending' = Pending
    <2>1. (rpc' = "over") = (rpc = "over")
      BY <1>1, SMT
    <2> QED BY <1>1, <1>4, <2>1, WithinStutters, Zenon DEF Within
  <1>6. LinesInv'
    <2>1. Waits(command)' /\ (last' = NoLine)
      BY <1>1, Zenon DEF LinesInv, Waits
    <2>2. writing' => Left(All') = <<>>
      BY <1>1, <1>4, Zenon DEF LinesInv
    <2> QED BY <1>1, <1>5, <2>1, <2>2, Zenon DEF LinesInv
  <1> QED BY <1>5, <1>6, Zenon

-----------------------------------------------------------------------------
Regroups(c, p, s, w) == (c \o (p \o s)) \o w = (c \o p) \o (s \o w)

LEMMA Regroup ==
  ASSUME NEW c \in Seq(Byte), NEW p \in Seq(Byte), NEW s \in Seq(Byte), NEW w \in Seq(Byte)
  PROVE  Regroups(c, p, s, w)
  <1>1. PICK g \in Seq(Byte) : g = c \o p
    BY ConcatProperties, Zenon
  <1>2. (c \o p) \o s = c \o (p \o s)
    <2>1. Assoc(c, p, s)
      BY Concat, Zenon
    <2> QED BY <2>1, Zenon DEF Assoc
  <1>3. (g \o s) \o w = g \o (s \o w)
    <2>1. Assoc(g, s, w)
      BY Concat, Zenon
    <2> QED BY <2>1, Zenon DEF Assoc
  <1> QED BY <1>1, <1>2, <1>3, Zenon DEF Regroups

\* The scan ends with the first byte that stops it.
LEMMA Scanned ==
  ASSUME ChannelInv, NEW n \in 1 .. Len(buffer), Scans(n)
  PROVE  \E m \in Seq(Byte), x \in Byte, s \in Seq(Byte) :
           /\ Waits(m) /\ Moved(n) = Append(m, x) /\ s = SubSeq(buffer, n + 1, Len(buffer))
           /\ All = Moved(n) \o (s \o wire)
  <1>1. FramingInv /\ LinesInv /\ Waits(command)
    BY Zenon DEF ChannelInv, LinesInv
  <1>2. PICK c \in Seq(Byte), b \in Seq(Byte), w \in Seq(Byte) :
          c = command /\ b = buffer /\ w = wire /\ Len(b) \in Nat
    BY <1>1, AllTyped, LenProperties, Zenon
  <1>3. PICK k \in Nat : n = k + 1
    BY <1>2, SMT
  <1>4. k + 1 <= Len(b) /\ k <= Len(b) /\ n \in Nat /\ n <= Len(b)
    BY <1>2, <1>3, SMT
  <1>5. PICK u \in Seq(Byte), x \in Byte : u = SubSeq(b, 1, k) /\ SubSeq(b, 1, n) = Append(u, x)
    <2>1. SubSeq(b, 1, k) \in Seq(Byte)
      BY <1>4, Halves, Zenon
    <2>2. SubSeq(b, 1, k + 1) = Append(SubSeq(b, 1, k), b[k + 1]) /\ b[k + 1] \in Byte
      BY <1>4, PrefixGrows, SMT
    <2> QED BY <1>3, <2>1, <2>2, Zenon
  <1>6. PICK m \in Seq(Byte) : m = c \o u
    BY ConcatProperties, Zenon
  <1>7. Waits(m)
    <2>1. ASSUME NEW i \in 1 .. k PROVE ~Finished(c \o SubSeq(b, 1, i))
      <3>1. i \in 1 .. n - 1
        BY <1>3, SMT
      <3>2. ~Stops(i)
        BY <3>1, Zenon DEF Scans
      <3> QED BY <1>2, <3>2, Zenon DEF Stops, Moved
    <2>2. Quiet(c, b, k)
      BY <2>1, Zenon DEF Quiet
    <2> QED BY <1>1, <1>2, <1>4, <1>5, <1>6, <2>2, QuietWaits, Zenon
  <1>8. Moved(n) = Append(m, x)
    <2>1. c \o Append(u, x) = Append(m, x)
      <3>1. Shifts(c, u, x)
        BY <1>6, AppendShifts, Zenon
      <3> QED BY <1>6, <3>1, Zenon DEF Shifts
    <2> QED BY <1>2, <1>5, <2>1, Zenon DEF Moved
  <1>9. PICK p \in Seq(Byte), s \in Seq(Byte) :
          p = SubSeq(b, 1, n) /\ s = SubSeq(b, n + 1, Len(b)) /\ p \o s = b
    <2>1. /\ SubSeq(b, 1, n) \o SubSeq(b, n + 1, Len(b)) = b
          /\ SubSeq(b, 1, n) \in Seq(Byte) /\ SubSeq(b, n + 1, Len(b)) \in Seq(Byte)
      BY <1>4, Halves, SMT
    <2> QED BY <2>1, Zenon
  <1>10. All = Moved(n) \o (s \o w)
    <2>1. Regroups(c, p, s, w)
      BY Regroup, Zenon
    <2>2. All = (c \o b) \o w /\ Moved(n) = c \o p
      BY <1>2, <1>9, Zenon DEF All, Moved
    <2> QED BY <1>9, <2>1, <2>2, Zenon DEF Regroups
  <1> QED BY <1>2, <1>7, <1>8, <1>9, <1>10, Zenon

LEMMA OnlyEndOfLineIsBlank ==
  ASSUME NEW r \in Seq(Byte), Finished(r)
  PROVE  Body(r) = <<>> <=> r = EndOfLine
  <1>1. Len(r) >= 2 /\ r[Len(r) - 1] = CR /\ r[Len(r)] = LF /\ Len(r) \in Nat
    BY LenProperties, Zenon DEF Finished
  <1>2. Len(Body(r)) = Len(r) - 2 /\ Body(r) \in Seq(Byte)
    BY BodyTyped, Zenon
  <1>3. ASSUME Body(r) = <<>> PROVE r = EndOfLine
    <2>1. Len(r) = 2
      <3>1. Len(Body(r)) = 0
        BY <1>3, EmptySeq, Zenon
      <3> QED BY <1>1, <1>2, <3>1, SMT
    <2>2. 2 - 1 = 1
      BY SMT
    <2>3. r[1] = CR /\ r[2] = LF
      BY <1>1, <2>1, <2>2, Zenon
    <2> QED BY <2>1, <2>3, SMT DEF EndOfLine
  <1>4. ASSUME r = EndOfLine PROVE Body(r) = <<>>
    <2>1. Len(r) = 2
      BY <1>4, SMT DEF EndOfLine
    <2>2. Len(Body(r)) = 0
      BY <1>2, <2>1, SMT
    <2> QED BY <1>2, <2>2, EmptySeq, Zenon
  <1> QED BY <1>3, <1>4, Zenon

\* What is behind the bytes that were moved.
Rest(n) == SubSeq(buffer, n + 1, Len(buffer)) \o wire

\* A line has come to its end: what follows is apart from it.
LEMMA LineMoved ==
  ASSUME ChannelInv, NEW n \in 1 .. Len(buffer), Scans(n), Finished(Moved(n))
  PROVE  /\ Moved(n) \in Seq(Byte) /\ Rest(n) \in Seq(Byte)
         /\ Moved(n) = EndOfLine => Pending = Lines(Rest(n))
         /\ Moved(n) # EndOfLine => Pending = <<Body(Moved(n))>> \o Lines(Rest(n))
         /\ Left(All) = Left(Rest(n))
  <1>1. PICK m \in Seq(Byte), x \in Byte, s \in Seq(Byte) :
           /\ Waits(m) /\ Moved(n) = Append(m, x) /\ s = SubSeq(buffer, n + 1, Len(buffer))
           /\ All = Moved(n) \o (s \o wire)
    BY Scanned, Zenon
  <1>2. PICK r \in Seq(Byte) : r = Moved(n) /\ r = Append(m, x)
    BY <1>1, AppendProperties, Zenon
  <1>3. wire \in Seq(Byte)
    BY AllTyped, Zenon DEF ChannelInv
  <1>4. PICK d \in Seq(Byte) : d = Rest(n) /\ d = s \o wire
    BY <1>1, <1>3, ConcatProperties, Zenon DEF Rest
  <1>5. /\ Left(r) = <<>> /\ (Body(r) # <<>> => Lines(r) = <<Body(r)>>)
        /\ (Body(r) = <<>> => Lines(r) = <<>>)
    <2>1. Finished(Append(m, x))
      BY <1>2, Zenon
    <2>2. /\ Left(Append(m, x)) = <<>>
          /\ Body(Append(m, x)) # <<>> => Lines(Append(m, x)) = <<Body(Append(m, x))>>
          /\ Body(Append(m, x)) = <<>> => Lines(Append(m, x)) = <<>>
      BY <1>1, <2>1, WaitsEnds, Zenon
    <2> QED BY <1>2, <2>2, Zenon
  <1>6. Lines(r \o d) = Lines(r) \o Lines(d) /\ Left(r \o d) = Left(d)
    BY <1>5, CutJoins, Zenon DEF Joins
  <1>7. All = r \o d
    BY <1>1, <1>2, <1>4, Zenon
  <1>8. Pending = Lines(r) \o Lines(d) /\ Left(All) = Left(d)
    BY <1>6, <1>7, Zenon DEF Pending, All
  <1>9. <<>> \o Lines(d) = Lines(d)
    BY LinesOfBytes, ConcatEmptySeq, Zenon
  <1>10. Body(r) = <<>> <=> r = EndOfLine
    BY <1>2, OnlyEndOfLineIsBlank, Zenon
  <1>11. CASE Body(r) = <<>>
    BY <1>2, <1>4, <1>5, <1>8, <1>9, <1>10, <1>11, Zenon
  <1>12. CASE Body(r) # <<>>
    BY <1>2, <1>4, <1>5, <1>8, <1>10, <1>12, Zenon
  <1> QED BY <1>11, <1>12, Zenon

LEMMA RestKept ==
  ASSUME ChannelInv, NEW n \in 1 .. Len(buffer), Rest(n) \in Seq(Byte), Scans(n),
         KeepRest(n), command' = <<>>, wire' = wire
  PROVE  All' = Rest(n) /\ Pending' = Lines(Rest(n)) /\ Waits(command)'
  <1>1. PICK s \in Seq(Byte) : s = SubSeq(buffer, n + 1, Len(buffer))
    BY Scanned, Zenon
  <1>2. <<>> \o s = s
    BY ConcatEmptySeq, Zenon
  <1>3. All' = Rest(n)
    BY <1>1, <1>2, Zenon DEF All, KeepRest, Rest
  <1>4. Pending' = Lines(All')
    BY Zenon DEF Pending, All
  <1>5. Waits(command')
    BY NothingWaits, Zenon
  <1> QED BY <1>3, <1>4, <1>5, Zenon DEF Waits

LEMMA HeadOfLines ==
  ASSUME NEW l, NEW q \in Seq(Seq(Byte))
  PROVE  /\ <<l>> \o q # <<>> /\ Head(<<l>> \o q) = l /\ Tail(<<l>> \o q) = q
  BY SMT

LEMMA ReturnReturns ==
  ASSUME ChannelInv, NEW n \in 1 .. Len(buffer), Return(n)
  PROVE  LinesInv' /\ LC!Return
  <1>1. /\ FramingInv /\ LinesInv /\ Scans(n) /\ rpc = "read" /\ rpc' = "idle"
        /\ Finished(Moved(n)) /\ ~TooLong(Moved(n)) /\ Moved(n) # EndOfLine
        /\ last' = Body(Moved(n)) /\ KeepRest(n) /\ command' = <<>> /\ UNCHANGED <<wire, writing>>
    BY Zenon DEF Return, Scans, ChannelInv, Body
  <1>2. PICK r \in Seq(Byte), d \in Seq(Byte) :
          r = Moved(n) /\ d = Rest(n) /\ Pending = <<Body(r)>> \o Lines(d) /\ Left(All) = Left(d)
    BY <1>1, LineMoved, Zenon
  <1>3. All' = d /\ Pending' = Lines(d) /\ Waits(command)'
    BY <1>1, <1>2, RestKept, Zenon
  <1>4. PICK q \in Seq(Seq(Byte)), l \in Seq(Byte) :
          q = Lines(d) /\ l = Body(r) /\ Len(l) = Len(r) - 2 /\ Len(r) >= 2
    BY <1>1, <1>2, LinesOfBytes, BodyTyped, Zenon
  <1>5. Pending # <<>> /\ Head(Pending) = l /\ Tail(Pending) = q
    BY <1>2, <1>4, HeadOfLines, Zenon
  <1>6. Head(Pending) \in Line \ {<<>>} /\ Tail(Pending) \in Seq(Line \ {<<>>})
    BY <1>1, <1>5, HeadTailProperties, Zenon DEF LinesInv
  <1>7. Len(l) + 2 <= MaxCommandSize
    <2>1. ~(Len(r) > MaxCommandSize)
      BY <1>1, <1>2, Zenon DEF TooLong
    <2>2. Len(r) \in Nat /\ MaxCommandSize \in Nat
      BY FramingAssumption, LenProperties, Zenon
    <2> QED BY <1>4, <2>1, <2>2, SMT
  <1>8. Head(Pending) \in {k \in Line : Len(k) + 2 <= MaxCommandSize}
    BY <1>5, <1>6, <1>7, Zenon
  <1>9. "read" # "over" /\ "idle" # "over"
    BY SMT
  <1>10. last = NoLine
    BY <1>1, SMT DEF LinesInv
  <1>11. LC!Return
    BY <1>1, <1>2, <1>3, <1>4, <1>5, <1>8, <1>9, <1>10, Zenon DEF LC!Return
  <1>12. LinesInv'
    <2>1. writing' => Left(All') = <<>>
      BY <1>1, <1>2, <1>3, Zenon DEF LinesInv
    <2>2. Pending' \in Seq(Line \ {<<>>})
      BY <1>3, <1>4, <1>5, <1>6, Zenon
    <2>3. ~(rpc' \in {"read", "block"})
      BY <1>1, SMT
    <2> QED BY <1>3, <2>1, <2>2, <2>3, Zenon DEF LinesInv
  <1> QED BY <1>11, <1>12, Zenon

LEMMA SkipStutters ==
  ASSUME ChannelInv, NEW n \in 1 .. Len(buffer), SkipBlank(n)
  PROVE  LinesInv' /\ UNCHANGED LC!lvars
  <1>1. /\ FramingInv /\ LinesInv /\ Scans(n) /\ Moved(n) = EndOfLine
        /\ KeepRest(n) /\ command' = <<>> /\ UNCHANGED <<wire, writing, rpc, last>>
    BY Zenon DEF SkipBlank, ChannelInv
  <1>2. Finished(Moved(n))
    <2>1. Finished(EndOfLine)
      BY SMT DEF Finished, EndOfLine
    <2> QED BY <1>1, <2>1, Zenon
  <1>3. PICK d \in Seq(Byte) : d = Rest(n) /\ Pending = Lines(d) /\ Left(All) = Left(d)
    BY <1>1, <1>2, LineMoved, Zenon
  <1>4. All' = d /\ Pending' = Lines(d) /\ Waits(command)'
    BY <1>1, <1>3, RestKept, Zenon
  <1>5. LinesInv'
    BY <1>1, <1>3, <1>4, Zenon DEF LinesInv
  <1> QED BY <1>1, <1>3, <1>4, <1>5, Zenon DEF LC!lvars

LEMMA Gathered ==
  ASSUME ChannelInv, NEW n \in 1 .. Len(buffer), Scans(n), ~Finished(Moved(n))
  PROVE  /\ Moved(n) \in Seq(Byte) /\ Waits(Moved(n)) /\ Rest(n) \in Seq(Byte)
         /\ All = Moved(n) \o Rest(n)
  <1>1. PICK m \in Seq(Byte), x \in Byte, s \in Seq(Byte) :
           /\ Waits(m) /\ Moved(n) = Append(m, x) /\ s = SubSeq(buffer, n + 1, Len(buffer))
           /\ All = Moved(n) \o (s \o wire)
    BY Scanned, Zenon
  <1>2. Append(m, x) \in Seq(Byte) /\ ~Finished(Append(m, x))
    BY <1>1, AppendProperties, Zenon
  <1>3. Waits(Append(m, x))
    BY <1>1, <1>2, WaitsMore, Zenon
  <1>4. wire \in Seq(Byte)
    BY AllTyped, Zenon DEF ChannelInv
  <1>5. s \o wire \in Seq(Byte)
    BY <1>4, ConcatProperties, Zenon
  <1> QED BY <1>1, <1>2, <1>3, <1>5, Zenon DEF Rest

LEMMA GatherStutters ==
  ASSUME ChannelInv, FramingInv', NEW n \in 1 .. Len(buffer), Gather(n)
  PROVE  LinesInv' /\ UNCHANGED LC!lvars
  <1>1. /\ FramingInv /\ LinesInv /\ Scans(n) /\ ~Finished(Moved(n))
        /\ KeepRest(n) /\ command' = Moved(n) /\ UNCHANGED <<wire, writing, rpc, last>>
    BY Zenon DEF Gather, ChannelInv
  <1>2. Waits(Moved(n)) /\ All = Moved(n) \o Rest(n)
    BY <1>1, Gathered, Zenon
  <1>3. All' = All
    <2>1. All' = command' \o (buffer' \o wire')
      <3>1. command' \in Seq(Byte) /\ buffer' \in Seq(Byte) /\ wire' \in Seq(Byte)
        BY Zenon DEF FramingInv, TypeOK
      <3>2. PICK c \in Seq(Byte), b \in Seq(Byte), w \in Seq(Byte) :
              c = command' /\ b = buffer' /\ w = wire'
        BY <3>1, Zenon
      <3>3. (c \o b) \o w = c \o (b \o w)
        <4>1. Assoc(c, b, w)
          BY Concat, Zenon
        <4> QED BY <4>1, Zenon DEF Assoc
      <3> QED BY <3>2, <3>3, Zenon DEF All
    <2> QED BY <1>1, <1>2, <2>1, Zenon DEF KeepRest, Rest
  <1>4. UNCHANGED LC!lvars /\ Pending' = Pending
    BY <1>1, <1>3, WithinStutters, Zenon DEF Within
  <1>5. LinesInv'
    BY <1>1, <1>2, <1>3, <1>4, Zenon DEF LinesInv, Waits
  <1> QED BY <1>4, <1>5, Zenon

-----------------------------------------------------------------------------
\* The reader gives up.
LEMMA OverLeavesNothing ==
  ASSUME LinesInv, Over
  PROVE  LinesInv' /\ Pending' = <<>> /\ rpc' = "over" /\ UNCHANGED <<last, writing>>
  <1>1. /\ rpc' = "over" /\ wire' = <<>> /\ buffer' = <<>> /\ command' = <<>>
        /\ UNCHANGED <<writing, last>>
    BY Zenon DEF Over
  <1>2. <<>> \o <<>> = <<>>
    BY SMT
  <1>3. All' = <<>>
    BY <1>1, <1>2, Zenon DEF All
  <1>4. Pending' = Lines(All')
    BY Zenon DEF Pending, All
  <1>5. Pending' = <<>> /\ Left(All') = <<>> /\ Waits(command)'
    BY <1>1, <1>3, <1>4, CutEmpty, Zenon DEF Waits
  <1>6. Pending' \in Seq(Line \ {<<>>})
    BY <1>5, EmptySeq, Zenon
  <1>7. ~(rpc' \in {"read", "block"})
    BY <1>1, SMT
  <1> QED BY <1>1, <1>5, <1>6, <1>7, Zenon DEF LinesInv

LEMMA EndGivesUp ==
  ASSUME ChannelInv, ReadEnd
  PROVE  LinesInv' /\ LC!GiveUp
  <1>1. /\ FramingInv /\ LinesInv /\ rpc = "block" /\ wire = <<>> /\ ~writing /\ Over
        /\ buffer = <<>>
    BY Zenon DEF ReadEnd, ChannelInv, FramingInv
  <1>2. PICK c \in Seq(Byte) : c = command
    BY <1>1, AllTyped, Zenon
  <1>3. (c \o <<>>) \o <<>> = c
    <2>1. c \o <<>> = c
      BY ConcatEmptySeq, Zenon
    <2> QED BY <2>1, Zenon
  <1>4. Pending = <<>>
    BY <1>1, <1>2, <1>3, Zenon DEF Pending, LinesInv, Waits
  <1>5. LinesInv' /\ Pending' = <<>> /\ rpc' = "over" /\ UNCHANGED <<last, writing>>
    BY <1>1, OverLeavesNothing, Zenon
  <1>6. last = NoLine /\ rpc # "over"
    BY <1>1, SMT DEF LinesInv
  <1> QED BY <1>1, <1>4, <1>5, <1>6, Zenon DEF LC!GiveUp

LEMMA RejectGivesUp ==
  ASSUME ChannelInv, NEW n \in 1 .. Len(buffer), Reject(n)
  PROVE  LinesInv' /\ LC!GiveUp
  <1>1. /\ FramingInv /\ LinesInv /\ Scans(n) /\ rpc = "read" /\ Over /\ TooLong(Moved(n))
    BY Zenon DEF Reject, ChannelInv, Scans
  <1>2. LinesInv' /\ Pending' = <<>> /\ rpc' = "over" /\ UNCHANGED <<last, writing>>
    BY <1>1, OverLeavesNothing, Zenon
  <1>3. last = NoLine /\ rpc # "over"
    BY <1>1, SMT DEF LinesInv
  <1>4. MaxCommandSize \in Nat /\ MaxCommandSize >= 2
    BY FramingAssumption, SMT
  <1>5. PICK r \in Seq(Byte) : r = Moved(n) /\ Len(r) \in Nat /\ Len(r) > MaxCommandSize
    <2>1. Moved(n) \in Seq(Byte) /\ Len(Moved(n)) \in Nat
      BY <1>1, MovedTyped, Zenon DEF FramingInv
    <2> QED BY <1>1, <2>1, Zenon DEF TooLong
  <1>6. IF Pending = <<>> THEN ~writing
        ELSE Head(Pending) \notin {k \in Line : Len(k) + 2 <= MaxCommandSize}
    <2>1. CASE Finished(r)
      <3>1. r # EndOfLine
        <4>1. Len(EndOfLine) = 2
          BY SMT DEF EndOfLine
        <4>2. Len(r) > 2
          BY <1>4, <1>5, SMT
        <4>3. ~(2 > 2)
          BY SMT
        <4> QED BY <4>1, <4>2, <4>3, Zenon
      <3>2. PICK d \in Seq(Byte) : Pending = <<Body(r)>> \o Lines(d)
        BY <1>1, <1>5, <2>1, <3>1, LineMoved, Zenon
      <3>3. Pending # <<>> /\ Head(Pending) = Body(r)
        BY <3>2, LinesOfBytes, HeadOfLines, Zenon
      <3>4. PICK l \in Seq(Byte) : l = Body(r) /\ Len(l) = Len(r) - 2
        BY <2>1, BodyTyped, Zenon
      <3>5. ~(Len(l) + 2 <= MaxCommandSize)
        BY <1>4, <1>5, <3>4, SMT
      <3> QED BY <3>3, <3>4, <3>5, Zenon
    <2>2. CASE ~Finished(r)
      <3>1. PICK d \in Seq(Byte) : All = r \o d /\ Waits(r)
        BY <1>1, <1>5, <2>2, Gathered, Zenon
      <3>2. Len(r) > 2
        BY <1>4, <1>5, SMT
      <3>3. FirstHas(r, d)
        BY <3>1, <3>2, FirstIsLong, Zenon
      <3>4. Pending = Lines(r \o d)
        BY <3>1, Zenon DEF Pending, All
      <3>5. CASE Pending = <<>>
        <4>1. Left(All) = r \o d
          BY <3>1, <3>3, <3>4, <3>5, Zenon DEF FirstHas
        <4>2. r \o d # <<>>
          BY <3>2, SMT
        <4>3. ~writing
          BY <1>1, <4>1, <4>2, Zenon DEF LinesInv
        <4> QED BY <3>5, <4>3, Zenon
      <3>6. CASE Pending # <<>>
        <4>1. Len(Head(Pending)) + 2 >= Len(r)
          BY <3>3, <3>4, <3>6, Zenon DEF FirstHas
        <4>2. PICK l \in Seq(Byte) : l = Head(Pending)
          <5>1. Pending \in Seq(Seq(Byte))
            BY <3>1, <3>4, LinesOfBytes, AllTyped, <1>1, Zenon
          <5> QED BY <3>6, <5>1, HeadTailProperties, Zenon
        <4>3. Len(l) \in Nat
          BY LenProperties, Zenon
        <4>4. ~(Len(l) + 2 <= MaxCommandSize)
          BY <1>4, <1>5, <4>1, <4>2, <4>3, SMT
        <4> QED BY <3>6, <4>2, <4>4, Zenon
      <3> QED BY <3>5, <3>6, Zenon
    <2> QED BY <2>1, <2>2, Zenon
  <1> QED BY <1>2, <1>3, <1>6, Zenon DEF LC!GiveUp

-----------------------------------------------------------------------------
LEMMA ChannelStep ==
  ChannelInv /\ [Next]_vars => LinesInv' /\ [LC!LNext]_(LC!lvars)
  <1> SUFFICES ASSUME ChannelInv, [Next]_vars
               PROVE  LinesInv' /\ [LC!LNext]_(LC!lvars)
    OBVIOUS
  <1>1. FramingInv'
    BY FramingStep, Zenon DEF ChannelInv
  <1>2. CASE UNCHANGED vars
    <2>1. UNCHANGED LC!lvars /\ LinesInv'
      BY <1>2, Zenon DEF vars, LC!lvars, Pending, LinesInv, ChannelInv, All, Waits
    <2> QED BY <2>1, Zenon
  <1>3. CASE Reader
    <2>1. CASE GetNextCommand
      BY <2>1, CallStutters, Zenon DEF LC!LNext
    <2>2. CASE ReadNonBlocking \/ ReadOne
      BY <1>1, <2>2, ReadsStutter, Zenon
    <2>3. CASE ReadEnd
      BY <2>3, EndGivesUp, Zenon DEF LC!LNext
    <2>4. ASSUME NEW n \in 1 .. Len(buffer), Reject(n) \/ Return(n) \/ SkipBlank(n) \/ Gather(n)
          PROVE  LinesInv' /\ [LC!LNext]_(LC!lvars)
      <3>1. CASE Reject(n)
        BY <3>1, RejectGivesUp, Zenon DEF LC!LNext
      <3>2. CASE Return(n)
        BY <3>2, ReturnReturns, Zenon DEF LC!LNext
      <3>3. CASE SkipBlank(n)
        BY <3>3, SkipStutters, Zenon
      <3>4. CASE Gather(n)
        BY <1>1, <3>4, GatherStutters, Zenon
      <3> QED BY <2>4, <3>1, <3>2, <3>3, <3>4, Zenon
    <2> QED BY <1>3, <2>1, <2>2, <2>3, <2>4, Zenon DEF Reader
  <1>4. CASE Writer
    <2>1. ASSUME NEW l \in Line, SendNextCommand(l)
          PROVE  LinesInv' /\ [LC!LNext]_(LC!lvars)
      BY <2>1, SendWrites, Zenon DEF LC!LNext
    <2>2. ASSUME NEW l \in Line, Hangup(l)
          PROVE  LinesInv' /\ [LC!LNext]_(LC!lvars)
      BY <2>2, HangupLeaves, Zenon DEF LC!LNext
    <2>3. CASE Break
      BY <2>3, BreakLeaves, Zenon DEF LC!LNext
    <2> QED BY <1>4, <2>1, <2>2, <2>3, Zenon DEF Writer
  <1> QED BY <1>2, <1>3, <1>4, Zenon DEF Next, Ends

(***************************************************************************)
(* The refinement.  Whatever the lines, however the bytes are cut up on    *)
(* the way and wherever the connection breaks, get_next_command returns    *)
(* the lines that send_next_command wrote, whole, once and in order, or    *)
(* gives up for one of the reasons LineChannel names.                      *)
(***************************************************************************)
THEOREM FramingCarriesLines == Spec => CarriesLines
  <1>1. Init => LC!LInit /\ LinesInv
    <2> SUFFICES ASSUME Init PROVE LC!LInit /\ LinesInv
      OBVIOUS
    <2>1. /\ wire = <<>> /\ writing = TRUE /\ rpc = "idle" /\ buffer = <<>>
          /\ command = <<>> /\ last = NoLine
      BY Zenon DEF Init
    <2>2. <<>> \o <<>> = <<>>
      BY SMT
    <2>3. All = <<>> /\ Pending = Lines(<<>>)
      BY <2>1, <2>2, Zenon DEF All, Pending
    <2>4. Pending = <<>> /\ Left(All) = <<>> /\ Waits(command)
      BY <2>1, <2>3, CutEmpty, Zenon DEF Waits
    <2>5. rpc # "over"
      BY <2>1, SMT
    <2>6. Pending \in Seq(Line \ {<<>>})
      BY <2>4, EmptySeq, Zenon
    <2> QED BY <2>1, <2>4, <2>5, <2>6, Zenon DEF LC!LInit, LinesInv
  <1>2. FramingInv /\ LinesInv /\ [Next]_vars => LinesInv' /\ [LC!LNext]_(LC!lvars)
    BY ChannelStep, Zenon DEF ChannelInv
  <1> QED
    BY <1>1, <1>2, FramingAlways, PTL DEF Spec, CarriesLines, LC!Channel
=============================================================================
