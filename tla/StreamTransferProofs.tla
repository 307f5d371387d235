------------------------ MODULE StreamTransferProofs ------------------------
(***************************************************************************)
(* Theorems about one transfer, for every file, every buffer size, every   *)
(* way in which the bytes are cut up and every failure: what arrives is a  *)
(* beginning of what the definitions of the two types make of the file,    *)
(* and all of it when both ends say so and the disk has room.              *)
(***************************************************************************)
EXTENDS StreamTransfer, SequenceTheorems, WellFoundedInduction, TLAPS

-----------------------------------------------------------------------------
(***************************************************************************)
(* Induction over the length of a sequence: a set of naturals that holds 0 *)
(* and with each number its successor holds them all.                      *)
(***************************************************************************)
\* Only what follows needs of the order on Nat.
LEMMA NatOrder ==
  \E R : /\ IsWellFoundedOn(R, Nat)
         /\ \A m \in Nat, n \in Nat : m < n => <<m, n>> \in R
  <1>1. \A m \in Nat, n \in Nat : m < n => <<m, n>> \in OpToRel(<, Nat)
    BY SMT DEF OpToRel
  <1> QED
    BY <1>1, NatLessThanWellFounded, Zenon

LEMMA SetInduction ==
  ASSUME NEW S, 0 \in S, \A n \in Nat : n \in S => n + 1 \in S
  PROVE  Nat \subseteq S
  <1> SUFFICES ASSUME Nat \ S # {} PROVE FALSE
    BY Zenon
  <1>1. PICK R : /\ IsWellFoundedOn(R, Nat)
                 /\ \A m \in Nat, n \in Nat : m < n => <<m, n>> \in R
    BY NatOrder, Zenon
  <1>2. PICK x \in Nat \ S : \A y \in Nat \ S : ~(<<y, x>> \in R)
    <2>1. Nat \ S \subseteq Nat
      BY Zenon
    <2> QED
      BY <1>1, <2>1, WFMin, Zenon
  <1>3. x # 0 /\ x - 1 \in Nat /\ x - 1 < x /\ x = (x - 1) + 1
    BY <1>2, SMT
  <1>4. x - 1 \in S
    BY <1>1, <1>2, <1>3, Zenon
  <1> QED
    BY <1>2, <1>3, <1>4, Zenon

\* FromWire, unfolded: whether byte i is kept, one step, and n of them.
Keeps(t, w, i) == t = "I" \/ w[i] # CR \/ i = Len(w) \/ w[i + 1] = CR
Step(t, w, i, s) == IF Keeps(t, w, i) THEN Append(s, w[i]) ELSE s
KeepsUpTo(t, w, n, g) ==
  g = [i \in 0 .. n |-> IF i = 0 THEN <<>> ELSE Step(t, w, i, g[i - 1])]

LEMMA FromWireUnfolds ==
  ASSUME NEW t, NEW w
  PROVE  FromWire(t, w) = (CHOOSE g : KeepsUpTo(t, w, Len(w), g))[Len(w)]
  BY Zenon DEF FromWire, KeepsUpTo, Step, Keeps

LEMMA KeptExists ==
  ASSUME NEW t, NEW w
  PROVE  \A n \in Nat : \E g : KeepsUpTo(t, w, n, g)
  <1> DEFINE S == {n \in Nat : \E g : KeepsUpTo(t, w, n, g)}
  <1>1. 0 \in S
    <2>1. KeepsUpTo(t, w, 0, [i \in 0 .. 0 |-> <<>>])
      BY SMT DEF KeepsUpTo
    <2> QED BY <2>1, SMT
  <1>2. ASSUME NEW n \in Nat, n \in S PROVE n + 1 \in S
    <2>1. PICK g : KeepsUpTo(t, w, n, g)
      BY <1>2, Zenon
    <2> DEFINE h == [i \in 0 .. n + 1 |-> IF i <= n THEN g[i] ELSE Step(t, w, n + 1, g[n])]
    <2>2. KeepsUpTo(t, w, n + 1, h)
      <3>1. \A i \in 0 .. n + 1 : h[i] = IF i = 0 THEN <<>> ELSE Step(t, w, i, h[i - 1])
        <4> TAKE i \in 0 .. n + 1
        <4>1. CASE i = 0
          BY <2>1, <4>1, SMT DEF KeepsUpTo
        <4>2. CASE i # 0 /\ i <= n
          <5>1. h[i] = g[i] /\ h[i - 1] = g[i - 1] /\ i \in 0 .. n
            BY <4>2, SMT
          <5>2. g[i] = Step(t, w, i, g[i - 1])
            BY <2>1, <5>1, <4>2, SMT DEF KeepsUpTo
          <5> QED BY <5>1, <5>2, <4>2, Zenon
        <4>3. CASE i = n + 1
          <5>1. h[i] = Step(t, w, i, g[n]) /\ h[i - 1] = g[n] /\ i # 0
            BY <4>3, SMT
          <5> QED BY <5>1, Zenon
        <4> QED BY <4>1, <4>2, <4>3, SMT
      <3> HIDE DEF h
      <3>2. h = [i \in 0 .. n + 1 |-> h[i]]
        BY Zenon DEF h
      <3> QED BY <3>1, <3>2, Zenon DEF KeepsUpTo
    <2> QED BY <2>2, SMT
  <1> HIDE DEF S
  <1>3. Nat \subseteq S
    BY <1>1, <1>2, SetInduction, Zenon
  <1> QED BY <1>3, Zenon DEF S

Begins(v, w, m) == \A i \in 1 .. m : v[i] = w[i]
Agree(g, h, m) == \A i \in 0 .. m - 1 : h[i] = g[i]

\* Of two streams that begin alike, the same is kept, but for the last byte.
LEMMA KeptAgrees ==
  ASSUME NEW t, NEW w, NEW v, NEW m \in Nat, m <= Len(w), m = Len(v), Len(w) \in Nat,
         Begins(v, w, m),
         NEW g, KeepsUpTo(t, w, Len(w), g),
         NEW h, KeepsUpTo(t, v, Len(v), h)
  PROVE  Agree(g, h, m)
  <1> USE DEF Begins, Agree
  <1> DEFINE S == {i \in Nat : i <= m - 1 => h[i] = g[i]}
  <1>2. 0 \in S
    BY SMT DEF KeepsUpTo
  <1>3. ASSUME NEW i \in Nat, i \in S PROVE i + 1 \in S
    <2>1. CASE i + 1 <= m - 1
      <3>1. /\ g[i + 1] = Step(t, w, i + 1, g[i])
            /\ h[i + 1] = Step(t, v, i + 1, h[i])
        BY <2>1, SMT DEF KeepsUpTo
      <3>2. h[i] = g[i]
        BY <1>3, <2>1, SMT
      <3>3. v[i + 1] = w[i + 1] /\ v[(i + 1) + 1] = w[(i + 1) + 1]
        BY <2>1, SMT
      <3>4. i + 1 # Len(v) /\ i + 1 # Len(w)
        BY <2>1, SMT
      <3>5. Keeps(t, v, i + 1) <=> Keeps(t, w, i + 1)
        BY <3>3, <3>4, Zenon DEF Keeps
      <3>6. h[i + 1] = g[i + 1]
        BY <3>1, <3>2, <3>3, <3>5, Zenon DEF Step
      <3> QED BY <3>6, SMT
    <2> QED BY <2>1, SMT
  <1> HIDE DEF S
  <1>4. Nat \subseteq S
    BY <1>2, <1>3, SetInduction, Zenon
  <1>5. \A i \in 0 .. m - 1 : h[i] = g[i]
    <2> TAKE i \in 0 .. m - 1
    <2>1. i \in Nat /\ i <= m - 1
      BY SMT
    <2> QED BY <1>4, <2>1, Zenon DEF S
  <1> QED BY <1>5, Zenon

LEMMA KeptTyped ==
  ASSUME NEW t, NEW w \in Seq(Byte), NEW g, KeepsUpTo(t, w, Len(w), g)
  PROVE  \A i \in 0 .. Len(w) : g[i] \in Seq(Byte)
  <1> DEFINE S == {i \in Nat : i <= Len(w) => g[i] \in Seq(Byte)}
  <1>1. 0 \in S
    BY SMT DEF KeepsUpTo
  <1>2. ASSUME NEW i \in Nat, i \in S PROVE i + 1 \in S
    <2>1. CASE i + 1 <= Len(w)
      <3>1. g[i + 1] = Step(t, w, i + 1, g[i]) /\ w[i + 1] \in Byte
        BY <2>1, SMT DEF KeepsUpTo
      <3>2. g[i] \in Seq(Byte)
        BY <1>2, <2>1, SMT
      <3>4. Append(g[i], w[i + 1]) \in Seq(Byte)
        BY <3>1, <3>2, AppendProperties, Zenon
      <3>3. g[i + 1] \in Seq(Byte)
        BY <3>1, <3>2, <3>4, Zenon DEF Step
      <3> QED BY <3>3, SMT
    <2> QED BY <2>1, SMT
  <1> HIDE DEF S
  <1>3. Nat \subseteq S
    BY <1>1, <1>2, SetInduction, Zenon
  <1> TAKE i \in 0 .. Len(w)
  <1>4. i \in Nat /\ i <= Len(w)
    BY SMT
  <1> QED BY <1>3, <1>4, Zenon DEF S

\* g[i] is what is kept of the first i bytes of w.
KeptOf(t, w, g) ==
  /\ \A i \in 0 .. Len(w) : g[i] \in Seq(Byte)
  /\ g[0] = <<>>
  /\ \A i \in 1 .. Len(w) : g[i] = Step(t, w, i, g[i - 1])

\* The definition, of w and of every beginning of w: its last byte is kept.
LEMMA FromWireKeeps ==
  ASSUME NEW t, NEW w \in Seq(Byte)
  PROVE  \E g : /\ KeptOf(t, w, g)
                /\ FromWire(t, w) = g[Len(w)]
                /\ FromWire(t, SubSeq(w, 1, 0)) = <<>>
                /\ \A m \in 1 .. Len(w) :
                     FromWire(t, SubSeq(w, 1, m)) = Append(g[m - 1], w[m])
  <1> DEFINE G(v) == CHOOSE h : KeepsUpTo(t, v, Len(v), h)
  <1>1. \A v : Len(v) \in Nat => KeepsUpTo(t, v, Len(v), G(v)) /\ FromWire(t, v) = G(v)[Len(v)]
    BY KeptExists, FromWireUnfolds, Zenon
  <1> HIDE DEF G
  <1>2. PICK g : g = G(w)
    BY Zenon
  <1>3. KeepsUpTo(t, w, Len(w), g) /\ FromWire(t, w) = g[Len(w)]
    BY <1>1, <1>2, SMT
  <1>4. KeptOf(t, w, g)
    <2>1. g[0] = <<>> /\ \A i \in 1 .. Len(w) : g[i] = Step(t, w, i, g[i - 1])
      BY <1>3, SMT DEF KeepsUpTo
    <2> QED BY <1>3, <2>1, KeptTyped, Zenon DEF KeptOf
  <1>5. FromWire(t, SubSeq(w, 1, 0)) = <<>>
    <2>1. PICK v : v = SubSeq(w, 1, 0)
      BY Zenon
    <2>2. Len(v) = 0
      BY <2>1, SMT
    <2>3. KeepsUpTo(t, v, Len(v), G(v)) /\ FromWire(t, v) = G(v)[0]
      BY <1>1, <2>2, SMT
    <2>4. PICK h : h = G(v)
      BY Zenon
    <2>5. KeepsUpTo(t, v, 0, h) /\ FromWire(t, v) = h[0]
      BY <2>2, <2>3, <2>4, Zenon
    <2>6. h[0] = <<>>
      BY <2>5, SMT DEF KeepsUpTo
    <2> QED BY <2>1, <2>5, <2>6, Zenon
  <1>6. ASSUME NEW m \in 1 .. Len(w)
        PROVE  FromWire(t, SubSeq(w, 1, m)) = Append(g[m - 1], w[m])
    <2>1. PICK v : v = SubSeq(w, 1, m)
      BY Zenon
    <2>2. Len(v) = m /\ Len(v) \in Nat
      BY <2>1, SMT
    <2>3. PICK h : h = G(v)
      BY Zenon
    <2>4. KeepsUpTo(t, v, Len(v), h) /\ FromWire(t, v) = h[Len(v)]
      BY <1>1, <2>2, <2>3, Zenon
    <2>5. v[m] = w[m] /\ \A i \in 0 .. m - 1 : h[i] = g[i]
      <3>1. /\ m <= Len(w) /\ Len(w) \in Nat /\ m \in Nat
            /\ v[m] = w[m] /\ Begins(v, w, m)
        BY <2>1, SMT DEF Begins
      <3>2. m = Len(v) /\ KeepsUpTo(t, v, Len(v), h) /\ KeepsUpTo(t, w, Len(w), g)
        BY <2>2, <2>4, <1>3, Zenon
      <3>3. Agree(g, h, m)
        BY <3>1, <3>2, KeptAgrees, Zenon
      <3> QED BY <3>1, <3>3, Zenon DEF Agree
    <2>6. h[m] = Step(t, v, m, h[m - 1])
      BY <2>2, <2>4, SMT DEF KeepsUpTo
    <2>7. h[m - 1] = g[m - 1]
      BY <2>5, SMT
    <2>8. Step(t, v, m, h[m - 1]) = Append(h[m - 1], v[m])
      BY <2>2, Zenon DEF Step, Keeps
    <2> QED BY <2>1, <2>2, <2>4, <2>5, <2>6, <2>7, <2>8, Zenon
  <1> QED BY <1>3, <1>4, <1>5, <1>6, Zenon

-----------------------------------------------------------------------------
(***************************************************************************)
(* ToWire, a byte of the file at a time.                                   *)
(***************************************************************************)
\* What one byte of the file becomes on the wire.
Code(t, b) == IF t = "A" /\ b = LF THEN <<CR, LF>> ELSE <<b>>

\* FlattenSeq, unfolded.
JoinsUpTo(s, n, g) ==
  g = [i \in 1 .. n |-> IF i = 1 THEN s[i] ELSE g[i - 1] \o s[i]]

LEMMA JoinedExists ==
  ASSUME NEW s
  PROVE  \A n \in Nat : \E g : JoinsUpTo(s, n, g)
  <1> DEFINE S == {n \in Nat : \E g : JoinsUpTo(s, n, g)}
  <1>1. 0 \in S
    <2>1. JoinsUpTo(s, 0, [i \in 1 .. 0 |-> <<>>])
      BY SMT DEF JoinsUpTo
    <2> QED BY <2>1, SMT
  <1>2. ASSUME NEW n \in Nat, n \in S PROVE n + 1 \in S
    <2>1. PICK g : JoinsUpTo(s, n, g)
      BY <1>2, Zenon
    <2> DEFINE h == [i \in 1 .. n + 1 |->
                       IF i <= n THEN g[i] ELSE IF i = 1 THEN s[i] ELSE g[n] \o s[i]]
    <2>2. \A i \in 1 .. n + 1 : h[i] = IF i = 1 THEN s[i] ELSE h[i - 1] \o s[i]
      <3> TAKE i \in 1 .. n + 1
      <3>1. CASE i <= n
        <4>1. h[i] = g[i] /\ (i # 1 => h[i - 1] = g[i - 1]) /\ i \in 1 .. n
          BY <3>1, SMT
        <4>2. g[i] = IF i = 1 THEN s[i] ELSE g[i - 1] \o s[i]
          BY <2>1, <4>1, Zenon DEF JoinsUpTo
        <4> QED BY <4>1, <4>2, Zenon
      <3>2. CASE i = n + 1
        <4>1. /\ h[i] = IF i = 1 THEN s[i] ELSE g[n] \o s[i]
              /\ i # 1 => h[i - 1] = g[n]
          BY <3>2, SMT
        <4> QED BY <4>1, Zenon
      <3> QED BY <3>1, <3>2, SMT
    <2>3. h = [i \in 1 .. n + 1 |-> h[i]]
      BY Zenon
    <2> HIDE DEF h
    <2>4. JoinsUpTo(s, n + 1, h)
      BY <2>2, <2>3, Zenon DEF JoinsUpTo
    <2> QED BY <2>4, SMT
  <1> HIDE DEF S
  <1>3. Nat \subseteq S
    BY <1>1, <1>2, SetInduction, Zenon
  <1> QED BY <1>3, Zenon DEF S

LEMMA JoinedIs ==
  ASSUME NEW s, Len(s) \in Nat, Len(s) # 0
  PROVE  \E g : JoinsUpTo(s, Len(s), g) /\ FlattenSeq(s) = g[Len(s)]
  <1>1. FlattenSeq(s) = (CHOOSE g : JoinsUpTo(s, Len(s), g))[Len(s)]
    BY Zenon DEF FlattenSeq, JoinsUpTo
  <1> QED BY <1>1, JoinedExists, Zenon

\* g[k] is what the first k bytes of f become on the wire.
FormOf(t, f, g) ==
  /\ \A k \in 0 .. Len(f) : g[k] \in Seq(Byte)
  /\ g[0] = <<>>
  /\ \A k \in 1 .. Len(f) : g[k] = g[k - 1] \o Code(t, f[k])

LEMMA CodeTyped ==
  ASSUME NEW t, NEW b \in Byte
  PROVE  Code(t, b) \in Seq(Byte)
  <1>1. <<CR, LF>> \in Seq(Byte)
    BY SMT DEF Byte
  <1>2. <<b>> \in Seq(Byte)
    BY SMT
  <1> QED
    BY <1>1, <1>2, Zenon DEF Code

LEMMA ToWireIs ==
  ASSUME NEW t, NEW f \in Seq(Byte)
  PROVE  ToWire(t, f) = FlattenSeq([i \in DOMAIN f |-> Code(t, f[i])])
  BY Zenon DEF ToWire, Code

LEMMA ToWireForms ==
  ASSUME NEW t, NEW f \in Seq(Byte)
  PROVE  \E g : FormOf(t, f, g) /\ ToWire(t, f) = g[Len(f)]
  <1> DEFINE c == [i \in DOMAIN f |-> Code(t, f[i])]
  <1>1. ToWire(t, f) = FlattenSeq(c)
    BY ToWireIs, Zenon
  <1>2. c \in Seq(Seq(Byte)) /\ Len(c) = Len(f) /\ \A i \in 1 .. Len(f) : c[i] = Code(t, f[i])
    <2>1. \A i \in 1 .. Len(f) : Code(t, f[i]) \in Seq(Byte)
      BY CodeTyped, SMT
    <2> QED BY <2>1, SMT
  <1> HIDE DEF c
  <1>3. CASE Len(f) = 0
    <2>1. ToWire(t, f) = <<>>
      BY <1>1, <1>2, <1>3, SMT DEF FlattenSeq
    <2>2. FormOf(t, f, [k \in 0 .. 0 |-> <<>>]) 
      BY <1>3, SMT DEF FormOf
    <2> QED BY <1>3, <2>1, <2>2, SMT
  <1>4. CASE Len(f) # 0
    <2>1. PICK h : JoinsUpTo(c, Len(f), h) /\ FlattenSeq(c) = h[Len(f)]
      <3>1. Len(c) \in Nat /\ Len(c) # 0
        BY <1>2, <1>4, SMT
      <3> QED BY <3>1, <1>2, JoinedIs, Zenon
    <2> DEFINE g == [k \in 0 .. Len(f) |-> IF k = 0 THEN <<>> ELSE h[k]]
    <2>2. g[0] = <<>> /\ \A k \in 1 .. Len(f) : g[k] = h[k]
      BY <1>4, SMT
    <2> HIDE DEF g
    <2>3. /\ h[1] = c[1]
          /\ \A k \in 1 .. Len(f) : k # 1 => h[k] = h[k - 1] \o c[k]
      <3>1. ASSUME NEW k \in 1 .. Len(f)
            PROVE  h[k] = IF k = 1 THEN c[k] ELSE h[k - 1] \o c[k]
        BY <2>1, Zenon DEF JoinsUpTo
      <3>2. 1 \in 1 .. Len(f)
        BY <1>4, SMT
      <3> QED BY <3>1, <3>2, Zenon
    <2>4. ASSUME NEW k \in 1 .. Len(f) PROVE g[k] = g[k - 1] \o c[k]
      <3>1. CASE k = 1
        <4>1. g[k] = h[1] /\ g[k - 1] = <<>> /\ c[1] \in Seq(Byte)
          BY <3>1, <2>2, <1>2, CodeTyped, SMT
        <4>2. <<>> \o c[1] = c[1]
          BY <4>1, ConcatEmptySeq, Zenon
        <4> QED BY <4>1, <4>2, <3>1, <2>3, Zenon
      <3>2. CASE k # 1
        <4>1. g[k] = h[k] /\ g[k - 1] = h[k - 1]
          BY <3>2, <2>2, SMT
        <4> QED BY <4>1, <2>3, <3>2, Zenon
      <3> QED BY <3>1, <3>2, Zenon
    <2> DEFINE S == {k \in Nat : k <= Len(f) => g[k] \in Seq(Byte)}
    <2>5. 0 \in S
      <3>1. g[0] \in Seq(Byte)
        BY <2>2, EmptySeq, Zenon
      <3> QED BY <3>1, SMT
    <2>6. ASSUME NEW k \in Nat, k \in S PROVE k + 1 \in S
      <3> SUFFICES ASSUME k + 1 <= Len(f) PROVE g[k + 1] \in Seq(Byte)
        BY SMT
      <3>1. g[k] \in Seq(Byte)
        BY <2>6, SMT
      <3>2. c[k + 1] \in Seq(Byte)
        BY <1>2, CodeTyped, SMT
      <3>3. g[k] \o c[k + 1] \in Seq(Byte)
        BY <3>1, <3>2, ConcatProperties, Zenon
      <3>4. k + 1 \in 1 .. Len(f) /\ (k + 1) - 1 = k
        BY SMT
      <3> QED BY <2>4, <3>3, <3>4, Zenon
    <2> HIDE DEF S
    <2>7. Nat \subseteq S
      BY <2>5, <2>6, SetInduction, Zenon
    <2>8. \A k \in 0 .. Len(f) : g[k] \in Seq(Byte)
      <3> TAKE k \in 0 .. Len(f)
      <3>1. k \in Nat /\ k <= Len(f)
        BY SMT
      <3> QED BY <2>7, <3>1, Zenon DEF S
    <2>9. FormOf(t, f, g)
      BY <2>2, <2>4, <2>8, <1>2, Zenon DEF FormOf
    <2>10. g[Len(f)] = h[Len(f)]
      BY <2>2, <1>4, SMT
    <2> QED BY <2>1, <2>9, <2>10, <1>1, Zenon
  <1> QED BY <1>3, <1>4, Zenon

Assoc(a, b, c) == (a \o b) \o c = a \o (b \o c)

LEMMA JoinsAssoc ==
  ASSUME NEW S, NEW a \in Seq(S), NEW b \in Seq(S), NEW c \in Seq(S)
  PROVE  Assoc(a, b, c)
  BY SMT DEF Assoc

\* r is q and one byte, u is q and two.
OneLonger(q, b, r) == r \in Seq(Byte) /\ r = q \o <<b>> /\ Len(r) = Len(q) + 1
EndsWithTwo(q, x, y, u) == Len(u) = Len(q) + 2 /\ u[Len(q) + 1] = x /\ u[Len(q) + 2] = y

LEMMA OneMore ==
  ASSUME NEW q \in Seq(Byte), NEW b \in Byte
  PROVE  OneLonger(q, b, Append(q, b))
  <1>1. Append(q, b) \in Seq(Byte) /\ Len(Append(q, b)) = Len(q) + 1
    BY AppendProperties, Zenon
  <1>2. Append(q, b) = q \o <<b>>
    BY AppendIsConcat, Zenon
  <1> QED BY <1>1, <1>2, Zenon DEF OneLonger

LEMMA TwoMore ==
  ASSUME NEW q \in Seq(Byte), NEW x, NEW y
  PROVE  EndsWithTwo(q, x, y, q \o <<x, y>>)
  BY SMT DEF EndsWithTwo

\* w begins with u.
Starts(u, w) == Len(u) <= Len(w) /\ \A j \in 1 .. Len(u) : w[j] = u[j]

LEMMA FormGrows ==
  ASSUME NEW t, NEW f \in Seq(Byte), NEW g, FormOf(t, f, g)
  PROVE  \A i \in 0 .. Len(f) : Starts(g[i], g[Len(f)])
  <1> TAKE i \in 0 .. Len(f)
  <1> DEFINE S == {d \in Nat : i + d <= Len(f) => Starts(g[i], g[i + d])}
  <1>1. 0 \in S
    <2>1. Starts(g[i], g[i])
      BY SMT DEF FormOf, Starts
    <2>2. i + 0 = i
      BY SMT
    <2> QED BY <2>1, <2>2, Zenon
  <1>2. ASSUME NEW d \in Nat, d \in S PROVE d + 1 \in S
    <2> SUFFICES ASSUME i + (d + 1) <= Len(f) PROVE Starts(g[i], g[i + (d + 1)])
      BY SMT
    <2>1. PICK k \in 1 .. Len(f) : k = i + (d + 1) /\ k - 1 = i + d
      BY SMT
    <2>2. Starts(g[i], g[k - 1])
      BY <1>2, <2>1, SMT
    <2>3. PICK u \in Seq(Byte) : u = g[i]
      BY Zenon DEF FormOf
    <2>4. PICK v \in Seq(Byte) : v = g[k - 1]
      BY SMT DEF FormOf
    <2>5. PICK x \in Seq(Byte) : x = Code(t, f[k])
      BY CodeTyped, SMT
    <2>6. g[k] = v \o x
      BY <2>4, <2>5, Zenon DEF FormOf
    <2>7. Starts(u, v) => Starts(u, v \o x)
      BY SMT DEF Starts
    <2> QED BY <2>1, <2>2, <2>3, <2>4, <2>6, <2>7, Zenon
  <1> HIDE DEF S
  <1>3. Nat \subseteq S
    BY <1>1, <1>2, SetInduction, Zenon
  <1>4. PICK d \in Nat : i + d = Len(f)
    <2>1. Len(f) - i \in Nat /\ i + (Len(f) - i) = Len(f)
      BY SMT
    <2> QED BY <2>1, Zenon
  <1>5. i + d <= Len(f)
    BY <1>4, SMT
  <1> QED BY <1>3, <1>4, <1>5, Zenon DEF S

\* at[k] is where the form w of the file f ends for its first k bytes.
Ends(t, f, w, at) ==
  /\ w \in Seq(Byte)
  /\ at \in [0 .. Len(f) -> 0 .. Len(w)]
  /\ at[0] = 0 /\ at[Len(f)] = Len(w)
  /\ \A k \in 1 .. Len(f) :
       IF t = "A" /\ f[k] = LF
       THEN /\ at[k] = at[k - 1] + 2
            /\ w[at[k - 1] + 1] = CR /\ w[at[k - 1] + 2] = LF
       ELSE /\ at[k] = at[k - 1] + 1
            /\ w[at[k - 1] + 1] = f[k]

\* The form of a file, by the places where its bytes end.
LEMMA ToWireEnds ==
  ASSUME NEW t, NEW f \in Seq(Byte)
  PROVE  \E at : Ends(t, f, ToWire(t, f), at)
  <1>1. PICK g : FormOf(t, f, g) /\ ToWire(t, f) = g[Len(f)]
    BY ToWireForms, Zenon
  <1>2. PICK w : w = ToWire(t, f)
    BY Zenon
  <1>3. w = g[Len(f)] /\ w \in Seq(Byte)
    BY <1>1, <1>2, SMT DEF FormOf
  <1> DEFINE at == [k \in 0 .. Len(f) |-> Len(g[k])]
  <1>4. \A k \in 0 .. Len(f) : Starts(g[k], w) /\ g[k] \in Seq(Byte)
    BY <1>1, <1>3, FormGrows, Zenon DEF FormOf
  <1>5. at \in [0 .. Len(f) -> 0 .. Len(w)]
    BY <1>4, <1>3, SMT DEF Starts
  <1>6. at[0] = 0 /\ at[Len(f)] = Len(w)
    BY <1>1, <1>3, SMT DEF FormOf
  <1>7. ASSUME NEW k \in 1 .. Len(f)
        PROVE  IF t = "A" /\ f[k] = LF
               THEN /\ at[k] = at[k - 1] + 2
                    /\ w[at[k - 1] + 1] = CR /\ w[at[k - 1] + 2] = LF
               ELSE /\ at[k] = at[k - 1] + 1
                    /\ w[at[k - 1] + 1] = f[k]
    <2>1. PICK v \in Seq(Byte) : v = g[k - 1]
      BY <1>4, SMT
    <2>2. PICK u \in Seq(Byte) : u = g[k]
      BY <1>4, SMT
    <2>3. f[k] \in Byte
      BY SMT
    <2>4. u = v \o Code(t, f[k]) /\ Starts(u, w)
      <3>1. k \in 0 .. Len(f)
        BY SMT
      <3> QED BY <1>1, <1>4, <2>1, <2>2, <3>1, Zenon DEF FormOf
    <2>5. at[k] = Len(u) /\ at[k - 1] = Len(v)
      BY <2>1, <2>2, SMT
    <2> HIDE DEF at
    <2>6. CASE t = "A" /\ f[k] = LF
      <3>1. u = v \o <<CR, LF>>
        BY <2>4, <2>6, Zenon DEF Code
      <3>2. Len(u) = Len(v) + 2 /\ u[Len(v) + 1] = CR /\ u[Len(v) + 2] = LF
        <4>1. EndsWithTwo(v, CR, LF, u)
          BY <3>1, TwoMore, Zenon
        <4> QED BY <4>1, Zenon DEF EndsWithTwo
      <3>4. Len(v) + 1 \in 1 .. Len(u) /\ Len(v) + 2 \in 1 .. Len(u)
        BY <3>2, SMT
      <3>3. w[Len(v) + 1] = CR /\ w[Len(v) + 2] = LF
        BY <2>4, <3>2, <3>4, Zenon DEF Starts
      <3> QED BY <2>5, <2>6, <3>2, <3>3, Zenon
    <2>7. CASE ~(t = "A" /\ f[k] = LF)
      <3>1. u = v \o <<f[k]>>
        BY <2>4, <2>7, Zenon DEF Code
      <3>2. Len(u) = Len(v) + 1 /\ u[Len(v) + 1] = f[k]
        BY <2>3, <3>1, SMT
      <3>3. Len(v) + 1 \in 1 .. Len(u)
        BY <3>2, SMT
      <3>4. w[Len(v) + 1] = f[k]
        BY <2>4, <3>2, <3>3, Zenon DEF Starts
      <3> QED BY <2>5, <2>7, <3>2, <3>4, Zenon
    <2> QED BY <2>6, <2>7, Zenon
  <1> HIDE DEF at
  <1>8. Ends(t, f, w, at)
    BY <1>3, <1>5, <1>6, <1>7, Zenon DEF Ends
  <1> QED BY <1>2, <1>8, Zenon

-----------------------------------------------------------------------------
(***************************************************************************)
(* Types: every buffer stays within its bound.                             *)
(***************************************************************************)
Buffered(b) == b \in Seq(Byte) /\ Len(b) <= BufferSize

SenderTyped ==
  /\ spc \in {"send"} \cup Over /\ unread \in Seq(Byte)
  /\ Buffered(rbuf) /\ Buffered(sbuf)
  /\ crSent \in BOOLEAN

WireTyped == wire \in Seq(Byte) /\ Len(wire) <= InFlight

ReceiverTyped ==
  /\ rpc \in {"recv"} \cup Over /\ disk \in Seq(Byte)
  /\ Buffered(rcvd) /\ Buffered(wbuf)
  /\ held \in BOOLEAN /\ full \in BOOLEAN

ChosenTyped ==
  content \in Contents /\ rType \in Type /\ wType \in Type /\ broken \in BOOLEAN

LEMMA TypesApart == TypeOK <=> ChosenTyped /\ SenderTyped /\ WireTyped /\ ReceiverTyped
  BY Zenon DEF ChosenTyped, SenderTyped, WireTyped, ReceiverTyped, Buffered, TypeOK

LEMMA TypesTogether ==
  ChosenTyped' /\ SenderTyped' /\ WireTyped' /\ ReceiverTyped' => TypeOK'
  BY Zenon DEF ChosenTyped, SenderTyped, WireTyped, ReceiverTyped, Buffered, TypeOK

LEMMA EmptyBuffered == Buffered(<<>>)
  BY TransferAssumption, SMT DEF Buffered

LEMMA InitTyped == Init => TypeOK
  <1> SUFFICES ASSUME Init PROVE TypeOK
    OBVIOUS
  <1>1. content \in Seq(Byte)
    BY TransferAssumption, Zenon DEF Init, OpenedToRead
  <1>2. ChosenTyped
    BY Zenon DEF Init, OpenedToRead, OpenedToWrite, ChosenTyped
  <1>3. SenderTyped /\ ReceiverTyped
    BY <1>1, EmptyBuffered, EmptySeq, Zenon
    DEF Init, OpenedToRead, OpenedToWrite, SenderTyped, ReceiverTyped
  <1>4. WireTyped
    BY TransferAssumption, SMT DEF Init, WireTyped
  <1> QED BY <1>2, <1>3, <1>4, TypesApart, Zenon

LEMMA AppendBuffered ==
  ASSUME NEW s, Buffered(s), Len(s) # BufferSize, NEW b \in Byte
  PROVE  Buffered(Append(s, b))
  BY TransferAssumption, SMT DEF Buffered

LEMMA OneBuffered ==
  ASSUME NEW b \in Byte
  PROVE  Buffered(<<b>>)
  BY TransferAssumption, SMT DEF Buffered

LEMMA TailBuffered ==
  ASSUME NEW s, Buffered(s), s # <<>>
  PROVE  Head(s) \in Byte /\ Buffered(Tail(s))
  BY TransferAssumption, SMT DEF Buffered

LEMMA ReadFileTyped ==
  ASSUME TypeOK, ReadFile PROVE TypeOK'
  <1>1. ChosenTyped' /\ WireTyped' /\ ReceiverTyped'
    BY TypesApart, Zenon DEF ReadFile, ChosenTyped, WireTyped, ReceiverTyped, chosen, receiving
  <1>2. unread \in Seq(Byte) /\ BufferSize \in Nat
    BY TypesApart, TransferAssumption, Zenon DEF SenderTyped
  <1>3. Buffered(rbuf')
    <2>1. CASE Len(unread) <= BufferSize
      BY <1>2, <2>1, Zenon DEF ReadFile, Buffered
    <2>2. CASE ~(Len(unread) <= BufferSize)
      BY <1>2, <2>2, SMT DEF ReadFile, Buffered, FirstBytes
    <2> QED BY <2>1, <2>2, Zenon
  <1>4. unread' \in Seq(Byte)
    BY <1>2, <1>3, SMT DEF ReadFile, Buffered
  <1>5. SenderTyped'
    BY <1>3, <1>4, TypesApart, Zenon DEF ReadFile, SenderTyped
  <1> QED BY <1>1, <1>5, TypesTogether, Zenon

LEMMA WriteTyped ==
  ASSUME TypeOK, NEW bytes, Buffered(bytes), NEW next, next \in {"send", "done"}, Write(bytes, next)
  PROVE  spc' \in {"send"} \cup Over /\ WireTyped'
  <1>1. CASE Listened /\ Len(wire) + Len(bytes) <= InFlight /\ wire' = wire \o bytes /\ spc' = next
    <2>1. wire \in Seq(Byte) /\ bytes \in Seq(Byte)
      BY TypesApart, Zenon DEF WireTyped, Buffered
    <2>2. WireTyped'
      BY <1>1, <2>1, SMT DEF WireTyped
    <2> QED BY <1>1, <2>2, SMT DEF Over
  <1>2. CASE spc' \in {next, "failed", "killed"} /\ UNCHANGED wire
    BY <1>2, TypesApart, SMT DEF WireTyped, Over
  <1> QED BY <1>1, <1>2, Zenon DEF Write

LEMMA NextByteTyped ==
  ASSUME TypeOK, rbuf # <<>>
  PROVE  NextByte \in Byte
  <1>1. Head(rbuf) \in Byte
    BY TypesApart, TailBuffered, Zenon DEF SenderTyped
  <1>2. CR \in Byte
    BY Zenon DEF Byte
  <1> QED BY <1>1, <1>2, Zenon DEF NextByte

LEMMA SendByteTyped ==
  ASSUME TypeOK, SendByte PROVE TypeOK'
  <1>1. ChosenTyped' /\ ReceiverTyped'
    BY TypesApart, Zenon DEF SendByte, ChosenTyped, ReceiverTyped, chosen, receiving
  <1>2. Buffered(rbuf) /\ Buffered(sbuf) /\ unread \in Seq(Byte) /\ spc \in {"send"} \cup Over
    BY TypesApart, Zenon DEF SenderTyped
  <1>3. Buffered(rbuf') /\ crSent' \in BOOLEAN
    <2>1. Buffered(rbuf')
      BY <1>2, TailBuffered, Zenon DEF SendByte, HandOut
    <2>2. crSent' = AddsCR
      BY Zenon DEF SendByte, HandOut
    <2>3. AddsCR \in BOOLEAN
      BY Zenon DEF AddsCR
    <2> QED BY <2>1, <2>2, <2>3, Zenon
  <1>4. Buffered(sbuf') /\ spc' \in {"send"} \cup Over /\ WireTyped'
    <2>1. NextByte \in Byte
      BY NextByteTyped, Zenon DEF SendByte
    <2>2. CASE Len(sbuf) = BufferSize /\ Write(sbuf, "send") /\ sbuf' = <<NextByte>>
      <3>1. "send" \in {"send", "done"}
        OBVIOUS
      <3> QED BY <1>2, <2>1, <2>2, <3>1, OneBuffered, WriteTyped, Zenon
    <2>3. CASE Len(sbuf) < BufferSize /\ sbuf' = Append(sbuf, NextByte) /\ UNCHANGED <<spc, wire>>
      <3>1. Len(sbuf) # BufferSize
        BY <2>3, TransferAssumption, SMT
      <3>2. WireTyped'
        BY <2>3, TypesApart, Zenon DEF WireTyped
      <3> QED BY <1>2, <2>1, <2>3, <3>1, <3>2, AppendBuffered, Zenon
    <2> QED BY <2>2, <2>3, Zenon DEF SendByte
  <1>5. SenderTyped'
    BY <1>2, <1>3, <1>4, Zenon DEF SendByte, SenderTyped
  <1> QED BY <1>1, <1>4, <1>5, TypesTogether, Zenon

LEMMA SendRestTyped ==
  ASSUME TypeOK, SendRest PROVE TypeOK'
  <1>1. ChosenTyped' /\ ReceiverTyped'
    BY TypesApart, Zenon DEF SendRest, ChosenTyped, ReceiverTyped, chosen, receiving
  <1>2. Buffered(rbuf) /\ Buffered(sbuf) /\ unread \in Seq(Byte) /\ crSent \in BOOLEAN
    BY TypesApart, Zenon DEF SenderTyped
  <1>3. spc' \in {"send"} \cup Over /\ WireTyped'
    <2>1. CASE spc' = "done" /\ UNCHANGED wire
      BY <2>1, TypesApart, SMT DEF WireTyped, Over
    <2>2. CASE Write(sbuf, "done")
      <3>1. "done" \in {"send", "done"}
        OBVIOUS
      <3> QED BY <1>2, <2>2, <3>1, WriteTyped, Zenon
    <2> QED BY <2>1, <2>2, Zenon DEF SendRest
  <1>4. SenderTyped'
    BY <1>2, <1>3, EmptyBuffered, Zenon DEF SendRest, SenderTyped
  <1> QED BY <1>1, <1>3, <1>4, TypesTogether, Zenon

LEMMA SlicesTyped ==
  ASSUME NEW s \in Seq(Byte), NEW n \in Nat, n <= Len(s)
  PROVE  /\ SubSeq(s, 1, n) \in Seq(Byte) /\ Len(SubSeq(s, 1, n)) = n
         /\ SubSeq(s, n + 1, Len(s)) \in Seq(Byte)
         /\ Len(SubSeq(s, n + 1, Len(s))) = Len(s) - n
  BY SMT

LEMMA ResetTyped ==
  ASSUME TypeOK, Reset PROVE TypeOK'
  <1>1. SenderTyped' /\ ReceiverTyped'
    BY TypesApart, Zenon DEF Reset, SenderTyped, ReceiverTyped, sending, receiving
  <1>2. ChosenTyped'
    BY TypesApart, Zenon DEF Reset, ChosenTyped, chosen
  <1>3. PICK n \in 0 .. Len(wire) : wire' = SubSeq(wire, 1, n)
    BY Zenon DEF Reset
  <1>4. wire \in Seq(Byte) /\ Len(wire) <= InFlight
    BY TypesApart, Zenon DEF WireTyped
  <1>5. WireTyped'
    BY <1>3, <1>4, TransferAssumption, SMT DEF WireTyped
  <1> QED BY <1>1, <1>2, <1>5, TypesTogether, Zenon

LEMMA ReceiveTyped ==
  ASSUME TypeOK, Receive PROVE TypeOK'
  <1>1. SenderTyped' /\ ChosenTyped'
    BY TypesApart, Zenon DEF Receive, SenderTyped, ChosenTyped, sending, chosen
  <1>2. PICK n \in 1 .. BufferSize :
          /\ n <= Len(wire)
          /\ rcvd' = SubSeq(wire, 1, n)
          /\ wire' = SubSeq(wire, n + 1, Len(wire))
    BY Zenon DEF Receive
  <1>3. wire \in Seq(Byte) /\ Len(wire) <= InFlight
    BY TypesApart, Zenon DEF WireTyped
  <1>4. WireTyped' /\ Buffered(rcvd')
    BY <1>2, <1>3, TransferAssumption, SMT DEF WireTyped, Buffered
  <1>5. ReceiverTyped'
    BY <1>4, TypesApart, Zenon DEF Receive, ReceiverTyped
  <1> QED BY <1>1, <1>4, <1>5, TypesTogether, Zenon

LEMMA HoldCRTyped ==
  ASSUME TypeOK, HoldCR PROVE TypeOK'
  <1>1. SenderTyped' /\ ChosenTyped' /\ WireTyped'
    BY TypesApart, Zenon DEF HoldCR, SenderTyped, ChosenTyped, WireTyped, sending, chosen
  <1>2. Buffered(rcvd')
    BY TypesApart, TailBuffered, Zenon DEF HoldCR, ReceiverTyped
  <1>3. ReceiverTyped'
    BY <1>2, TypesApart, Zenon DEF HoldCR, ReceiverTyped
  <1> QED BY <1>1, <1>3, TypesTogether, Zenon

\* The write w put the first n of the bytes behind the file d.
Put(w, d, bytes, n) ==
  /\ n \in 0 .. Len(bytes)
  /\ w.disk = d \o SubSeq(bytes, 1, n) /\ w.disk \in Seq(Byte)
  /\ w.ok <=> n > 0
  /\ w.full \in BOOLEAN
  /\ full => w.full /\ n = 0
  /\ ~w.full => n = Len(bytes)

LEMMA WritesPut ==
  ASSUME NEW d \in Seq(Byte), NEW bytes \in Seq(Byte), NEW w \in Writes(d, bytes),
         full \in BOOLEAN
  PROVE  \E n : Put(w, d, bytes, n)
  <1>1. PICK n \in 0 .. Len(bytes), f \in BOOLEAN :
          /\ w = Written(d, bytes, n, f)
          /\ full => f /\ n = 0
          /\ ~f => n = Len(bytes)
    <2>1. 0 \in 0 .. Len(bytes) /\ Len(bytes) \in 0 .. Len(bytes)
          /\ 0 .. Len(bytes) - 1 \subseteq 0 .. Len(bytes)
      BY SMT
    <2>2. CASE full
      BY <2>1, <2>2, Zenon DEF Writes
    <2>3. CASE ~full /\ w = Written(d, bytes, Len(bytes), FALSE)
      BY <2>1, <2>3, Zenon
    <2>4. CASE ~full /\ \E n \in 0 .. Len(bytes) - 1 : w = Written(d, bytes, n, TRUE)
      BY <2>1, <2>4, Zenon
    <2>5. CASE ~full
      <3> DEFINE N == IF "full" \in Faults THEN 0 .. Len(bytes) - 1 ELSE {}
      <3>1. w \in {Written(d, bytes, Len(bytes), FALSE)} \cup {Written(d, bytes, n, TRUE) : n \in N}
        BY <2>5, Zenon DEF Writes
      <3>2. N \subseteq 0 .. Len(bytes) - 1
        BY Zenon
      <3> HIDE DEF N
      <3> QED BY <2>3, <2>4, <2>5, <3>1, <3>2, Zenon
    <2> QED BY <2>2, <2>5, Zenon
  <1>2. /\ w.ok <=> n > 0
        /\ w.disk = d \o SubSeq(bytes, 1, n) /\ w.full = f
    BY <1>1, Zenon DEF Written
  <1>3. d \o SubSeq(bytes, 1, n) \in Seq(Byte)
    BY SlicesTyped, ConcatProperties, SMT
  <1> QED BY <1>1, <1>2, <1>3, Zenon DEF Put

\* Of bytes the first n reach the file; all of them, or the disk is full.
Puts(bytes, n) ==
  /\ n \in 0 .. Len(bytes)
  /\ disk' = disk \o SubSeq(bytes, 1, n) /\ disk' \in Seq(Byte)
  /\ full' \in BOOLEAN
  /\ full => full' /\ n = 0
  /\ ~full' => n = Len(bytes)

LEMMA LeavesPuts ==
  ASSUME disk \in Seq(Byte), full \in BOOLEAN, NEW bytes \in Seq(Byte),
         NEW w \in Writes(disk, bytes), Leaves(w)
  PROVE  \E n : Puts(bytes, n) /\ (w.ok <=> n > 0)
  BY WritesPut, Zenon DEF Leaves, Puts, Put

LEMMA WriteLastPuts ==
  ASSUME disk \in Seq(Byte), full \in BOOLEAN, NEW bytes \in Seq(Byte),
         WriteLast(bytes)
  PROVE  \E n : Puts(bytes, n)
  <1>1. CASE bytes = <<>>
    <2>1. disk' = disk /\ full' = full
      BY <1>1, Zenon DEF WriteLast
    <2>2. disk \o SubSeq(bytes, 1, 0) = disk /\ Len(bytes) = 0
      BY <1>1, SMT
    <2>3. 0 \in 0 .. Len(bytes) /\ 0 = Len(bytes)
      BY <2>2, SMT
    <2>4. Puts(bytes, 0)
      BY <2>1, <2>2, <2>3, Zenon DEF Puts
    <2> QED BY <2>4, Zenon
  <1>2. CASE bytes # <<>>
    BY <1>2, LeavesPuts, Zenon DEF WriteLast
  <1> QED BY <1>1, <1>2, Zenon

\* What the destructor of the write type has to write.
Rest(h) == IF h THEN Append(wbuf, CR) ELSE wbuf

LEMMA DestroyPuts ==
  ASSUME TypeOK, NEW h \in BOOLEAN, NEW next, Destroy(h, next)
  PROVE  \E n : /\ Puts(Rest(h), n)
                /\ \/ rpc' = next /\ Len(Rest(h)) <= n + BufferSize
                   \/ rpc' = "killed"
  <1>1. /\ disk \in Seq(Byte) /\ full \in BOOLEAN
        /\ wbuf \in Seq(Byte) /\ Len(wbuf) <= BufferSize /\ CR \in Byte
        /\ BufferSize \in Nat /\ BufferSize > 0
    <2>1. BufferSize \in Nat /\ BufferSize > 0
      BY TransferAssumption, SMT
    <2> QED BY <2>1, TypesApart, Zenon DEF ReceiverTyped, Buffered, Byte
  <1>2. CASE ~h /\ WriteLast(wbuf) /\ rpc' = next
    <2>1. PICK n : Puts(wbuf, n)
      BY <1>1, <1>2, WriteLastPuts, Zenon
    <2>2. Len(wbuf) <= n + BufferSize
      BY <1>1, <2>1, SMT DEF Puts
    <2> QED BY <1>2, <2>1, <2>2, Zenon DEF Rest
  <1>3. CASE h /\ Len(wbuf) < BufferSize /\ WriteLast(Append(wbuf, CR)) /\ rpc' = next
    <2>1. PICK s \in Seq(Byte) : s = Append(wbuf, CR) /\ Len(s) = Len(wbuf) + 1
      BY <1>1, AppendProperties, Zenon
    <2>2. PICK n : Puts(s, n)
      BY <1>1, <1>3, <2>1, WriteLastPuts, Zenon
    <2>3. Len(s) <= n + BufferSize
      BY <1>1, <1>3, <2>1, <2>2, SMT DEF Puts
    <2> QED BY <1>3, <2>1, <2>2, <2>3, Zenon DEF Rest
  <1>4. ASSUME h, Len(wbuf) = BufferSize, NEW w \in Writes(disk, wbuf),
               \/ /\ w.ok /\ ~w.full
                  /\ \E l \in Writes(w.disk, <<CR>>) : Leaves(l)
                  /\ rpc' = next
               \/ w.ok /\ w.full /\ Leaves(w) /\ rpc' = next
               \/ ~w.ok /\ Leaves(w) /\ rpc' = "killed"
        PROVE  \E n : /\ Puts(Rest(h), n)
                      /\ \/ rpc' = next /\ Len(Rest(h)) <= n + BufferSize
                         \/ rpc' = "killed"
    <2>1. PICK s \in Seq(Byte) : s = Append(wbuf, CR) /\ Len(s) = Len(wbuf) + 1
      BY <1>1, AppendProperties, Zenon
    <2>2. Rest(h) = s
      BY <2>1, <1>4, Zenon DEF Rest
    <2>3. \A n \in 0 .. Len(wbuf) : SubSeq(s, 1, n) = SubSeq(wbuf, 1, n) /\ n \in 0 .. Len(s)
      BY <1>1, <2>1, SMT
    <2>4. CASE Leaves(w) /\ w.ok /\ w.full /\ rpc' = next
      <3>1. PICK n : Puts(wbuf, n) /\ n > 0
        BY <1>1, <2>4, LeavesPuts, Zenon
      <3>2. full'
        BY <2>4, Zenon DEF Leaves
      <3>3. Puts(s, n)
        BY <2>3, <3>1, <3>2, Zenon DEF Puts
      <3>4. Len(s) <= n + BufferSize
        BY <1>1, <1>4, <2>1, <3>1, SMT DEF Puts
      <3> QED BY <2>2, <2>4, <3>3, <3>4, Zenon
    <2>5. CASE Leaves(w) /\ ~w.ok /\ rpc' = "killed"
      <3>1. PICK n : Puts(wbuf, n) /\ ~(n > 0)
        BY <1>1, <2>5, LeavesPuts, Zenon
      <3>2. full'
        <4>1. n # Len(wbuf)
          BY <1>1, <1>4, <3>1, SMT DEF Puts
        <4> QED BY <3>1, <4>1, Zenon DEF Puts
      <3>3. Puts(s, n)
        BY <2>3, <3>1, <3>2, Zenon DEF Puts
      <3> QED BY <2>2, <2>5, <3>3, Zenon
    <2>6. CASE /\ w.ok /\ ~w.full /\ rpc' = next
               /\ \E l \in Writes(w.disk, <<CR>>) : Leaves(l)
      <3>1. ~full /\ w.disk = disk \o wbuf /\ w.disk \in Seq(Byte)
        <4>1. PICK n : Put(w, disk, wbuf, n)
          BY <1>1, WritesPut, Zenon
        <4>2. SubSeq(wbuf, 1, Len(wbuf)) = wbuf
          BY <1>1, SubSeqFull, Zenon
        <4> QED BY <2>6, <4>1, <4>2, Zenon DEF Put
      <3>2. PICK c \in Seq(Byte) : c = <<CR>> /\ Len(c) = 1
        <4>1. <<CR>> \in Seq(Byte) /\ Len(<<CR>>) = 1
          BY <1>1, SMT
        <4> QED BY <4>1, Zenon
      <3>3. PICK l \in Writes(w.disk, c) : Leaves(l)
        BY <2>6, <3>2, Zenon
      <3>4. PICK m \in 0 .. Len(c) :
              /\ disk' = w.disk \o SubSeq(c, 1, m) /\ disk' \in Seq(Byte)
              /\ full' \in BOOLEAN
              /\ ~full' => m = Len(c)
        <4>1. PICK e \in Seq(Byte) : e = w.disk
          BY <3>1, Zenon
        <4>2. l \in Writes(e, c)
          BY <4>1, <3>3, Zenon
        <4>3. c \in Seq(Byte)
          OBVIOUS
        <4>4. PICK m : Put(l, e, c, m)
          BY <1>1, <4>2, <4>3, WritesPut, Zenon
        <4> QED BY <3>3, <4>1, <4>4, Zenon DEF Leaves, Put
      <3>5. PICK n \in 0 .. Len(s) : n = Len(wbuf) + m /\ (~full' => n = Len(s))
        BY <1>1, <2>1, <3>2, <3>4, SMT
      <3>6. disk' = disk \o SubSeq(s, 1, n)
        <4>1. CASE m = 0
          <5>1. SubSeq(s, 1, n) = wbuf
            BY <1>1, <2>1, <3>5, <4>1, SMT
          <5>2. SubSeq(c, 1, m) = <<>>
            BY <4>1, SMT
          <5>3. w.disk \o <<>> = w.disk
            BY <3>1, ConcatEmptySeq, Zenon
          <5> QED BY <3>1, <3>4, <5>1, <5>2, <5>3, Zenon
        <4>2. CASE m = 1
          <5>1. SubSeq(s, 1, n) = s
            BY <1>1, <2>1, <3>5, <4>2, SMT
          <5>2. SubSeq(c, 1, m) = c
            BY <4>2, <3>2, SubSeqFull, Zenon
          <5>3. s = wbuf \o c
            <6>1. OneLonger(wbuf, CR, Append(wbuf, CR))
              BY <1>1, OneMore, Zenon
            <6> QED BY <2>1, <3>2, <6>1, Zenon DEF OneLonger
          <5>4. (disk \o wbuf) \o c = disk \o (wbuf \o c)
            <6>1. Assoc(disk, wbuf, c)
              BY <1>1, JoinsAssoc, Zenon
            <6> QED BY <6>1, Zenon DEF Assoc
          <5> QED BY <3>1, <3>4, <5>1, <5>2, <5>3, <5>4, Zenon
        <4> QED BY <3>2, <4>1, <4>2, SMT
      <3>7. Puts(s, n)
        BY <3>1, <3>4, <3>5, <3>6, Zenon DEF Puts
      <3>8. Len(s) <= n + BufferSize
        BY <1>1, <2>1, <3>2, <3>5, SMT
      <3> QED BY <2>2, <2>6, <3>7, <3>8, Zenon
    <2> QED BY <1>4, <2>4, <2>5, <2>6, Zenon
  <1> QED BY <1>2, <1>3, <1>4, Zenon DEF Destroy

LEMMA RestTyped ==
  ASSUME TypeOK, NEW h
  PROVE  Rest(h) \in Seq(Byte)
  <1>1. wbuf \in Seq(Byte) /\ CR \in Byte
    BY TypesApart, Zenon DEF ReceiverTyped, Buffered, Byte
  <1> QED BY <1>1, AppendProperties, Zenon DEF Rest

LEMMA RecvEndsTyped ==
  ASSUME TypeOK, RecvEnds PROVE TypeOK'
  <1>1. SenderTyped' /\ ChosenTyped' /\ WireTyped'
    BY TypesApart, Zenon DEF RecvEnds, SenderTyped, ChosenTyped, WireTyped, sending, chosen
  <1>2. held \in BOOLEAN
    BY TypesApart, Zenon DEF ReceiverTyped
  <1>3. Destroy(held, "done")
    BY Zenon DEF RecvEnds
  <1>4. PICK n : Puts(Rest(held), n) /\ rpc' \in {"done", "killed"}
    BY <1>2, <1>3, DestroyPuts, Zenon
  <1>5. Discard
    BY <1>3, Zenon DEF Destroy
  <1>6. rpc' \in {"recv"} \cup Over
    BY <1>4, SMT DEF Over
  <1>7. ReceiverTyped'
    BY <1>4, <1>5, <1>6, EmptyBuffered, Zenon DEF ReceiverTyped, Puts, Discard
  <1> QED BY <1>1, <1>7, TypesTogether, Zenon

LEMMA WriteByteTyped ==
  ASSUME TypeOK, WriteByte PROVE TypeOK'
  <1>1. SenderTyped' /\ ChosenTyped' /\ WireTyped'
    BY TypesApart, Zenon DEF WriteByte, SenderTyped, ChosenTyped, WireTyped, sending, chosen
  <1>2. /\ Buffered(rcvd) /\ Buffered(wbuf) /\ disk \in Seq(Byte) /\ wbuf \in Seq(Byte)
        /\ full \in BOOLEAN /\ rpc \in {"recv"} \cup Over
    BY TypesApart, Zenon DEF ReceiverTyped, Buffered
  <1>3. Head(rcvd) \in Byte /\ Buffered(rcvd')
    BY <1>2, TailBuffered, Zenon DEF WriteByte
  <1>4. Buffered(wbuf') /\ disk' \in Seq(Byte) /\ full' \in BOOLEAN
    <2>1. CASE Len(wbuf) = BufferSize
      <3>1. PICK w \in Writes(disk, wbuf) : Leaves(w)
        BY <2>1, Zenon DEF WriteByte
      <3>2. PICK n : Puts(wbuf, n)
        BY <1>2, <3>1, LeavesPuts, Zenon
      <3>3. wbuf' = <<Head(rcvd)>>
        BY <2>1, Zenon DEF WriteByte
      <3> QED BY <1>3, <3>2, <3>3, OneBuffered, Zenon DEF Puts
    <2>2. CASE Len(wbuf) # BufferSize
      <3>1. wbuf' = Append(wbuf, Head(rcvd)) /\ UNCHANGED <<disk, full>>
        BY <2>2, Zenon DEF WriteByte
      <3> QED BY <1>2, <1>3, <2>2, <3>1, AppendBuffered, Zenon
    <2> QED BY <2>1, <2>2, Zenon
  <1>5. held' \in BOOLEAN
    BY Zenon DEF WriteByte, IsCR
  <1>6. ReceiverTyped'
    BY <1>2, <1>3, <1>4, <1>5, Zenon DEF WriteByte, ReceiverTyped
  <1> QED BY <1>1, <1>6, TypesTogether, Zenon

LEMMA WriteFailsTyped ==
  ASSUME TypeOK, WriteFails PROVE TypeOK'
  <1>1. SenderTyped' /\ ChosenTyped' /\ WireTyped'
    BY TypesApart, Zenon DEF WriteFails, SenderTyped, ChosenTyped, WireTyped, sending, chosen
  <1>2. rpc' \in {"recv"} \cup Over
    BY SMT DEF WriteFails, Over
  <1>3. ReceiverTyped'
    BY <1>2, EmptyBuffered, TypesApart, Zenon DEF WriteFails, ReceiverTyped, Discard
  <1> QED BY <1>1, <1>3, TypesTogether, Zenon

LEMMA ReadFailsTyped ==
  ASSUME TypeOK, ReadFails PROVE TypeOK'
  <1>1. WireTyped' /\ ReceiverTyped' /\ ChosenTyped'
    BY TypesApart, Zenon DEF ReadFails, ReceiverTyped, ChosenTyped, WireTyped, receiving, chosen
  <1>2. spc' \in {"send"} \cup Over
    BY SMT DEF ReadFails, Over
  <1>3. SenderTyped'
    BY <1>2, TypesApart, Zenon DEF ReadFails, SenderTyped
  <1> QED BY <1>1, <1>3, TypesTogether, Zenon

LEMMA StutterTyped ==
  ASSUME TypeOK, UNCHANGED vars PROVE TypeOK'
  <1>1. WireTyped' /\ ReceiverTyped' /\ ChosenTyped' /\ SenderTyped'
    BY TypesApart, Zenon
    DEF vars, ReceiverTyped, ChosenTyped, WireTyped, SenderTyped, receiving, sending, chosen
  <1> QED BY <1>1, TypesTogether, Zenon

LEMMA StepTyped == TypeOK /\ [Next]_vars => TypeOK'
  <1> SUFFICES ASSUME TypeOK, [Next]_vars PROVE TypeOK'
    OBVIOUS
  <1>1. CASE Sender
    BY <1>1, ReadFileTyped, ReadFailsTyped, SendByteTyped, SendRestTyped, Zenon DEF Sender
  <1>2. CASE Receiver
    BY <1>2, ReceiveTyped, HoldCRTyped, WriteByteTyped, WriteFailsTyped, RecvEndsTyped, Zenon
    DEF Receiver
  <1> QED BY <1>1, <1>2, ResetTyped, StutterTyped, Zenon DEF Next

(***************************************************************************)
(* No step of send, of recv or of the types writes past the end of a       *)
(* buffer, for every buffer size and every file.                           *)
(***************************************************************************)
THEOREM TransferTyped == Spec => []TypeOK
  BY InitTyped, StepTyped, PTL DEF Spec

-----------------------------------------------------------------------------
(***************************************************************************)
(* Work.                                                                   *)
(***************************************************************************)
Counted ==
  /\ Len(unread) \in Nat /\ Len(rbuf) \in Nat /\ Len(sbuf) \in Nat
  /\ Len(wire) \in Nat /\ Len(rcvd) \in Nat

\* A step of the sender, of the receiver and of the connection alone.
SenderCounts ==
  SenderLeft' + 2 * Len(wire') < SenderLeft + 2 * Len(wire) /\ UNCHANGED <<broken, receiving>>

ReceiverCounts ==
  2 * Len(wire') + ReceiverLeft' < 2 * Len(wire) + ReceiverLeft /\ UNCHANGED <<broken, sending>>

BreakCounts ==
  Len(wire') <= Len(wire) /\ ~broken /\ broken' = TRUE /\ UNCHANGED <<sending, receiving>>

LEMMA EmptyLength == Len(<<>>) = 0
  BY EmptySeq, Zenon

LEMMA WorkCounted == TypeOK => Counted
  <1> SUFFICES ASSUME TypeOK PROVE Counted
    OBVIOUS
  <1>1. /\ unread \in Seq(Byte) /\ rbuf \in Seq(Byte) /\ sbuf \in Seq(Byte)
        /\ wire \in Seq(Byte) /\ rcvd \in Seq(Byte)
    BY TypesApart, Zenon DEF SenderTyped, WireTyped, ReceiverTyped, Buffered
  <1> QED BY <1>1, LenProperties, Zenon DEF Counted

LEMMA ReadFileCounts ==
  ASSUME TypeOK, Counted, ReadFile PROVE SenderCounts
  <1>1. /\ unread \in Seq(Byte) /\ unread # <<>>
        /\ BufferSize \in Nat /\ BufferSize > 0
    BY TypesApart, TransferAssumption, SMT DEF SenderTyped, ReadFile
  <1>2. Len(unread) > 0 /\ Len(unread) \in Nat
    BY <1>1, EmptySeq, LenProperties, SMT
  <1>3. Len(rbuf') > 0 /\ Len(rbuf') <= Len(unread) /\ Len(rbuf') \in Nat
    <2>1. CASE Len(unread) <= BufferSize
      <3>1. rbuf' = unread
        BY <2>1, Zenon DEF ReadFile
      <3> QED BY <1>1, <1>2, <3>1, LenProperties, SMT
    <2>2. CASE ~(Len(unread) <= BufferSize)
      <3>1. rbuf' = SubSeq(unread, 1, BufferSize)
        BY <2>2, Zenon DEF ReadFile, FirstBytes
      <3>2. BufferSize <= Len(unread) /\ BufferSize \in Nat
        BY <1>1, <1>2, <2>2, SMT
      <3>3. Len(rbuf') = BufferSize
        BY <1>1, <3>1, <3>2, SlicesTyped, Zenon
      <3> QED BY <1>1, <3>2, <3>3, Zenon
    <2> QED BY <2>1, <2>2, Zenon
  <1>4. Len(unread') = Len(unread) - Len(rbuf')
    <2>1. unread' = SubSeq(unread, Len(rbuf') + 1, Len(unread))
      BY Zenon DEF ReadFile
    <2> QED BY <1>1, <1>3, <2>1, SlicesTyped, Zenon
  <1>5. Len(rbuf) = 0
    BY EmptyLength, Zenon DEF ReadFile
  <1>6. UNCHANGED <<spc, crSent, sbuf, wire, broken, receiving>>
    BY Zenon DEF ReadFile
  <1>7. SenderLeft' + 2 * Len(wire') < SenderLeft + 2 * Len(wire)
    BY <1>2, <1>3, <1>4, <1>5, <1>6, SMT DEF SenderLeft, Counted
  <1> QED BY <1>6, <1>7, Zenon DEF SenderCounts

\* What is written weighs less on the wire, or nothing.
LEMMA WriteCounts ==
  ASSUME TypeOK, NEW bytes \in Seq(Byte), NEW next, Write(bytes, next)
  PROVE  Len(wire') \in Nat /\ Len(wire') <= Len(wire) + Len(bytes)
  <1>1. wire \in Seq(Byte)
    BY TypesApart, Zenon DEF WireTyped
  <1>2. wire' = wire \o bytes \/ wire' = wire
    BY Zenon DEF Write
  <1>3. Len(wire \o bytes) = Len(wire) + Len(bytes)
    BY <1>1, ConcatProperties, Zenon
  <1>4. Len(wire) \in Nat /\ Len(bytes) \in Nat
    BY <1>1, LenProperties, Zenon
  <1> QED BY <1>2, <1>3, <1>4, SMT

\* A byte handed out, or the CR before it, is taken from the buffer or the flag.
LEMMA HandOutCounts ==
  ASSUME TypeOK, HandOut, rbuf # <<>>
  PROVE  /\ Len(rbuf') \in Nat
         /\ 8 * Len(rbuf') + (IF crSent' THEN 0 ELSE 4) + 4
              <= 8 * Len(rbuf) + (IF crSent THEN 0 ELSE 4)
  <1>1. rbuf \in Seq(Byte) /\ crSent \in BOOLEAN /\ Len(rbuf) \in Nat
    <2>1. rbuf \in Seq(Byte) /\ crSent \in BOOLEAN
      BY TypesApart, Zenon DEF SenderTyped, Buffered
    <2> QED BY <2>1, LenProperties, Zenon
  <1>2. CASE AddsCR
    <2>1. rbuf' = rbuf /\ crSent = FALSE /\ crSent' = TRUE
      BY <1>1, <1>2, Zenon DEF HandOut, AddsCR
    <2> QED BY <1>1, <2>1, SMT
  <1>3. CASE ~AddsCR
    <2>1. Len(rbuf') = Len(rbuf) - 1 /\ crSent' = FALSE
      <3>1. rbuf' = Tail(rbuf)
        BY <1>3, Zenon DEF HandOut
      <3>2. crSent' = FALSE
        BY <1>3, SMT DEF HandOut
      <3> QED BY <1>1, <3>1, <3>2, HeadTailProperties, Zenon
    <2>2. Len(rbuf') \in Nat
      <3>1. Tail(rbuf) \in Seq(Byte)
        BY <1>1, HeadTailProperties, Zenon
      <3> QED BY <1>3, <3>1, LenProperties, Zenon DEF HandOut
    <2> QED BY <1>1, <2>1, <2>2, SMT
  <1> QED BY <1>2, <1>3, Zenon

LEMMA SendByteCounts ==
  ASSUME TypeOK, Counted, SendByte PROVE SenderCounts
  <1>1. /\ Len(rbuf') \in Nat
        /\ 8 * Len(rbuf') + (IF crSent' THEN 0 ELSE 4) + 4
             <= 8 * Len(rbuf) + (IF crSent THEN 0 ELSE 4)
    BY HandOutCounts, Zenon DEF SendByte
  <1>2. spc = "send" /\ UNCHANGED <<unread, broken, receiving>>
    BY Zenon DEF SendByte
  <1>3. /\ Len(sbuf') \in Nat /\ Len(wire') \in Nat
        /\ 3 * Len(sbuf') + 2 * Len(wire') <= 3 * Len(sbuf) + 2 * Len(wire) + 3
    <2>1. sbuf \in Seq(Byte) /\ NextByte \in Byte
      BY TypesApart, NextByteTyped, Zenon DEF SenderTyped, Buffered, SendByte
    <2>2. CASE Write(sbuf, "send") /\ sbuf' = <<NextByte>>
      <3>1. Len(wire') \in Nat /\ Len(wire') <= Len(wire) + Len(sbuf)
        BY <2>1, <2>2, WriteCounts, Zenon
      <3>2. Len(sbuf') = 1
        BY <2>2, SMT
      <3> QED BY <3>1, <3>2, SMT DEF Counted
    <2>3. CASE sbuf' = Append(sbuf, NextByte) /\ wire' = wire
      <3>1. Len(sbuf') = Len(sbuf) + 1
        BY <2>1, <2>3, AppendProperties, Zenon
      <3> QED BY <2>3, <3>1, SMT DEF Counted
    <2> QED BY <2>2, <2>3, Zenon DEF SendByte
  <1>4. SenderLeft' + 2 * Len(wire') < SenderLeft + 2 * Len(wire)
    BY <1>1, <1>2, <1>3, SMT DEF SenderLeft, Counted
  <1> QED BY <1>2, <1>4, Zenon DEF SenderCounts

LEMMA SendRestCounts ==
  ASSUME TypeOK, Counted, SendRest PROVE SenderCounts
  <1>1. Len(wire') \in Nat /\ Len(wire') <= Len(wire) + Len(sbuf) /\ spc' # "send"
    <2>1. CASE sbuf = <<>> /\ spc' = "done" /\ UNCHANGED wire
      BY <2>1, SMT DEF Counted
    <2>2. CASE Write(sbuf, "done")
      <3>1. sbuf \in Seq(Byte)
        BY TypesApart, Zenon DEF SenderTyped, Buffered
      <3>2. spc' # "send"
        BY <2>2, SMT DEF Write
      <3> QED BY <2>2, <3>1, <3>2, WriteCounts, Zenon
    <2> QED BY <2>1, <2>2, Zenon DEF SendRest
  <1>2. /\ spc = "send" /\ UNCHANGED <<unread, rbuf, crSent, broken, receiving>>
        /\ Len(sbuf') = 0
    BY EmptyLength, Zenon DEF SendRest
  <1>3. SenderLeft' + 2 * Len(wire') < SenderLeft + 2 * Len(wire)
    BY <1>1, <1>2, SMT DEF SenderLeft, Counted
  <1> QED BY <1>2, <1>3, Zenon DEF SenderCounts

LEMMA ReadFailsCounts ==
  ASSUME Counted, ReadFails PROVE SenderCounts
  <1>1. /\ spc = "send" /\ spc' # "send"
        /\ UNCHANGED <<unread, rbuf, crSent, sbuf, wire, broken, receiving>>
    BY SMT DEF ReadFails, receiving
  <1>2. SenderLeft' + 2 * Len(wire') < SenderLeft + 2 * Len(wire)
    BY <1>1, SMT DEF SenderLeft, Counted
  <1> QED BY <1>1, <1>2, Zenon DEF SenderCounts

LEMMA ResetCounts ==
  ASSUME TypeOK, Counted, Reset PROVE BreakCounts
  <1>1. Len(wire') <= Len(wire)
    <2>1. PICK n \in 0 .. Len(wire) : wire' = SubSeq(wire, 1, n)
      BY Zenon DEF Reset
    <2>2. n \in Nat /\ n <= Len(wire) /\ wire \in Seq(Byte)
      BY TypesApart, SMT DEF WireTyped, Counted
    <2>3. Len(wire') = n
      BY <2>1, <2>2, SlicesTyped, Zenon
    <2> QED BY <2>2, <2>3, Zenon
  <1> QED BY <1>1, Zenon DEF Reset, BreakCounts

LEMMA ReceiveCounts ==
  ASSUME TypeOK, Counted, Receive PROVE ReceiverCounts
  <1>1. PICK n \in 1 .. BufferSize :
          /\ n <= Len(wire)
          /\ rcvd' = SubSeq(wire, 1, n)
          /\ wire' = SubSeq(wire, n + 1, Len(wire))
    BY Zenon DEF Receive
  <1>2. n \in Nat /\ n > 0 /\ wire \in Seq(Byte)
    BY TransferAssumption, TypesApart, SMT DEF WireTyped
  <1>3. Len(rcvd') = n /\ Len(wire') = Len(wire) - n
    BY <1>1, <1>2, SlicesTyped, Zenon
  <1>4. UNCHANGED <<broken, sending>>
    BY Zenon DEF Receive
  <1>5. rpc' = rpc /\ Len(rcvd) = 0 /\ Len(wire) \in Nat
    BY EmptyLength, Zenon DEF Receive, Counted
  <1>6. 2 * Len(wire') + ReceiverLeft' < 2 * Len(wire) + ReceiverLeft
    <2>1. ReceiverLeft' = Len(rcvd') + (IF rpc = "recv" THEN 1 ELSE 0)
      BY <1>5, Zenon DEF ReceiverLeft
    <2>2. ReceiverLeft = Len(rcvd) + (IF rpc = "recv" THEN 1 ELSE 0)
      BY Zenon DEF ReceiverLeft
    <2> QED BY <1>2, <1>3, <1>5, <2>1, <2>2, SMT
  <1> QED BY <1>4, <1>6, Zenon DEF ReceiverCounts

LEMMA TakeByteCounts ==
  ASSUME TypeOK, Counted, HoldCR \/ WriteByte PROVE ReceiverCounts
  <1>1. rcvd # <<>> /\ rcvd' = Tail(rcvd) /\ UNCHANGED <<sending, broken>>
    BY Zenon DEF HoldCR, WriteByte
  <1>2. rcvd \in Seq(Byte)
    BY TypesApart, Zenon DEF ReceiverTyped, Buffered
  <1>3. Len(rcvd') = Len(rcvd) - 1
    BY <1>1, <1>2, HeadTailProperties, Zenon
  <1>4. Len(wire') = Len(wire) /\ Len(wire) \in Nat /\ Len(rcvd) \in Nat
    BY Zenon DEF HoldCR, WriteByte, Counted
  <1>5. 2 * Len(wire') + ReceiverLeft' < 2 * Len(wire) + ReceiverLeft
    <2>1. PICK c : c = IF rpc = "recv" THEN 1 ELSE 0
      OBVIOUS
    <2>2. c \in Nat
      BY <2>1, SMT
    <2>3. ReceiverLeft' = Len(rcvd') + c /\ ReceiverLeft = Len(rcvd) + c
      BY <2>1, Zenon DEF HoldCR, WriteByte, ReceiverLeft
    <2>4. ReceiverLeft' = ReceiverLeft - 1 /\ ReceiverLeft \in Nat
      BY <1>3, <1>4, <2>2, <2>3, SMT
    <2> QED BY <1>4, <2>4, SMT
  <1> QED BY <1>1, <1>5, Zenon DEF ReceiverCounts

\* recv comes to its end.
LEMMA RecvStopsCounts ==
  ASSUME TypeOK, Counted, WriteFails \/ RecvEnds PROVE ReceiverCounts
  <1>1. rpc = "recv" /\ rpc' # "recv"
    <2>1. CASE WriteFails
      BY <2>1, SMT DEF WriteFails
    <2>2. CASE RecvEnds
      <3>1. held \in BOOLEAN
        BY TypesApart, Zenon DEF ReceiverTyped
      <3>2. Destroy(held, "done") /\ rpc = "recv"
        BY <2>2, Zenon DEF RecvEnds
      <3>3. rpc' \in {"done", "killed"}
        BY <3>1, <3>2, DestroyPuts, Zenon
      <3> QED BY <3>2, <3>3, SMT
    <2> QED BY <2>1, <2>2, Zenon
  <1>2. Discard /\ UNCHANGED <<sending, wire, broken>>
    BY Zenon DEF WriteFails, RecvEnds, Destroy
  <1>3. Len(rcvd') = 0
    BY <1>2, EmptyLength, Zenon DEF Discard
  <1>4. 2 * Len(wire') + ReceiverLeft' < 2 * Len(wire) + ReceiverLeft
    BY <1>1, <1>2, <1>3, SMT DEF ReceiverLeft, Counted
  <1> QED BY <1>2, <1>4, Zenon DEF ReceiverCounts

Weighed == SenderLeft \in Nat /\ ReceiverLeft \in Nat

LEMMA CountedWeighs == Counted => Weighed
  BY SMT DEF Counted, Weighed, SenderLeft, ReceiverLeft

LEMMA StepCounts == TypeOK /\ TypeOK' /\ [Next]_vars => [Work' < Work]_vars
  <1> SUFFICES ASSUME TypeOK, TypeOK', Next PROVE Work' < Work
    BY Zenon
  <1>1. Counted /\ Counted'
    <2>1. Counted
      BY WorkCounted, Zenon
    <2>2. Counted'
      BY WorkCounted, PTL
    <2> QED BY <2>1, <2>2
  <1>2. SenderCounts \/ ReceiverCounts \/ BreakCounts
    <2>1. CASE Sender
      BY <1>1, <2>1, ReadFileCounts, ReadFailsCounts, SendByteCounts, SendRestCounts,
         Zenon DEF Sender
    <2>2. CASE Receiver
      BY <1>1, <2>2, ReceiveCounts, TakeByteCounts, RecvStopsCounts, Zenon DEF Receiver
    <2> QED BY <1>1, <2>1, <2>2, ResetCounts, Zenon DEF Next
  <1>3. /\ SenderLeft \in Nat /\ SenderLeft' \in Nat
        /\ ReceiverLeft \in Nat /\ ReceiverLeft' \in Nat
    <2>1. Weighed
      BY <1>1, CountedWeighs, Zenon
    <2>2. Weighed'
      BY <1>1, CountedWeighs, PTL
    <2> QED BY <2>1, <2>2, Zenon DEF Weighed
  <1>4. Len(wire) \in Nat /\ Len(wire') \in Nat
    BY <1>1, Zenon DEF Counted
  <1>5. /\ Work = SenderLeft + 2 * Len(wire) + ReceiverLeft + (IF broken THEN 0 ELSE 1)
        /\ Work' = SenderLeft' + 2 * Len(wire') + ReceiverLeft' + (IF broken' THEN 0 ELSE 1)
    BY Zenon DEF Work
  <1>6. CASE SenderCounts
    <2>1. /\ ReceiverLeft' = ReceiverLeft /\ broken' = broken
          /\ SenderLeft' + 2 * Len(wire') < SenderLeft + 2 * Len(wire)
      BY <1>6, Zenon DEF SenderCounts, ReceiverLeft, receiving
    <2> QED BY <1>3, <1>4, <1>5, <2>1, SMT
  <1>7. CASE ReceiverCounts
    <2>1. /\ SenderLeft' = SenderLeft /\ broken' = broken
          /\ 2 * Len(wire') + ReceiverLeft' < 2 * Len(wire) + ReceiverLeft
      BY <1>7, Zenon DEF ReceiverCounts, SenderLeft, sending
    <2> QED BY <1>3, <1>4, <1>5, <2>1, SMT
  <1>8. CASE BreakCounts
    <2>1. /\ SenderLeft' = SenderLeft /\ ReceiverLeft' = ReceiverLeft
          /\ ~broken /\ broken' = TRUE /\ Len(wire') <= Len(wire)
      BY <1>8, Zenon DEF BreakCounts, SenderLeft, ReceiverLeft, sending, receiving
    <2> QED BY <1>3, <1>4, <1>5, <2>1, SMT
  <1> QED BY <1>2, <1>6, <1>7, <1>8, Zenon

(***************************************************************************)
(* Every step of send, of recv and of the two types brings the transfer    *)
(* nearer to its end, for every file, every size of the buffers, every way *)
(* of cutting the bytes up and every failure: no loop of theirs runs for   *)
(* ever.                                                                   *)
(***************************************************************************)
THEOREM TransferRunsDown == Spec => EveryStepCounts
  BY StepCounts, TransferTyped, PTL DEF Spec, EveryStepCounts

-----------------------------------------------------------------------------
(***************************************************************************)
(* Pieces of a stream.                                                     *)
(***************************************************************************)
\* s is the part of w that comes after its first i elements.
Part(s, w, i) ==
  /\ i \in Nat /\ i + Len(s) <= Len(w)
  /\ \A j \in 1 .. Len(s) : s[j] = w[i + j]

LEMMA PartEmpty ==
  ASSUME NEW w \in Seq(Byte), NEW i \in 0 .. Len(w)
  PROVE  Part(<<>>, w, i)
  BY SMT DEF Part

LEMMA PartSplits ==
  ASSUME NEW w \in Seq(Byte), NEW s \in Seq(Byte), NEW i, Part(s, w, i),
         NEW m \in 0 .. Len(s)
  PROVE  /\ Part(SubSeq(s, 1, m), w, i)
         /\ Part(SubSeq(s, m + 1, Len(s)), w, i + m)
  <1>0. m \in Nat /\ m <= Len(s)
    BY SMT
  <1>1. PICK u \in Seq(Byte) : u = SubSeq(s, 1, m)
    BY <1>0, SlicesTyped, Zenon
  <1>2. PICK v \in Seq(Byte) : v = SubSeq(s, m + 1, Len(s))
    BY <1>0, SlicesTyped, Zenon
  <1>3. Len(u) = m /\ \A j \in 1 .. m : u[j] = s[j]
    BY <1>1, SMT
  <1>4. Len(v) = Len(s) - m /\ \A j \in 1 .. Len(s) - m : v[j] = s[m + j]
    BY <1>2, SMT
  <1>5. Part(u, w, i)
    BY <1>3, SMT DEF Part
  <1>6. Part(v, w, i + m)
    <2>1. i + m \in Nat /\ (i + m) + Len(v) <= Len(w)
      BY <1>4, SMT DEF Part
    <2>2. ASSUME NEW j \in 1 .. Len(v) PROVE v[j] = w[(i + m) + j]
      <3>1. v[j] = s[m + j] /\ m + j \in 1 .. Len(s)
        BY <1>4, SMT
      <3>2. s[m + j] = w[i + (m + j)]
        BY <3>1, Zenon DEF Part
      <3>3. i + (m + j) = (i + m) + j
        BY SMT DEF Part
      <3> QED BY <3>1, <3>2, <3>3, Zenon
    <2> QED BY <2>1, <2>2, Zenon DEF Part
  <1> QED BY <1>1, <1>2, <1>5, <1>6, Zenon

LEMMA PartTail ==
  ASSUME NEW w \in Seq(Byte), NEW s \in Seq(Byte), NEW i, Part(s, w, i), s # <<>>
  PROVE  /\ i + 1 \in 1 .. Len(w) /\ Head(s) = w[i + 1]
         /\ Part(Tail(s), w, i + 1)
         /\ Len(Tail(s)) = Len(s) - 1 /\ Len(s) # 0
  <1>1. PICK u \in Seq(Byte) : u = Tail(s)
    BY Zenon, HeadTailProperties
  <1>2. /\ Len(u) = Len(s) - 1 /\ Len(s) # 0 /\ Head(s) = s[1]
        /\ \A j \in 1 .. Len(u) : u[j] = s[j + 1]
    BY <1>1, SMT
  <1>3. i + 1 \in 1 .. Len(w) /\ Head(s) = w[i + 1]
    BY <1>2, SMT DEF Part
  <1>4. Part(u, w, i + 1)
    <2>1. i + 1 \in Nat /\ (i + 1) + Len(u) <= Len(w)
      BY <1>2, SMT DEF Part
    <2>2. ASSUME NEW j \in 1 .. Len(u) PROVE u[j] = w[(i + 1) + j]
      <3>1. u[j] = s[j + 1] /\ j + 1 \in 1 .. Len(s) /\ i + (j + 1) = (i + 1) + j
        BY <1>2, SMT DEF Part
      <3>2. s[j + 1] = w[i + (j + 1)]
        BY <3>1, Zenon DEF Part
      <3> QED BY <3>1, <3>2, Zenon
    <2> QED BY <2>1, <2>2, Zenon DEF Part
  <1> QED BY <1>1, <1>2, <1>3, <1>4, Zenon

LEMMA PartAppend ==
  ASSUME NEW w \in Seq(Byte), NEW s \in Seq(Byte), NEW i, Part(s, w, i),
         NEW p \in 1 .. Len(w), p = i + Len(s) + 1
  PROVE  Part(Append(s, w[p]), w, i) /\ Len(Append(s, w[p])) = Len(s) + 1
  <1>1. PICK b \in Byte : b = w[p]
    BY SMT
  <1>2. PICK u \in Seq(Byte) : u = Append(s, b)
    BY AppendProperties, Zenon
  <1>3. Len(u) = Len(s) + 1 /\ u[Len(s) + 1] = w[p] /\ \A j \in 1 .. Len(s) : u[j] = s[j]
    BY <1>1, <1>2, SMT
  <1>4. i \in Nat /\ i + Len(u) <= Len(w)
    BY <1>3, SMT DEF Part
  <1>5. ASSUME NEW j \in 1 .. Len(u) PROVE u[j] = w[i + j]
    <2>1. CASE j \in 1 .. Len(s)
      BY <2>1, <1>3, Zenon DEF Part
    <2>2. CASE j = Len(s) + 1
      <3>1. i + j = p
        BY <2>2, <1>4, SMT
      <3> QED BY <2>2, <3>1, <1>3, Zenon
    <2> QED BY <2>1, <2>2, <1>3, SMT
  <1> QED BY <1>1, <1>2, <1>3, <1>4, <1>5, Zenon DEF Part

LEMMA PartJoins ==
  ASSUME NEW w \in Seq(Byte), NEW s \in Seq(Byte), NEW u \in Seq(Byte), NEW i, NEW m,
         Part(s, w, i), Part(u, w, m), m = i + Len(s)
  PROVE  Part(s \o u, w, i) /\ Len(s \o u) = Len(s) + Len(u)
  <1>1. PICK v \in Seq(Byte) : v = s \o u
    BY ConcatProperties, Zenon
  <1>2. /\ Len(v) = Len(s) + Len(u)
        /\ \A j \in 1 .. Len(v) : v[j] = IF j <= Len(s) THEN s[j] ELSE u[j - Len(s)]
    BY <1>1, SMT
  <1>3. i \in Nat /\ i + Len(v) <= Len(w)
    BY <1>2, SMT DEF Part
  <1>4. ASSUME NEW j \in 1 .. Len(v) PROVE v[j] = w[i + j]
    <2>1. CASE j <= Len(s)
      <3>1. j \in 1 .. Len(s)
        BY <2>1, SMT
      <3> QED BY <1>2, <2>1, <3>1, Zenon DEF Part
    <2>2. CASE ~(j <= Len(s))
      <3>1. j - Len(s) \in 1 .. Len(u) /\ m + (j - Len(s)) = i + j
        BY <1>2, <1>3, <2>2, SMT
      <3> QED BY <1>2, <2>2, <3>1, Zenon DEF Part
    <2> QED BY <2>1, <2>2, Zenon
  <1> QED BY <1>1, <1>2, <1>3, <1>4, Zenon DEF Part

-----------------------------------------------------------------------------
(***************************************************************************)
(* The sender: the bytes that have left its read type are a beginning of   *)
(* the form of its file, and its buffer holds the last of them.            *)
(***************************************************************************)
\* What recv makes of the form w of the file, were it cut off anywhere.
Decodes(w, g) ==
  /\ KeptOf(wType, w, g)
  /\ Arrived(0) = <<>>
  /\ \A m \in 1 .. Len(w) : Arrived(m) = Append(g[m - 1], w[m])

Sizes(w, at, g) ==
  /\ w = Form
  /\ Ends(rType, content, w, at)
  /\ Decodes(w, g)

\* Bytes handed out by the read type, of a file of which k are done with.
Out(at, k) == at[k] + (IF crSent THEN 1 ELSE 0)

\* The first k bytes are done with; crSent is half of one more.
Position(k) ==
  /\ k \in 0 .. Len(content)
  /\ k + Len(rbuf) + Len(unread) = Len(content)
  /\ Part(rbuf, content, k)
  /\ Part(unread, content, k + Len(rbuf))
  /\ crSent => rType = "A" /\ rbuf # <<>> /\ Head(rbuf) = LF

Sending(w, at, k) ==
  /\ Position(k)
  /\ Part(sbuf, w, Out(at, k) - Len(sbuf))
  /\ spc = "done" => rbuf = <<>> /\ unread = <<>> /\ sbuf = <<>>

\* The bytes on their way follow the n that the write type has taken.
InOrder(w, at, k, n) ==
  /\ n \in 0 .. Len(w)
  /\ Part(rcvd, w, n)
  /\ Part(wire, w, n + Len(rcvd))
  /\ ~broken /\ spc \in {"send", "done"} =>
       n + Len(rcvd) + Len(wire) = Out(at, k) - Len(sbuf)

LEMMA SizesTyped ==
  ASSUME TypeOK, NEW w, NEW at, NEW g, Sizes(w, at, g)
  PROVE  /\ content \in Seq(Byte) /\ w \in Seq(Byte)
         /\ \A k \in 0 .. Len(content) : at[k] \in 0 .. Len(w)
         /\ at[Len(content)] = Len(w)
  <1>1. content \in Seq(Byte)
    BY TransferAssumption, TypesApart, Zenon DEF ChosenTyped
  <1>2. Ends(rType, content, w, at)
    BY Zenon DEF Sizes
  <1>3. /\ w \in Seq(Byte) /\ at[Len(content)] = Len(w)
        /\ at \in [0 .. Len(content) -> 0 .. Len(w)]
    BY <1>2, Zenon DEF Ends
  <1>4. \A k \in 0 .. Len(content) : at[k] \in 0 .. Len(w)
    BY <1>3, Zenon
  <1> QED BY <1>1, <1>3, <1>4, Zenon

LEMMA BuffersTyped ==
  ASSUME TypeOK
  PROVE  /\ unread \in Seq(Byte) /\ rbuf \in Seq(Byte) /\ sbuf \in Seq(Byte)
         /\ wire \in Seq(Byte) /\ rcvd \in Seq(Byte) /\ wbuf \in Seq(Byte)
         /\ disk \in Seq(Byte)
         /\ BufferSize \in Nat /\ BufferSize > 0 /\ CR \in Byte
  <1>1. BufferSize \in Nat /\ BufferSize > 0
    BY TransferAssumption, SMT
  <1> QED
    BY <1>1, TypesApart, Zenon DEF SenderTyped, WireTyped, ReceiverTyped, Buffered, Byte

LEMMA SizesStay ==
  ASSUME NEW w, NEW at, NEW g, Sizes(w, at, g), UNCHANGED chosen
  PROVE  Sizes(w, at, g)'
  BY Zenon DEF Sizes, Decodes, Form, Arrived, chosen

LEMMA ReadFileSends ==
  ASSUME TypeOK, NEW w, NEW at, NEW g, Sizes(w, at, g), NEW k, Sending(w, at, k), ReadFile
  PROVE  Sending(w, at, k)' /\ Out(at, k)' = Out(at, k)
  <1>1. content \in Seq(Byte) /\ unread \in Seq(Byte)
    BY SizesTyped, BuffersTyped, Zenon
  <1>2. PICK m \in 0 .. Len(unread) : rbuf' = SubSeq(unread, 1, m) /\ Len(rbuf') = m
    <2>1. CASE Len(unread) <= BufferSize
      <3>1. /\ rbuf' = unread /\ unread = SubSeq(unread, 1, Len(unread))
            /\ Len(unread) \in 0 .. Len(unread)
        BY <1>1, <2>1, SMT DEF ReadFile
      <3> QED BY <3>1, Zenon
    <2>2. CASE ~(Len(unread) <= BufferSize)
      <3>1. rbuf' = SubSeq(unread, 1, BufferSize)
        BY <2>2, Zenon DEF ReadFile, FirstBytes
      <3>2. BufferSize \in 0 .. Len(unread) /\ Len(SubSeq(unread, 1, BufferSize)) = BufferSize
        BY <1>1, <2>2, BuffersTyped, SMT
      <3> QED BY <3>1, <3>2, Zenon
    <2> QED BY <2>1, <2>2, Zenon
  <1>3. /\ unread' = SubSeq(unread, m + 1, Len(unread)) /\ Len(unread') = Len(unread) - m
    <2>1. unread' = SubSeq(unread, m + 1, Len(unread))
      BY <1>2, Zenon DEF ReadFile
    <2> QED BY <1>1, <2>1, SMT
  <1>4. rbuf = <<>> /\ Len(rbuf) = 0
    BY SMT DEF ReadFile
  <1>5. crSent = FALSE /\ crSent' = FALSE /\ content' = content /\ spc' = "send"
    <2>1. crSent \in BOOLEAN
      BY TypesApart, Zenon DEF SenderTyped
    <2> QED BY <1>4, <2>1, Zenon DEF ReadFile, Sending, Position, chosen
  <1>6. k \in 0 .. Len(content) /\ k + Len(unread) = Len(content) /\ Part(unread, content, k)
    BY <1>1, <1>4, SMT DEF Sending, Position
  <1>7. Part(rbuf', content, k) /\ Part(unread', content, k + m)
    BY <1>1, <1>2, <1>3, <1>6, PartSplits, Zenon
  <1>8. k + Len(rbuf') + Len(unread') = Len(content)
    <2>1. k + m + (Len(unread) - m) = Len(content)
      BY <1>1, <1>6, SMT
    <2> QED BY <1>2, <1>3, <2>1, Zenon
  <1>9. Position(k)'
    BY <1>2, <1>5, <1>6, <1>7, <1>8, Zenon DEF Position
  <1>10. Out(at, k)' = Out(at, k) /\ sbuf' = sbuf
    BY <1>5, Zenon DEF Out, ReadFile
  <1> QED BY <1>5, <1>9, <1>10, SMT DEF Sending

LEMMA ReadFailsSends ==
  ASSUME NEW w, NEW at, NEW k, Sending(w, at, k), ReadFails
  PROVE  Sending(w, at, k)' /\ Out(at, k)' = Out(at, k)
  <1>1. Out(at, k)' = Out(at, k) /\ sbuf' = sbuf /\ spc' = "failed"
    BY Zenon DEF ReadFails, Out
  <1>2. Position(k)'
    BY Zenon DEF ReadFails, Position, chosen, Sending
  <1> QED BY <1>1, <1>2, SMT DEF Sending

LEMMA OutTyped ==
  ASSUME TypeOK, NEW w, NEW at, NEW g, Sizes(w, at, g), NEW k, Position(k)
  PROVE  Out(at, k) \in Nat
  <1>1. w \in Seq(Byte) /\ at[k] \in 0 .. Len(w)
    BY SizesTyped, Zenon DEF Position
  <1> QED BY <1>1, SMT DEF Out

\* The next byte is handed out.
LEMMA HandOutMoves ==
  ASSUME TypeOK, NEW w, NEW at, NEW g, Sizes(w, at, g), NEW k, Position(k),
         rbuf # <<>>, HandOut, UNCHANGED <<chosen, unread>>
  PROVE  \E l : /\ Position(l)' /\ Out(at, l)' = Out(at, k) + 1
                /\ Out(at, k) + 1 \in 1 .. Len(w) /\ NextByte = w[Out(at, k) + 1]
  <1>1. content \in Seq(Byte) /\ w \in Seq(Byte) /\ rbuf \in Seq(Byte) /\ unread \in Seq(Byte)
    BY SizesTyped, BuffersTyped, Zenon
  <1>2. /\ k + 1 \in 1 .. Len(content) /\ Head(rbuf) = content[k + 1]
        /\ Part(Tail(rbuf), content, k + 1)
        /\ Len(Tail(rbuf)) = Len(rbuf) - 1
    BY <1>1, PartTail, Zenon DEF Position
  <1>3. crSent \in BOOLEAN /\ rType \in {"A", "I"} /\ k \in 0 .. Len(content)
    BY TypesApart, Zenon DEF SenderTyped, ChosenTyped, Type, Position
  <1>4. PICK l : l = k + 1
    BY Zenon
  <1>5. /\ at[k] \in 0 .. Len(w) /\ at[l] \in 0 .. Len(w)
        /\ IF rType = "A" /\ content[l] = LF
           THEN at[l] = at[k] + 2 /\ w[at[k] + 1] = CR /\ w[at[k] + 2] = LF
           ELSE at[l] = at[k] + 1 /\ w[at[k] + 1] = content[l]
    <2>1. l \in 0 .. Len(content) /\ l \in 1 .. Len(content) /\ l - 1 = k
      BY <1>2, <1>3, <1>4, SMT
    <2>2. Ends(rType, content, w, at)
      BY Zenon DEF Sizes
    <2> QED BY <1>3, <2>1, <2>2, SizesTyped, Zenon DEF Ends
  <1>6. CASE AddsCR
    <2>1. rType = "A" /\ Head(rbuf) = LF /\ ~crSent /\ NextByte = CR /\ crSent' /\ rbuf' = rbuf
      BY <1>6, Zenon DEF AddsCR, NextByte, HandOut
    <2>2. Position(k)'
      BY <2>1, Zenon DEF Position, chosen
    <2>3. Out(at, k) = at[k] /\ Out(at, k)' = at[k] + 1
      BY <1>5, <2>1, SMT DEF Out
    <2>4. at[k] + 1 \in 1 .. Len(w) /\ w[at[k] + 1] = CR
      <3>1. rType = "A" /\ content[l] = LF
        BY <1>2, <1>4, <2>1, Zenon
      <3>2. at[l] = at[k] + 2 /\ w[at[k] + 1] = CR
        BY <1>5, <3>1, Zenon
      <3>3. Len(w) \in Nat
        BY <1>1, LenProperties, Zenon
      <3> QED BY <1>5, <3>2, <3>3, SMT
    <2> QED BY <2>1, <2>2, <2>3, <2>4, Zenon
  <1>7. CASE ~AddsCR
    <2>1. NextByte = content[l] /\ crSent' = FALSE /\ rbuf' = Tail(rbuf)
      BY <1>2, <1>4, <1>7, Zenon DEF AddsCR, NextByte, HandOut
    <2>2. Part(Tail(rbuf), content, l) /\ l \in 0 .. Len(content)
      BY <1>2, <1>3, <1>4, SMT
    <2>3. l + Len(Tail(rbuf)) = k + Len(rbuf)
      BY <1>1, <1>2, <1>3, <1>4, SMT
    <2>4. l + Len(Tail(rbuf)) + Len(unread) = Len(content)
      BY <2>3, Zenon DEF Position
    <2>5. Part(unread, content, l + Len(Tail(rbuf)))
      BY <2>3, Zenon DEF Position
    <2>6. Position(l)'
      BY <2>1, <2>2, <2>4, <2>5, Zenon DEF Position, chosen
    <2>7. Out(at, l)' = at[l]
      BY <1>5, <2>1, SMT DEF Out
    <2>8. CASE crSent
      <3>1. rType = "A" /\ content[l] = LF
        BY <1>2, <1>4, <2>8, Zenon DEF Position
      <3>2. Out(at, k) = at[k] + 1
        BY <2>8, Zenon DEF Out
      <3>3. /\ at[l] = Out(at, k) + 1 /\ Out(at, k) + 1 \in 1 .. Len(w)
            /\ w[Out(at, k) + 1] = content[l]
        BY <1>1, <1>5, <3>1, <3>2, SMT
      <3> QED BY <2>1, <2>6, <2>7, <3>3, Zenon
    <2>9. CASE ~crSent
      <3>1. ~(rType = "A" /\ content[l] = LF)
        BY <1>2, <1>4, <1>7, <2>9, Zenon DEF AddsCR
      <3>2. Out(at, k) = at[k]
        BY <1>5, <2>9, SMT DEF Out
      <3>3. /\ at[l] = Out(at, k) + 1 /\ Out(at, k) + 1 \in 1 .. Len(w)
            /\ w[Out(at, k) + 1] = content[l]
        BY <1>1, <1>5, <3>1, <3>2, SMT
      <3> QED BY <2>1, <2>6, <2>7, <3>3, Zenon
    <2> QED BY <2>8, <2>9, Zenon
  <1> QED BY <1>6, <1>7, Zenon

LEMMA SendByteSends ==
  ASSUME TypeOK, NEW w, NEW at, NEW g, Sizes(w, at, g), NEW k, Sending(w, at, k), SendByte
  PROVE  \E l : Sending(w, at, l)' /\ Out(at, l)' = Out(at, k) + 1
  <1>1. w \in Seq(Byte) /\ sbuf \in Seq(Byte) /\ Out(at, k) \in Nat
    BY SizesTyped, BuffersTyped, OutTyped, Zenon DEF Sending
  <1>2. PICK l : /\ Position(l)' /\ Out(at, l)' = Out(at, k) + 1
                 /\ Out(at, k) + 1 \in 1 .. Len(w) /\ NextByte = w[Out(at, k) + 1]
    BY HandOutMoves, Zenon DEF SendByte, Sending
  <1>3. PICK p : p = Out(at, k) + 1
    BY Zenon
  <1>4. spc' # "done"
    <2>1. CASE Write(sbuf, "send")
      BY <2>1, SMT DEF Write
    <2>2. CASE UNCHANGED <<spc, wire>>
      BY <2>2, SMT DEF SendByte
    <2> QED BY <2>1, <2>2, Zenon DEF SendByte
  <1>5. PICK i : i = Out(at, k) - Len(sbuf) /\ Part(sbuf, w, i)
    BY Zenon DEF Sending
  <1>6. Part(sbuf', w, p - Len(sbuf'))
    <2>1. CASE sbuf' = <<NextByte>>
      <3>1. p - 1 \in 0 .. Len(w) /\ p = (p - 1) + 0 + 1 /\ p \in 1 .. Len(w)
        BY <1>1, <1>2, <1>3, SMT
      <3>2. sbuf' = Append(<<>>, w[p])
        BY <1>2, <1>3, <2>1, SMT
      <3>3. Part(<<>>, w, p - 1) /\ <<>> \in Seq(Byte) /\ Len(<<>>) = 0
        BY <1>1, <3>1, PartEmpty, EmptySeq, Zenon
      <3>4. PICK e \in Seq(Byte), j \in Nat :
              e = <<>> /\ j = p - 1 /\ p = j + Len(e) + 1 /\ Len(e) + 1 = 1 /\ Part(e, w, j)
        <4>1. PICK j \in Nat : j = p - 1
          BY <3>1, SMT
        <4>2. p = j + Len(<<>>) + 1 /\ Len(<<>>) + 1 = 1
          BY <3>1, <4>1, SMT
        <4> QED BY <3>3, <4>1, <4>2, Zenon
      <3>5. Part(Append(e, w[p]), w, j) /\ Len(Append(e, w[p])) = Len(e) + 1
        BY <1>1, <3>1, <3>4, PartAppend, Zenon
      <3> QED BY <3>2, <3>4, <3>5, Zenon
    <2>2. CASE sbuf' = Append(sbuf, NextByte)
      <3>1. p = i + Len(sbuf) + 1 /\ p \in 1 .. Len(w) /\ p - (Len(sbuf) + 1) = i
        BY <1>1, <1>2, <1>3, <1>5, SMT DEF Part
      <3>2. Part(Append(sbuf, w[p]), w, i) /\ Len(Append(sbuf, w[p])) = Len(sbuf) + 1
        BY <1>1, <1>5, <3>1, PartAppend, Zenon
      <3> QED BY <1>2, <1>3, <2>2, <3>1, <3>2, Zenon
    <2> QED BY <2>1, <2>2, Zenon DEF SendByte
  <1>7. Sending(w, at, l)'
    BY <1>2, <1>3, <1>4, <1>6, Zenon DEF Sending
  <1> QED BY <1>2, <1>7, Zenon

LEMMA SendRestSends ==
  ASSUME TypeOK, NEW w, NEW at, NEW g, Sizes(w, at, g), NEW k, Sending(w, at, k), SendRest
  PROVE  /\ Sending(w, at, k)' /\ Out(at, k)' = Out(at, k)
         /\ Out(at, k) = Len(w)
  <1>1. w \in Seq(Byte) /\ content \in Seq(Byte)
    BY SizesTyped, Zenon
  <1>2. ~crSent /\ k = Len(content)
    <2>1. rbuf = <<>> /\ Len(rbuf) = 0 /\ Len(unread) = 0
      BY SMT DEF SendRest
    <2> QED BY <1>1, <2>1, SMT DEF Sending, Position
  <1>3. Out(at, k) = Len(w)
    <2>1. at[k] = Len(w)
      BY <1>2, SizesTyped, Zenon
    <2> QED BY <1>1, <1>2, <2>1, SMT DEF Out
  <1>4. Out(at, k)' = Out(at, k)
    BY Zenon DEF SendRest, Out
  <1>5. Position(k)'
    BY Zenon DEF SendRest, Position, Sending, chosen
  <1>6. Part(<<>>, w, Len(w) - Len(<<>>))
    <2>1. Len(w) \in 0 .. Len(w) /\ Len(w) - Len(<<>>) = Len(w)
      BY <1>1, SMT
    <2> QED BY <1>1, <2>1, PartEmpty, Zenon
  <1>7. rbuf' = <<>> /\ unread' = <<>> /\ sbuf' = <<>>
    BY Zenon DEF SendRest
  <1> QED BY <1>3, <1>4, <1>5, <1>6, <1>7, Zenon DEF Sending

\* A step that leaves the sender alone.
LEMMA SenderRests ==
  ASSUME NEW w, NEW at, NEW k, Sending(w, at, k), UNCHANGED <<chosen, sending>>
  PROVE  Sending(w, at, k)' /\ Out(at, k)' = Out(at, k)
  <1>1. Out(at, k)' = Out(at, k) /\ sbuf' = sbuf /\ spc' = spc /\ rbuf' = rbuf /\ unread' = unread
    BY Zenon DEF Out, sending
  <1>2. Position(k)'
    BY Zenon DEF Position, Sending, chosen, sending
  <1> QED BY <1>1, <1>2, Zenon DEF Sending

-----------------------------------------------------------------------------
(***************************************************************************)
(* The wire and the receiver's buffer: what comes next, in order.          *)
(***************************************************************************)
\* The write has put every byte handed out on its way.
WroteAll(w, at, k, n) ==
  /\ Part(wire', w, n + Len(rcvd))
  /\ ~broken /\ spc' \in {"send", "done"} => n + Len(rcvd) + Len(wire') = Out(at, k)

LEMMA WriteInOrder ==
  ASSUME TypeOK, NEW w \in Seq(Byte), NEW at, NEW k, NEW n,
         Sending(w, at, k), InOrder(w, at, k, n), Out(at, k) \in Nat,
         rpc = "recv", spc = "send", NEW next, Write(sbuf, next)
  PROVE  WroteAll(w, at, k, n)
  <1>1. wire \in Seq(Byte) /\ sbuf \in Seq(Byte) /\ rcvd \in Seq(Byte)
    BY BuffersTyped, Zenon
  <1>2. CASE Listened /\ wire' = wire \o sbuf
    <2>1. n + Len(rcvd) + Len(wire) = Out(at, k) - Len(sbuf)
      BY <1>2, SMT DEF Listened, InOrder
    <2>2. PICK i : i = n + Len(rcvd) /\ Part(wire, w, i)
      BY Zenon DEF InOrder
    <2>3. PICK m : m = Out(at, k) - Len(sbuf) /\ Part(sbuf, w, m)
      BY Zenon DEF Sending
    <2>4. m = i + Len(wire)
      BY <2>1, <2>2, <2>3, Zenon
    <2>5. Part(wire \o sbuf, w, i) /\ Len(wire \o sbuf) = Len(wire) + Len(sbuf)
      BY <1>1, <2>2, <2>3, <2>4, PartJoins, Zenon
    <2>6. i + (Len(wire) + Len(sbuf)) = Out(at, k)
      BY <1>1, <2>2, <2>3, <2>4, SMT DEF Part
    <2> QED BY <1>2, <2>2, <2>5, <2>6, Zenon DEF WroteAll
  <1>3. CASE ~Listened /\ UNCHANGED wire
    BY <1>3, Zenon DEF Listened, InOrder, WroteAll
  <1> QED BY <1>2, <1>3, Zenon DEF Write

LEMMA SendByteInOrder ==
  ASSUME TypeOK, NEW w, NEW at, NEW g, Sizes(w, at, g), NEW k, Sending(w, at, k),
         NEW n, InOrder(w, at, k, n), rpc = "recv", SendByte,
         NEW l, Out(at, l)' = Out(at, k) + 1
  PROVE  InOrder(w, at, l, n)'
  <1>1. w \in Seq(Byte) /\ Out(at, k) \in Nat /\ sbuf \in Seq(Byte)
    BY SizesTyped, OutTyped, BuffersTyped, Zenon DEF Sending
  <1>2. rcvd' = rcvd /\ broken' = broken /\ spc = "send"
    BY Zenon DEF SendByte, receiving
  <1>3. CASE Write(sbuf, "send") /\ sbuf' = <<NextByte>>
    <2>1. /\ Part(wire', w, n + Len(rcvd))
          /\ ~broken /\ spc' \in {"send", "done"} => n + Len(rcvd) + Len(wire') = Out(at, k)
      <3>1. WroteAll(w, at, k, n)
        BY <1>1, <1>2, <1>3, WriteInOrder, Zenon
      <3> QED BY <3>1, Zenon DEF WroteAll
    <2>2. Out(at, l)' - Len(sbuf') = Out(at, k)
      <3>1. Len(<<NextByte>>) = 1
        BY SMT
      <3>2. Len(sbuf') = 1
        BY <1>3, <3>1, Zenon
      <3>3. PICK m \in Nat : m = Out(at, k) /\ Out(at, l)' = m + 1
        BY <1>1, Zenon
      <3>4. (m + 1) - 1 = m
        BY SMT
      <3> QED BY <3>2, <3>3, <3>4, Zenon
    <2> QED BY <1>2, <2>1, <2>2, Zenon DEF InOrder
  <1>4. CASE sbuf' = Append(sbuf, NextByte) /\ UNCHANGED <<spc, wire>>
    <2>1. Len(sbuf') = Len(sbuf) + 1
      BY <1>1, <1>4, SMT
    <2>2. Out(at, l)' - Len(sbuf') = Out(at, k) - Len(sbuf)
      BY <1>1, <2>1, SMT
    <2> QED BY <1>2, <1>4, <2>2, Zenon DEF InOrder
  <1> QED BY <1>3, <1>4, Zenon DEF SendByte

LEMMA SendRestInOrder ==
  ASSUME TypeOK, NEW w, NEW at, NEW g, Sizes(w, at, g), NEW k, Sending(w, at, k),
         NEW n, InOrder(w, at, k, n), rpc = "recv", SendRest,
         Out(at, k)' = Out(at, k)
  PROVE  InOrder(w, at, k, n)'
  <1>1. w \in Seq(Byte) /\ Out(at, k) \in Nat /\ sbuf \in Seq(Byte)
    BY SizesTyped, OutTyped, BuffersTyped, Zenon DEF Sending
  <1>2. rcvd' = rcvd /\ broken' = broken /\ spc = "send" /\ sbuf' = <<>>
    BY Zenon DEF SendRest, receiving
  <1>3. Out(at, k)' - Len(sbuf') = Out(at, k)
    BY <1>1, <1>2, SMT
  <1>4. CASE sbuf = <<>> /\ UNCHANGED wire
    <2>1. Out(at, k) - Len(sbuf) = Out(at, k)
      BY <1>1, <1>4, SMT
    <2>2. spc \in {"send", "done"}
      BY <1>2, SMT
    <2> QED BY <1>2, <1>3, <1>4, <2>1, <2>2, Zenon DEF InOrder
  <1>5. CASE Write(sbuf, "done")
    <2>1. /\ Part(wire', w, n + Len(rcvd))
          /\ ~broken /\ spc' \in {"send", "done"} => n + Len(rcvd) + Len(wire') = Out(at, k)
      <3>1. WroteAll(w, at, k, n)
        BY <1>1, <1>2, <1>5, WriteInOrder, Zenon
      <3> QED BY <3>1, Zenon DEF WroteAll
    <2> QED BY <1>2, <1>3, <2>1, Zenon DEF InOrder
  <1> QED BY <1>4, <1>5, Zenon DEF SendRest

LEMMA ReadFileInOrder ==
  ASSUME NEW w, NEW at, NEW k, NEW n, InOrder(w, at, k, n), ReadFile \/ ReadFails,
         Out(at, k)' = Out(at, k)
  PROVE  InOrder(w, at, k, n)'
  <1>1. /\ rcvd' = rcvd /\ wire' = wire /\ broken' = broken /\ sbuf' = sbuf
        /\ spc = "send" /\ (spc' = "send" \/ spc' = "failed")
    BY Zenon DEF ReadFile, ReadFails, receiving
  <1>2. spc' \in {"send", "done"} => spc \in {"send", "done"}
    BY <1>1, SMT
  <1> QED BY <1>1, <1>2, Zenon DEF InOrder

LEMMA ResetInOrder ==
  ASSUME TypeOK, NEW w \in Seq(Byte), NEW at, NEW k, NEW n, InOrder(w, at, k, n), Reset
  PROVE  InOrder(w, at, k, n)'
  <1>1. wire \in Seq(Byte)
    BY BuffersTyped, Zenon
  <1>2. PICK m \in 0 .. Len(wire) : wire' = SubSeq(wire, 1, m)
    BY Zenon DEF Reset
  <1>3. PICK i : i = n + Len(rcvd) /\ Part(wire, w, i)
    BY Zenon DEF InOrder
  <1>4. Part(wire', w, i)
    BY <1>1, <1>2, <1>3, PartSplits, Zenon
  <1>5. rcvd' = rcvd /\ broken' = TRUE
    BY Zenon DEF Reset, receiving
  <1> QED BY <1>3, <1>4, <1>5, Zenon DEF InOrder

LEMMA ReceiveInOrder ==
  ASSUME TypeOK, NEW w \in Seq(Byte), NEW at, NEW k, NEW n, InOrder(w, at, k, n), Receive
  PROVE  InOrder(w, at, k, n)'
  <1>1. wire \in Seq(Byte) /\ BufferSize \in Nat /\ n \in 0 .. Len(w)
    BY BuffersTyped, Zenon DEF InOrder
  <1>2. PICK m \in 1 .. BufferSize :
          /\ m <= Len(wire) /\ rcvd' = SubSeq(wire, 1, m)
          /\ wire' = SubSeq(wire, m + 1, Len(wire))
    BY Zenon DEF Receive
  <1>3. Len(rcvd) = 0 /\ n + Len(rcvd) = n
    BY <1>1, SMT DEF Receive
  <1>4. m \in 0 .. Len(wire) /\ m \in Nat
    BY <1>1, <1>2, SMT
  <1>5. Part(wire, w, n)
    BY <1>3, Zenon DEF InOrder
  <1>6. Part(rcvd', w, n) /\ Part(wire', w, n + m)
    BY <1>1, <1>2, <1>4, <1>5, PartSplits, Zenon
  <1>7. Len(rcvd') = m /\ Len(wire') = Len(wire) - m
    BY <1>1, <1>2, <1>4, SlicesTyped, Zenon
  <1>8. n + m + (Len(wire) - m) = n + Len(wire)
    BY <1>1, <1>4, SMT
  <1>9. Out(at, k)' = Out(at, k) /\ sbuf' = sbuf /\ spc' = spc /\ broken' = broken
    BY Zenon DEF Receive, Out, sending
  <1>10. ~broken /\ spc \in {"send", "done"} => n + Len(wire) = Out(at, k) - Len(sbuf)
    BY <1>3, Zenon DEF InOrder
  <1> QED BY <1>1, <1>6, <1>7, <1>8, <1>9, <1>10, Zenon DEF InOrder

\* One byte is taken by the write type.
LEMMA TakenInOrder ==
  ASSUME TypeOK, NEW w \in Seq(Byte), NEW at, NEW k, NEW n, InOrder(w, at, k, n),
         rcvd # <<>>, rcvd' = Tail(rcvd), UNCHANGED <<sending, wire, broken>>
  PROVE  /\ InOrder(w, at, k, n + 1)'
         /\ n + 1 \in 1 .. Len(w) /\ n \in 0 .. Len(w) /\ Head(rcvd) = w[n + 1]
  <1>1. wire \in Seq(Byte) /\ rcvd \in Seq(Byte) /\ n \in 0 .. Len(w) /\ Part(rcvd, w, n)
    BY BuffersTyped, Zenon DEF InOrder
  <1>2. /\ n + 1 \in 1 .. Len(w) /\ Head(rcvd) = w[n + 1]
        /\ Part(rcvd', w, n + 1) /\ Len(rcvd') = Len(rcvd) - 1
    BY <1>1, PartTail, Zenon
  <1>3. n + 1 + (Len(rcvd) - 1) = n + Len(rcvd) /\ n + 1 \in 0 .. Len(w)
    BY <1>1, <1>2, SMT
  <1>4. Out(at, k)' = Out(at, k) /\ sbuf' = sbuf /\ spc' = spc
    BY Zenon DEF Out, sending
  <1> QED BY <1>1, <1>2, <1>3, <1>4, Zenon DEF InOrder

-----------------------------------------------------------------------------
(***************************************************************************)
(* The write type: what it has stored is what it has let through.          *)
(***************************************************************************)
\* What the write type has let through of the first n bytes, h of them held.
Through(w, g, n, h) ==
  IF n = 0 THEN <<>> ELSE IF h THEN g[n - 1] ELSE Append(g[n - 1], w[n])

\* The byte taken last is held back, or was a CR that followed one.
LastIsCR(w, n) == wType = "A" /\ n # 0 /\ w[n] = CR

\* What is let through is on the disk or in the buffer, without a hole.
Stored(w, g, n) ==
  /\ held = LastIsCR(w, n)
  /\ LET s == Through(w, g, n, held)
     IN IF full THEN Starts(disk, s) /\ Len(s) < Len(disk) + Len(wbuf) + BufferSize
                ELSE disk \o wbuf = s

LEMMA ThroughIs ==
  ASSUME NEW w \in Seq(Byte), NEW g, Decodes(w, g), NEW n \in 0 .. Len(w)
  PROVE  /\ g[n] \in Seq(Byte)
         /\ Through(w, g, n, LastIsCR(w, n)) \in Seq(Byte)
         /\ Arrived(n) \in Seq(Byte)
         /\ Arrived(n) = IF LastIsCR(w, n) THEN Append(Through(w, g, n, LastIsCR(w, n)), CR)
                         ELSE Through(w, g, n, LastIsCR(w, n))
  <1>1. \A i \in 0 .. Len(w) : g[i] \in Seq(Byte)
    BY Zenon DEF Decodes, KeptOf
  <1>2. CASE n = 0
    <2>1. <<>> \in Seq(Byte) /\ ~LastIsCR(w, n) /\ Arrived(n) = <<>>
      BY <1>2, EmptySeq, Zenon DEF LastIsCR, Decodes
    <2> QED BY <1>1, <1>2, <2>1, Zenon DEF Through
  <1>3. CASE n # 0
    <2>1. n - 1 \in 0 .. Len(w) /\ n \in 1 .. Len(w)
      BY <1>3, SMT
    <2>2. PICK b \in Byte : b = w[n]
      BY <2>1, SMT
    <2>3. g[n - 1] \in Seq(Byte) /\ Append(g[n - 1], b) \in Seq(Byte)
      BY <1>1, <2>1, AppendProperties, Zenon
    <2>4. Arrived(n) = Append(g[n - 1], b)
      BY <2>1, <2>2, Zenon DEF Decodes
    <2> QED BY <1>1, <1>3, <2>2, <2>3, <2>4, Zenon DEF Through, LastIsCR
  <1> QED BY <1>2, <1>3, Zenon

\* What is kept of the bytes before one more has come.
LEMMA KeptIsThrough ==
  ASSUME wType \in Type, NEW w \in Seq(Byte), NEW g, Decodes(w, g), NEW n \in 0 .. Len(w),
         n + 1 \in 1 .. Len(w)
  PROVE  LET s == Through(w, g, n, LastIsCR(w, n))
         IN  g[n] = IF LastIsCR(w, n) /\ w[n + 1] = CR THEN Append(s, CR) ELSE s
  <1>1. g[0] = <<>> /\ \A i \in 1 .. Len(w) : g[i] = Step(wType, w, i, g[i - 1])
    BY Zenon DEF Decodes, KeptOf
  <1>2. CASE n = 0
    BY <1>1, <1>2, Zenon DEF Through, LastIsCR
  <1>3. CASE n # 0
    <2>1. n \in 1 .. Len(w) /\ n # Len(w)
      BY <1>3, SMT
    <2>2. g[n] = IF Keeps(wType, w, n) THEN Append(g[n - 1], w[n]) ELSE g[n - 1]
      BY <1>1, <2>1, Zenon DEF Step
    <2>3. Keeps(wType, w, n) <=> wType = "I" \/ w[n] # CR \/ w[n + 1] = CR
      BY <2>1, Zenon DEF Keeps
    <2>4. wType = "A" <=> ~(wType = "I")
      BY SMT DEF Type
    <2>5. CASE LastIsCR(w, n)
      <3>1. Through(w, g, n, LastIsCR(w, n)) = g[n - 1] /\ w[n] = CR /\ ~(wType = "I")
        BY <1>3, <2>4, <2>5, Zenon DEF Through, LastIsCR
      <3> QED BY <2>2, <2>3, <2>5, <3>1, Zenon
    <2>6. CASE ~LastIsCR(w, n)
      <3>1. Through(w, g, n, LastIsCR(w, n)) = Append(g[n - 1], w[n]) /\ Keeps(wType, w, n)
        BY <1>3, <2>3, <2>4, <2>6, Zenon DEF Through, LastIsCR
      <3> QED BY <2>2, <2>6, <3>1, Zenon
    <2> QED BY <2>5, <2>6, Zenon
  <1> QED BY <1>2, <1>3, Zenon

\* Of w, n bytes have been taken and b comes next; it is held back, or let
\* through with what was held back before it.
Follows(w, n, b) == n + 1 \in 1 .. Len(w) /\ b = w[n + 1] /\ held = LastIsCR(w, n)
Withheld(w, g, n) == LastIsCR(w, n + 1) /\ Through(w, g, n + 1, TRUE) = Through(w, g, n, held)
LetThrough(w, g, n, b) ==
  /\ LastIsCR(w, n + 1) = IsCR(b)
  /\ Through(w, g, n + 1, IsCR(b)) = Append(Through(w, g, n, held), b)

\* One more byte: it is held back, or let through.
LEMMA OneMoreThrough ==
  ASSUME TypeOK, NEW w \in Seq(Byte), NEW g, Decodes(w, g), NEW n \in 0 .. Len(w),
         NEW b, Follows(w, n, b)
  PROVE  (HoldsBack(b) => Withheld(w, g, n)) /\ (~HoldsBack(b) => LetThrough(w, g, n, b))
  <1>0. n + 1 \in 1 .. Len(w) /\ b = w[n + 1] /\ held = LastIsCR(w, n)
    BY Zenon DEF Follows
  <1>1. wType \in Type /\ held \in BOOLEAN
    BY TypesApart, Zenon DEF ChosenTyped, ReceiverTyped
  <1>2. g[n] = IF held /\ b = CR THEN Append(Through(w, g, n, held), CR) ELSE Through(w, g, n, held)
    BY <1>0, <1>1, KeptIsThrough, Zenon
  <1>3. n + 1 # 0 /\ (n + 1) - 1 = n
    BY SMT
  <1>4. LastIsCR(w, n + 1) <=> IsCR(b)
    BY <1>0, <1>3, Zenon DEF LastIsCR, IsCR
  <1>5. LastIsCR(w, n + 1) \in BOOLEAN /\ IsCR(b) \in BOOLEAN
    BY Zenon DEF LastIsCR, IsCR
  <1>6. LastIsCR(w, n + 1) = IsCR(b)
    <2>1. CASE IsCR(b)
      <3>1. LastIsCR(w, n + 1) = TRUE /\ IsCR(b) = TRUE
        BY <1>4, <1>5, <2>1, Zenon
      <3> QED BY <3>1, Zenon
    <2>2. CASE ~IsCR(b)
      <3>1. LastIsCR(w, n + 1) = FALSE /\ IsCR(b) = FALSE
        BY <1>4, <1>5, <2>2, Zenon
      <3> QED BY <3>1, Zenon
    <2> QED BY <2>1, <2>2, Zenon
  <1>7. \A h \in BOOLEAN : Through(w, g, n + 1, h) = IF h THEN g[n] ELSE Append(g[n], b)
    BY <1>0, <1>3, Zenon DEF Through
  <1>8. ASSUME HoldsBack(b)
        PROVE  LastIsCR(w, n + 1) /\ Through(w, g, n + 1, TRUE) = Through(w, g, n, held)
    <2>1. IsCR(b) /\ ~held
      BY <1>8, Zenon DEF HoldsBack, IsCR
    <2> QED BY <1>2, <1>6, <1>7, <2>1, Zenon
  <1>9. ASSUME ~HoldsBack(b)
        PROVE  Through(w, g, n + 1, IsCR(b)) = Append(Through(w, g, n, held), b)
    <2>1. CASE IsCR(b)
      <3>1. held /\ b = CR
        BY <1>1, <1>9, <2>1, Zenon DEF HoldsBack, IsCR
      <3>2. IsCR(b) = TRUE
        BY <1>5, <2>1, Zenon
      <3> QED BY <1>2, <1>7, <3>1, <3>2, Zenon
    <2>2. CASE ~IsCR(b)
      <3>1. IsCR(b) = FALSE
        BY <1>5, <2>2, Zenon
      <3>2. ~(held /\ b = CR)
        <4>1. held => wType = "A"
          BY <1>0, Zenon DEF LastIsCR
        <4> QED BY <2>2, <4>1, Zenon DEF IsCR
      <3> QED BY <1>2, <1>7, <3>1, <3>2, Zenon
    <2> QED BY <2>1, <2>2, Zenon
  <1> QED BY <1>6, <1>8, <1>9, Zenon DEF Withheld, LetThrough

LEMMA HoldCRStores ==
  ASSUME TypeOK, NEW w \in Seq(Byte), NEW g, Decodes(w, g), NEW n \in 0 .. Len(w),
         n + 1 \in 1 .. Len(w), Stored(w, g, n), Head(rcvd) = w[n + 1], HoldCR
  PROVE  Stored(w, g, n + 1)'
  <1>1. HoldsBack(Head(rcvd)) /\ held' = TRUE /\ held = LastIsCR(w, n)
    BY Zenon DEF HoldCR, Stored
  <1>2. LastIsCR(w, n + 1) /\ Through(w, g, n + 1, TRUE) = Through(w, g, n, held)
    <2>1. Follows(w, n, Head(rcvd))
      BY <1>1, Zenon DEF Follows
    <2>2. Withheld(w, g, n)
      BY <1>1, <2>1, OneMoreThrough, Zenon
    <2> QED BY <2>2, Zenon DEF Withheld
  <1>3. LastIsCR(w, n + 1) = TRUE /\ LastIsCR(w, n + 1)' = LastIsCR(w, n + 1)
    BY <1>2, Zenon DEF LastIsCR, HoldCR, chosen
  <1>4. disk' = disk /\ wbuf' = wbuf /\ full' = full
    BY Zenon DEF HoldCR
  <1>5. Through(w, g, n + 1, held)' = Through(w, g, n, held)
    BY <1>1, <1>2, Zenon DEF Through
  <1> QED BY <1>1, <1>3, <1>4, <1>5, Zenon DEF Stored

LEMMA StartsLonger ==
  ASSUME NEW d \in Seq(Byte), NEW s \in Seq(Byte), NEW u \in Seq(Byte), Starts(d, s)
  PROVE  Starts(d, s \o u) /\ Len(s \o u) = Len(s) + Len(u)
  <1>1. PICK v \in Seq(Byte) : v = s \o u
    BY ConcatProperties, Zenon
  <1>2. Len(v) = Len(s) + Len(u) /\ \A j \in 1 .. Len(s) : v[j] = s[j]
    BY <1>1, SMT
  <1>3. Starts(d, v)
    BY <1>2, SMT DEF Starts
  <1> QED BY <1>1, <1>2, <1>3, Zenon

\* Of d and bytes, written in part.
LEMMA PutStarts ==
  ASSUME NEW d \in Seq(Byte), NEW u \in Seq(Byte), NEW m \in 0 .. Len(u)
  PROVE  /\ Starts(d \o SubSeq(u, 1, m), d \o u)
         /\ Len(d \o SubSeq(u, 1, m)) = Len(d) + m
         /\ Len(d \o u) = Len(d) + Len(u)
         /\ m = Len(u) => d \o SubSeq(u, 1, m) = d \o u
  <1>1. PICK x \in Seq(Byte) : x = SubSeq(u, 1, m) /\ Len(x) = m
    <2>1. m \in Nat /\ m <= Len(u)
      BY SMT
    <2> QED BY <2>1, SlicesTyped, Zenon
  <1>2. \A j \in 1 .. m : x[j] = u[j]
    BY <1>1, SMT
  <1>3. PICK y \in Seq(Byte) : y = d \o x
    BY ConcatProperties, Zenon
  <1>4. PICK v \in Seq(Byte) : v = d \o u
    BY ConcatProperties, Zenon
  <1>5. /\ Len(y) = Len(d) + m
        /\ \A j \in 1 .. Len(y) : y[j] = IF j <= Len(d) THEN d[j] ELSE x[j - Len(d)]
    BY <1>1, <1>3, SMT
  <1>6. /\ Len(v) = Len(d) + Len(u)
        /\ \A j \in 1 .. Len(v) : v[j] = IF j <= Len(d) THEN d[j] ELSE u[j - Len(d)]
    BY <1>4, SMT
  <1>7. Starts(y, v)
    <2>1. Len(y) <= Len(v)
      BY <1>5, <1>6, SMT
    <2>2. ASSUME NEW j \in 1 .. Len(y) PROVE v[j] = y[j]
      <3>1. j \in 1 .. Len(v) /\ (~(j <= Len(d)) => j - Len(d) \in 1 .. m)
        BY <1>5, <1>6, SMT
      <3> QED BY <1>2, <1>5, <1>6, <3>1, Zenon
    <2> QED BY <2>1, <2>2, Zenon DEF Starts
  <1>8. m = Len(u) => x = u
    BY <1>1, SubSeqFull, Zenon
  <1> QED BY <1>1, <1>3, <1>4, <1>5, <1>6, <1>7, <1>8, Zenon

LEMMA DiskJoins ==
  ASSUME TypeOK, NEW c \in Seq(Byte)
  PROVE  (disk \o wbuf) \o c = disk \o (wbuf \o c)
  <1>1. disk \in Seq(Byte) /\ wbuf \in Seq(Byte)
    BY BuffersTyped, Zenon
  <1>2. Assoc(disk, wbuf, c)
    BY <1>1, JoinsAssoc, Zenon
  <1> QED BY <1>2, Zenon DEF Assoc

LEMMA WriteByteStores ==
  ASSUME TypeOK, NEW w \in Seq(Byte), NEW g, Decodes(w, g), NEW n \in 0 .. Len(w),
         n + 1 \in 1 .. Len(w), Stored(w, g, n), Head(rcvd) = w[n + 1], WriteByte
  PROVE  Stored(w, g, n + 1)'
  <1>1. PICK b \in Byte : b = Head(rcvd) /\ b = w[n + 1]
    BY SMT
  <1>2. ~HoldsBack(b) /\ held' = IsCR(b) /\ held = LastIsCR(w, n) /\ wType' = wType
    BY <1>1, Zenon DEF WriteByte, Stored, chosen
  <1>3. PICK s \in Seq(Byte) : s = Through(w, g, n, held)
    BY <1>2, ThroughIs, Zenon
  <1>4. LastIsCR(w, n + 1) = IsCR(b) /\ Through(w, g, n + 1, IsCR(b)) = Append(s, b)
    <2>1. Follows(w, n, b)
      BY <1>1, <1>2, Zenon DEF Follows
    <2>2. LetThrough(w, g, n, b)
      BY <1>2, <2>1, OneMoreThrough, Zenon
    <2> QED BY <1>3, <2>2, Zenon DEF LetThrough
  <1>5. PICK c \in Seq(Byte) : c = <<b>> /\ Len(c) = 1
    <2>1. <<b>> \in Seq(Byte) /\ Len(<<b>>) = 1
      BY SMT
    <2> QED BY <2>1, Zenon
  <1>6. PICK v \in Seq(Byte) : v = Append(s, b) /\ v = s \o c /\ Len(v) = Len(s) + 1
    <2>1. OneLonger(s, b, Append(s, b))
      BY OneMore, Zenon
    <2>2. /\ Append(s, b) \in Seq(Byte) /\ Len(Append(s, b)) = Len(s) + 1
          /\ Append(s, b) = s \o <<b>>
      BY <2>1, Zenon DEF OneLonger
    <2> QED BY <1>5, <2>2, Zenon
  <1>7. held' = LastIsCR(w, n + 1)' /\ Through(w, g, n + 1, held)' = v
    BY <1>2, <1>4, <1>6, Zenon DEF LastIsCR, Through
  <1>8. /\ disk \in Seq(Byte) /\ wbuf \in Seq(Byte) /\ full \in BOOLEAN
        /\ BufferSize \in Nat /\ BufferSize > 0
    BY BuffersTyped, TypesApart, Zenon DEF ReceiverTyped
  <1>9. /\ full => Starts(disk, s) /\ Len(s) < Len(disk) + Len(wbuf) + BufferSize
        /\ ~full => disk \o wbuf = s
    BY <1>3, Zenon DEF Stored
  <1>10. CASE Len(wbuf) # BufferSize
    <2>1. wbuf' = Append(wbuf, b) /\ disk' = disk /\ full' = full
      BY <1>1, <1>10, Zenon DEF WriteByte
    <2>2. Len(wbuf') = Len(wbuf) + 1 /\ wbuf' = wbuf \o c
      <3>1. OneLonger(wbuf, b, Append(wbuf, b))
        BY <1>8, OneMore, Zenon
      <3>2. Append(wbuf, b) = wbuf \o <<b>> /\ Len(Append(wbuf, b)) = Len(wbuf) + 1
        BY <3>1, Zenon DEF OneLonger
      <3> QED BY <1>5, <2>1, <3>2, Zenon
    <2>3. CASE full
      <3>1. Starts(disk, v)
        BY <1>6, <1>8, <1>9, <2>3, StartsLonger, Zenon
      <3>2. Len(v) < Len(disk) + Len(wbuf') + BufferSize
        BY <1>6, <1>8, <1>9, <2>2, <2>3, SMT
      <3> QED BY <1>7, <2>1, <2>3, <3>1, <3>2, Zenon DEF Stored
    <2>4. CASE ~full
      <3>1. (disk \o wbuf) \o c = disk \o (wbuf \o c)
        BY DiskJoins, Zenon
      <3>2. disk' \o wbuf' = v
        BY <1>6, <1>9, <2>1, <2>2, <2>4, <3>1, Zenon
      <3> QED BY <1>7, <2>1, <2>4, <3>2, Zenon DEF Stored
    <2> QED BY <2>3, <2>4, Zenon
  <1>11. CASE Len(wbuf) = BufferSize
    <2>1. PICK x \in Writes(disk, wbuf) : x.ok /\ Leaves(x)
      BY <1>11, Zenon DEF WriteByte
    <2>2. wbuf' = c
      BY <1>1, <1>5, <1>11, Zenon DEF WriteByte
    <2>3. PICK m : Puts(wbuf, m) /\ m > 0
      BY <1>8, <2>1, LeavesPuts, Zenon
    <2>4. m \in 0 .. Len(wbuf) /\ ~full /\ full' \in BOOLEAN
      <3>1. m # 0
        BY <1>8, <2>3, SMT DEF Puts
      <3> QED BY <2>3, <3>1, Zenon DEF Puts
    <2>5. /\ Starts(disk', s) /\ Len(disk') = Len(disk) + m
          /\ Len(s) = Len(disk) + Len(wbuf)
          /\ m = Len(wbuf) => disk' = s
      <3>1. /\ Starts(disk \o SubSeq(wbuf, 1, m), disk \o wbuf)
            /\ Len(disk \o SubSeq(wbuf, 1, m)) = Len(disk) + m
            /\ Len(disk \o wbuf) = Len(disk) + Len(wbuf)
            /\ m = Len(wbuf) => disk \o SubSeq(wbuf, 1, m) = disk \o wbuf
        BY <1>8, <2>4, PutStarts, Zenon
      <3>2. disk' = disk \o SubSeq(wbuf, 1, m) /\ disk \o wbuf = s
        BY <1>9, <2>3, <2>4, Zenon DEF Puts
      <3> QED BY <3>1, <3>2, Zenon
    <2>6. CASE full'
      <3>1. Starts(disk', v)
        <4>1. disk' \in Seq(Byte)
          BY <2>3, Zenon DEF Puts
        <4> QED BY <1>6, <2>5, <4>1, StartsLonger, Zenon
      <3>2. Len(disk) \in Nat
        BY <1>8, SMT
      <3>3. Len(v) < (Len(disk) + m) + 1 + BufferSize
        BY <1>6, <1>8, <1>11, <2>3, <2>4, <2>5, <3>2, SMT
      <3>4. Len(v) < Len(disk') + Len(wbuf') + BufferSize
        BY <1>5, <2>2, <2>5, <3>3, Zenon
      <3> QED BY <1>7, <2>6, <3>1, <3>4, Zenon DEF Stored
    <2>7. CASE ~full'
      <3>1. disk' = s
        BY <2>3, <2>5, <2>7, Zenon DEF Puts
      <3> QED BY <1>6, <1>7, <2>2, <2>7, <3>1, Zenon DEF Stored
    <2> QED BY <2>6, <2>7, Zenon
  <1> QED BY <1>10, <1>11, Zenon

-----------------------------------------------------------------------------
(***************************************************************************)
(* The end of recv: what the destructor still writes.                      *)
(***************************************************************************)
LEMMA StartsIsPrefix ==
  ASSUME NEW u \in Seq(Byte), NEW v \in Seq(Byte), Starts(u, v)
  PROVE  IsPrefix(u, v)
  <1>1. Len(u) <= Len(v)
    BY Zenon DEF Starts
  <1>2. PICK x \in Seq(Byte) : x = SubSeq(v, 1, Len(u))
    <2>1. Len(u) \in Nat
      BY SMT
    <2> QED BY <1>1, <2>1, SlicesTyped, Zenon
  <1>3. Len(x) = Len(u) /\ \A j \in 1 .. Len(u) : x[j] = u[j]
    BY <1>1, <1>2, SMT DEF Starts
  <1>4. x = u
    BY <1>3, SeqEqual, SMT
  <1>5. SubSeq(u, 1, Len(u)) = u
    BY SubSeqFull, Zenon
  <1> QED BY <1>1, <1>2, <1>4, <1>5, Zenon DEF IsPrefix

\* The parts of ArrivesAsDefined.
Begun == \E n \in 0 .. Len(Form) : IsPrefix(disk, Arrived(n))

Received ==
  \E n \in 0 .. Len(Form) :
    /\ IsPrefix(disk, Arrived(n))
    /\ IF full THEN Len(disk) > Len(Arrived(n)) - 2 * BufferSize
               ELSE disk = Arrived(n)
    /\ spc = "done" /\ ~broken => n = Len(Form)

\* What holds once recv has ended; it has returned at the end of the stream only.
Ended ==
  /\ rpc # "recv" => Begun
  /\ rpc = "done" => (spc # "send" \/ broken) /\ Received

\* What the file holds is a beginning of what has been let through.
LEMMA StoredStarts ==
  ASSUME TypeOK, NEW w \in Seq(Byte), NEW g, Decodes(w, g), NEW n \in 0 .. Len(w),
         Stored(w, g, n)
  PROVE  Starts(disk, Through(w, g, n, held)) /\ Through(w, g, n, held) \in Seq(Byte)
  <1>1. disk \in Seq(Byte) /\ wbuf \in Seq(Byte)
    BY BuffersTyped, Zenon
  <1>2. held = LastIsCR(w, n)
    BY Zenon DEF Stored
  <1>3. PICK s \in Seq(Byte) : s = Through(w, g, n, held)
    BY <1>2, ThroughIs, Zenon
  <1>4. CASE full
    BY <1>3, <1>4, Zenon DEF Stored
  <1>5. CASE ~full
    <2>1. s = disk \o wbuf
      BY <1>3, <1>5, Zenon DEF Stored
    <2>2. Starts(disk, s)
      BY <1>1, <2>1, SMT DEF Starts
    <2> QED BY <1>3, <2>2, Zenon
  <1> QED BY <1>4, <1>5, Zenon

\* With what the destructor writes, it would be all that has arrived.
LEMMA ArrivedIs ==
  ASSUME TypeOK, NEW w \in Seq(Byte), NEW g, Decodes(w, g), NEW n \in 0 .. Len(w),
         Stored(w, g, n)
  PROVE  /\ Arrived(n) \in Seq(Byte)
         /\ Starts(disk, Arrived(n))
         /\ ~full => disk \o Rest(held) = Arrived(n)
         /\ full => Len(Arrived(n)) < Len(disk) + Len(Rest(held)) + BufferSize
  <1>1. /\ disk \in Seq(Byte) /\ wbuf \in Seq(Byte) /\ CR \in Byte /\ held \in BOOLEAN
        /\ BufferSize \in Nat
    BY BuffersTyped, TypesApart, Zenon DEF ReceiverTyped
  <1>2. PICK s \in Seq(Byte) : s = Through(w, g, n, held) /\ Starts(disk, s)
    BY StoredStarts, Zenon
  <1>3. Arrived(n) = IF held THEN Append(s, CR) ELSE s
    <2>1. held = LastIsCR(w, n)
      BY Zenon DEF Stored
    <2> QED BY <1>2, <2>1, ThroughIs, Zenon
  <1>4. /\ full => Len(s) < Len(disk) + Len(wbuf) + BufferSize
        /\ ~full => disk \o wbuf = s
    BY <1>2, Zenon DEF Stored
  <1>5. CASE ~held
    BY <1>2, <1>3, <1>4, <1>5, Zenon DEF Rest
  <1>6. CASE held
    <2>1. PICK c \in Seq(Byte) : c = <<CR>>
      <3>1. <<CR>> \in Seq(Byte)
        BY <1>1, SMT
      <3> QED BY <3>1, Zenon
    <2>2. Arrived(n) = s \o c /\ Rest(held) = wbuf \o c
      BY <1>1, <1>3, <1>6, <2>1, AppendIsConcat, Zenon DEF Rest
    <2>3. s \o c \in Seq(Byte) /\ Starts(disk, s \o c)
      BY <1>1, <1>2, StartsLonger, ConcatProperties, Zenon
    <2>4. CASE full
      <3>1. Len(s \o c) = Len(s) + 1 /\ Len(wbuf \o c) = Len(wbuf) + 1
        BY <1>1, <2>1, SMT
      <3>2. Len(s) < Len(disk) + Len(wbuf) + BufferSize
        BY <1>4, <2>4, Zenon
      <3>3. Len(s) + 1 < Len(disk) + (Len(wbuf) + 1) + BufferSize
        BY <1>1, <3>2, SMT
      <3> QED BY <2>2, <2>3, <2>4, <3>1, <3>3, Zenon
    <2>5. CASE ~full
      <3>1. (disk \o wbuf) \o c = disk \o (wbuf \o c)
        BY DiskJoins, Zenon
      <3> QED BY <1>4, <2>2, <2>3, <2>5, <3>1, Zenon
    <2> QED BY <2>4, <2>5, Zenon
  <1> QED BY <1>5, <1>6, Zenon

LEMMA RecvEndsEnds ==
  ASSUME TypeOK, NEW w, NEW at, NEW g, Sizes(w, at, g), NEW k, Sending(w, at, k),
         NEW n, InOrder(w, at, k, n), Stored(w, g, n), RecvEnds
  PROVE  Ended'
  <1>1. w \in Seq(Byte) /\ content \in Seq(Byte) /\ w = Form /\ Decodes(w, g) /\ n \in 0 .. Len(w)
    BY SizesTyped, Zenon DEF Sizes, InOrder
  <1>2. PICK a \in Seq(Byte) :
          /\ a = Arrived(n)
          /\ Starts(disk, a)
          /\ ~full => disk \o Rest(held) = a
          /\ full => Len(a) < Len(disk) + Len(Rest(held)) + BufferSize
    BY <1>1, ArrivedIs, Zenon
  <1>3. /\ disk \in Seq(Byte) /\ full \in BOOLEAN /\ held \in BOOLEAN
        /\ BufferSize \in Nat /\ BufferSize > 0
    BY BuffersTyped, TypesApart, Zenon DEF ReceiverTyped
  <1>4. PICK r \in Seq(Byte) : r = Rest(held)
    BY RestTyped, Zenon
  <1>5. PICK m : /\ Puts(r, m)
                 /\ \/ rpc' = "done" /\ Len(r) <= m + BufferSize
                    \/ rpc' = "killed"
    <2>1. Destroy(held, "done")
      BY Zenon DEF RecvEnds
    <2> QED BY <1>3, <1>4, <2>1, DestroyPuts, Zenon
  <1>6. m \in 0 .. Len(r) /\ disk' = disk \o SubSeq(r, 1, m) /\ disk' \in Seq(Byte)
    BY <1>5, Zenon DEF Puts
  <1>7. Form' = Form /\ Arrived(n)' = a /\ spc' = spc /\ broken' = broken
    BY <1>2, Zenon DEF RecvEnds, Form, Arrived, chosen, sending
  <1>8. /\ Starts(disk', a)
        /\ ~full' => disk' = a
        /\ Len(r) <= m + BufferSize => Len(disk') > Len(a) - 2 * BufferSize
    <2>1. CASE full
      <3>1. m = 0 /\ full'
        BY <1>5, <2>1, Zenon DEF Puts
      <3>2. disk' = disk
        <4>1. SubSeq(r, 1, 0) = <<>>
          BY SMT
        <4> QED BY <1>3, <1>6, <3>1, <4>1, ConcatEmptySeq, Zenon
      <3>3. Len(a) < Len(disk) + Len(r) + BufferSize
        BY <1>2, <1>4, <2>1, Zenon
      <3>4. Len(r) <= 0 + BufferSize => Len(disk) > Len(a) - 2 * BufferSize
        BY <1>3, <3>3, SMT
      <3> QED BY <1>2, <3>1, <3>2, <3>4, Zenon
    <2>2. CASE ~full
      <3>1. disk \o r = a
        BY <1>2, <1>4, <2>2, Zenon
      <3>2. /\ Starts(disk', a) /\ Len(disk') = Len(disk) + m
            /\ Len(a) = Len(disk) + Len(r)
            /\ m = Len(r) => disk' = a
        <4>1. /\ Starts(disk \o SubSeq(r, 1, m), disk \o r)
              /\ Len(disk \o SubSeq(r, 1, m)) = Len(disk) + m
              /\ Len(disk \o r) = Len(disk) + Len(r)
              /\ m = Len(r) => disk \o SubSeq(r, 1, m) = disk \o r
          BY <1>3, <1>6, PutStarts, Zenon
        <4>2. disk' = disk \o SubSeq(r, 1, m)
          BY <1>6, Zenon
        <4>3. Starts(disk', a)
          BY <3>1, <4>1, <4>2, Zenon
        <4>4. Len(disk') = Len(disk) + m
          BY <3>1, <4>1, <4>2, Zenon
        <4>5. Len(a) = Len(disk) + Len(r)
          BY <3>1, <4>1, <4>2, Zenon
        <4>6. m = Len(r) => disk' = a
          BY <3>1, <4>1, <4>2, Zenon
        <4> QED BY <4>3, <4>4, <4>5, <4>6, Zenon
      <3>3. Len(r) <= m + BufferSize => Len(disk) + m > Len(disk) + Len(r) - 2 * BufferSize
        BY <1>3, <1>6, SMT
      <3>4. ~full' => m = Len(r)
        BY <1>5, Zenon DEF Puts
      <3>5. Len(r) <= m + BufferSize => Len(disk') > Len(a) - 2 * BufferSize
        <4>1. Len(disk') = Len(disk) + m /\ Len(a) = Len(disk) + Len(r)
          BY <3>2, Zenon
        <4> QED BY <1>3, <1>6, <4>1, SMT
      <3> QED BY <3>2, <3>4, <3>5, Zenon
    <2> QED BY <2>1, <2>2, Zenon
  <1>9. IsPrefix(disk', a)
    BY <1>6, <1>8, StartsIsPrefix, Zenon
  <1>10. spc = "done" /\ ~broken => n = Len(w)
    <2> SUFFICES ASSUME spc = "done", ~broken PROVE n = Len(w)
      OBVIOUS
    <2>1. rcvd = <<>> /\ wire = <<>> /\ rbuf = <<>> /\ unread = <<>> /\ sbuf = <<>>
      BY Zenon DEF RecvEnds, Sending
    <2>2. k = Len(content) /\ ~crSent
      BY <1>1, <2>1, SMT DEF Sending, Position
    <2>3. Out(at, k) = Len(w)
      <3>1. at[k] = Len(w)
        BY <2>2, SizesTyped, Zenon
      <3> QED BY <1>1, <2>2, <3>1, SMT DEF Out
    <2>4. n + Len(rcvd) + Len(wire) = Out(at, k) - Len(sbuf)
      BY SMT DEF InOrder
    <2> QED BY <1>1, <2>1, <2>3, <2>4, SMT
  <1>11. Begun'
    BY <1>1, <1>7, <1>9, Zenon DEF Begun
  <1>12. rpc' = "done" => Received'
    <2> SUFFICES ASSUME rpc' = "done" PROVE Received'
      OBVIOUS
    <2>1. Len(disk') > Len(a) - 2 * BufferSize
      <3>1. rpc' # "killed"
        BY SMT
      <3> QED BY <1>5, <1>8, <3>1, Zenon
    <2> QED BY <1>1, <1>7, <1>8, <1>9, <1>10, <2>1, Zenon DEF Received
  <1>13. spc' # "send" \/ broken'
    <2>1. spc # "send" \/ broken
      BY Zenon DEF RecvEnds
    <2> QED BY <1>7, <2>1, SMT
  <1> QED BY <1>11, <1>12, <1>13, Zenon DEF Ended

LEMMA WriteFailsEnds ==
  ASSUME TypeOK, NEW w, NEW at, NEW g, Sizes(w, at, g),
         NEW n \in 0 .. Len(w), Stored(w, g, n), WriteFails
  PROVE  Ended'
  <1>1. w \in Seq(Byte) /\ w = Form /\ Decodes(w, g) /\ disk \in Seq(Byte)
    BY SizesTyped, BuffersTyped, Zenon DEF Sizes
  <1>2. Arrived(n) \in Seq(Byte) /\ Starts(disk, Arrived(n))
    BY <1>1, ArrivedIs, Zenon
  <1>3. PICK a \in Seq(Byte) : a = Arrived(n) /\ IsPrefix(disk, a)
    BY <1>1, <1>2, StartsIsPrefix, Zenon
  <1>4. Form' = Form /\ Arrived(n)' = a /\ disk' = disk
    BY <1>3, Zenon DEF WriteFails, Form, Arrived, chosen
  <1>5. Begun'
    BY <1>1, <1>3, <1>4, Zenon DEF Begun
  <1>6. rpc' # "done"
    BY SMT DEF WriteFails
  <1> QED BY <1>5, <1>6, Zenon DEF Ended

\* Once recv has ended, nothing undoes it.
LEMMA StaysEnded ==
  ASSUME Ended, UNCHANGED <<chosen, receiving>>,
         \/ UNCHANGED <<spc, broken>>
         \/ spc = "send" /\ UNCHANGED broken
         \/ spc' = spc /\ broken' = TRUE
  PROVE  Ended'
  <1>1. /\ disk' = disk /\ full' = full /\ rpc' = rpc /\ Form' = Form
        /\ \A n : Arrived(n)' = Arrived(n)
    BY Zenon DEF chosen, receiving, Form, Arrived
  <1>2. Begun => Begun'
    BY <1>1, Zenon DEF Begun
  <1>3. CASE rpc = "done"
    <2>1. Received /\ (spc # "send" \/ broken)
      BY <1>3, Zenon DEF Ended
    <2>2. spc' = "done" /\ ~broken' => spc = "done" /\ ~broken
      BY <2>1, SMT
    <2>3. Received'
      BY <1>1, <2>1, <2>2, Zenon DEF Received
    <2>4. spc' # "send" \/ broken'
      BY <2>1, Zenon
    <2> QED BY <1>1, <1>2, <2>3, <2>4, <1>3, Zenon DEF Ended
  <1>4. CASE rpc # "done"
    BY <1>1, <1>2, <1>4, Zenon DEF Ended
  <1> QED BY <1>3, <1>4, Zenon

-----------------------------------------------------------------------------
(***************************************************************************)
(* The invariant follows the file through the transfer: its first k bytes  *)
(* are through with the read type and half of one more when crSent is set, *)
(* and n bytes of its form w have been taken by the write type.  at says   *)
(* where in w a byte of the file ends, g what is kept of a beginning of w. *)
(* Between the two there is nothing but what the buffers and the wire      *)
(* hold, in order; what the write type has stored is what those n bytes    *)
(* stand for.  Once recv has ended only what it left behind counts.        *)
(***************************************************************************)
Follow(w, at, g, k, n) ==
  /\ Sizes(w, at, g)
  /\ Sending(w, at, k)
  /\ rpc = "recv" => InOrder(w, at, k, n) /\ Stored(w, g, n)
  /\ Ended

TransferInv == TypeOK /\ \E w, at, g, k, n : Follow(w, at, g, k, n)

LEMMA InitFollows == Init => TransferInv
  <1> SUFFICES ASSUME Init PROVE TransferInv
    OBVIOUS
  <1>1. TypeOK
    BY InitTyped, Zenon
  <1>2. content \in Seq(Byte) /\ CR \in Byte
    BY <1>1, BuffersTyped, TransferAssumption, TypesApart, Zenon DEF ChosenTyped
  <1>3. PICK w, at : w = Form /\ Ends(rType, content, w, at)
    BY <1>2, ToWireEnds, Zenon DEF Form
  <1>4. w \in Seq(Byte)
    BY <1>3, Zenon DEF Ends
  <1>5. PICK g : /\ KeptOf(wType, w, g)
                 /\ FromWire(wType, w) = g[Len(w)]
                 /\ FromWire(wType, SubSeq(w, 1, 0)) = <<>>
                 /\ \A m \in 1 .. Len(w) :
                      FromWire(wType, SubSeq(w, 1, m)) = Append(g[m - 1], w[m])
    BY <1>4, FromWireKeeps, Zenon
  <1>6. Sizes(w, at, g)
    BY <1>3, <1>5, Zenon DEF Sizes, Decodes, Arrived
  <1>7. at[0] = 0
    BY <1>3, Zenon DEF Ends
  <1>8. Out(at, 0) = 0
    <2>1. crSent = FALSE
      BY Zenon DEF Init, OpenedToRead
    <2> QED BY <1>7, <2>1, SMT DEF Out
  <1>9. Position(0)
    <2>1. rbuf = <<>> /\ unread = content /\ crSent = FALSE
      BY Zenon DEF Init, OpenedToRead
    <2>2. Part(<<>>, content, 0) /\ Part(content, content, 0) /\ Len(<<>>) = 0
          /\ 0 \in 0 .. Len(content) /\ 0 + 0 + Len(content) = Len(content) /\ 0 + 0 = 0
      BY <1>2, SMT DEF Part
    <2> QED BY <2>1, <2>2, Zenon DEF Position
  <1>10. /\ rpc = "recv" /\ spc = "send" /\ sbuf = <<>> /\ rcvd = <<>> /\ wire = <<>>
         /\ held = FALSE /\ full = FALSE /\ disk = <<>> /\ wbuf = <<>> /\ broken = FALSE
    BY Zenon DEF Init, OpenedToRead, OpenedToWrite
  <1>11. /\ Part(<<>>, w, 0) /\ Len(<<>>) = 0 /\ 0 - 0 = 0 /\ 0 + 0 = 0 /\ 0 + 0 + 0 = 0
         /\ 0 \in 0 .. Len(w)
    BY <1>4, SMT DEF Part
  <1>12. Sending(w, at, 0)
    <2>1. spc # "done"
      BY <1>10, SMT
    <2> QED BY <1>8, <1>9, <1>10, <1>11, <2>1, Zenon DEF Sending
  <1>13. InOrder(w, at, 0, 0)
    BY <1>8, <1>10, <1>11, Zenon DEF InOrder
  <1>14. Stored(w, g, 0)
    <2>1. <<>> \o <<>> = <<>>
      BY SMT
    <2>2. Through(w, g, 0, FALSE) = <<>> /\ LastIsCR(w, 0) = FALSE
      BY Zenon DEF Through, LastIsCR
    <2> QED BY <1>10, <2>1, <2>2, Zenon DEF Stored
  <1>15. Ended
    <2>1. rpc = "recv" /\ rpc # "done"
      BY <1>10, SMT
    <2> QED BY <2>1, Zenon DEF Ended
  <1>16. Follow(w, at, g, 0, 0)
    BY <1>6, <1>12, <1>13, <1>14, <1>15, Zenon DEF Follow
  <1> QED BY <1>1, <1>16, Zenon DEF TransferInv

LEMMA StoredStays ==
  ASSUME NEW w, NEW g, NEW n, Stored(w, g, n), UNCHANGED <<chosen, held, wbuf, disk, full>>
  PROVE  Stored(w, g, n)'
  BY Zenon DEF Stored, LastIsCR, Through, chosen

LEMMA SenderFollows ==
  ASSUME TypeOK, NEW w, NEW at, NEW g, NEW k, NEW n, Follow(w, at, g, k, n), Sender
  PROVE  \E l : Follow(w, at, g, l, n)'
  <1>1. Sizes(w, at, g) /\ Sending(w, at, k) /\ Ended
    BY Zenon DEF Follow
  <1>2. UNCHANGED <<chosen, broken, receiving>> /\ spc = "send"
    BY Zenon DEF Sender, ReadFile, ReadFails, SendByte, SendRest
  <1>3. Sizes(w, at, g)'
    BY <1>1, <1>2, SizesStay, Zenon
  <1>4. Ended'
    BY <1>1, <1>2, StaysEnded, Zenon
  <1>5. rpc' = "recv" => rpc = "recv" /\ Stored(w, g, n)'
    <2>1. rpc' = rpc /\ UNCHANGED <<chosen, held, wbuf, disk, full>>
      BY <1>2, Zenon DEF receiving
    <2> QED BY <2>1, StoredStays, Zenon DEF Follow
  <1>6. CASE ReadFile
    <2>1. Sending(w, at, k)' /\ Out(at, k)' = Out(at, k)
      BY <1>1, <1>6, ReadFileSends, Zenon
    <2>2. rpc' = "recv" => InOrder(w, at, k, n)'
      BY <1>5, <1>6, <2>1, ReadFileInOrder, Zenon DEF Follow
    <2> QED BY <1>3, <1>4, <1>5, <2>1, <2>2, Zenon DEF Follow
  <1>7. CASE ReadFails
    <2>1. Sending(w, at, k)' /\ Out(at, k)' = Out(at, k)
      BY <1>1, <1>7, ReadFailsSends, Zenon
    <2>2. rpc' = "recv" => InOrder(w, at, k, n)'
      BY <1>5, <1>7, <2>1, ReadFileInOrder, Zenon DEF Follow
    <2> QED BY <1>3, <1>4, <1>5, <2>1, <2>2, Zenon DEF Follow
  <1>8. CASE SendByte
    <2>1. PICK l : Sending(w, at, l)' /\ Out(at, l)' = Out(at, k) + 1
      BY <1>1, <1>8, SendByteSends, Zenon
    <2>2. rpc' = "recv" => InOrder(w, at, l, n)'
      BY <1>1, <1>5, <1>8, <2>1, SendByteInOrder, Zenon DEF Follow
    <2> QED BY <1>3, <1>4, <1>5, <2>1, <2>2, Zenon DEF Follow
  <1>9. CASE SendRest
    <2>1. Sending(w, at, k)' /\ Out(at, k)' = Out(at, k)
      BY <1>1, <1>9, SendRestSends, Zenon
    <2>2. rpc' = "recv" => InOrder(w, at, k, n)'
      BY <1>1, <1>5, <1>9, <2>1, SendRestInOrder, Zenon DEF Follow
    <2> QED BY <1>3, <1>4, <1>5, <2>1, <2>2, Zenon DEF Follow
  <1> QED BY <1>6, <1>7, <1>8, <1>9, Zenon DEF Sender

LEMMA ResetFollows ==
  ASSUME TypeOK, NEW w, NEW at, NEW g, NEW k, NEW n, Follow(w, at, g, k, n), Reset
  PROVE  Follow(w, at, g, k, n)'
  <1>1. Sizes(w, at, g) /\ Sending(w, at, k) /\ Ended /\ w \in Seq(Byte)
    BY SizesTyped, Zenon DEF Follow
  <1>2. UNCHANGED <<chosen, sending>> /\ UNCHANGED receiving /\ broken' = TRUE
    BY Zenon DEF Reset
  <1>3. Sizes(w, at, g)'
    BY <1>1, <1>2, SizesStay, Zenon
  <1>4. Sending(w, at, k)'
    BY <1>1, <1>2, SenderRests, Zenon
  <1>5. Ended'
    <2>1. spc' = spc /\ broken' = TRUE /\ UNCHANGED <<chosen, receiving>>
      BY <1>2, Zenon DEF sending
    <2> QED BY <1>1, <2>1, StaysEnded, Zenon
  <1>6. rpc' = "recv" => InOrder(w, at, k, n)' /\ Stored(w, g, n)'
    <2>1. rpc' = rpc /\ UNCHANGED <<chosen, held, wbuf, disk, full>>
      BY <1>2, Zenon DEF receiving
    <2>2. rpc = "recv" => InOrder(w, at, k, n)'
      BY <1>1, ResetInOrder, Zenon DEF Follow
    <2>3. rpc = "recv" => Stored(w, g, n)'
      BY <2>1, StoredStays, Zenon DEF Follow
    <2> QED BY <2>1, <2>2, <2>3, Zenon
  <1> QED BY <1>3, <1>4, <1>5, <1>6, Zenon DEF Follow

LEMMA ReceiverFollows ==
  ASSUME TypeOK, NEW w, NEW at, NEW g, NEW k, NEW n, Follow(w, at, g, k, n), Receiver
  PROVE  \E m : Follow(w, at, g, k, m)'
  <1>1. rpc = "recv" /\ UNCHANGED <<chosen, sending>>
    BY Zenon DEF Receiver, Receive, HoldCR, WriteByte, WriteFails, RecvEnds
  <1>2. /\ Sizes(w, at, g) /\ Sending(w, at, k) /\ Ended /\ w \in Seq(Byte)
        /\ InOrder(w, at, k, n) /\ Stored(w, g, n) /\ n \in 0 .. Len(w) /\ Decodes(w, g)
    BY <1>1, SizesTyped, Zenon DEF Follow, InOrder, Sizes
  <1>3. Sizes(w, at, g)'
    BY <1>1, <1>2, SizesStay, Zenon
  <1>4. Sending(w, at, k)'
    BY <1>1, <1>2, SenderRests, Zenon
  <1>5. rpc' = "recv" => Ended'
    <2> SUFFICES ASSUME rpc' = "recv" PROVE Ended'
      OBVIOUS
    <2>1. rpc' = "recv" /\ rpc' # "done"
      BY SMT
    <2> QED BY <2>1, Zenon DEF Ended
  <1>6. CASE Receive
    <2>1. rpc' = "recv" /\ UNCHANGED <<chosen, held, wbuf, disk, full>>
      BY <1>1, <1>6, Zenon DEF Receive
    <2>2. InOrder(w, at, k, n)' /\ Stored(w, g, n)'
      BY <1>2, <1>6, <2>1, ReceiveInOrder, StoredStays, Zenon
    <2> QED BY <1>3, <1>4, <1>5, <2>1, <2>2, Zenon DEF Follow
  <1>7. CASE HoldCR \/ WriteByte
    <2>1. /\ rpc' = "recv" /\ rcvd # <<>> /\ rcvd' = Tail(rcvd)
          /\ UNCHANGED <<sending, wire, broken>>
      BY <1>1, <1>7, Zenon DEF HoldCR, WriteByte
    <2>2. /\ InOrder(w, at, k, n + 1)'
          /\ n + 1 \in 1 .. Len(w) /\ Head(rcvd) = w[n + 1]
      BY <1>2, <2>1, TakenInOrder, Zenon
    <2>3. Stored(w, g, n + 1)'
      BY <1>2, <1>7, <2>2, HoldCRStores, WriteByteStores, Zenon
    <2> QED BY <1>3, <1>4, <1>5, <2>1, <2>2, <2>3, Zenon DEF Follow
  <1>8. CASE WriteFails
    <2>1. Ended'
      BY <1>2, <1>8, WriteFailsEnds, Zenon
    <2>2. rpc' # "recv"
      BY <1>8, SMT DEF WriteFails
    <2> QED BY <1>3, <1>4, <2>1, <2>2, Zenon DEF Follow
  <1>9. CASE RecvEnds
    <2>1. Ended'
      BY <1>2, <1>9, RecvEndsEnds, Zenon
    <2>2. rpc' # "recv"
      BY <1>9, SMT DEF RecvEnds, Destroy
    <2> QED BY <1>3, <1>4, <2>1, <2>2, Zenon DEF Follow
  <1> QED BY <1>6, <1>7, <1>8, <1>9, Zenon DEF Receiver

LEMMA StutterFollows ==
  ASSUME NEW w, NEW at, NEW g, NEW k, NEW n, Follow(w, at, g, k, n), UNCHANGED vars
  PROVE  Follow(w, at, g, k, n)'
  <1>1. UNCHANGED <<chosen, sending, wire, broken, receiving>>
    BY Zenon DEF vars
  <1>2. Sizes(w, at, g)' /\ Sending(w, at, k)' /\ Out(at, k)' = Out(at, k)
    BY <1>1, SizesStay, SenderRests, Zenon DEF Follow
  <1>3. Ended'
    <2>1. UNCHANGED <<chosen, receiving>> /\ UNCHANGED <<spc, broken>>
      BY <1>1, Zenon DEF sending
    <2> QED BY <2>1, StaysEnded, Zenon DEF Follow
  <1>4. InOrder(w, at, k, n) => InOrder(w, at, k, n)'
    BY <1>1, <1>2, Zenon DEF InOrder, sending, receiving
  <1>5. Stored(w, g, n) => Stored(w, g, n)'
    BY <1>1, StoredStays, Zenon DEF receiving
  <1>6. rpc' = rpc
    BY <1>1, Zenon DEF receiving
  <1> QED BY <1>2, <1>3, <1>4, <1>5, <1>6, Zenon DEF Follow

LEMMA StepFollows == TransferInv /\ [Next]_vars => TransferInv'
  <1> SUFFICES ASSUME TransferInv, [Next]_vars PROVE TransferInv'
    OBVIOUS
  <1>1. TypeOK'
    BY StepTyped, Zenon DEF TransferInv
  <1>2. PICK w, at, g, k, n : Follow(w, at, g, k, n)
    BY Zenon DEF TransferInv
  <1>3. \E l, m : Follow(w, at, g, l, m)'
    <2>1. CASE Sender
      BY <1>2, <2>1, SenderFollows, Zenon DEF TransferInv
    <2>2. CASE Receiver
      BY <1>2, <2>2, ReceiverFollows, Zenon DEF TransferInv
    <2>3. CASE Reset
      BY <1>2, <2>3, ResetFollows, Zenon DEF TransferInv
    <2>4. CASE UNCHANGED vars
      BY <1>2, <2>4, StutterFollows, Zenon
    <2> QED BY <2>1, <2>2, <2>3, <2>4, Zenon DEF Next
  <1> QED BY <1>1, <1>3, Zenon DEF TransferInv

LEMMA FollowArrives == TransferInv => ArrivesAsDefined
  <1> SUFFICES ASSUME TransferInv PROVE ArrivesAsDefined
    OBVIOUS
  <1>1. PICK w, at, g, k, n : Follow(w, at, g, k, n)
    BY Zenon DEF TransferInv
  <1>2. Begun
    <2>1. CASE rpc = "recv"
      <3>1. /\ w = Form /\ w \in Seq(Byte) /\ Decodes(w, g) /\ n \in 0 .. Len(w) /\ Stored(w, g, n)
            /\ disk \in Seq(Byte)
        BY <1>1, <2>1, SizesTyped, BuffersTyped, Zenon DEF Follow, TransferInv, Sizes, InOrder
      <3>2. Arrived(n) \in Seq(Byte) /\ Starts(disk, Arrived(n))
        BY <3>1, ArrivedIs, Zenon DEF TransferInv
      <3>3. PICK a \in Seq(Byte) : a = Arrived(n) /\ Starts(disk, a)
        BY <3>2, Zenon
      <3>4. IsPrefix(disk, a)
        BY <3>1, <3>3, StartsIsPrefix, Zenon
      <3> QED BY <3>1, <3>3, <3>4, Zenon DEF Begun
    <2>2. CASE rpc # "recv"
      BY <1>1, <2>2, Zenon DEF Follow, Ended
    <2> QED BY <2>1, <2>2, Zenon
  <1>3. rpc = "done" => Received
    BY <1>1, Zenon DEF Follow, Ended
  <1> QED BY <1>2, <1>3, Zenon DEF ArrivesAsDefined, Begun, Received

(***************************************************************************)
(* However the bytes are cut up and whatever fails: what recv leaves is a  *)
(* beginning of what the definitions of the types make of the file; all of *)
(* what has arrived when it returns, or all but two buffers of it when the *)
(* disk was full, and the whole file when send has returned as well.       *)
(***************************************************************************)
THEOREM TransferArrives == Spec => []ArrivesAsDefined
  <1>1. Spec => []TransferInv
    BY InitFollows, StepFollows, PTL DEF Spec
  <1> QED BY <1>1, FollowArrives, PTL

-----------------------------------------------------------------------------
(***************************************************************************)
(* Which pairs of types give a file back: about the definitions alone.     *)
(***************************************************************************)
\* h[k] is what is left of the first k bytes of f when only those at K are kept.
Filters(f, K, h) ==
  /\ \A k \in 0 .. Len(f) : h[k] \in Seq(Byte)
  /\ h[0] = <<>>
  /\ \A k \in 1 .. Len(f) : h[k] = IF k \in K THEN Append(h[k - 1], f[k]) ELSE h[k - 1]

LEMMA FilterStep ==
  ASSUME NEW f \in Seq(Byte), NEW K, NEW h, Filters(f, K, h), NEW k \in Nat, k + 1 <= Len(f)
  PROVE  /\ h[k] \in Seq(Byte) /\ h[k + 1] \in Seq(Byte)
         /\ Len(h[k]) \in Nat /\ Len(h[k + 1]) \in Nat
         /\ k + 1 \in K => h[k + 1] = Append(h[k], f[k + 1]) /\ Len(h[k + 1]) = Len(h[k]) + 1
         /\ k + 1 \notin K => h[k + 1] = h[k]
  <1>1. k \in 0 .. Len(f) /\ k + 1 \in 0 .. Len(f) /\ k + 1 \in 1 .. Len(f) /\ (k + 1) - 1 = k
    BY SMT
  <1>2. PICK u \in Seq(Byte) : u = h[k]
    BY <1>1, Zenon DEF Filters
  <1>3. PICK v \in Seq(Byte) : v = h[k + 1]
    BY <1>1, Zenon DEF Filters
  <1>4. PICK b \in Byte : b = f[k + 1]
    BY <1>1, SMT
  <1>5. v = IF k + 1 \in K THEN Append(u, b) ELSE u
    BY <1>1, <1>2, <1>3, <1>4, Zenon DEF Filters
  <1>6. Len(Append(u, b)) = Len(u) + 1 /\ Len(u) \in Nat /\ Len(v) \in Nat
    BY SMT
  <1> QED BY <1>2, <1>3, <1>4, <1>5, <1>6, Zenon

LEMMA FilterAll ==
  ASSUME NEW f \in Seq(Byte), NEW K, NEW h, Filters(f, K, h), \A k \in 1 .. Len(f) : k \in K
  PROVE  h[Len(f)] = f
  <1> DEFINE S == {k \in Nat : k <= Len(f) => Len(h[k]) = k /\ Begins(h[k], f, k)}
  <1>1. 0 \in S
    <2>1. h[0] = <<>> /\ Len(<<>>) = 0 /\ Begins(<<>>, f, 0)
      BY SMT DEF Filters, Begins
    <2> QED BY <2>1, SMT
  <1>2. ASSUME NEW k \in Nat, k \in S PROVE k + 1 \in S
    <2> SUFFICES ASSUME k + 1 <= Len(f)
                 PROVE  Len(h[k + 1]) = k + 1 /\ Begins(h[k + 1], f, k + 1)
      BY SMT
    <2>1. k <= Len(f) /\ k + 1 \in 1 .. Len(f) /\ f[k + 1] \in Byte
      BY SMT
    <2>2. Len(h[k]) = k /\ Begins(h[k], f, k)
      BY <1>2, <2>1, SMT
    <2>3. PICK u \in Seq(Byte) : u = h[k]
      BY FilterStep, Zenon
    <2>4. PICK v \in Seq(Byte) : v = h[k + 1]
      BY FilterStep, Zenon
    <2>5. v = Append(u, f[k + 1])
      <3>1. k + 1 \in K
        BY <2>1, Zenon
      <3>2. h[k + 1] = Append(h[k], f[k + 1])
        BY <3>1, FilterStep, SMT
      <3> QED BY <2>3, <2>4, <3>2, Zenon
    <2>6. Len(u) = k /\ Begins(u, f, k)
      BY <2>2, <2>3, Zenon
    <2>7. Len(v) = k + 1 /\ Begins(v, f, k + 1)
      BY <2>1, <2>5, <2>6, SMT DEF Begins
    <2> QED BY <2>4, <2>7, Zenon
  <1> HIDE DEF S
  <1>3. Nat \subseteq S
    BY <1>1, <1>2, SetInduction, Zenon
  <1>4. PICK n \in Nat : n = Len(f) /\ n \in 0 .. Len(f) /\ n <= Len(f)
    BY SMT
  <1>5. Len(h[n]) = n /\ Begins(h[n], f, n)
    BY <1>3, <1>4, Zenon DEF S
  <1>6. PICK u \in Seq(Byte) : u = h[n] /\ Len(u) = n /\ Begins(u, f, n)
    BY <1>4, <1>5, Zenon DEF Filters
  <1>7. u = f
    BY <1>4, <1>6, SeqEqual, SMT DEF Begins
  <1> QED BY <1>4, <1>6, <1>7, Zenon

LEMMA FilterShort ==
  ASSUME NEW f \in Seq(Byte), NEW K, NEW h, Filters(f, K, h),
         NEW d \in 1 .. Len(f), d \notin K
  PROVE  Len(h[Len(f)]) < Len(f)
  <1> DEFINE S == {k \in Nat : k <= Len(f) => Len(h[k]) <= k /\ (d <= k => Len(h[k]) < k)}
  <1>1. 0 \in S
    <2>1. h[0] = <<>> /\ Len(<<>>) = 0
      BY SMT DEF Filters
    <2> QED BY <2>1, SMT
  <1>2. ASSUME NEW k \in Nat, k \in S PROVE k + 1 \in S
    <2> SUFFICES ASSUME k + 1 <= Len(f)
                 PROVE  Len(h[k + 1]) <= k + 1 /\ (d <= k + 1 => Len(h[k + 1]) < k + 1)
      BY SMT
    <2>1. Len(h[k]) <= k /\ (d <= k => Len(h[k]) < k)
      BY <1>2, SMT
    <2>2. PICK m \in Nat, l \in Nat :
            /\ m = Len(h[k]) /\ l = Len(h[k + 1])
            /\ IF k + 1 \in K THEN l = m + 1 ELSE l = m
      <3>1. /\ Len(h[k]) \in Nat /\ Len(h[k + 1]) \in Nat
            /\ IF k + 1 \in K THEN Len(h[k + 1]) = Len(h[k]) + 1 ELSE Len(h[k + 1]) = Len(h[k])
        <4>1. CASE k + 1 \in K
          BY <4>1, FilterStep, SMT
        <4>2. CASE k + 1 \notin K
          BY <4>2, FilterStep, SMT
        <4> QED BY <4>1, <4>2, Zenon
      <3> QED BY <3>1, Zenon
    <2>3. m <= k /\ (d <= k => m < k)
      BY <2>1, <2>2, Zenon
    <2>4. k + 1 \in K => d # k + 1
      BY Zenon
    <2>5. l <= k + 1 /\ (d <= k + 1 => l < k + 1)
      BY <2>2, <2>3, <2>4, SMT
    <2> QED BY <2>2, <2>5, Zenon
  <1> HIDE DEF S
  <1>3. Nat \subseteq S
    BY <1>1, <1>2, SetInduction, Zenon
  <1>4. Len(f) \in Nat /\ Len(f) <= Len(f) /\ d <= Len(f)
    BY SMT
  <1> QED BY <1>3, <1>4, Zenon DEF S

\* A file without bytes to rewrite is sent as it is.
LEMMA SameForm ==
  ASSUME NEW t, NEW f \in Seq(Byte), NEW w, NEW at, Ends(t, f, w, at),
         t = "A" => \A k \in 1 .. Len(f) : f[k] # LF
  PROVE  w = f
  <1>1. \A k \in 1 .. Len(f) : at[k] = at[k - 1] + 1 /\ w[at[k - 1] + 1] = f[k]
    BY Zenon DEF Ends
  <1> DEFINE S == {k \in Nat : k <= Len(f) => at[k] = k}
  <1>2. 0 \in S
    BY SMT DEF Ends
  <1>3. ASSUME NEW k \in Nat, k \in S PROVE k + 1 \in S
    BY <1>1, <1>3, SMT
  <1> HIDE DEF S
  <1>4. Nat \subseteq S
    BY <1>2, <1>3, SetInduction, Zenon
  <1>5. \A k \in 0 .. Len(f) : at[k] = k
    <2> TAKE k \in 0 .. Len(f)
    <2>1. k \in Nat /\ k <= Len(f)
      BY SMT
    <2> QED BY <1>4, <2>1, Zenon DEF S
  <1>6. w \in Seq(Byte) /\ Len(w) = Len(f)
    BY <1>5, SMT DEF Ends
  <1>7. ASSUME NEW k \in 1 .. Len(f) PROVE w[k] = f[k]
    <2>1. at[k - 1] = k - 1 /\ (k - 1) + 1 = k
      BY <1>5, SMT
    <2> QED BY <1>1, <2>1, Zenon
  <1> QED BY <1>6, <1>7, SeqEqual, SMT

\* Every LF makes it longer.
LEMMA LongerForm ==
  ASSUME NEW f \in Seq(Byte), NEW w, NEW at, Ends("A", f, w, at),
         NEW d \in 1 .. Len(f), f[d] = LF
  PROVE  Len(w) > Len(f)
  <1>1. \A k \in 1 .. Len(f) :
          /\ at[k] \in Nat /\ at[k - 1] \in Nat /\ at[k] >= at[k - 1] + 1
          /\ k = d => at[k] = at[k - 1] + 2
    <2> TAKE k \in 1 .. Len(f)
    <2>1. at[k] \in Nat /\ at[k - 1] \in Nat
      <3>1. k \in 0 .. Len(f) /\ k - 1 \in 0 .. Len(f)
        BY SMT
      <3>2. at[k] \in 0 .. Len(w) /\ at[k - 1] \in 0 .. Len(w)
        BY <3>1, Zenon DEF Ends
      <3> QED BY <3>2, SMT
    <2>2. IF f[k] = LF THEN at[k] = at[k - 1] + 2 ELSE at[k] = at[k - 1] + 1
      BY Zenon DEF Ends
    <2> QED BY <2>1, <2>2, SMT
  <1> DEFINE S == {k \in Nat : k <= Len(f) => at[k] >= k /\ (d <= k => at[k] > k)}
  <1>2. 0 \in S
    BY SMT DEF Ends
  <1>3. ASSUME NEW k \in Nat, k \in S PROVE k + 1 \in S
    <2> SUFFICES ASSUME k + 1 <= Len(f)
                 PROVE  at[k + 1] >= k + 1 /\ (d <= k + 1 => at[k + 1] > k + 1)
      BY SMT
    <2>1. /\ at[k + 1] \in Nat /\ at[k] \in Nat /\ at[k + 1] >= at[k] + 1
          /\ k + 1 = d => at[k + 1] = at[k] + 2
      BY <1>1, SMT
    <2>2. at[k] >= k /\ (d <= k => at[k] > k)
      BY <1>3, SMT
    <2> QED BY <2>1, <2>2, SMT
  <1> HIDE DEF S
  <1>4. Nat \subseteq S
    BY <1>2, <1>3, SetInduction, Zenon
  <1>5. Len(f) \in Nat /\ Len(f) <= Len(f) /\ d <= Len(f) /\ at[Len(f)] = Len(w)
    BY SMT DEF Ends
  <1>6. at[Len(f)] > Len(f)
    BY <1>4, <1>5, Zenon DEF S
  <1> QED BY <1>5, <1>6, Zenon

LEMMA KeptFilters ==
  ASSUME NEW u, NEW w \in Seq(Byte), NEW g, KeptOf(u, w, g)
  PROVE  Filters(w, {i \in 1 .. Len(w) : Keeps(u, w, i)}, g)
  <1>1. PICK K : K = {i \in 1 .. Len(w) : Keeps(u, w, i)}
    BY Zenon
  <1>2. \A i \in 1 .. Len(w) : i \in K <=> Keeps(u, w, i)
    BY <1>1, Zenon
  <1>3. \A i \in 1 .. Len(w) : g[i] = IF i \in K THEN Append(g[i - 1], w[i]) ELSE g[i - 1]
    BY <1>2, Zenon DEF KeptOf, Step
  <1> QED BY <1>1, <1>3, Zenon DEF KeptOf, Filters

\* What is kept of w is w, or it is shorter.
LEMMA KeptAllOrShort ==
  ASSUME NEW u, NEW w \in Seq(Byte), NEW g, KeptOf(u, w, g)
  PROVE  IF \A i \in 1 .. Len(w) : Keeps(u, w, i)
         THEN g[Len(w)] = w ELSE Len(g[Len(w)]) < Len(w)
  <1>1. PICK K : K = {i \in 1 .. Len(w) : Keeps(u, w, i)} /\ Filters(w, K, g)
    BY KeptFilters, Zenon
  <1>2. CASE \A i \in 1 .. Len(w) : Keeps(u, w, i)
    <2>1. \A i \in 1 .. Len(w) : i \in K
      BY <1>1, <1>2, Zenon
    <2>2. g[Len(w)] = w
      BY <1>1, <2>1, FilterAll, Zenon
    <2> QED BY <1>2, <2>2, Zenon
  <1>3. CASE ~ \A i \in 1 .. Len(w) : Keeps(u, w, i)
    <2>1. PICK d \in 1 .. Len(w) : ~Keeps(u, w, d)
      BY <1>3, Zenon
    <2>2. d \notin K
      BY <1>1, <2>1, Zenon
    <2>3. Len(g[Len(w)]) < Len(w)
      BY <1>1, <2>2, FilterShort, Zenon
    <2> QED BY <1>3, <2>3, Zenon
  <1> QED BY <1>2, <1>3, Zenon

\* Between two texts, only a CR before a byte of the text is lost.
Drops(f, k) == k < Len(f) /\ f[k] = CR /\ f[k + 1] \in Text

LEMMA LineEndKept ==
  ASSUME NEW w \in Seq(Byte), NEW g, KeptOf("A", w, g), NEW i \in Nat, i + 2 <= Len(w),
         w[i + 1] = CR, w[i + 2] = LF
  PROVE  g[i + 2] = Append(g[i], LF)
  <1>1. /\ i + 1 \in 1 .. Len(w) /\ i + 2 \in 1 .. Len(w) /\ i + 1 # Len(w)
        /\ (i + 1) - 1 = i /\ (i + 2) - 1 = i + 1 /\ (i + 1) + 1 = i + 2 /\ CR # LF /\ "A" # "I"
    BY SMT DEF CR, LF
  <1>2. ~Keeps("A", w, i + 1) /\ Keeps("A", w, i + 2)
    <2>1. w[(i + 1) + 1] # CR
      BY <1>1, SMT
    <2>2. w[i + 2] # CR
      BY <1>1, Zenon
    <2> QED BY <1>1, <2>1, <2>2, Zenon DEF Keeps
  <1>3. g[i + 1] = g[i]
    BY <1>1, <1>2, Zenon DEF KeptOf, Step
  <1>4. g[i + 2] = Append(g[i + 1], w[i + 2])
    BY <1>1, <1>2, Zenon DEF KeptOf, Step
  <1> QED BY <1>3, <1>4, Zenon

LEMMA ByteKept ==
  ASSUME NEW f \in Seq(Byte), NEW w, NEW at, Ends("A", f, w, at),
         NEW g, KeptOf("A", w, g), NEW k \in 1 .. Len(f), f[k] # LF
  PROVE  /\ Drops(f, k) => g[at[k]] = g[at[k - 1]]
         /\ ~Drops(f, k) => g[at[k]] = Append(g[at[k - 1]], f[k])
  <1>1. PICK i \in Nat : i = at[k - 1]
    <2>1. k - 1 \in 0 .. Len(f)
      BY SMT
    <2>2. at[k - 1] \in 0 .. Len(w)
      BY <2>1, Zenon DEF Ends
    <2>3. at[k - 1] \in Nat
      BY <2>2, SMT
    <2> QED BY <2>3, Zenon
  <1>2. w \in Seq(Byte) /\ at[k] = i + 1 /\ w[i + 1] = f[k]
    BY <1>1, Zenon DEF Ends
  <1>3. i + 1 \in 1 .. Len(w) /\ (i + 1) - 1 = i /\ "A" # "I"
    <2>1. k \in 0 .. Len(f)
      BY SMT
    <2>2. i + 1 \in 0 .. Len(w)
      BY <1>2, <2>1, Zenon DEF Ends
    <2> QED BY <2>2, SMT
  <1>4. g[i + 1] = IF Keeps("A", w, i + 1) THEN Append(g[i], f[k]) ELSE g[i]
    BY <1>2, <1>3, Zenon DEF KeptOf, Step
  <1>5. Keeps("A", w, i + 1) <=> ~Drops(f, k)
    <2>1. CASE f[k] # CR
      BY <1>2, <2>1, Zenon DEF Keeps, Drops
    <2>2. CASE k = Len(f)
      <3>1. i + 1 = Len(w)
        BY <1>2, <2>2, Zenon DEF Ends
      <3>2. ~(k < Len(f))
        BY <2>2, SMT
      <3> QED BY <3>1, <3>2, Zenon DEF Keeps, Drops
    <2>3. CASE f[k] = CR /\ k # Len(f)
      <3>1. k < Len(f) /\ k + 1 \in 1 .. Len(f) /\ (k + 1) - 1 = k /\ f[k + 1] \in Byte
            /\ k + 1 \in 0 .. Len(f)
        BY <2>3, SMT
      <3>2. /\ at[k + 1] \in 0 .. Len(w)
            /\ IF f[k + 1] = LF
               THEN at[k + 1] = (i + 1) + 2 /\ w[(i + 1) + 1] = CR
               ELSE at[k + 1] = (i + 1) + 1 /\ w[(i + 1) + 1] = f[k + 1]
        BY <1>2, <3>1, Zenon DEF Ends
      <3>3. i + 1 # Len(w)
        BY <1>2, <3>2, SMT
      <3>4. w[(i + 1) + 1] = CR <=> f[k + 1] \notin Text
        BY <3>1, <3>2, TransferAssumption, Zenon DEF Byte
      <3> QED BY <1>2, <1>3, <2>3, <3>1, <3>3, <3>4, Zenon DEF Keeps, Drops
    <2> QED BY <2>1, <2>2, <2>3, Zenon
  <1> QED BY <1>1, <1>2, <1>4, <1>5, Zenon

LEMMA TextFilters ==
  ASSUME NEW f \in Seq(Byte), NEW w, NEW at, Ends("A", f, w, at),
         NEW g, KeptOf("A", w, g)
  PROVE  \E K, h : /\ Filters(f, K, h) /\ h[Len(f)] = g[Len(w)]
                   /\ \A k \in 1 .. Len(f) : k \in K <=> ~Drops(f, k)
  <1>1. PICK h : h = [k \in 0 .. Len(f) |-> g[at[k]]]
    BY Zenon
  <1>2. PICK K : K = {k \in 1 .. Len(f) : ~Drops(f, k)}
    BY Zenon
  <1>3. \A k \in 0 .. Len(f) : h[k] = g[at[k]] /\ at[k] \in 0 .. Len(w)
    BY <1>1, Zenon DEF Ends
  <1>4. \A k \in 0 .. Len(f) : h[k] \in Seq(Byte)
    BY <1>3, Zenon DEF KeptOf
  <1>5. h[0] = <<>>
    <2>1. 0 \in 0 .. Len(f)
      BY SMT
    <2> QED BY <1>3, <2>1, Zenon DEF KeptOf, Ends
  <1>6. ASSUME NEW k \in 1 .. Len(f)
        PROVE  h[k] = IF k \in K THEN Append(h[k - 1], f[k]) ELSE h[k - 1]
    <2>1. k \in 0 .. Len(f) /\ k - 1 \in 0 .. Len(f) /\ (k - 1) + 1 = k
      BY SMT
    <2>2. h[k] = g[at[k]] /\ h[k - 1] = g[at[k - 1]] /\ (k \in K <=> ~Drops(f, k))
      BY <1>2, <1>3, <2>1, Zenon
    <2>3. CASE f[k] = LF
      <3>1. PICK i \in Nat : i = at[k - 1]
        <4>1. at[k - 1] \in 0 .. Len(w)
          BY <1>3, <2>1, Zenon
        <4>2. at[k - 1] \in Nat
          BY <4>1, SMT
        <4> QED BY <4>2, Zenon
      <3>2. w \in Seq(Byte) /\ at[k] = i + 2 /\ w[i + 1] = CR /\ w[i + 2] = LF
        BY <2>3, <3>1, Zenon DEF Ends
      <3>3. i + 2 <= Len(w)
        <4>1. i + 2 \in 0 .. Len(w)
          BY <1>3, <2>1, <3>2, Zenon
        <4> QED BY <3>2, <4>1, SMT
      <3>4. g[i + 2] = Append(g[i], LF)
        BY <3>2, <3>3, LineEndKept, Zenon
      <3>5. k \in K
        <4>1. CR # LF
          BY SMT DEF CR, LF
        <4> QED BY <2>2, <2>3, <4>1, Zenon DEF Drops
      <3> QED BY <2>2, <2>3, <3>1, <3>2, <3>4, <3>5, Zenon
    <2>4. CASE f[k] # LF
      <3>1. /\ Drops(f, k) => g[at[k]] = g[at[k - 1]]
            /\ ~Drops(f, k) => g[at[k]] = Append(g[at[k - 1]], f[k])
        BY <2>4, ByteKept, SMT
      <3> QED BY <2>2, <3>1, Zenon
    <2> QED BY <2>3, <2>4, Zenon
  <1>7. Filters(f, K, h)
    BY <1>4, <1>5, <1>6, Zenon DEF Filters
  <1>8. h[Len(f)] = g[Len(w)]
    <2>1. Len(f) \in 0 .. Len(f)
      BY SMT
    <2> QED BY <1>1, <2>1, Zenon DEF Ends
  <1>9. \A k \in 1 .. Len(f) : k \in K <=> ~Drops(f, k)
    BY <1>2, Zenon
  <1> QED BY <1>7, <1>8, <1>9, Zenon

LEMMA TextToText ==
  ASSUME NEW f \in Seq(Byte), NEW w, NEW at, Ends("A", f, w, at),
         NEW g, KeptOf("A", w, g)
  PROVE  g[Len(w)] = f <=> ~ \E k \in 1 .. Len(f) : Drops(f, k)
  <1>1. PICK K, h : /\ Filters(f, K, h) /\ h[Len(f)] = g[Len(w)]
                    /\ \A k \in 1 .. Len(f) : k \in K <=> ~Drops(f, k)
    BY TextFilters, Zenon
  <1>2. ASSUME NEW k \in 1 .. Len(f), Drops(f, k) PROVE g[Len(w)] # f
    <2>1. k \notin K
      BY <1>1, <1>2, Zenon
    <2>2. Len(h[Len(f)]) < Len(f)
      BY <1>1, <2>1, FilterShort, Zenon
    <2> QED BY <1>1, <2>2, SMT
  <1>3. ASSUME ~ \E k \in 1 .. Len(f) : Drops(f, k) PROVE g[Len(w)] = f
    <2>1. \A k \in 1 .. Len(f) : k \in K
      BY <1>1, <1>3, Zenon
    <2> QED BY <1>1, <2>1, FilterAll, Zenon
  <1> QED BY <1>2, <1>3, Zenon

\* What is read as it is, and written as it is or as a text.
LEMMA SameToType ==
  ASSUME NEW u, NEW f \in Seq(Byte), NEW g, KeptOf(u, f, g)
  PROVE  g[Len(f)] = f <=> \A i \in 1 .. Len(f) : Keeps(u, f, i)
  <1>1. CASE \A i \in 1 .. Len(f) : Keeps(u, f, i)
    BY <1>1, KeptAllOrShort, Zenon
  <1>2. CASE ~ \A i \in 1 .. Len(f) : Keeps(u, f, i)
    <2>1. Len(g[Len(f)]) < Len(f)
      BY <1>2, KeptAllOrShort, Zenon
    <2>2. g[Len(f)] # f
      BY <2>1, SMT
    <2> QED BY <1>2, <2>2, Zenon
  <1> QED BY <1>1, <1>2, Zenon

LEMMA SurvivesIff ==
  ASSUME content \in Seq(Byte), rType \in Type, wType \in Type,
         NEW w, NEW at, Ends(rType, content, w, at), NEW g, KeptOf(wType, w, g)
  PROVE  g[Len(w)] = content <=> <<rType, wType>> \in SurvivingTypes
  <1>1. w \in Seq(Byte) /\ "A" # "I"
    BY SMT DEF Ends
  <1>2. CASE rType = "I"
    <2>1. w = content
      BY <1>1, <1>2, SameForm, Zenon
    <2>2. g[Len(w)] = content <=> \A i \in 1 .. Len(content) : Keeps(wType, content, i)
      BY <2>1, SameToType, Zenon
    <2>3. CASE wType = "I"
      <3>1. <<"I", "I">> \in SurvivingTypes
        BY Zenon DEF SurvivingTypes
      <3>2. \A i \in 1 .. Len(content) : Keeps(wType, content, i)
        BY <2>3, Zenon DEF Keeps
      <3> QED BY <1>2, <2>2, <2>3, <3>1, <3>2, Zenon
    <2>4. CASE wType = "A"
      <3>1. <<"I", "A">> \in SurvivingTypes <=> ~CRBefore(Text \cup {LF})
        BY SMT DEF SurvivingTypes
      <3>2. ASSUME CRBefore(Text \cup {LF})
            PROVE  \E i \in 1 .. Len(content) : ~Keeps(wType, content, i)
        <4>1. PICK i \in 1 .. Len(content) - 1 :
                content[i] = CR /\ content[i + 1] \in Text \cup {LF}
          BY <3>2, Zenon DEF CRBefore
        <4>2. i \in 1 .. Len(content) /\ i # Len(content)
          BY <4>1, SMT
        <4>3. content[i + 1] # CR
          <5>1. CR # LF
            BY SMT DEF CR, LF
          <5> QED BY <4>1, <5>1, TransferAssumption, Zenon
        <4> QED BY <1>1, <2>4, <4>1, <4>2, <4>3, Zenon DEF Keeps
      <3>3. ASSUME NEW i \in 1 .. Len(content), ~Keeps(wType, content, i)
            PROVE  CRBefore(Text \cup {LF})
        <4>1. content[i] = CR /\ i # Len(content) /\ content[i + 1] # CR
          BY <3>3, Zenon DEF Keeps
        <4>2. i \in 1 .. Len(content) - 1 /\ content[i + 1] \in Byte
          BY <4>1, SMT
        <4>3. content[i + 1] \in Text \cup {LF}
          BY <4>1, <4>2, Zenon DEF Byte
        <4> QED BY <4>1, <4>2, <4>3, Zenon DEF CRBefore
      <3> QED BY <1>2, <2>2, <2>4, <3>1, <3>2, <3>3, Zenon
    <2> QED BY <2>3, <2>4, SMT DEF Type
  <1>3. CASE rType = "A" /\ wType = "I"
    <2>1. <<"A", "I">> \in SurvivingTypes <=> ~Contains(content, LF)
      BY SMT DEF SurvivingTypes
    <2>2. Contains(content, LF) <=> \E i \in 1 .. Len(content) : content[i] = LF
      BY Zenon DEF Contains
    <2>3. g[Len(w)] = w
      <3>1. \A i \in 1 .. Len(w) : Keeps(wType, w, i)
        BY <1>3, Zenon DEF Keeps
      <3> QED BY <1>1, <3>1, KeptAllOrShort, Zenon
    <2>4. ASSUME NEW i \in 1 .. Len(content), content[i] = LF PROVE w # content
      <3>1. Len(w) > Len(content)
        BY <1>3, <2>4, LongerForm, Zenon
      <3> QED BY <3>1, SMT
    <2>5. ASSUME ~ \E i \in 1 .. Len(content) : content[i] = LF PROVE w = content
      BY <2>5, SameForm, Zenon
    <2> QED BY <1>3, <2>1, <2>2, <2>3, <2>4, <2>5, Zenon
  <1>4. CASE rType = "A" /\ wType = "A"
    <2>1. <<"A", "A">> \in SurvivingTypes <=> ~CRBefore(Text)
      BY SMT DEF SurvivingTypes
    <2>2. g[Len(w)] = content <=> ~ \E k \in 1 .. Len(content) : Drops(content, k)
      BY <1>4, TextToText, Zenon
    <2>3. CRBefore(Text) <=> \E k \in 1 .. Len(content) : Drops(content, k)
      <3>1. \A k : k \in 1 .. Len(content) - 1 <=> k \in 1 .. Len(content) /\ k < Len(content)
        BY SMT
      <3> QED BY <3>1, Zenon DEF CRBefore, Drops
    <2> QED BY <1>4, <2>1, <2>2, <2>3, Zenon
  <1> QED BY <1>2, <1>3, <1>4, SMT DEF Type

LEMMA FollowSurvives == TransferInv => SurvivesAsAssumed
  <1> SUFFICES ASSUME TransferInv, spc = "done", rpc = "done", ~broken, ~full
               PROVE  disk = content <=> <<rType, wType>> \in SurvivingTypes
    BY Zenon DEF SurvivesAsAssumed
  <1>1. PICK w, at, g, k, n : Follow(w, at, g, k, n)
    BY Zenon DEF TransferInv
  <1>2. /\ w = Form /\ w \in Seq(Byte) /\ content \in Seq(Byte) /\ Ends(rType, content, w, at)
        /\ rType \in Type /\ wType \in Type
    BY <1>1, SizesTyped, TypesApart, Zenon DEF Follow, TransferInv, Sizes, ChosenTyped
  <1>3. disk = Arrived(Len(w))
    BY <1>1, <1>2, Zenon DEF Follow, Ended, Received
  <1>4. disk = FromWire(wType, w)
    <2>1. SubSeq(w, 1, Len(w)) = w
      BY <1>2, SubSeqFull, Zenon
    <2> QED BY <1>2, <1>3, <2>1, Zenon DEF Arrived
  <1>5. PICK h : KeptOf(wType, w, h) /\ FromWire(wType, w) = h[Len(w)]
    BY <1>2, FromWireKeeps, Zenon
  <1>6. h[Len(w)] = content <=> <<rType, wType>> \in SurvivingTypes
    BY <1>2, <1>5, SurvivesIff, Zenon
  <1> QED BY <1>4, <1>5, <1>6, Zenon

(***************************************************************************)
(* A transfer that both ends completed gives the file back for exactly     *)
(* those pairs of types that SurvivingTypes names for it, for every file.  *)
(***************************************************************************)
THEOREM TransferSurvives == Spec => []SurvivesAsAssumed
  <1>1. Spec => []TransferInv
    BY InitFollows, StepFollows, PTL DEF Spec
  <1> QED BY <1>1, FollowSurvives, PTL
=============================================================================
