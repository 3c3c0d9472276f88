--------------------------- MODULE KeyCodecProofs ---------------------------
(***************************************************************************)
(* The codec of typed keys is injective: whatever the types, the number    *)
(* and the bytes of its components, a canonical key is that of one tuple.  *)
(*                                                                         *)
(* The canonical key is built component by component (Encodings), so the   *)
(* proofs are by induction.  It is stated for a set of numbers, Inductive, *)
(* from the well-foundedness of the natural numbers: first the recursion   *)
(* that defines Encodings is shown to have a solution, then what was       *)
(* encoded first is shown to stay in front, and then two equal encodings   *)
(* are read back one component after another.                              *)
(***************************************************************************)
EXTENDS KeyCodec, SequenceTheorems, WellFoundedInduction, TLAPS

\* Induction, for a set: each number is reached from zero.
LEMMA Inductive ==
  ASSUME NEW S, 0 \in S, \A n \in Nat : n \in S => n + 1 \in S
  PROVE  Nat \subseteq S
  <1> DEFINE R == OpToRel(<, Nat)
             T == Nat \ S
  <1> SUFFICES ASSUME T # {} PROVE FALSE
    OBVIOUS
  <1>1. PICK n \in T : \A m \in T : ~ (<<m, n>> \in R)
    <2>1. T \subseteq Nat
      OBVIOUS
    <2> HIDE DEF R, T
    <2> QED BY <2>1, WFMin, NatLessThanWellFounded DEF R
  <1>2. \A m \in Nat : m < n => <<m, n>> \in R
    BY <1>1 DEF OpToRel
  <1>3. n \in Nat /\ n # 0 /\ n \notin S
    OBVIOUS
  <1>4. n - 1 \in Nat /\ n - 1 < n /\ (n - 1) + 1 = n
    BY <1>3
  <1>5. n - 1 \in S
    BY <1>1, <1>2, <1>4
  <1> QED BY <1>3, <1>4, <1>5

LEMMA LengthBytesInjective ==
  ASSUME NEW a \in Nat, NEW b \in Nat,
         FitsU32(a), FitsU32(b),
         \A i \in 1 .. 4 : LengthBytes(a)[i] = LengthBytes(b)[i]
  PROVE  a = b
  <1>1. /\ LengthBytes(a)[1] = LengthBytes(b)[1]
        /\ LengthBytes(a)[2] = LengthBytes(b)[2]
        /\ LengthBytes(a)[3] = LengthBytes(b)[3]
        /\ LengthBytes(a)[4] = LengthBytes(b)[4]
    OBVIOUS
  <1>2. /\ (a \div 16777216) % 256 = (b \div 16777216) % 256
        /\ (a \div 65536) % 256 = (b \div 65536) % 256
        /\ (a \div 256) % 256 = (b \div 256) % 256
        /\ a % 256 = b % 256
    BY <1>1, SMT DEF LengthBytes
  <1>3. a \div 16777216 = b \div 16777216
    BY <1>2, SMT DEF FitsU32
  <1>4. a \div 65536 = b \div 65536
    <2>1. \A x \in Nat : x \div 16777216 = (x \div 65536) \div 256
      BY SMT
    <2> QED BY <1>2, <1>3, <2>1, SMT
  <1>5. a \div 256 = b \div 256
    <2>1. \A x \in Nat : x \div 65536 = (x \div 256) \div 256
      BY SMT
    <2> QED BY <1>2, <1>4, <2>1, SMT
  <1> QED BY <1>2, <1>5, SMT


LEMMA LengthBytesType ==
  ASSUME NEW n \in Nat
  PROVE  LengthBytes(n) \in Bytes /\ Len(LengthBytes(n)) = 4
  <1>1. /\ (n \div 16777216) % 256 \in 0 .. 255 /\ (n \div 65536) % 256 \in 0 .. 255
        /\ (n \div 256) % 256 \in 0 .. 255 /\ n % 256 \in 0 .. 255
    BY SMT
  <1> QED BY <1>1, SMT DEF LengthBytes, Bytes

LEMMA ConcatBytes ==
  ASSUME NEW a \in Bytes, NEW b \in Bytes
  PROVE  /\ a \o b \in Bytes /\ Len(a \o b) = Len(a) + Len(b)
         /\ Len(a) \in Nat /\ Len(b) \in Nat
         /\ \A i \in 1 .. Len(a) : (a \o b)[i] = a[i]
         /\ \A i \in 1 .. Len(b) : (a \o b)[Len(a) + i] = b[i]
  BY DEF Bytes

\* A component is its tag, four bytes of length, and its bytes.
LEMMA ComponentFields ==
  ASSUME NEW s \in ScalarKeys
  PROVE  /\ Component(s) \in Bytes
         /\ Len(Component(s)) = 5 + Len(s.bytes)
         /\ Component(s)[1] = TypeTag[s.type]
         /\ \A i \in 1 .. 4 : Component(s)[1 + i] = LengthBytes(Len(s.bytes))[i]
         /\ \A i \in 1 .. Len(s.bytes) : Component(s)[5 + i] = s.bytes[i]
  <1> DEFINE tag == <<TypeTag[s.type]>>
             length == LengthBytes(Len(s.bytes))
  <1>1. s.bytes \in Bytes /\ Len(s.bytes) \in Nat /\ s.type \in DOMAIN TypeTag
    BY DEF ScalarKeys, Bytes
  <1>2. TypeTag[s.type] \in 0 .. 255
    <2>1. s.type = "bigint" \/ s.type = "uuid" \/ s.type = "text"
      BY <1>1 DEF TypeTag
    <2> QED BY <2>1 DEF TypeTag
  <1>3. tag \in Bytes /\ Len(tag) = 1 /\ tag[1] = TypeTag[s.type]
    BY <1>2 DEF Bytes
  <1>4. length \in Bytes /\ Len(length) = 4
    BY <1>1, LengthBytesType
  <1>5. Component(s) = tag \o length \o s.bytes
    BY DEF Component
  <1> HIDE DEF tag, length
  <1>6. /\ tag \o length \in Bytes /\ Len(tag \o length) = 5
        /\ (tag \o length)[1] = tag[1]
        /\ \A i \in 1 .. 4 : (tag \o length)[1 + i] = length[i]
    <2> DEFINE front == tag \o length
    <2>1. /\ front \in Bytes /\ Len(front) = Len(tag) + Len(length)
          /\ \A i \in 1 .. Len(tag) : front[i] = tag[i]
          /\ \A i \in 1 .. Len(length) : front[Len(tag) + i] = length[i]
      BY <1>3, <1>4, ConcatBytes
    <2> HIDE DEF front
    <2>2. /\ front \in Bytes /\ Len(front) = 5 /\ front[1] = tag[1]
          /\ \A i \in 1 .. 4 : front[1 + i] = length[i]
      BY <1>3, <1>4, <2>1
    <2> QED BY <2>2 DEF front
  <1>7. /\ Component(s) \in Bytes /\ Len(Component(s)) = 5 + Len(s.bytes)
        /\ \A i \in 1 .. 5 : Component(s)[i] = (tag \o length)[i]
        /\ \A i \in 1 .. Len(s.bytes) : Component(s)[5 + i] = s.bytes[i]
    <2> DEFINE front == tag \o length
    <2>1. front \in Bytes /\ Len(front) = 5
      BY <1>6
    <2> HIDE DEF front
    <2>2. /\ front \o s.bytes \in Bytes
          /\ Len(front \o s.bytes) = Len(front) + Len(s.bytes)
          /\ \A i \in 1 .. Len(front) : (front \o s.bytes)[i] = front[i]
          /\ \A i \in 1 .. Len(s.bytes) :
               (front \o s.bytes)[Len(front) + i] = s.bytes[i]
      BY <1>1, <2>1, ConcatBytes
    <2>3. Component(s) = front \o s.bytes
      BY <1>5 DEF front
    <2>4. /\ Component(s) \in Bytes /\ Len(Component(s)) = 5 + Len(s.bytes)
          /\ \A i \in 1 .. 5 : Component(s)[i] = front[i]
          /\ \A i \in 1 .. Len(s.bytes) : Component(s)[5 + i] = s.bytes[i]
      BY <2>1, <2>2, <2>3
    <2> QED BY <2>4 DEF front
  <1>8. \A i \in 1 .. 4 : Component(s)[1 + i] = length[i]
    BY <1>6, <1>7
  <1> QED BY <1>3, <1>6, <1>7, <1>8 DEF length

\* Neither of two different components is the beginning of the other.
LEMMA ComponentsPrefixFree ==
  ASSUME NEW s \in ScalarKeys, NEW t \in ScalarKeys,
         \A i \in 1 .. Len(Component(s)) :
           i <= Len(Component(t)) => Component(s)[i] = Component(t)[i]
  PROVE  s = t
  <1>1. /\ s = [type |-> s.type, bytes |-> s.bytes] /\ s.type \in DOMAIN TypeTag
        /\ t = [type |-> t.type, bytes |-> t.bytes] /\ t.type \in DOMAIN TypeTag
        /\ s.bytes \in Bytes /\ Len(s.bytes) \in Nat
        /\ t.bytes \in Bytes /\ Len(t.bytes) \in Nat
        /\ FitsU32(Len(s.bytes)) /\ FitsU32(Len(t.bytes))
    BY DEF ScalarKeys, Bytes
  <1>2. s.type = t.type
    <2>1. TypeTag[s.type] = TypeTag[t.type]
      BY <1>1, ComponentFields
    <2> QED BY <1>1, <2>1 DEF TypeTag
  <1>3. Len(s.bytes) = Len(t.bytes)
    <2>1. ASSUME NEW i \in 1 .. 4
          PROVE  LengthBytes(Len(s.bytes))[i] = LengthBytes(Len(t.bytes))[i]
      <3>1. Component(s)[1 + i] = Component(t)[1 + i]
        BY <1>1, ComponentFields
      <3> QED BY <3>1, ComponentFields
    <2> QED BY <1>1, <2>1, LengthBytesInjective
  <1>4. s.bytes = t.bytes
    <2>1. ASSUME NEW i \in 1 .. Len(s.bytes)
          PROVE  s.bytes[i] = t.bytes[i]
      <3>1. Component(s)[5 + i] = Component(t)[5 + i]
        BY <1>1, <1>3, ComponentFields
      <3> QED BY <1>3, <3>1, ComponentFields
    <2> QED BY <1>1, <1>3, <2>1, SeqEqual DEF Bytes
  <1> QED BY <1>1, <1>2, <1>4

-----------------------------------------------------------------------------
LEMMA EncodingsUnfold ==
  ASSUME NEW v \in Seq(ScalarKeys)
  PROVE  Encodings(v) =
           [n \in 0 .. Len(v) |->
              IF n = 0 THEN <<TupleCodecV2, Len(v)>>
                       ELSE Encodings(v)[n - 1] \o Component(v[n])]
  <1> DEFINE Unfolds(f, n) ==
               f = [i \in 0 .. n |->
                      IF i = 0 THEN <<TupleCodecV2, Len(v)>>
                               ELSE f[i - 1] \o Component(v[i])]
  <1>1. \A n \in Nat : \E f : Unfolds(f, n)
    <2> DEFINE S == {n \in Nat : \E f : Unfolds(f, n)}
    <2>1. 0 \in S
      <3> DEFINE f == [i \in 0 .. 0 |-> <<TupleCodecV2, Len(v)>>]
      <3>1. \A i \in 0 .. 0 : i = 0
        OBVIOUS
      <3>2. Unfolds(f, 0)
        BY <3>1
      <3> QED BY <3>2
    <2>2. ASSUME NEW n \in Nat, n \in S PROVE n + 1 \in S
      <3>1. PICK f : Unfolds(f, n)
        BY <2>2
      <3> DEFINE g == [i \in 0 .. n + 1 |->
                         IF i = n + 1 THEN f[n] \o Component(v[n + 1]) ELSE f[i]]
      <3>2. /\ n + 1 \in 0 .. n + 1 /\ n + 1 # 0 /\ (n + 1) - 1 = n
            /\ \A i \in 0 .. n : i \in 0 .. n + 1 /\ i # n + 1
            /\ \A i \in 0 .. n + 1 : i # n + 1 => i \in 0 .. n
            /\ \A i \in 0 .. n : i # 0 => i - 1 \in 0 .. n
            /\ n \in 0 .. n
        OBVIOUS
      <3>3. /\ \A i \in 0 .. n : g[i] = f[i]
            /\ g[n + 1] = f[n] \o Component(v[n + 1])
        BY <3>2
      <3>4. \A i \in 0 .. n : f[i] = IF i = 0 THEN <<TupleCodecV2, Len(v)>>
                                              ELSE f[i - 1] \o Component(v[i])
        BY <3>1
      <3>5. ASSUME NEW i \in 0 .. n + 1
            PROVE  g[i] = IF i = 0 THEN <<TupleCodecV2, Len(v)>>
                                   ELSE g[i - 1] \o Component(v[i])
        <4> HIDE DEF g, Unfolds
        <4>1. CASE i = n + 1
          BY <3>2, <3>3, <4>1
        <4>2. CASE i # n + 1
          BY <3>2, <3>3, <3>4, <4>2
        <4> QED BY <4>1, <4>2
      <3>6. Unfolds(g, n + 1)
        BY <3>5
      <3> HIDE DEF g, Unfolds
      <3> QED BY <3>6
    <2> HIDE DEF S, Unfolds
    <2>3. Nat \subseteq S
      BY <2>1, <2>2, Inductive
    <2> QED BY <2>3 DEF S
  <1>2. \E f : Unfolds(f, Len(v))
    <2> HIDE DEF Unfolds
    <2> QED BY <1>1
  <1> QED BY <1>2 DEF Encodings

LEMMA EncodingsStep ==
  ASSUME NEW v \in TypedTuples
  PROVE  /\ Len(v) \in Nat
         /\ Encodings(v)[0] = <<TupleCodecV2, Len(v)>>
         /\ \A n \in 1 .. Len(v) :
              /\ v[n] \in ScalarKeys
              /\ Encodings(v)[n] = Encodings(v)[n - 1] \o Component(v[n])
  <1>1. v \in Seq(ScalarKeys) /\ Len(v) \in Nat
    BY DEF TypedTuples
  <1>2. \A n \in 0 .. Len(v) : Encodings(v)[n] =
          IF n = 0 THEN <<TupleCodecV2, Len(v)>>
                   ELSE Encodings(v)[n - 1] \o Component(v[n])
    BY <1>1, EncodingsUnfold
  <1>3. 0 \in 0 .. Len(v) /\ \A n \in 1 .. Len(v) : n \in 0 .. Len(v) /\ n # 0
    BY <1>1
  <1>4. \A n \in 1 .. Len(v) : v[n] \in ScalarKeys
    BY <1>1
  <1> QED BY <1>1, <1>2, <1>3, <1>4

LEMMA EncodingsType ==
  ASSUME NEW v \in TypedTuples
  PROVE  \A n \in 0 .. Len(v) : Encodings(v)[n] \in Bytes
  <1> DEFINE S == {n \in Nat : n <= Len(v) => Encodings(v)[n] \in Bytes}
  <1>1. 0 \in S
    <2>1. Len(v) \in 0 .. 255 /\ TupleCodecV2 \in 0 .. 255
      BY DEF TypedTuples, TupleCodecV2
    <2>2. <<TupleCodecV2, Len(v)>> \in Bytes
      BY <2>1 DEF Bytes
    <2> QED BY <2>2, EncodingsStep
  <1>2. ASSUME NEW n \in Nat, n \in S PROVE n + 1 \in S
    <2> SUFFICES ASSUME n + 1 <= Len(v)
                 PROVE  Encodings(v)[n + 1] \in Bytes
      OBVIOUS
    <2>1. n + 1 \in 1 .. Len(v) /\ (n + 1) - 1 = n /\ n <= Len(v)
      BY EncodingsStep
    <2>2. Encodings(v)[n] \in Bytes
      BY <1>2, <2>1
    <2>3. /\ Encodings(v)[n + 1] = Encodings(v)[n] \o Component(v[n + 1])
          /\ v[n + 1] \in ScalarKeys
      BY <2>1, EncodingsStep
    <2> QED BY <2>2, <2>3, ComponentFields, ConcatBytes
  <1> HIDE DEF S
  <1>3. Nat \subseteq S
    BY <1>1, <1>2, Inductive
  <1> QED BY <1>3, EncodingsStep DEF S

\* What is encoded already stays at the front.
LEMMA EncodingsGrow ==
  ASSUME NEW v \in TypedTuples, NEW m \in 0 .. Len(v), NEW n \in m .. Len(v)
  PROVE  /\ Len(Encodings(v)[m]) \in Nat /\ Len(Encodings(v)[n]) \in Nat
         /\ Len(Encodings(v)[m]) <= Len(Encodings(v)[n])
         /\ \A i \in 1 .. Len(Encodings(v)[m]) :
              Encodings(v)[n][i] = Encodings(v)[m][i]
  <1> DEFINE Front(k) == /\ Len(Encodings(v)[m]) <= Len(Encodings(v)[k])
                         /\ \A i \in 1 .. Len(Encodings(v)[m]) :
                              Encodings(v)[k][i] = Encodings(v)[m][i]
             S == {d \in Nat : m + d <= Len(v) => Front(m + d)}
  <1>1. \A k \in 0 .. Len(v) :
          Encodings(v)[k] \in Bytes /\ Len(Encodings(v)[k]) \in Nat
    BY EncodingsType DEF Bytes
  <1>2. m \in Nat /\ Len(v) \in Nat
    BY EncodingsStep
  <1>3. 0 \in S
    BY <1>1, <1>2
  <1>4. ASSUME NEW d \in Nat, d \in S PROVE d + 1 \in S
    <2> SUFFICES ASSUME m + (d + 1) <= Len(v)
                 PROVE  Front(m + (d + 1))
      OBVIOUS
    <2> DEFINE k == m + d
    <2>1. /\ k \in 0 .. Len(v) /\ k <= Len(v) /\ k + 1 = m + (d + 1)
          /\ k + 1 \in 1 .. Len(v) /\ (k + 1) - 1 = k
      BY <1>2
    <2>2. Front(k)
      BY <1>4, <2>1
    <2> HIDE DEF k
    <2> DEFINE a == Encodings(v)[k]
               b == Component(v[k + 1])
    <2>3. Encodings(v)[k + 1] = a \o b /\ a \in Bytes /\ b \in Bytes
      <3>1. /\ v[k + 1] \in ScalarKeys
            /\ Encodings(v)[k + 1] = Encodings(v)[(k + 1) - 1] \o b
        BY <2>1, EncodingsStep
      <3>2. Encodings(v)[k + 1] = a \o b
        BY <2>1, <3>1
      <3>3. b \in Bytes
        BY <3>1, ComponentFields
      <3> QED BY <1>1, <2>1, <3>2, <3>3
    <2>4. /\ Len(a \o b) = Len(a) + Len(b) /\ Len(a) \in Nat /\ Len(b) \in Nat
          /\ \A i \in 1 .. Len(a) : (a \o b)[i] = a[i]
      BY <2>3, ConcatBytes
    <2>5. Front(k + 1)
      <3> HIDE DEF b
      <3>1. Len(Encodings(v)[m]) \in Nat
        BY <1>1, <1>2
      <3> QED BY <2>2, <2>3, <2>4, <3>1
    <2> QED BY <2>1, <2>5
  <1>5. Front(n)
    <2> HIDE DEF S, Front
    <2>1. Nat \subseteq S
      BY <1>3, <1>4, Inductive
    <2>2. n - m \in Nat /\ m + (n - m) = n /\ n <= Len(v)
      BY <1>2
    <2> QED BY <2>1, <2>2 DEF S
  <1> QED BY <1>1, <1>2, <1>5

LEMMA EncodedFront ==
  ASSUME NEW v \in TypedTuples
  PROVE  \A n \in 0 .. Len(v) : \A i \in 1 .. Len(Encodings(v)[n]) :
           EncodeTupleV2(v)[i] = Encodings(v)[n][i]
  <1> SUFFICES ASSUME NEW n \in 0 .. Len(v), NEW i \in 1 .. Len(Encodings(v)[n])
               PROVE  EncodeTupleV2(v)[i] = Encodings(v)[n][i]
    OBVIOUS
  <1>1. Len(v) \in n .. Len(v)
    BY EncodingsStep
  <1>2. Encodings(v)[Len(v)][i] = Encodings(v)[n][i]
    BY <1>1, EncodingsGrow
  <1> QED BY <1>2 DEF EncodeTupleV2

-----------------------------------------------------------------------------
\* Different typed keys have different canonical keys: whatever bytes the
\* components have, and however many there are, a reader of the bytes finds
\* each component where it was written.
THEOREM CodecIsInjective ==
  ASSUME NEW v \in TypedTuples, NEW w \in TypedTuples,
         EncodeTupleV2(v) = EncodeTupleV2(w)
  PROVE  v = w
  <1> DEFINE X == EncodeTupleV2(v)
             E(t, n) == Encodings(t)[n]
  <1>1. \A n \in 0 .. Len(v) : \A i \in 1 .. Len(E(v, n)) : X[i] = E(v, n)[i]
    BY EncodedFront
  <1>2. \A n \in 0 .. Len(w) : \A i \in 1 .. Len(E(w, n)) : X[i] = E(w, n)[i]
    BY EncodedFront
  <1> HIDE DEF X
  <1>3. Len(v) = Len(w)
    <2>1. /\ Len(v) \in Nat /\ Len(w) \in Nat
          /\ E(v, 0) = <<TupleCodecV2, Len(v)>>
          /\ E(w, 0) = <<TupleCodecV2, Len(w)>>
      BY EncodingsStep
    <2>2. Len(E(v, 0)) = 2 /\ Len(E(w, 0)) = 2
          /\ E(v, 0)[2] = Len(v) /\ E(w, 0)[2] = Len(w)
      BY <2>1
    <2> QED BY <1>1, <1>2, <2>1, <2>2
  <1> DEFINE S == {n \in Nat : n <= Len(v) =>
                     E(v, n) = E(w, n) /\ (n # 0 => v[n] = w[n])}
  <1>4. 0 \in S
    BY <1>3, EncodingsStep
  <1>5. ASSUME NEW n \in Nat, n \in S PROVE n + 1 \in S
    <2> SUFFICES ASSUME n + 1 <= Len(v)
                 PROVE  E(v, n + 1) = E(w, n + 1) /\ v[n + 1] = w[n + 1]
      OBVIOUS
    <2> DEFINE a == E(v, n)
               s == v[n + 1]
               t == w[n + 1]
    <2>1. /\ n \in 0 .. Len(v) /\ n + 1 \in 1 .. Len(v) /\ (n + 1) - 1 = n
          /\ n + 1 \in 0 .. Len(v) /\ n <= Len(v)
      BY EncodingsStep
    <2>2. a = E(w, n) /\ a \in Bytes
      BY <1>5, <2>1, EncodingsType
    <2>3. /\ E(v, n + 1) = a \o Component(s) /\ s \in ScalarKeys
          /\ E(w, n + 1) = a \o Component(t) /\ t \in ScalarKeys
      BY <1>3, <2>1, <2>2, EncodingsStep
    <2> HIDE DEF E, a, s, t
    <2>4. Component(s) \in Bytes /\ Component(t) \in Bytes
      BY <2>3, ComponentFields
    <2>5. ASSUME NEW r, Component(r) \in Bytes,
                 \A i \in 1 .. Len(a \o Component(r)) : X[i] = (a \o Component(r))[i]
          PROVE  \A i \in 1 .. Len(Component(r)) : X[Len(a) + i] = Component(r)[i]
      <3> SUFFICES ASSUME NEW i \in 1 .. Len(Component(r))
                   PROVE  X[Len(a) + i] = Component(r)[i]
        OBVIOUS
      <3>1. /\ Len(a \o Component(r)) = Len(a) + Len(Component(r))
            /\ Len(a) \in Nat /\ Len(Component(r)) \in Nat
            /\ (a \o Component(r))[Len(a) + i] = Component(r)[i]
        BY <2>2, <2>5, ConcatBytes
      <3>2. Len(a) + i \in 1 .. Len(a \o Component(r))
        BY <3>1
      <3> QED BY <2>5, <3>1, <3>2
    <2>6. \A i \in 1 .. Len(Component(s)) : X[Len(a) + i] = Component(s)[i]
      BY <1>1, <2>1, <2>3, <2>4, <2>5
    <2>7. \A i \in 1 .. Len(Component(t)) : X[Len(a) + i] = Component(t)[i]
      BY <1>2, <1>3, <2>1, <2>3, <2>4, <2>5
    <2>8. s = t
      <3>1. Len(Component(s)) \in Nat /\ Len(Component(t)) \in Nat
        BY <2>4 DEF Bytes
      <3> QED BY <2>3, <2>6, <2>7, <3>1, ComponentsPrefixFree
    <2> QED BY <2>3, <2>8 DEF s, t
  <1>6. \A n \in 1 .. Len(v) : v[n] = w[n]
    <2> HIDE DEF S, E
    <2>1. Nat \subseteq S
      BY <1>4, <1>5, Inductive
    <2>2. \A n \in 1 .. Len(v) : n \in Nat /\ n # 0 /\ n <= Len(v)
      BY EncodingsStep
    <2> QED BY <2>1, <2>2 DEF S
  <1>7. v \in Seq(ScalarKeys) /\ w \in Seq(ScalarKeys)
    BY DEF TypedTuples
  <1> QED BY <1>3, <1>6, <1>7, SeqEqual
=============================================================================
