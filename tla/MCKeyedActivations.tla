------------------------- MODULE MCKeyedActivations -------------------------
(***************************************************************************)
(* Model checking of KeyedActivations with a digest small enough to        *)
(* collide: two typed keys share a surrogate, and two surrogates share an  *)
(* activation uuid.                                                        *)
(***************************************************************************)
EXTENDS KeyedActivations, SequencesExt

CONSTANTS s1, s2

SlotSymmetry == Permutations({s1, s2})

North == Scalar("text", <<110>>)
South == Scalar("text", <<111>>)

\* i64::to_be_bytes.  TLC's integers have 32 bits: the bytes above the third
\* only show the sign.
BigEndian(value) ==
  [i \in 1 .. 8 |->
     IF i > 5 THEN (value \div 256 ^ (8 - i)) % 256
              ELSE IF value < 0 THEN 255 ELSE 0]
Bigint(value) == Scalar("bigint", BigEndian(value))

\* The first two share their surrogate; the surrogates of the first and of the
\* third share their activation uuid; the fourth collides with none.
MCTuples == {<<North, Bigint(3)>>, <<North, Bigint(6)>>, <<North, Bigint(5)>>,
             <<South, Bigint(6)>>, <<North, Null>>}
MCVersion == [i \in 1 .. 16 |-> 0]

\* A digest made of the sum of the bytes: one of three surrogates for a
\* canonical key, fewer uuids, and a last byte that tells digests apart.
MCSha256(bytes) ==
  LET sum == FoldLeft(LAMBDA total, byte : total + byte, 0, bytes)
  IN  [i \in 1 .. 32 |->
         CASE i = 8  -> IF bytes[1] = TupleCodecV2 THEN sum % 3 ELSE sum \div 2
           [] i = 32 -> sum % 256
           [] OTHER  -> 0]

\* Scalars whose bytes imitate lengths, tags and one another; one is North with
\* the tag and the first bytes of a bigint behind it.
Uuid == Scalar("uuid", [i \in 1 .. 16 |-> i])
Texts == {Scalar("text", bytes) :
            bytes \in {<<>>, <<3>>, <<1>>, <<0, 0, 0, 1>>, <<110, 3>>, Uuid.bytes,
                       BigEndian(5), <<110, 1, 0, 0, 0, 0, 0, 0, 0>>}}
MCTypedKeys ==
  LET scalars == Texts \cup {North, South, Uuid, Bigint(3), Bigint(5), Bigint(6), Bigint(-1)}
  IN  UNION {[1 .. arity -> scalars] : arity \in 1 .. 2}
=============================================================================
