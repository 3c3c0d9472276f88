------------------------------ MODULE KeyCodec ------------------------------
(***************************************************************************)
(* The portable codec of semantic keys and the identities derived from it  *)
(* (src/identity.rs and its SQL twin: key_component, canonical_key,        *)
(* key_surrogate, activation_digest, activation_uuid).                     *)
(*                                                                         *)
(* A byte string is a sequence of numbers in 0 .. 255.  A scalar is given  *)
(* by its type and its binary value: a bigint and a uuid by their 8 and 16 *)
(* network-order bytes (i64::to_be_bytes, int8send, Uuid::as_bytes), a     *)
(* text by its UTF-8 bytes.  SHA-256 is a parameter: nothing here assumes  *)
(* that it has no collisions.                                              *)
(***************************************************************************)
EXTENDS Integers, Sequences

CONSTANT Sha256(_)       \* a byte string to its digest of 32 bytes

BigintCodecV1 == 1
TupleCodecV2  == 2
TypeTag == [bigint |-> 1, uuid |-> 2, text |-> 3]

\* ScalarKey: one component of a semantic key.
Scalar(type, bytes) == [type |-> type, bytes |-> bytes]

Bytes == Seq(0 .. 255)

\* The lengths that `bytes.len() as u32` keeps.
FitsU32(n) == n \div 16777216 < 256

\* (n as u32).to_be_bytes(): the length of a component.
LengthBytes(n) ==
  <<(n \div 16777216) % 256, (n \div 65536) % 256, (n \div 256) % 256, n % 256>>

\* The tuples that encode_tuple_v2 takes: it asserts their arity.  The length
\* of a text above u32::MAX would wrap; PostgreSQL has no text of that size.
ScalarKeys ==
  {s \in [type : DOMAIN TypeTag, bytes : Bytes] : FitsU32(Len(s.bytes))}
TypedTuples == {v \in Seq(ScalarKeys) : Len(v) \in 1 .. 255}

\* encode_bigint_v1: version, tag, 32-bit length, the eight bytes.
EncodeBigintV1(bytes) ==
  <<BigintCodecV1, TypeTag.bigint>> \o LengthBytes(8) \o bytes

\* Fault: components follow one another without their lengths.
BareComponent(scalar) == <<TypeTag[scalar.type]>> \o scalar.bytes

\* key_component: tag, 32-bit length, the bytes.
Component(scalar) ==
  <<TypeTag[scalar.type]>> \o LengthBytes(Len(scalar.bytes)) \o scalar.bytes

\* encode_tuple_v2: version and arity, then the components in declared order;
\* Encodings(values)[n] is what `encoded` holds after n of them.
Encodings(values) ==
  LET encoded[n \in 0 .. Len(values)] ==
        IF n = 0 THEN <<TupleCodecV2, Len(values)>>
                 ELSE encoded[n - 1] \o Component(values[n])
  IN  encoded

EncodeTupleV2(values) == Encodings(values)[Len(values)]

\* key_surrogate: the internal bigint of a canonical key is the first eight
\* bytes of its digest.
KeySurrogate(canonical) == SubSeq(Sha256(canonical), 1, 8)

\* activation_identity_for_canonical and activation_uuid: the first sixteen
\* bytes of the digest, with the version and variant bits of an
\* application-defined uuid written over six of their bits.
ActivationUuid(digest) ==
  [i \in 1 .. 16 |-> CASE i = 7 -> 128 + (digest[i] % 16)
                       [] i = 9 -> 128 + (digest[i] % 64)
                       [] OTHER -> digest[i]]

\* activation_identity: a rule version's activation of a bigint key.
ActivationDigest(version, key) == Sha256(version \o EncodeBigintV1(key))
ActivationId(version, key) == ActivationUuid(ActivationDigest(version, key))
=============================================================================
