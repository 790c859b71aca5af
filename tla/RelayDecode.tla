---------------------------- MODULE RelayDecode ----------------------------
(***************************************************************************)
(* The relay decoders of core/sr-primitives/src/lib.rs: RelayParams::     *)
(* decode (54-113), which unwraps an unsigned relay extrinsic, and        *)
(* OriginExtrinsic::decode (218-331), which decodes the signed transfer   *)
(* embedded in it.  Both read codec-encoded fields off a byte slice in    *)
(* order and return None at the first one that does not decode.          *)
(*                                                                         *)
(* Bytes are naturals 0..255.  Hashes, account ids and the signature keep *)
(* their layout but are scaled to HashLen / AccLen / SigLen bytes, and    *)
(* the code's length guards are scaled with them.  The codec library's    *)
(* field decoders (compact integers, Vec, fixed arrays, Era, enums) are   *)
(* Field; the code's sequence of fields and guards is kept as written.    *)
(*                                                                         *)
(* Each state is one input: an encoding of a relay, produced by the       *)
(* reference encoder below from the wire layout of spec 4.8, possibly     *)
(* truncated or corrupted.  The properties compare the decoders' results  *)
(* with what was encoded.                                                  *)
(***************************************************************************)
EXTENDS Naturals, Sequences, SequencesExt

CONSTANTS
  HashLen,       \* bytes of a Hash (32)
  AccLen,        \* bytes of an AccountId (32)
  SigLen,        \* bytes of a signature (64)
  BalanceBytes   \* bytes of the Balance type the amount is decoded into

Bytes == 0..255

\* MIN_RELAY_SIZE = 2 + 32 + 32 + 64 (lib.rs:24), scaled.
MIN_RELAY_SIZE == 2 + HashLen + HashLen + SigLen

\* RelayTypes (lib.rs:116-121), encoded by its variant index.
RelayTypes == <<"Balance", "Assets">>

None == [ok |-> FALSE]

\* Era::Immortal (a mortal era is [period, phase]).
Immortal == [period |-> 0, phase |-> 0]

----------------------------------------------------------------------------
(* Codec field decoders: each reads one field of kind f at position p of  *)
(* s and yields [ok, val, pos] with pos the next unread position.         *)

\* Little-endian integer of the n bytes at p.
RECURSIVE LE(_, _, _)
LE(s, p, n) == IF n = 0 THEN 0 ELSE s[p] + 256 * LE(s, p + 1, n - 1)

Got(v, p) == [ok |-> TRUE, val |-> v, pos |-> p]
Avail(s, p, n) == p + n - 1 <= Len(s)

\* Compact<uN>: the low two bits of the first byte give the width.
CompactField(s, p) ==
  IF ~Avail(s, p, 1) THEN None
  ELSE LET mode == s[p] % 4
           n == CASE mode = 0 -> 1 [] mode = 1 -> 2 [] mode = 2 -> 4
                  [] mode = 3 -> s[p] \div 4 + 5
       IN IF ~Avail(s, p, n) THEN None
          ELSE IF mode = 3 THEN Got(LE(s, p + 1, n - 1), p + n)
          ELSE Got(LE(s, p, n) \div 4, p + n)

\* Era: 0 is Immortal; otherwise two bytes, period 2^(1 + low 4 bits),
\* phase the rest scaled by the quantize factor, valid iff 4 <= period and
\* phase < period.
EraField(s, p) ==
  IF ~Avail(s, p, 1) THEN None
  ELSE IF s[p] = 0 THEN Got(Immortal, p + 1)
  ELSE IF ~Avail(s, p, 2) THEN None
  ELSE LET enc == LE(s, p, 2)
           period == 2 * 2^(enc % 16)
           quant == IF period \div 4096 > 1 THEN period \div 4096 ELSE 1
           phase == (enc \div 16) * quant
       IN IF period >= 4 /\ phase < period
            THEN Got([period |-> period, phase |-> phase], p + 2)
            ELSE None

Field(s, p, f) ==
  CASE f.kind = "Byte" ->
         IF Avail(s, p, 1) THEN Got(s[p], p + 1) ELSE None
    [] f.kind = "Fixed" ->
         IF Avail(s, p, f.n) THEN Got(SubSeq(s, p, p + f.n - 1), p + f.n) ELSE None
    [] f.kind = "Compact" -> CompactField(s, p)
    \* Vec<u8>: a compact length, then that many bytes.
    [] f.kind = "Bytes" ->
         LET l == CompactField(s, p) IN
         IF l.ok /\ Avail(s, l.pos, l.val)
           THEN Got(SubSeq(s, l.pos, l.pos + l.val - 1), l.pos + l.val)
           ELSE None
    \* Vec<()>: a compact length; the unit elements occupy no bytes.
    [] f.kind = "Units" -> CompactField(s, p)
    [] f.kind = "Era" -> EraField(s, p)
    [] f.kind = "RelayType" ->
         IF Avail(s, p, 1) /\ s[p] < Len(RelayTypes)
           THEN Got(RelayTypes[s[p] + 1], p + 1) ELSE None
    \* A guard `if input.len() < n { return None }` of the code.
    [] f.kind = "Need" ->
         IF Avail(s, p, f.n) THEN Got("checked", p) ELSE None

Byte == [kind |-> "Byte"]
Compact == [kind |-> "Compact"]
Fixed(n) == [kind |-> "Fixed", n |-> n]
Need(n) == [kind |-> "Need", n |-> n]

\* Reads the fields fs in order from p; fails at the first that fails.
\* (Each intermediate result is handed on as an argument, so it is
\* computed once.)
RECURSIVE Parse(_, _, _)
Prepend(v, rest) == IF rest.ok THEN Got(<<v>> \o rest.val, rest.pos) ELSE None
ParseFrom(s, fs, r) == IF r.ok THEN Prepend(r.val, Parse(s, r.pos, Tail(fs))) ELSE None
Parse(s, p, fs) == IF fs = << >> THEN Got(<< >>, p) ELSE ParseFrom(s, fs, Field(s, p, Head(fs)))

\* Blake2Hasher::hash of the origin bytes, as an injective tag.
Blake2(bytes) == [blake2 |-> bytes]

\* Decode the low BalanceBytes of the amount's u128 encoding as Balance.
AsBalance(a) == IF BalanceBytes >= 16 THEN a ELSE a % 2^(8 * BalanceBytes)

Signed(version) == version >= 128
VersionOf(version) == version % 128

----------------------------------------------------------------------------
(* The decoders of the code.                                               *)

\* The fields after the wrapper (lib.rs:76-112): module, function, relay
\* type, origin bytes, number and the two hashes; the hash of the origin.
RelayFields(body) ==
  IF ~body.ok THEN None
  ELSE [ok |-> TRUE, relay_type |-> body.val[3], origin |-> body.val[4],
        number |-> body.val[5], block_hash |-> body.val[6],
        parent_hash |-> body.val[7], hash |-> Blake2(body.val[4])]

RelayFieldKinds ==
  <<Byte, Byte, [kind |-> "RelayType"], [kind |-> "Bytes"],
    Compact, Fixed(HashLen), Fixed(HashLen)>>

\* A wrapper check that only looks at the version bits and so accepts a
\* signed extrinsic.
RelayWrapperSignedOk(s, head) ==
  IF ~head.ok \/ VersionOf(head.val[2]) # 1 THEN None
  ELSE RelayFields(Parse(s, head.pos, RelayFieldKinds))

\* The length prefix and version byte read (lib.rs:59-75): an unsigned
\* version-1 extrinsic goes on to its fields, anything else is None.
RelayWrapper(s, head) ==
  IF ~head.ok \/ Signed(head.val[2]) \/ VersionOf(head.val[2]) # 1 THEN None
  ELSE RelayFields(Parse(s, head.pos, RelayFieldKinds))

\* RelayParams::decode (lib.rs:54-113): the length guard, then the
\* Vec<()> length prefix and the version byte.
RelayParamsDecode(s) ==
  IF Len(s) <= MIN_RELAY_SIZE THEN None
  ELSE RelayWrapper(s, Parse(s, 1, <<[kind |-> "Units"], Byte>>))

\* The signed sender fields read (lib.rs:272).
SenderFields(r) ==
  IF ~r.ok THEN None
  ELSE Got([sender |-> r.val[2], signature |-> r.val[4],
            index |-> r.val[5], era |-> r.val[7]], r.pos)

\* The sender part of a signed origin (lib.rs:240-278): sender type and
\* sender, the signature guard and bytes, the index, the era guard and era.
\* An unsigned origin gets the defaults (lib.rs:275-277).
SenderPart(s, p, signed) ==
  IF ~signed
    THEN Got([sender |-> [i \in 1..AccLen |-> 0], signature |-> << >>,
              index |-> 0, era |-> Immortal], p)
  ELSE SenderFields(Parse(s, p, <<Byte, Fixed(AccLen), Need(SigLen), Fixed(SigLen),
                                  Compact, Need(1), [kind |-> "Era"]>>))

\* The transfer fields read (lib.rs:311-330): the asset id is the fourth
\* field for Assets; dest and amount are the last two.
OriginFields(relay_type, sp, tail) ==
  IF ~tail.ok THEN None
  ELSE [ok |-> TRUE, id |-> IF relay_type = "Assets" THEN tail.val[4] ELSE "None",
        dest |-> tail.val[Len(tail.val) - 1],
        amount |-> AsBalance(tail.val[Len(tail.val)])] @@ sp.val

\* A transfer decoder that reads an asset id whatever the relay type.
OriginCallAssetAlways(relay_type, s, sp) ==
  IF ~sp.ok THEN None
  ELSE OriginFields(relay_type, sp,
         Parse(s, sp.pos, <<Need(2 + AccLen + 1), Byte, Byte, Compact,
                            Byte, Fixed(AccLen), Compact>>))

\* After the sender part (lib.rs:280-330): the guard before module and
\* function, a compact asset id for Assets, the dest type and dest, and the
\* amount as a Compact<u128> re-decoded as Balance.
OriginCall(relay_type, s, sp) ==
  IF ~sp.ok THEN None
  ELSE LET idField == IF relay_type = "Assets" THEN <<Compact>> ELSE << >>
       IN OriginFields(relay_type, sp,
            Parse(s, sp.pos, <<Need(2 + AccLen + 1), Byte, Byte>> \o idField
                               \o <<Byte, Fixed(AccLen), Compact>>))

\* The length prefix and version byte read (lib.rs:223-238): version 1,
\* signed or not, goes on to the sender part.
OriginWrapper(relay_type, s, head) ==
  IF ~head.ok \/ VersionOf(head.val[2]) # 1 THEN None
  ELSE OriginCall(relay_type, s, SenderPart(s, head.pos, Signed(head.val[2])))

\* OriginExtrinsic::decode (lib.rs:218-331): the length guard, then the
\* rest in order.
OriginDecode(relay_type, s) ==
  IF Len(s) < SigLen + 1 + 1 THEN None
  ELSE OriginWrapper(relay_type, s, Parse(s, 1, <<[kind |-> "Units"], Byte>>))

----------------------------------------------------------------------------
(* Reference encoder: the wire layout of spec 4.8 in the codec's format.  *)

EncCompact(n) ==
  IF n < 64 THEN <<4 * n>>
  ELSE <<(4 * n + 1) % 256, (4 * n + 1) \div 256>>   \* n < 2^14 here

RECURSIVE Log2(_)
Log2(n) == IF n <= 1 THEN 0 ELSE 1 + Log2(n \div 2)

EncEra(e) ==
  IF e = Immortal THEN <<0>>
  ELSE LET enc == (Log2(e.period) - 1) + 16 * e.phase
       IN <<enc % 256, enc \div 256>>

\* An extrinsic is a Vec<u8>: its bytes behind their compact length.
Framed(body) == EncCompact(Len(body)) \o body

EncOrigin(o, relay_type) ==
  Framed(FlattenSeq(<<
    <<128 + 1, 255>>, o.sender, o.signature, EncCompact(o.index), EncEra(o.era),
    <<o.module, o.func>>,
    IF relay_type = "Assets" THEN EncCompact(o.id) ELSE << >>,
    <<255>>, o.dest, EncCompact(o.amount)>>))

RelayBody(r, origin) ==
  FlattenSeq(<<
    <<1, r.module, r.func, IF r.relay_type = "Balance" THEN 0 ELSE 1>>,
    EncCompact(Len(origin)), origin, EncCompact(r.number),
    r.block_hash, r.parent_hash>>)

----------------------------------------------------------------------------
(* The inputs: relays of both types carrying signed origins, with one- and *)
(* two-byte compact indexes, amounts and numbers, immortal and mortal eras; *)
(* each sent intact, cut short, with its origin cut short, or corrupted.  *)

Fill(n, b) == [i \in 1..n |-> b]

Origins(relay_type) ==
  [sender : {Fill(AccLen, 7)}, signature : {Fill(SigLen, 9)},
   index : {0, 70}, era : {Immortal, [period |-> 64, phase |-> 5]},
   module : {4}, func : {0},
   id : IF relay_type = "Assets" THEN {3} ELSE {"None"},
   dest : {Fill(AccLen, 8)}, amount : {5, 300}]

Relays ==
  UNION {[relay_type : {rt}, o : Origins(rt), module : {6}, func : {1},
          number : {1, 100}, block_hash : {Fill(HashLen, 1)},
          parent_hash : {Fill(HashLen, 2)}] : rt \in {"Balance", "Assets"}}

OriginBytes(r) == EncOrigin(r.o, r.relay_type)

Variants(r) ==
  [kind : {"exact", "signed", "version2", "trailing", "longlen"}, k : {0}]
    \cup [kind : {"cut"}, k : 0..(Len(Framed(RelayBody(r, OriginBytes(r)))) - 1)]
    \cup [kind : {"ocut"}, k : 0..(Len(OriginBytes(r)) - 1)]

\* The bytes of an input.
Wire(r, v) ==
  LET body == RelayBody(r, OriginBytes(r)) IN
  CASE v.kind = "exact" -> Framed(body)
    [] v.kind = "signed" -> Framed(<<128 + 1>> \o Tail(body))
    [] v.kind = "version2" -> Framed(<<2>> \o Tail(body))
    [] v.kind = "trailing" -> Framed(body) \o <<0>>
    [] v.kind = "longlen" -> EncCompact(Len(body) + 1) \o body
    [] v.kind = "cut" -> SubSeq(Framed(body), 1, v.k)
    [] v.kind = "ocut" -> Framed(RelayBody(r, SubSeq(OriginBytes(r), 1, v.k)))

VARIABLE input

Init == input \in UNION {[rel : {r}, variant : Variants(r)] : r \in Relays}

\* Decoding is a pure function of its input: nothing changes.
Next == UNCHANGED input

Spec == Init /\ [][Next]_input

Bytes0 == Wire(input.rel, input.variant)
Decoded == RelayParamsDecode(Bytes0)

----------------------------------------------------------------------------
(* Properties                                                               *)

\* Spec 8.6: decode is the inverse of encode on canonical values.  An
\* intact relay decodes (past the MIN_RELAY_SIZE guard, whose <= the spec
\* writes <) to what was encoded, and its origin to the transfer that was
\* signed, for both relay types, both compact widths and both kinds of era.
RoundTrip ==
  input.variant.kind = "exact" =>
    LET r == input.rel IN
    /\ Decoded = [ok |-> TRUE, relay_type |-> r.relay_type, origin |-> OriginBytes(r),
                  number |-> r.number, block_hash |-> r.block_hash,
                  parent_hash |-> r.parent_hash, hash |-> Blake2(OriginBytes(r))]
    /\ OriginDecode(r.relay_type, OriginBytes(r))
         = [ok |-> TRUE, id |-> r.o.id, dest |-> r.o.dest, amount |-> AsBalance(r.o.amount)]
             @@ [sender |-> r.o.sender, signature |-> r.o.signature,
                 index |-> r.o.index, era |-> r.o.era]

\* Spec 4.8 / 8.6: a signed or non-version-1 wrapper, a relay cut short at
\* any byte, and an origin cut short at any byte inside an intact relay
\* are all refused (None), through every guard of both decoders.
MalformedRejected ==
  LET v == input.variant.kind IN
  /\ v \in {"signed", "version2", "cut"} => ~Decoded.ok
  /\ v = "ocut" => Decoded.ok /\ ~OriginDecode(input.rel.relay_type, Decoded.origin).ok

\* Spec 8.6: decoding returns None on any framing violation: a relay whose
\* compact length prefix disagrees with its bytes, or with bytes after its
\* last field, is refused.
FramingViolationRejected ==
  input.variant.kind \in {"trailing", "longlen"} => ~Decoded.ok
====
