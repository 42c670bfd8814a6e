----------------------------- MODULE SborDecode -----------------------------
(***************************************************************************)
(* The SBOR decoder of src/sbor/src/decode.rs as pure operators.          *)
(*                                                                         *)
(* A type is a record [kind, ...]: "Bool", "U8", "U16", "String",          *)
(* "Option" (elem), "Array" (elem, n), "Vec" (elem), "Tuple" (fields, a    *)
(* sequence of types), "Map" (key, val) and "Box" (elem).  The input is a  *)
(* sequence of bytes and off the number of bytes the Decoder has consumed; *)
(* with_metadata is the Boolean meta.  A result is Ok(value, off) or       *)
(* Err(kind) with the DecodeError variant's name.                          *)
(*                                                                         *)
(* Values: Bool a BOOLEAN, U8 / U16 a number, String its bytes, Option     *)
(* <<>> or <<v>>, Array / Vec / Tuple a sequence, Map a function from keys *)
(* to values (the BTreeMap), Box the boxed value.                          *)
(***************************************************************************)
EXTENDS Integers, Sequences, TLC

\* Type constructors.
BoolT == [kind |-> "Bool"]
U8T == [kind |-> "U8"]
U16T == [kind |-> "U16"]
StringT == [kind |-> "String"]
OptionT(t) == [kind |-> "Option", elem |-> t]
ArrayT(t, n) == [kind |-> "Array", elem |-> t, n |-> n]
VecT(t) == [kind |-> "Vec", elem |-> t]
TupleT(fs) == [kind |-> "Tuple", fields |-> fs]
MapT(k, v) == [kind |-> "Map", key |-> k, val |-> v]
BoxT(t) == [kind |-> "Box", elem |-> t]

\* sbor_type() of each type: the type ids of the test vectors.
SborType(t) ==
    CASE t.kind = "Bool" -> 1   [] t.kind = "U8" -> 7      [] t.kind = "U16" -> 8
      [] t.kind = "String" -> 12 [] t.kind = "Option" -> 13 [] t.kind = "Array" -> 14
      [] t.kind = "Vec" -> 15    [] t.kind = "Tuple" -> 16  [] t.kind = "Map" -> 22
      [] t.kind = "Box" -> 23

Ok(v, off) == [ok |-> TRUE, val |-> v, off |-> off]
Err(e) == [ok |-> FALSE, err |-> e]

(******************************** Decoder *********************************)

\* require(n): fewer than n bytes remain.
Underflows(b, off, n) == Len(b) - off < n

\* read_u8 / read_type / read_index.
ReadU8(b, off) == IF Underflows(b, off, 1) THEN Err("Underflow") ELSE Ok(b[off + 1], off + 1)

\* read_len: two bytes, u16::from_le_bytes.
ReadLen(b, off) ==
    IF Underflows(b, off, 2) THEN Err("Underflow")
    ELSE Ok(b[off + 1] + 256 * b[off + 2], off + 2)

\* check_type: with metadata, the next byte must be the expected type id.
CheckType(b, off, meta, expected) ==
    IF ~meta THEN Ok(expected, off)
    ELSE LET r == ReadU8(b, off) IN
         IF ~r.ok THEN r
         ELSE IF r.val # expected THEN Err("InvalidType")
         ELSE r

\* check_len: the length read must be the expected one.
CheckLen(b, off, expected) ==
    LET r == ReadLen(b, off) IN
    IF r.ok /\ r.val # expected THEN Err("InvalidLength") ELSE r

\* String::from_utf8 on inputs that hold no UTF-8 continuation byte
\* (0x80..0xBF): there, a byte above 0x7F never completes a sequence.
Utf8Valid(s) == \A i \in DOMAIN s : s[i] < 128

\* A mutant of BTreeMap::insert that keeps the first value of a key.
MapInsertKeepingFirst(m, k, v) == m @@ (k :> v)

\* BTreeMap::insert: a later entry of the same key replaces the earlier.
MapInsert(m, k, v) == (k :> v) @@ m

RECURSIVE Decode(_, _, _, _), DecodeValue(_, _, _, _),
          DecodeElems(_, _, _, _, _, _), DecodeFields(_, _, _, _, _),
          DecodeEntries(_, _, _, _, _, _, _)

\* Decode::decode: check the type id, then decode_value.
Decode(t, b, off, meta) ==
    LET c == CheckType(b, off, meta, SborType(t)) IN
    IF c.ok THEN DecodeValue(t, b, c.off, meta) ELSE c

\* n values of type t, each by decode_value (no per-element type id).
DecodeElems(t, n, b, off, meta, acc) ==
    IF n = 0 THEN Ok(acc, off)
    ELSE LET r == DecodeValue(t, b, off, meta) IN
         IF r.ok THEN DecodeElems(t, n - 1, b, r.off, meta, Append(acc, r.val)) ELSE r

\* Tuple fields, each by decode (with its type id).
DecodeFields(fs, b, off, meta, acc) ==
    IF Len(acc) = Len(fs) THEN Ok(acc, off)
    ELSE LET r == Decode(fs[Len(acc) + 1], b, off, meta) IN
         IF r.ok THEN DecodeFields(fs, b, r.off, meta, Append(acc, r.val)) ELSE r

\* n map entries: key then value, each by decode_value, inserted in order.
DecodeEntries(k, v, n, b, off, meta, acc) ==
    IF n = 0 THEN Ok(acc, off)
    ELSE LET kr == DecodeValue(k, b, off, meta) IN
         IF ~kr.ok THEN kr
         ELSE LET vr == DecodeValue(v, b, kr.off, meta) IN
              IF ~vr.ok THEN vr
              ELSE DecodeEntries(k, v, n - 1, b, vr.off, meta, MapInsert(acc, kr.val, vr.val))

DecodeBool(b, off) ==
    LET r == ReadU8(b, off) IN
    IF ~r.ok THEN r
    ELSE IF r.val \in {0, 1} THEN Ok(r.val = 1, r.off) ELSE Err("InvalidBool")

DecodeU16(b, off) ==
    IF Underflows(b, off, 2) THEN Err("Underflow")
    ELSE Ok(b[off + 1] + 256 * b[off + 2], off + 2)

DecodeString(b, off) ==
    LET l == ReadLen(b, off) IN
    IF ~l.ok THEN l
    ELSE IF Underflows(b, l.off, l.val) THEN Err("Underflow")
    ELSE LET s == SubSeq(b, l.off + 1, l.off + l.val) IN
         IF Utf8Valid(s) THEN Ok(s, l.off + l.val) ELSE Err("InvalidUtf8")

DecodeOption(t, b, off, meta) ==
    LET i == ReadU8(b, off) IN
    IF ~i.ok THEN i
    ELSE IF i.val = 0 THEN Ok(<<>>, i.off)
    ELSE IF i.val # 1 THEN Err("InvalidIndex")
    ELSE LET r == Decode(t.elem, b, i.off, meta) IN
         IF r.ok THEN Ok(<<r.val>>, r.off) ELSE r

\* [T; N]: check_len(N), check_type(T), then N values.
DecodeArray(t, b, off, meta) ==
    LET l == CheckLen(b, off, t.n) IN
    IF ~l.ok THEN l
    ELSE LET c == CheckType(b, l.off, meta, SborType(t.elem)) IN
         IF ~c.ok THEN c ELSE DecodeElems(t.elem, t.n, b, c.off, meta, <<>>)

DecodeVec(t, b, off, meta) ==
    LET l == ReadLen(b, off) IN
    IF ~l.ok THEN l
    ELSE LET c == CheckType(b, l.off, meta, SborType(t.elem)) IN
         IF ~c.ok THEN c ELSE DecodeElems(t.elem, l.val, b, c.off, meta, <<>>)

DecodeTuple(t, b, off, meta) ==
    LET l == ReadLen(b, off) IN
    IF ~l.ok THEN l
    ELSE IF l.val # Len(t.fields) THEN Err("InvalidLength")
    ELSE DecodeFields(t.fields, b, l.off, meta, <<>>)

DecodeMap(t, b, off, meta) ==
    LET l == ReadLen(b, off) IN
    IF ~l.ok THEN l
    ELSE LET ck == CheckType(b, l.off, meta, SborType(t.key)) IN
         IF ~ck.ok THEN ck
         ELSE LET cv == CheckType(b, ck.off, meta, SborType(t.val)) IN
              IF ~cv.ok THEN cv
              ELSE DecodeEntries(t.key, t.val, l.val, b, cv.off, meta, <<>>)

\* Decode::decode_value of each type.
DecodeValue(t, b, off, meta) ==
    CASE t.kind = "Bool" -> DecodeBool(b, off)
      [] t.kind = "U8" -> ReadU8(b, off)
      [] t.kind = "U16" -> DecodeU16(b, off)
      [] t.kind = "String" -> DecodeString(b, off)
      [] t.kind = "Option" -> DecodeOption(t, b, off, meta)
      [] t.kind = "Array" -> DecodeArray(t, b, off, meta)
      [] t.kind = "Vec" -> DecodeVec(t, b, off, meta)
      [] t.kind = "Tuple" -> DecodeTuple(t, b, off, meta)
      [] t.kind = "Map" -> DecodeMap(t, b, off, meta)
      [] t.kind = "Box" -> Decode(t.elem, b, off, meta)
=============================================================================
