------------------------------ MODULE SborCheck ------------------------------
(***************************************************************************)
(* The SBOR decoder (SborDecode) run once on each of a bounded set of     *)
(* inputs and compared with the encoding grammar.                          *)
(*                                                                         *)
(* The grammar is the byte layout of the decoder's test vectors            *)
(* (decode.rs, test_decoding and test_decoding_no_metadata): a type id     *)
(* before every value decoded by decode, a u16 little-endian length before *)
(* strings and collections, one element type id per array, vector and map, *)
(* and map entries in any order.  Each encoding records, for the bytes at  *)
(* which the decoder takes a decision, the error it must report when that  *)
(* byte is replaced by BadByte ("Any" where the error depends on what      *)
(* follows).                                                               *)
(*                                                                         *)
(* Inputs: every encoding, with one trailing byte, cut short at every      *)
(* length, and with each decision byte replaced by BadByte.                *)
(***************************************************************************)
EXTENDS SborDecode, FiniteSets, SequencesExt

CONSTANTS
    Types,        \* the types decoded
    U8Values,     \* values of U8 (and bytes of U16) in encodings
    Chars,        \* string bytes in encodings
    BadByte,      \* the byte a decision byte is replaced by
    MaxLen        \* longest string, vector and map in encodings

ASSUME
    /\ Chars \subseteq 0 .. 127
    /\ BadByte \in 194 .. 223      \* a UTF-8 lead byte, and no type id
    /\ U8Values \subseteq 0 .. 127

VARIABLES
    type,         \* the type decoded
    meta,         \* Decoder::with_metadata
    input,        \* the bytes
    expect,       \* what the grammar says decoding yields
    done,         \* the decoder has run
    result        \* then: Decode(type, input, 0, meta)

vars == <<type, meta, input, expect, done, result>>

(******************************** grammar *********************************)

Empty == [bytes |-> <<>>, tags |-> <<>>, val |-> <<>>]
ShiftTags(tags, k) == [p \in {q + k : q \in DOMAIN tags} |-> tags[p - k]]
\* Two pieces one after the other; the value is v.
Cat(a, b, v) ==
    [bytes |-> a.bytes \o b.bytes, tags |-> a.tags @@ ShiftTags(b.tags, Len(a.bytes)), val |-> v]
Piece(bytes, tags) == [bytes |-> bytes, tags |-> tags, val |-> <<>>]

TypeId(t, m) == IF m THEN Piece(<<SborType(t)>>, 1 :> "InvalidType") ELSE Empty
LenBytes(n, err) == Piece(<<n % 256, n \div 256>>, 1 :> err)

\* The value of a map written as the sequence of its entries: each key
\* maps to the value of its last entry.
MapOf(es) ==
    [k \in {es[i][1] : i \in DOMAIN es} |->
        es[CHOOSE i \in DOMAIN es : es[i][1] = k /\ \A j \in DOMAIN es : j > i => es[j][1] # k][2]]

KeysIncrease(es) == \A i \in 1 .. Len(es) - 1 : es[i][1] < es[i + 1][1]

RECURSIVE Typed(_, _, _), Untyped(_, _, _), Items(_, _), Fields(_, _, _)

\* n items of S one after the other; the value is their values' sequence.
Items(S, n) ==
    IF n = 0 THEN {Empty}
    ELSE {Cat(a, r, <<a.val>> \o r.val) : a \in S, r \in Items(S, n - 1)}

Fields(fs, m, canon) ==
    IF fs = <<>> THEN {Empty}
    ELSE {Cat(a, r, <<a.val>> \o r.val) : a \in Typed(Head(fs), m, canon), r \in Fields(Tail(fs), m, canon)}

\* The encodings of a value of t, type id first; canon keeps only map
\* entries in increasing key order.
Typed(t, m, canon) == {Cat(TypeId(t, m), e, e.val) : e \in Untyped(t, m, canon)}

Untyped(t, m, canon) ==
    CASE t.kind = "Bool" ->
            {[bytes |-> <<x>>, tags |-> 1 :> "InvalidBool", val |-> x = 1] : x \in {0, 1}}
      [] t.kind = "U8" -> {[bytes |-> <<x>>, tags |-> <<>>, val |-> x] : x \in U8Values}
      [] t.kind = "U16" ->
            {[bytes |-> <<x, y>>, tags |-> <<>>, val |-> x + 256 * y] : x, y \in U8Values}
      [] t.kind = "String" ->
            {Cat(LenBytes(Len(s), "Underflow"), Piece(s, [i \in DOMAIN s |-> "InvalidUtf8"]), s)
                : s \in SeqOf(Chars, MaxLen)}
      [] t.kind = "Option" ->
            {Piece(<<0>>, 1 :> "InvalidIndex")}
              \cup {Cat(Piece(<<1>>, 1 :> "InvalidIndex"), e, <<e.val>>) : e \in Typed(t.elem, m, canon)}
      [] t.kind = "Array" ->
            {Cat(Cat(LenBytes(t.n, "InvalidLength"), TypeId(t.elem, m), <<>>), es, es.val)
                : es \in Items(Untyped(t.elem, m, canon), t.n)}
      [] t.kind = "Vec" ->
            UNION {{Cat(Cat(LenBytes(n, "Any"), TypeId(t.elem, m), <<>>), es, es.val)
                      : es \in Items(Untyped(t.elem, m, canon), n)} : n \in 0 .. MaxLen}
      [] t.kind = "Tuple" ->
            {Cat(LenBytes(Len(t.fields), "InvalidLength"), es, es.val) : es \in Fields(t.fields, m, canon)}
      [] t.kind = "Map" ->
            LET Entry == {Cat(k, v, <<k.val, v.val>>)
                            : k \in Untyped(t.key, m, canon), v \in Untyped(t.val, m, canon)}
                Prefix(n) == Cat(Cat(LenBytes(n, "Any"), TypeId(t.key, m), <<>>), TypeId(t.val, m), <<>>)
            IN UNION {{Cat(Prefix(n), es, MapOf(es.val))
                         : es \in {x \in Items(Entry, n) : canon => KeysIncrease(x.val)}}
                        : n \in 0 .. MaxLen}
      [] t.kind = "Box" -> Typed(t.elem, m, canon)

(******************************* the check ********************************)

\* The test inputs made from one encoding e.
CasesOf(e) ==
    {[input |-> e.bytes, expect |-> Ok(e.val, Len(e.bytes))],
     [input |-> e.bytes \o <<0>>, expect |-> Ok(e.val, Len(e.bytes))]}
      \cup {[input |-> SubSeq(e.bytes, 1, k), expect |-> Err("Underflow")] : k \in 0 .. Len(e.bytes) - 1}
      \cup {[input |-> [e.bytes EXCEPT ![p] = BadByte], expect |-> Err(e.tags[p])] : p \in DOMAIN e.tags}

Init ==
    /\ type \in Types
    /\ meta \in BOOLEAN
    /\ \E c \in UNION {CasesOf(e) : e \in Typed(type, meta, FALSE)} :
          input = c.input /\ expect = c.expect
    /\ done = FALSE
    /\ result = Err("NotRun")

Evaluate ==
    /\ ~done
    /\ done' = TRUE
    /\ result' = Decode(type, input, 0, meta)
    /\ UNCHANGED <<type, meta, input, expect>>

Spec == Init /\ [][Evaluate]_vars

(******************************* properties *******************************)

Agrees(r, x) ==
    /\ r.ok = x.ok
    /\ r.ok => r.val = x.val /\ r.off = x.off
    /\ ~r.ok /\ x.err # "Any" => r.err = x.err

(* Decoder::decode accepts every encoding the grammar gives, with any      *)
(* trailing bytes, consuming exactly the encoding and returning its value  *)
(* (a map keeping the last value of a repeated key); it rejects every      *)
(* truncated encoding with Underflow, and a wrong type id, option index,   *)
(* bool, tuple or array length, or non-UTF-8 string byte with its error.   *)
DecodeMatchesGrammar ==
    done => Agrees(result, expect)

(* Spec P7: whatever the decoder accepts re-encodes to the bytes it        *)
(* consumed, i.e. the accepted bytes are the value's canonical encoding.   *)
DecodeIsCanonical ==
    done /\ result.ok =>
        \E e \in Typed(type, meta, TRUE) :
            e.val = result.val /\ e.bytes = SubSeq(input, 1, result.off)
=============================================================================
