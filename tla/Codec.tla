------------------------------- MODULE Codec -------------------------------
(***************************************************************************)
(* CanonicalWriter and CanonicalReader, and the bounded Encoder and Decoder *)
(* built on them.  A layout is the sequence of calls that an encoder, or a  *)
(* decoder, makes; the two are translated separately.  A value is known by  *)
(* the field it was taken from and by its magnitude: the number itself, the *)
(* length of a text, the size of a collection, whose items are alike.       *)
(***************************************************************************)
EXTENDS Integers, Sequences, SequencesExt

Unbounded == 2147483646

----------------------------------------------------------------------------
(* One call of an encoder or of a decoder: its name, its wire type, the     *)
(* largest magnitude it may have, and the layout of what it contains.       *)

Field(n, t, max, of) == [n |-> n, t |-> t, max |-> max, of |-> of]

All(names, t, max) == [i \in DOMAIN names |-> Field(names[i], t, max, <<>>)]

U8s(names) == All(names, "u8", 255)
U16s(names) == All(names, "u16", 65535)
U32s(names) == All(names, "u32", Unbounded)
U64s(names) == All(names, "u64", Unbounded)
I32s(names) == All(names, "i32", Unbounded)
Bools(names) == All(names, "bool", 1)
Digests(names) == All(names, "digest", 64)

\* An enumerator, whose largest value a decoder checks.
Enum8(n, max) == All(<<n>>, "u8", max)
Enum16(n, max) == All(<<n>>, "u16", max)

Texts(names, max) == All(names, "text", max)

\* Two 64-bit numbers, the identity and the generation of a reference.
Refs(names) ==
  FlattenSeq([i \in DOMAIN names |-> U64s(<<names[i] \o ".id", names[i] \o ".generation">>)])

\* A number of items, and the items.
List(n, max, of) == <<Field(n, "list", max, of)>>

\* Another encoding, as a text.
Blob(n, max, of) == <<Field(n, "blob", max, of)>>

\* A number that is checked like the size of a collection.
Counts(names, max) == All(names, "u64", max)

Item(t, max) == All(<<"item">>, t, max)
RefItem == Refs(<<"item">>)

Names(layout) == {layout[i].n : i \in DOMAIN layout}

FieldOf(layout, n) == layout[CHOOSE i \in DOMAIN layout : layout[i].n = n]

----------------------------------------------------------------------------
(* What is written: for each call, the bytes it leaves, by the wire type     *)
(* that can read them.  A text, a digest and a nested encoding all leave a    *)
(* length and so many bytes; a collection leaves a count and its items.      *)

Value(tag, mag, item) == [tag |-> tag, mag |-> mag, item |-> item]

Wire(t) == IF t \in {"text", "digest", "blob"} THEN "bytes" ELSE t

RECURSIVE Encode(_, _)
Encode(layout, val) ==
  [i \in DOMAIN layout |->
     LET f == layout[i]
         v == val[f.n]
     IN  [w |-> Wire(f.t), tag |-> v.tag, mag |-> v.mag,
          of |-> IF v.item = <<>> THEN <<>> ELSE Encode(f.of, v.item)]]

----------------------------------------------------------------------------
(* What is read back.  A read of another wire type than was written is       *)
(* refused, where the program may go on with a wrong number.                *)

\* One call of Decoder: the bound of a number, of a collection or of a text, and the
\* length of a digest.
Readable(f, written) ==
  /\ written.w = Wire(f.t)
  /\ written.mag <= f.max
  /\ f.t = "digest" => written.mag = 64

\* One failed read fails the whole, and so do bytes that are left.
RECURSIVE Decodes(_, _)
Decodes(layout, written) ==
  /\ Len(layout) = Len(written)
  /\ \A i \in DOMAIN layout :
       /\ Readable(layout[i], written[i])
       /\ written[i].of # <<>> => Decodes(layout[i].of, written[i].of)

RECURSIVE Decoded(_, _)
Decoded(layout, written) ==
  [n \in Names(layout) |->
     LET i == CHOOSE k \in DOMAIN layout : layout[k].n = n
     IN  Value(written[i].tag, written[i].mag,
               IF written[i].of = <<>> THEN <<>> ELSE Decoded(layout[i].of, written[i].of))]
=============================================================================
