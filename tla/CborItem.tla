------------------------------ MODULE CborItem ------------------------------
(***************************************************************************)
(* The CBOR items the two codecs exchange.  An item keeps its kind, the    *)
(* value or the length its head carries, the form of that head, what a     *)
(* text or byte string says where a decoder looks at it, and its elements. *)
(* The bytes themselves are not kept; Size says how many there are.        *)
(***************************************************************************)
EXTENDS Naturals, Sequences, FiniteSets, SequencesExt

CONSTANT VersionModulus     \* 2^32: `version` is read into 32 bits

ASSUME VersionModulusAssumption == VersionModulus \in Nat /\ VersionModulus > 1

(* An element is [k, v]: the key of a map's entry, "" in an array.        *)
Item(kind, number, says, elements) ==
    [t |-> kind, n |-> number, s |-> says, head |-> "shortest", e |-> elements]

UInt(value)   == Item("uint", value, "", <<>>)
Text(length)  == Item("text", length, "", <<>>)
Word(word)    == Item("text", Len(word), word, <<>>)
Bytes(length) == Item("bytes", length, "", <<>>)
Blob(length, says) == Item("bytes", length, says, <<>>)
Simple        == Item("simple", 0, "", <<>>)        \* true, false or null
Nothing       == Item("nothing", 0, "", <<>>)       \* an encoder gave up

Array(items) == Item("array", Len(items), "", [i \in DOMAIN items |-> [k |-> "", v |-> items[i]]])
Map(entries) == Item("map", Len(entries), "", entries)

(* encode_head: the shortest form of a head.                               *)
HeadLength(value) ==
    CASE value < 24          -> 1
      [] value \in 24..255   -> 2
      [] value \in 256..65535 -> 3
      [] OTHER               -> 5

RECURSIVE Size(_)
(* How many bytes an item takes.                                           *)
Size(item) ==
    LET Element(x) == Size(x.v) + IF x.k = "" THEN 0 ELSE HeadLength(Len(x.k)) + Len(x.k)
    IN  HeadLength(item.n)
        + IF item.t \in {"text", "bytes"} THEN item.n
          ELSE FoldLeft(LAMBDA sum, x : sum + Element(x), 0, item.e)

-----------------------------------------------------------------------------
(* What a map holds under its keys, the entries its head counts.           *)
Counted(item) == SubSeq(item.e, 1, IF item.n < Len(item.e) THEN item.n ELSE Len(item.e))
Keys(item)    == {Counted(item)[i].k : i \in DOMAIN Counted(item)}
Get(item, key) == LET i == CHOOSE i \in DOMAIN Counted(item) : Counted(item)[i].k = key
                  IN  Counted(item)[i].v

RECURSIVE Plain(_)
(* An item as the value it stands for, whatever the form of its heads.     *)
Plain(item) ==
    [item EXCEPT !.head = "shortest",
                 !.e = [i \in DOMAIN item.e |-> [item.e[i] EXCEPT !.v = Plain(@)]]]

(* What a decoder reports of a map it accepts: `version` is cut to its     *)
(* 32 bits, every other field is kept.                                     *)
Fields(item) ==
    [key \in Keys(item) |->
        IF key = "version" THEN [Plain(Get(item, key)) EXCEPT !.n = @ % VersionModulus]
        ELSE Plain(Get(item, key))]

-----------------------------------------------------------------------------
(* The ways one item can be another than its encoder wrote it.             *)
AnotherKind(item) == {UInt(0), Text(0), Bytes(0), Map(<<>>), Simple} \ {item}
AnotherHead(item) ==
    {[item EXCEPT !.head = h] :
        h \in IF item.t = "uint" THEN {"longer"} ELSE {"longer", "indefinite"}}
AnotherValue(item) ==
    CASE item.t = "uint" -> {[item EXCEPT !.n = @ + 1], [item EXCEPT !.n = @ + VersionModulus]}
      [] item.t \in {"text", "bytes"} ->
           {[item EXCEPT !.n = @ + 1, !.s = "other"], [item EXCEPT !.s = "other"]}
           \cup {[item EXCEPT !.n = x, !.s = "other"] : x \in {item.n - 1} \cap Nat}
      [] OTHER -> {}

With(item, elements) == [item EXCEPT !.e = elements, !.n = Len(elements)]

RECURSIVE Damaged(_)
(* Every item one fault away: at its head or value, in the order, number   *)
(* or keys of its elements, or inside one of them (of an array, inside the *)
(* first; the others are decoded alike).                                   *)
Damaged(item) ==
    LET elements == item.e
        Inside(i) == {[item EXCEPT !.e[i].v = x] : x \in Damaged(elements[i].v)}
        entries   == IF item.t = "map" THEN DOMAIN elements ELSE {}
    IN  AnotherKind(item) \cup AnotherHead(item) \cup AnotherValue(item)
        \cup UNION {Inside(i) : i \in IF item.t = "array" THEN DOMAIN elements \cap {1} ELSE entries}
        \cup {With(item, RemoveAt(elements, i)) : i \in DOMAIN elements \cap (entries \cup {1})}
        \cup {With(item, InsertAt(elements, i, elements[i])) : i \in DOMAIN elements \cap (entries \cup {1})}
        \cup {With(item, swapped) : swapped \in
                {[elements EXCEPT ![i] = elements[i + 1], ![i + 1] = elements[i]] :
                    i \in {j \in entries : j + 1 \in entries}}}
        \cup {[item EXCEPT !.e[i].k = "other"] : i \in entries}

(* The outermost map may also count one entry more or less than it has.  A *)
(* wrong count further in changes what the bytes behind it mean.           *)
Miscounted(item) == {[item EXCEPT !.n = x] : x \in {item.n + 1, item.n - 1} \cap Nat}
=============================================================================
