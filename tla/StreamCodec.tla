---------------------------- MODULE StreamCodec ----------------------------
(***************************************************************************)
(* StreamInput and StreamOutput of src/stream.rs, over cells instead of    *)
(* bytes: a number, a flag, a length and each byte of a string take one    *)
(* cell, so that, as with bytes, a reader that is out of step takes one    *)
(* for the other.  How a length becomes bytes is module VInt; the bytes of *)
(* a number of fixed width, most significant first, stay one cell.         *)
(*                                                                         *)
(* A string is the sequence of its bytes.  Characters take one byte or     *)
(* two here; no string has longer ones.                                    *)
(*                                                                         *)
(* A reader takes the remaining input and returns the error that stopped   *)
(* it, or "none", the value read and the input it leaves.                  *)
(***************************************************************************)
EXTENDS Naturals, Sequences, FiniteSets, SequencesExt

Reads(value, rest) == [error |-> "none", value |-> value, rest |-> rest]

\* UnexpectedEof and InvalidData of std::io::ErrorKind.
Fails(error) == [error |-> error, value |-> <<>>, rest |-> <<>>]

\* Continue with the value and the rest of a reader that has not failed.  The
\* result is bound by a set so that TLC evaluates it once.
Then(result, next(_, _)) ==
    CHOOSE out \in {IF r.error = "none" THEN next(r.value, r.rest) ELSE r : r \in {result}} : TRUE

ReadCell(input) == IF input = <<>> THEN Fails("eof") ELSE Reads(Head(input), Tail(input))

ReadBool(input) ==
    Then(ReadCell(input), LAMBDA cell, rest :
        IF cell \in {0, 1} THEN Reads(cell = 1, rest) ELSE Fails("data"))

WriteBool(flag) == IF flag THEN <<1>> ELSE <<0>>

ReadBytes(len, input) ==
    IF len > Len(input) THEN Fails("eof")
    ELSE Reads(SubSeq(input, 1, len), SubSeq(input, len + 1, Len(input)))

ReadByteArray(input) == Then(ReadCell(input), LAMBDA len, rest : ReadBytes(len, rest))

WriteByteArray(bytes) == <<Len(bytes)>> \o bytes

\* First and second bytes of characters of two.
LeadBytes == 194..223
TrailBytes == 128..191

\* String::from_utf8 accepts the bytes.
IsUtf8(bytes) ==
    /\ \A i \in DOMAIN bytes : bytes[i] < 128 \/ bytes[i] \in LeadBytes \cup TrailBytes
    /\ \A i \in 0..Len(bytes) :
          (i > 0 /\ bytes[i] \in LeadBytes) <=> (i < Len(bytes) /\ bytes[i + 1] \in TrailBytes)

\* The strings of Rust.
Strings == {s \in Seq(Nat) : IsUtf8(s)}

ReadString(input) ==
    Then(ReadByteArray(input), LAMBDA bytes, rest :
        IF IsUtf8(bytes) THEN Reads(bytes, rest) ELSE Fails("data"))

\* Slip: the length counts characters.
WriteString_CountsCharacters(string) ==
    <<Len(SelectSeq(string, LAMBDA byte : byte \notin TrailBytes))>> \o string

WriteString(string) == <<Len(string)>> \o string

\* A reader of items, as a function of the input.
Reader(item(_)) == [input \in Seq(Nat) |-> item(input)]

\* One value after the other, each by the reader of its place and from where
\* the last one ended.
ReadFields(readers, input) ==
    LET read[i \in 0..Len(readers)] ==
            IF i = 0 THEN Reads(<<>>, input)
            ELSE Then(read[i - 1], LAMBDA values, left :
                    Then(readers[i][left], LAMBDA value, rest : Reads(Append(values, value), rest)))
    IN  read[Len(readers)]

ReadItems(item, len, input) == ReadFields([i \in 1..len |-> item], input)

\* A length, and as many items as it says.
ReadMany(item, input) ==
    Then(ReadCell(input), LAMBDA len, rest : ReadItems(item, len, rest))

\* Slip: the length counts the items after the first.
WriteMany_LengthOffByOne(items) == <<Len(items) - 1>> \o FlattenSeq(items)

\* Items already encoded, after their number.
WriteMany(items) == <<Len(items)>> \o FlattenSeq(items)

ReadStringArray(input) == ReadMany(Reader(ReadString), input)

WriteStringArray(values) == WriteMany([i \in DOMAIN values |-> WriteString(values[i])])

StringSets == {items \in SUBSET Strings : IsFiniteSet(items)}

\* A BTreeMap from strings to values.
IsMap(map, values) ==
    /\ map = [k \in DOMAIN map |-> map[k]]
    /\ DOMAIN map \in StringSets
    /\ \A k \in DOMAIN map : map[k] \in values

\* A key and the value behind it.
ReadEntry(value, input) ==
    Then(ReadString(input), LAMBDA k, rest :
        Then(value[rest], LAMBDA v, remaining : Reads(<<k, v>>, remaining)))

\* BTreeMap::insert replaces: the last of several entries with one key is kept.
MapOf(entries) ==
    [k \in {entries[i][1] : i \in DOMAIN entries} |->
        entries[CHOOSE i \in DOMAIN entries :
                    entries[i][1] = k /\ \A j \in (i + 1)..Len(entries) : entries[j][1] # k][2]]

ReadMap(value, input) ==
    Then(ReadMany([rest \in Seq(Nat) |-> ReadEntry(value, rest)], input),
         LAMBDA entries, rest : Reads(MapOf(entries), rest))

\* Strings are ordered by their bytes.
Less(a, b) ==
    \E n \in 0..(Len(b) - 1) :
        /\ n <= Len(a) /\ SubSeq(a, 1, n) = SubSeq(b, 1, n)
        /\ n = Len(a) \/ a[n + 1] < b[n + 1]

\* The strings of a set as BTreeMap and BTreeSet iterate over them.
Ordered(strings) ==
    CHOOSE s \in [1..Cardinality(strings) -> strings] :
        \A i, j \in 1..Cardinality(strings) : i < j => Less(s[i], s[j])

\* The values of the map are already encoded.
WriteMap(map) ==
    LET keys == Ordered(DOMAIN map)
    IN  WriteMany([i \in DOMAIN keys |-> WriteString(keys[i]) \o map[keys[i]]])

ReadStringMap(input) == ReadMap(Reader(ReadString), input)

WriteStringMap(map) == WriteMap([k \in DOMAIN map |-> WriteString(map[k])])

ReadStringListMap(input) == ReadMap(Reader(ReadStringArray), input)

WriteStringListMap(map) == WriteMap([k \in DOMAIN map |-> WriteStringArray(map[k])])

ReadStringSet(input) ==
    Then(ReadStringArray(input), LAMBDA items, rest : Reads(ToSet(items), rest))

WriteStringSet(items) == WriteStringArray(Ordered(items))

ReadStringSetMap(input) == ReadMap(Reader(ReadStringSet), input)

WriteStringSetMap(map) == WriteMap([k \in DOMAIN map |-> WriteStringSet(map[k])])

=============================================================================
