------------------------------ MODULE Protobuf ------------------------------
(***************************************************************************)
(* The protobuf builders at the end of src/transport.rs, which write the   *)
(* bodies of the host's own requests field by field, and the parser of the *)
(* peer, which is not part of the crate.  A varint holds two bits a cell   *)
(* in place of seven, so that the lengths and keys of short messages take  *)
(* more than one.                                                          *)
(***************************************************************************)
EXTENDS StreamCodec

\* Stands for 128.
BASE == 4

Varint[n \in Nat] == IF n < BASE THEN <<n>> ELSE <<BASE + (n % BASE)>> \o Varint[n \div BASE]

VARINT == 0
LENGTH_DELIMITED == 2

Field(tag, wire_type, value) == Varint[8 * tag + wire_type] \o value

LengthDelimited(value) == Varint[Len(value)] \o value

EncodeIdentity(unique_id) == Field(1, LENGTH_DELIMITED, LengthDelimited(unique_id))

\* The identity is optional.
EncodeExtensionRequest(unique_id, request_type) ==
    FlattenSeq([i \in DOMAIN unique_id |->
        Field(1, LENGTH_DELIMITED, LengthDelimited(EncodeIdentity(unique_id[i])))])
    \o Field(2, VARINT, Varint[request_type])

Repeated(tag, values) ==
    FlattenSeq([i \in DOMAIN values |-> Field(tag, LENGTH_DELIMITED, LengthDelimited(values[i]))])

\* Slip: the identity is written in place of the message that holds it.
EncodeRegisterRestActions_FlatIdentity(unique_id, rest_actions, deprecated_rest_actions) ==
    EncodeIdentity(unique_id) \o Repeated(2, rest_actions) \o Repeated(3, deprecated_rest_actions)

EncodeRegisterRestActions(unique_id, rest_actions, deprecated_rest_actions) ==
    Field(1, LENGTH_DELIMITED, LengthDelimited(EncodeIdentity(unique_id)))
        \o Repeated(2, rest_actions) \o Repeated(3, deprecated_rest_actions)

-----------------------------------------------------------------------------
(* The peer's parser. *)

\* The groups of a number come lowest first, up to the first without a mark.
ReadVarint(input) ==
    LET ends == {i \in DOMAIN input : input[i] < BASE}
        last == Min(ends)
        number[i \in 0..last] ==
            IF i = 0 THEN 0 ELSE (input[last + 1 - i] % BASE) + (BASE * number[i - 1])
    IN  IF ends = {} THEN Fails("eof")
        ELSE Reads(number[last], SubSeq(input, last + 1, Len(input)))

\* The value of a field: a number in a sequence of one, or bytes.
ReadField(input) ==
    Then(ReadVarint(input), LAMBDA key, r1 :
    Then(ReadVarint(r1), LAMBDA n, r2 :
        CASE (key % 8) = VARINT -> Reads([tag |-> key \div 8, value |-> <<n>>], r2)
          [] (key % 8) = LENGTH_DELIMITED /\ n <= Len(r2) ->
                Reads([tag |-> key \div 8, value |-> SubSeq(r2, 1, n)],
                      SubSeq(r2, n + 1, Len(r2)))
          [] OTHER -> Fails("data")))

\* One more field, unless the input is at its end.
NextField(read) ==
    Then(read, LAMBDA fields, rest :
        IF rest = <<>> THEN read
        ELSE Then(ReadField(rest), LAMBDA field, left : Reads(Append(fields, field), left)))

\* The fields of a message, of which there are no more than cells.
ReadMessage(input) ==
    LET read[i \in 0..Len(input)] ==
            IF i = 0 THEN Reads(<<>>, input) ELSE NextField(read[i - 1])
    IN  read[Len(input)]

\* The values of all fields with a tag, in order.
ValuesOf(fields, tag) ==
    LET values[i \in 0..Len(fields)] ==
            IF i = 0 THEN <<>>
            ELSE IF fields[i].tag = tag THEN Append(values[i - 1], fields[i].value)
            ELSE values[i - 1]
    IN  values[Len(fields)]

\* The unique ids in the identities of a message.
IdentitiesOf(fields) ==
    [i \in DOMAIN ValuesOf(fields, 1) |->
        ValuesOf(ReadMessage(ValuesOf(fields, 1)[i]).value, 1)]

=============================================================================
