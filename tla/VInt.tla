-------------------------------- MODULE VInt --------------------------------
(***************************************************************************)
(* The variable-length integers of src/stream.rs: write_vint takes a word  *)
(* apart into groups of bits, lowest first, all but the last marked as     *)
(* continued; read_vint puts the groups of any input together again.  In   *)
(* the code a group has 7 bits and a word 32, and 28 is the last shift.    *)
(* encode_varint of src/transport.rs is the same loop as write_vint.       *)
(***************************************************************************)
EXTENDS Naturals, Sequences, SequencesExt

CONSTANTS
    GroupBits,  \* bits of a group
    WordBits,   \* bits of a word
    MaxShift,   \* the last shift read_vint makes
    MaxLength   \* bound on inputs that write_vint did not produce

\* The last group starts within the word and reaches its end.
ASSUME WidthsAssumption ==
    /\ GroupBits \in Nat \ {0} /\ WordBits \in Nat /\ MaxShift \in Nat /\ MaxLength \in Nat
    /\ MaxShift % GroupBits = 0
    /\ MaxShift < WordBits
    /\ WordBits <= MaxShift + GroupBits

Group == 2 ^ GroupBits
Word == 2 ^ WordBits

Continued(byte) == byte >= Group

VARIABLES
    stage,  \* "writing", "reading", "read", "eof" or "invalid"
    origin, \* <<value>> for a value write_vint was given, <<>> for other input
    value,  \* the local variable of either loop
    bytes,  \* what is written, or to be read
    position, \* bytes read
    shift

vars == <<stage, origin, value, bytes, position, shift>>

Init ==
    /\ position = 0
    /\ shift = 0
    /\ \/ \E v \in 0..(Word - 1) :
             stage = "writing" /\ origin = <<v>> /\ value = v /\ bytes = <<>>
       \/ \E input \in BoundedSeq(0..(2 * Group - 1), MaxLength) :
             stage = "reading" /\ origin = <<>> /\ value = 0 /\ bytes = input

\* Slip: the group is not marked when exactly one more follows.
WriteGroup_UnmarkedAtLimit ==
    /\ stage = "writing"
    /\ value >= Group
    /\ bytes' = Append(bytes, IF value = Group THEN 0 ELSE Group + (value % Group))
    /\ value' = value \div Group
    /\ UNCHANGED <<stage, origin, position, shift>>

WriteGroup ==
    /\ stage = "writing"
    /\ value >= Group
    /\ bytes' = Append(bytes, Group + (value % Group))
    /\ value' = value \div Group
    /\ UNCHANGED <<stage, origin, position, shift>>

\* The bytes are handed to the reader.
WriteLast ==
    /\ stage = "writing"
    /\ value < Group
    /\ bytes' = Append(bytes, value)
    /\ stage' = "reading"
    /\ value' = 0
    /\ UNCHANGED <<origin, position, shift>>

\* Slip: the group is shifted past the word before it is cut to it.
Placed_Wide(byte) == (byte % Group) * 2 ^ shift

\* The bits of the byte in place; << loses those that leave the word.
Placed(byte) == ((byte % Group) * 2 ^ shift) % Word

\* Slip: the limit is compared before the shift grows.
ShiftExceeds_TooLate == shift > MaxShift

ShiftExceeds == shift + GroupBits > MaxShift

\* |= adds: the bits placed so far are all below shift.
ReadGroup ==
    /\ stage = "reading"
    /\ position < Len(bytes)
    /\ LET byte == bytes[position + 1]
       IN  /\ value' = value + Placed(byte)
           /\ IF ~Continued(byte) THEN stage' = "read" /\ UNCHANGED shift
              ELSE /\ shift' = shift + GroupBits
                   /\ stage' = IF ShiftExceeds THEN "invalid" ELSE stage
    /\ position' = position + 1
    /\ UNCHANGED <<origin, bytes>>

\* read_u8 finds no byte.
ReadEnds ==
    /\ stage = "reading"
    /\ position = Len(bytes)
    /\ stage' = "eof"
    /\ UNCHANGED <<origin, value, bytes, position, shift>>

Next == WriteGroup \/ WriteLast \/ ReadGroup \/ ReadEnds

Spec == Init /\ [][Next]_vars

-----------------------------------------------------------------------------
(* Properties. *)

\* What write_vint wrote is read back as the same value, to the last byte.
RoundTrip ==
    origin # <<>> /\ stage \notin {"writing", "reading"} =>
        stage = "read" /\ value = origin[1] /\ position = Len(bytes)

\* The number any bytes stand for: their groups as digits, cut to a word.
Denoted(input) ==
    LET sum[n \in 0..Len(input)] ==
            IF n = 0 THEN 0
            ELSE sum[n - 1] + (input[n] % Group) * 2 ^ ((n - 1) * GroupBits)
    IN  sum[Len(input)] % Word

\* Whatever the input, the value stays a word, a number that was read is the
\* one its bytes stand for, and bits beyond the word are lost without an error.
ReadsDenotedValue ==
    /\ value < Word
    /\ stage = "read" => value = Denoted(SubSeq(bytes, 1, position))

MaxGroups == MaxShift \div GroupBits + 1

\* Input is refused exactly if its first MaxGroups bytes are all continued,
\* and no byte after them is read; short of that only its end is an error.
RefusesEndlessInput ==
    /\ position <= MaxGroups
    /\ stage = "invalid" <=>
          stage # "writing" /\ position = MaxGroups /\ Continued(bytes[MaxGroups])
    /\ stage = "eof" => \A i \in DOMAIN bytes : Continued(bytes[i])

=============================================================================
