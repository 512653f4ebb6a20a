---------------------------- MODULE FrameStream ----------------------------
(***************************************************************************)
(* One direction of a connection: frames built with MessageFrame::request  *)
(* and MessageFrame::response are written by to_bytes, cross the network   *)
(* in pieces of any size, and are read back by MessageFrame::read_from,    *)
(* field by field.  The stream may be closed, or reset at any point of a   *)
(* frame, and a frame may be malformed.                                    *)
(*                                                                         *)
(* The unit is the cell of StreamCodec; each field of the header is one    *)
(* cell, so the fixed part counted by message_length is 4 in place of 17.  *)
(* Connection threads of ExtensionHost read whole frames; that they may is *)
(* what this module shows.                                                 *)
(***************************************************************************)
EXTENDS StreamCodec

CONSTANTS
    Requests,   \* <<request_id, context, features, action, body, is_handshake>>
    Responses,  \* <<request_id, context, body, is_handshake, is_error>>
    BareFrames, \* <<request_id, context, body>>: requests without an action
    Defects,    \* defects a frame may be sent with
    MaxSent     \* bound on the frames sent

ASSUME FrameBoundsAssumption ==
    /\ MaxSent \in Nat
    /\ Defects \subseteq {"prefix", "short_length", "long_variable", "cut_variable"}

IsContext(context) ==
    /\ context = [request_headers |-> context.request_headers,
                  response_headers |-> context.response_headers]
    /\ IsMap(context.request_headers, Strings)
    /\ IsMap(context.response_headers, StringSets)

\* The constants hold what request and response take.
AreFrames ==
    /\ \A r \in Requests :
          /\ r[1] \in Nat /\ IsContext(r[2]) /\ r[3] \in Seq(Strings) /\ r[4] \in Strings
          /\ r[5] \in Seq(Nat) /\ r[6] \in BOOLEAN
    /\ \A r \in Responses :
          r[1] \in Nat /\ IsContext(r[2]) /\ r[3] \in Seq(Nat) /\ r[4] \in BOOLEAN /\ r[5] \in BOOLEAN
    /\ \A b \in BareFrames : b[1] \in Nat /\ IsContext(b[2]) /\ b[3] \in Seq(Nat)

ASSUME FramesAssumption == AreFrames

MARKER_BYTES == 69
VERSION == 2
FIXED_HEADER_MESSAGE_BYTES == 4

STATUS_REQRES == 1
STATUS_ERROR == 2
STATUS_HANDSHAKE == 8

\* Bit 0 of the status says what the frame is.
IsRequest(header) == header.status % 2 = 0

WriteContext(context) ==
    WriteStringMap(context.request_headers) \o WriteStringSetMap(context.response_headers)

ReadContext(input) ==
    Then(ReadStringMap(input), LAMBDA request_headers, rest :
        Then(ReadStringSetMap(rest), LAMBDA response_headers, remaining :
            Reads([request_headers |-> request_headers,
                   response_headers |-> response_headers], remaining)))

\* An action is <<>> for None and <<name>> for Some(name).
HeaderFor(request_id, status, variable, body) ==
    [message_length |-> FIXED_HEADER_MESSAGE_BYTES + Len(variable) + Len(body),
     request_id |-> request_id, status |-> status, version |-> VERSION,
     variable_header_size |-> Len(variable)]

Request(request_id, context, features, action, body, is_handshake) ==
    LET variable == WriteContext(context) \o WriteStringArray(features) \o WriteString(action)
    IN  [header |-> HeaderFor(request_id, IF is_handshake THEN STATUS_HANDSHAKE ELSE 0,
                              variable, body),
         thread_context |-> context, features |-> features, action |-> <<action>>,
         body |-> body]

Response(request_id, context, body, is_handshake, is_error) ==
    [header |-> HeaderFor(request_id,
                          STATUS_REQRES + (IF is_handshake THEN STATUS_HANDSHAKE ELSE 0)
                                        + (IF is_error THEN STATUS_ERROR ELSE 0),
                          WriteContext(context), body),
     thread_context |-> context, features |-> <<>>, action |-> <<>>, body |-> body]

\* Slip: a response carries a feature list and an action as a request does.
VariableHeader_SameForResponses(frame) ==
    WriteContext(frame.thread_context) \o WriteStringArray(frame.features)
        \o WriteString(IF frame.action = <<>> THEN <<>> ELSE frame.action[1])

\* The variable header to_bytes writes; a missing action is written as "".
VariableHeader(frame) ==
    WriteContext(frame.thread_context)
        \o IF IsRequest(frame.header)
           THEN WriteStringArray(frame.features)
                    \o WriteString(IF frame.action = <<>> THEN <<>> ELSE frame.action[1])
           ELSE <<>>

HeaderCells(header) ==
    <<MARKER_BYTES, header.message_length, header.request_id, header.status,
      header.version, header.variable_header_size>>

\* to_bytes computes both lengths anew.
ToBytes(frame) ==
    LET variable == VariableHeader(frame)
    IN  HeaderCells(HeaderFor(frame.header.request_id, frame.header.status, variable, frame.body))
            \o variable \o frame.body

-----------------------------------------------------------------------------
(* What peers send. *)

\* A peer's request whose variable header ends after the context.
Bare(request_id, context, body) ==
    [header |-> HeaderFor(request_id, 0, WriteContext(context), body),
     thread_context |-> context, features |-> <<>>, action |-> <<>>, body |-> body]

BareCells(frame) == HeaderCells(frame.header) \o WriteContext(frame.thread_context) \o frame.body

Items ==
    LET frames == {Request(r[1], r[2], r[3], r[4], r[5], r[6]) : r \in Requests}
                  \cup {Response(r[1], r[2], r[3], r[4], r[5]) : r \in Responses}
        bare   == {Bare(b[1], b[2], b[3]) : b \in BareFrames}
    IN  [frame : frames, bare : {FALSE}, defect : {"none"} \cup Defects]
        \cup [frame : bare, bare : {TRUE}, defect : {"none"}]

\* The cells of a frame, spoiled by its defect.
CellsOf(item) ==
    LET cells == IF item.bare THEN BareCells(item.frame) ELSE ToBytes(item.frame)
    IN  CASE item.defect = "none" -> cells
          [] item.defect = "prefix" -> [cells EXCEPT ![1] = @ + 1]
          [] item.defect = "short_length" -> [cells EXCEPT ![2] = FIXED_HEADER_MESSAGE_BYTES - 1]
          [] item.defect = "long_variable" ->
                [cells EXCEPT ![6] = cells[2] - FIXED_HEADER_MESSAGE_BYTES + 1]
          [] item.defect = "cut_variable" -> [cells EXCEPT ![6] = 1]

-----------------------------------------------------------------------------
VARIABLES
    sent,      \* items the peer has written, in order
    inFlight,  \* cells on their way
    arrived,   \* cells in the socket's buffer, not read
    open,      \* the peer has neither closed nor reset the connection
    fields,    \* fields of the next frame's header read so far
    delivered, \* frames read_from has returned
    outcome    \* how reading ended, or "reading"

vars == <<sent, inFlight, arrived, open, fields, delivered, outcome>>

Init ==
    /\ sent = <<>>
    /\ inFlight = <<>>
    /\ arrived = <<>>
    /\ open = TRUE
    /\ fields = <<>>
    /\ delivered = <<>>
    /\ outcome = "reading"

Send ==
    /\ open
    /\ Len(sent) < MaxSent
    /\ \E item \in Items :
          /\ sent' = Append(sent, item)
          /\ inFlight' = inFlight \o CellsOf(item)
    /\ UNCHANGED <<arrived, open, fields, delivered, outcome>>

Arrive ==
    \E n \in 1..Len(inFlight) :
        /\ arrived' = arrived \o SubSeq(inFlight, 1, n)
        /\ inFlight' = SubSeq(inFlight, n + 1, Len(inFlight))
        /\ UNCHANGED <<sent, open, fields, delivered, outcome>>

\* Everything written still arrives.
Close ==
    /\ open
    /\ open' = FALSE
    /\ UNCHANGED <<sent, inFlight, arrived, fields, delivered, outcome>>

\* What is on its way is lost, and what was not read may be.
Reset ==
    /\ open
    /\ open' = FALSE
    /\ inFlight' = <<>>
    /\ \E n \in 0..Len(arrived) : arrived' = SubSeq(arrived, 1, n)
    /\ UNCHANGED <<sent, fields, delivered, outcome>>

Reading == outcome = "reading" /\ UNCHANGED <<sent, inFlight, open>>

\* TransportTcpHeader::read_from, one field after the other.
ReadField ==
    /\ Reading
    /\ Len(fields) < 6
    /\ arrived # <<>>
    /\ arrived' = Tail(arrived)
    /\ IF fields = <<>> /\ Head(arrived) # MARKER_BYTES
       THEN outcome' = "error" /\ UNCHANGED fields
       ELSE fields' = Append(fields, Head(arrived)) /\ UNCHANGED outcome
    /\ UNCHANGED delivered

Header ==
    [message_length |-> fields[2], request_id |-> fields[3], status |-> fields[4],
     version |-> fields[5], variable_header_size |-> fields[6]]

\* message_length - 17 underflows: a panic where overflow is checked, and a
\* panic of the allocation of nearly 2^64 bytes where it is not.
LengthUnderflows ==
    /\ Reading
    /\ Len(fields) = 6
    /\ Header.message_length < FIXED_HEADER_MESSAGE_BYTES
    /\ outcome' = "panicked"
    /\ UNCHANGED <<arrived, fields, delivered>>

Remaining == Header.message_length - FIXED_HEADER_MESSAGE_BYTES

\* Read from a request only, and only if its variable header goes on.
ReadFeaturesAndAction(input) ==
    IF ~IsRequest(Header) \/ input = <<>>
    THEN Reads([features |-> <<>>, action |-> <<>>], input)
    ELSE Then(ReadStringArray(input), LAMBDA features, rest :
            Then(ReadString(rest), LAMBDA action, left :
                Reads([features |-> features, action |-> <<action>>], left)))

\* The frame in the cells behind the header, or the error that stops it.
ParseRest(cells) ==
    IF Header.variable_header_size > Len(cells) THEN Fails("data")
    ELSE Then(ReadContext(SubSeq(cells, 1, Header.variable_header_size)),
              LAMBDA context, rest :
                Then(ReadFeaturesAndAction(rest), LAMBDA f, left :
                    Reads([header |-> Header, thread_context |-> context,
                           features |-> f.features, action |-> f.action,
                           body |-> SubSeq(cells, Header.variable_header_size + 1, Len(cells))],
                          <<>>)))

\* UnexpectedEof is taken for the end of the connection wherever it comes
\* from, also from within the variable header.
OutcomeOf(error) == IF error = "eof" THEN "closed" ELSE "error"

ReadRest ==
    /\ Reading
    /\ Len(fields) = 6
    /\ Header.message_length >= FIXED_HEADER_MESSAGE_BYTES
    /\ Len(arrived) >= Remaining
    /\ LET parsed == ParseRest(SubSeq(arrived, 1, Remaining))
       IN  IF parsed.error = "none"
           THEN delivered' = Append(delivered, parsed.value) /\ UNCHANGED outcome
           ELSE outcome' = OutcomeOf(parsed.error) /\ UNCHANGED delivered
    /\ arrived' = SubSeq(arrived, Remaining + 1, Len(arrived))
    /\ fields' = <<>>

\* Slip: only an end between two frames counts as the end.
EndsEarly_BetweenFrames == fields = <<>> /\ arrived = <<>>

\* Fewer cells are left than the next read_exact wants.
EndsEarly ==
    IF Len(fields) < 6 THEN arrived = <<>>
    ELSE /\ Header.message_length >= FIXED_HEADER_MESSAGE_BYTES
         /\ Len(arrived) < Remaining

\* After a reset the error is that of the connection.
ReadEnds ==
    /\ Reading
    /\ ~open
    /\ inFlight = <<>>
    /\ EndsEarly
    /\ outcome' \in {"closed", "error"}
    /\ UNCHANGED <<arrived, fields, delivered>>

ReadStep == ReadField \/ LengthUnderflows \/ ReadRest \/ ReadEnds

Next == Send \/ Arrive \/ Close \/ Reset \/ ReadStep

Spec == Init /\ [][Next]_vars

\* The network delivers what is not reset, and the thread reads.
FairSpec == Spec /\ WF_vars(Arrive) /\ WF_vars(ReadStep)

-----------------------------------------------------------------------------
(* Properties. *)

\* The type of the reader's state: no cell is negative, and a header has six
\* fields.
TypeOK ==
    /\ sent \in Seq(Items)
    /\ inFlight \in Seq(Nat) /\ arrived \in Seq(Nat)
    /\ open \in BOOLEAN
    /\ fields \in Seq(Nat) /\ Len(fields) <= 6
    /\ delivered \in Seq({item.frame : item \in Items}) /\ Len(delivered) <= Len(sent)
    /\ outcome \in {"reading", "closed", "error", "panicked"}

\* How reading a frame with this defect ends.
Outcome(defect) ==
    CASE defect \in {"prefix", "long_variable"} -> "error"
      [] defect = "short_length" -> "panicked"
      [] defect = "cut_variable" -> "closed"

Channel == INSTANCE FrameChannel WITH taken <- delivered, ended <- outcome

\* Whatever pieces the stream comes in and wherever it breaks off, the frames
\* read are those sent: header, context, features, action and body, no part of
\* a frame, none twice, none after a malformed one.
ImplementsFrameChannel == Channel!Spec

\* A thread never waits for ever on a peer that is gone, and reads every frame
\* it was sent unless the connection ends.
ReadingProgresses ==
    /\ ~open ~> outcome # "reading"
    /\ \A n \in 1..MaxSent : Len(sent) >= n ~> Len(delivered) >= n \/ outcome # "reading"

=============================================================================
