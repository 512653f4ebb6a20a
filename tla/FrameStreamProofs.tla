-------------------------- MODULE FrameStreamProofs --------------------------
(***************************************************************************)
(* FrameStream implements FrameChannel, for any frames: in whatever pieces *)
(* the stream comes and wherever it breaks off, the frames that are read   *)
(* are those that were sent, and a malformed one ends the reading as its   *)
(* defect says.                                                            *)
(*                                                                         *)
(* The proof follows the cells: what is read of a header, what waits in    *)
(* the socket and what is on its way are, with what a reset lost, the      *)
(* cells of the items not yet delivered.                                   *)
(***************************************************************************)
EXTENDS FrameStream, StreamCodecProofs

-----------------------------------------------------------------------------
(* The variable header. *)

\* A thread context that was written is read back, whatever follows.
LEMMA ContextReads ==
    ASSUME NEW context, IsContext(context), NEW rest \in Cells
    PROVE  /\ ReadContext(WriteContext(context) \o rest) = Reads(context, rest)
           /\ WriteContext(context) \in Cells
<1>1. PICK a \in Cells, b \in Cells :
         a = WriteStringMap(context.request_headers) /\ b = WriteStringSetMap(context.response_headers)
  BY Concat, StringMapReads, StringSetMapReads DEF IsContext
<1>2. WriteContext(context) = a \o b /\ a \o b \in Cells /\ b \o rest \in Cells
  BY <1>1, Concat DEF WriteContext
<1>3. (a \o b) \o rest = a \o (b \o rest)
  BY ConcatRegroup
<1>4. ReadStringMap(a \o (b \o rest)) = Reads(context.request_headers, b \o rest)
  BY <1>1, <1>2, StringMapReads DEF IsContext
<1>5. ReadStringSetMap(b \o rest) = Reads(context.response_headers, rest)
  BY <1>1, StringSetMapReads DEF IsContext
<1>6. ReadContext(a \o (b \o rest))
         = Reads([request_headers |-> context.request_headers,
                  response_headers |-> context.response_headers], rest)
  BY <1>4, <1>5, ReadsFields DEF ReadContext, Then
<1> QED
  BY <1>2, <1>3, <1>6 DEF IsContext

\* One cell is no context: the first length is cut, or the second.
LEMMA OneCellIsCut ==
    ASSUME NEW n \in Nat PROVE ReadContext(<<n>>).error = "eof"
<1>1. ReadCell(<<n>>) = Reads(n, <<>>) /\ Fails("eof").error = "eof"
  BY DEF ReadCell, Fails
<1> DEFINE item == [left \in Seq(Nat) |-> ReadEntry(Reader(ReadString), left)]
<1>2. ReadString(<<>>) = Fails("eof")
  BY NothingToRead
<1>3. item[<<>>] = Fails("eof")
  <2>1. <<>> \in Seq(Nat)
    BY EmptySeq
  <2>2. ReadEntry(Reader(ReadString), <<>>) = Fails("eof")
    BY <1>1, <1>2 DEF ReadEntry, Then
  <2> QED
    BY <2>1, <2>2
<1> HIDE DEF item
<1>4. CASE n = 0
  <2>1. ReadItems(item, 0, <<>>) = Reads(<<>>, <<>>)
    <3> DEFINE e == [i \in {0} |-> Reads(<<>>, <<>>)]
    <3>1. e[0] = Reads(<<>>, <<>>) /\ \A i \in 0..(0 - 1) : ItemAfter(item, e[i]) = e[i + 1]
      OBVIOUS
    <3> HIDE DEF e
    <3> QED
      BY <3>1, ItemsAre
  <2>2. ReadMany(item, <<0>>) = Reads(<<>>, <<>>)
    BY <1>1, <1>4, <2>1, ReadsFields DEF ReadMany, Then
  <2>3. PICK map : ReadStringMap(<<0>>) = Reads(map, <<>>)
    BY <2>2, ReadsFields DEF ReadStringMap, ReadMap, Then, item
  <2>4. ReadStringSetMap(<<>>) = Fails("eof")
    BY NothingToRead DEF ReadStringSetMap
  <2> QED
    BY <1>1, <1>4, <2>3, <2>4, ReadsFields DEF ReadContext, Then
<1>5. CASE n # 0
  <2>1. ReadItems(item, n, <<>>) = Fails("eof")
    <3> DEFINE e == [i \in 0..n |-> IF i = 0 THEN Reads(<<>>, <<>>) ELSE Fails("eof")]
    <3>1. ItemAfter(item, Reads(<<>>, <<>>)) = Fails("eof")
      BY <1>1, <1>3, ReadsFields DEF ItemAfter, Then
    <3>2. ItemAfter(item, Fails("eof")) = Fails("eof")
      BY <1>1 DEF ItemAfter, Then
    <3>3. \A i \in 0..(n - 1) : ItemAfter(item, e[i]) = e[i + 1]
      BY <3>1, <3>2
    <3>4. e[0] = Reads(<<>>, <<>>) /\ e[n] = Fails("eof")
      BY <1>5
    <3> HIDE DEF e
    <3>5. ReadItems(item, n, <<>>) = e[n]
      <4>1. e[0] = Reads(<<>>, <<>>)
        BY <3>4
      <4> QED
        BY <3>3, <4>1, ItemsAre
    <3> QED
      BY <3>4, <3>5
  <2>2. ReadMany(item, <<n>>) = Fails("eof")
    BY <1>1, <2>1, ReadsFields DEF ReadMany, Then
  <2>3. ReadStringMap(<<n>>) = Fails("eof")
    BY <1>1, <2>2 DEF ReadStringMap, ReadMap, Then, item
  <2> QED
    BY <1>1, <2>3 DEF ReadContext, Then
<1> QED
  BY <1>4, <1>5

-----------------------------------------------------------------------------
(* Frames. *)

\* What is behind the context reads as the features and the action of frame.
ReadsTail(frame, more) ==
    IF ~IsRequest(frame.header) \/ more = <<>>
    THEN frame.features = <<>> /\ frame.action = <<>>
    ELSE \E rest, action :
            /\ ReadStringArray(more) = Reads(frame.features, rest)
            /\ ReadString(rest) = Reads(action, <<>>)
            /\ frame.action = <<action>>

\* A frame whose variable header is variable, as read_from takes it apart.
Built(frame, variable) ==
    /\ variable \in Cells /\ variable # <<>> /\ frame.body \in Cells
    /\ frame = [header |-> frame.header, thread_context |-> frame.thread_context,
                features |-> frame.features, action |-> frame.action, body |-> frame.body]
    /\ \E id, status \in Nat : frame.header = HeaderFor(id, status, variable, frame.body)
    /\ \E more : ReadContext(variable) = Reads(frame.thread_context, more) /\ ReadsTail(frame, more)

\* A context takes at least a cell.
LEMMA ContextIsNotEmpty ==
    ASSUME NEW context, IsContext(context), NEW more \in Cells
    PROVE  WriteContext(context) \o more # <<>> /\ WriteContext(context) \in Cells
<1>1. PICK a \in Cells : a = WriteContext(context)
  BY Concat, ContextReads
<1>2. a # <<>>
  <2> SUFFICES ASSUME a = <<>> PROVE FALSE
    OBVIOUS
  <2>1. ReadContext(<<>>) = Reads(context, <<>>)
    <3>1. ReadContext(a \o <<>>) = Reads(context, <<>>) /\ a \o <<>> = a
      BY <1>1, Concat, ContextReads
    <3> QED
      BY <3>1
  <2>2. ReadStringMap(<<>>) = Fails("eof") /\ Fails("eof").error = "eof"
    BY NothingToRead DEF ReadStringMap
  <2>3. ReadContext(<<>>) = Fails("eof")
    BY <2>2 DEF ReadContext, Then
  <2> QED
    BY <2>1, <2>2, <2>3, ReadsFields
<1>3. Len(a \o more) = Len(a) + Len(more) /\ Len(a) > 0
  BY <1>2 DEF Cells
<1> QED
  BY <1>1, <1>3

\* What MessageFrame::request builds and to_bytes writes.
LEMMA RequestBuilt ==
    ASSUME NEW r \in Requests, NEW frame, frame = Request(r[1], r[2], r[3], r[4], r[5], r[6])
    PROVE  /\ Built(frame, VariableHeader(frame))
           /\ ToBytes(frame) = (HeaderCells(frame.header) \o VariableHeader(frame)) \o frame.body
<1>1. /\ r[1] \in Nat /\ IsContext(r[2]) /\ r[3] \in Seq(Strings) /\ r[4] \in Strings
      /\ r[5] \in Cells /\ r[6] \in BOOLEAN
  BY FramesAssumption DEF AreFrames, Cells
<1>2. PICK a \in Cells, b \in Cells, c \in Cells :
         a = WriteContext(r[2]) /\ b = WriteStringArray(r[3]) /\ c = WriteString(r[4])
  <2>1. WriteContext(r[2]) \in Cells
    BY <1>1, Concat, ContextReads
  <2>2. WriteStringArray(r[3]) \in Cells
    BY <1>1, Concat, StringArrayReads
  <2>3. WriteString(r[4]) \in Cells
    BY <1>1, Concat, StringReads
  <2> QED
    BY <2>1, <2>2, <2>3
<1>3. PICK status \in Nat : status = (IF r[6] THEN STATUS_HANDSHAKE ELSE 0) /\ status % 2 = 0
  BY <1>1 DEF STATUS_HANDSHAKE
<1>4. b \o c \in Cells /\ (a \o b) \o c = a \o (b \o c) /\ c \o <<>> = c
  <2>1. b \o c \in Cells /\ c \o <<>> = c
    BY Concat
  <2> QED
    BY <2>1, ConcatRegroup
<1>5. /\ frame.header = HeaderFor(r[1], status, (a \o b) \o c, r[5])
      /\ frame.thread_context = r[2] /\ frame.features = r[3] /\ frame.action = <<r[4]>>
      /\ frame.body = r[5]
      /\ frame = [header |-> frame.header, thread_context |-> frame.thread_context,
                  features |-> frame.features, action |-> frame.action, body |-> frame.body]
  BY <1>2, <1>3 DEF Request
<1>6. IsRequest(frame.header) /\ frame.header.request_id = r[1] /\ frame.header.status = status
  BY <1>3, <1>5 DEF IsRequest, HeaderFor
<1>7. VariableHeader(frame) = a \o (b \o c)
  BY <1>2, <1>5, <1>6 DEF VariableHeader
<1>8. a \o (b \o c) # <<>> /\ a \o (b \o c) \in Cells
  BY <1>1, <1>2, <1>4, ContextIsNotEmpty, Concat
<1>9. ReadContext(a \o (b \o c)) = Reads(r[2], b \o c)
  BY <1>1, <1>2, <1>4, ContextReads
<1>10. ReadStringArray(b \o c) = Reads(r[3], c)
  BY <1>1, <1>2, StringArrayReads
<1>11. ReadString(c) = Reads(r[4], <<>>)
  <2>1. ReadString(c \o <<>>) = Reads(r[4], <<>>)
    BY <1>1, <1>2, StringReads, Concat
  <2> QED
    BY <1>4, <2>1
<1>12. b \o c # <<>>
  <2> SUFFICES ASSUME b \o c = <<>> PROVE FALSE
    OBVIOUS
  <2>1. ReadStringArray(<<>>).error = "eof"
    BY NothingToRead DEF ReadStringArray
  <2>2. ReadStringArray(<<>>) = Reads(r[3], c)
    BY <1>10
  <2> QED
    BY <2>1, <2>2, ReadsFields
<1>13. ReadsTail(frame, b \o c)
  BY <1>5, <1>6, <1>10, <1>11, <1>12 DEF ReadsTail
<1>14. Built(frame, VariableHeader(frame))
  BY <1>1, <1>4, <1>5, <1>7, <1>8, <1>9, <1>13 DEF Built
<1>15. ToBytes(frame) = (HeaderCells(frame.header) \o VariableHeader(frame)) \o frame.body
  BY <1>4, <1>5, <1>6, <1>7 DEF ToBytes
<1> QED
  BY <1>14, <1>15

\* What MessageFrame::response builds and to_bytes writes.
LEMMA ResponseBuilt ==
    ASSUME NEW r \in Responses, NEW frame, frame = Response(r[1], r[2], r[3], r[4], r[5])
    PROVE  /\ Built(frame, VariableHeader(frame))
           /\ ToBytes(frame) = (HeaderCells(frame.header) \o VariableHeader(frame)) \o frame.body
<1>1. r[1] \in Nat /\ IsContext(r[2]) /\ r[3] \in Cells /\ r[4] \in BOOLEAN /\ r[5] \in BOOLEAN
  BY FramesAssumption DEF AreFrames, Cells
<1>2. PICK a \in Cells : a = WriteContext(r[2])
  BY <1>1, Concat, ContextReads
<1>3. PICK status \in Nat :
         /\ status = STATUS_REQRES + (IF r[4] THEN STATUS_HANDSHAKE ELSE 0)
                                   + (IF r[5] THEN STATUS_ERROR ELSE 0)
         /\ status % 2 = 1
  BY <1>1 DEF STATUS_REQRES, STATUS_HANDSHAKE, STATUS_ERROR
<1>4. a \o <<>> = a /\ <<>> \in Cells
  BY Concat
<1>5. /\ frame.header = HeaderFor(r[1], status, a, r[3])
      /\ frame.thread_context = r[2] /\ frame.features = <<>> /\ frame.action = <<>>
      /\ frame.body = r[3]
      /\ frame = [header |-> frame.header, thread_context |-> frame.thread_context,
                  features |-> frame.features, action |-> frame.action, body |-> frame.body]
  BY <1>2, <1>3 DEF Response
<1>6. ~IsRequest(frame.header) /\ frame.header.request_id = r[1] /\ frame.header.status = status
  BY <1>3, <1>5 DEF IsRequest, HeaderFor
<1>7. VariableHeader(frame) = a
  BY <1>2, <1>4, <1>5, <1>6 DEF VariableHeader
<1>8. a # <<>>
  BY <1>1, <1>2, <1>4, ContextIsNotEmpty
<1>9. ReadContext(a) = Reads(r[2], <<>>)
  BY <1>1, <1>2, <1>4, ContextReads
<1>10. ReadsTail(frame, <<>>)
  BY <1>5 DEF ReadsTail
<1>11. Built(frame, VariableHeader(frame))
  BY <1>1, <1>5, <1>7, <1>8, <1>9, <1>10 DEF Built
<1>12. ToBytes(frame) = (HeaderCells(frame.header) \o VariableHeader(frame)) \o frame.body
  BY <1>5, <1>6, <1>7 DEF ToBytes
<1> QED
  BY <1>11, <1>12

\* A peer's request that ends after its context.
LEMMA BareBuilt ==
    ASSUME NEW b \in BareFrames, NEW frame, frame = Bare(b[1], b[2], b[3])
    PROVE  /\ Built(frame, WriteContext(frame.thread_context))
           /\ BareCells(frame)
                 = (HeaderCells(frame.header) \o WriteContext(frame.thread_context)) \o frame.body
<1>1. b[1] \in Nat /\ IsContext(b[2]) /\ b[3] \in Cells
  BY FramesAssumption DEF AreFrames, Cells
<1>2. PICK a \in Cells : a = WriteContext(b[2])
  BY <1>1, Concat, ContextReads
<1>3. a \o <<>> = a /\ <<>> \in Cells
  BY Concat
<1>4. /\ frame.header = HeaderFor(b[1], 0, a, b[3])
      /\ frame.thread_context = b[2] /\ frame.features = <<>> /\ frame.action = <<>>
      /\ frame.body = b[3]
      /\ frame = [header |-> frame.header, thread_context |-> frame.thread_context,
                  features |-> frame.features, action |-> frame.action, body |-> frame.body]
  BY <1>2 DEF Bare
<1>5. a # <<>>
  BY <1>1, <1>2, <1>3, ContextIsNotEmpty
<1>6. ReadContext(a) = Reads(b[2], <<>>)
  BY <1>1, <1>2, <1>3, ContextReads
<1>7. ReadsTail(frame, <<>>)
  BY <1>4 DEF ReadsTail
<1>8. Built(frame, WriteContext(frame.thread_context))
  BY <1>1, <1>2, <1>4, <1>5, <1>6, <1>7 DEF Built
<1> QED
  BY <1>8 DEF BareCells

-----------------------------------------------------------------------------
(* The cells of an item. *)

\* Behind the cells of the header comes w.
Laid(c, header, w) ==
    /\ c \in Cells /\ Len(c) = 6 + Len(w)
    /\ c[1] = MARKER_BYTES /\ c[2] = header.message_length
    /\ c[3] = header.request_id /\ c[4] = header.status
    /\ c[5] = header.version /\ c[6] = header.variable_header_size
    /\ \A i \in 1..Len(w) : c[6 + i] = w[i]

\* The cells c of an item: the header, with its defect, and w.
Shape(item, c, w) ==
    LET header == item.frame.header
    IN  /\ c \in Cells /\ Len(c) = 6 + Len(w)
        /\ c[1] = MARKER_BYTES <=> item.defect # "prefix"
        /\ c[2] = IF item.defect = "short_length" THEN FIXED_HEADER_MESSAGE_BYTES - 1
                  ELSE header.message_length
        /\ c[3] = header.request_id /\ c[4] = header.status /\ c[5] = header.version
        /\ c[6] = CASE item.defect = "long_variable" -> Len(w) + 1
                    [] item.defect = "cut_variable" -> 1
                    [] OTHER -> header.variable_header_size
        /\ \A i \in 1..Len(w) : c[6 + i] = w[i]

\* The six fields of a header lie before what follows.
LEMMA HeaderLaid ==
    ASSUME NEW header, NEW w \in Cells, NEW h, h = HeaderCells(header),
           header.message_length \in Nat, header.request_id \in Nat, header.status \in Nat,
           header.version \in Nat, header.variable_header_size \in Nat
    PROVE  Laid(h \o w, header, w)
<1>1. /\ h \in Seq(Nat) /\ Len(h) = 6
      /\ h[1] = MARKER_BYTES /\ h[2] = header.message_length
      /\ h[3] = header.request_id /\ h[4] = header.status
      /\ h[5] = header.version /\ h[6] = header.variable_header_size
  BY DEF HeaderCells, MARKER_BYTES
<1>2. h \in Cells
  BY <1>1 DEF Cells
<1>3. PICK c : c = h \o w
  OBVIOUS
<1>4. c \in Cells /\ Len(c) = 6 + Len(w) /\ (\A i \in 1..6 : c[i] = h[i])
      /\ \A i \in 1..Len(w) : c[6 + i] = w[i]
  <2>1. /\ c \in Cells /\ Len(c) = Len(h) + Len(w)
        /\ \A i \in 1..Len(h) : c[i] = h[i]
        /\ \A i \in 1..Len(w) : c[Len(h) + i] = w[i]
    BY <1>2, <1>3, ConcatCells
  <2>2. Len(h) = 6
    BY <1>1
  <2> HIDE <1>1, <1>3
  <2> QED
    BY <2>1, <2>2
<1>5. /\ c[1] = MARKER_BYTES /\ c[2] = header.message_length
      /\ c[3] = header.request_id /\ c[4] = header.status
      /\ c[5] = header.version /\ c[6] = header.variable_header_size
  BY <1>1, <1>4
<1> QED
  BY <1>3, <1>4, <1>5 DEF Laid

\* The cells c are the header, the variable header and the body.
Whole(c, frame, variable) == c = (HeaderCells(frame.header) \o variable) \o frame.body

\* Behind the header come the variable header and the body, of lengths it tells.
LEMMA WholeCells ==
    ASSUME NEW frame, NEW variable, Built(frame, variable), NEW c, Whole(c, frame, variable),
           NEW w, Parts(w, variable, frame.body)
    PROVE  /\ w \in Cells /\ Laid(c, frame.header, w)
           /\ frame.header.message_length = FIXED_HEADER_MESSAGE_BYTES + Len(w)
           /\ frame.header.variable_header_size = Len(variable)
<1>1. PICK body \in Cells : body = frame.body
  BY DEF Built
<1>2. PICK id \in Nat, status \in Nat : frame.header = HeaderFor(id, status, variable, body)
  BY <1>1 DEF Built
<1>3. variable \in Cells /\ Len(variable) \in Nat /\ Len(body) \in Nat
  BY DEF Cells, Built
<1>4. w \in Cells /\ Len(w) = Len(variable) + Len(body)
  BY <1>1, <1>3, Concat DEF Parts
<1>5. PICK header : header = frame.header
  OBVIOUS
<1>6. /\ header.message_length = FIXED_HEADER_MESSAGE_BYTES + Len(variable) + Len(body)
      /\ header.variable_header_size = Len(variable)
      /\ header.request_id = id /\ header.status = status /\ header.version = VERSION
  BY <1>2, <1>5 DEF HeaderFor
<1>7. header.message_length = FIXED_HEADER_MESSAGE_BYTES + Len(w) /\ header.message_length \in Nat
  BY <1>3, <1>4, <1>6 DEF FIXED_HEADER_MESSAGE_BYTES
<1>8. PICK h : h = HeaderCells(header)
  OBVIOUS
<1>9. Laid(h \o w, header, w)
  BY <1>3, <1>4, <1>6, <1>7, <1>8, HeaderLaid, SMTT(30) DEF VERSION
<1>10. h \in Cells
  BY <1>3, <1>6, <1>7, <1>8 DEF HeaderCells, Cells, MARKER_BYTES, VERSION
<1>11. c = h \o w
  <2>1. c = (h \o variable) \o body /\ w = variable \o body
    BY <1>1, <1>5, <1>8 DEF Whole, Parts
  <2>2. (h \o variable) \o body = h \o (variable \o body)
    BY <1>3, <1>10, ConcatRegroup
  <2> QED
    BY <2>1, <2>2
<1> QED
  BY <1>4, <1>5, <1>6, <1>7, <1>9, <1>11

\* One cell of the header is changed.
OnlyAt(p, c, cells, n) == \A i \in 1..(6 + n) : i # p => c[i] = cells[i]

\* All cells but one stay as they were.
LEMMA OtherCells ==
    ASSUME NEW n \in Nat, NEW c, NEW cells, NEW p \in 1..6,
           OnlyAt(p, c, cells, n)
    PROVE  /\ \A i \in 1..6 : i # p => c[i] = cells[i]
           /\ \A i \in 1..n : c[6 + i] = cells[6 + i]
<1>1. ASSUME NEW i \in 1..n PROVE c[6 + i] = cells[6 + i]
  <2>1. PICK k \in 1..(6 + n) : k = 6 + i /\ k # p
    OBVIOUS
  <2> QED
    BY <2>1 DEF OnlyAt
<1> QED
  BY <1>1 DEF OnlyAt

\* The defects, in cells.
LEMMA DefectCells ==
    ASSUME NEW item \in Items, NEW w \in Cells, NEW cells, NEW header, header = item.frame.header,
           cells = IF item.bare THEN BareCells(item.frame) ELSE ToBytes(item.frame),
           Laid(cells, header, w), header.message_length = FIXED_HEADER_MESSAGE_BYTES + Len(w)
    PROVE  Shape(item, CellsOf(item), w)
<1>1. PICK n \in Nat : n = Len(w)
  BY DEF Cells
<1>2. /\ cells \in Seq(Nat) /\ Len(cells) = 6 + n
      /\ cells[1] = MARKER_BYTES /\ cells[2] = FIXED_HEADER_MESSAGE_BYTES + n
      /\ cells[2] = header.message_length
      /\ cells[3] = header.request_id /\ cells[4] = header.status
      /\ cells[5] = header.version /\ cells[6] = header.variable_header_size
      /\ \A i \in 1..n : cells[6 + i] = w[i]
  BY <1>1 DEF Laid, Cells
<1>4. item.defect \in {"none", "prefix", "short_length", "long_variable", "cut_variable"}
  BY FrameBoundsAssumption DEF Items
<1>5. CASE item.defect = "none"
  <2>1. CellsOf(item) = cells
    BY <1>5 DEF CellsOf
  <2> QED
    BY <1>1, <1>2, <1>5, <2>1 DEF Shape, Cells
<1>6. CASE item.defect = "prefix"
  <2>1. CellsOf(item) = [cells EXCEPT ![1] = @ + 1]
    BY <1>6 DEF CellsOf
  <2>2. PICK c : c = [cells EXCEPT ![1] = MARKER_BYTES + 1]
    OBVIOUS
  <2>3. /\ c \in Seq(Nat) /\ Len(c) = 6 + n /\ c[1] = MARKER_BYTES + 1
        /\ OnlyAt(1, c, cells, n)
    BY <1>2, <2>2, SMTT(30) DEF OnlyAt, MARKER_BYTES
  <2>4. CellsOf(item) = c /\ c[1] # MARKER_BYTES
    BY <1>2, <2>1, <2>2, <2>3 DEF MARKER_BYTES
  <2>5. c[2] = cells[2] /\ c[3] = cells[3] /\ c[4] = cells[4] /\ c[5] = cells[5] /\ c[6] = cells[6]
    BY <2>3, OtherCells
  <2>6. \A i \in 1..n : c[6 + i] = w[i]
    <3>1. \A i \in 1..n : c[6 + i] = cells[6 + i]
      <4>1. 1 \in 1..6 /\ OnlyAt(1, c, cells, n)
        BY <2>3
      <4> QED
        BY <4>1, OtherCells
    <3> QED
      BY <1>2, <3>1
  <2> QED
    BY <1>1, <1>2, <1>6, <2>3, <2>4, <2>5, <2>6 DEF Shape, Cells
<1>7. CASE item.defect = "short_length"
  <2>1. PICK c : c = CellsOf(item)
    OBVIOUS
  <2>2. c = [cells EXCEPT ![2] = FIXED_HEADER_MESSAGE_BYTES - 1]
    BY <1>7, <2>1 DEF CellsOf
  <2>3. /\ c \in Seq(Nat) /\ Len(c) = 6 + n /\ c[2] = FIXED_HEADER_MESSAGE_BYTES - 1
        /\ OnlyAt(2, c, cells, n)
    BY <1>2, <2>2 DEF OnlyAt, FIXED_HEADER_MESSAGE_BYTES
  <2>4. c[1] = cells[1] /\ c[3] = cells[3] /\ c[4] = cells[4] /\ c[5] = cells[5] /\ c[6] = cells[6]
    BY <2>3, OtherCells
  <2>5. \A i \in 1..n : c[6 + i] = w[i]
    <3>1. \A i \in 1..n : c[6 + i] = cells[6 + i]
      <4>1. 2 \in 1..6 /\ OnlyAt(2, c, cells, n)
        BY <2>3
      <4> QED
        BY <4>1, OtherCells
    <3> QED
      BY <1>2, <3>1
  <2> QED
    BY <1>1, <1>2, <1>7, <2>1, <2>3, <2>4, <2>5 DEF Shape, Cells
<1>8. CASE item.defect \in {"long_variable", "cut_variable"}
  <2>1. PICK c : c = CellsOf(item)
    OBVIOUS
  <2>2. PICK size \in Nat : size = IF item.defect = "cut_variable" THEN 1 ELSE n + 1
    OBVIOUS
  <2>3. cells[2] - FIXED_HEADER_MESSAGE_BYTES + 1 = n + 1
    <3>1. PICK k \in Nat : k = cells[2] /\ k = 4 + n
      BY <1>2, SMTT(30) DEF FIXED_HEADER_MESSAGE_BYTES
    <3>2. k - 4 + 1 = n + 1
      BY <3>1
    <3> QED
      BY <3>1, <3>2 DEF FIXED_HEADER_MESSAGE_BYTES
  <2>4. c = [cells EXCEPT ![6] = size]
    BY <1>8, <2>1, <2>2, <2>3 DEF CellsOf
  <2>5. /\ c \in Seq(Nat) /\ Len(c) = 6 + n /\ c[6] = size
        /\ OnlyAt(6, c, cells, n)
    BY <1>2, <2>4, SMTT(30) DEF OnlyAt
  <2>6. c[1] = cells[1] /\ c[2] = cells[2] /\ c[3] = cells[3] /\ c[4] = cells[4] /\ c[5] = cells[5]
    BY <2>5, OtherCells
  <2>7. \A i \in 1..n : c[6 + i] = w[i]
    <3>1. \A i \in 1..n : c[6 + i] = cells[6 + i]
      <4>1. 6 \in 1..6 /\ OnlyAt(6, c, cells, n)
        BY <2>5
      <4> QED
        BY <4>1, OtherCells
    <3> QED
      BY <1>2, <3>1
  <2> QED
    BY <1>1, <1>2, <1>8, <2>1, <2>2, <2>5, <2>6, <2>7 DEF Shape, Cells
<1> QED
  BY <1>4, <1>5, <1>6, <1>7, <1>8

\* The cells of every item have a shape.
LEMMA ItemCells ==
    ASSUME NEW item \in Items
    PROVE  \E variable, w : /\ Built(item.frame, variable) /\ w \in Cells
                            /\ w = variable \o item.frame.body
                            /\ Shape(item, CellsOf(item), w)
<1>1. \/ /\ ~item.bare
         /\ \/ \E r \in Requests : item.frame = Request(r[1], r[2], r[3], r[4], r[5], r[6])
            \/ \E r \in Responses : item.frame = Response(r[1], r[2], r[3], r[4], r[5])
      \/ item.bare /\ \E b \in BareFrames : item.frame = Bare(b[1], b[2], b[3])
  BY DEF Items
<1>2. PICK cells : cells = IF item.bare THEN BareCells(item.frame) ELSE ToBytes(item.frame)
  OBVIOUS
<1>3. PICK variable : /\ Built(item.frame, variable)
                      /\ cells = (HeaderCells(item.frame.header) \o variable) \o item.frame.body
  BY <1>1, <1>2, RequestBuilt, ResponseBuilt, BareBuilt
<1>4. PICK w : w = variable \o item.frame.body
  OBVIOUS
<1>5. /\ w \in Cells /\ Laid(cells, item.frame.header, w)
      /\ item.frame.header.message_length = FIXED_HEADER_MESSAGE_BYTES + Len(w)
  <2>1. PICK frame : frame = item.frame /\ Built(frame, variable)
    BY <1>3
  <2>2. Whole(cells, frame, variable) /\ Parts(w, variable, frame.body)
    BY <1>3, <1>4, <2>1 DEF Whole, Parts
  <2> QED
    BY <2>1, <2>2, WholeCells
<1>6. Shape(item, CellsOf(item), w)
  BY <1>2, <1>5, DefectCells
<1> QED
  BY <1>3, <1>4, <1>5, <1>6

-----------------------------------------------------------------------------
(* The stream of cells. *)

\* The cells w behind the header are parsed as these parts.
ParsedAs(w, context, f) ==
    ParseRest(w) = Reads([header |-> Header, thread_context |-> context,
                          features |-> f.features, action |-> f.action,
                          body |-> SubSeq(w, Header.variable_header_size + 1, Len(w))], <<>>)

\* What read_from makes of the cells behind a header it could read.
LEMMA RestParsed ==
    ASSUME NEW w, NEW context, NEW more, NEW f, NEW left, ~(Header.variable_header_size > Len(w)),
           NEW variable, variable = SubSeq(w, 1, Header.variable_header_size),
           ReadContext(variable) = Reads(context, more),
           ReadFeaturesAndAction(more) = Reads(f, left)
    PROVE  ParsedAs(w, context, f)
<1> DEFINE Frame(c, g) ==
              Reads([header |-> Header, thread_context |-> c, features |-> g.features,
                     action |-> g.action,
                     body |-> SubSeq(w, Header.variable_header_size + 1, Len(w))], <<>>)
           Behind(c, rest) == Then(ReadFeaturesAndAction(rest), LAMBDA g, l : Frame(c, g))
<1>1. ParseRest(w) = Then(ReadContext(SubSeq(w, 1, Header.variable_header_size)), Behind)
  BY DEF ParseRest
<1>2. Then(ReadContext(SubSeq(w, 1, Header.variable_header_size)), Behind) = Behind(context, more)
  <2> HIDE DEF Behind
  <2> QED
    BY ReadsFields DEF Then
<1>3. Behind(context, more) = Frame(context, f)
  <2> HIDE DEF Frame
  <2> QED
    BY ReadsFields DEF Then
<1> QED
  BY <1>1, <1>2, <1>3 DEF ParsedAs

\* The cells behind the header are the variable header and the body.
LEMMA BuiltParts ==
    ASSUME NEW frame, NEW variable, Built(frame, variable), NEW w, w = variable \o frame.body,
           NEW n \in Nat, n = Len(variable), NEW m \in Nat, m = Len(w)
    PROVE  SubSeq(w, 1, n) = variable /\ SubSeq(w, n + 1, m) = frame.body
<1>1. PICK body \in Cells : body = frame.body
  BY DEF Built
<1>2. variable \in Cells /\ w = variable \o body
  BY <1>1 DEF Built
<1>3. SubSeq(w, 1, n) = variable /\ SubSeq(w, n + 1, m) = body
  BY <1>2, CellsParts
<1> QED
  BY <1>1, <1>3

\* A frame without a defect is read as it was built.
LEMMA BuiltReads ==
    ASSUME NEW frame, NEW variable, Built(frame, variable),
           NEW w, w = variable \o frame.body, NEW n, n = Header.variable_header_size, n = Len(variable),
           Header = frame.header
    PROVE  ParseRest(w) = Reads(frame, <<>>)
<1>1. n \in Nat /\ Len(variable) \in Nat /\ Len(w) \in Nat /\ ~(n > Len(w))
  <2>1. variable \in Cells /\ frame.body \in Cells
    BY DEF Built
  <2>2. Len(w) = Len(variable) + Len(frame.body) /\ Len(variable) \in Nat /\ Len(frame.body) \in Nat
    BY <2>1, Concat DEF Cells
  <2> QED
    BY <2>2
<1>2. SubSeq(w, 1, n) = variable /\ SubSeq(w, n + 1, Len(w)) = frame.body
  BY <1>1, BuiltParts
<1>3. PICK more : ReadContext(variable) = Reads(frame.thread_context, more) /\ ReadsTail(frame, more)
  BY DEF Built
<1>4. PICK f : f = [features |-> frame.features, action |-> frame.action]
  OBVIOUS
<1>5. PICK left : ReadFeaturesAndAction(more) = Reads(f, left)
  <2>1. CASE ~IsRequest(Header) \/ more = <<>>
    BY <1>3, <1>4, <2>1 DEF ReadsTail, ReadFeaturesAndAction
  <2>2. CASE ~(~IsRequest(Header) \/ more = <<>>)
    <3>1. PICK rest, action : /\ ReadStringArray(more) = Reads(frame.features, rest)
                              /\ ReadString(rest) = Reads(action, <<>>)
                              /\ frame.action = <<action>>
      BY <1>3, <2>2 DEF ReadsTail
    <3>2. ReadFeaturesAndAction(more)
             = Then(ReadStringArray(more), LAMBDA features, tail :
                  Then(ReadString(tail), LAMBDA name, left :
                      Reads([features |-> features, action |-> <<name>>], left)))
      BY <2>2 DEF ReadFeaturesAndAction
    <3> QED
      BY <1>4, <3>1, <3>2, ReadsFields DEF Then
  <2> QED
    BY <2>1, <2>2
<1>6. ParsedAs(w, frame.thread_context, f)
  <2>1. variable = SubSeq(w, 1, Header.variable_header_size)
    BY <1>1, <1>2
  <2> QED
    BY <1>1, <1>3, <1>5, <2>1, RestParsed
<1>7. ParseRest(w) = Reads([header |-> Header, thread_context |-> frame.thread_context,
                                 features |-> f.features, action |-> f.action,
                                 body |-> SubSeq(w, Header.variable_header_size + 1, Len(w))], <<>>)
  BY <1>6 DEF ParsedAs
<1>8. frame = [header |-> frame.header, thread_context |-> frame.thread_context,
               features |-> frame.features, action |-> frame.action, body |-> frame.body]
  BY DEF Built
<1> QED
  BY <1>2, <1>4, <1>7, <1>8

\* The header read is that of an item, its defect not in the prefix.
HeaderRead(c) == /\ \A i \in 1..6 : fields[i] = c[i]
                 /\ fields[1] = MARKER_BYTES

\* Behind the header of the item nothing is read but its frame.
LEMMA FrameParsed ==
    ASSUME NEW item \in Items, NEW variable, NEW w \in Cells, NEW c,
           Built(item.frame, variable), w = variable \o item.frame.body,
           Shape(item, c, w), HeaderRead(c)
    PROVE  /\ item.defect \in {"none", "short_length", "long_variable", "cut_variable"}
           /\ item.defect = "short_length" <=> Header.message_length < FIXED_HEADER_MESSAGE_BYTES
           /\ item.defect # "short_length" => Remaining = Len(w)
           /\ item.defect = "none" => ParseRest(w) = Reads(item.frame, <<>>)
           /\ item.defect = "long_variable" => ParseRest(w).error = "data"
           /\ item.defect = "cut_variable" => ParseRest(w).error = "eof"
<1>1. PICK n \in Nat, k \in Nat, body \in Cells :
         n = Len(w) /\ k = Len(variable) /\ body = item.frame.body
  BY DEF Built, Cells
<1>2. variable \in Cells /\ variable # <<>> /\ n = k + Len(body) /\ n > 0 /\ k > 0 /\ Len(body) \in Nat
  <2>1. variable \in Cells /\ variable # <<>> /\ Len(body) \in Nat
    BY DEF Built, Cells
  <2>2. n = k + Len(body)
    BY <1>1, <2>1, Concat
  <2>3. k > 0
    BY <1>1, <2>1 DEF Cells
  <2> QED
    BY <2>1, <2>2, <2>3
<1>3. item.defect \in {"none", "short_length", "long_variable", "cut_variable"}
  <2>1. item.defect # "prefix"
    BY DEF HeaderRead, Shape
  <2> QED
    BY <2>1, FrameBoundsAssumption DEF Items
<1>4. PICK id \in Nat, status \in Nat :
         item.frame.header = [message_length |-> FIXED_HEADER_MESSAGE_BYTES + k + Len(body),
                              request_id |-> id, status |-> status, version |-> VERSION,
                              variable_header_size |-> k]
  BY <1>1 DEF Built, HeaderFor
<1>5. PICK length \in Nat : length = 4 + n /\ item.frame.header.message_length = length
  BY <1>2, <1>4 DEF FIXED_HEADER_MESSAGE_BYTES
<1>6. /\ c[2] = IF item.defect = "short_length" THEN 3 ELSE 4 + n
      /\ c[3] = item.frame.header.request_id /\ c[4] = item.frame.header.status
      /\ c[5] = item.frame.header.version
      /\ item.defect = "long_variable" => c[6] = n + 1
      /\ item.defect = "cut_variable" => c[6] = 1
      /\ item.defect \in {"none", "short_length"} => c[6] = k
  <2>1. c[2] = IF item.defect = "short_length" THEN 3 ELSE 4 + n
    BY <1>5 DEF Shape, FIXED_HEADER_MESSAGE_BYTES
  <2>2. /\ item.defect = "long_variable" => c[6] = n + 1
        /\ item.defect = "cut_variable" => c[6] = 1
        /\ item.defect \in {"none", "short_length"} => c[6] = item.frame.header.variable_header_size
    BY <1>1 DEF Shape
  <2>3. item.frame.header.variable_header_size = k
    BY <1>4
  <2> QED
    BY <2>1, <2>2, <2>3 DEF Shape
<1>7. /\ Header.message_length = IF item.defect = "short_length" THEN 3 ELSE 4 + n
      /\ item.defect = "long_variable" => Header.variable_header_size = n + 1
      /\ item.defect = "cut_variable" => Header.variable_header_size = 1
      /\ item.defect \in {"none", "short_length"} => Header.variable_header_size = k
  BY <1>6 DEF Header, HeaderRead
<1>8. item.defect = "short_length" <=> Header.message_length < FIXED_HEADER_MESSAGE_BYTES
  BY <1>7 DEF FIXED_HEADER_MESSAGE_BYTES
<1>9. item.defect # "short_length" => Remaining = n
  BY <1>7 DEF Remaining, FIXED_HEADER_MESSAGE_BYTES
<1>10. CASE item.defect = "none"
  <2>1. Header.variable_header_size = k /\ k <= n
    BY <1>2, <1>7, <1>10
  <2>2. Header = item.frame.header
    BY <1>4, <1>5, <1>6, <1>10 DEF Header, HeaderRead
  <2>3. ParseRest(w) = Reads(item.frame, <<>>)
    BY <1>1, <2>1, <2>2, BuiltReads
  <2> QED
    BY <1>1, <1>3, <1>8, <1>9, <1>10, <2>3
<1>11. CASE item.defect = "short_length"
  BY <1>3, <1>8, <1>11
<1>12. CASE item.defect = "long_variable"
  <2>1. Header.variable_header_size > Len(w)
    BY <1>1, <1>7, <1>12
  <2>2. ParseRest(w).error = "data"
    BY <2>1 DEF ParseRest, Fails
  <2> QED
    BY <1>1, <1>3, <1>8, <1>9, <1>12, <2>2
<1>13. CASE item.defect = "cut_variable"
  <2>1. Header.variable_header_size = 1 /\ ~(1 > Len(w))
    BY <1>1, <1>2, <1>7, <1>13
  <2>2. PICK cell \in Nat : SubSeq(w, 1, 1) = <<cell>>
    BY <1>1, <1>2, OneCell
  <2>3. ReadContext(<<cell>>).error = "eof"
    BY OneCellIsCut
  <2>4. ParseRest(w).error = "eof"
    BY <2>1, <2>2, <2>3 DEF ParseRest, Then
  <2> QED
    BY <1>1, <1>3, <1>8, <1>9, <1>13, <2>4
<1> QED
  BY <1>3, <1>10, <1>11, <1>12, <1>13

\* left[k] are the cells of the items after the first k.
CellsAfter(left, items) ==
    /\ left \in [0..Len(items) -> Cells]
    /\ left[Len(items)] = <<>>
    /\ \A k \in 0..(Len(items) - 1) : left[k] = CellsOf(items[k + 1]) \o left[k + 1]

\* c comes behind each of the first parts.
EachGoesOn(more, left, c, n) == \A k \in 0..n : more[k] = left[k] \o c

\* One item more.
LEMMA CellsAfterOneMore ==
    ASSUME NEW items \in Seq(Items), NEW item \in Items, NEW left, CellsAfter(left, items)
    PROVE  \E more : /\ CellsAfter(more, Append(items, item))
                     /\ EachGoesOn(more, left, CellsOf(item), Len(items))
<1>1. PICK c \in Cells : c = CellsOf(item)
  BY ItemCells DEF Shape
<1>2. PICK n \in Nat : n = Len(items)
  OBVIOUS
<1>3. PICK longer : longer = Append(items, item)
  OBVIOUS
<1>4. Len(longer) = n + 1 /\ longer[n + 1] = item /\ \A k \in 1..n : longer[k] = items[k]
  BY <1>2, <1>3
<1>5. /\ left \in [0..n -> Cells] /\ left[n] = <<>>
      /\ \A k \in 0..(n - 1) : left[k] = CellsOf(items[k + 1]) \o left[k + 1]
  BY <1>2 DEF CellsAfter
<1>6. PICK more : more = [k \in 0..(n + 1) |-> IF k = n + 1 THEN <<>> ELSE left[k] \o c]
  OBVIOUS
<1>7. /\ more[n + 1] = <<>> /\ \A k \in 0..n : more[k] = left[k] \o c
      /\ more \in [0..(n + 1) -> Cells]
  <2>1. \A k \in 0..n : left[k] \o c \in Cells
    BY <1>5, Concat
  <2>2. <<>> \in Cells
    BY <1>1, Concat
  <2> QED
    BY <1>6, <2>1, <2>2
<1>8. ASSUME NEW k \in 0..n
      PROVE  more[k] = CellsOf(longer[k + 1]) \o more[k + 1]
  <2>1. CASE k = n
    <3>1. more[n] = <<>> \o c /\ more[n + 1] = <<>>
      <4>1. n \in 0..n
        OBVIOUS
      <4>2. more[n] = left[n] \o c
        BY <1>7, <4>1
      <4> QED
        BY <1>5, <1>7, <4>2
    <3>2. <<>> \o c = c \o <<>>
      BY Concat
    <3> QED
      BY <1>1, <1>4, <2>1, <3>1, <3>2
  <2>2. CASE k # n
    <3>1. k \in 0..(n - 1) /\ k + 1 \in 1..n /\ k + 1 \in 0..n
      BY <2>2
    <3>2. PICK i \in Items : i = items[k + 1] /\ longer[k + 1] = i
      BY <1>2, <1>4, <3>1
    <3>3. PICK a \in Cells, b \in Cells : a = CellsOf(i) /\ b = left[k + 1]
      BY <1>5, <3>1, ItemCells DEF Shape
    <3>4. left[k] = a \o b /\ more[k] = left[k] \o c /\ more[k + 1] = b \o c
      BY <1>5, <1>7, <3>1, <3>2, <3>3
    <3>5. (a \o b) \o c = a \o (b \o c)
      BY ConcatRegroup
    <3> QED
      BY <3>2, <3>3, <3>4, <3>5
  <2> QED
    BY <2>1, <2>2
<1>9. CellsAfter(more, longer)
  <2>1. PICK m \in Nat : m = n + 1 /\ m = Len(longer) /\ m - 1 = n
    BY <1>4
  <2>2. more \in [0..m -> Cells] /\ more[m] = <<>>
    BY <1>7, <2>1
  <2>3. \A k \in 0..(m - 1) : more[k] = CellsOf(longer[k + 1]) \o more[k + 1]
    BY <1>8, <2>1
  <2> QED
    BY <2>1, <2>2, <2>3 DEF CellsAfter
<1> QED
  BY <1>1, <1>2, <1>3, <1>7, <1>9 DEF EachGoesOn

\* What comes before the cells of the last items.
LEMMA CellsAfterNext ==
    ASSUME NEW items \in Seq(Items), NEW left, CellsAfter(left, items), NEW d \in 0..Len(items),
           left[d] # <<>>
    PROVE  /\ d < Len(items) /\ d + 1 \in 1..Len(items) /\ items[d + 1] \in Items
           /\ left[d] = CellsOf(items[d + 1]) \o left[d + 1]
           /\ left[d + 1] \in Cells
<1>1. PICK n \in Nat : n = Len(items)
  OBVIOUS
<1>2. d \in 0..(n - 1) /\ d + 1 \in 1..n
  BY <1>1 DEF CellsAfter
<1>3. items[d + 1] \in Items
  BY <1>1, <1>2
<1> QED
  BY <1>1, <1>2, <1>3 DEF CellsAfter

-----------------------------------------------------------------------------
(* The steps. *)

\* What was read of a header, what waits, what is on its way and what was lost
\* are the cells of the items not delivered.
InStep(left, lost) ==
    /\ CellsAfter(left, sent)
    /\ lost \in Cells
    /\ open => lost = <<>>
    /\ left[Len(delivered)] = fields \o (arrived \o (inFlight \o lost))

StreamInv ==
    /\ TypeOK
    /\ fields # <<>> => fields[1] = MARKER_BYTES
    /\ outcome = "reading" => \E left, lost : InStep(left, lost)

\* At first nothing was sent and nothing read.
LEMMA InitStream == ASSUME Init PROVE StreamInv /\ Channel!Init
<1>1. TypeOK
  BY DEF Init, TypeOK
<1>2. PICK left : left = [k \in 0..0 |-> <<>>]
  OBVIOUS
<1>3. CellsAfter(left, <<>>) /\ <<>> \in Cells
  BY <1>2 DEF CellsAfter, Cells
<1>4. InStep(left, <<>>)
  <2>1. <<>> \o (<<>> \o (<<>> \o <<>>)) = <<>>
    BY <1>3, Concat
  <2> QED
    BY <1>2, <1>3, <2>1 DEF Init, InStep
<1> QED
  BY <1>1, <1>4 DEF Init, StreamInv, Channel!Init

\* A frame that is written is on its way behind the others.
LEMMA SendStep == ASSUME StreamInv, Send PROVE StreamInv' /\ Channel!Send
<1>1. PICK item \in Items : /\ sent' = Append(sent, item)
                            /\ inFlight' = inFlight \o CellsOf(item)
  BY DEF Send
<1>2. UNCHANGED <<arrived, open, fields, delivered, outcome>> /\ open
  BY DEF Send
<1>3. PICK c \in Cells : c = CellsOf(item)
  BY ItemCells DEF Shape
<1>4. inFlight \in Cells /\ arrived \in Cells /\ fields \in Cells /\ sent \in Seq(Items)
  BY DEF StreamInv, TypeOK, Cells
<1>5. inFlight' \in Cells
  BY <1>1, <1>3, <1>4, Concat
<1>6. Len(delivered) \in 0..Len(sent)
  BY DEF StreamInv, TypeOK
<1>7. TypeOK'
  <2>1. sent' \in Seq(Items) /\ Len(sent') = Len(sent) + 1
    BY <1>1, <1>4
  <2>2. Len(delivered) <= Len(sent')
    BY <1>4, <1>6, <2>1
  <2> QED
    BY <1>2, <1>5, <2>1, <2>2 DEF StreamInv, TypeOK, Cells
<1>8. ASSUME outcome = "reading" PROVE (\E left, lost : InStep(left, lost))'
  <2>1. PICK left : InStep(left, <<>>)
    BY <1>2, <1>8 DEF StreamInv, InStep
  <2>2. PICK more : /\ CellsAfter(more, sent')
                    /\ \A k \in 0..Len(sent) : more[k] = left[k] \o c
    <3>1. PICK more : CellsAfter(more, Append(sent, item)) /\ EachGoesOn(more, left, CellsOf(item), Len(sent))
      <4>1. CellsAfter(left, sent)
        BY <2>1 DEF InStep
      <4> QED
        BY <1>4, <4>1, CellsAfterOneMore
    <3>2. CellsAfter(more, sent')
      BY <1>1, <3>1
    <3> QED
      BY <1>3, <3>1, <3>2 DEF EachGoesOn
  <2>3. more[Len(delivered)] = fields \o (arrived \o (inFlight' \o <<>>))
    <3>1. inFlight \o <<>> = inFlight /\ inFlight' \o <<>> = inFlight'
      BY <1>4, <1>5, Concat
    <3>2. PICK d : d = left[Len(delivered)] /\ InThree(d, fields, arrived, inFlight)
      BY <2>1, <3>1 DEF InStep, InThree
    <3>3. inFlight' = inFlight \o c /\ more[Len(delivered)] = d \o c
      BY <1>1, <1>3, <1>6, <2>2, <3>2
    <3>4. InThree(more[Len(delivered)], fields, arrived, inFlight')
      BY <1>4, <3>2, <3>3, CellsSent
    <3> QED
      BY <3>1, <3>4 DEF InThree
  <2>4. InStep(more, <<>>)'
    BY <1>2, <2>1, <2>2, <2>3 DEF InStep
  <2> QED
    BY <2>4
<1> QED
  BY <1>1, <1>2, <1>7, <1>8 DEF StreamInv, Channel!Send

\* Cells arrive in order.
LEMMA ArriveStep ==
    ASSUME StreamInv, Arrive PROVE StreamInv' /\ UNCHANGED <<sent, delivered, outcome>>
<1>1. PICK n \in 1..Len(inFlight) : /\ arrived' = arrived \o SubSeq(inFlight, 1, n)
                                    /\ inFlight' = SubSeq(inFlight, n + 1, Len(inFlight))
                                    /\ UNCHANGED <<sent, open, fields, delivered, outcome>>
  BY DEF Arrive
<1>2. inFlight \in Cells /\ arrived \in Cells /\ fields \in Cells
  BY DEF StreamInv, TypeOK, Cells
<1>3. PICK p \in Cells, q \in Cells :
         p = SubSeq(inFlight, 1, n) /\ q = SubSeq(inFlight, n + 1, Len(inFlight)) /\ inFlight = p \o q
  <2>1. n \in 0..Len(inFlight)
    OBVIOUS
  <2> QED
    <3>1. PICK p \in Cells, q \in Cells : Split(inFlight, n, p, q)
      BY <1>2, <2>1, CellsSplit
    <3> QED
      BY <3>1 DEF Split
<1>4. arrived' = arrived \o p /\ arrived' \in Cells /\ inFlight' = q
  BY <1>1, <1>2, <1>3, Concat
<1>5. TypeOK'
  BY <1>1, <1>4 DEF StreamInv, TypeOK, Cells
<1>6. ASSUME outcome = "reading" PROVE (\E left, lost : InStep(left, lost))'
  <2>1. PICK left, lost : InStep(left, lost)
    BY <1>6 DEF StreamInv
  <2>2. left[Len(delivered)] = fields \o (arrived' \o (inFlight' \o lost))
    <3>1. lost \in Cells /\ left[Len(delivered)] = fields \o (arrived \o (inFlight \o lost))
      BY <2>1 DEF InStep
    <3>2. fields \o (arrived \o ((p \o q) \o lost)) = fields \o ((arrived \o p) \o (q \o lost))
      <4>1. PICK f \in Cells, a \in Cells, l \in Cells : f = fields /\ a = arrived /\ l = lost
        BY <1>2, <3>1
      <4>2. f \o (a \o ((p \o q) \o l)) = f \o ((a \o p) \o (q \o l))
        <5>1. PICK x \in Cells : x = q \o l
          BY Concat
        <5>2. (p \o q) \o l = p \o x
          <6>1. (p \o q) \o l = p \o (q \o l)
            BY ConcatRegroup, SMTT(30)
          <6> QED
            BY <5>1, <6>1
        <5>3. a \o (p \o x) = (a \o p) \o x
          BY ConcatRegroup, SMTT(30)
        <5> QED
          BY <5>1, <5>2, <5>3
      <4> QED
        BY <4>1, <4>2
    <3> QED
      BY <1>3, <1>4, <3>1, <3>2
  <2>3. InStep(left, lost)'
    BY <1>1, <2>1, <2>2 DEF InStep
  <2> QED
    BY <2>3
<1> QED
  BY <1>1, <1>5, <1>6 DEF StreamInv

\* A peer that closes takes nothing back.
LEMMA CloseStep ==
    ASSUME StreamInv, Close PROVE StreamInv' /\ UNCHANGED <<sent, delivered, outcome>>
<1>1. open' = FALSE /\ UNCHANGED <<sent, inFlight, arrived, fields, delivered, outcome>>
  BY DEF Close
<1>2. ASSUME outcome = "reading" PROVE (\E left, lost : InStep(left, lost))'
  <2>1. PICK left, lost : InStep(left, lost)
    BY <1>2 DEF StreamInv
  <2>2. InStep(left, lost)'
    BY <1>1, <2>1 DEF InStep
  <2> QED
    BY <2>2
<1> QED
  BY <1>1, <1>2 DEF StreamInv, TypeOK

\* A reset loses the last of the cells.
LEMMA ResetStep ==
    ASSUME StreamInv, Reset PROVE StreamInv' /\ UNCHANGED <<sent, delivered, outcome>>
<1>1. PICK n \in 0..Len(arrived) : arrived' = SubSeq(arrived, 1, n)
  BY DEF Reset
<1>2. open /\ open' = FALSE /\ inFlight' = <<>> /\ UNCHANGED <<sent, fields, delivered, outcome>>
  BY DEF Reset
<1>3. inFlight \in Cells /\ arrived \in Cells /\ fields \in Cells
  BY DEF StreamInv, TypeOK, Cells
<1>4. PICK p \in Cells, q \in Cells : p = arrived' /\ arrived = p \o q
  <2>1. PICK p \in Cells, q \in Cells : Split(arrived, n, p, q)
    BY <1>3, CellsSplit
  <2> QED
    BY <1>1, <2>1 DEF Split
<1>5. TypeOK'
  <2>1. arrived' \in Seq(Nat) /\ inFlight' \in Seq(Nat) /\ open' \in BOOLEAN
    <3>1. arrived' \in Seq(Nat) /\ <<>> \in Seq(Nat)
      BY <1>4 DEF Cells
    <3> QED
      BY <1>2, <3>1
  <2> QED
    BY <1>2, <2>1 DEF StreamInv, TypeOK
<1>6. ASSUME outcome = "reading" PROVE (\E left, lost : InStep(left, lost))'
  <2>1. PICK left : InStep(left, <<>>)
    BY <1>2, <1>6 DEF StreamInv, InStep
  <2>2. PICK lost \in Cells : lost = q \o inFlight
    BY <1>3, Concat
  <2>3. left[Len(delivered)] = fields \o (arrived' \o (inFlight' \o lost))
    <3>1. left[Len(delivered)] = fields \o (arrived \o (inFlight \o <<>>))
      BY <2>1 DEF InStep
    <3>2. fields \o ((p \o q) \o (inFlight \o <<>>)) = fields \o (p \o (<<>> \o (q \o inFlight)))
      <4>1. PICK f \in Cells, i \in Cells : f = fields /\ i = inFlight
        BY <1>3
      <4>2. f \o ((p \o q) \o (i \o <<>>)) = f \o (p \o (<<>> \o (q \o i)))
        <5>1. PICK x \in Cells : x = q \o i
          BY Concat
        <5>2. i \o <<>> = i /\ <<>> \o x = x
          BY Concat
        <5>3. (p \o q) \o i = p \o x
          BY <5>1, ConcatRegroup, SMTT(30)
        <5> QED
          BY <5>1, <5>2, <5>3
      <4> QED
        BY <4>1, <4>2
    <3> QED
      BY <1>2, <1>4, <2>2, <3>1, <3>2
  <2>4. InStep(left, lost)'
    BY <1>2, <2>1, <2>3 DEF InStep
  <2> QED
    BY <2>4
<1> QED
  BY <1>2, <1>5, <1>6 DEF StreamInv

\* The header read is that of the item whose turn it is, and behind it come the
\* cells w of its frame and those of the items after it.
Turned(item, variable, w, c, left, lost) ==
    /\ Len(delivered) < Len(sent) /\ item = sent[Len(delivered) + 1] /\ item \in Items
    /\ Built(item.frame, variable) /\ w = variable \o item.frame.body /\ w \in Cells
    /\ Shape(item, c, w) /\ HeaderRead(c)
    /\ left[Len(delivered) + 1] \in Cells /\ InStep(left, lost)
    /\ arrived \o (inFlight \o lost) = w \o left[Len(delivered) + 1]

\* While cells are left, the next are those of the item whose turn it is.
LEMMA TurnOf ==
    ASSUME StreamInv, outcome = "reading", NEW left, NEW lost, InStep(left, lost),
           left[Len(delivered)] # <<>>
    PROVE  LET item == sent[Len(delivered) + 1]
           IN  /\ Len(delivered) < Len(sent) /\ item \in Items /\ CellsOf(item) \in Cells
               /\ left[Len(delivered) + 1] \in Cells
               /\ left[Len(delivered)] = CellsOf(item) \o left[Len(delivered) + 1]
<1>1. sent \in Seq(Items) /\ Len(delivered) \in 0..Len(sent)
  BY DEF StreamInv, TypeOK
<1>2. PICK d \in 0..Len(sent) : d = Len(delivered)
  BY <1>1
<1>3. /\ d < Len(sent) /\ sent[d + 1] \in Items
      /\ left[d] = CellsOf(sent[d + 1]) \o left[d + 1] /\ left[d + 1] \in Cells
  BY <1>1, <1>2, CellsAfterNext DEF InStep
<1>4. CellsOf(sent[d + 1]) \in Cells
  BY <1>3, ItemCells DEF Shape
<1> QED
  BY <1>2, <1>3, <1>4

\* A complete header is that of the item whose turn it is.
LEMMA HeaderTurn ==
    ASSUME StreamInv, outcome = "reading", Len(fields) = 6
    PROVE  \E item, variable, w, c, left, lost : Turned(item, variable, w, c, left, lost)
<1>1. PICK left, lost : InStep(left, lost)
  BY DEF StreamInv
<1>2. PICK f \in Cells : f = fields /\ Len(f) = 6 /\ f[1] = MARKER_BYTES /\ f # <<>>
  BY DEF StreamInv, TypeOK, Cells
<1>3. PICK y \in Cells : y = arrived \o (inFlight \o lost) /\ left[Len(delivered)] = f \o y
  <2>1. arrived \in Cells /\ inFlight \in Cells /\ lost \in Cells
    BY <1>1 DEF StreamInv, TypeOK, InStep, Cells
  <2>2. arrived \o (inFlight \o lost) \in Cells
    BY <2>1, Concat
  <2> QED
    BY <1>1, <1>2, <2>2 DEF InStep
<1>4. left[Len(delivered)] # <<>>
  BY <1>2, <1>3, FirstCell
<1>5. PICK item \in Items, c \in Cells, l \in Cells :
         /\ Len(delivered) < Len(sent) /\ item = sent[Len(delivered) + 1] /\ c = CellsOf(item)
         /\ l = left[Len(delivered) + 1] /\ left[Len(delivered)] = c \o l
  BY <1>1, <1>4, TurnOf
<1>6. PICK variable, w : /\ Built(item.frame, variable) /\ w \in Cells
                         /\ w = variable \o item.frame.body /\ Shape(item, c, w)
  BY <1>5, ItemCells
<1>7. PICK n \in Nat : Ends(c, w, n)
  <2>1. PICK n \in Nat : n = Len(w)
    BY <1>6 DEF Cells
  <2>2. Len(c) = 6 + Len(w) /\ \A i \in 1..Len(w) : c[6 + i] = w[i]
    BY <1>6 DEF Shape
  <2> QED
    BY <2>1, <2>2 DEF Ends
<1>8. (\A i \in 1..6 : f[i] = c[i]) /\ y = w \o l
  <2>1. PICK s : Parts(s, f, y) /\ Parts(s, c, l)
    BY <1>3, <1>5 DEF Parts
  <2>2. (\A i \in 1..6 : f[i] = c[i]) /\ Parts(y, w, l)
    <3>1. Len(f) = 6 /\ w \in Cells
      BY <1>2, <1>6
    <3> QED
      BY <1>7, <2>1, <3>1, HeadCells
  <2> QED
    BY <2>2 DEF Parts
<1>9. HeaderRead(c)
  BY <1>2, <1>8 DEF HeaderRead
<1>10. Turned(item, variable, w, c, left, lost)
  BY <1>1, <1>3, <1>5, <1>6, <1>8, <1>9 DEF Turned
<1> QED
  BY <1>10

\* A field is read, or the prefix is found wrong.
LEMMA ReadFieldStep ==
    ASSUME StreamInv, ReadField
    PROVE  StreamInv' /\ (Channel!Stumble \/ UNCHANGED <<sent, delivered, outcome>>)
<1>1. /\ outcome = "reading" /\ UNCHANGED <<sent, inFlight, open, delivered>>
      /\ Len(fields) < 6 /\ arrived # <<>> /\ arrived' = Tail(arrived)
  BY DEF ReadField, Reading
<1>2. PICK left, lost : InStep(left, lost)
  BY <1>1 DEF StreamInv
<1>3. inFlight \in Cells /\ arrived \in Cells /\ fields \in Cells /\ lost \in Cells
  BY <1>2 DEF StreamInv, TypeOK, Cells, InStep
<1>4. PICK x \in Cells : x = inFlight \o lost
  BY <1>3, Concat
<1>5. /\ left[Len(delivered)] = fields \o (arrived \o x)
      /\ Append(fields, Head(arrived)) \in Cells /\ Tail(arrived) \in Cells
      /\ Append(fields, Head(arrived)) \o (Tail(arrived) \o x) = fields \o (arrived \o x)
  <2>1. left[Len(delivered)] = fields \o (arrived \o x)
    BY <1>2, <1>4 DEF InStep
  <2>2. PICK f \in Cells, a \in Cells : f = fields /\ a = arrived /\ a # <<>>
    BY <1>1, <1>3
  <2>3. PICK s : s = f \o (a \o x) /\ InThree(s, f, a, x)
    BY DEF InThree
  <2>4. /\ Append(f, Head(a)) \in Cells /\ Tail(a) \in Cells
        /\ InThree(s, Append(f, Head(a)), Tail(a), x)
    BY <2>2, <2>3, CellMoves
  <2> QED
    BY <2>1, <2>2, <2>3, <2>4 DEF InThree
<1>6. CASE fields = <<>> /\ Head(arrived) # MARKER_BYTES
  <2>1. outcome' = "error" /\ fields' = fields
    BY <1>6 DEF ReadField
  <2>2. PICK a \in Cells : a = arrived /\ a # <<>> /\ a[1] # MARKER_BYTES
    BY <1>1, <1>3, <1>6, FirstCell
  <2>3. left[Len(delivered)] = a \o x
    <3>1. <<>> \o (a \o x) = a \o x
      <4>1. a \o x \in Cells
        BY Concat
      <4> QED
        BY <4>1, Concat
    <3> QED
      BY <1>5, <1>6, <2>2, <3>1
  <2>4. left[Len(delivered)] # <<>> /\ left[Len(delivered)][1] # MARKER_BYTES
    BY <2>2, <2>3, FirstCell
  <2>5. PICK item \in Items, c \in Cells, l \in Cells :
           /\ Len(delivered) < Len(sent) /\ item = sent[Len(delivered) + 1] /\ c = CellsOf(item)
           /\ left[Len(delivered)] = c \o l
    BY <1>1, <1>2, <2>4, TurnOf
  <2>6. PICK w \in Cells : Shape(item, c, w)
    BY <2>5, ItemCells
  <2>7. c # <<>>
    <3>1. Len(c) = 6 + Len(w) /\ Len(w) \in Nat
      BY <2>6 DEF Shape, Cells
    <3> QED
      BY <3>1
  <2>8. c[1] # MARKER_BYTES
    <3>1. (c \o l)[1] = c[1]
      BY <2>7, FirstCell
    <3> QED
      BY <2>4, <2>5, <3>1
  <2>9. item.defect = "prefix"
    BY <2>6, <2>8 DEF Shape
  <2>10. Channel!Stumble
    BY <1>1, <2>1, <2>5, <2>9 DEF Channel!Stumble, Channel!Turn, Outcome
  <2>11. StreamInv'
    <3>1. arrived' \in Seq(Nat)
      BY <1>1, <1>5 DEF Cells
    <3> QED
      BY <1>1, <1>6, <2>1, <3>1 DEF StreamInv, TypeOK
  <2> QED
    BY <2>10, <2>11
<1>7. CASE ~(fields = <<>> /\ Head(arrived) # MARKER_BYTES)
  <2>1. outcome' = outcome /\ fields' = Append(fields, Head(arrived))
    BY <1>7 DEF ReadField
  <2>2. InStep(left, lost)'
    BY <1>1, <1>2, <1>4, <1>5, <2>1 DEF InStep
  <2>3. TypeOK'
    <3>1. Len(fields') = Len(fields) + 1 /\ Len(fields) \in Nat
      BY <1>3, <2>1 DEF Cells
    <3>2. fields' \in Seq(Nat) /\ arrived' \in Seq(Nat) /\ Len(fields') <= 6
      BY <1>1, <1>5, <2>1, <3>1 DEF Cells
    <3> QED
      BY <1>1, <2>1, <3>2 DEF StreamInv, TypeOK
  <2>4. fields'[1] = MARKER_BYTES
    <3>1. CASE fields = <<>>
      BY <1>7, <2>1, <3>1
    <3>2. CASE fields # <<>>
      <4>1. Append(fields, Head(arrived))[1] = fields[1]
        BY <1>3, <3>2 DEF Cells
      <4> QED
        BY <2>1, <3>2, <4>1 DEF StreamInv
    <3> QED
      BY <3>1, <3>2
  <2> QED
    BY <1>1, <2>1, <2>2, <2>3, <2>4 DEF StreamInv
<1> QED
  BY <1>6, <1>7

\* Only a length too short for its header panics.
LEMMA UnderflowStep ==
    ASSUME StreamInv, LengthUnderflows PROVE StreamInv' /\ Channel!Stumble
<1>1. /\ outcome = "reading" /\ outcome' = "panicked" /\ Len(fields) = 6
      /\ Header.message_length < FIXED_HEADER_MESSAGE_BYTES
      /\ UNCHANGED <<sent, inFlight, open, arrived, fields, delivered>>
  BY DEF LengthUnderflows, Reading
<1>2. PICK item, variable, w, c, left, lost : Turned(item, variable, w, c, left, lost)
  BY <1>1, HeaderTurn
<1>3. item.defect = "short_length"
  BY <1>1, <1>2, FrameParsed DEF Turned
<1>4. Channel!Stumble
  BY <1>1, <1>2, <1>3 DEF Turned, Channel!Stumble, Channel!Turn, Outcome
<1>5. StreamInv'
  BY <1>1 DEF StreamInv, TypeOK
<1> QED
  BY <1>4, <1>5

\* The rest of a frame is read: the frame sent, or its defect found.
LEMMA ReadRestStep ==
    ASSUME StreamInv, ReadRest PROVE StreamInv' /\ (Channel!Take \/ Channel!Stumble)
<1>1. /\ outcome = "reading" /\ UNCHANGED <<sent, inFlight, open>>
      /\ Len(fields) = 6 /\ Header.message_length >= FIXED_HEADER_MESSAGE_BYTES
      /\ Len(arrived) >= Remaining
      /\ arrived' = SubSeq(arrived, Remaining + 1, Len(arrived)) /\ fields' = <<>>
  BY DEF ReadRest, Reading
<1>2. LET parsed == ParseRest(SubSeq(arrived, 1, Remaining))
      IN  IF parsed.error = "none"
          THEN delivered' = Append(delivered, parsed.value) /\ UNCHANGED outcome
          ELSE outcome' = OutcomeOf(parsed.error) /\ UNCHANGED delivered
  BY DEF ReadRest
<1>3. PICK item, variable, w, c, left, lost : Turned(item, variable, w, c, left, lost)
  BY <1>1, HeaderTurn
<1>4. /\ item.defect \in {"none", "long_variable", "cut_variable"}
      /\ Remaining = Len(w)
      /\ item.defect = "none" => ParseRest(w) = Reads(item.frame, <<>>)
      /\ item.defect = "long_variable" => ParseRest(w).error = "data"
      /\ item.defect = "cut_variable" => ParseRest(w).error = "eof"
  <2>1. ~(Header.message_length < FIXED_HEADER_MESSAGE_BYTES)
    <3>1. Header.message_length \in Nat
      <4>1. PICK n \in Nat : fields \in Seq(Nat) /\ Len(fields) = n /\ n >= 2
        BY <1>1 DEF StreamInv, TypeOK
      <4>2. fields[2] \in Nat
        BY <4>1
      <4> QED
        BY <4>2 DEF Header
    <3> QED
      BY <1>1, <3>1 DEF FIXED_HEADER_MESSAGE_BYTES
  <2> QED
    BY <1>3, <2>1, FrameParsed DEF Turned
<1>5. PICK n \in Nat, l \in Cells : n = Remaining /\ n = Len(w) /\ l = left[Len(delivered) + 1]
  BY <1>3, <1>4, SMTT(30) DEF Turned, Cells
<1>6. inFlight \in Cells /\ arrived \in Cells /\ lost \in Cells /\ w \in Cells
  BY <1>3 DEF StreamInv, TypeOK, Cells, InStep, Turned
<1>7. /\ SubSeq(arrived, 1, n) = w
      /\ arrived' \in Cells
      /\ arrived' \o (inFlight \o lost) = l
  <2>1. PICK p \in Cells, q \in Cells :
           /\ p = SubSeq(arrived, 1, n) /\ q = SubSeq(arrived, n + 1, Len(arrived))
           /\ Len(p) = n /\ p \o q = arrived
    <3>1. n \in 0..Len(arrived)
      BY <1>1, <1>5, <1>6 DEF Cells
    <3> QED
      <4>1. PICK p \in Cells, q \in Cells : Split(arrived, n, p, q)
        BY <1>6, <3>1, CellsSplit
      <4> QED
        BY <4>1 DEF Split
  <2>2. PICK s \in Cells, a \in Cells, x \in Cells : s = a \o x /\ a = arrived /\ x = inFlight \o lost
    BY <1>6, Concat
  <2>3. Parts(s, a, x) /\ Parts(s, w, l) /\ Parts(a, p, q)
    BY <1>3, <1>5, <2>1, <2>2 DEF Turned, Parts
  <2>4. w \in Cells /\ Len(p) = Len(w)
    BY <1>5, <1>6, <2>1
  <2>5. p = w /\ Parts(l, q, x)
    BY <2>3, <2>4, FrontCells
  <2> QED
    BY <1>1, <1>5, <2>1, <2>2, <2>5 DEF Parts
<1>8. CASE item.defect = "none"
  <2>1. delivered' = Append(delivered, item.frame) /\ outcome' = outcome
    <3>1. ParseRest(SubSeq(arrived, 1, Remaining)) = Reads(item.frame, <<>>)
      BY <1>4, <1>5, <1>7, <1>8
    <3> QED
      BY <1>2, <3>1, ReadsFields
  <2>2. Channel!Take
    BY <1>1, <1>3, <1>8, <2>1 DEF Turned, Channel!Take, Channel!Turn
  <2>3. Len(delivered') = Len(delivered) + 1 /\ Len(delivered) \in Nat
        /\ delivered' \in Seq({i.frame : i \in Items})
    <3>1. delivered \in Seq({i.frame : i \in Items}) /\ item.frame \in {i.frame : i \in Items}
      BY <1>3 DEF StreamInv, TypeOK, Turned
    <3> QED
      BY <2>1, <3>1
  <2>4. TypeOK'
    <3>1. Len(delivered') <= Len(sent')
      <4>1. Len(sent) \in Nat /\ Len(delivered) < Len(sent)
        BY <1>3 DEF StreamInv, TypeOK, Turned
      <4> QED
        BY <1>1, <2>3, <4>1
    <3>2. arrived' \in Seq(Nat) /\ fields' \in Seq(Nat) /\ Len(fields') <= 6
      BY <1>1, <1>7 DEF Cells
    <3> QED
      BY <1>1, <2>1, <2>3, <3>1, <3>2 DEF StreamInv, TypeOK
  <2>5. InStep(left, lost)'
    <3>1. PICK y \in Cells : y = arrived' \o (inFlight' \o lost) /\ y = l
      BY <1>1, <1>7
    <3>2. <<>> \o y = y
      BY Concat
    <3>3. left[Len(delivered')] = fields' \o (arrived' \o (inFlight' \o lost))
      BY <1>1, <1>5, <2>3, <3>1, <3>2
    <3> QED
      BY <1>1, <1>3, <3>3 DEF Turned, InStep
  <2> QED
    BY <1>1, <2>2, <2>4, <2>5 DEF StreamInv
<1>9. CASE item.defect # "none"
  <2>1. outcome' = Outcome(item.defect) /\ delivered' = delivered
    BY <1>2, <1>4, <1>5, <1>7, <1>9 DEF OutcomeOf, Outcome
  <2>2. Channel!Stumble
    BY <1>1, <1>3, <1>9, <2>1 DEF Turned, Channel!Stumble, Channel!Turn
  <2>3. outcome' \in {"error", "closed"}
    BY <1>4, <1>9, <2>1 DEF Outcome
  <2>4. StreamInv'
    <3>1. arrived' \in Seq(Nat) /\ fields' \in Seq(Nat) /\ Len(fields') <= 6
      BY <1>1, <1>7 DEF Cells
    <3> QED
      BY <1>1, <2>1, <2>3, <3>1 DEF StreamInv, TypeOK
  <2> QED
    BY <2>2, <2>4
<1> QED
  BY <1>8, <1>9

\* Reading ends with the stream.
LEMMA EndStep ==
    ASSUME StreamInv, ReadEnds PROVE StreamInv' /\ Channel!End
<1>1. /\ outcome = "reading" /\ outcome' \in {"closed", "error"}
      /\ UNCHANGED <<sent, inFlight, open, arrived, fields, delivered>>
  BY DEF ReadEnds, Reading
<1> QED
  BY <1>1 DEF StreamInv, TypeOK, Channel!End

\* When nothing happens nothing changes.
LEMMA StutterStep ==
    ASSUME StreamInv, UNCHANGED vars PROVE StreamInv' /\ UNCHANGED <<sent, delivered, outcome>>
<1>1. UNCHANGED <<sent, inFlight, arrived, open, fields, delivered, outcome>>
  BY DEF vars
<1>2. TypeOK' /\ (fields # <<>> => fields[1] = MARKER_BYTES)'
  BY <1>1 DEF StreamInv, TypeOK
<1>3. ASSUME outcome = "reading" PROVE (\E left, lost : InStep(left, lost))'
  <2>1. PICK left, lost : InStep(left, lost)
    BY <1>3 DEF StreamInv
  <2>2. InStep(left, lost)'
    BY <1>1, <2>1 DEF InStep
  <2> QED
    BY <2>2
<1> QED
  BY <1>1, <1>2, <1>3 DEF StreamInv

\* Every step keeps the invariant and is a step of the channel.
LEMMA StreamStep ==
    ASSUME StreamInv, [Next]_vars
    PROVE  StreamInv' /\ [Channel!Next]_<<sent, delivered, outcome>>
<1>1. CASE Send
  BY <1>1, SendStep DEF Channel!Next
<1>2. CASE Arrive
  BY <1>2, ArriveStep
<1>3. CASE Close
  BY <1>3, CloseStep
<1>4. CASE Reset
  BY <1>4, ResetStep
<1>5. CASE ReadField
  BY <1>5, ReadFieldStep DEF Channel!Next
<1>6. CASE LengthUnderflows
  BY <1>6, UnderflowStep DEF Channel!Next
<1>7. CASE ReadRest
  BY <1>7, ReadRestStep DEF Channel!Next
<1>8. CASE ReadEnds
  BY <1>8, EndStep DEF Channel!Next
<1>9. CASE UNCHANGED vars
  BY <1>9, StutterStep
<1> QED
  BY <1>1, <1>2, <1>3, <1>4, <1>5, <1>6, <1>7, <1>8, <1>9 DEF Next, ReadStep

\* The reader's state keeps its type, and no more frames are delivered than
\* were sent.
THEOREM StreamTyped == Spec => []TypeOK
<1>1. Init => StreamInv
  BY InitStream
<1>2. StreamInv /\ [Next]_vars => StreamInv'
  BY StreamStep
<1>3. StreamInv => TypeOK
  BY DEF StreamInv
<1> QED
  BY <1>1, <1>2, <1>3, PTL DEF Spec

\* The frames that read_from returns are those that were sent, whole and in
\* order, and a malformed one ends the reading in the way its defect says,
\* however the stream is cut into pieces and wherever it breaks off.
THEOREM FramesSurvive == Spec => ImplementsFrameChannel
<1>1. Init => StreamInv /\ Channel!Init
  BY InitStream
<1>2. StreamInv /\ [Next]_vars => StreamInv' /\ [Channel!Next]_<<sent, delivered, outcome>>
  BY StreamStep
<1> QED
  BY <1>1, <1>2, PTL DEF Spec, ImplementsFrameChannel, Channel!Spec

=============================================================================
