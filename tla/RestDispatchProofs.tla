------------------------- MODULE RestDispatchProofs -------------------------
(***************************************************************************)
(* Theorems about RestDispatch: for all routes and requests, a body with   *)
(* all its cells and known ordinals is decoded as it was sent and no other *)
(* is, the first route that stands for the path answers, and the peer      *)
(* reads back the response.                                                *)
(***************************************************************************)
EXTENDS RestDispatch, StreamCodecProofs

-----------------------------------------------------------------------------
(* The fields of a request. *)

\* A known ordinal is read back, whatever follows, and one that is not is refused.
LEMMA OrdinalReads ==
    ASSUME NEW last \in Nat, NEW n \in Nat, NEW rest \in Cells
    PROVE  /\ n <= last => ReadOrdinal(last, <<n>> \o rest) = Reads(n, rest)
           /\ n > last => ReadOrdinal(last, <<n>> \o rest) = Fails("data")
<1>1. ReadCell(<<n>> \o rest) = Reads(n, rest)
  BY CellReads
<1> QED
  BY <1>1, ReadsFields DEF ReadOrdinal, Then

IsOptional(media_type) == media_type \in Seq(Strings) /\ Len(media_type) <= 1

NameOf(input) == Then(ReadString(input), LAMBDA media_type, left : Reads(<<media_type>>, left))

\* The flag says whether a name follows.
LEMMA NameFollows ==
    ASSUME NEW input, NEW rest, NEW some \in BOOLEAN, ReadBool(input) = Reads(some, rest)
    PROVE  ReadMediaType(input) = IF some THEN NameOf(rest) ELSE Reads(<<>>, rest)
<1> DEFINE next(flag, left) == IF ~flag THEN Reads(<<>>, left) ELSE NameOf(left)
<1>1. ReadMediaType(input) = Then(Reads(some, rest), next)
  BY Zenon DEF ReadMediaType, NameOf
<1>2. next(some, rest) = IF some THEN NameOf(rest) ELSE Reads(<<>>, rest)
  BY Zenon
<1>3. Then(Reads(some, rest), next) = next(some, rest)
  <2> HIDE DEF next
  <2> QED
    BY ReadsFields DEF Then
<1> QED
  BY <1>1, <1>2, <1>3, Zenon

\* An optional media type is read back, whatever follows.
LEMMA MediaTypeReads ==
    ASSUME NEW media_type, IsOptional(media_type), NEW rest \in Cells
    PROVE  /\ ReadMediaType(WriteMediaType(media_type) \o rest) = Reads(media_type, rest)
           /\ WriteMediaType(media_type) \in Cells
<1>1. PICK some \in BOOLEAN : some = (media_type # <<>>)
  OBVIOUS
<1>2. PICK flag \in Cells : flag = WriteBool(some)
  BY BoolReads
<1>3. ASSUME NEW x \in Cells
      PROVE  ReadMediaType(flag \o x) = IF some THEN NameOf(x) ELSE Reads(<<>>, x)
  <2>1. ReadBool(flag \o x) = Reads(some, x)
    BY <1>2, BoolReads, Zenon
  <2> QED
    BY <2>1, NameFollows, Zenon
<1>4. CASE media_type = <<>>
  <2>1. ~some /\ WriteMediaType(media_type) = flag
    BY <1>1, <1>2, <1>4 DEF WriteMediaType, WriteBool
  <2> QED
    BY <1>3, <1>4, <2>1
<1>5. CASE media_type # <<>>
  <2>1. PICK name \in Strings : media_type = <<name>>
    <3>1. media_type \in Seq(Strings) /\ Len(media_type) = 1
      <4>1. PICK n \in Nat : n = Len(media_type) /\ n <= 1 /\ n # 0
        BY <1>5 DEF IsOptional
      <4> QED
        BY <4>1 DEF IsOptional
    <3>2. media_type[1] \in Strings /\ media_type = <<media_type[1]>>
      BY <3>1
    <3> QED
      BY <3>2
  <2>2. PICK cells \in Cells : cells = WriteString(name)
    BY StringReads
  <2>3. PICK x \in Cells, all \in Cells : x = cells \o rest /\ all = flag \o cells
    BY Concat
  <2>4. some /\ WriteMediaType(media_type) = all
    BY <1>1, <1>2, <1>5, <2>1, <2>2, <2>3 DEF WriteMediaType, WriteBool
  <2>5. all \o rest = flag \o x
    <3>1. (flag \o cells) \o rest = flag \o (cells \o rest)
      BY ConcatRegroup, ZenonT(60)
    <3> QED
      BY <2>3, <3>1, Zenon
  <2>6. ReadString(x) = Reads(name, rest)
    BY <2>2, <2>3, StringReads
  <2>7. NameOf(x) = Reads(media_type, rest)
    BY <2>1, <2>6, ReadsFields DEF NameOf, Then
  <2> QED
    BY <1>3, <2>3, <2>4, <2>5, <2>7, Zenon
<1> QED
  BY <1>4, <1>5

\* An ordinal goes on with more input.
LEMMA OrdinalGoesOn ==
    ASSUME NEW last \in Nat, NEW p \in Cells, NEW y \in Cells, NEW s \in Cells, Parts(s, p, y)
    PROVE  Further(ReadOrdinal(last, p), ReadOrdinal(last, s), y)
<1> SUFFICES ASSUME ReadOrdinal(last, p).error = "none"
             PROVE  Further(ReadOrdinal(last, p), ReadOrdinal(last, s), y)
  BY DEF Further
<1>1. ReadCell(p).error = "none"
  BY DEF ReadOrdinal, Then
<1>2. PICK n \in Nat, r \in Cells, q \in Cells :
         ReadCell(p) = Reads(n, r) /\ ReadCell(s) = Reads(n, q) /\ Parts(q, r, y)
  BY <1>1, CellGoesOn
<1>3. ReadOrdinal(last, p) = IF n <= last THEN Reads(n, r) ELSE Fails("data")
  BY <1>2, ReadsFields DEF ReadOrdinal, Then
<1>4. ReadOrdinal(last, s) = IF n <= last THEN Reads(n, q) ELSE Fails("data")
  BY <1>2, ReadsFields DEF ReadOrdinal, Then
<1>5. n <= last
  <2>1. Fails("data").error # "none"
    BY DEF Fails
  <2> QED
    BY <1>3, <2>1
<1> QED
  BY <1>2, <1>3, <1>4, <1>5 DEF Further

\* A media type goes on with more input.
LEMMA MediaTypeGoesOn ==
    ASSUME NEW p \in Cells, NEW y \in Cells, NEW s \in Cells, Parts(s, p, y)
    PROVE  Further(ReadMediaType(p), ReadMediaType(s), y)
<1> SUFFICES ASSUME ReadMediaType(p).error = "none"
             PROVE  Further(ReadMediaType(p), ReadMediaType(s), y)
  BY DEF Further
<1>1. ReadBool(p).error = "none"
  BY DEF ReadMediaType, Then
<1>2. PICK some \in BOOLEAN, r \in Cells, q \in Cells :
         ReadBool(p) = Reads(some, r) /\ ReadBool(s) = Reads(some, q) /\ Parts(q, r, y)
  BY <1>1, BoolGoesOn
<1>3. ReadMediaType(p) = (IF some THEN NameOf(r) ELSE Reads(<<>>, r))
  BY <1>2, NameFollows, Zenon
<1>4. ReadMediaType(s) = (IF some THEN NameOf(q) ELSE Reads(<<>>, q))
  BY <1>2, NameFollows, Zenon
<1>5. CASE ~some
  BY <1>2, <1>3, <1>4, <1>5 DEF Further
<1>6. CASE some
  <2>1. NameOf(r).error = "none"
    BY <1>3, <1>6
  <2>2. ReadString(r).error = "none" /\ Further(ReadString(r), ReadString(q), y)
    BY <1>2, <2>1, StringGoesOn DEF NameOf, Then
  <2>3. PICK name, t, u :
           /\ t \in Cells /\ u \in Cells
           /\ ReadString(r) = Reads(name, t) /\ ReadString(q) = Reads(name, u) /\ Parts(u, t, y)
    BY <2>2, FurtherReads
  <2>4. NameOf(r) = Reads(<<name>>, t) /\ NameOf(q) = Reads(<<name>>, u)
    BY <2>3, ReadsFields DEF NameOf, Then
  <2> QED
    BY <1>3, <1>4, <1>6, <2>3, <2>4 DEF Further
<1> QED
  BY <1>5, <1>6

-----------------------------------------------------------------------------
(* The request. *)

\* An optional media type fits.
LEMMA MediaTypeFits ==
    ASSUME NEW media_type, IsOptional(media_type)
    PROVE  Fits(Reader(ReadMediaType), WriteMediaType(media_type), media_type)
<1>1. \A rest \in Cells : ReadMediaType(WriteMediaType(media_type) \o rest) = Reads(media_type, rest) /\ WriteMediaType(media_type) \in Cells
  BY MediaTypeReads
<1>2. PICK chunk \in Cells : chunk = WriteMediaType(media_type)
  BY <1>1, NoCells
<1>3. \A x \in Cells : Reader(ReadMediaType)[x] = ReadMediaType(x)
  BY DEF Reader, Cells
<1>4. \A rest \in Cells : chunk \o rest \in Cells
  BY Concat
<1> QED
  BY <1>1, <1>2, <1>3, <1>4 DEF Fits, ReadsAs

\* A known ordinal fits, and one that is not is refused.
LEMMA OrdinalFits ==
    ASSUME NEW last \in Nat, NEW n \in Nat, NEW reader, \A x \in Cells : reader[x] = ReadOrdinal(last, x)
    PROVE  /\ <<n>> \in Cells
           /\ n <= last => Fits(reader, <<n>>, n)
           /\ n > last => \A rest \in Cells : reader[<<n>> \o rest] = Fails("data")
<1>1. <<n>> \in Cells
  BY DEF Cells
<1>2. ASSUME NEW rest \in Cells, NEW x \in Cells, x = <<n>> \o rest
      PROVE  /\ n <= last => reader[x] = Reads(n, rest)
             /\ n > last => reader[x] = Fails("data")
  BY <1>2, OrdinalReads
<1>3. n <= last => Fits(reader, <<n>>, n)
  BY <1>1, <1>2, Concat DEF Fits, ReadsAs
<1>4. n > last => \A rest \in Cells : reader[<<n>> \o rest] = Fails("data")
  BY <1>1, <1>2, Concat
<1> QED
  BY <1>1, <1>3, <1>4

-----------------------------------------------------------------------------
(* The request. *)

\* What the peer sent, as its chunks and their values.
ChunksOf(r) ==
    <<WriteTaskId(r.task), <<r.method>>, WriteString(r.uri),
      WriteString(r.path), WriteStringMap(r.params),
      WriteStringListMap(r.headers), WriteMediaType(r.media_type),
      WriteByteArray(r.content), WriteString(r.token), <<r.http_version>>>>

ValuesOf(r) ==
    <<TaskOf(r.task), r.method, r.uri, r.path, r.params, r.headers, r.media_type, r.content,
      r.token, r.http_version>>

\* The i-th chunk is an ordinal: up to the last one it fits, and then it is refused.
OrdinalIn(i, ordinal, last, r) ==
    /\ ordinal <= last => Fits(RequestReaders[i], ChunksOf(r)[i], ValuesOf(r)[i])
    /\ ordinal > last => \A rest \in Cells : RequestReaders[i][ChunksOf(r)[i] \o rest] = Fails("data")

\* Each chunk fits its reader, but for an ordinal that is not known.
LEMMA RequestFits ==
    ASSUME NEW r, IsSent(r)
    PROVE  /\ \A i \in (1..10) \ {2, 10} : Fits(RequestReaders[i], ChunksOf(r)[i], ValuesOf(r)[i])
           /\ ChunksOf(r)[2] \in Cells /\ OrdinalIn(2, r.method, 8, r)
           /\ ChunksOf(r)[10] \in Cells /\ OrdinalIn(10, r.http_version, 1, r)
<1>1. Fits(RequestReaders[1], ChunksOf(r)[1], ValuesOf(r)[1])
  BY TaskFits DEF RequestReaders, ChunksOf, ValuesOf, IsSent, IsTask
<1>2. \A i \in {3, 4, 9} : Fits(RequestReaders[i], ChunksOf(r)[i], ValuesOf(r)[i])
  BY StringFits DEF RequestReaders, ChunksOf, ValuesOf, IsSent
<1>3. Fits(RequestReaders[5], ChunksOf(r)[5], ValuesOf(r)[5])
  BY StringMapFits DEF RequestReaders, ChunksOf, ValuesOf, IsSent
<1>4. Fits(RequestReaders[6], ChunksOf(r)[6], ValuesOf(r)[6])
  BY StringListMapFits DEF RequestReaders, ChunksOf, ValuesOf, IsSent
<1>5. Fits(RequestReaders[7], ChunksOf(r)[7], ValuesOf(r)[7])
  BY MediaTypeFits DEF RequestReaders, ChunksOf, ValuesOf, IsSent, IsOptional
<1>6. Fits(RequestReaders[8], ChunksOf(r)[8], ValuesOf(r)[8])
  BY BytesFit DEF RequestReaders, ChunksOf, ValuesOf, IsSent, Cells
<1>7. ChunksOf(r)[2] \in Cells /\ OrdinalIn(2, r.method, 8, r)
  <2>1. r.method \in Nat /\ 8 \in Nat
    BY DEF IsSent
  <2>2. /\ ChunksOf(r)[2] = <<r.method>> /\ ValuesOf(r)[2] = r.method
        /\ \A x \in Cells : RequestReaders[2][x] = ReadOrdinal(8, x)
    BY DEF RequestReaders, ChunksOf, ValuesOf, Reader, Cells
  <2> QED
    BY <2>1, <2>2, OrdinalFits DEF OrdinalIn
<1>8. ChunksOf(r)[10] \in Cells /\ OrdinalIn(10, r.http_version, 1, r)
  <2>1. r.http_version \in Nat /\ 1 \in Nat
    BY DEF IsSent
  <2>2. /\ ChunksOf(r)[10] = <<r.http_version>> /\ ValuesOf(r)[10] = r.http_version
        /\ \A x \in Cells : RequestReaders[10][x] = ReadOrdinal(1, x)
    BY DEF RequestReaders, ChunksOf, ValuesOf, Reader, Cells
  <2> QED
    BY <2>1, <2>2, OrdinalFits DEF OrdinalIn
<1>9. \A i \in (1..10) \ {2, 10} : i \in {1, 3, 4, 5, 6, 7, 8, 9}
  OBVIOUS
<1>10. \A i \in (1..10) \ {2, 10} : Fits(RequestReaders[i], ChunksOf(r)[i], ValuesOf(r)[i])
  BY <1>1, <1>2, <1>3, <1>4, <1>5, <1>6, <1>9
<1> QED
  BY <1>7, <1>8, <1>10

\* The request with all its cells, as it is decoded.
Decoded(r) ==
    [method |-> r.method, uri |-> r.uri, path |-> r.path, params |-> r.params,
     headers |-> r.headers, media_type |-> r.media_type, content |-> r.content,
     token |-> r.token, http_version |-> r.http_version,
     consumed_params |-> {}, content_consumed |-> FALSE]

Known(r) == r.method <= 8 /\ r.http_version <= 1

\* There are ten fields.
LEMMA TenFields ==
    ASSUME NEW r, IsSent(r)
    PROVE  /\ Len(RequestReaders) = 10 /\ Len(ChunksOf(r)) = 10 /\ Len(ValuesOf(r)) = 10
           /\ ChunksOf(r) \in Seq(Cells)
           /\ \E S : ValuesOf(r) \in Seq(S)
           /\ EncodeRequest(r) = FlattenSeq(ChunksOf(r)) /\ EncodeRequest(r) \in Cells
<1>1. Len(RequestReaders) = 10 /\ Len(ChunksOf(r)) = 10 /\ Len(ValuesOf(r)) = 10
  BY DEF RequestReaders, ChunksOf, ValuesOf
<1>2. \A i \in 1..10 : ChunksOf(r)[i] \in Cells
  BY RequestFits DEF Fits
<1>3. PICK chunks : chunks = ChunksOf(r)
  OBVIOUS
<1>4. chunks = [i \in 1..10 |-> chunks[i]]
  BY <1>3 DEF ChunksOf
<1>5. chunks \in Seq(Cells)
  BY <1>2, <1>3, <1>4
<1>6. PICK values : values = ValuesOf(r)
  OBVIOUS
<1>7. values = [i \in 1..10 |-> values[i]]
  BY <1>6 DEF ValuesOf
<1>8. values \in Seq({values[i] : i \in 1..10})
  BY <1>7
<1>9. EncodeRequest(r) = FlattenSeq(ChunksOf(r))
  BY DEF EncodeRequest, ChunksOf
<1>10. FlattenSeq(chunks) \in Cells
  BY <1>5, NoCells, RestExists
<1> QED
  BY <1>1, <1>3, <1>5, <1>6, <1>8, <1>9, <1>10

\* With known ordinals the fields are read to the last cell.
LEMMA RequestRead ==
    ASSUME NEW r, IsSent(r), Known(r)
    PROVE  ReadFields(RequestReaders, EncodeRequest(r)) = Reads(ValuesOf(r), <<>>)
<1>1. \A i \in 1..10 : Fits(RequestReaders[i], ChunksOf(r)[i], ValuesOf(r)[i])
  BY RequestFits DEF OrdinalIn, Known
<1>2. PICK readers, chunks, values :
         readers = RequestReaders /\ chunks = ChunksOf(r) /\ values = ValuesOf(r)
  OBVIOUS
<1>3. PICK S : values \in Seq(S)
  BY <1>2, TenFields
<1>4. PICK n \in Nat, rest \in Cells : n = 10 /\ rest = <<>>
  BY NoCells
<1>5. chunks \in Seq(Cells) /\ Len(readers) = n /\ Len(chunks) = n /\ Len(values) = n
  BY <1>2, <1>4, TenFields
<1>6. FirstFieldsRead(readers, chunks, values, n)
  BY <1>1, <1>2, <1>4 DEF Fits, FirstFieldsRead
<1>7. PICK input : input = EncodeRequest(r) /\ Parts(input, FlattenSeq(chunks), rest)
  BY <1>2, <1>4, TenFields, Concat DEF Parts
<1>8. ReadFields(readers, input) = Reads(values, rest)
  BY <1>3, <1>5, <1>6, <1>7, FieldsRead
<1> QED
  BY <1>2, <1>4, <1>7, <1>8

\* With an ordinal that is not known they are refused, and so is every part of them.
LEMMA RequestRefused ==
    ASSUME NEW r, IsSent(r), ~Known(r)
    PROVE  ReadFields(RequestReaders, EncodeRequest(r)) = Fails("data")
<1>1. PICK readers, chunks, values :
         readers = RequestReaders /\ chunks = ChunksOf(r) /\ values = ValuesOf(r)
  OBVIOUS
<1>2. PICK S : values \in Seq(S)
  BY <1>1, TenFields
<1>3. PICK n \in Nat, rest \in Cells : n = 10 /\ rest = <<>>
  BY NoCells
<1>4. chunks \in Seq(Cells) /\ Len(readers) = n /\ Len(chunks) = n /\ Len(values) = n
  BY <1>1, <1>3, TenFields
<1>5. \A i \in (1..10) \ {2, 10} : ReadsAs(readers[i], chunks[i], values[i])
  BY <1>1, RequestFits DEF Fits
<1>6. r.method \in Nat /\ r.http_version \in Nat
  BY DEF IsSent
<1>7. PICK k \in 1..n :
         /\ FirstFieldsRead(readers, chunks, values, k - 1)
         /\ \A more \in Cells : readers[k][chunks[k] \o more] = Fails("data")
  <2>1. CASE r.method > 8
    <3>1. FirstFieldsRead(readers, chunks, values, 2 - 1)
      <4>1. \A i \in 1..(2 - 1) : i \in (1..10) \ {2, 10}
        OBVIOUS
      <4> QED
        BY <1>5, <4>1 DEF FirstFieldsRead
    <3>2. \A more \in Cells : readers[2][chunks[2] \o more] = Fails("data")
      BY <1>1, <1>3, <2>1, RequestFits DEF OrdinalIn
    <3>3. 2 \in 1..n
      BY <1>3
    <3> QED
      BY <3>1, <3>2, <3>3
  <2>2. CASE ~(r.method > 8)
    <3>1. r.method <= 8 /\ r.http_version > 1
      BY <1>6, <2>2 DEF Known
    <3>2. ReadsAs(readers[2], chunks[2], values[2])
      BY <1>1, <3>1, RequestFits DEF OrdinalIn, Fits
    <3>3. FirstFieldsRead(readers, chunks, values, 10 - 1)
      <4>1. \A i \in 1..(10 - 1) : i = 2 \/ i \in (1..10) \ {2, 10}
        OBVIOUS
      <4> QED
        BY <1>5, <3>2, <4>1 DEF FirstFieldsRead
    <3>4. \A more \in Cells : readers[10][chunks[10] \o more] = Fails("data")
      BY <1>1, <1>3, <3>1, RequestFits DEF OrdinalIn
    <3>5. 10 \in 1..n
      BY <1>3
    <3> QED
      BY <3>3, <3>4, <3>5
  <2> QED
    BY <2>1, <2>2
<1>8. PICK input : input = EncodeRequest(r) /\ Parts(input, FlattenSeq(chunks), rest)
  BY <1>1, <1>3, TenFields, Concat DEF Parts
<1>9. ReadFields(readers, input) = Fails("data")
  BY <1>2, <1>4, <1>7, <1>8, FieldRefused
<1> QED
  BY <1>1, <1>8, <1>9

\* Each reader goes on with more input.
LEMMA RequestGoesOn == \A i \in 1..10 : GoesOn(RequestReaders[i])
<1>1. GoesOn(RequestReaders[1])
  BY TaskIdGoesOn DEF GoesOn, RequestReaders, Reader, Cells
<1>2. GoesOn(RequestReaders[2])
  <2>1. 8 \in Nat /\ \A x \in Cells : RequestReaders[2][x] = ReadOrdinal(8, x)
    BY DEF RequestReaders, Reader, Cells
  <2> QED
    BY <2>1, OrdinalGoesOn DEF GoesOn
<1>3. \A i \in {3, 4, 9} : GoesOn(RequestReaders[i])
  BY StringGoesOnAsItem DEF RequestReaders
<1>4. GoesOn(RequestReaders[5])
  BY MapGoesOn, StringGoesOnAsItem DEF GoesOn, RequestReaders, Reader, ReadStringMap, Cells
<1>5. GoesOn(RequestReaders[6])
  BY MapGoesOn, StringArrayGoesOn DEF GoesOn, RequestReaders, Reader, ReadStringListMap, Cells
<1>6. GoesOn(RequestReaders[7])
  BY MediaTypeGoesOn DEF GoesOn, RequestReaders, Reader, Cells
<1>7. GoesOn(RequestReaders[8])
  BY ByteArrayGoesOn DEF GoesOn, RequestReaders, Reader, Cells
<1>8. GoesOn(RequestReaders[10])
  <2>1. 1 \in Nat /\ \A x \in Cells : RequestReaders[10][x] = ReadOrdinal(1, x)
    BY DEF RequestReaders, Reader, Cells
  <2> QED
    BY <2>1, OrdinalGoesOn DEF GoesOn
<1>9. \A i \in 1..10 : i \in {1, 2, 3, 4, 5, 6, 7, 8, 9, 10}
  OBVIOUS
<1> QED
  BY <1>1, <1>2, <1>3, <1>4, <1>5, <1>6, <1>7, <1>8, <1>9

\* A body is decoded if it has all its cells and known ordinals, and refused otherwise.
LEMMA DecodedOrRefused ==
    ASSUME NEW r, IsSent(r), NEW b \in Cells, NEW y \in Cells, Parts(EncodeRequest(r), b, y)
    PROVE  IF y = <<>> /\ Known(r) THEN DecodeRequest(b) = Reads(Decoded(r), <<>>)
                                   ELSE DecodeRequest(b).error # "none"
<1>1. CASE y = <<>> /\ Known(r)
  <2>1. b = EncodeRequest(r)
    BY <1>1, Concat DEF Parts
  <2>2. ReadFields(RequestReaders, b) = Reads(ValuesOf(r), <<>>)
    BY <1>1, <2>1, RequestRead
  <2>3. PICK f, rest : f = ValuesOf(r) /\ rest = <<>>
    OBVIOUS
  <2> DEFINE next(g, left) ==
               Reads([method |-> g[2], uri |-> g[3], path |-> g[4], params |-> g[5], headers |-> g[6],
                      media_type |-> g[7], content |-> g[8], token |-> g[9], http_version |-> g[10],
                      consumed_params |-> {}, content_consumed |-> FALSE], left)
  <2>4. DecodeRequest(b) = Then(Reads(f, rest), next)
    BY <2>2, <2>3, Zenon DEF DecodeRequest
  <2>5. next(f, rest) = Reads(Decoded(r), <<>>)
    <3>1. /\ f[2] = r.method /\ f[3] = r.uri /\ f[4] = r.path /\ f[5] = r.params
          /\ f[6] = r.headers /\ f[7] = r.media_type /\ f[8] = r.content /\ f[9] = r.token
          /\ f[10] = r.http_version
      BY <2>3 DEF ValuesOf
    <3> QED
      BY <2>3, <3>1, Zenon DEF Decoded
  <2>6. Then(Reads(f, rest), next) = next(f, rest)
    <3> HIDE DEF next
    <3> QED
      BY ReadsFields DEF Then
  <2> QED
    BY <1>1, <2>4, <2>5, <2>6, Zenon
<1>2. CASE ~(y = <<>> /\ Known(r))
  <2>1. PICK s, a, f :
           /\ s \in Cells /\ s = EncodeRequest(r)
           /\ a = ReadFields(RequestReaders, b) /\ f = ReadFields(RequestReaders, s)
    BY TenFields
  <2>2. Further(a, f, y)
    <3>1. PICK n \in Nat, readers \in {RequestReaders} : n = 10 /\ Len(readers) = n
      BY TenFields
    <3>2. \A i \in 1..n : GoesOn(readers[i])
      BY <3>1, RequestGoesOn
    <3> QED
      BY <2>1, <3>1, <3>2, FieldsGoOn
  <2>3. a.error # "none"
    <3>1. CASE Known(r)
      <4>1. f = Reads(ValuesOf(r), <<>>) /\ y # <<>>
        BY <1>2, <2>1, <3>1, RequestRead
      <4> QED
        BY <2>2, <4>1, CutRefused
    <3>2. CASE ~Known(r)
      <4>1. f.error # "none"
        BY <2>1, <3>2, RequestRefused DEF Fails
      <4> QED
        BY <2>2, <4>1, ReadsFields DEF Further
    <3> QED
      BY <3>1, <3>2
  <2>4. DecodeRequest(b).error # "none"
    BY <2>1, <2>3 DEF DecodeRequest, Then
  <2> QED
    BY <1>2, <2>4
<1> QED
  BY <1>1, <1>2

-----------------------------------------------------------------------------
(* The response. *)

\* Statuses, and the text of the answer without a route, are what they are made of.
LEMMA TextsAre ==
  /\ {STATUS_OK, STATUS_ACCEPTED, STATUS_NOT_FOUND, STATUS_INTERNAL_SERVER_ERROR} \subseteq Nat
  /\ TEXT_CONTENT_TYPE \in Strings
  /\ NO_HANDLER \in Cells
BY DEF STATUS_OK, STATUS_ACCEPTED, STATUS_NOT_FOUND, STATUS_INTERNAL_SERVER_ERROR,
       TEXT_CONTENT_TYPE, NO_HANDLER, Strings, IsUtf8, LeadBytes, TrailBytes, Cells

Answer(status, content_type, content, headers, used, read) ==
    [status |-> status, content_type |-> content_type, content |-> content,
     headers |-> headers, consumed_params |-> used, content_consumed |-> read]

\* A response is its fields.
LEMMA ResponseIs ==
  ASSUME NEW r, IsResponse(r)
  PROVE  /\ r.status \in Nat /\ r.content_type \in Strings /\ r.content \in Cells
         /\ IsMap(r.headers, Seq(Strings)) /\ r.consumed_params \in StringSets
         /\ r.content_consumed \in BOOLEAN
         /\ r = Answer(r.status, r.content_type, r.content, r.headers, r.consumed_params,
                       r.content_consumed)
<1>1. r = Answer(r.status, r.content_type, r.content, r.headers, r.consumed_params,
                 r.content_consumed)
  <2>1. r = [field \in {"status", "content_type", "content", "headers", "consumed_params",
                        "content_consumed"} |-> r[field]]
    BY DEF IsResponse
  <2> QED
    BY <2>1 DEF Answer
<1> QED
  BY <1>1, TextsAre DEF IsResponse, Cells

\* The peer reads back every response to its last cell.
LEMMA ResponseRead ==
    ASSUME NEW status \in Nat, NEW content_type \in Strings, NEW content \in Cells,
           NEW headers, IsMap(headers, Seq(Strings)),
           NEW used \in StringSets, NEW read \in BOOLEAN
    PROVE  PeerReads(EncodeResponse(Answer(status, content_type, content, headers, used, read)))
              = Reads(Answer(status, content_type, content, headers, used, read), <<>>)
<1> DEFINE chunks == <<<<status>>, WriteString(content_type), WriteByteArray(content),
                       WriteStringListMap(headers), WriteStringSet(used), WriteBool(read)>>
           values == <<status, content_type, content, headers, used, read>>
           answer == Answer(status, content_type, content, headers, used, read)
<1>3. Fits(ResponseReaders[1], chunks[1], values[1])
  BY CellFits DEF ResponseReaders
<1>4. Fits(ResponseReaders[2], chunks[2], values[2])
  BY StringFits DEF ResponseReaders
<1>5. Fits(ResponseReaders[3], chunks[3], values[3])
  BY BytesFit DEF ResponseReaders
<1>6. Fits(ResponseReaders[4], chunks[4], values[4])
  BY StringListMapFits DEF ResponseReaders
<1>7. Fits(ResponseReaders[5], chunks[5], values[5])
  BY StringSetFits DEF ResponseReaders
<1>8. Fits(ResponseReaders[6], chunks[6], values[6])
  BY BoolFits DEF ResponseReaders
<1>9. Len(ResponseReaders) = 6 /\ Len(chunks) = 6 /\ Len(values) = 6
  BY DEF ResponseReaders
<1>10. chunks = [i \in 1..6 |-> chunks[i]] /\ values = [i \in 1..6 |-> values[i]]
  OBVIOUS
<1>11. EncodeResponse(answer) = FlattenSeq(chunks)
  BY DEF EncodeResponse, Answer
<1>12. \A f : f = values => /\ f[1] = status /\ f[2] = content_type /\ f[3] = content
                            /\ f[4] = headers /\ f[5] = used /\ f[6] = read
  OBVIOUS
<1> HIDE DEF chunks, values
<1>13. \A i \in 1..6 : Fits(ResponseReaders[i], chunks[i], values[i])
  <2>1. \A i \in 1..6 : i \in {1, 2, 3, 4, 5, 6}
    OBVIOUS
  <2> QED
    BY <1>3, <1>4, <1>5, <1>6, <1>7, <1>8, <2>1
<1>14. chunks \in Seq(Cells) /\ values \in Seq({values[i] : i \in 1..6})
  BY <1>10, <1>13 DEF Fits
<1>15. PICK S : values \in Seq(S)
  BY <1>14
<1>16. PICK n \in Nat, rest \in Cells, readers \in {ResponseReaders} : n = 6 /\ rest = <<>>
  BY NoCells
<1>17. /\ Len(readers) = n /\ Len(chunks) = n /\ Len(values) = n
       /\ FirstFieldsRead(readers, chunks, values, n)
  BY <1>9, <1>13, <1>16 DEF FirstFieldsRead, Fits
<1>18. PICK input : input = EncodeResponse(answer) /\ Parts(input, FlattenSeq(chunks), rest)
  BY <1>11, <1>14, <1>16, RestExists, Concat DEF Parts
<1>19. ReadFields(readers, input) = Reads(values, rest)
  BY <1>14, <1>15, <1>17, <1>18, FieldsRead
<1> DEFINE next(f, left) ==
             Reads([status |-> f[1], content_type |-> f[2], content |-> f[3], headers |-> f[4],
                    consumed_params |-> f[5], content_consumed |-> f[6]], left)
<1>20. PeerReads(input) = Then(Reads(values, rest), next)
  BY <1>16, <1>19, Zenon DEF PeerReads
<1>21. next(values, rest) = Reads(answer, <<>>)
  BY <1>12, <1>16, Zenon DEF Answer
<1>22. Then(Reads(values, rest), next) = next(values, rest)
  <2> HIDE DEF next
  <2> QED
    BY ReadsFields DEF Then
<1> QED
  BY <1>18, <1>20, <1>21, <1>22, Zenon

-----------------------------------------------------------------------------
(* Paths. *)

\* e starts with x and goes on by the steps up to n.
GoesBy(e, n, x, step) == e[0] = x /\ \A i \in 1..n : e[i] = step[i][e[i - 1]]

\* A function that is defined from 0 on by steps within T exists.
LEMMA Recursion ==
    ASSUME NEW n \in Nat, NEW T, NEW x \in T, NEW step \in [1..n -> [T -> T]]
    PROVE  \E e \in [0..n -> T] : GoesBy(e, n, x, step)
<1> USE DEF GoesBy
<1> DEFINE Has(m) == \E e \in [0..m -> T] : GoesBy(e, m, x, step)
           Good == {m \in 0..n : Has(m)}
<1>1. 0 \in Good
  <2> DEFINE e == [i \in 0..0 |-> x]
  <2>1. e \in [0..0 -> T] /\ e[0] = x /\ 1..0 = {}
    OBVIOUS
  <2> HIDE DEF e
  <2> QED
    BY <2>1
<1>2. ASSUME NEW m \in 0..(n - 1), m \in Good PROVE m + 1 \in Good
  <2>1. PICK e \in [0..m -> T] : e[0] = x /\ \A i \in 1..m : e[i] = step[i][e[i - 1]]
    BY <1>2
  <2> DEFINE next == step[m + 1][e[m]]
             more == [i \in 0..(m + 1) |-> IF i = m + 1 THEN next ELSE e[i]]
  <2>2. m + 1 \in 1..n /\ e[m] \in T /\ m + 1 \in 0..n /\ m + 1 # 0
    BY <2>1
  <2>3. next \in T
    BY <2>2
  <2>4. more \in [0..(m + 1) -> T] /\ more[0] = x /\ more[m + 1] = next
    BY <2>1, <2>2, <2>3
  <2>5. ASSUME NEW i \in 1..(m + 1) PROVE more[i] = step[i][more[i - 1]]
    <3>1. i - 1 \in 0..m /\ i - 1 # m + 1 /\ more[i - 1] = e[i - 1]
      BY <2>2
    <3>2. CASE i = m + 1
      BY <2>4, <3>1, <3>2
    <3>3. CASE i # m + 1
      <4>1. i \in 1..m /\ more[i] = e[i]
        BY <2>2, <3>3
      <4> QED
        BY <2>1, <3>1, <4>1
    <3> QED
      BY <3>2, <3>3
  <2> HIDE DEF more
  <2>6. Has(m + 1)
    BY <2>4, <2>5
  <2> QED
    BY <2>2, <2>6
<1> HIDE DEF Good
<1>3. n \in Good
  <2>1. n \in 0..n
    OBVIOUS
  <2> QED
    BY <1>1, <1>2, <2>1, UpTo
<1> QED
  BY <1>3 DEF Good

\* The segments of a path after its i-th byte.
AfterByte(path, i, segments) ==
    IF path[i] = SLASH THEN segments
    ELSE IF i = 1 \/ path[i - 1] = SLASH THEN Append(segments, <<path[i]>>)
    ELSE [segments EXCEPT ![Len(segments)] = Append(@, path[i])]

\* They stay a list of cells.
LEMMA AfterByteIs ==
    ASSUME NEW path \in Cells, NEW i \in 1..Len(path), NEW segments \in Seq(Cells)
    PROVE  AfterByte(path, i, segments) \in Seq(Cells)
<1>1. PICK byte \in Nat : byte = path[i]
  BY DEF Cells
<1>2. <<byte>> \in Cells
  BY DEF Cells
<1>3. Append(segments, <<byte>>) \in Seq(Cells)
  BY <1>2
<1>4. [segments EXCEPT ![Len(segments)] = Append(@, byte)] \in Seq(Cells)
  <2>1. PICK m \in Nat : m = Len(segments)
    OBVIOUS
  <2> DEFINE new == [segments EXCEPT ![m] = Append(@, byte)]
  <2>2. new = [k \in 1..m |-> new[k]]
    <3>1. DOMAIN segments = 1..m
      BY <2>1
    <3>2. new = [k \in 1..m |-> IF k = m THEN Append(segments[m], byte) ELSE segments[k]]
      BY <3>1
    <3> HIDE DEF new
    <3> QED
      BY <3>2
  <2>3. ASSUME NEW k \in 1..m PROVE new[k] \in Cells
    <3>1. segments[k] \in Cells
      BY <2>1
    <3>2. Append(segments[k], byte) \in Cells
      BY <3>1 DEF Cells
    <3>3. new[k] = IF k = m THEN Append(segments[k], byte) ELSE segments[k]
      BY <2>1
    <3> QED
      BY <3>1, <3>2, <3>3
  <2> HIDE DEF new
  <2>4. new \in Seq(Cells)
    BY <2>2, <2>3
  <2> QED
    BY <2>1, <2>4 DEF new
<1> QED
  BY <1>1, <1>3, <1>4 DEF AfterByte

\* The segments of a path are a list of cells.
LEMMA SegmentsAre == ASSUME NEW path \in Cells PROVE Segments(path) \in Seq(Cells)
<1>1. PICK n \in Nat : n = Len(path)
  BY DEF Cells
<1> DEFINE T == Seq(Cells)
           Step(f) == [i \in 0..n |-> IF i = 0 THEN <<>> ELSE AfterByte(path, i, f[i - 1])]
           parts == CHOOSE f : f = Step(f)
           step == [i \in 1..n |-> [segments \in T |-> AfterByte(path, i, segments)]]
<1>2. <<>> \in T /\ step \in [1..n -> [T -> T]]
  <2>1. \A i \in 1..n : \A segments \in T : AfterByte(path, i, segments) \in T
    BY <1>1, AfterByteIs
  <2> QED
    BY <2>1
<1>3. PICK e \in [0..n -> T] : e[0] = <<>> /\ \A i \in 1..n : e[i] = step[i][e[i - 1]]
  <2> HIDE DEF T, step
  <2>1. PICK set, x, f : set = T /\ x = <<>> /\ f = step
    OBVIOUS
  <2>2. x \in set /\ f \in [1..n -> [set -> set]]
    BY <1>2, <2>1
  <2>3. PICK e \in [0..n -> set] : GoesBy(e, n, x, f)
    BY <2>2, Recursion
  <2> QED
    BY <2>1, <2>3 DEF GoesBy
<1>4. ASSUME NEW i \in 1..n PROVE e[i] = AfterByte(path, i, e[i - 1])
  <2>1. i - 1 \in 0..n /\ e[i - 1] \in T
    BY <1>3
  <2> QED
    BY <1>3, <2>1
<1>5. e = Step(e)
  <2>1. \A i \in 0..n : i # 0 => i \in 1..n
    OBVIOUS
  <2>2. \A i \in 0..n : e[i] = IF i = 0 THEN <<>> ELSE AfterByte(path, i, e[i - 1])
    BY <1>3, <1>4, <2>1
  <2> QED
    BY <1>3, <2>2
<1>6. parts = Step(parts)
  <2> HIDE DEF Step
  <2> QED
    BY <1>5
<1>7. Segments(path) = parts[n]
  BY <1>1 DEF Segments, AfterByte
<1> HIDE DEF parts, step
<1> DEFINE Good == {i \in 0..n : parts[i] \in T}
<1>8. 0 \in Good
  <2>1. parts[0] = <<>> /\ 0 \in 0..n
    BY <1>6
  <2> HIDE DEF Step
  <2> QED
    BY <1>2, <2>1
<1>9. ASSUME NEW i \in 0..(n - 1), i \in Good PROVE i + 1 \in Good
  <2>1. i + 1 \in 0..n /\ i + 1 # 0 /\ (i + 1) - 1 = i /\ i + 1 \in 1..n
    OBVIOUS
  <2>2. parts[i + 1] = AfterByte(path, i + 1, parts[i])
    BY <1>6, <2>1
  <2>3. AfterByte(path, i + 1, parts[i]) \in T
    BY <1>1, <1>9, <2>1, AfterByteIs
  <2> QED
    BY <2>1, <2>2, <2>3
<1> HIDE DEF Good
<1>10. n \in Good
  <2>1. n \in 0..n
    OBVIOUS
  <2> QED
    BY <1>8, <1>9, <2>1, UpTo
<1> QED
  BY <1>7, <1>10 DEF Good

\* A route matches a path if its template stands for the path.
LEMMA MatchesCovers ==
    ASSUME NEW route, route.path \in Cells, NEW method, NEW path \in Cells
    PROVE  Matches(route, method, path) <=> Covers(route, method, path)
<1>1. PICK template, segments :
         /\ template = Segments(route.path) /\ segments = Segments(path)
         /\ template \in Seq(Cells) /\ segments \in Seq(Cells)
  BY SegmentsAre
<1>2. PICK n \in Nat, m \in Nat :
         /\ n = Len(template) /\ DOMAIN template = 1..n
         /\ m = Len(segments) /\ DOMAIN segments = 1..m
  BY <1>1
<1> DEFINE Fit == n = m /\ \A i \in 1..n : IsWildcard(template[i]) \/ template[i] = segments[i]
           As(filling) == [i \in 1..n |-> IF IsWildcard(template[i]) THEN filling[i] ELSE template[i]]
<1>3. Instances(template, ToSet(segments)) = {As(filling) : filling \in [1..n -> ToSet(segments)]}
  BY <1>2 DEF Instances
<1>4. ASSUME Fit PROVE segments \in Instances(template, ToSet(segments))
  <2>1. PICK filling \in [1..n -> ToSet(segments)] : \A i \in 1..n : filling[i] = segments[i]
    <3>1. [i \in 1..n |-> segments[i]] \in [1..n -> ToSet(segments)]
      BY <1>2, <1>4 DEF ToSet
    <3> QED
      BY <3>1
  <2>2. \A i \in 1..n : As(filling)[i] = segments[i]
    BY <1>4, <2>1
  <2>3. As(filling) = segments
    <3>1. segments = [i \in 1..n |-> segments[i]]
      BY <1>1, <1>2, <1>4
    <3> QED
      BY <2>2, <3>1
  <2> QED
    BY <1>3, <2>3
<1>5. ASSUME segments \in Instances(template, ToSet(segments)) PROVE Fit
  <2>1. PICK filling \in [1..n -> ToSet(segments)] : segments = As(filling)
    BY <1>3, <1>5
  <2>2. DOMAIN segments = 1..n /\ Len(segments) = n
    BY <1>1, <2>1
  <2>3. \A i \in 1..n : IsWildcard(template[i]) \/ template[i] = segments[i]
    BY <2>1
  <2> QED
    BY <1>2, <2>2, <2>3
<1>6. Matches(route, method, path) <=> route.method = method /\ Fit
  BY <1>1, <1>2 DEF Matches
<1>7. Covers(route, method, path)
         <=> route.method = method /\ segments \in Instances(template, ToSet(segments))
  BY <1>1 DEF Covers
<1> QED
  BY <1>4, <1>5, <1>6, <1>7

-----------------------------------------------------------------------------
(***************************************************************************)
(* The inductive invariant: what reached the handler is the first part of  *)
(* what was sent; past decoding it is all of it, and the request is what   *)
(* was sent; the routes that were tried do not match; the handler that was *)
(* called is that of the next one, or of none.                             *)
(***************************************************************************)

BodyIsPart == \E n \in 0..Len(EncodeRequest(sent)) : body = SubSeq(EncodeRequest(sent), 1, n)

Complete == body = EncodeRequest(sent) /\ Known(sent)

\* What the first route that matches returned, or the answer without one.
Answered ==
    /\ IsResponse(response)
    /\ \/ /\ tried = Len(routes)
          /\ called = 0
          /\ response.status = STATUS_NOT_FOUND /\ response.consumed_params = {}
       \/ /\ tried < Len(routes)
          /\ called = tried + 1
          /\ Matches(routes[tried + 1], sent.method, sent.path)

RestInv ==
    /\ routes \in RouteTables /\ sent \in SentRequests
    /\ BodyIsPart
    /\ tried \in 0..Len(routes)
    /\ stage \in {"decoding", "dispatching", "encoding", "answered", "failed"}
    /\ stage = "failed" => ~Complete
    /\ stage \in {"dispatching", "encoding", "answered"} => Complete /\ request = Decoded(sent)
    /\ \A i \in 1..tried : ~Matches(routes[i], sent.method, sent.path)
    /\ stage \in {"decoding", "dispatching"} => called = 0
    /\ stage \in {"encoding", "answered"} => Answered
    /\ stage = "answered" => reply = EncodeResponse(response)

\* The initial states satisfy the invariant.
LEMMA RestInvInit == Init => RestInv
<1> SUFFICES ASSUME Init PROVE RestInv
  OBVIOUS
<1>1. BodyIsPart
  BY DEF Init, BodyIsPart
<1>2. tried \in 0..Len(routes) /\ \A i \in 1..tried : ~Matches(routes[i], sent.method, sent.path)
  <2>1. Len(routes) \in Nat /\ tried = 0
    BY RoutesAssumption DEF Init
  <2> QED
    BY <2>1
<1> QED
  BY <1>1, <1>2 DEF Init, RestInv

\* The invariant decides what becomes of the body.
LEMMA BodyDecides ==
    ASSUME RestInv
    PROVE  /\ Complete => DecodeRequest(body) = Reads(Decoded(sent), <<>>)
           /\ DecodeRequest(body).error = "none" => Complete
<1>1. IsSent(sent)
  BY RequestsAssumption DEF RestInv
<1>2. PICK cells \in Cells : cells = EncodeRequest(sent)
  BY <1>1, TenFields
<1>3. PICK n \in 0..Len(cells) : body = SubSeq(cells, 1, n)
  BY <1>2 DEF RestInv, BodyIsPart
<1>4. PICK b, y : b \in Cells /\ y \in Cells /\ b = body /\ Parts(cells, b, y)
  <2>1. PICK p \in Cells, q \in Cells : Split(cells, n, p, q)
    BY CellsSplit
  <2>2. p = body /\ Parts(cells, p, q)
    BY <1>3, <2>1 DEF Split, Parts
  <2> QED
    BY <2>2
<1>5. IF y = <<>> /\ Known(sent) THEN DecodeRequest(b) = Reads(Decoded(sent), <<>>)
                                 ELSE DecodeRequest(b).error # "none"
  BY <1>1, <1>2, <1>4, DecodedOrRefused
<1>6. ASSUME Complete PROVE DecodeRequest(body) = Reads(Decoded(sent), <<>>)
  <2>1. Parts(EncodeRequest(sent), b, <<>>) /\ Known(sent)
    BY <1>2, <1>4, <1>6, Concat DEF Complete, Parts
  <2> QED
    BY <1>1, <1>4, <2>1, NoCells, DecodedOrRefused
<1>7. ASSUME DecodeRequest(body).error = "none" PROVE Complete
  <2>1. y = <<>> /\ Known(sent)
    BY <1>4, <1>5, <1>7
  <2>2. cells = b
    BY <1>4, <2>1, Concat DEF Parts
  <2> QED
    BY <1>2, <1>4, <2>1, <2>2 DEF Complete
<1> QED
  BY <1>6, <1>7

\* Every step preserves the invariant.
LEMMA RestInvStep == RestInv /\ [Next]_vars => RestInv'
<1> SUFFICES ASSUME RestInv, [Next]_vars PROVE RestInv'
  OBVIOUS
<1> USE DEF RestInv
<1>1. tried \in Nat /\ Len(routes) \in Nat
  BY RoutesAssumption
<1>2. CASE Decode
  <2>1. UNCHANGED <<BodyIsPart, Complete, Answered>>
    BY <1>2 DEF Decode, BodyIsPart, Complete, Answered
  <2>2. CASE DecodeRequest(body).error = "none"
    <3>1. stage' = "dispatching" /\ request' = DecodeRequest(body).value
      BY <1>2, <2>2 DEF Decode
    <3>2. Complete /\ DecodeRequest(body).value = Decoded(sent)
      BY <2>2, BodyDecides, ReadsFields
    <3> QED
      BY <1>2, <2>1, <3>1, <3>2 DEF Decode
  <2>3. CASE DecodeRequest(body).error # "none"
    <3>1. stage' = "failed"
      BY <1>2, <2>3 DEF Decode
    <3>2. ~Complete
      BY <2>3, BodyDecides, ReadsFields
    <3> QED
      BY <1>2, <2>1, <3>1, <3>2 DEF Decode
  <2> QED
    BY <2>2, <2>3
<1>3. CASE Skip
  <2>1. UNCHANGED <<BodyIsPart, Complete>>
    BY <1>3 DEF Skip, BodyIsPart, Complete
  <2>2. tried' \in 0..Len(routes') /\ stage = "dispatching" /\ stage' = "dispatching"
    BY <1>1, <1>3 DEF Skip
  <2>3. ~Matches(routes[tried + 1], sent.method, sent.path)
    BY <1>3, <2>2 DEF Skip, Decoded
  <2>4. \A i \in 1..(tried + 1) : i \in 1..tried \/ i = tried + 1
    BY <1>1
  <2>5. \A i \in 1..tried' : ~Matches(routes'[i], sent'.method, sent'.path)
    BY <1>3, <2>3, <2>4 DEF Skip
  <2> QED
    BY <1>3, <2>1, <2>2, <2>5 DEF Skip
<1>4. CASE Handle
  <2>1. UNCHANGED <<BodyIsPart, Complete>>
    BY <1>4 DEF Handle, BodyIsPart, Complete
  <2>2. stage = "dispatching" /\ stage' = "encoding" /\ request = Decoded(sent)
    BY <1>4 DEF Handle
  <2>3. request.method = sent.method /\ request.path = sent.path
    BY <2>2 DEF Decoded
  <2>4. tried < Len(routes) /\ Matches(routes[tried + 1], sent.method, sent.path)
    BY <1>4, <2>3 DEF Handle
  <2>5. IsResponse(response')
    BY <1>4, ResponsesAssumption DEF Handle
  <2>6. Answered'
    BY <1>4, <2>4, <2>5 DEF Handle, Answered
  <2> QED
    BY <1>4, <2>1, <2>2, <2>6 DEF Handle
<1>5. CASE NotFound
  <2>1. UNCHANGED <<BodyIsPart, Complete>>
    BY <1>5 DEF NotFound, BodyIsPart, Complete
  <2>2. stage = "dispatching" /\ stage' = "encoding" /\ request = Decoded(sent)
    BY <1>5 DEF NotFound
  <2> DEFINE none == NotFoundResponse(request)
             headers == [k \in {} |-> k]
  <2>3. /\ none = Answer(STATUS_NOT_FOUND, TEXT_CONTENT_TYPE, NO_HANDLER, headers, {}, FALSE)
        /\ response' = none
    BY <1>5, <2>2 DEF NotFound, NotFoundResponse, FromRequest, Answer, Decoded
  <2>4. {} \in StringSets /\ IsMap(headers, Seq(Strings))
    <3>1. {} \in StringSets
      BY FS_EmptySet DEF StringSets
    <3>2. DOMAIN headers = {} /\ headers = [k \in DOMAIN headers |-> headers[k]]
      OBVIOUS
    <3> QED
      BY <3>1, <3>2 DEF IsMap
  <2> HIDE DEF none, headers
  <2>5. IsResponse(none) /\ none.status = STATUS_NOT_FOUND /\ none.consumed_params = {}
    BY <2>3, <2>4, TextsAre DEF IsResponse, Answer, Cells
  <2>6. Answered'
    BY <1>1, <1>5, <2>3, <2>5 DEF NotFound, Answered
  <2> QED
    BY <1>5, <2>1, <2>2, <2>6 DEF NotFound
<1>6. CASE Encode
  <2>1. UNCHANGED <<BodyIsPart, Complete, Answered>>
    BY <1>6 DEF Encode, BodyIsPart, Complete, Answered
  <2> QED
    BY <1>6, <2>1 DEF Encode
<1>7. CASE UNCHANGED vars
  <2>1. UNCHANGED <<BodyIsPart, Complete, Answered>>
    BY <1>7 DEF vars, BodyIsPart, Complete, Answered
  <2> QED
    BY <1>7, <2>1 DEF vars
<1> QED
  BY <1>2, <1>3, <1>4, <1>5, <1>6, <1>7 DEF Next

\* The invariant holds of every state.
LEMMA RestInvariant == Spec => []RestInv
BY RestInvInit, RestInvStep, PTL DEF Spec

-----------------------------------------------------------------------------
(* The theorems. *)

\* A body with all its cells and known ordinals is dispatched as the peer
\* meant it, and no other is: a body cut anywhere is refused.
THEOREM DecodedAsSent == Spec => []DecodesWhatWasSent
<1>1. ASSUME RestInv PROVE DecodesWhatWasSent
  <2>1. IsSent(sent)
    BY <1>1, RequestsAssumption DEF RestInv
  <2>2. ASSUME stage = "failed"
        PROVE  Len(body) < Len(EncodeRequest(sent)) \/ sent.method > 8 \/ sent.http_version > 1
    <3>1. PICK cells \in Cells : cells = EncodeRequest(sent)
      BY <2>1, TenFields
    <3>2. PICK m \in Nat : m = Len(cells)
      BY DEF Cells
    <3>3. PICK n \in 0..m : body = SubSeq(cells, 1, n)
      BY <1>1, <3>1, <3>2 DEF RestInv, BodyIsPart
    <3>4. Len(body) = n /\ (n = m => body = cells)
      BY <3>2, <3>3 DEF Cells
    <3>5. ~Complete
      BY <1>1, <2>2 DEF RestInv
    <3>6. sent.method \in Nat /\ sent.http_version \in Nat
      BY <2>1 DEF IsSent
    <3> QED
      BY <3>1, <3>2, <3>4, <3>5, <3>6 DEF Complete, Known
  <2>3. ASSUME stage \notin {"decoding", "failed"}
        PROVE  /\ body = EncodeRequest(sent)
               /\ \A field \in DOMAIN sent \ {"task"} : request[field] = sent[field]
    <3>1. Complete /\ request = Decoded(sent)
      BY <1>1, <2>3 DEF RestInv
    <3>2. \A field \in DOMAIN sent \ {"task"} :
             field \in {"method", "uri", "path", "params", "headers", "media_type", "content",
                        "token", "http_version"}
      BY <2>1 DEF IsSent
    <3>3. \A field \in {"method", "uri", "path", "params", "headers", "media_type", "content",
                        "token", "http_version"} : request[field] = sent[field]
      BY <3>1 DEF Decoded
    <3> QED
      BY <3>1, <3>2, <3>3 DEF Complete
  <2> QED
    BY <2>2, <2>3 DEF DecodesWhatWasSent
<1> QED
  BY <1>1, RestInvariant, PTL

\* The handler that is called is that of the first route, in the order of
\* registration, whose template stands for the path; none is called, and the
\* answer is NOT_FOUND, only if there is none.
THEOREM FirstCoveringAnswers == Spec => []FirstRouteAnswers
<1>1. ASSUME RestInv PROVE FirstRouteAnswers
  <2> SUFFICES ASSUME stage \in {"encoding", "answered"}
               PROVE  LET covering == {i \in DOMAIN routes : Covers(routes[i], sent.method, sent.path)}
                      IN  IF covering = {}
                          THEN /\ called = 0
                               /\ response.status = STATUS_NOT_FOUND
                               /\ response.consumed_params = {}
                          ELSE /\ called \in covering
                               /\ \A i \in covering : called <= i
    BY DEF FirstRouteAnswers
  <2> DEFINE covering == {i \in DOMAIN routes : Covers(routes[i], sent.method, sent.path)}
  <2>1. PICK n \in Nat : n = Len(routes) /\ DOMAIN routes = 1..n
    BY <1>1, RoutesAssumption DEF RestInv
  <2>2. ASSUME NEW i \in 1..n
        PROVE  i \in covering <=> Matches(routes[i], sent.method, sent.path)
    <3>1. routes[i].path \in Cells
      <4>1. routes[i] \in Route
        BY <1>1, <2>1, RoutesAssumption DEF RestInv
      <4>2. routes[i].path \in Strings
        BY <4>1, RoutesAssumption DEF Route
      <4> QED
        BY <4>2 DEF Strings, Cells
    <3>2. sent.path \in Cells
      BY <1>1, RequestsAssumption DEF RestInv, IsSent, Strings, Cells
    <3> QED
      BY <2>1, <3>1, <3>2, MatchesCovers
  <2>3. covering \subseteq 1..n
    BY <2>1
  <2> HIDE DEF covering
  <2>4. tried \in 0..n /\ \A i \in 1..tried : i \notin covering
    BY <1>1, <2>1, <2>2 DEF RestInv
  <2>5. CASE tried = n
    <3>1. covering = {}
      BY <2>3, <2>4, <2>5
    <3>2. called = 0 /\ response.status = STATUS_NOT_FOUND /\ response.consumed_params = {}
      BY <1>1, <2>1, <2>5 DEF RestInv, Answered
    <3> QED
      BY <3>1, <3>2 DEF covering
  <2>6. CASE tried # n
    <3>1. tried + 1 \in 1..n
      BY <2>4, <2>6
    <3>2. Matches(routes[tried + 1], sent.method, sent.path) /\ called = tried + 1
      BY <1>1, <2>1, <2>6 DEF RestInv, Answered
    <3>3. tried + 1 \in covering
      BY <2>2, <3>1, <3>2
    <3>4. \A i \in covering : tried + 1 <= i
      BY <2>3, <2>4
    <3> QED
      BY <3>2, <3>3, <3>4 DEF covering
  <2> QED
    BY <2>5, <2>6
<1> QED
  BY <1>1, RestInvariant, PTL

\* The peer reads back whatever response a handler returned, headers included,
\* to its last cell.
THEOREM ReplyUnderstood == Spec => []PeerUnderstandsReply
<1>1. ASSUME RestInv PROVE PeerUnderstandsReply
  <2> SUFFICES ASSUME stage = "answered" PROVE PeerReads(reply) = Reads(response, <<>>)
    BY DEF PeerUnderstandsReply
  <2>1. IsResponse(response) /\ reply = EncodeResponse(response)
    BY <1>1 DEF RestInv, Answered
  <2>2. PICK status \in Nat, content_type \in Strings, content \in Cells,
             used \in StringSets, read \in BOOLEAN :
           /\ IsMap(response.headers, Seq(Strings))
           /\ response = Answer(status, content_type, content, response.headers, used, read)
    BY <2>1, ResponseIs
  <2>3. PICK headers : headers = response.headers
    OBVIOUS
  <2> QED
    BY <2>1, <2>2, <2>3, ResponseRead
<1> QED
  BY <1>1, RestInvariant, PTL

=============================================================================
