---------------------------- MODULE RestDispatch ----------------------------
(***************************************************************************)
(* What happens to the body of a REST_EXECUTE_ON_EXTENSION request:        *)
(* decode_extension_rest_request, the search for the first route that      *)
(* matches, its handler or not_found_response, and                         *)
(* encode_extension_rest_response.  Bodies are cells of StreamCodec, and   *)
(* paths the bytes of strings.                                             *)
(*                                                                         *)
(* The peer's codec and the handlers are not part of the crate.            *)
(***************************************************************************)
EXTENDS Payloads

CONSTANTS
    Paths,        \* paths of routes
    RouteTables,  \* route lists an extension may register
    SentRequests, \* requests the peer may send
    Responses     \* responses the handlers of routes may return

\* A method is known by its ordinal, a route by its position in the table.
Route == [method : 0..8, path : Paths]

\* Everything the peer sends but its ordinals, which may be unknown, is what
\* the codec can write.
IsSent(request) ==
    /\ DOMAIN request = {"task", "method", "uri", "path", "params", "headers", "media_type",
                         "content", "token", "http_version"}
    /\ IsTask(request.task)
    /\ request.method \in Nat /\ request.http_version \in Nat
    /\ {request.uri, request.path, request.token} \subseteq Strings
    /\ IsMap(request.params, Strings)
    /\ IsMap(request.headers, Seq(Strings))
    /\ request.media_type \in Seq(Strings) /\ Len(request.media_type) <= 1
    /\ request.content \in Seq(Nat)

\* RestStatus::to_wire.
STATUS_OK == 2
STATUS_ACCEPTED == 4
STATUS_NOT_FOUND == 21
STATUS_INTERNAL_SERVER_ERROR == 40

\* Everything an ExtensionRestResponse can be: a handler may build any.
IsResponse(answer) ==
    /\ answer = [field \in {"status", "content_type", "content", "headers", "consumed_params",
                            "content_consumed"} |-> answer[field]]
    /\ answer.status \in {STATUS_OK, STATUS_ACCEPTED, STATUS_NOT_FOUND,
                          STATUS_INTERNAL_SERVER_ERROR}
    /\ answer.content_type \in Strings
    /\ answer.content \in Seq(Nat)
    /\ IsMap(answer.headers, Seq(Strings))
    /\ answer.consumed_params \in StringSets
    /\ answer.content_consumed \in BOOLEAN

ASSUME RoutesAssumption == RouteTables \subseteq Seq(Route) /\ Paths \subseteq Strings

ASSUME RequestsAssumption == \A request \in SentRequests : IsSent(request)

ASSUME ResponsesAssumption == \A answer \in Responses : IsResponse(answer)

\* Texts, one letter of each.
TEXT_CONTENT_TYPE == <<116>>
NO_HANDLER == <<78>>

-----------------------------------------------------------------------------
(* Decoding. *)

ReadOrdinal(last, input) ==
    Then(ReadCell(input), LAMBDA n, rest : IF n <= last THEN Reads(n, rest) ELSE Fails("data"))

\* Slip: the media type is read without the flag in front of it.
ReadMediaType_Always(input) ==
    Then(ReadString(input), LAMBDA media_type, left : Reads(<<media_type>>, left))

\* <<>> for None, <<name>> for Some(name).
ReadMediaType(input) ==
    Then(ReadBool(input), LAMBDA some, rest :
        IF ~some THEN Reads(<<>>, rest)
        ELSE Then(ReadString(rest), LAMBDA media_type, left : Reads(<<media_type>>, left)))

\* RestMethod and HttpVersion refuse ordinals they do not know.
RequestReaders ==
    <<Reader(ReadTaskId), Reader(LAMBDA input : ReadOrdinal(8, input)), Reader(ReadString),
      Reader(ReadString), Reader(ReadStringMap), Reader(ReadStringListMap), Reader(ReadMediaType),
      Reader(ReadByteArray), Reader(ReadString), Reader(LAMBDA input : ReadOrdinal(1, input))>>

DecodeRequest(body) ==
    Then(ReadFields(RequestReaders, body), LAMBDA f, rest :
        Reads([method |-> f[2], uri |-> f[3], path |-> f[4], params |-> f[5], headers |-> f[6],
               media_type |-> f[7], content |-> f[8], token |-> f[9], http_version |-> f[10],
               consumed_params |-> {}, content_consumed |-> FALSE], rest))

-----------------------------------------------------------------------------
(* Dispatching. *)

SLASH == 47

\* The parts of a path around its slashes, without the empty ones.
Segments(path) ==
    LET parts[i \in 0..Len(path)] ==
            IF i = 0 THEN <<>>
            ELSE IF path[i] = SLASH THEN parts[i - 1]
            ELSE IF i = 1 \/ path[i - 1] = SLASH THEN Append(parts[i - 1], <<path[i]>>)
            ELSE [parts[i - 1] EXCEPT ![Len(parts[i - 1])] = Append(@, path[i])]
    IN  parts[Len(path)]

\* The segment starts with { and ends with }.
IsWildcard(segment) == Head(segment) = 123 /\ Last(segment) = 125

\* Slip: zip stops at the shorter path, and the lengths are not compared.
Matches_ShorterWins(route, method, path) ==
    LET expected == Segments(route.path)
        actual   == Segments(path)
    IN  /\ route.method = method
        /\ \A i \in DOMAIN expected \cap DOMAIN actual :
              IsWildcard(expected[i]) \/ expected[i] = actual[i]

Matches(route, method, path) ==
    LET expected == Segments(route.path)
        actual   == Segments(path)
    IN  /\ route.method = method
        /\ Len(expected) = Len(actual)
        /\ \A i \in DOMAIN expected : IsWildcard(expected[i]) \/ expected[i] = actual[i]

\* ExtensionRestResponse::from_request passes on what the request recorded.
FromRequest(request, status, content) ==
    [status |-> status, content_type |-> TEXT_CONTENT_TYPE, content |-> content,
     headers |-> [k \in {} |-> k], consumed_params |-> request.consumed_params,
     content_consumed |-> request.content_consumed]

NotFoundResponse(request) == FromRequest(request, STATUS_NOT_FOUND, NO_HANDLER)

\* Slip: the flag goes in front of the parameters.
EncodeResponse_FlagFirst(response) ==
    FlattenSeq(<<<<response.status>>, WriteString(response.content_type),
                 WriteByteArray(response.content), WriteStringListMap(response.headers),
                 WriteBool(response.content_consumed), WriteStringSet(response.consumed_params)>>)

EncodeResponse(response) ==
    FlattenSeq(<<<<response.status>>, WriteString(response.content_type),
                 WriteByteArray(response.content), WriteStringListMap(response.headers),
                 WriteStringSet(response.consumed_params), WriteBool(response.content_consumed)>>)

-----------------------------------------------------------------------------
(* The peer. *)

WriteMediaType(media_type) ==
    IF media_type = <<>> THEN WriteBool(FALSE) ELSE WriteBool(TRUE) \o WriteString(media_type[1])

\* A request as the peer holds it: task id, ordinals and fields.
EncodeRequest(sent) ==
    FlattenSeq(<<WriteTaskId(sent.task), <<sent.method>>, WriteString(sent.uri),
                 WriteString(sent.path), WriteStringMap(sent.params),
                 WriteStringListMap(sent.headers), WriteMediaType(sent.media_type),
                 WriteByteArray(sent.content), WriteString(sent.token), <<sent.http_version>>>>)

\* Fields of the response in the order the peer reads them.
ResponseReaders ==
    <<Reader(ReadCell), Reader(ReadString), Reader(ReadByteArray), Reader(ReadStringListMap),
      Reader(ReadStringSet), Reader(ReadBool)>>

PeerReads(cells) ==
    Then(ReadFields(ResponseReaders, cells), LAMBDA f, rest :
        Reads([status |-> f[1], content_type |-> f[2], content |-> f[3], headers |-> f[4],
               consumed_params |-> f[5], content_consumed |-> f[6]], rest))

-----------------------------------------------------------------------------
VARIABLES
    routes,   \* ExtensionHost.routes
    sent,     \* the request the peer has encoded
    body,     \* the cells of it that reached the handler
    stage,    \* "decoding", "dispatching", "encoding", "answered" or "failed"
    request,  \* the decoded request, <<>> before
    tried,    \* routes that did not match
    response, \* what the handler returned, <<>> before
    reply,    \* the body of the answer
    called    \* history: the position of the route whose handler was called, or 0

vars == <<routes, sent, body, stage, request, tried, response, reply, called>>

\* The frame's length decides how much of the body there is.
Init ==
    /\ routes \in RouteTables
    /\ sent \in SentRequests
    /\ \E n \in 0..Len(EncodeRequest(sent)) : body = SubSeq(EncodeRequest(sent), 1, n)
    /\ stage = "decoding"
    /\ request = <<>>
    /\ tried = 0
    /\ response = <<>>
    /\ reply = <<>>
    /\ called = 0

Decode ==
    /\ stage = "decoding"
    /\ LET decoded == DecodeRequest(body)
       IN  IF decoded.error = "none"
           THEN stage' = "dispatching" /\ request' = decoded.value
           ELSE stage' = "failed" /\ UNCHANGED request
    /\ UNCHANGED <<routes, sent, body, tried, response, reply, called>>

\* The next route is tried.
Skip ==
    /\ stage = "dispatching"
    /\ tried < Len(routes)
    /\ ~Matches(routes[tried + 1], request.method, request.path)
    /\ tried' = tried + 1
    /\ UNCHANGED <<routes, sent, body, stage, request, response, reply, called>>

\* The route's handler is called, and what it returns is the response.
Handle ==
    /\ stage = "dispatching"
    /\ tried < Len(routes)
    /\ Matches(routes[tried + 1], request.method, request.path)
    /\ response' \in Responses
    /\ called' = tried + 1
    /\ stage' = "encoding"
    /\ UNCHANGED <<routes, sent, body, request, tried, reply>>

NotFound ==
    /\ stage = "dispatching"
    /\ tried = Len(routes)
    /\ response' = NotFoundResponse(request)
    /\ stage' = "encoding"
    /\ UNCHANGED <<routes, sent, body, request, tried, reply, called>>

Encode ==
    /\ stage = "encoding"
    /\ reply' = EncodeResponse(response)
    /\ stage' = "answered"
    /\ UNCHANGED <<routes, sent, body, request, tried, response, called>>

Next == Decode \/ Skip \/ Handle \/ NotFound \/ Encode

Spec == Init /\ [][Next]_vars

-----------------------------------------------------------------------------
(* Properties. *)

\* Every body with all its cells and known ordinals is dispatched as the peer
\* meant it, and no other is: a body cut anywhere is refused, never half read.
DecodesWhatWasSent ==
    /\ stage = "failed" =>
          \/ Len(body) < Len(EncodeRequest(sent))
          \/ sent.method > 8 \/ sent.http_version > 1
    /\ stage \notin {"decoding", "failed"} =>
          /\ body = EncodeRequest(sent)
          /\ \A field \in DOMAIN sent \ {"task"} : request[field] = sent[field]

\* The paths a template stands for, at most as long as this one, by the
\* choice of a segment for each wildcard.
Instances(template, segments) ==
    {[i \in DOMAIN template |-> IF IsWildcard(template[i]) THEN filling[i] ELSE template[i]] :
        filling \in [DOMAIN template -> segments]}

Covers(route, method, path) ==
    /\ route.method = method
    /\ Segments(path) \in Instances(Segments(route.path), ToSet(Segments(path)))

\* The handler that is called is that of the first route, in the order of
\* registration, whose template stands for the path; no handler is called, and
\* the answer is NOT_FOUND, only if there is none.  A later route that names the
\* path literally never comes before it.
FirstRouteAnswers ==
    stage \in {"encoding", "answered"} =>
        LET covering == {i \in DOMAIN routes : Covers(routes[i], sent.method, sent.path)}
        IN  IF covering = {}
            THEN /\ called = 0
                 /\ response.status = STATUS_NOT_FOUND
                 /\ response.consumed_params = {}
            ELSE /\ called \in covering
                 /\ \A i \in covering : called <= i

\* The peer reads back the response the handler built, whatever its status, its
\* headers and the parameters it reports as consumed, to its last cell.
PeerUnderstandsReply ==
    stage = "answered" => PeerReads(reply) = Reads(response, <<>>)

=============================================================================
