---------------------------- MODULE StrayAnswers ----------------------------
(***************************************************************************)
(* ExtensionHost without its assumption that a peer answers on the         *)
(* connection that carried the request.  The table of pending requests     *)
(* does not record the connection, and nothing in handle_response asks for *)
(* it: an answer that strays runs the continuation on the connection it    *)
(* came on, and the next frame of the init request leaves there.           *)
(*                                                                         *)
(* What is lost with the assumption is ResponsesMatchRequests and          *)
(* HostRequestsCarryInit.  The module states what is not.                  *)
(***************************************************************************)
EXTENDS ExtensionHost

VARIABLE
    answered    \* history: the responses to init requests handlers returned, with
                \* the init request behind the entry that was taken for each

strayVars == <<vars, answered>>

\* An answer to a request that was written to connection d arrives on c.
PeerStrays(c, d) ==
    \E i \in Positions(wire[d]) :
        /\ wire[d][i].kind = "request"
        /\ ~HasSent(c, "answer", wire[d][i].request_id)
        /\ \E answer \in AnswersTo(wire[d][i]) : PeerSends(c, answer)

\* Where the frames of the host are, on all connections.
Places == UNION {{c} \X Positions(HostFrames(c)) : c \in Conns}

FrameAt(place) == HostFrames(place[1])[place[2]]

InitResponses ==
    {p \in Places : FrameAt(p).kind = "response" /\ FrameAt(p).to = "DISCOVERY_EXTENSIONS"}

\* The history after a step: a response that the step returned on connection c
\* answers the init request behind the answer that the thread of c had in hand.
Recorded ==
    LET returned == InitResponses' \ InitResponses
    IN  IF returned = {} THEN UNCHANGED answered
        ELSE \E p \in returned :
                answered' = Append(answered, [origin   |-> flow[Frame(p[1]).request_id],
                                              response |-> FrameAt(p)'])

StrayInit == Init /\ answered = <<>>

StrayStep == Next \/ \E c, d \in Conns : PeerStrays(c, d)

StrayNext == StrayStep /\ Recorded

StraySpec == StrayInit /\ [][StrayNext]_strayVars

-----------------------------------------------------------------------------
\* The settings are asked for at this place.
AsksSettings(p) == FrameAt(p).kind = "request" /\ FrameAt(p).action = "ENVIRONMENT_SETTINGS"

\* The init request behind the request at this place.
OriginAt(p) == flow[FrameAt(p).request_id]

\* For each init request, on all connections together: the settings are asked
\* for at most once, at most one entry continues it, at most one response to it
\* is ever returned, and none while an entry is left.  Whichever answer comes
\* first takes the entry, and others, wherever they come, find none.  The
\* response bears the id and the thread context of the init request, also where
\* it leaves on another connection.
ContinuedOnce ==
    /\ \A p, q \in Places :
          AsksSettings(p) /\ AsksSettings(q) /\ OriginAt(p) = OriginAt(q) => p = q
    /\ \A k, l \in DOMAIN pending_requests : flow[k] = flow[l] => k = l
    /\ \A i, j \in DOMAIN answered : answered[i].origin = answered[j].origin => i = j
    /\ \A i \in DOMAIN answered, k \in DOMAIN pending_requests : answered[i].origin # flow[k]
    /\ \A i \in DOMAIN answered :
          answered[i].response = ResponseTo(answered[i].origin.init)

=============================================================================
