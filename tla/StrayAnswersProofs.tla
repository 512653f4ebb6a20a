------------------------- MODULE StrayAnswersProofs -------------------------
(***************************************************************************)
(* The theorem about StrayAnswers, for every value of the constants: even  *)
(* when answers come on the wrong connection, each init request is         *)
(* continued or answered, never both and never twice.                      *)
(*                                                                         *)
(* Most of what ExtensionHostProofs knows of the host is lost with the     *)
(* assumption that answers stay on their connection.  What is left is what *)
(* one id, one entry and one reading of a request give: each id that is    *)
(* drawn for a new init request adds an origin, and every other step moves *)
(* entries of the table, and never makes two out of one.                   *)
(***************************************************************************)
EXTENDS StrayAnswers, ExtensionHostProofs

-----------------------------------------------------------------------------
(***************************************************************************)
(* Types, and what threads have read, with answers that stray.             *)
(***************************************************************************)

\* An answer that strays is a frame like any other.
LEMMA StrayIsSent ==
  ASSUME TypeInv, NEW c \in Conns, NEW d \in Conns, PeerStrays(c, d)
  PROVE  \E frame \in InboundFrame : frame.kind = "answer" /\ PeerSends(c, frame)
<1>1. PICK i \in DOMAIN wire[d] :
         /\ wire[d][i].kind = "request"
         /\ \E answer \in AnswersTo(wire[d][i]) : PeerSends(c, answer)
  BY DEF PeerStrays, Positions
<1>2. PICK answer \in AnswersTo(wire[d][i]) : PeerSends(c, answer)
  BY <1>1
<1>3. answer \in InboundFrame /\ answer.kind = "answer"
  BY <1>1, AnswersTyped DEF AnswersTo
<1> QED
  BY <1>2, <1>3

LEMMA StrayTyped == TypeInv /\ [StrayStep]_vars => TypeInv'
<1> SUFFICES ASSUME TypeInv, [StrayStep]_vars PROVE TypeInv'
  OBVIOUS
<1>1. ASSUME NEW c \in Conns, NEW d \in Conns, PeerStrays(c, d)
      PROVE  TypeInv'
  BY <1>1, StrayIsSent, PeerSendsTyped
<1> QED
  BY <1>1, NextTyped DEF StrayStep

LEMMA StrayReads ==
  ASSUME TypeInv, TypeInv', [StrayStep]_vars
  PROVE  ReadsKept /\ CursorKept /\ DoneKept
<1>1. ASSUME NEW c \in Conns, NEW d \in Conns, PeerStrays(c, d)
      PROVE  ReadsKept /\ CursorKept
  BY <1>1, StrayIsSent, PeerSendsReads
<1>2. ReadsKept /\ CursorKept
  BY <1>1, NextReads DEF StrayStep
<1> QED
  BY <1>2, ReadsKeepDone

LEMMA NextRequestsOnce ==
  ASSUME TypeInv, RequestsOnce, [Next]_vars
  PROVE  RequestsOnce'
<1>1. ASSUME UNCHANGED toHost
      PROVE  RequestsOnce'
  BY <1>1 DEF RequestsOnce
<1>2. ASSUME NEW c \in Conns, PeerStep(c)
      PROVE  RequestsOnce'
  <2>1. CASE PeerRequest(c)
    BY <2>1, PeerSendsOnce DEF PeerRequest
  <2>2. CASE PeerAnswers(c)
    BY <2>2, PeerSendsOnce DEF PeerAnswers, AnswersTo
  <2>3. CASE PeerRepeats(c)
    BY <2>3, PeerSendsOnce DEF PeerRepeats
  <2>4. CASE PeerSendsMalformed(c)
    BY <2>4, PeerSendsOnce DEF PeerSendsMalformed
  <2>5. CASE PeerCloses(c)
    <3>1. PICK n \in received[c]..Len(toHost[c]) :
             toHost' = [toHost EXCEPT ![c] = SubSeq(@, 1, n)]
      BY <2>5 DEF PeerCloses
    <3>2. toHost[c] \in Seq(InboundFrame) /\ n \in Nat /\ n <= Len(toHost[c])
      BY <3>1 DEF TypeInv, TypeOK, ChannelsOK, ThreadsOK
    <3>3. \A d \in Conns : \A j \in DOMAIN toHost'[d] :
             j \in DOMAIN toHost[d] /\ toHost'[d][j] = toHost[d][j]
      BY <3>1, <3>2 DEF TypeInv, TypeOK, ChannelsOK
    <3> QED
      BY <3>3 DEF RequestsOnce
  <2> QED
    BY <1>2, <2>1, <2>2, <2>3, <2>4, <2>5 DEF PeerStep
<1>3. ASSUME NEW c \in Conns, ThreadStep(c)
      PROVE  UNCHANGED toHost
  BY <1>3 DEF ThreadStep, ReadFrame, ReadMalformed, ReadNext, ReadEnds, WriteFrame, WriteFails,
       HandleRequest, HandleTcpHandshake, HandleTransportHandshake, HandleInitializeExtension,
       InitializeExtensionFails, HandleRestExecute, RestExecuteFails, IgnoreUnknownAction,
       HandlingRequest, HandleAnswer, AnswerAfterPoison, IgnoreUnknownAnswer,
       AcknowledgementFails, TracePoisons, RegistrationRefused, RegistrationAcknowledged,
       EnvironmentSettingsReceived, TakePending, HandlingAnswer, peers
<1>4. ASSUME NEW c \in Conns, Accept(c)
      PROVE  UNCHANGED toHost
  BY <1>4 DEF Accept
<1>5. CASE AcceptFails \/ StderrBreaks \/ UNCHANGED vars
  BY <1>1, <1>5 DEF AcceptFails, StderrBreaks, vars, peers
<1> QED
  BY <1>1, <1>2, <1>3, <1>4, <1>5 DEF Next

LEMMA StrayRequestsOnce ==
  ASSUME TypeInv, RequestsOnce, [StrayStep]_vars
  PROVE  RequestsOnce'
<1>1. ASSUME NEW c \in Conns, NEW d \in Conns, PeerStrays(c, d)
      PROVE  RequestsOnce'
  BY <1>1, StrayIsSent, PeerSendsOnce
<1> QED
  BY <1>1, NextRequestsOnce DEF StrayStep

-----------------------------------------------------------------------------
(***************************************************************************)
(* What a step does to the ids, the table and the frames.                  *)
(***************************************************************************)

\* Nothing is added.
AddsNothing == FramesKept /\ TableKept

\* The entry id is taken, and the response is the one it was kept for.
AnswersEntry(f, id) ==
    /\ id \in DOMAIN pending_requests
    /\ id \notin DOMAIN pending_requests'
    /\ f = InitializeResponse(pending_requests[id])

\* A response is returned; one to an init request answers the entry in hand.
AddsResponse(c, f) ==
    /\ FrameAdded(c, f)
    /\ f \in HostResponse
    /\ TableKept
    /\ f.to = "DISCOVERY_EXTENSIONS" => AnswersEntry(f, Frame(c).request_id)

\* A register request is returned for an init request that has no id yet.
OpensFlow(c, f, init) ==
    /\ FrameAdded(c, f)
    /\ f.kind = "request"
    /\ f.action # "ENVIRONMENT_SETTINGS"
    /\ init.action = "DISCOVERY_EXTENSIONS"
    /\ [conn |-> c, init |-> init] \notin Range(flow)
    /\ Done(c, init)'
    /\ flow' = Insert(flow, next_request_id, [conn |-> c, init |-> init])
    /\ pending_requests' = Insert(pending_requests, next_request_id, RegisterPending(init))

\* A settings request is returned, and a registration entry makes way for one
\* that waits for the settings.
GoesOnFlow(c, f, id) ==
    /\ FrameAdded(c, f)
    /\ f.kind = "request"
    /\ f.request_id = next_request_id
    /\ id \in DOMAIN pending_requests
    /\ pending_requests[id].kind = "RegisterRestActions"
    /\ flow' = Insert(flow, next_request_id, flow[id])
    /\ pending_requests' = Insert(Remove(pending_requests, id), next_request_id,
                                  SettingsPending(pending_requests[id]))

\* Every step does one of these.
StrayEffect ==
    \/ AddsNothing
    \/ \E c \in Conns, f \in OutboundFrame :
          \/ AddsResponse(c, f)
          \/ \E init \in RequestFrame : OpensFlow(c, f, init)
          \/ \E id \in DOMAIN flow : GoesOnFlow(c, f, id)

\* A request in hand has not been handled, and so has no id.
LEMMA InHandIsUnknown ==
  ASSUME TypeInv, RequestsOnce, FlowDone, NEW c \in Conns, pc[c] = "handling",
         Frame(c).kind = "request"
  PROVE  [conn |-> c, init |-> Frame(c)] \notin Range(flow)
<1>1. received[c] \in DOMAIN toHost[c] /\ Frame(c) = toHost[c][received[c]]
  BY FrameInHand DEF TypeInv, TypeOK, ChannelsOK
<1>2. received[c] \in Nat
  BY DEF TypeInv, TypeOK, ThreadsOK
<1>3. ASSUME NEW k \in DOMAIN flow, flow[k] = [conn |-> c, init |-> Frame(c)]
      PROVE  FALSE
  <2>1. flow[k].conn = c /\ flow[k].init = Frame(c)
    BY <1>3
  <2>2. PICK j \in DOMAIN toHost[c] : DoneWith(c, j) /\ toHost[c][j] = Frame(c)
    BY <2>1 DEF FlowDone, Done
  <2>3. j = received[c]
    BY <1>1, <2>2 DEF RequestsOnce
  <2> QED
    BY <1>2, <2>2, <2>3 DEF DoneWith
<1> QED
  BY <1>3 DEF Range

LEMMA RequestStrayEffect ==
  ASSUME TypeInv, RequestsOnce, FlowDone, NEW c \in Conns, HandleRequest(c)
  PROVE  StrayEffect
<1>1. ASSUME NEW action, HandlingRequest(c, action)
      PROVE  /\ pc[c] = "handling" /\ Frame(c).kind = "request" /\ Frame(c) \in RequestFrame
             /\ Frame(c).action = action
             /\ UNCHANGED <<received, toHost, wire>>
  BY <1>1, FrameInHand DEF HandlingRequest, peers
<1>2. ASSUME UNCHANGED <<table, flow>>
      PROVE  TableKept
  BY <1>2 DEF table, TableKept
<1>3. ASSUME NEW action \in Immediate, HandlingRequest(c, action),
             Return(c, <<ResponseTo(Frame(c))>>), UNCHANGED <<table, flow>>
      PROVE  StrayEffect
  <2> DEFINE f == ResponseTo(Frame(c))
  <2>1. f \in OutboundFrame /\ f \in HostResponse /\ f.to = action
    BY <1>1, <1>3, FramesTyped DEF ResponseTo, RequestFrame, HostResponse
  <2>2. FrameAdded(c, f)
    BY <1>1, <1>3, <2>1, ReturnAddsFrame
  <2>3. AddsResponse(c, f)
    BY <1>2, <1>3, <2>1, <2>2 DEF AddsResponse, Immediate
  <2> QED
    BY <2>1, <2>3 DEF StrayEffect
<1>4. CASE HandleTcpHandshake(c)
  BY <1>3, <1>4 DEF HandleTcpHandshake, Immediate
<1>5. CASE HandleTransportHandshake(c)
  BY <1>3, <1>5 DEF HandleTransportHandshake, Immediate
<1>6. CASE HandleRestExecute(c)
  BY <1>3, <1>6 DEF HandleRestExecute, Immediate
<1>7. CASE HandleInitializeExtension(c)
  <2> DEFINE n == next_request_id
             f == RegisterRequest(n, Frame(c))
  <2>1. /\ pc[c] = "handling" /\ Frame(c).kind = "request" /\ Frame(c) \in RequestFrame
        /\ Frame(c).action = "DISCOVERY_EXTENSIONS"
        /\ UNCHANGED <<received, toHost, wire>>
    BY <1>1, <1>7 DEF HandleInitializeExtension
  <2>2. f \in OutboundFrame /\ f.kind = "request" /\ f.action # "ENVIRONMENT_SETTINGS"
    BY <2>1, FramesTyped DEF RegisterRequest, TypeInv, TypeOK, TableOK
  <2>3. FrameAdded(c, f)
    BY <1>7, <2>1, <2>2, ReturnAddsFrame DEF HandleInitializeExtension
  <2>4. [conn |-> c, init |-> Frame(c)] \notin Range(flow)
    BY <2>1, InHandIsUnknown
  <2>5. /\ flow' = Insert(flow, n, [conn |-> c, init |-> Frame(c)])
        /\ pending_requests' = Insert(pending_requests, n, RegisterPending(Frame(c)))
    BY <1>7 DEF HandleInitializeExtension
  <2>6. Done(c, Frame(c))' /\ Frame(c)' = Frame(c)
    BY <1>7, <2>1, HandlerDone DEF HandleInitializeExtension, Frame
  <2> HIDE DEF f
  <2>7. PICK i \in RequestFrame : i = Frame(c)
    BY <2>1
  <2>8. PICK g \in OutboundFrame : g = f
    BY <2>2
  <2>9. Done(c, i)'
    BY <2>6, <2>7
  <2>10. OpensFlow(c, g, i)
    BY <2>1, <2>2, <2>3, <2>4, <2>5, <2>7, <2>8, <2>9 DEF OpensFlow
  <2> QED
    BY <2>10 DEF StrayEffect
<1>8. CASE InitializeExtensionFails(c) \/ RestExecuteFails(c)
  <2>1. FramesKept /\ TableKept
    BY <1>1, <1>2, <1>8, EndKeepsFrames DEF InitializeExtensionFails, RestExecuteFails
  <2> QED
    BY <2>1 DEF StrayEffect, AddsNothing
<1>9. CASE IgnoreUnknownAction(c)
  <2>1. FramesKept /\ TableKept
    BY <1>1, <1>2, <1>9, ReturnKeepsFrames DEF IgnoreUnknownAction
  <2> QED
    BY <2>1 DEF StrayEffect, AddsNothing
<1> QED
  BY <1>4, <1>5, <1>6, <1>7, <1>8, <1>9 DEF HandleRequest

LEMMA AnswerStrayEffect ==
  ASSUME TypeInv, NEW c \in Conns, HandleAnswer(c)
  PROVE  StrayEffect
<1> DEFINE id == Frame(c).request_id
<1>1. ASSUME NEW kind, TakePending(c, kind)
      PROVE  /\ pc[c] = "handling" /\ id \in DOMAIN pending_requests /\ id \in DOMAIN flow
             /\ pending_requests[id].kind = kind /\ pending_requests[id] \in PendingRequest
             /\ UNCHANGED wire
  BY <1>1, PendingTaken
<1>2. CASE AnswerAfterPoison(c) \/ IgnoreUnknownAnswer(c)
  <2>1. FramesKept
    BY <1>2, EndKeepsFrames, ReturnKeepsFrames DEF AnswerAfterPoison, IgnoreUnknownAnswer,
       HandlingAnswer
  <2>2. TableKept
    BY <1>2 DEF AnswerAfterPoison, IgnoreUnknownAnswer, table, TableKept
  <2> QED
    BY <2>1, <2>2 DEF StrayEffect, AddsNothing
<1>3. CASE AcknowledgementFails(c) \/ TracePoisons(c) \/ RegistrationRefused(c)
  <2>1. TableKept
    BY <1>3, RemoveKeepsTable DEF AcknowledgementFails, TracePoisons, RegistrationRefused
  <2>2. FramesKept
    BY <1>1, <1>3, EndKeepsFrames, ReturnKeepsFrames
       DEF AcknowledgementFails, TracePoisons, RegistrationRefused
  <2> QED
    BY <2>1, <2>2 DEF StrayEffect, AddsNothing
<1>4. CASE RegistrationAcknowledged(c)
  <2> DEFINE n == next_request_id
             pending == pending_requests[id]
             f == SettingsRequest(n, pending)
  <2>1. TakePending(c, "RegisterRestActions")
    BY <1>4 DEF RegistrationAcknowledged
  <2>2. /\ pc[c] = "handling" /\ id \in DOMAIN pending_requests /\ id \in DOMAIN flow
        /\ pending.kind = "RegisterRestActions" /\ pending \in PendingRequest
        /\ UNCHANGED wire
    BY <1>1, <2>1
  <2>3. f \in OutboundFrame /\ f.kind = "request" /\ f.request_id = n
    BY <2>2, FramesTyped DEF SettingsRequest, TypeInv, TypeOK, TableOK
  <2>4. FrameAdded(c, f)
    BY <1>4, <2>2, <2>3, ReturnAddsFrame DEF RegistrationAcknowledged
  <2>5. GoesOnFlow(c, f, id)
    BY <1>4, <2>2, <2>3, <2>4 DEF GoesOnFlow, RegistrationAcknowledged
  <2> HIDE DEF f
  <2> QED
    BY <2>2, <2>3, <2>5 DEF StrayEffect
<1>5. CASE EnvironmentSettingsReceived(c)
  <2> DEFINE f == InitializeResponse(pending_requests[id])
  <2>1. TakePending(c, "EnvironmentSettings")
    BY <1>5 DEF EnvironmentSettingsReceived
  <2>2. /\ pc[c] = "handling" /\ id \in DOMAIN pending_requests
        /\ pending_requests[id] \in PendingRequest
        /\ UNCHANGED wire
    BY <1>1, <2>1
  <2>3. f \in OutboundFrame /\ f \in HostResponse
    BY <2>2, FramesTyped DEF InitializeResponse, OutboundFrame, HostRequest
  <2>4. FrameAdded(c, f)
    BY <1>5, <2>2, <2>3, ReturnAddsFrame DEF EnvironmentSettingsReceived
  <2>5. TableKept
    BY <1>5, <2>2, RemoveKeepsTable DEF EnvironmentSettingsReceived
  <2>6. AnswersEntry(f, id)
    BY <1>5, <2>2 DEF EnvironmentSettingsReceived, Remove, Restrict, AnswersEntry
  <2>7. AddsResponse(c, f)
    BY <2>3, <2>4, <2>5, <2>6 DEF AddsResponse
  <2> HIDE DEF f
  <2> QED
    BY <2>3, <2>7 DEF StrayEffect
<1> QED
  BY <1>2, <1>3, <1>4, <1>5 DEF HandleAnswer

LEMMA StrayNextEffect ==
  ASSUME TypeInv, RequestsOnce, FlowDone, [StrayStep]_vars
  PROVE  StrayEffect
<1>1. ASSUME UNCHANGED <<pending_requests, flow, outbound, wire>>
      PROVE  StrayEffect
  <2>1. FramesKept /\ TableKept
    BY <1>1 DEF FramesKept, HostFrames, TableKept
  <2> QED
    BY <2>1 DEF StrayEffect, AddsNothing
<1>2. ASSUME NEW c \in Conns, ThreadStep(c)
      PROVE  StrayEffect
  <2>1. CASE ReadFrame(c) \/ ReadMalformed(c)
    BY <1>1, <2>1 DEF ReadFrame, ReadMalformed, ReadNext, table
  <2>2. CASE ReadEnds(c) \/ WriteFails(c)
    <3>1. FramesKept /\ TableKept
      BY <2>2, EndKeepsFrames DEF ReadEnds, WriteFails, table, TableKept
    <3> QED
      BY <3>1 DEF StrayEffect, AddsNothing
  <2>3. CASE WriteFrame(c)
    <3>1. FramesKept /\ TableKept
      BY <2>3, WriteKeepsFrames DEF WriteFrame, table, TableKept
    <3> QED
      BY <3>1 DEF StrayEffect, AddsNothing
  <2> QED
    BY <1>2, <2>1, <2>2, <2>3, RequestStrayEffect, AnswerStrayEffect DEF ThreadStep
<1>3. ASSUME NEW c \in Conns, Accept(c) \/ PeerStep(c) \/ \E d \in Conns : PeerStrays(c, d)
      PROVE  StrayEffect
  BY <1>1, <1>3 DEF Accept, PeerStep, PeerRequest, PeerAnswers, PeerRepeats, PeerSendsMalformed,
       PeerCloses, PeerStrays, PeerSends, table
<1>4. CASE AcceptFails
  <2>1. FramesKept /\ TableKept
    BY <1>4, AcceptFailsKeepsFrames DEF AcceptFails, table, TableKept
  <2> QED
    BY <2>1 DEF StrayEffect, AddsNothing
<1>5. CASE StderrBreaks \/ UNCHANGED vars
  BY <1>1, <1>5 DEF StderrBreaks, vars, table
<1> QED
  BY <1>2, <1>3, <1>4, <1>5 DEF StrayStep, Next


-----------------------------------------------------------------------------
(***************************************************************************)
(* The invariant.  That settings are asked for once is not inductive: the  *)
(* entry an acknowledgement takes must be the only one of its init         *)
(* request, and must have none behind it that has been gone on with.       *)
(***************************************************************************)

\* No two entries continue the same init request, a settings request has left
\* no registration behind, and no two settings requests have one origin.
AskedOnce ==
    /\ \A k, l \in DOMAIN pending_requests : flow[k] = flow[l] => k = l
    /\ \A p \in Places : AsksSettings(p) =>
          /\ FrameAt(p).request_id \in DOMAIN flow
          /\ \A k \in DOMAIN pending_requests :
                flow[k] = OriginAt(p) => pending_requests[k].kind = "EnvironmentSettings"
    /\ \A p, q \in Places :
          AsksSettings(p) /\ AsksSettings(q) /\ OriginAt(p) = OriginAt(q) => p = q

\* An entry remembers the id and the context of its init request.
EntriesKnown ==
    \A k \in DOMAIN pending_requests :
        /\ flow[k].init.action = "DISCOVERY_EXTENSIONS"
        /\ pending_requests[k].init_request_id = flow[k].init.request_id
        /\ pending_requests[k].thread_context = flow[k].init.thread_context

\* Every init request that was answered had an id, was answered once and as it
\* asks for, and has no entry left.
HistoryOK ==
    /\ answered \in Seq([origin: [conn: Conns, init: RequestFrame], response: OutboundFrame])
    /\ \A i \in DOMAIN answered :
          /\ answered[i].origin \in Range(flow)
          /\ answered[i].response = ResponseTo(answered[i].origin.init)
          /\ \A j \in DOMAIN answered : answered[i].origin = answered[j].origin => i = j
          /\ \A k \in DOMAIN pending_requests : answered[i].origin # flow[k]

StrayInv ==
    /\ TypeInv
    /\ RequestsOnce
    /\ FlowDone
    /\ AskedOnce
    /\ EntriesKnown
    /\ HistoryOK

LEMMA PlaceIs ==
  \A p : p \in Places <=> \E c \in Conns : \E i \in DOMAIN HostFrames(c) : p = <<c, i>>
BY DEF Places, Positions

\* Where frames are kept, no place is new and none changes its frame.
LEMMA PlacesKept ==
  ASSUME FramesKept
  PROVE  \A p \in Places' : p \in Places /\ FrameAt(p)' = FrameAt(p)
<1> SUFFICES ASSUME NEW p \in Places'
             PROVE  p \in Places /\ FrameAt(p)' = FrameAt(p)
  OBVIOUS
<1>1. PICK c \in Conns : \E i \in DOMAIN HostFrames(c)' : p = <<c, i>>
  BY DEF Places, Positions
<1>2. PICK i \in DOMAIN HostFrames(c)' : p = <<c, i>>
  BY <1>1
<1>3. i \in DOMAIN HostFrames(c) /\ HostFrames(c)'[i] = HostFrames(c)[i]
  BY DEF FramesKept
<1>4. p[1] = c /\ p[2] = i
  BY <1>2
<1> QED
  BY <1>2, <1>3, <1>4, PlaceIs DEF FrameAt

\* A frame added is at one new place.
LEMMA PlaceAdded ==
  ASSUME TypeInv, NEW c \in Conns, NEW f \in OutboundFrame, FrameAdded(c, f)
  PROVE  \E new :
            /\ new \notin Places
            /\ new[1] = c
            /\ Places' = Places \cup {new}
            /\ FrameAt(new)' = f
            /\ \A p \in Places : FrameAt(p)' = FrameAt(p)
<1> DEFINE n == Len(HostFrames(c)) + 1
<1>1. /\ HostFrames(c) \in Seq(OutboundFrame)
      /\ DOMAIN HostFrames(c) = 1..Len(HostFrames(c))
      /\ Len(HostFrames(c)) \in Nat
  BY HostFramesTyped
<1>2. /\ DOMAIN HostFrames(c)' = DOMAIN HostFrames(c) \cup {n}
      /\ n \notin DOMAIN HostFrames(c)
      /\ HostFrames(c)'[n] = f
      /\ \A i \in DOMAIN HostFrames(c) : HostFrames(c)'[i] = HostFrames(c)[i]
  BY <1>1 DEF FrameAdded
<1>3. \A d \in Conns \ {c} : HostFrames(d)' = HostFrames(d)
  BY DEF FrameAdded
<1> HIDE DEF n
<1>4. <<c, n>> \notin Places
  BY <1>2, PlaceIs
<1>5. Places' = Places \cup {<<c, n>>}
  <2>1. \A p : p \in Places' <=> \E d \in Conns : \E i \in DOMAIN HostFrames(d)' : p = <<d, i>>
    BY DEF Places, Positions
  <2>2. \A p : p \in Places' <=> p \in Places \/ p = <<c, n>>
    BY <1>2, <1>3, <2>1, PlaceIs
  <2> QED
    BY <2>2
<1>6. \A p \in Places : FrameAt(p)' = FrameAt(p)
  <2> SUFFICES ASSUME NEW d \in Conns, NEW i \in DOMAIN HostFrames(d)
               PROVE  HostFrames(d)'[i] = HostFrames(d)[i]
    BY PlaceIs DEF FrameAt
  <2> QED
    BY <1>2, <1>3
<1>7. PICK new : new = <<c, n>>
  OBVIOUS
<1>8. FrameAt(new)' = f
  BY <1>2, <1>7 DEF FrameAt
<1> QED
  BY <1>4, <1>5, <1>6, <1>7, <1>8


(***************************************************************************)
(* Every step keeps it.                                                    *)
(***************************************************************************)

\* A drawn id is new, and gets the origin it is drawn for.
LEMMA DrawAddsOrigin ==
  ASSUME TypeInv, NEW origin, flow' = Insert(flow, next_request_id, origin)
  PROVE  /\ next_request_id \notin DOMAIN flow
         /\ DOMAIN flow' = DOMAIN flow \cup {next_request_id}
         /\ flow'[next_request_id] = origin
         /\ \A k \in DOMAIN flow : flow'[k] = flow[k]
<1>1. next_request_id \in Nat /\ DOMAIN flow = 1..(next_request_id - 1)
  BY DEF TypeInv, TypeOK, TableOK
<1> QED
  BY <1>1 DEF Insert

LEMMA StrayFlowDone ==
  ASSUME TypeInv, FlowDone, DoneKept, StrayEffect
  PROVE  FlowDone'
<1>1. \A l \in DOMAIN flow : flow[l] \in [conn: Conns, init: RequestFrame]
  BY DEF TypeInv, TypeOK, TableOK
<1>2. ASSUME NEW l \in DOMAIN flow, NEW c, NEW init, flow[l].conn = c, flow[l].init = init
      PROVE  Done(c, init)'
  <2>1. c \in Conns /\ Done(c, init)
    BY <1>1, <1>2 DEF FlowDone
  <2> QED
    BY <2>1 DEF Done, DoneKept
<1>3. ASSUME NEW c \in Conns, NEW init, Done(c, init)',
             flow' = Insert(flow, next_request_id, [conn |-> c, init |-> init])
      PROVE  FlowDone'
  <2>1. /\ DOMAIN flow' = DOMAIN flow \cup {next_request_id}
        /\ flow'[next_request_id] = [conn |-> c, init |-> init]
        /\ \A k \in DOMAIN flow : flow'[k] = flow[k]
    BY <1>3, DrawAddsOrigin
  <2> SUFFICES ASSUME NEW k \in DOMAIN flow', NEW d, NEW i, flow'[k].conn = d, flow'[k].init = i
               PROVE  Done(d, i)'
    BY DEF FlowDone
  <2>2. CASE k \in DOMAIN flow
    BY <1>2, <2>1, <2>2
  <2>3. CASE k = next_request_id
    <3>1. d = c /\ i = init
      BY <2>1, <2>3
    <3> QED
      BY <1>3, <3>1
  <2> QED
    BY <2>1, <2>2, <2>3
<1>4. CASE UNCHANGED flow
  <2> SUFFICES ASSUME NEW k \in DOMAIN flow, NEW d, NEW i, flow'[k].conn = d, flow'[k].init = i
               PROVE  Done(d, i)'
    BY <1>4 DEF FlowDone
  <2> QED
    BY <1>2, <1>4
<1>5. ASSUME NEW id \in DOMAIN flow, flow' = Insert(flow, next_request_id, flow[id])
      PROVE  FlowDone'
  <2>1. PICK c \in Conns, init \in RequestFrame : flow[id] = [conn |-> c, init |-> init]
    BY <1>1
  <2>2. flow[id].conn = c /\ flow[id].init = init
    BY <2>1
  <2>3. Done(c, init)'
    BY <1>2, <2>2
  <2> QED
    BY <1>3, <1>5, <2>1, <2>3
<1> QED
  BY <1>3, <1>4, <1>5 DEF StrayEffect, AddsNothing, AddsResponse, OpensFlow, GoesOnFlow, TableKept

LEMMA StrayAskedOnce ==
  ASSUME TypeInv, AskedOnce, StrayEffect
  PROVE  AskedOnce'
<1>1. DOMAIN pending_requests \subseteq DOMAIN flow
  BY DEF TypeInv, TypeOK, TableOK
\* Neither the table nor the settings requests grow.
<1>2. ASSUME TableKept,
             \A p \in Places' : AsksSettings(p)' => p \in Places /\ FrameAt(p)' = FrameAt(p)
      PROVE  AskedOnce'
  <2>1. /\ flow' = flow
        /\ \A k \in DOMAIN pending_requests' :
              k \in DOMAIN pending_requests /\ pending_requests'[k] = pending_requests[k]
    BY <1>2 DEF TableKept
  <2>2. \A p \in Places' : AsksSettings(p)' =>
           p \in Places /\ AsksSettings(p) /\ FrameAt(p)' = FrameAt(p) /\ OriginAt(p)' = OriginAt(p)
    BY <1>2, <2>1 DEF AsksSettings, OriginAt
  <2> QED
    BY <2>1, <2>2 DEF AskedOnce
<1>3. CASE AddsNothing
  BY <1>2, <1>3, PlacesKept DEF AddsNothing
<1>4. ASSUME NEW c \in Conns, NEW f \in OutboundFrame, AddsResponse(c, f)
      PROVE  AskedOnce'
  <2>1. f.kind # "request" /\ FrameAdded(c, f) /\ TableKept
    BY <1>4 DEF AddsResponse, HostResponse
  <2>2. PICK new :
           /\ Places' = Places \cup {new}
           /\ FrameAt(new)' = f
           /\ \A p \in Places : FrameAt(p)' = FrameAt(p)
    BY <2>1, PlaceAdded
  <2>3. ~AsksSettings(new)'
    BY <2>1, <2>2 DEF AsksSettings
  <2>4. \A p \in Places' : p = new => ~AsksSettings(p)'
    BY <2>3 DEF AsksSettings, FrameAt
  <2> QED
    BY <1>2, <2>1, <2>2, <2>4
<1>5. ASSUME NEW c \in Conns, NEW f \in OutboundFrame, NEW init \in RequestFrame,
             OpensFlow(c, f, init)
      PROVE  AskedOnce'
  <2> DEFINE n == next_request_id
             origin == [conn |-> c, init |-> init]
  <2>1. PICK new :
           /\ Places' = Places \cup {new}
           /\ FrameAt(new)' = f
           /\ \A p \in Places : FrameAt(p)' = FrameAt(p)
    BY <1>5, PlaceAdded DEF OpensFlow
  <2>2. /\ n \notin DOMAIN flow
        /\ DOMAIN flow' = DOMAIN flow \cup {n}
        /\ flow'[n] = origin
        /\ \A k \in DOMAIN flow : flow'[k] = flow[k]
        /\ \A k \in DOMAIN flow : flow[k] # origin
    BY <1>5, DrawAddsOrigin DEF OpensFlow, Range
  <2>3. /\ DOMAIN pending_requests' = DOMAIN pending_requests \cup {n}
        /\ \A k \in DOMAIN pending_requests : pending_requests'[k] = pending_requests[k]
    BY <1>1, <1>5, <2>2 DEF OpensFlow, Insert
  <2>4. ASSUME NEW p \in Places', AsksSettings(p)'
        PROVE  p \in Places /\ FrameAt(p)' = FrameAt(p) /\ AsksSettings(p)
    <3>1. FrameAt(p)'.action = "ENVIRONMENT_SETTINGS" /\ FrameAt(p)'.kind = "request"
      BY <2>4 DEF AsksSettings
    <3>2. p # new
      BY <1>5, <2>1, <3>1 DEF OpensFlow, FrameAt
    <3> QED
      BY <2>1, <3>1, <3>2 DEF AsksSettings
  <2>5. ASSUME NEW p \in Places', AsksSettings(p)'
        PROVE  FrameAt(p).request_id \in DOMAIN flow /\ OriginAt(p)' = OriginAt(p)
               /\ FrameAt(p)'.request_id = FrameAt(p).request_id
    BY <2>2, <2>4, <2>5 DEF AskedOnce, OriginAt
  <2> HIDE DEF n, origin
  <2>6. \A k, l \in DOMAIN pending_requests' : flow'[k] = flow'[l] => k = l
    BY <1>1, <2>2, <2>3 DEF AskedOnce
  <2>7. ASSUME NEW p \in Places', AsksSettings(p)', NEW k \in DOMAIN pending_requests',
               flow'[k] = OriginAt(p)'
        PROVE  pending_requests'[k].kind = "EnvironmentSettings"
    <3>1. k # n
      BY <2>2, <2>5, <2>7 DEF OriginAt
    <3> QED
      BY <1>1, <2>2, <2>3, <2>4, <2>5, <2>7, <3>1 DEF AskedOnce
  <2>8. \A p, q \in Places' :
           AsksSettings(p)' /\ AsksSettings(q)' /\ OriginAt(p)' = OriginAt(q)' => p = q
    BY <2>4, <2>5 DEF AskedOnce
  <2> QED
    BY <2>2, <2>5, <2>6, <2>7, <2>8 DEF AskedOnce
<1>6. ASSUME NEW c \in Conns, NEW f \in OutboundFrame, NEW id \in DOMAIN flow, GoesOnFlow(c, f, id)
      PROVE  AskedOnce'
  <2> DEFINE n == next_request_id
  <2>1. PICK new :
           /\ Places' = Places \cup {new}
           /\ FrameAt(new)' = f
           /\ \A p \in Places : FrameAt(p)' = FrameAt(p)
    BY <1>6, PlaceAdded DEF GoesOnFlow
  <2>2. /\ n \notin DOMAIN flow
        /\ DOMAIN flow' = DOMAIN flow \cup {n}
        /\ flow'[n] = flow[id]
        /\ \A k \in DOMAIN flow : flow'[k] = flow[k]
    BY <1>6, DrawAddsOrigin DEF GoesOnFlow
  <2>3. /\ id \in DOMAIN pending_requests /\ pending_requests[id].kind = "RegisterRestActions"
        /\ DOMAIN pending_requests' = (DOMAIN pending_requests \ {id}) \cup {n}
        /\ \A k \in DOMAIN pending_requests \ {id} : pending_requests'[k] = pending_requests[k]
        /\ pending_requests'[n].kind = "EnvironmentSettings"
    BY <1>1, <1>6, <2>2 DEF GoesOnFlow, Insert, Remove, Restrict, SettingsPending
  <2>4. f.request_id = n
    BY <1>6 DEF GoesOnFlow
  <2>5. ASSUME NEW p \in Places', AsksSettings(p)'
        PROVE  \/ /\ p \in Places /\ AsksSettings(p)
                  /\ FrameAt(p)' = FrameAt(p) /\ FrameAt(p).request_id \in DOMAIN flow
                  /\ OriginAt(p)' = OriginAt(p)
                  /\ OriginAt(p) # flow[id]
               \/ p = new /\ FrameAt(p)'.request_id = n /\ OriginAt(p)' = flow[id]
    <3>1. CASE p \in Places
      <4>1. FrameAt(p)' = FrameAt(p) /\ AsksSettings(p)
        BY <2>1, <2>5, <3>1 DEF AsksSettings
      <4>2. FrameAt(p).request_id \in DOMAIN flow /\ OriginAt(p) # flow[id]
        BY <2>3, <3>1, <4>1 DEF AskedOnce
      <4> QED
        BY <2>2, <3>1, <4>1, <4>2 DEF OriginAt
    <3>2. CASE p = new
      <4>1. FrameAt(p)'.request_id = n
        BY <2>1, <2>4, <3>2 DEF FrameAt
      <4> QED
        BY <2>2, <3>2, <4>1 DEF OriginAt
    <3> QED
      BY <2>1, <3>1, <3>2
  <2> HIDE DEF n
  <2>6. \A k, l \in DOMAIN pending_requests' : flow'[k] = flow'[l] => k = l
    BY <1>1, <2>2, <2>3 DEF AskedOnce
  <2>7. ASSUME NEW p \in Places', AsksSettings(p)', NEW k \in DOMAIN pending_requests',
               flow'[k] = OriginAt(p)'
        PROVE  pending_requests'[k].kind = "EnvironmentSettings"
    <3>1. CASE k = n
      BY <2>3, <3>1
    <3>2. CASE k # n
      <4>1. k \in DOMAIN pending_requests /\ k # id /\ pending_requests'[k] = pending_requests[k]
            /\ flow'[k] = flow[k]
        BY <1>1, <2>2, <2>3, <3>2
      <4>2. flow[k] # flow[id]
        BY <2>3, <4>1 DEF AskedOnce
      <4>3. p \in Places /\ AsksSettings(p) /\ flow[k] = OriginAt(p)
        BY <2>5, <2>7, <4>1, <4>2
      <4> QED
        BY <4>1, <4>3 DEF AskedOnce
    <3> QED
      BY <3>1, <3>2
  <2>8. \A p, q \in Places' :
           AsksSettings(p)' /\ AsksSettings(q)' /\ OriginAt(p)' = OriginAt(q)' => p = q
    BY <2>5 DEF AskedOnce
  <2>9. \A p \in Places' : AsksSettings(p)' => FrameAt(p)'.request_id \in DOMAIN flow'
    BY <2>2, <2>5
  <2> QED
    BY <2>6, <2>7, <2>8, <2>9 DEF AskedOnce
<1> QED
  BY <1>3, <1>4, <1>5, <1>6 DEF StrayEffect


\* What entries remember of their init requests is what they are made with.
LEMMA StrayEntriesKnown ==
  ASSUME TypeInv, EntriesKnown, StrayEffect
  PROVE  EntriesKnown'
<1>1. DOMAIN pending_requests \subseteq DOMAIN flow
  BY DEF TypeInv, TypeOK, TableOK
<1>2. CASE TableKept
  BY <1>2 DEF EntriesKnown, TableKept
<1>3. ASSUME NEW c \in Conns, NEW f \in OutboundFrame, NEW init \in RequestFrame,
             OpensFlow(c, f, init)
      PROVE  EntriesKnown'
  <2> DEFINE n == next_request_id
  <2>1. /\ n \notin DOMAIN flow
        /\ flow'[n] = [conn |-> c, init |-> init]
        /\ \A k \in DOMAIN flow : flow'[k] = flow[k]
    BY <1>3, DrawAddsOrigin DEF OpensFlow
  <2>2. /\ DOMAIN pending_requests' = DOMAIN pending_requests \cup {n}
        /\ pending_requests'[n] = RegisterPending(init)
        /\ \A k \in DOMAIN pending_requests : pending_requests'[k] = pending_requests[k]
    BY <1>1, <1>3, <2>1 DEF OpensFlow, Insert
  <2>3. init.action = "DISCOVERY_EXTENSIONS"
    BY <1>3 DEF OpensFlow
  <2> HIDE DEF n
  <2>4. /\ flow'[n].init.action = "DISCOVERY_EXTENSIONS"
        /\ pending_requests'[n].init_request_id = flow'[n].init.request_id
        /\ pending_requests'[n].thread_context = flow'[n].init.thread_context
    BY <2>1, <2>2, <2>3 DEF RegisterPending
  <2> QED
    BY <1>1, <2>1, <2>2, <2>4 DEF EntriesKnown
<1>4. ASSUME NEW c \in Conns, NEW f \in OutboundFrame, NEW id \in DOMAIN flow, GoesOnFlow(c, f, id)
      PROVE  EntriesKnown'
  <2> DEFINE n == next_request_id
  <2>1. /\ n \notin DOMAIN flow
        /\ flow'[n] = flow[id]
        /\ \A k \in DOMAIN flow : flow'[k] = flow[k]
    BY <1>4, DrawAddsOrigin DEF GoesOnFlow
  <2>2. /\ id \in DOMAIN pending_requests
        /\ DOMAIN pending_requests' = (DOMAIN pending_requests \ {id}) \cup {n}
        /\ pending_requests'[n] = SettingsPending(pending_requests[id])
        /\ \A k \in DOMAIN pending_requests \ {id} : pending_requests'[k] = pending_requests[k]
    BY <1>1, <1>4, <2>1 DEF GoesOnFlow, Insert, Remove, Restrict
  <2> HIDE DEF n
  <2>3. /\ flow'[n].init.action = "DISCOVERY_EXTENSIONS"
        /\ pending_requests'[n].init_request_id = flow'[n].init.request_id
        /\ pending_requests'[n].thread_context = flow'[n].init.thread_context
    BY <2>1, <2>2 DEF SettingsPending, EntriesKnown
  <2> QED
    BY <1>1, <2>1, <2>2, <2>3 DEF EntriesKnown
<1> QED
  BY <1>2, <1>3, <1>4 DEF StrayEffect, AddsNothing, AddsResponse


(***************************************************************************)
(* The history of answered init requests.                                  *)
(***************************************************************************)

\* No place gets a response to an init request.
NoneReturned ==
    \A p \in Places' :
        FrameAt(p)'.kind = "response" /\ FrameAt(p)'.to = "DISCOVERY_EXTENSIONS" =>
           p \in Places /\ FrameAt(p)' = FrameAt(p)

LEMMA RecordsNothing ==
  ASSUME Recorded, NoneReturned
  PROVE  answered' = answered
<1>1. \A p \in InitResponses' : p \in InitResponses
  BY DEF InitResponses, FrameAt, NoneReturned
<1>2. InitResponses' \ InitResponses = {}
  BY <1>1
<1> QED
  BY <1>2 DEF Recorded

LEMMA RecordsResponse ==
  ASSUME TypeInv, NEW c \in Conns, NEW f \in OutboundFrame, FrameAdded(c, f), Recorded,
         f.kind = "response", f.to = "DISCOVERY_EXTENSIONS"
  PROVE  answered' = Append(answered, [origin   |-> flow[Frame(c).request_id],
                                       response |-> f])
<1>1. PICK new :
         /\ new \notin Places
         /\ new[1] = c
         /\ Places' = Places \cup {new}
         /\ FrameAt(new)' = f
         /\ \A p \in Places : FrameAt(p)' = FrameAt(p)
  BY PlaceAdded
<1>2. InitResponses' \ InitResponses = {new}
  BY <1>1 DEF InitResponses, FrameAt
<1>3. PICK p \in {new} :
         answered' = Append(answered, [origin   |-> flow[Frame(p[1]).request_id],
                                       response |-> FrameAt(p)'])
  BY <1>2 DEF Recorded
<1>4. FrameAt(p)' = f /\ p[1] = c
  BY <1>1, <1>3 DEF FrameAt
<1> QED
  BY <1>3, <1>4

LEMMA StrayHistory ==
  ASSUME TypeInv, TypeInv', AskedOnce, EntriesKnown, HistoryOK, StrayEffect, Recorded
  PROVE  HistoryOK'
<1>1. DOMAIN pending_requests \subseteq DOMAIN flow
  BY DEF TypeInv, TypeOK, TableOK
\* The table shrinks, or stays.
<1>2. ASSUME TableKept, NoneReturned
      PROVE  HistoryOK'
  <2>1. answered' = answered
    BY <1>2, RecordsNothing
  <2> QED
    BY <1>2, <2>1 DEF HistoryOK, TableKept
<1>3. CASE AddsNothing
  BY <1>2, <1>3, PlacesKept DEF AddsNothing, NoneReturned
<1>4. ASSUME NEW c \in Conns, NEW f \in OutboundFrame, FrameAdded(c, f),
             f.kind = "request" \/ f.to # "DISCOVERY_EXTENSIONS"
      PROVE  NoneReturned
  <2>1. PICK new :
           /\ Places' = Places \cup {new}
           /\ FrameAt(new)' = f
           /\ \A p \in Places : FrameAt(p)' = FrameAt(p)
    BY <1>4, PlaceAdded
  <2> QED
    BY <1>4, <2>1 DEF FrameAt, NoneReturned
<1>5. ASSUME NEW c \in Conns, NEW f \in OutboundFrame, AddsResponse(c, f)
      PROVE  HistoryOK'
  <2>1. FrameAdded(c, f) /\ TableKept /\ f.kind = "response"
    BY <1>5 DEF AddsResponse, HostResponse
  <2>2. CASE f.to # "DISCOVERY_EXTENSIONS"
    BY <1>2, <1>4, <2>1, <2>2
  <2>3. CASE f.to = "DISCOVERY_EXTENSIONS"
    <3> DEFINE id == Frame(c).request_id
               new == [origin |-> flow[id], response |-> f]
               n == Len(answered) + 1
    <3>1. AnswersEntry(f, id)
      BY <1>5, <2>3 DEF AddsResponse
    <3>2. answered' = Append(answered, new)
      BY <2>1, <2>3, RecordsResponse
    <3>3. /\ id \in DOMAIN pending_requests /\ id \in DOMAIN flow
          /\ id \notin DOMAIN pending_requests'
          /\ flow[id] \in [conn: Conns, init: RequestFrame]
      BY <1>1, <3>1 DEF AnswersEntry, TypeInv, TypeOK, TableOK
    <3>4. f = ResponseTo(flow[id].init)
      BY <3>1, <3>3 DEF AnswersEntry, EntriesKnown, InitializeResponse, ResponseTo
    <3>5. new \in [origin: [conn: Conns, init: RequestFrame], response: OutboundFrame]
      BY <3>3
    <3>6. /\ new.origin = flow[id]
          /\ new.response = f
      OBVIOUS
    <3> HIDE DEF new
    <3>7. /\ answered' \in Seq([origin: [conn: Conns, init: RequestFrame],
                                response: OutboundFrame])
          /\ DOMAIN answered' = DOMAIN answered \cup {n}
          /\ answered'[n] = new
          /\ \A i \in DOMAIN answered : answered'[i] = answered[i]
          /\ n \notin DOMAIN answered
      BY <3>2, <3>5 DEF HistoryOK
    <3> HIDE DEF n, id
    <3>8. /\ flow' = flow
          /\ \A k \in DOMAIN pending_requests' : k \in DOMAIN pending_requests
      BY <2>1 DEF TableKept
    <3>9. flow[id] \in Range(flow)
      BY <3>3 DEF Range
    <3>10. \A i \in DOMAIN answered : answered[i].origin # flow[id]
      BY <3>3 DEF HistoryOK
    <3>11. \A k \in DOMAIN pending_requests' : flow[id] # flow[k]
      BY <3>3, <3>8 DEF AskedOnce
    <3> QED
      BY <3>4, <3>6, <3>7, <3>8, <3>9, <3>10, <3>11 DEF HistoryOK
  <2> QED
    BY <2>2, <2>3
<1>6. ASSUME NEW c \in Conns, NEW f \in OutboundFrame, NEW init \in RequestFrame,
             OpensFlow(c, f, init)
      PROVE  HistoryOK'
  <2> DEFINE n == next_request_id
             origin == [conn |-> c, init |-> init]
  <2>1. answered' = answered
    BY <1>4, <1>6, RecordsNothing DEF OpensFlow
  <2>2. /\ n \notin DOMAIN flow
        /\ DOMAIN flow' = DOMAIN flow \cup {n}
        /\ flow'[n] = origin
        /\ \A k \in DOMAIN flow : flow'[k] = flow[k]
        /\ origin \notin Range(flow)
    BY <1>6, DrawAddsOrigin DEF OpensFlow
  <2>3. DOMAIN pending_requests' = DOMAIN pending_requests \cup {n}
    BY <1>6 DEF OpensFlow, Insert
  <2> HIDE DEF n, origin
  <2>4. \A o \in Range(flow) : o \in Range(flow') /\ o # origin
    BY <2>2 DEF Range
  <2> QED
    BY <1>1, <2>1, <2>2, <2>3, <2>4 DEF HistoryOK
<1>7. ASSUME NEW c \in Conns, NEW f \in OutboundFrame, NEW id \in DOMAIN flow, GoesOnFlow(c, f, id)
      PROVE  HistoryOK'
  <2> DEFINE n == next_request_id
  <2>1. answered' = answered
    BY <1>4, <1>7, RecordsNothing DEF GoesOnFlow
  <2>2. /\ n \notin DOMAIN flow
        /\ DOMAIN flow' = DOMAIN flow \cup {n}
        /\ flow'[n] = flow[id]
        /\ \A k \in DOMAIN flow : flow'[k] = flow[k]
    BY <1>7, DrawAddsOrigin DEF GoesOnFlow
  <2>3. /\ id \in DOMAIN pending_requests
        /\ DOMAIN pending_requests' = (DOMAIN pending_requests \ {id}) \cup {n}
    BY <1>7 DEF GoesOnFlow, Insert, Remove, Restrict
  <2> HIDE DEF n
  <2>4. \A o \in Range(flow) : o \in Range(flow')
    BY <2>2 DEF Range
  <2> QED
    BY <1>1, <2>1, <2>2, <2>3, <2>4 DEF HistoryOK
<1> QED
  BY <1>3, <1>5, <1>6, <1>7 DEF StrayEffect

LEMMA InitStray == StrayInit => StrayInv
<1> SUFFICES ASSUME StrayInit PROVE StrayInv
  OBVIOUS
<1> USE DEF StrayInit
<1>1. \A c \in Conns : HostFrames(c) = <<>> /\ DOMAIN HostFrames(c) = {}
  BY ConcatEmptySeq, EmptySeq DEF Init, HostFrames
<1>2. Places = {}
  BY <1>1, PlaceIs
<1>3. DOMAIN pending_requests = {} /\ DOMAIN flow = {} /\ \A c \in Conns : DOMAIN toHost[c] = {}
  BY DEF Init
<1>4. AskedOnce /\ EntriesKnown
  BY <1>2, <1>3 DEF AskedOnce, EntriesKnown
<1>5. answered = <<>> /\ DOMAIN answered = {}
  BY EmptySeq
<1>6. HistoryOK
  BY <1>5 DEF HistoryOK
<1>7. RequestsOnce /\ FlowDone
  BY <1>3 DEF RequestsOnce, FlowDone
<1> QED
  BY <1>4, <1>6, <1>7, InitTyped DEF StrayInv

LEMMA StrayInvariant == StraySpec => []StrayInv
<1>1. StrayInv /\ [StrayNext]_strayVars => StrayInv'
  <2> SUFFICES ASSUME StrayInv, [StrayNext]_strayVars PROVE StrayInv'
    OBVIOUS
  <2>1. CASE StrayNext
    <3>1. Recorded /\ [StrayStep]_vars
      BY <2>1 DEF StrayNext
    <3>2. TypeInv' /\ RequestsOnce'
      BY <3>1, StrayTyped, StrayRequestsOnce DEF StrayInv
    <3>3. StrayEffect /\ DoneKept
      BY <3>1, <3>2, StrayNextEffect, StrayReads DEF StrayInv
    <3> QED
      BY <3>1, <3>2, <3>3, StrayFlowDone, StrayAskedOnce, StrayEntriesKnown, StrayHistory
         DEF StrayInv
  <2>2. CASE UNCHANGED strayVars
    <3>1. [StrayStep]_vars /\ UNCHANGED answered
      BY <2>2 DEF strayVars
    <3>2. TypeInv' /\ RequestsOnce'
      BY <3>1, StrayTyped, StrayRequestsOnce DEF StrayInv
    <3>3. StrayEffect /\ DoneKept
      BY <3>1, <3>2, StrayNextEffect, StrayReads DEF StrayInv
    <3>4. HistoryOK'
      BY <2>2 DEF strayVars, vars, StrayInv, HistoryOK
    <3> QED
      BY <3>2, <3>3, <3>4, StrayFlowDone, StrayAskedOnce, StrayEntriesKnown DEF StrayInv
  <2> QED
    BY <2>1, <2>2
<1> QED
  BY <1>1, InitStray, PTL DEF StraySpec

\* Wherever answers come in, for each init request the settings are asked for
\* at most once, at most one entry continues it, at most one response is ever
\* returned, with its id and context, and none while an entry is left
\* (handle_response takes the entry before it goes on).
THEOREM NeverTwice == StraySpec => []ContinuedOnce
<1>1. StrayInv => ContinuedOnce
  BY DEF StrayInv, AskedOnce, HistoryOK, ContinuedOnce
<1> QED
  BY <1>1, StrayInvariant, PTL

=============================================================================
