------------------------- MODULE ExtensionHostProofs -------------------------
(***************************************************************************)
(* Theorems about ExtensionHost, for every set of connections, contexts,   *)
(* feature lists and peer requests, and for every setting of its switches. *)
(***************************************************************************)
EXTENDS ExtensionHost, SequenceTheorems, TLAPS

-----------------------------------------------------------------------------
(***************************************************************************)
(* Facts about the helpers of the model.                                   *)
(***************************************************************************)

\* Reading a malformed frame ends the thread.
LEMMA ReadOutcomeEnds ==
  ASSUME NEW frame \in InboundFrame, frame.kind = "malformed"
  PROVE  ReadOutcome(frame.defect) \in Ended
<1>1. frame \in MalformedFrame
  BY DEF InboundFrame, RequestFrame, AnswerFrame
<1>2. frame.defect \in {"prefix", "short_length", "long_variable", "cut_variable"}
  BY <1>1, PeersAssumption DEF MalformedFrame
<1> QED
  BY <1>2 DEF ReadOutcome, Ended

\* The frames handlers return are frames the host may write.
LEMMA FramesTyped ==
  /\ \A request \in RequestFrame, id \in Nat :
        /\ ResponseTo(request) \in OutboundFrame
        /\ RegisterRequest(id, request) \in OutboundFrame
        /\ RegisterPending(request) \in PendingRequest
  /\ \A pending \in PendingRequest, id \in Nat :
        /\ InitializeResponse(pending) \in OutboundFrame
        /\ SettingsPending(pending) \in PendingRequest
        /\ pending.kind = "RegisterRestActions" => SettingsRequest(id, pending) \in OutboundFrame
<1>1. \A request \in RequestFrame, id \in Nat :
        /\ ResponseTo(request) \in HostResponse
        /\ RegisterRequest(id, request) \in HostRequest
        /\ RegisterPending(request) \in PendingRequest
  BY DEF RequestFrame, HostResponse, HostRequest, PendingRequest, ResponseTo, RegisterRequest,
         RegisterPending, HostActions
<1>2. \A pending \in PendingRequest, id \in Nat :
        /\ InitializeResponse(pending) \in HostResponse
        /\ SettingsPending(pending) \in PendingRequest
        /\ pending.kind = "RegisterRestActions" => SettingsRequest(id, pending) \in HostRequest
  BY DEF PendingRequest, InitializeResponse, HostResponse, SettingsPending, SettingsRequest,
         HostRequest, HostActions, PeerActions
<1> QED
  BY <1>1, <1>2 DEF OutboundFrame

-----------------------------------------------------------------------------
(***************************************************************************)
(* Type correctness.  A thread's place in its loop has to be known as well *)
(* as the types: what Frame and Head return depends on it.                 *)
(***************************************************************************)

\* A handling thread has a frame in hand, a writing thread a frame to write,
\* and no other thread keeps frames back.
InStep(c) ==
    /\ pc[c] = "handling" => received[c] > 0 /\ Frame(c).kind # "malformed"
    /\ pc[c] = "writing" <=> outbound[c] # <<>>

TypeInv == TypeOK /\ \A c \in Conns : InStep(c)

LEMMA InitTyped == Init => TypeInv
<1> SUFFICES ASSUME Init PROVE TypeInv
  OBVIOUS
<1>1. TableOK
  <2>1. DOMAIN pending_requests = {} /\ DOMAIN flow = {}
    BY DEF Init
  <2>2. pending_requests \in [DOMAIN pending_requests -> PendingRequest]
    BY <2>1 DEF Init
  <2>3. flow \in [DOMAIN flow -> [conn: Conns, init: RequestFrame]]
    BY <2>1 DEF Init
  <2>4. 1..(next_request_id - 1) = {} /\ next_request_id \in Nat \ {0}
    BY DEF Init
  <2> QED
    BY <2>1, <2>2, <2>3, <2>4 DEF Init, TableOK
<1>2. ThreadsOK
  BY DEF Init, ThreadsOK
<1>3. ChannelsOK
  BY DEF Init, ChannelsOK
<1>4. \A c \in Conns : InStep(c)
  BY DEF Init, InStep
<1> QED
  BY <1>1, <1>2, <1>3, <1>4 DEF TypeInv, TypeOK, Init

\* The thread goes back to its loop with what a handler returned.
LEMMA ReturnTyped ==
  ASSUME TypeInv, NEW c \in Conns, NEW frames \in Seq(OutboundFrame), Return(c, frames),
         UNCHANGED <<received, toHost>>
  PROVE  ThreadsOK' /\ \A d \in Conns : InStep(d)'
<1>1. /\ ThreadsOK'
      /\ outbound'[c] = frames
      /\ pc'[c] = IF frames = <<>> THEN "reading" ELSE "writing"
  BY DEF TypeInv, TypeOK, ThreadsOK, Return, Running
<1>2. InStep(c)'
  BY <1>1 DEF InStep
<1>3. ASSUME NEW d \in Conns, d # c
      PROVE  InStep(d)'
  BY <1>3 DEF TypeInv, TypeOK, ThreadsOK, Return, InStep, Frame
<1> QED
  BY <1>1, <1>2, <1>3

LEMMA ReturnOneTyped ==
  ASSUME TypeInv, NEW c \in Conns, NEW f \in OutboundFrame, Return(c, <<f>>),
         UNCHANGED <<received, toHost>>
  PROVE  ThreadsOK' /\ \A d \in Conns : InStep(d)'
<1>1. <<f>> \in Seq(OutboundFrame)
  OBVIOUS
<1> QED
  BY <1>1, ReturnTyped

LEMMA ReturnNoneTyped ==
  ASSUME TypeInv, NEW c \in Conns, Return(c, <<>>), UNCHANGED <<received, toHost>>
  PROVE  ThreadsOK' /\ \A d \in Conns : InStep(d)'
<1>1. <<>> \in Seq(OutboundFrame)
  OBVIOUS
<1> QED
  BY <1>1, ReturnTyped

\* The thread ends.
LEMMA EndThreadTyped ==
  ASSUME TypeInv, NEW c \in Conns, NEW how \in Ended, EndThread(c, how),
         UNCHANGED <<received, toHost>>
  PROVE  ThreadsOK' /\ \A d \in Conns : InStep(d)'
<1>1. ThreadsOK' /\ outbound'[c] = <<>> /\ pc'[c] = how
  BY DEF TypeInv, TypeOK, ThreadsOK, EndThread
<1>2. InStep(c)'
  BY <1>1 DEF InStep, Ended
<1>3. ASSUME NEW d \in Conns, d # c
      PROVE  InStep(d)'
  BY <1>3 DEF TypeInv, TypeOK, ThreadsOK, EndThread, InStep, Frame
<1> QED
  BY <1>1, <1>2, <1>3

\* The frame in a handler's hand is what the handler takes it for.
LEMMA FrameInHand ==
  ASSUME TypeInv, NEW c \in Conns, pc[c] = "handling"
  PROVE  /\ received[c] \in 1..Len(toHost[c])
         /\ Frame(c) = toHost[c][received[c]]
         /\ Frame(c).kind = "request" => Frame(c) \in RequestFrame
         /\ Frame(c).kind = "answer" => Frame(c) \in AnswerFrame
<1>1. received[c] \in 1..Len(toHost[c])
  BY DEF TypeInv, TypeOK, ThreadsOK, ChannelsOK, InStep
<1>2. Frame(c) \in InboundFrame
  BY <1>1 DEF TypeInv, TypeOK, ChannelsOK, Frame
<1> QED
  BY <1>1, <1>2 DEF InboundFrame, RequestFrame, AnswerFrame, MalformedFrame, Frame

\* A new id is allocated and a continuation kept under it.
LEMMA AllocateTyped ==
  ASSUME TableOK,
         NEW entries, DOMAIN entries \subseteq DOMAIN flow,
         entries \in [DOMAIN entries -> PendingRequest],
         NEW entry \in PendingRequest, NEW origin \in [conn: Conns, init: RequestFrame],
         next_request_id' = IdAfter(next_request_id),
         pending_requests' = Insert(entries, next_request_id, entry),
         flow' = Insert(flow, next_request_id, origin),
         UNCHANGED poisoned
  PROVE  TableOK'
<1>1. /\ next_request_id \in Nat \ {0}
      /\ next_request_id' = next_request_id + 1
      /\ next_request_id' - 1 = next_request_id
  BY DEF TableOK, IdAfter
<1>2. /\ flow' \in [DOMAIN flow \cup {next_request_id} -> [conn: Conns, init: RequestFrame]]
      /\ DOMAIN flow' = DOMAIN flow \cup {next_request_id}
  BY DEF TableOK, Insert
<1>3. DOMAIN flow' = 1..(next_request_id' - 1)
  BY <1>1, <1>2 DEF TableOK
<1>4. /\ pending_requests' \in [DOMAIN entries \cup {next_request_id} -> PendingRequest]
      /\ DOMAIN pending_requests' = DOMAIN entries \cup {next_request_id}
  BY DEF Insert
<1> QED
  BY <1>1, <1>2, <1>3, <1>4 DEF TableOK

\* A continuation is taken out of the table.
LEMMA TakeTyped ==
  ASSUME TableOK, NEW id, pending_requests' = Remove(pending_requests, id),
         poisoned' \in BOOLEAN, UNCHANGED <<next_request_id, flow>>
  PROVE  TableOK'
<1>1. /\ pending_requests' \in [DOMAIN pending_requests \ {id} -> PendingRequest]
      /\ DOMAIN pending_requests' = DOMAIN pending_requests \ {id}
  BY DEF TableOK, Remove, Restrict
<1> QED
  BY <1>1 DEF TableOK

\* The entry an answer finds in the table.
LEMMA PendingTaken ==
  ASSUME TypeInv, NEW c \in Conns, NEW kind, TakePending(c, kind)
  PROVE  /\ pc[c] = "handling"
         /\ Frame(c).kind = "answer"
         /\ Frame(c).request_id \in DOMAIN pending_requests
         /\ Frame(c).request_id \in DOMAIN flow
         /\ pending_requests[Frame(c).request_id] \in PendingRequest
         /\ pending_requests[Frame(c).request_id].kind = kind
         /\ flow[Frame(c).request_id] \in [conn: Conns, init: RequestFrame]
         /\ UNCHANGED <<serving, stderrOpen, received, toHost, wire, peerOpen>>
  BY DEF TypeInv, TypeOK, TableOK, TakePending, HandlingAnswer, process, peers

\* A handler that leaves the table alone and returns at most one frame.
LEMMA ReplyTyped ==
  ASSUME TypeInv, NEW c \in Conns,
         \/ Return(c, <<>>)
         \/ \E f \in OutboundFrame : Return(c, <<f>>),
         UNCHANGED <<table, process, received, peers, wire, flow>>
  PROVE  TypeInv'
<1>1. ThreadsOK' /\ \A d \in Conns : InStep(d)'
  BY ReturnOneTyped, ReturnNoneTyped DEF peers
<1> QED
  BY <1>1 DEF TypeInv, TypeOK, TableOK, ChannelsOK, table, process, peers

\* A thread that ends and leaves the table alone.
LEMMA GiveUpTyped ==
  ASSUME TypeInv, NEW c \in Conns, NEW how \in Ended, EndThread(c, how),
         UNCHANGED <<table, process, received, peers, wire, flow>>
  PROVE  TypeInv'
<1>1. ThreadsOK' /\ \A d \in Conns : InStep(d)'
  BY EndThreadTyped DEF peers
<1> QED
  BY <1>1 DEF TypeInv, TypeOK, TableOK, ChannelsOK, table, process, peers

LEMMA HandleRequestTyped ==
  ASSUME TypeInv, NEW c \in Conns, HandleRequest(c)
  PROVE  TypeInv'
<1>1. ASSUME NEW action, HandlingRequest(c, action)
      PROVE  /\ Frame(c) \in RequestFrame
             /\ ResponseTo(Frame(c)) \in OutboundFrame
             /\ UNCHANGED <<process, received, peers, wire>>
  BY <1>1, FrameInHand, FramesTyped DEF HandlingRequest
<1>2. CASE HandleTcpHandshake(c)
  BY <1>1, <1>2, ReplyTyped DEF HandleTcpHandshake
<1>3. CASE HandleTransportHandshake(c)
  BY <1>1, <1>3, ReplyTyped DEF HandleTransportHandshake
<1>4. CASE HandleInitializeExtension(c)
  <2>1. Frame(c) \in RequestFrame /\ UNCHANGED <<process, received, peers, wire>>
    BY <1>1, <1>4 DEF HandleInitializeExtension
  <2>2. next_request_id \in Nat /\ TableOK
    BY DEF TypeInv, TypeOK, TableOK
  <2>3. /\ RegisterPending(Frame(c)) \in PendingRequest
        /\ RegisterRequest(next_request_id, Frame(c)) \in OutboundFrame
    BY <2>1, <2>2, FramesTyped
  <2>4. TableOK'
    <3>1. [conn |-> c, init |-> Frame(c)] \in [conn: Conns, init: RequestFrame]
      BY <2>1
    <3> QED
      BY <1>4, <2>2, <2>3, <3>1, AllocateTyped DEF HandleInitializeExtension, TableOK
  <2>5. ThreadsOK' /\ \A d \in Conns : InStep(d)'
    BY <1>4, <2>1, <2>3, ReturnOneTyped DEF HandleInitializeExtension, peers
  <2> QED
    BY <2>1, <2>4, <2>5 DEF TypeInv, TypeOK, ChannelsOK, process, peers
<1>5. CASE InitializeExtensionFails(c)
  BY <1>1, <1>5, GiveUpTyped DEF InitializeExtensionFails, Ended
<1>6. CASE HandleRestExecute(c)
  BY <1>1, <1>6, ReplyTyped DEF HandleRestExecute
<1>7. CASE RestExecuteFails(c)
  BY <1>1, <1>7, GiveUpTyped DEF RestExecuteFails, Ended
<1>8. CASE IgnoreUnknownAction(c)
  BY <1>1, <1>8, ReplyTyped DEF IgnoreUnknownAction
<1> QED
  BY <1>2, <1>3, <1>4, <1>5, <1>6, <1>7, <1>8 DEF HandleRequest

LEMMA HandleAnswerTyped ==
  ASSUME TypeInv, NEW c \in Conns, HandleAnswer(c)
  PROVE  TypeInv'
<1>1. CASE AnswerAfterPoison(c)
  BY <1>1, GiveUpTyped DEF AnswerAfterPoison, HandlingAnswer, Ended
<1>2. CASE IgnoreUnknownAnswer(c)
  BY <1>2, ReplyTyped DEF IgnoreUnknownAnswer, HandlingAnswer
<1>3. ASSUME TableOK', ThreadsOK', \A d \in Conns : InStep(d)',
             UNCHANGED <<serving, stderrOpen, received, toHost, wire, peerOpen>>
      PROVE  TypeInv'
  BY <1>3 DEF TypeInv, TypeOK, ChannelsOK
<1>4. TableOK
  BY DEF TypeInv, TypeOK
<1>5. CASE AcknowledgementFails(c)
  <2>1. TableOK'
    BY <1>4, <1>5, TakeTyped DEF AcknowledgementFails, TableOK
  <2>2. ThreadsOK' /\ \A d \in Conns : InStep(d)'
    BY <1>5, EndThreadTyped, PendingTaken DEF AcknowledgementFails, Ended
  <2> QED
    BY <1>3, <1>5, <2>1, <2>2, PendingTaken DEF AcknowledgementFails
<1>6. CASE TracePoisons(c)
  <2>1. TableOK'
    BY <1>4, <1>6, TakeTyped DEF TracePoisons
  <2>2. UNCHANGED <<serving, stderrOpen, received, toHost, wire, peerOpen>>
    BY <1>6, PendingTaken DEF TracePoisons
  <2>3. ThreadsOK' /\ \A d \in Conns : InStep(d)'
    BY <1>6, <2>2, EndThreadTyped DEF TracePoisons, Ended
  <2> QED
    BY <1>3, <2>1, <2>2, <2>3
<1>7. CASE RegistrationRefused(c)
  <2>1. TableOK'
    BY <1>4, <1>7, TakeTyped DEF RegistrationRefused, TableOK
  <2>2. UNCHANGED <<serving, stderrOpen, received, toHost, wire, peerOpen>>
    BY <1>7, PendingTaken DEF RegistrationRefused
  <2>3. ThreadsOK' /\ \A d \in Conns : InStep(d)'
    BY <1>7, <2>2, ReturnNoneTyped DEF RegistrationRefused
  <2> QED
    BY <1>3, <2>1, <2>2, <2>3
<1>8. CASE RegistrationAcknowledged(c)
  <2> DEFINE answered == Frame(c).request_id
             pending == pending_requests[answered]
             rest == Remove(pending_requests, answered)
  <2>1. /\ pending \in PendingRequest /\ pending.kind = "RegisterRestActions"
        /\ flow[answered] \in [conn: Conns, init: RequestFrame]
        /\ UNCHANGED <<serving, stderrOpen, received, toHost, wire, peerOpen>>
    BY <1>8, PendingTaken DEF RegistrationAcknowledged
  <2>2. next_request_id \in Nat
    BY <1>4 DEF TableOK
  <2>3. /\ SettingsPending(pending) \in PendingRequest
        /\ SettingsRequest(next_request_id, pending) \in OutboundFrame
    BY <2>1, <2>2, FramesTyped
  <2>4. DOMAIN rest \subseteq DOMAIN flow /\ rest \in [DOMAIN rest -> PendingRequest]
    BY <1>4 DEF TableOK, Remove, Restrict
  <2>5. TableOK'
    BY <1>4, <1>8, <2>1, <2>3, <2>4, AllocateTyped DEF RegistrationAcknowledged
  <2>6. ThreadsOK' /\ \A d \in Conns : InStep(d)'
    BY <1>8, <2>1, <2>3, ReturnOneTyped DEF RegistrationAcknowledged
  <2> QED
    BY <1>3, <2>1, <2>5, <2>6
<1>9. CASE EnvironmentSettingsReceived(c)
  <2>1. /\ pending_requests[Frame(c).request_id] \in PendingRequest
        /\ UNCHANGED <<serving, stderrOpen, received, toHost, wire, peerOpen>>
    BY <1>9, PendingTaken DEF EnvironmentSettingsReceived
  <2>2. TableOK'
    BY <1>4, <1>9, TakeTyped DEF EnvironmentSettingsReceived, TableOK
  <2>3. InitializeResponse(pending_requests[Frame(c).request_id]) \in OutboundFrame
    BY <2>1, FramesTyped
  <2>4. ThreadsOK' /\ \A d \in Conns : InStep(d)'
    BY <1>9, <2>1, <2>3, ReturnOneTyped DEF EnvironmentSettingsReceived
  <2> QED
    BY <1>3, <2>1, <2>2, <2>4
<1> QED
  BY <1>1, <1>2, <1>5, <1>6, <1>7, <1>8, <1>9 DEF HandleAnswer

LEMMA ReadTyped ==
  ASSUME TypeInv, NEW c \in Conns, ReadFrame(c) \/ ReadMalformed(c) \/ ReadEnds(c)
  PROVE  TypeInv'
<1> USE DEF TypeInv, TypeOK
<1>1. CASE ReadEnds(c)
  BY <1>1, GiveUpTyped DEF ReadEnds, Ended
<1>2. CASE ReadFrame(c) \/ ReadMalformed(c)
  <2>1. /\ pc[c] = "reading"
        /\ received[c] \in Nat /\ received[c] < Len(toHost[c])
        /\ received' = [received EXCEPT ![c] = @ + 1]
        /\ UNCHANGED <<table, process, outbound, peers, wire, flow>>
    BY <1>2 DEF ReadFrame, ReadMalformed, ReadNext, ThreadsOK
  <2>2. received[c] + 1 \in 1..Len(toHost[c]) /\ toHost[c] \in Seq(InboundFrame)
    BY <2>1 DEF ChannelsOK
  <2>3. toHost[c][received[c] + 1] \in InboundFrame
    BY <2>2
  <2>4. \E next \in {"handling"} \cup Ended :
           /\ pc' = [pc EXCEPT ![c] = next]
           /\ next = "handling" => toHost[c][received[c] + 1].kind # "malformed"
    <3>1. CASE ReadFrame(c)
      BY <3>1 DEF ReadFrame, Ended
    <3>2. CASE ReadMalformed(c)
      BY <3>2, <2>3, ReadOutcomeEnds DEF ReadMalformed, Ended
    <3> QED
      BY <1>2, <3>1, <3>2
  <2>5. TableOK' /\ ThreadsOK' /\ ChannelsOK'
    BY <2>1, <2>2, <2>4, SMTT(30) DEF TableOK, ThreadsOK, ChannelsOK, table, process, peers, Running
  <2>6. InStep(c)'
    BY <2>1, <2>4 DEF InStep, ThreadsOK, Frame, peers, Ended
  <2>7. ASSUME NEW d \in Conns, d # c
        PROVE  InStep(d)'
    BY <2>1, <2>4, <2>7 DEF InStep, ThreadsOK, Frame, peers
  <2> QED
    BY <2>1, <2>5, <2>6, <2>7 DEF process
<1> QED
  BY <1>1, <1>2

LEMMA WriteTyped ==
  ASSUME TypeInv, NEW c \in Conns, WriteFrame(c) \/ WriteFails(c)
  PROVE  TypeInv'
<1>1. CASE WriteFails(c)
  BY <1>1, GiveUpTyped DEF WriteFails, Ended
<1>2. CASE WriteFrame(c)
  <2>1. outbound[c] # <<>> /\ outbound[c] \in Seq(OutboundFrame)
    BY <1>2 DEF WriteFrame, TypeInv, TypeOK, ThreadsOK, InStep
  <2>2. Head(outbound[c]) \in OutboundFrame /\ Tail(outbound[c]) \in Seq(OutboundFrame)
    BY <2>1
  <2>3. ThreadsOK' /\ \A d \in Conns : InStep(d)'
    BY <1>2, <2>2, ReturnTyped DEF WriteFrame, peers
  <2>4. ChannelsOK'
    BY <1>2, <2>2 DEF WriteFrame, TypeInv, TypeOK, ChannelsOK, peers
  <2> QED
    BY <1>2, <2>3, <2>4 DEF WriteFrame, TypeInv, TypeOK, TableOK, table, process
<1> QED
  BY <1>1, <1>2

\* Appending to what the peer sent moves no frame a thread has in hand.
LEMMA PeerSendsTyped ==
  ASSUME TypeInv, NEW c \in Conns, NEW frame \in InboundFrame, PeerSends(c, frame)
  PROVE  TypeInv'
<1> USE DEF TypeInv, TypeOK
<1>1. /\ toHost[c] \in Seq(InboundFrame)
      /\ toHost' = [toHost EXCEPT ![c] = Append(@, frame)]
      /\ UNCHANGED <<table, process, pc, outbound, received, wire, peerOpen, flow>>
  BY DEF PeerSends, ChannelsOK
<1>2. TableOK' /\ ThreadsOK' /\ ChannelsOK'
  BY <1>1 DEF TableOK, ThreadsOK, ChannelsOK, table
<1>3. ASSUME NEW d \in Conns, pc[d] = "handling"
      PROVE  Frame(d)' = Frame(d)
  <2>1. received[d] \in 1..Len(toHost[d])
    BY <1>3, FrameInHand
  <2>2. toHost'[d][received[d]] = toHost[d][received[d]]
    BY <1>1, <2>1 DEF ChannelsOK
  <2> QED
    BY <1>1, <2>2 DEF Frame
<1>4. \A d \in Conns : InStep(d)'
  BY <1>1, <1>3 DEF InStep
<1> QED
  BY <1>1, <1>2, <1>4 DEF process

\* An answer of a peer is a frame the host may receive.
LEMMA AnswersTyped ==
  ASSUME TypeInv, NEW c \in Conns, NEW i \in DOMAIN wire[c], wire[c][i].kind = "request",
         NEW answer \in AnswersTo(wire[c][i])
  PROVE  answer \in InboundFrame
<1>1. wire[c][i] \in OutboundFrame
  BY DEF TypeInv, TypeOK, ChannelsOK
<1>2. wire[c][i].request_id \in Nat
  BY <1>1 DEF OutboundFrame, HostRequest, HostResponse
<1> QED
  BY <1>2 DEF AnswersTo, InboundFrame, AnswerFrame

LEMMA PeerTyped ==
  ASSUME TypeInv, NEW c \in Conns, PeerStep(c)
  PROVE  TypeInv'
<1>1. CASE PeerRequest(c)
  BY <1>1, PeersAssumption, PeerSendsTyped DEF PeerRequest, InboundFrame
<1>2. CASE PeerAnswers(c)
  BY <1>2, AnswersTyped, PeerSendsTyped DEF PeerAnswers, Positions
<1>3. CASE PeerRepeats(c)
  <2>1. \A i \in DOMAIN toHost[c] : toHost[c][i] \in InboundFrame
    BY DEF TypeInv, TypeOK, ChannelsOK
  <2> QED
    BY <1>3, <2>1, PeerSendsTyped DEF PeerRepeats, Positions
<1>4. CASE PeerSendsMalformed(c)
  <2>1. \A defect \in Defects : [kind |-> "malformed", defect |-> defect] \in InboundFrame
    BY DEF InboundFrame, MalformedFrame
  <2> QED
    BY <1>4, <2>1, PeerSendsTyped DEF PeerSendsMalformed
<1>5. CASE PeerCloses(c)
  <2> USE DEF TypeInv, TypeOK
  <2>1. PICK n \in received[c]..Len(toHost[c]) :
           toHost' = [toHost EXCEPT ![c] = SubSeq(@, 1, n)]
    BY <1>5 DEF PeerCloses
  <2>2. /\ toHost[c] \in Seq(InboundFrame) /\ received[c] \in Nat
        /\ n \in Nat /\ received[c] <= n /\ n <= Len(toHost[c])
    BY <2>1 DEF ChannelsOK, ThreadsOK
  <2>3. /\ SubSeq(toHost[c], 1, n) \in Seq(InboundFrame)
        /\ Len(SubSeq(toHost[c], 1, n)) = n
        /\ \A i \in 1..n : SubSeq(toHost[c], 1, n)[i] = toHost[c][i]
    BY <2>2
  <2>4. TableOK' /\ ThreadsOK' /\ ChannelsOK'
    BY <1>5, <2>1, <2>2, <2>3 DEF PeerCloses, TableOK, ThreadsOK, ChannelsOK, table
  <2>5. ASSUME NEW d \in Conns, pc[d] = "handling"
        PROVE  Frame(d)' = Frame(d)
    <3>1. received'[d] = received[d] /\ received[d] \in 1..Len(toHost[d])
      BY <1>5, <2>5, FrameInHand DEF PeerCloses
    <3>2. toHost'[d][received[d]] = toHost[d][received[d]]
      BY <2>1, <2>2, <2>3, <3>1 DEF ChannelsOK
    <3> QED
      BY <3>1, <3>2 DEF Frame
  <2>6. \A d \in Conns : InStep(d)'
    BY <1>5, <2>5 DEF PeerCloses, InStep
  <2> QED
    BY <1>5, <2>4, <2>6 DEF PeerCloses, process
<1> QED
  BY <1>1, <1>2, <1>3, <1>4, <1>5 DEF PeerStep

LEMMA AcceptTyped ==
  ASSUME TypeInv, NEW c \in Conns, Accept(c)
  PROVE  TypeInv'
BY DEF TypeInv, TypeOK, TableOK, ThreadsOK, ChannelsOK, InStep, Accept, Frame, table, process,
       Running

LEMMA AcceptFailsTyped ==
  ASSUME TypeInv, AcceptFails
  PROVE  TypeInv'
<1> USE DEF TypeInv, TypeOK
<1>1. TableOK' /\ ChannelsOK'
  BY DEF AcceptFails, TableOK, ChannelsOK, table, peers
<1>2. ThreadsOK'
  BY DEF AcceptFails, ThreadsOK, Ended
<1>3. \A c \in Conns : InStep(c)'
  BY DEF AcceptFails, InStep, Running, ThreadsOK
<1> QED
  BY <1>1, <1>2, <1>3 DEF AcceptFails

LEMMA NextTyped == TypeInv /\ [Next]_vars => TypeInv'
<1> SUFFICES ASSUME TypeInv, [Next]_vars PROVE TypeInv'
  OBVIOUS
<1>1. ASSUME NEW c \in Conns, Accept(c)
      PROVE  TypeInv'
  BY <1>1, AcceptTyped
<1>2. ASSUME NEW c \in Conns, ThreadStep(c)
      PROVE  TypeInv'
  BY <1>2, ReadTyped, HandleRequestTyped, HandleAnswerTyped, WriteTyped DEF ThreadStep
<1>3. ASSUME NEW c \in Conns, PeerStep(c)
      PROVE  TypeInv'
  BY <1>3, PeerTyped
<1>4. CASE AcceptFails
  BY <1>4, AcceptFailsTyped
<1>5. CASE StderrBreaks
  BY <1>5 DEF StderrBreaks, TypeInv, TypeOK, TableOK, ThreadsOK, ChannelsOK, InStep, Frame, table,
              peers
<1>6. CASE UNCHANGED vars
  BY <1>6 DEF vars, TypeInv, TypeOK, TableOK, ThreadsOK, ChannelsOK, InStep, Frame
<1> QED
  BY <1>1, <1>2, <1>3, <1>4, <1>5, <1>6 DEF Next

LEMMA TypeInvariant == Spec => []TypeInv
<1>1. Init => TypeInv
  BY InitTyped
<1>2. TypeInv /\ [Next]_vars => TypeInv'
  BY NextTyped
<1> QED
  BY <1>1, <1>2, PTL DEF Spec

\* Every variable keeps its type (HostState, the threads of serve and the
\* frames on both directions of every connection).
THEOREM TypeCorrect == Spec => []TypeOK
<1>1. TypeInv => TypeOK
  BY DEF TypeInv
<1> QED
  BY <1>1, TypeInvariant, PTL

-----------------------------------------------------------------------------
(***************************************************************************)
(* Correlation: ids are unique, and what the host writes belongs to the    *)
(* connection and the request it names.                                    *)
(*                                                                         *)
(* The table is shared and keyed by the host's ids, so the responses alone *)
(* are not inductive.  The invariant follows an id from its allocation:    *)
(* the history knows the init request behind it, the continuation in the   *)
(* table repeats that request's id, context and features, the request that *)
(* carries the id was written to that request's connection, and therefore  *)
(* so was the answer that brings the id back.                              *)
(***************************************************************************)

\* A continuation repeats the init request it continues.
PendingKnown ==
    \A k \in DOMAIN pending_requests :
        /\ pending_requests[k].init_request_id = flow[k].init.request_id
        /\ pending_requests[k].thread_context = flow[k].init.thread_context
        /\ pending_requests[k].kind = "RegisterRestActions" =>
              pending_requests[k].features = flow[k].init.features

\* Connection c has read this frame.
HasRead(c, frame) == \E j \in 1..received[c] : toHost[c][j] = frame

\* The init request behind an id was read on its connection.
FlowRead ==
    \A k \in DOMAIN flow :
        /\ flow[k].init.action = "DISCOVERY_EXTENSIONS"
        /\ HasRead(flow[k].conn, flow[k].init)

\* An answer comes back on the connection of the init request behind its id.
AnswersHome ==
    \A c \in Conns : \A j \in DOMAIN toHost[c] :
        toHost[c][j].kind = "answer" =>
            /\ toHost[c][j].request_id \in DOMAIN flow
            /\ flow[toHost[c][j].request_id].conn = c

\* A request of the host goes to that connection and repeats that init request.
RequestsHome ==
    \A c \in Conns : \A i \in DOMAIN HostFrames(c) :
        LET f == HostFrames(c)[i]
        IN  f.kind = "request" =>
                /\ f.request_id \in DOMAIN flow
                /\ flow[f.request_id].conn = c
                /\ f.thread_context = flow[f.request_id].init.thread_context
                /\ f.features = flow[f.request_id].init.features

Correlation ==
    /\ PendingKnown
    /\ FlowRead
    /\ AnswersHome
    /\ RequestsHome
    /\ RequestIdsUnique
    /\ ResponsesMatchRequests

(***************************************************************************)
(* What a step does to the frames, the reads and the table.                *)
(***************************************************************************)

\* No frame is added to what handlers returned.
FramesKept ==
    \A c \in Conns : \A i \in DOMAIN HostFrames(c)' :
        i \in DOMAIN HostFrames(c) /\ HostFrames(c)'[i] = HostFrames(c)[i]

\* Exactly f is added, on c.
FrameAdded(c, f) ==
    /\ HostFrames(c)' = Append(HostFrames(c), f)
    /\ \A d \in Conns \ {c} : HostFrames(d)' = HostFrames(d)

\* What has been read stays read.
ReadsKept ==
    \A c \in Conns : \A j \in 1..received[c] :
        j \in 1..received'[c] /\ toHost'[c][j] = toHost[c][j]

\* No id is allocated and no continuation added.
TableKept ==
    /\ flow' = flow
    /\ \A k \in DOMAIN pending_requests' :
          k \in DOMAIN pending_requests /\ pending_requests'[k] = pending_requests[k]

LEMMA HostFramesTyped ==
  ASSUME TypeInv, NEW c \in Conns
  PROVE  /\ HostFrames(c) \in Seq(OutboundFrame)
         /\ outbound[c] = <<>> => HostFrames(c) = wire[c]
  BY DEF TypeInv, TypeOK, ThreadsOK, ChannelsOK, HostFrames

LEMMA ReturnAddsFrame ==
  ASSUME TypeInv, NEW c \in Conns, pc[c] = "handling", NEW f \in OutboundFrame,
         Return(c, <<f>>), UNCHANGED wire
  PROVE  FrameAdded(c, f)
<1>1. outbound[c] = <<>> /\ wire[c] \in Seq(OutboundFrame)
  BY DEF TypeInv, TypeOK, ChannelsOK, InStep
<1>2. HostFrames(c) = wire[c]
  BY <1>1, HostFramesTyped
<1>3. outbound'[c] = <<f>>
  BY DEF Return, TypeInv, TypeOK, ThreadsOK
<1>4. HostFrames(c)' = wire[c] \o <<f>>
  BY <1>3 DEF HostFrames
<1>5. wire[c] \o <<f>> = Append(wire[c], f)
  BY <1>1
<1>6. \A d \in Conns \ {c} : HostFrames(d)' = HostFrames(d)
  BY DEF Return, TypeInv, TypeOK, ThreadsOK, HostFrames
<1> QED
  BY <1>2, <1>4, <1>5, <1>6 DEF FrameAdded

LEMMA ReturnKeepsFrames ==
  ASSUME TypeInv, NEW c \in Conns, pc[c] = "handling", Return(c, <<>>), UNCHANGED wire
  PROVE  FramesKept
<1>1. outbound[c] = <<>> /\ outbound'= outbound
  BY DEF TypeInv, TypeOK, ThreadsOK, InStep, Return
<1> QED
  BY <1>1 DEF FramesKept, HostFrames

\* What is written was returned, at the same position.
LEMMA WrittenIsReturned ==
  ASSUME TypeInv, NEW c \in Conns, NEW i \in DOMAIN wire[c]
  PROVE  i \in DOMAIN HostFrames(c) /\ HostFrames(c)[i] = wire[c][i]
<1>1. outbound[c] \in Seq(OutboundFrame) /\ wire[c] \in Seq(OutboundFrame)
  BY DEF TypeInv, TypeOK, ThreadsOK, ChannelsOK
<1>2. /\ i \in 1..Len(wire[c]) /\ DOMAIN wire[c] = 1..Len(wire[c])
      /\ Len(wire[c]) \in Nat /\ Len(outbound[c]) \in Nat
  BY <1>1, LenProperties
<1>3. i \in 1..(Len(wire[c]) + Len(outbound[c]))
  <2>1. \A m, n \in Nat : 1..m \subseteq 1..(m + n)
    OBVIOUS
  <2> QED
    BY <1>2, <2>1
<1>4. /\ HostFrames(c) \in Seq(OutboundFrame)
      /\ Len(HostFrames(c)) = Len(wire[c]) + Len(outbound[c])
      /\ HostFrames(c)[i] = IF i <= Len(wire[c]) THEN wire[c][i] ELSE outbound[c][i - Len(wire[c])]
  BY <1>1, <1>3, ConcatProperties DEF HostFrames
<1>5. DOMAIN HostFrames(c) = 1..Len(HostFrames(c)) /\ HostFrames(c)[i] = wire[c][i]
  BY <1>2, <1>4, LenProperties
<1> QED
  BY <1>3, <1>4, <1>5

LEMMA EndKeepsFrames ==
  ASSUME TypeInv, NEW c \in Conns, NEW how, EndThread(c, how), UNCHANGED wire
  PROVE  FramesKept
<1> SUFFICES ASSUME NEW d \in Conns, NEW i \in DOMAIN HostFrames(d)'
             PROVE  i \in DOMAIN HostFrames(d) /\ HostFrames(d)'[i] = HostFrames(d)[i]
  BY DEF FramesKept
<1>1. outbound[d] \in Seq(OutboundFrame) /\ wire[d] \in Seq(OutboundFrame)
  BY DEF TypeInv, TypeOK, ThreadsOK, ChannelsOK
<1>2. outbound'[d] \in {<<>>, outbound[d]} /\ wire'[d] = wire[d]
  BY DEF EndThread, TypeInv, TypeOK, ThreadsOK
<1>3. CASE outbound'[d] = outbound[d]
  BY <1>2, <1>3 DEF HostFrames
<1>4. CASE outbound'[d] = <<>>
  <2>1. HostFrames(d)' = wire[d]
    BY <1>1, <1>2, <1>4, ConcatEmptySeq DEF HostFrames
  <2> QED
    BY <2>1, WrittenIsReturned
<1> QED
  BY <1>2, <1>3, <1>4

LEMMA AcceptFailsKeepsFrames ==
  ASSUME TypeInv, AcceptFails
  PROVE  FramesKept
<1> SUFFICES ASSUME NEW d \in Conns, NEW i \in DOMAIN HostFrames(d)'
             PROVE  i \in DOMAIN HostFrames(d) /\ HostFrames(d)'[i] = HostFrames(d)[i]
  BY DEF FramesKept
<1>1. wire[d] \in Seq(OutboundFrame) /\ outbound[d] \in Seq(OutboundFrame)
  BY DEF TypeInv, TypeOK, ThreadsOK, ChannelsOK
<1>2. HostFrames(d)' = wire[d]
  BY <1>1, ConcatEmptySeq DEF AcceptFails, HostFrames
<1> QED
  BY <1>2, WrittenIsReturned

\* Moving the head of a sequence to the end of another changes nothing in
\* their concatenation.
LEMMA HeadMoves ==
  ASSUME NEW S, NEW w \in Seq(S), NEW s \in Seq(S), s # <<>>
  PROVE  Append(w, Head(s)) \o Tail(s) = w \o s
<1>1. PICK u \in Seq(S) : u = <<Head(s)>>
  <2>1. <<Head(s)>> \in Seq(S)
    OBVIOUS
  <2> QED
    BY <2>1
<1>2. Tail(s) \in Seq(S) /\ Head(s) \in S
  OBVIOUS
<1>3. s = u \o Tail(s)
  <2>1. Len(s) \in Nat \ {0} /\ Head(s) = s[1]
    OBVIOUS
  <2>2. 1 \in 1..Len(s) /\ Len(s) \in 1..Len(s)
    BY <2>1
  <2>3. SubSeq(s, 1, Len(s)) = s
    BY SubSeqFull
  <2>4. Tail(s) = SubSeq(s, 2, Len(s))
    BY TailIsSubSeq
  <2>5. SubSeq(s, 1, Len(s)) = <<s[1]>> \o SubSeq(s, 1 + 1, Len(s))
    BY <2>2, SubSeqRecursiveFirst
  <2>6. 1 + 1 = 2
    OBVIOUS
  <2> QED
    BY <1>1, <2>1, <2>3, <2>4, <2>5, <2>6
<1>4. Append(w, Head(s)) = w \o u
  BY <1>1, <1>2, AppendIsConcat
<1>5. (w \o u) \o Tail(s) = w \o (u \o Tail(s))
  BY <1>2, ConcatAssociative
<1> QED
  BY <1>3, <1>4, <1>5

LEMMA WriteKeepsFrames ==
  ASSUME TypeInv, NEW c \in Conns, WriteFrame(c)
  PROVE  FramesKept /\ \A d \in Conns : HostFrames(d)' = HostFrames(d)
<1>1. /\ outbound[c] # <<>> /\ outbound[c] \in Seq(OutboundFrame)
      /\ wire[c] \in Seq(OutboundFrame)
  BY DEF WriteFrame, TypeInv, TypeOK, ThreadsOK, ChannelsOK, InStep
<1>2. Append(wire[c], Head(outbound[c])) \o Tail(outbound[c]) = wire[c] \o outbound[c]
  BY <1>1, HeadMoves
<1>3. HostFrames(c)' = HostFrames(c)
  BY <1>2 DEF WriteFrame, Return, HostFrames, TypeInv, TypeOK, ThreadsOK, ChannelsOK
<1>4. \A d \in Conns : HostFrames(d)' = HostFrames(d)
  BY <1>3 DEF WriteFrame, Return, HostFrames, TypeInv, TypeOK, ThreadsOK, ChannelsOK
<1> QED
  BY <1>4 DEF FramesKept

(***************************************************************************)
(* The three ways a step can act on the correlation.                       *)
(***************************************************************************)

\* It adds nothing, but peers may answer.
LEMMA QuietStep ==
  ASSUME TypeInv, Correlation, FramesKept, ReadsKept, TableKept, AnswersHome'
  PROVE  Correlation'
<1>1. PendingKnown'
  BY DEF Correlation, PendingKnown, TableKept
<1>2. FlowRead'
  <2> SUFFICES ASSUME NEW k \in DOMAIN flow
               PROVE  /\ flow[k].init.action = "DISCOVERY_EXTENSIONS"
                      /\ HasRead(flow[k].conn, flow[k].init)'
    BY DEF FlowRead, TableKept, HasRead
  <2>1. flow[k].conn \in Conns /\ HasRead(flow[k].conn, flow[k].init)
    BY DEF Correlation, FlowRead, TypeInv, TypeOK, TableOK
  <2> QED
    BY <2>1 DEF Correlation, FlowRead, HasRead, ReadsKept, TableKept
<1>3. RequestsHome'
  BY DEF Correlation, RequestsHome, FramesKept, TableKept
<1>4. RequestIdsUnique'
  BY DEF Correlation, RequestIdsUnique, FramesKept, Positions
<1>5. ResponsesMatchRequests'
  <2> SUFFICES ASSUME NEW c \in Conns, NEW i \in DOMAIN HostFrames(c)',
                      HostFrames(c)'[i].kind = "response"
               PROVE  \E j \in 1..received'[c] :
                         /\ toHost'[c][j].kind = "request"
                         /\ HostFrames(c)'[i] = ResponseTo(toHost'[c][j])
    BY DEF ResponsesMatchRequests, Positions, ResponseTo
  <2>1. i \in DOMAIN HostFrames(c) /\ HostFrames(c)'[i] = HostFrames(c)[i]
    BY DEF FramesKept
  <2>2. PICK j \in 1..received[c] :
           /\ toHost[c][j].kind = "request"
           /\ HostFrames(c)[i] = ResponseTo(toHost[c][j])
    BY <2>1 DEF Correlation, ResponsesMatchRequests, Positions
  <2> QED
    BY <2>1, <2>2 DEF ReadsKept
<1> QED
  BY <1>1, <1>2, <1>3, <1>4, <1>5 DEF Correlation

\* What FrameAdded leaves at each position.
LEMMA PositionsAfter ==
  ASSUME TypeInv, NEW c \in Conns, NEW f \in OutboundFrame, FrameAdded(c, f),
         NEW d \in Conns, NEW i \in DOMAIN HostFrames(d)'
  PROVE  \/ i \in DOMAIN HostFrames(d) /\ HostFrames(d)'[i] = HostFrames(d)[i]
         \/ d = c /\ i = Len(HostFrames(c)) + 1 /\ HostFrames(d)'[i] = f
<1>1. HostFrames(c) \in Seq(OutboundFrame)
  BY HostFramesTyped
<1>2. CASE d = c
  BY <1>1, <1>2 DEF FrameAdded
<1>3. CASE d # c
  BY <1>3 DEF FrameAdded
<1> QED
  BY <1>2, <1>3

\* It answers a request that the connection has read.
LEMMA ResponseStep ==
  ASSUME TypeInv, Correlation, ReadsKept, TableKept, AnswersHome',
         NEW c \in Conns, NEW f \in OutboundFrame, FrameAdded(c, f), f.kind = "response",
         \E j \in 1..received[c] :
            toHost[c][j].kind = "request" /\ f = ResponseTo(toHost[c][j])
  PROVE  Correlation'
<1>1. PendingKnown'
  BY DEF Correlation, PendingKnown, TableKept
<1>2. FlowRead'
  <2> SUFFICES ASSUME NEW k \in DOMAIN flow
               PROVE  /\ flow[k].init.action = "DISCOVERY_EXTENSIONS"
                      /\ HasRead(flow[k].conn, flow[k].init)'
    BY DEF FlowRead, TableKept, HasRead
  <2>1. flow[k].conn \in Conns /\ HasRead(flow[k].conn, flow[k].init)
    BY DEF Correlation, FlowRead, TypeInv, TypeOK, TableOK
  <2> QED
    BY <2>1 DEF Correlation, FlowRead, HasRead, ReadsKept, TableKept
<1>3. RequestsHome'
  <2> SUFFICES ASSUME NEW d \in Conns, NEW i \in DOMAIN HostFrames(d)',
                      HostFrames(d)'[i].kind = "request"
               PROVE  LET g == HostFrames(d)'[i]
                      IN  /\ g.request_id \in DOMAIN flow
                          /\ flow[g.request_id].conn = d
                          /\ g.thread_context = flow[g.request_id].init.thread_context
                          /\ g.features = flow[g.request_id].init.features
    BY DEF RequestsHome, TableKept
  <2>1. i \in DOMAIN HostFrames(d) /\ HostFrames(d)'[i] = HostFrames(d)[i]
    BY PositionsAfter
  <2> QED
    BY <2>1 DEF Correlation, RequestsHome
<1>4. RequestIdsUnique'
  <2> SUFFICES ASSUME NEW d \in Conns, NEW e \in Conns,
                      NEW i \in DOMAIN HostFrames(d)', NEW j \in DOMAIN HostFrames(e)',
                      HostFrames(d)'[i].kind = "request", HostFrames(e)'[j].kind = "request",
                      HostFrames(d)'[i].request_id = HostFrames(e)'[j].request_id
               PROVE  d = e /\ i = j
    BY DEF RequestIdsUnique, Positions
  <2>1. i \in DOMAIN HostFrames(d) /\ HostFrames(d)'[i] = HostFrames(d)[i]
    BY PositionsAfter
  <2>2. j \in DOMAIN HostFrames(e) /\ HostFrames(e)'[j] = HostFrames(e)[j]
    BY PositionsAfter
  <2> QED
    BY <2>1, <2>2 DEF Correlation, RequestIdsUnique, Positions
<1>5. ResponsesMatchRequests'
  <2> SUFFICES ASSUME NEW d \in Conns, NEW i \in DOMAIN HostFrames(d)',
                      HostFrames(d)'[i].kind = "response"
               PROVE  \E j \in 1..received'[d] :
                         /\ toHost'[d][j].kind = "request"
                         /\ HostFrames(d)'[i] = ResponseTo(toHost'[d][j])
    BY DEF ResponsesMatchRequests, Positions, ResponseTo
  <2>1. \E j \in 1..received[d] :
           /\ toHost[d][j].kind = "request"
           /\ HostFrames(d)'[i] = ResponseTo(toHost[d][j])
    BY PositionsAfter DEF Correlation, ResponsesMatchRequests, Positions
  <2> QED
    BY <2>1 DEF ReadsKept
<1> QED
  BY <1>1, <1>2, <1>3, <1>4, <1>5 DEF Correlation

\* It allocates the next id for an init request that c has read, keeps a
\* continuation under it and returns a request that carries it.
LEMMA AllocateStep ==
  ASSUME TypeInv, Correlation, ReadsKept, UNCHANGED toHost,
         NEW c \in Conns, NEW f \in OutboundFrame, FrameAdded(c, f),
         NEW init \in RequestFrame, init.action = "DISCOVERY_EXTENSIONS", HasRead(c, init),
         flow' = Insert(flow, next_request_id, [conn |-> c, init |-> init]),
         f.kind = "request", f.request_id = next_request_id,
         f.thread_context = init.thread_context, f.features = init.features,
         \A k \in DOMAIN pending_requests' :
            \/ k \in DOMAIN pending_requests /\ pending_requests'[k] = pending_requests[k]
            \/ /\ k = next_request_id
               /\ pending_requests'[k].init_request_id = init.request_id
               /\ pending_requests'[k].thread_context = init.thread_context
               /\ pending_requests'[k].kind = "RegisterRestActions" =>
                     pending_requests'[k].features = init.features
  PROVE  Correlation'
<1>1. /\ next_request_id \notin DOMAIN flow
      /\ DOMAIN flow' = DOMAIN flow \cup {next_request_id}
      /\ flow'[next_request_id] = [conn |-> c, init |-> init]
      /\ \A k \in DOMAIN flow : flow'[k] = flow[k]
  BY DEF TypeInv, TypeOK, TableOK, Insert
<1>2. PendingKnown'
  <2> SUFFICES ASSUME NEW k \in DOMAIN pending_requests'
               PROVE  /\ pending_requests'[k].init_request_id = flow'[k].init.request_id
                      /\ pending_requests'[k].thread_context = flow'[k].init.thread_context
                      /\ pending_requests'[k].kind = "RegisterRestActions" =>
                            pending_requests'[k].features = flow'[k].init.features
    BY DEF PendingKnown
  <2>1. CASE k \in DOMAIN pending_requests /\ pending_requests'[k] = pending_requests[k]
    BY <1>1, <2>1 DEF Correlation, PendingKnown, TypeInv, TypeOK, TableOK
  <2>2. CASE /\ k = next_request_id
             /\ pending_requests'[k].init_request_id = init.request_id
             /\ pending_requests'[k].thread_context = init.thread_context
             /\ pending_requests'[k].kind = "RegisterRestActions" =>
                   pending_requests'[k].features = init.features
    BY <1>1, <2>2
  <2> QED
    BY <2>1, <2>2
<1>3. FlowRead'
  <2> SUFFICES ASSUME NEW k \in DOMAIN flow'
               PROVE  /\ flow'[k].init.action = "DISCOVERY_EXTENSIONS"
                      /\ \E j \in 1..received'[flow'[k].conn] :
                            toHost'[flow'[k].conn][j] = flow'[k].init
    BY DEF FlowRead, HasRead
  <2>1. CASE k = next_request_id
    BY <1>1, <2>1 DEF HasRead, ReadsKept
  <2>2. CASE k \in DOMAIN flow
    <3>1. flow[k].conn \in Conns /\ HasRead(flow[k].conn, flow[k].init)
      BY <2>2 DEF Correlation, FlowRead, TypeInv, TypeOK, TableOK
    <3> QED
      BY <1>1, <2>2, <3>1 DEF Correlation, FlowRead, HasRead, ReadsKept
  <2> QED
    BY <1>1, <2>1, <2>2
<1>4. AnswersHome'
  BY <1>1 DEF Correlation, AnswersHome
<1>5. RequestsHome'
  <2> SUFFICES ASSUME NEW d \in Conns, NEW i \in DOMAIN HostFrames(d)',
                      HostFrames(d)'[i].kind = "request"
               PROVE  LET g == HostFrames(d)'[i]
                      IN  /\ g.request_id \in DOMAIN flow'
                          /\ flow'[g.request_id].conn = d
                          /\ g.thread_context = flow'[g.request_id].init.thread_context
                          /\ g.features = flow'[g.request_id].init.features
    BY DEF RequestsHome
  <2>1. CASE i \in DOMAIN HostFrames(d) /\ HostFrames(d)'[i] = HostFrames(d)[i]
    BY <1>1, <2>1 DEF Correlation, RequestsHome
  <2>2. CASE d = c /\ HostFrames(d)'[i] = f
    BY <1>1, <2>2
  <2> QED
    BY <2>1, <2>2, PositionsAfter
<1>6. RequestIdsUnique'
  <2> SUFFICES ASSUME NEW d \in Conns, NEW e \in Conns,
                      NEW i \in DOMAIN HostFrames(d)', NEW j \in DOMAIN HostFrames(e)',
                      HostFrames(d)'[i].kind = "request", HostFrames(e)'[j].kind = "request",
                      HostFrames(d)'[i].request_id = HostFrames(e)'[j].request_id
               PROVE  d = e /\ i = j
    BY DEF RequestIdsUnique, Positions
  <2>1. \/ /\ i \in DOMAIN HostFrames(d) /\ HostFrames(d)'[i] = HostFrames(d)[i]
           /\ HostFrames(d)'[i].request_id \in DOMAIN flow
        \/ d = c /\ i = Len(HostFrames(c)) + 1 /\ HostFrames(d)'[i].request_id = next_request_id
    BY PositionsAfter DEF Correlation, RequestsHome
  <2>2. \/ /\ j \in DOMAIN HostFrames(e) /\ HostFrames(e)'[j] = HostFrames(e)[j]
           /\ HostFrames(e)'[j].request_id \in DOMAIN flow
        \/ e = c /\ j = Len(HostFrames(c)) + 1 /\ HostFrames(e)'[j].request_id = next_request_id
    BY PositionsAfter DEF Correlation, RequestsHome
  <2> QED
    BY <1>1, <2>1, <2>2 DEF Correlation, RequestIdsUnique, Positions
<1>7. ResponsesMatchRequests'
  <2> SUFFICES ASSUME NEW d \in Conns, NEW i \in DOMAIN HostFrames(d)',
                      HostFrames(d)'[i].kind = "response"
               PROVE  \E j \in 1..received'[d] :
                         /\ toHost'[d][j].kind = "request"
                         /\ HostFrames(d)'[i] = ResponseTo(toHost'[d][j])
    BY DEF ResponsesMatchRequests, Positions, ResponseTo
  <2>1. i \in DOMAIN HostFrames(d) /\ HostFrames(d)'[i] = HostFrames(d)[i]
    BY PositionsAfter
  <2>2. \E j \in 1..received[d] :
           /\ toHost[d][j].kind = "request"
           /\ HostFrames(d)'[i] = ResponseTo(toHost[d][j])
    BY <2>1 DEF Correlation, ResponsesMatchRequests, Positions
  <2> QED
    BY <2>2 DEF ReadsKept
<1> QED
  BY <1>2, <1>3, <1>4, <1>5, <1>6, <1>7 DEF Correlation

(***************************************************************************)
(* Every step acts in one of these ways.                                   *)
(***************************************************************************)

\* Steps that leave both directions of all connections alone.
LEMMA ReadsKeptUnchanged ==
  ASSUME TypeInv, Correlation, UNCHANGED <<received, toHost>>
  PROVE  ReadsKept /\ (flow' = flow => AnswersHome')
  BY DEF ReadsKept, Correlation, AnswersHome

\* A handler that answers the request in its hand.
LEMMA ImmediateStep ==
  ASSUME TypeInv, Correlation, NEW c \in Conns, NEW action, HandlingRequest(c, action),
         Return(c, <<ResponseTo(Frame(c))>>), UNCHANGED <<table, flow>>
  PROVE  Correlation'
<1>1. /\ received[c] \in 1..Len(toHost[c]) /\ pc[c] = "handling"
      /\ Frame(c) = toHost[c][received[c]] /\ Frame(c).kind = "request"
      /\ Frame(c) \in RequestFrame
  BY FrameInHand DEF HandlingRequest
<1>2. ResponseTo(Frame(c)) \in OutboundFrame /\ ResponseTo(Frame(c)).kind = "response"
  BY <1>1, FramesTyped DEF ResponseTo
<1>3. FrameAdded(c, ResponseTo(Frame(c)))
  BY <1>1, <1>2, ReturnAddsFrame DEF HandlingRequest
<1>4. ReadsKept /\ AnswersHome' /\ TableKept
  BY ReadsKeptUnchanged DEF HandlingRequest, peers, table, TableKept
<1>5. received[c] \in 1..received[c]
  BY <1>1
<1> QED
  BY <1>1, <1>2, <1>3, <1>4, <1>5, ResponseStep

\* A thread that gives up, or a handler that returns nothing.
LEMMA SilentStep ==
  ASSUME TypeInv, Correlation, NEW c \in Conns, UNCHANGED <<received, toHost, wire>>, TableKept,
         \/ pc[c] = "handling" /\ Return(c, <<>>)
         \/ \E how \in Ended : EndThread(c, how)
  PROVE  Correlation'
<1>1. FramesKept
  BY ReturnKeepsFrames, EndKeepsFrames
<1>2. ReadsKept /\ AnswersHome'
  BY ReadsKeptUnchanged DEF TableKept
<1> QED
  BY <1>1, <1>2, QuietStep

\* Taking a continuation out of the table.
LEMMA RemoveKeepsTable ==
  ASSUME TypeInv, NEW id, pending_requests' = Remove(pending_requests, id), UNCHANGED flow
  PROVE  TableKept
  BY DEF TypeInv, TypeOK, TableOK, Remove, Restrict, TableKept

LEMMA HandleRequestStep ==
  ASSUME TypeInv, Correlation, NEW c \in Conns, HandleRequest(c)
  PROVE  Correlation'
<1>1. ASSUME UNCHANGED <<table, flow>>
      PROVE  TableKept
  BY <1>1 DEF table, TableKept
<1>2. CASE HandleTcpHandshake(c)
  BY <1>2, ImmediateStep DEF HandleTcpHandshake
<1>3. CASE HandleTransportHandshake(c)
  BY <1>3, ImmediateStep DEF HandleTransportHandshake
<1>4. CASE HandleInitializeExtension(c)
  <2> DEFINE n == next_request_id
             f == RegisterRequest(n, Frame(c))
  <2>1. /\ received[c] \in 1..Len(toHost[c]) /\ pc[c] = "handling"
        /\ Frame(c) = toHost[c][received[c]]
        /\ Frame(c) \in RequestFrame /\ Frame(c).action = "DISCOVERY_EXTENSIONS"
        /\ UNCHANGED <<received, toHost, wire>>
    BY <1>4, FrameInHand DEF HandleInitializeExtension, HandlingRequest, peers
  <2>2. HasRead(c, Frame(c))
    BY <2>1 DEF HasRead
  <2>3. n \in Nat /\ f \in OutboundFrame
    BY <2>1, FramesTyped DEF TypeInv, TypeOK, TableOK
  <2>4. FrameAdded(c, f)
    BY <1>4, <2>1, <2>3, ReturnAddsFrame DEF HandleInitializeExtension
  <2>5. /\ f.kind = "request" /\ f.request_id = n
        /\ f.thread_context = Frame(c).thread_context /\ f.features = Frame(c).features
    BY DEF RegisterRequest
  <2>6. \A k \in DOMAIN pending_requests' :
           \/ k \in DOMAIN pending_requests /\ pending_requests'[k] = pending_requests[k]
           \/ k = n /\ pending_requests'[k] = RegisterPending(Frame(c))
    BY <1>4 DEF HandleInitializeExtension, Insert
  <2>7. \A k \in DOMAIN pending_requests' :
           \/ k \in DOMAIN pending_requests /\ pending_requests'[k] = pending_requests[k]
           \/ /\ k = n
              /\ pending_requests'[k].init_request_id = Frame(c).request_id
              /\ pending_requests'[k].thread_context = Frame(c).thread_context
              /\ pending_requests'[k].kind = "RegisterRestActions" =>
                    pending_requests'[k].features = Frame(c).features
    BY <2>6 DEF RegisterPending
  <2>8. flow' = Insert(flow, n, [conn |-> c, init |-> Frame(c)])
    BY <1>4 DEF HandleInitializeExtension
  <2>9. ReadsKept
    BY <2>1, ReadsKeptUnchanged
  <2> HIDE DEF f
  <2> QED
    BY <2>1, <2>2, <2>3, <2>4, <2>5, <2>7, <2>8, <2>9, AllocateStep
<1>5. CASE InitializeExtensionFails(c)
  BY <1>1, <1>5, SilentStep DEF InitializeExtensionFails, HandlingRequest, peers, Ended
<1>6. CASE HandleRestExecute(c)
  BY <1>6, ImmediateStep DEF HandleRestExecute
<1>7. CASE RestExecuteFails(c)
  BY <1>1, <1>7, SilentStep DEF RestExecuteFails, HandlingRequest, peers, Ended
<1>8. CASE IgnoreUnknownAction(c)
  BY <1>1, <1>8, SilentStep DEF IgnoreUnknownAction, HandlingRequest, peers
<1> QED
  BY <1>2, <1>3, <1>4, <1>5, <1>6, <1>7, <1>8 DEF HandleRequest

\* The continuation an answer takes out of the table belongs to an init request
\* of the connection that brought the answer.
LEMMA PendingBelongs ==
  ASSUME TypeInv, Correlation, NEW c \in Conns, NEW kind, TakePending(c, kind)
  PROVE  LET id == Frame(c).request_id
             init == flow[id].init
         IN  /\ flow[id] = [conn |-> c, init |-> init]
             /\ init \in RequestFrame
             /\ init.action = "DISCOVERY_EXTENSIONS"
             /\ HasRead(c, init)
             /\ pending_requests[id].init_request_id = init.request_id
             /\ pending_requests[id].thread_context = init.thread_context
             /\ pending_requests[id].kind = "RegisterRestActions" =>
                   pending_requests[id].features = init.features
<1> DEFINE id == Frame(c).request_id
<1>1. /\ pc[c] = "handling" /\ Frame(c).kind = "answer"
      /\ id \in DOMAIN pending_requests /\ id \in DOMAIN flow
      /\ flow[id] \in [conn: Conns, init: RequestFrame]
  BY PendingTaken
<1>2. received[c] \in DOMAIN toHost[c] /\ Frame(c) = toHost[c][received[c]]
  BY <1>1, FrameInHand DEF TypeInv, TypeOK, ChannelsOK
<1>3. flow[id].conn = c
  BY <1>1, <1>2 DEF Correlation, AnswersHome
<1>4. flow[id].init.action = "DISCOVERY_EXTENSIONS" /\ HasRead(c, flow[id].init)
  BY <1>1, <1>3 DEF Correlation, FlowRead
<1> QED
  BY <1>1, <1>3, <1>4 DEF Correlation, PendingKnown

LEMMA HandleAnswerStep ==
  ASSUME TypeInv, Correlation, NEW c \in Conns, HandleAnswer(c)
  PROVE  Correlation'
<1>1. CASE AnswerAfterPoison(c)
  BY <1>1, SilentStep DEF AnswerAfterPoison, HandlingAnswer, peers, table, TableKept, Ended
<1>2. CASE IgnoreUnknownAnswer(c)
  BY <1>2, SilentStep DEF IgnoreUnknownAnswer, HandlingAnswer, peers, table, TableKept
<1>3. CASE AcknowledgementFails(c)
  <2>1. TableKept /\ UNCHANGED <<received, toHost, wire>>
    BY <1>3, RemoveKeepsTable, PendingTaken DEF AcknowledgementFails
  <2> QED
    BY <1>3, <2>1, SilentStep DEF AcknowledgementFails, Ended
<1>4. CASE TracePoisons(c)
  <2>1. TableKept /\ UNCHANGED <<received, toHost, wire>>
    BY <1>4, RemoveKeepsTable, PendingTaken DEF TracePoisons
  <2> QED
    BY <1>4, <2>1, SilentStep DEF TracePoisons, Ended
<1>5. CASE RegistrationRefused(c)
  <2>1. TableKept /\ UNCHANGED <<received, toHost, wire>> /\ pc[c] = "handling"
    BY <1>5, RemoveKeepsTable, PendingTaken DEF RegistrationRefused
  <2> QED
    BY <1>5, <2>1, SilentStep DEF RegistrationRefused
<1>6. CASE RegistrationAcknowledged(c)
  <2> DEFINE n == next_request_id
             id == Frame(c).request_id
             init == flow[id].init
             pending == pending_requests[id]
             f == SettingsRequest(n, pending)
  <2>1. TakePending(c, "RegisterRestActions")
    BY <1>6 DEF RegistrationAcknowledged
  <2>2. /\ flow[id] = [conn |-> c, init |-> init]
        /\ init \in RequestFrame /\ init.action = "DISCOVERY_EXTENSIONS" /\ HasRead(c, init)
        /\ pending.init_request_id = init.request_id
        /\ pending.thread_context = init.thread_context
        /\ pending.kind = "RegisterRestActions" => pending.features = init.features
    BY <2>1, PendingBelongs
  <2>3. /\ pending.kind = "RegisterRestActions" /\ pending \in PendingRequest
        /\ pc[c] = "handling" /\ UNCHANGED <<received, toHost, wire>>
    BY <2>1, PendingTaken
  <2>4. f \in OutboundFrame
    BY <2>3, FramesTyped DEF TypeInv, TypeOK, TableOK
  <2>5. FrameAdded(c, f)
    BY <1>6, <2>3, <2>4, ReturnAddsFrame DEF RegistrationAcknowledged
  <2>6. /\ f.kind = "request" /\ f.request_id = n
        /\ f.thread_context = init.thread_context /\ f.features = init.features
    BY <2>2, <2>3 DEF SettingsRequest
  <2>7. \A k \in DOMAIN pending_requests' :
           \/ k \in DOMAIN pending_requests /\ pending_requests'[k] = pending_requests[k]
           \/ k = n /\ pending_requests'[k] = SettingsPending(pending)
    BY <1>6 DEF RegistrationAcknowledged, Insert, Remove, Restrict
  <2>8. \A k \in DOMAIN pending_requests' :
           \/ k \in DOMAIN pending_requests /\ pending_requests'[k] = pending_requests[k]
           \/ /\ k = n
              /\ pending_requests'[k].init_request_id = init.request_id
              /\ pending_requests'[k].thread_context = init.thread_context
              /\ pending_requests'[k].kind = "RegisterRestActions" =>
                    pending_requests'[k].features = init.features
    BY <2>2, <2>7 DEF SettingsPending
  <2>9. flow' = Insert(flow, n, [conn |-> c, init |-> init])
    BY <1>6, <2>2 DEF RegistrationAcknowledged
  <2>10. ReadsKept
    BY <2>3, ReadsKeptUnchanged
  <2> HIDE DEF f, init, pending, n
  <2> QED
    BY <2>2, <2>3, <2>4, <2>5, <2>6, <2>8, <2>9, <2>10, AllocateStep DEF n
<1>7. CASE EnvironmentSettingsReceived(c)
  <2> DEFINE id == Frame(c).request_id
             init == flow[id].init
             f == InitializeResponse(pending_requests[id])
  <2>1. TakePending(c, "EnvironmentSettings")
    BY <1>7 DEF EnvironmentSettingsReceived
  <2>2. /\ init \in RequestFrame /\ init.action = "DISCOVERY_EXTENSIONS" /\ HasRead(c, init)
        /\ pending_requests[id].init_request_id = init.request_id
        /\ pending_requests[id].thread_context = init.thread_context
    BY <2>1, PendingBelongs
  <2>3. /\ pending_requests[id] \in PendingRequest
        /\ pc[c] = "handling" /\ UNCHANGED <<received, toHost, wire>>
    BY <2>1, PendingTaken
  <2>4. f \in OutboundFrame
    BY <2>3, FramesTyped
  <2>5. FrameAdded(c, f)
    BY <1>7, <2>3, <2>4, ReturnAddsFrame DEF EnvironmentSettingsReceived
  <2>6. f = ResponseTo(init) /\ f.kind = "response"
    BY <2>2 DEF InitializeResponse, ResponseTo
  <2>7. \E j \in 1..received[c] : toHost[c][j].kind = "request" /\ f = ResponseTo(toHost[c][j])
    BY <2>2, <2>6 DEF HasRead, RequestFrame
  <2>8. TableKept
    BY <1>7, RemoveKeepsTable DEF EnvironmentSettingsReceived
  <2>9. ReadsKept /\ AnswersHome'
    BY <2>3, <2>8, ReadsKeptUnchanged DEF TableKept
  <2> HIDE DEF f
  <2> QED
    BY <2>4, <2>5, <2>6, <2>7, <2>8, <2>9, ResponseStep
<1> QED
  BY <1>1, <1>2, <1>3, <1>4, <1>5, <1>6, <1>7 DEF HandleAnswer

LEMMA LoopStep ==
  ASSUME TypeInv, Correlation, NEW c \in Conns,
         ReadFrame(c) \/ ReadMalformed(c) \/ ReadEnds(c) \/ WriteFrame(c) \/ WriteFails(c)
  PROVE  Correlation'
<1>1. CASE ReadFrame(c) \/ ReadMalformed(c)
  <2>1. ReadNext(c)
    BY <1>1 DEF ReadFrame, ReadMalformed
  <2>2. FramesKept /\ TableKept
    BY <2>1 DEF ReadNext, FramesKept, HostFrames, TableKept, table
  <2>3. ReadsKept
    BY <2>1 DEF ReadNext, ReadsKept, peers, TypeInv, TypeOK, ThreadsOK
  <2>4. AnswersHome'
    BY <2>1 DEF ReadNext, peers, Correlation, AnswersHome
  <2> QED
    BY <2>2, <2>3, <2>4, QuietStep
<1>2. CASE ReadEnds(c)
  BY <1>2, SilentStep DEF ReadEnds, peers, table, TableKept, Ended
<1>3. CASE WriteFrame(c)
  <2>1. FramesKept
    BY <1>3, WriteKeepsFrames
  <2>2. ReadsKept /\ AnswersHome' /\ TableKept
    BY <1>3, ReadsKeptUnchanged DEF WriteFrame, peers, table, TableKept
  <2> QED
    BY <2>1, <2>2, QuietStep
<1>4. CASE WriteFails(c)
  BY <1>4, SilentStep DEF WriteFails, peers, table, TableKept, Ended
<1> QED
  BY <1>1, <1>2, <1>3, <1>4

\* A peer sends a frame; if it is an answer, to a request it was sent.
LEMMA PeerSendsStep ==
  ASSUME TypeInv, Correlation, NEW c \in Conns, NEW frame \in InboundFrame, PeerSends(c, frame),
         frame.kind = "answer" =>
             frame.request_id \in DOMAIN flow /\ flow[frame.request_id].conn = c
  PROVE  Correlation'
<1>1. \A d \in Conns : toHost[d] \in Seq(InboundFrame) /\ received[d] \in 0..Len(toHost[d])
  BY DEF TypeInv, TypeOK, ThreadsOK, ChannelsOK
<1>2. /\ toHost' = [toHost EXCEPT ![c] = Append(@, frame)]
      /\ UNCHANGED <<pending_requests, flow, outbound, received, wire>>
  BY DEF PeerSends, table
<1>3. /\ toHost'[c] = Append(toHost[c], frame)
      /\ \A d \in Conns : d # c => toHost'[d] = toHost[d]
  BY <1>2 DEF TypeInv, TypeOK, ChannelsOK
<1>4. FramesKept /\ TableKept
  BY <1>2 DEF FramesKept, HostFrames, TableKept
<1>5. ReadsKept
  BY <1>1, <1>2, <1>3 DEF ReadsKept
<1>6. AnswersHome'
  BY <1>1, <1>2, <1>3 DEF AnswersHome, Correlation
<1> QED
  BY <1>4, <1>5, <1>6, QuietStep

LEMMA PeerStepStep ==
  ASSUME TypeInv, Correlation, NEW c \in Conns, PeerStep(c)
  PROVE  Correlation'
<1>1. CASE PeerRequest(c)
  <2>1. \A request \in PeerRequests : request \in InboundFrame /\ request.kind = "request"
    BY PeersAssumption DEF InboundFrame, RequestFrame
  <2> QED
    BY <1>1, <2>1, PeerSendsStep DEF PeerRequest
<1>2. CASE PeerAnswers(c)
  <2>1. PICK i \in DOMAIN wire[c] :
           /\ wire[c][i].kind = "request"
           /\ \E answer \in AnswersTo(wire[c][i]) : PeerSends(c, answer)
    BY <1>2 DEF PeerAnswers, Positions
  <2>2. PICK answer \in AnswersTo(wire[c][i]) : PeerSends(c, answer)
    BY <2>1
  <2>3. answer \in InboundFrame /\ answer.request_id = wire[c][i].request_id
    BY <2>1, AnswersTyped DEF AnswersTo
  <2>4. i \in DOMAIN HostFrames(c) /\ HostFrames(c)[i] = wire[c][i]
    BY WrittenIsReturned
  <2>5. wire[c][i].request_id \in DOMAIN flow /\ flow[wire[c][i].request_id].conn = c
    BY <2>1, <2>4 DEF Correlation, RequestsHome
  <2> QED
    BY <2>2, <2>3, <2>5, PeerSendsStep
<1>3. CASE PeerRepeats(c)
  <2>1. PICK i \in DOMAIN toHost[c] : toHost[c][i].kind = "answer" /\ PeerSends(c, toHost[c][i])
    BY <1>3 DEF PeerRepeats, Positions
  <2>2. toHost[c][i] \in InboundFrame
    BY DEF TypeInv, TypeOK, ChannelsOK
  <2> QED
    BY <2>1, <2>2, PeerSendsStep DEF Correlation, AnswersHome
<1>4. CASE PeerSendsMalformed(c)
  <2>1. \A defect \in Defects :
           /\ [kind |-> "malformed", defect |-> defect] \in InboundFrame
           /\ [kind |-> "malformed", defect |-> defect].kind # "answer"
    BY DEF InboundFrame, MalformedFrame
  <2> QED
    BY <1>4, <2>1, PeerSendsStep DEF PeerSendsMalformed
<1>5. CASE PeerCloses(c)
  <2>1. PICK n \in received[c]..Len(toHost[c]) :
           toHost' = [toHost EXCEPT ![c] = SubSeq(@, 1, n)]
    BY <1>5 DEF PeerCloses
  <2>2. /\ toHost[c] \in Seq(InboundFrame) /\ received[c] \in Nat
        /\ n \in Nat /\ received[c] <= n /\ n <= Len(toHost[c])
    BY <2>1 DEF TypeInv, TypeOK, ChannelsOK, ThreadsOK
  <2>3. /\ toHost'[c] = SubSeq(toHost[c], 1, n)
        /\ Len(SubSeq(toHost[c], 1, n)) = n
        /\ \A i \in 1..n : SubSeq(toHost[c], 1, n)[i] = toHost[c][i]
        /\ \A d \in Conns : d # c => toHost'[d] = toHost[d]
    BY <2>1, <2>2 DEF TypeInv, TypeOK, ChannelsOK
  <2>4. UNCHANGED <<pending_requests, flow, outbound, received, wire>>
    BY <1>5 DEF PeerCloses, table
  <2>5. FramesKept /\ TableKept
    BY <2>4 DEF FramesKept, HostFrames, TableKept
  <2>6. ReadsKept
    <3> SUFFICES ASSUME NEW d \in Conns, NEW j \in 1..received[d]
                 PROVE  toHost'[d][j] = toHost[d][j]
      BY <2>4 DEF ReadsKept
    <3>1. CASE d = c
      <4>1. j \in 1..n
        BY <2>2, <3>1
      <4> QED
        BY <2>3, <3>1, <4>1
    <3>2. CASE d # c
      BY <2>3, <3>2
    <3> QED
      BY <3>1, <3>2
  <2>7. AnswersHome'
    BY <2>2, <2>3, <2>4 DEF AnswersHome, Correlation
  <2> QED
    BY <2>5, <2>6, <2>7, QuietStep
<1> QED
  BY <1>1, <1>2, <1>3, <1>4, <1>5 DEF PeerStep

LEMMA InitCorrelated == Init => Correlation
<1> SUFFICES ASSUME Init PROVE Correlation
  OBVIOUS
<1>1. \A c \in Conns : HostFrames(c) = <<>>
  BY ConcatEmptySeq, EmptySeq DEF Init, HostFrames
<1>2. DOMAIN pending_requests = {} /\ DOMAIN flow = {} /\ \A c \in Conns : DOMAIN toHost[c] = {}
  BY DEF Init
<1> QED
  BY <1>1, <1>2 DEF Correlation, PendingKnown, FlowRead, AnswersHome, RequestsHome,
                    RequestIdsUnique, ResponsesMatchRequests, Positions

LEMMA NextCorrelated == TypeInv /\ Correlation /\ [Next]_vars => Correlation'
<1> SUFFICES ASSUME TypeInv, Correlation, [Next]_vars PROVE Correlation'
  OBVIOUS
<1>1. ASSUME UNCHANGED <<pending_requests, flow, outbound, received, toHost, wire>>
      PROVE  Correlation'
  <2>1. FramesKept /\ TableKept
    BY <1>1 DEF FramesKept, HostFrames, TableKept
  <2>2. ReadsKept /\ AnswersHome'
    BY <1>1, ReadsKeptUnchanged
  <2> QED
    BY <2>1, <2>2, QuietStep
<1>2. ASSUME NEW c \in Conns, Accept(c)
      PROVE  Correlation'
  BY <1>1, <1>2 DEF Accept, table
<1>3. ASSUME NEW c \in Conns, ThreadStep(c)
      PROVE  Correlation'
  BY <1>3, LoopStep, HandleRequestStep, HandleAnswerStep DEF ThreadStep
<1>4. ASSUME NEW c \in Conns, PeerStep(c)
      PROVE  Correlation'
  BY <1>4, PeerStepStep
<1>5. CASE AcceptFails
  <2>1. FramesKept
    BY <1>5, AcceptFailsKeepsFrames
  <2>2. ReadsKept /\ AnswersHome' /\ TableKept
    BY <1>5, ReadsKeptUnchanged DEF AcceptFails, peers, table, TableKept
  <2> QED
    BY <2>1, <2>2, QuietStep
<1>6. CASE StderrBreaks
  BY <1>1, <1>6 DEF StderrBreaks, table, peers
<1>7. CASE UNCHANGED vars
  BY <1>1, <1>7 DEF vars
<1> QED
  BY <1>2, <1>3, <1>4, <1>5, <1>6, <1>7 DEF Next

LEMMA CorrelationInvariant == Spec => []Correlation
<1>1. Init => Correlation
  BY InitCorrelated
<1>2. TypeInv /\ Correlation /\ [Next]_vars => Correlation'
  BY NextCorrelated
<1> QED
  BY <1>1, <1>2, TypeInvariant, PTL DEF Spec

\* Every response goes to the connection that asked for it, under the request
\* id and the thread context of a request read there (handle_response finds the
\* init request in a table all connections share).
THEOREM ResponsesAreCorrelated == Spec => []ResponsesMatchRequests
<1>1. Correlation => ResponsesMatchRequests
  BY DEF Correlation
<1> QED
  BY <1>1, CorrelationInvariant, PTL

\* No two requests of the host ever share an id (next_request_id).
THEOREM IdsAreUnique == Spec => []RequestIdsUnique
<1>1. Correlation => RequestIdsUnique
  BY DEF Correlation
<1> QED
  BY <1>1, CorrelationInvariant, PTL

\* Register and settings requests go to the connection of the init request
\* behind them, with its thread context and features.
THEOREM RequestsCarryInit == Spec => []HostRequestsCarryInit
<1>1. TypeInv /\ Correlation => HostRequestsCarryInit
  <2> SUFFICES ASSUME TypeInv, Correlation,
                      NEW c \in Conns, NEW i \in DOMAIN HostFrames(c),
                      HostFrames(c)[i].kind = "request"
               PROVE  LET f == HostFrames(c)[i]
                      IN  \E j \in 1..received[c] :
                             /\ toHost[c][j] = flow[f.request_id].init
                             /\ f.thread_context = toHost[c][j].thread_context
                             /\ f.features = toHost[c][j].features
    BY DEF HostRequestsCarryInit, Positions
  <2> QED
    BY DEF Correlation, RequestsHome, FlowRead, HasRead
<1> QED
  BY <1>1, TypeInvariant, CorrelationInvariant, PTL

-----------------------------------------------------------------------------
(***************************************************************************)
(* Poisoning.                                                              *)
(***************************************************************************)

LEMMA HandlingKeepsTable ==
  ASSUME NEW c \in Conns, HandleRequest(c)
  PROVE  UNCHANGED <<poisoned, stderrOpen>> /\ (poisoned => UNCHANGED table)
  BY DEF HandleRequest, HandleTcpHandshake, HandleTransportHandshake, HandleInitializeExtension,
         InitializeExtensionFails, HandleRestExecute, RestExecuteFails, IgnoreUnknownAction,
         HandlingRequest, LockState, table, process

LEMMA AnswersKeepTable ==
  ASSUME NEW c \in Conns, HandleAnswer(c)
  PROVE  /\ UNCHANGED stderrOpen
         /\ poisoned' = poisoned \/ (poisoned' /\ TraceBreaks)
         /\ poisoned => UNCHANGED table
  BY DEF HandleAnswer, AnswerAfterPoison, IgnoreUnknownAnswer, AcknowledgementFails, TracePoisons,
         RegistrationRefused, RegistrationAcknowledged, EnvironmentSettingsReceived, TakePending,
         HandlingAnswer, LockState, table, process

LEMMA OthersKeepTable ==
  ASSUME Next,
         \A c \in Conns : ~HandleRequest(c) /\ ~HandleAnswer(c)
  PROVE  UNCHANGED table /\ (stderrOpen' = stderrOpen \/ ~stderrOpen')
<1>1. ASSUME NEW c \in Conns, Accept(c)
      PROVE  UNCHANGED <<table, stderrOpen>>
  BY <1>1 DEF Accept, table, process
<1>2. ASSUME NEW c \in Conns, ThreadStep(c)
      PROVE  UNCHANGED <<table, stderrOpen>>
  BY <1>2 DEF ThreadStep, ReadFrame, ReadMalformed, ReadNext, ReadEnds, WriteFrame, WriteFails,
              table, process
<1>3. ASSUME NEW c \in Conns, PeerStep(c)
      PROVE  UNCHANGED <<table, stderrOpen>>
  BY <1>3 DEF PeerStep, PeerRequest, PeerAnswers, PeerRepeats, PeerSendsMalformed, PeerSends,
              PeerCloses, table, process
<1>4. CASE AcceptFails
  BY <1>4 DEF AcceptFails, table
<1>5. CASE StderrBreaks
  BY <1>5 DEF StderrBreaks, table
<1> QED
  BY <1>1, <1>2, <1>3, <1>4, <1>5 DEF Next

\* The mutex is poisoned only where a trace line is printed under it with
\* stderr gone: no route handler, no malformed frame and no failed write does.
THEOREM PoisonOnlyByTrace == Spec => []PoisonNeedsTrace
<1>1. Init => PoisonNeedsTrace
  BY DEF Init, PoisonNeedsTrace
<1>2. PoisonNeedsTrace /\ [Next]_vars => PoisonNeedsTrace'
  <2> SUFFICES ASSUME PoisonNeedsTrace, [Next]_vars PROVE PoisonNeedsTrace'
    OBVIOUS
  <2>1. CASE \E c \in Conns : HandleRequest(c)
    BY <2>1, HandlingKeepsTable DEF PoisonNeedsTrace, TraceBreaks
  <2>2. CASE \E c \in Conns : HandleAnswer(c)
    BY <2>2, AnswersKeepTable DEF PoisonNeedsTrace, TraceBreaks
  <2>3. CASE Next /\ \A c \in Conns : ~HandleRequest(c) /\ ~HandleAnswer(c)
    BY <2>3, OthersKeepTable DEF PoisonNeedsTrace, TraceBreaks, table
  <2>4. CASE UNCHANGED vars
    BY <2>4 DEF vars, PoisonNeedsTrace, TraceBreaks
  <2> QED
    BY <2>1, <2>2, <2>3, <2>4
<1> QED
  BY <1>1, <1>2, PTL DEF Spec

\* Once the mutex is poisoned lock_state fails, and the table never changes.
THEOREM PoisonIsFinal == Spec => PoisonFreezesTable
<1>1. [Next]_vars => [poisoned => UNCHANGED <<next_request_id, pending_requests>>]_vars
  <2> SUFFICES ASSUME [Next]_vars, poisoned
               PROVE  UNCHANGED <<next_request_id, pending_requests>> \/ UNCHANGED vars
    OBVIOUS
  <2>1. CASE \E c \in Conns : HandleRequest(c)
    BY <2>1, HandlingKeepsTable DEF table
  <2>2. CASE \E c \in Conns : HandleAnswer(c)
    BY <2>2, AnswersKeepTable DEF table
  <2>3. CASE Next /\ \A c \in Conns : ~HandleRequest(c) /\ ~HandleAnswer(c)
    BY <2>3, OthersKeepTable DEF table
  <2> QED
    BY <2>1, <2>2, <2>3
<1> QED
  BY <1>1, PTL DEF Spec, PoisonFreezesTable

-----------------------------------------------------------------------------
(***************************************************************************)
(* The init flow, for every value of the constants: what waits in the      *)
(* table, in which order an init request goes through registration and     *)
(* settings to its answer, how often anything is answered or continued,    *)
(* and in which order a connection's replies leave.                        *)
(*                                                                         *)
(* What peers send: requests the host may be sent, each id once, and       *)
(* answers to requests that were written to them.                          *)
(***************************************************************************)

RequestsKnown ==
    \A c \in Conns : \A j \in DOMAIN toHost[c] :
        toHost[c][j].kind = "request" => toHost[c][j] \in PeerRequests

RequestsOnce ==
    \A c \in Conns : \A i, j \in DOMAIN toHost[c] :
        /\ toHost[c][i].kind = "request"
        /\ toHost[c][j].kind = "request"
        /\ toHost[c][i].request_id = toHost[c][j].request_id
        => i = j

AnswersFit ==
    \A c \in Conns : \A j \in DOMAIN toHost[c] :
        toHost[c][j].kind = "answer" =>
            \E i \in DOMAIN wire[c] :
                wire[c][i].kind = "request" /\ toHost[c][j] \in AnswersTo(wire[c][i])

PeerInv == RequestsKnown /\ RequestsOnce /\ AnswersFit

\* The peer of c sends nothing, or a frame with these qualities.
MaySend(c, frame) ==
    /\ frame.kind = "request" =>
          /\ frame \in PeerRequests
          /\ ~HasSent(c, "request", frame.request_id)
    /\ frame.kind = "answer" =>
          \E i \in DOMAIN wire[c] : wire[c][i].kind = "request" /\ frame \in AnswersTo(wire[c][i])

LEMMA PeerSendsOnce ==
  ASSUME TypeInv, RequestsOnce, NEW c \in Conns, NEW frame, PeerSends(c, frame),
         frame.kind = "request" => ~HasSent(c, "request", frame.request_id)
  PROVE  RequestsOnce'
<1>1. /\ toHost'[c] = Append(toHost[c], frame)
      /\ toHost[c] \in Seq(InboundFrame)
      /\ \A d \in Conns : d # c => toHost'[d] = toHost[d]
  BY DEF PeerSends, TypeInv, TypeOK, ChannelsOK
<1>2. \A j \in DOMAIN toHost'[c] :
         \/ j \in DOMAIN toHost[c] /\ toHost'[c][j] = toHost[c][j]
         \/ j = Len(toHost[c]) + 1 /\ toHost'[c][j] = frame
  BY <1>1
<1> SUFFICES ASSUME NEW d \in Conns, NEW i \in DOMAIN toHost'[d], NEW j \in DOMAIN toHost'[d],
                    toHost'[d][i].kind = "request", toHost'[d][j].kind = "request",
                    toHost'[d][i].request_id = toHost'[d][j].request_id
             PROVE  i = j
  BY DEF RequestsOnce
<1>3. CASE d # c
  BY <1>1, <1>3 DEF RequestsOnce
<1>4. CASE d = c
  BY <1>2, <1>4 DEF RequestsOnce, HasSent, Positions
<1> QED
  BY <1>3, <1>4

LEMMA PeerSendsFit ==
  ASSUME TypeInv, PeerInv, NEW c \in Conns, NEW frame \in InboundFrame, PeerSends(c, frame),
         MaySend(c, frame)
  PROVE  PeerInv'
<1>1. /\ toHost[c] \in Seq(InboundFrame)
      /\ toHost' = [toHost EXCEPT ![c] = Append(@, frame)]
      /\ UNCHANGED wire
  BY DEF PeerSends, TypeInv, TypeOK, ChannelsOK
<1>2. /\ toHost'[c] = Append(toHost[c], frame)
      /\ \A d \in Conns : d # c => toHost'[d] = toHost[d]
  BY <1>1 DEF TypeInv, TypeOK, ChannelsOK
<1>3. \A j \in DOMAIN toHost'[c] :
         \/ j \in DOMAIN toHost[c] /\ toHost'[c][j] = toHost[c][j]
         \/ j = Len(toHost[c]) + 1 /\ toHost'[c][j] = frame
  BY <1>1, <1>2
<1>4. RequestsKnown'
  BY <1>2, <1>3 DEF PeerInv, RequestsKnown, MaySend
<1>5. RequestsOnce'
  BY PeerSendsOnce DEF PeerInv, MaySend
<1>6. AnswersFit'
  BY <1>1, <1>2, <1>3 DEF PeerInv, AnswersFit, MaySend, AnswersTo
<1> QED
  BY <1>4, <1>5, <1>6 DEF PeerInv

LEMMA PeerStepFit ==
  ASSUME TypeInv, PeerInv, NEW c \in Conns, PeerStep(c)
  PROVE  PeerInv'
<1>1. CASE PeerRequest(c)
  <2>1. PICK request \in PeerRequests :
           ~HasSent(c, "request", request.request_id) /\ PeerSends(c, request)
    BY <1>1 DEF PeerRequest
  <2>2. request \in InboundFrame /\ request.kind = "request"
    BY PeersAssumption DEF InboundFrame, RequestFrame
  <2> QED
    BY <2>1, <2>2, PeerSendsFit DEF MaySend
<1>2. CASE PeerAnswers(c)
  <2>1. PICK i \in DOMAIN wire[c] :
           /\ wire[c][i].kind = "request"
           /\ \E answer \in AnswersTo(wire[c][i]) : PeerSends(c, answer)
    BY <1>2 DEF PeerAnswers, Positions
  <2>2. PICK answer \in AnswersTo(wire[c][i]) : PeerSends(c, answer)
    BY <2>1
  <2>3. answer \in InboundFrame /\ answer.kind = "answer"
    BY <2>1, AnswersTyped DEF AnswersTo
  <2> QED
    BY <2>1, <2>2, <2>3, PeerSendsFit DEF MaySend
<1>3. CASE PeerRepeats(c)
  <2>1. PICK i \in DOMAIN toHost[c] : toHost[c][i].kind = "answer" /\ PeerSends(c, toHost[c][i])
    BY <1>3 DEF PeerRepeats, Positions
  <2>2. toHost[c][i] \in InboundFrame
    BY DEF TypeInv, TypeOK, ChannelsOK
  <2>3. MaySend(c, toHost[c][i])
    BY <2>1 DEF MaySend, PeerInv, AnswersFit
  <2> QED
    BY <2>1, <2>2, <2>3, PeerSendsFit
<1>4. CASE PeerSendsMalformed(c)
  <2>1. \A defect \in Defects :
           /\ [kind |-> "malformed", defect |-> defect] \in InboundFrame
           /\ MaySend(c, [kind |-> "malformed", defect |-> defect])
    BY DEF InboundFrame, MalformedFrame, MaySend
  <2> QED
    BY <1>4, <2>1, PeerSendsFit DEF PeerSendsMalformed
<1>5. CASE PeerCloses(c)
  <2>1. PICK n \in received[c]..Len(toHost[c]) :
           toHost' = [toHost EXCEPT ![c] = SubSeq(@, 1, n)]
    BY <1>5 DEF PeerCloses
  <2>2. toHost[c] \in Seq(InboundFrame) /\ n \in Nat /\ n <= Len(toHost[c])
    BY <2>1 DEF TypeInv, TypeOK, ChannelsOK, ThreadsOK
  <2>3. \A d \in Conns : \A j \in DOMAIN toHost'[d] :
           j \in DOMAIN toHost[d] /\ toHost'[d][j] = toHost[d][j]
    BY <2>1, <2>2 DEF TypeInv, TypeOK, ChannelsOK
  <2>4. UNCHANGED wire
    BY <1>5 DEF PeerCloses
  <2>5. RequestsKnown'
    BY <2>3 DEF PeerInv, RequestsKnown
  <2>6. RequestsOnce'
    BY <2>3 DEF PeerInv, RequestsOnce
  <2>7. AnswersFit'
    BY <2>3, <2>4 DEF PeerInv, AnswersFit, AnswersTo
  <2> QED
    BY <2>5, <2>6, <2>7 DEF PeerInv
<1> QED
  BY <1>1, <1>2, <1>3, <1>4, <1>5 DEF PeerStep

LEMMA NextFit == TypeInv /\ PeerInv /\ [Next]_vars => PeerInv'
<1> SUFFICES ASSUME TypeInv, PeerInv, [Next]_vars PROVE PeerInv'
  OBVIOUS
<1>1. ASSUME UNCHANGED toHost,
             \A c \in Conns : \A i \in DOMAIN wire[c] :
                i \in DOMAIN wire'[c] /\ wire'[c][i] = wire[c][i]
      PROVE  PeerInv'
  BY <1>1 DEF PeerInv, RequestsKnown, RequestsOnce, AnswersFit, AnswersTo
<1>2. ASSUME NEW c \in Conns, Accept(c)
      PROVE  PeerInv'
  BY <1>1, <1>2 DEF Accept
<1>3. ASSUME NEW c \in Conns, ThreadStep(c)
      PROVE  PeerInv'
  <2>1. CASE WriteFrame(c)
    <3>1. /\ outbound[c] # <<>> /\ outbound[c] \in Seq(OutboundFrame)
          /\ wire[c] \in Seq(OutboundFrame)
      BY <2>1 DEF WriteFrame, TypeInv, TypeOK, ThreadsOK, ChannelsOK, InStep
    <3>2. /\ Head(outbound[c]) \in OutboundFrame
          /\ wire' = [wire EXCEPT ![c] = Append(@, Head(outbound[c]))]
      BY <2>1, <3>1 DEF WriteFrame
    <3>3. \A d \in Conns : \A i \in DOMAIN wire[d] :
             i \in DOMAIN wire'[d] /\ wire'[d][i] = wire[d][i]
      BY <3>1, <3>2 DEF TypeInv, TypeOK, ChannelsOK
    <3> QED
      BY <1>1, <2>1, <3>3 DEF WriteFrame, peers
  <2>2. CASE ~WriteFrame(c)
    <3>1. UNCHANGED <<toHost, wire>>
      BY <1>3, <2>2 DEF ThreadStep, ReadFrame, ReadMalformed, ReadNext, ReadEnds, WriteFails,
           HandleRequest, HandleTcpHandshake, HandleTransportHandshake, HandleInitializeExtension,
           InitializeExtensionFails, HandleRestExecute, RestExecuteFails, IgnoreUnknownAction,
           HandlingRequest, HandleAnswer, AnswerAfterPoison, IgnoreUnknownAnswer,
           AcknowledgementFails, TracePoisons, RegistrationRefused, RegistrationAcknowledged,
           EnvironmentSettingsReceived, TakePending, HandlingAnswer, peers
    <3> QED
      BY <1>1, <3>1
  <2> QED
    BY <2>1, <2>2
<1>4. ASSUME NEW c \in Conns, PeerStep(c)
      PROVE  PeerInv'
  BY <1>4, PeerStepFit
<1>5. CASE AcceptFails
  BY <1>1, <1>5 DEF AcceptFails, peers
<1>6. CASE StderrBreaks
  BY <1>1, <1>6 DEF StderrBreaks, peers
<1>7. CASE UNCHANGED vars
  BY <1>1, <1>7 DEF vars
<1> QED
  BY <1>2, <1>3, <1>4, <1>5, <1>6, <1>7 DEF Next

LEMMA PeerInvariant == Spec => []PeerInv
<1>1. Init => PeerInv
  BY DEF Init, PeerInv, RequestsKnown, RequestsOnce, AnswersFit
<1>2. TypeInv /\ PeerInv /\ [Next]_vars => PeerInv'
  BY NextFit
<1> QED
  BY <1>1, <1>2, TypeInvariant, PTL DEF Spec

-----------------------------------------------------------------------------
(***************************************************************************)
(* The ledger: what waits in the table and what was returned, against what *)
(* has been read.                                                          *)
(*                                                                         *)
(* Neither the order of the init flow nor "answered at most once" is       *)
(* inductive by itself: the table is keyed by ids, and the entry an answer *)
(* finds must be known to be the only one of its init request, the latest, *)
(* of the kind its place in the flow asks for, and not answered yet.  The  *)
(* history tells the place: the second id drawn for an init request is     *)
(* that of its settings request.                                           *)
(***************************************************************************)

\* The thread of c is done with this frame.
Done(c, frame) == \E j \in DOMAIN toHost[c] : DoneWith(c, j) /\ toHost[c][j] = frame

\* An init request has an id only once its handler has run.
FlowDone == \A k \in DOMAIN flow : Done(flow[k].conn, flow[k].init)

\* An id was drawn for the same init request before.
Later(k) == \E l \in DOMAIN flow : l < k /\ flow[l] = flow[k]

\* A continuation belongs to the latest id of its init request.
LatestWaits ==
    \A k \in DOMAIN pending_requests :
        /\ \A l \in DOMAIN flow : flow[l] = flow[k] => l <= k
        /\ pending_requests[k].kind =
              IF Later(k) THEN "EnvironmentSettings" ELSE "RegisterRestActions"

\* The first request for an init request registers, the second asks for settings.
InStage ==
    \A c \in Conns : \A i \in DOMAIN HostFrames(c) :
        HostFrames(c)[i].kind = "request" =>
            HostFrames(c)[i].action =
                IF Later(HostFrames(c)[i].request_id)
                THEN "ENVIRONMENT_SETTINGS" ELSE "REGISTER_REST_ACTIONS"

\* An answer to this request of the host has been handled.
AnswerHandled(c, id) ==
    \E j \in DOMAIN toHost[c] :
        /\ DoneWith(c, j)
        /\ toHost[c][j].kind = "answer"
        /\ toHost[c][j].request_id = id

\* A request of the host waits until an answer to it is handled.
WaitsOrHandled ==
    \A c \in Conns : \A i \in DOMAIN HostFrames(c) :
        HostFrames(c)[i].kind = "request" =>
            \/ HostFrames(c)[i].request_id \in DOMAIN pending_requests
            \/ AnswerHandled(c, HostFrames(c)[i].request_id)

\* The request a response answers has been handled.
RequestHandled(c, id) ==
    \E j \in DOMAIN toHost[c] :
        /\ DoneWith(c, j)
        /\ toHost[c][j].kind = "request"
        /\ toHost[c][j].request_id = id

ResponsesDone ==
    \A c \in Conns : \A i \in DOMAIN HostFrames(c) :
        HostFrames(c)[i].kind = "response" => RequestHandled(c, HostFrames(c)[i].request_id)

\* There is a response under this id.
Replied(c, id) ==
    \E i \in DOMAIN HostFrames(c) :
        HostFrames(c)[i].kind = "response" /\ HostFrames(c)[i].request_id = id

\* What still has a continuation is not answered.
WaitingUnanswered ==
    \A k \in DOMAIN pending_requests : ~Replied(flow[k].conn, flow[k].init.request_id)

Ledger ==
    /\ FlowDone
    /\ LatestWaits
    /\ InStage
    /\ WaitsOrHandled
    /\ ResponsesDone
    /\ WaitingUnanswered
    /\ AtMostOneResponse
    /\ InitSequence

\* The invariants the ledger rests on.
Base == TypeInv /\ Correlation /\ PeerInv

(***************************************************************************)
(* What every step keeps.                                                  *)
(***************************************************************************)

\* Threads only go on reading, and only reading puts a frame in their hand.
CursorKept ==
    \A c \in Conns :
        /\ received[c] <= received'[c]
        /\ received'[c] = received[c] /\ pc[c] # "handling" => pc'[c] # "handling"

\* Appending to what a peer sent takes nothing from what was read.
LEMMA PeerSendsReads ==
  ASSUME TypeInv, NEW c \in Conns, NEW frame, PeerSends(c, frame)
  PROVE  ReadsKept /\ CursorKept
<1>1. /\ UNCHANGED <<pc, received>>
      /\ toHost'[c] = Append(toHost[c], frame)
      /\ toHost[c] \in Seq(InboundFrame)
      /\ \A d \in Conns : d # c => toHost'[d] = toHost[d]
  BY DEF PeerSends, TypeInv, TypeOK, ChannelsOK
<1>2. \A d \in Conns : received[d] \in 0..Len(toHost[d])
  BY DEF TypeInv, TypeOK, ThreadsOK, ChannelsOK
<1>3. \A j \in 1..received[c] : toHost'[c][j] = toHost[c][j]
  BY <1>1, <1>2
<1>4. \A d \in Conns : \A j \in 1..received[d] : toHost'[d][j] = toHost[d][j]
  BY <1>1, <1>3
<1> QED
  BY <1>1, <1>2, <1>4 DEF ReadsKept, CursorKept

LEMMA NextReads ==
  ASSUME TypeInv, [Next]_vars
  PROVE  ReadsKept /\ CursorKept
<1> USE DEF TypeInv, TypeOK, ThreadsOK, ChannelsOK
<1>1. ASSUME UNCHANGED <<received, toHost>>,
             \A c \in Conns : pc[c] # "handling" => pc'[c] # "handling"
      PROVE  ReadsKept /\ CursorKept
  BY <1>1 DEF ReadsKept, CursorKept
<1>2. ASSUME NEW c \in Conns, Accept(c)
      PROVE  ReadsKept /\ CursorKept
  BY <1>1, <1>2 DEF Accept
<1>3. ASSUME NEW c \in Conns, ReadFrame(c) \/ ReadMalformed(c)
      PROVE  ReadsKept /\ CursorKept
  <2>1. received' = [received EXCEPT ![c] = @ + 1] /\ UNCHANGED toHost
    BY <1>3 DEF ReadFrame, ReadMalformed, ReadNext, peers
  <2>2. \A d \in Conns : d # c => pc'[d] = pc[d]
    BY <1>3 DEF ReadFrame, ReadMalformed
  <2> QED
    BY <2>1, <2>2 DEF ReadsKept, CursorKept
<1>4. ASSUME NEW c \in Conns, ReadEnds(c) \/ WriteFrame(c) \/ WriteFails(c)
      PROVE  ReadsKept /\ CursorKept
  BY <1>1, <1>4 DEF ReadEnds, WriteFrame, WriteFails, EndThread, Return, peers
<1>5. ASSUME NEW c \in Conns, HandleRequest(c) \/ HandleAnswer(c)
      PROVE  ReadsKept /\ CursorKept
  <2>1. UNCHANGED <<received, toHost>>
    BY <1>5 DEF HandleRequest, HandleTcpHandshake, HandleTransportHandshake,
         HandleInitializeExtension, InitializeExtensionFails, HandleRestExecute, RestExecuteFails,
         IgnoreUnknownAction, HandlingRequest, HandleAnswer, AnswerAfterPoison,
         IgnoreUnknownAnswer, AcknowledgementFails, TracePoisons, RegistrationRefused,
         RegistrationAcknowledged, EnvironmentSettingsReceived, TakePending, HandlingAnswer, peers
  <2>2. \/ \E frames : Return(c, frames)
        \/ \E how \in Ended : EndThread(c, how)
    BY <1>5 DEF HandleRequest, HandleTcpHandshake, HandleTransportHandshake,
         HandleInitializeExtension, InitializeExtensionFails, HandleRestExecute, RestExecuteFails,
         IgnoreUnknownAction, HandleAnswer, AnswerAfterPoison, IgnoreUnknownAnswer,
         AcknowledgementFails, TracePoisons, RegistrationRefused, RegistrationAcknowledged,
         EnvironmentSettingsReceived, Ended
  <2>3. \A d \in Conns : pc[d] # "handling" => pc'[d] # "handling"
    BY <2>2 DEF Return, EndThread, Ended
  <2> QED
    BY <1>1, <2>1, <2>3
<1>6. ASSUME NEW c \in Conns, PeerStep(c)
      PROVE  ReadsKept /\ CursorKept
  <2>1. CASE PeerCloses(c)
    <3>1. PICK n \in received[c]..Len(toHost[c]) :
             toHost' = [toHost EXCEPT ![c] = SubSeq(@, 1, n)]
      BY <2>1 DEF PeerCloses
    <3>2. UNCHANGED <<pc, received>>
      BY <2>1 DEF PeerCloses
    <3>3. /\ toHost'[c] = SubSeq(toHost[c], 1, n)
          /\ toHost[c] \in Seq(InboundFrame) /\ n \in Nat /\ received[c] <= n
          /\ \A d \in Conns : d # c => toHost'[d] = toHost[d]
      BY <3>1
    <3>4. \A j \in 1..received[c] : toHost'[c][j] = toHost[c][j]
      BY <3>1, <3>3
    <3>5. \A d \in Conns : \A j \in 1..received[d] : toHost'[d][j] = toHost[d][j]
      BY <3>3, <3>4
    <3> QED
      BY <3>2, <3>5 DEF ReadsKept, CursorKept
  <2> QED
    BY <1>6, <2>1, PeerSendsReads DEF PeerStep, PeerRequest, PeerAnswers, PeerRepeats, PeerSendsMalformed
<1>7. CASE AcceptFails
  BY <1>1, <1>7 DEF AcceptFails, peers, Running
<1>8. CASE StderrBreaks \/ UNCHANGED vars
  BY <1>1, <1>8 DEF StderrBreaks, vars, peers
<1> QED
  BY <1>2, <1>3, <1>4, <1>5, <1>6, <1>7, <1>8 DEF Next, ThreadStep

\* What a thread is done with stays done.
DoneKept ==
    \A c \in Conns : \A j \in DOMAIN toHost[c] :
        DoneWith(c, j) =>
            /\ j \in DOMAIN toHost'[c]
            /\ DoneWith(c, j)'
            /\ toHost'[c][j] = toHost[c][j]

LEMMA ReadsKeepDone ==
  ASSUME TypeInv, TypeInv', ReadsKept, CursorKept
  PROVE  DoneKept
<1> SUFFICES ASSUME NEW c \in Conns, NEW j \in DOMAIN toHost[c], DoneWith(c, j)
             PROVE  /\ j \in DOMAIN toHost'[c]
                    /\ DoneWith(c, j)'
                    /\ toHost'[c][j] = toHost[c][j]
  BY DEF DoneKept
<1>1. /\ toHost[c] \in Seq(InboundFrame) /\ toHost'[c] \in Seq(InboundFrame)
      /\ received[c] \in Nat /\ received'[c] \in Nat /\ received'[c] <= Len(toHost'[c])
  BY DEF TypeInv, TypeOK, ThreadsOK, ChannelsOK
<1>2. j \in 1..received[c]
  BY <1>1 DEF DoneWith
<1>3. j \in 1..received'[c] /\ toHost'[c][j] = toHost[c][j]
  BY <1>2 DEF ReadsKept
<1>4. DoneWith(c, j)'
  BY <1>1, <1>2 DEF DoneWith, CursorKept
<1> QED
  BY <1>1, <1>3, <1>4

LEMMA NextKeepsDone ==
  ASSUME TypeInv, TypeInv', [Next]_vars
  PROVE  DoneKept
BY NextReads, ReadsKeepDone

(***************************************************************************)
(* Who an init request, an answer and a continuation belong to.            *)
(***************************************************************************)

\* A connection has one request with a given id, and so one init request
\* behind all ids drawn for it.
LEMMA OneOrigin ==
  ASSUME Base, FlowDone, NEW k \in DOMAIN flow, NEW l \in DOMAIN flow,
         flow[k].conn = flow[l].conn, flow[k].init.request_id = flow[l].init.request_id
  PROVE  flow[k] = flow[l]
<1>1. flow[k] \in [conn: Conns, init: RequestFrame] /\ flow[l] \in [conn: Conns, init: RequestFrame]
  BY DEF Base, TypeInv, TypeOK, TableOK
<1>2. flow[k].init.kind = "request" /\ flow[l].init.kind = "request"
  BY <1>1 DEF RequestFrame
<1>3. PICK i \in DOMAIN toHost[flow[k].conn] : toHost[flow[k].conn][i] = flow[k].init
  BY DEF FlowDone, Done
<1>4. PICK j \in DOMAIN toHost[flow[k].conn] : toHost[flow[k].conn][j] = flow[l].init
  BY DEF FlowDone, Done
<1>5. i = j
  BY <1>1, <1>2, <1>3, <1>4 DEF Base, PeerInv, RequestsOnce
<1> QED
  BY <1>1, <1>3, <1>4, <1>5

\* A request in hand has no response, and if it is an init request no id.
LEMMA InHandIsNew ==
  ASSUME Base, FlowDone, ResponsesDone, NEW c \in Conns, pc[c] = "handling",
         Frame(c).kind = "request"
  PROVE  /\ ~Replied(c, Frame(c).request_id)
         /\ \A k \in DOMAIN flow :
               flow[k].conn = c => flow[k].init.request_id # Frame(c).request_id
<1>1. received[c] \in DOMAIN toHost[c] /\ Frame(c) = toHost[c][received[c]]
  BY FrameInHand DEF Base, TypeInv, TypeOK, ChannelsOK
<1>2. ~RequestHandled(c, Frame(c).request_id)
  <2> SUFFICES ASSUME NEW j \in DOMAIN toHost[c], DoneWith(c, j),
                      toHost[c][j].kind = "request",
                      toHost[c][j].request_id = Frame(c).request_id
               PROVE  FALSE
    BY DEF RequestHandled
  <2>1. j = received[c]
    BY <1>1 DEF Base, PeerInv, RequestsOnce
  <2>2. received[c] \in Nat
    BY DEF Base, TypeInv, TypeOK, ThreadsOK
  <2> QED
    BY <2>1, <2>2 DEF DoneWith
<1>3. ~Replied(c, Frame(c).request_id)
  BY <1>2 DEF Replied, ResponsesDone
<1>4. ASSUME NEW k \in DOMAIN flow, flow[k].conn = c,
             flow[k].init.request_id = Frame(c).request_id
      PROVE  FALSE
  <2>1. flow[k].init.kind = "request"
    BY DEF Base, TypeInv, TypeOK, TableOK, RequestFrame
  <2> QED
    BY <1>2, <1>4, <2>1 DEF FlowDone, Done, RequestHandled
<1> QED
  BY <1>3, <1>4

\* Leaving a handler, a thread is done with the frame in its hand.
LEMMA HandlerDone ==
  ASSUME TypeInv, NEW c \in Conns, pc[c] = "handling", UNCHANGED <<received, toHost>>,
         \/ \E frames : Return(c, frames)
         \/ \E how \in Ended : EndThread(c, how)
  PROVE  /\ Done(c, Frame(c))'
         /\ Frame(c).kind = "answer" => AnswerHandled(c, Frame(c).request_id)'
         /\ Frame(c).kind = "request" => RequestHandled(c, Frame(c).request_id)'
<1>1. received[c] \in DOMAIN toHost[c] /\ Frame(c) = toHost[c][received[c]]
  BY FrameInHand DEF TypeInv, TypeOK, ChannelsOK
<1>2. pc'[c] # "handling"
  BY DEF Return, EndThread, Ended, TypeInv, TypeOK, ThreadsOK
<1>3. DoneWith(c, received[c])'
  BY <1>2 DEF DoneWith
<1>4. Frame(c)' = Frame(c)
  BY DEF Frame
<1> QED
  BY <1>1, <1>3, <1>4 DEF Done, AnswerHandled, RequestHandled

\* The continuation that the answer in hand takes out of the table: its request
\* was written to this connection, is of the kind the continuation asks for,
\* and the answer fits it.
LEMMA AnsweredRequest ==
  ASSUME Base, Ledger, NEW c \in Conns, NEW kind, TakePending(c, kind)
  PROVE  LET id == Frame(c).request_id
         IN  \E i \in DOMAIN HostFrames(c) :
                /\ HostFrames(c)[i].kind = "request"
                /\ HostFrames(c)[i].request_id = id
                /\ HostFrames(c)[i].action =
                      IF kind = "EnvironmentSettings"
                      THEN "ENVIRONMENT_SETTINGS" ELSE "REGISTER_REST_ACTIONS"
                /\ Frame(c) \in AnswersTo(HostFrames(c)[i])
<1> DEFINE id == Frame(c).request_id
<1> USE DEF Base
<1>1. /\ pc[c] = "handling" /\ Frame(c).kind = "answer"
      /\ id \in DOMAIN pending_requests /\ pending_requests[id].kind = kind
  BY PendingTaken
<1>2. received[c] \in DOMAIN toHost[c] /\ Frame(c) = toHost[c][received[c]]
  BY <1>1, FrameInHand DEF TypeInv, TypeOK, ChannelsOK
<1>3. PICK i \in DOMAIN wire[c] :
         wire[c][i].kind = "request" /\ Frame(c) \in AnswersTo(wire[c][i])
  BY <1>1, <1>2 DEF PeerInv, AnswersFit
<1>4. i \in DOMAIN HostFrames(c) /\ HostFrames(c)[i] = wire[c][i]
  BY WrittenIsReturned
<1>5. HostFrames(c)[i].request_id = id
  BY <1>3, <1>4 DEF AnswersTo
<1>6. kind = IF Later(id) THEN "EnvironmentSettings" ELSE "RegisterRestActions"
  BY <1>1 DEF Ledger, LatestWaits
<1>7. HostFrames(c)[i].action =
         IF Later(id) THEN "ENVIRONMENT_SETTINGS" ELSE "REGISTER_REST_ACTIONS"
  BY <1>3, <1>4, <1>5 DEF Ledger, InStage
<1> QED
  BY <1>3, <1>4, <1>5, <1>6, <1>7

(***************************************************************************)
(* The three ways a step can act on the ledger.                            *)
(***************************************************************************)

\* A continuation leaves the table only with its answer.
LeaveAnswered ==
    \A k \in DOMAIN pending_requests \ DOMAIN pending_requests', c \in Conns :
        flow[k].conn = c => AnswerHandled(c, k)'

\* Continuations only leave the table.
TableShrinks ==
    /\ \A k \in DOMAIN pending_requests' :
          k \in DOMAIN pending_requests /\ pending_requests'[k] = pending_requests[k]
    /\ LeaveAnswered

\* No id is drawn and nothing returned.
Rests == FramesKept /\ TableShrinks /\ UNCHANGED flow

\* Where a new response stands in the init flow.
EndsFlow(c, f) ==
    f.to = "DISCOVERY_EXTENSIONS" =>
        \E j \in 1..received[c] :
            /\ toHost[c][j].kind = "request"
            /\ toHost[c][j].request_id = f.request_id
            /\ Preceded(c, Len(HostFrames(c)) + 1, toHost[c][j], "ENVIRONMENT_SETTINGS", "settings")

\* A request of c is answered with f, for the first time.
Responds(c, f) ==
    /\ FrameAdded(c, f) /\ f \in HostResponse
    /\ RequestHandled(c, f.request_id)'
    /\ ~Replied(c, f.request_id)
    /\ EndsFlow(c, f)
    /\ f.to \in Immediate =>
          pc[c] = "handling" /\ Frame(c).kind = "request" /\ f.request_id = Frame(c).request_id
    /\ TableShrinks /\ UNCHANGED flow
    /\ \A k \in DOMAIN pending_requests' :
          flow[k].conn = c => flow[k].init.request_id # f.request_id

\* The next id is drawn for init, the frame f returned under it, and the only
\* continuation of init kept.
Draws(c, f, init) ==
    /\ FrameAdded(c, f) /\ f \in HostRequest
    /\ init \in RequestFrame /\ Done(c, init)' /\ ~Replied(c, init.request_id)
    /\ f.request_id = next_request_id
    /\ flow' = Insert(flow, next_request_id, [conn |-> c, init |-> init])
    /\ next_request_id \in DOMAIN pending_requests'
    /\ \A k \in DOMAIN pending_requests' \ {next_request_id} :
          /\ k \in DOMAIN pending_requests /\ pending_requests'[k] = pending_requests[k]
          /\ flow[k] # [conn |-> c, init |-> init]
    /\ LeaveAnswered
    /\ IF \E l \in DOMAIN flow : flow[l] = [conn |-> c, init |-> init]
       THEN /\ f.action = "ENVIRONMENT_SETTINGS"
            /\ pending_requests'[next_request_id].kind = "EnvironmentSettings"
            /\ Preceded(c, Len(HostFrames(c)) + 1, init, "REGISTER_REST_ACTIONS", "true")
       ELSE /\ f.action = "REGISTER_REST_ACTIONS"
            /\ pending_requests'[next_request_id].kind = "RegisterRestActions"

\* Every step does one of these.
Effect ==
    \/ Rests
    \/ \E c \in Conns, f \in OutboundFrame : Responds(c, f)
    \/ \E c \in Conns, f \in OutboundFrame, init \in RequestFrame : Draws(c, f, init)

LEMMA RequestEffect ==
  ASSUME Base, Ledger, NEW c \in Conns, HandleRequest(c)
  PROVE  Effect
<1> USE DEF Base
<1>1. ASSUME NEW action, HandlingRequest(c, action)
      PROVE  /\ pc[c] = "handling" /\ Frame(c).kind = "request" /\ Frame(c) \in RequestFrame
             /\ Frame(c).action = action
             /\ UNCHANGED <<received, toHost, wire>>
  BY <1>1, FrameInHand DEF HandlingRequest, peers
<1>2. ASSUME UNCHANGED <<table, flow>>
      PROVE  TableShrinks /\ UNCHANGED flow
  BY <1>2 DEF table, TableShrinks, LeaveAnswered
<1>3. ASSUME NEW action \in Immediate, HandlingRequest(c, action),
             Return(c, <<ResponseTo(Frame(c))>>), UNCHANGED <<table, flow>>
      PROVE  Effect
  <2> DEFINE f == ResponseTo(Frame(c))
  <2>1. f \in OutboundFrame /\ f \in HostResponse /\ f.request_id = Frame(c).request_id /\ f.to = action
    BY <1>1, <1>3, FramesTyped DEF ResponseTo, RequestFrame, HostResponse
  <2>2. FrameAdded(c, f)
    BY <1>1, <1>3, <2>1, ReturnAddsFrame
  <2>3. RequestHandled(c, Frame(c).request_id)'
    BY <1>1, <1>3, HandlerDone
  <2>4. /\ ~Replied(c, Frame(c).request_id)
        /\ \A k \in DOMAIN flow :
              flow[k].conn = c => flow[k].init.request_id # Frame(c).request_id
    BY <1>1, <1>3, InHandIsNew DEF Ledger
  <2>5. TableShrinks /\ UNCHANGED flow /\ DOMAIN pending_requests' \subseteq DOMAIN flow
    BY <1>2, <1>3 DEF TypeInv, TypeOK, TableOK, table
  <2>6. RequestHandled(c, f.request_id)'
    BY <2>1, <2>3 DEF RequestHandled, ResponseTo
  <2>7. Responds(c, f)
    BY <1>1, <1>3, <2>1, <2>2, <2>4, <2>5, <2>6 DEF Responds, EndsFlow, Immediate
  <2> QED
    BY <2>1, <2>7 DEF Effect
<1>4. CASE HandleTcpHandshake(c)
  BY <1>3, <1>4 DEF HandleTcpHandshake, Immediate
<1>5. CASE HandleTransportHandshake(c)
  BY <1>3, <1>5 DEF HandleTransportHandshake, Immediate
<1>6. CASE HandleRestExecute(c)
  BY <1>3, <1>6 DEF HandleRestExecute, Immediate
<1>7. CASE HandleInitializeExtension(c)
  <2> DEFINE n == next_request_id
             init == Frame(c)
             f == RegisterRequest(n, init)
  <2>1. /\ pc[c] = "handling" /\ init.kind = "request" /\ init \in RequestFrame
        /\ UNCHANGED <<received, toHost, wire>>
    BY <1>1, <1>7 DEF HandleInitializeExtension
  <2>2. f \in OutboundFrame /\ f.kind = "request" /\ f.action = "REGISTER_REST_ACTIONS" /\ f.request_id = n
    BY <2>1, FramesTyped DEF RegisterRequest, TypeInv, TypeOK, TableOK
  <2>3. f \in HostRequest
    BY <2>2 DEF OutboundFrame, HostResponse
  <2>4. FrameAdded(c, f)
    BY <1>7, <2>1, <2>2, ReturnAddsFrame DEF HandleInitializeExtension
  <2>5. Done(c, init)'
    BY <1>7, <2>1, HandlerDone DEF HandleInitializeExtension
  <2>6. /\ ~Replied(c, init.request_id)
        /\ \A k \in DOMAIN flow : flow[k].conn = c => flow[k].init.request_id # init.request_id
    BY <2>1, InHandIsNew DEF Ledger
  <2>7. \A k \in DOMAIN flow : flow[k] # [conn |-> c, init |-> init]
    BY <2>6
  <2>8. /\ flow' = Insert(flow, n, [conn |-> c, init |-> init])
        /\ pending_requests' = Insert(pending_requests, n, RegisterPending(init))
    BY <1>7 DEF HandleInitializeExtension
  <2>9. /\ n \in DOMAIN pending_requests'
        /\ pending_requests'[n].kind = "RegisterRestActions"
        /\ DOMAIN pending_requests \ DOMAIN pending_requests' = {}
        /\ \A k \in DOMAIN pending_requests' \ {n} :
              k \in DOMAIN pending_requests /\ pending_requests'[k] = pending_requests[k]
    BY <2>8 DEF Insert, RegisterPending
  <2>10. DOMAIN pending_requests \subseteq DOMAIN flow
    BY DEF TypeInv, TypeOK, TableOK
  <2>11. Done(c, init)' /\ init' = init
    BY <2>1, <2>5 DEF Frame
  <2> HIDE DEF f, init, n
  <2>12. PICK g \in OutboundFrame : g = f
    BY <2>2
  <2>13. PICK i \in RequestFrame : i = init
    BY <2>1
  <2>14. Draws(c, g, i)
    <3>1. Done(c, i)'
      BY <2>11, <2>13
    <3> QED
      BY <2>2, <2>3, <2>4, <3>1, <2>6, <2>7, <2>8, <2>9, <2>10, <2>12, <2>13 DEF Draws, LeaveAnswered, n
  <2> QED
    BY <2>14 DEF Effect
<1>8. CASE InitializeExtensionFails(c)
  <2>1. FramesKept /\ TableShrinks /\ UNCHANGED flow
    BY <1>1, <1>2, <1>8, EndKeepsFrames DEF InitializeExtensionFails
  <2> QED
    BY <2>1 DEF Effect, Rests
<1>9. CASE RestExecuteFails(c)
  <2>1. FramesKept /\ TableShrinks /\ UNCHANGED flow
    BY <1>1, <1>2, <1>9, EndKeepsFrames DEF RestExecuteFails
  <2> QED
    BY <2>1 DEF Effect, Rests
<1>10. CASE IgnoreUnknownAction(c)
  <2>1. FramesKept /\ TableShrinks /\ UNCHANGED flow
    BY <1>1, <1>2, <1>10, ReturnKeepsFrames DEF IgnoreUnknownAction
  <2> QED
    BY <2>1 DEF Effect, Rests
<1> QED
  BY <1>4, <1>5, <1>6, <1>7, <1>8, <1>9, <1>10 DEF HandleRequest

LEMMA AnswerEffect ==
  ASSUME Base, Ledger, NEW c \in Conns, HandleAnswer(c)
  PROVE  Effect
<1> DEFINE id == Frame(c).request_id
<1> USE DEF Base
<1>1. CASE AnswerAfterPoison(c) \/ IgnoreUnknownAnswer(c)
  <2>1. FramesKept
    BY <1>1, EndKeepsFrames, ReturnKeepsFrames DEF AnswerAfterPoison, IgnoreUnknownAnswer,
       HandlingAnswer
  <2>2. TableShrinks /\ UNCHANGED flow
    BY <1>1 DEF AnswerAfterPoison, IgnoreUnknownAnswer, table, TableShrinks, LeaveAnswered
  <2> QED
    BY <2>1, <2>2 DEF Effect, Rests
<1>2. ASSUME NEW kind, TakePending(c, kind)
      PROVE  /\ pc[c] = "handling" /\ Frame(c).kind = "answer"
             /\ id \in DOMAIN pending_requests /\ id \in DOMAIN flow
             /\ pending_requests[id].kind = kind /\ pending_requests[id] \in PendingRequest
             /\ flow[id].conn = c
             /\ UNCHANGED <<received, toHost, wire>>
  <2>1. flow[id] = [conn |-> c, init |-> flow[id].init]
    BY <1>2, PendingBelongs
  <2>2. flow[id].conn = c
    BY <2>1
  <2> QED
    BY <1>2, <2>2, PendingTaken
<1>3. ASSUME NEW kind, TakePending(c, kind),
             \/ \E frames : Return(c, frames)
             \/ \E how \in Ended : EndThread(c, how)
      PROVE  \A k, d : k = id /\ d = c => AnswerHandled(d, k)'
  <2>1. AnswerHandled(c, id)' /\ id' = id
    BY <1>2, <1>3, HandlerDone DEF Frame
  <2> QED
    BY <2>1 DEF AnswerHandled
<1>4. ASSUME NEW kind, TakePending(c, kind),
             pending_requests' = Remove(pending_requests, id), UNCHANGED flow,
             \/ \E frames : Return(c, frames)
             \/ \E how \in Ended : EndThread(c, how)
      PROVE  TableShrinks
  <2>1. /\ DOMAIN pending_requests' = DOMAIN pending_requests \ {id}
        /\ \A k \in DOMAIN pending_requests' : pending_requests'[k] = pending_requests[k]
    BY <1>4 DEF Remove, Restrict
  <2>2. \A k \in DOMAIN pending_requests \ DOMAIN pending_requests' :
           k = id /\ flow[k].conn = c
    BY <1>2, <1>4, <2>1
  <2>3. LeaveAnswered
    BY <1>3, <1>4, <2>2 DEF LeaveAnswered
  <2> QED
    BY <2>1, <2>3 DEF TableShrinks
<1>5. CASE AcknowledgementFails(c)
  <2>1. TakePending(c, "RegisterRestActions") /\ EndThread(c, "error") /\ UNCHANGED flow
    BY <1>5 DEF AcknowledgementFails
  <2>2. TableShrinks
    BY <1>4, <1>5, <2>1 DEF AcknowledgementFails, Ended
  <2>3. FramesKept
    BY <1>2, <2>1, EndKeepsFrames
  <2> QED
    BY <2>1, <2>2, <2>3 DEF Effect, Rests
<1>6. CASE TracePoisons(c)
  <2>1. PICK kind \in {"RegisterRestActions", "EnvironmentSettings"} : TakePending(c, kind)
    BY <1>6 DEF TracePoisons
  <2>2. /\ EndThread(c, "panicked") /\ UNCHANGED flow
        /\ pending_requests' = Remove(pending_requests, id)
    BY <1>6 DEF TracePoisons
  <2>3. TableShrinks
    BY <1>4, <2>1, <2>2 DEF Ended
  <2>4. FramesKept
    BY <1>2, <2>1, <2>2, EndKeepsFrames
  <2> QED
    BY <2>2, <2>3, <2>4 DEF Effect, Rests
<1>7. CASE RegistrationRefused(c)
  <2>1. TakePending(c, "RegisterRestActions") /\ Return(c, <<>>) /\ UNCHANGED flow
    BY <1>7 DEF RegistrationRefused
  <2>2. TableShrinks
    BY <1>4, <1>7, <2>1 DEF RegistrationRefused
  <2>3. FramesKept
    BY <1>2, <2>1, ReturnKeepsFrames
  <2> QED
    BY <2>1, <2>2, <2>3 DEF Effect, Rests
<1>8. CASE RegistrationAcknowledged(c)
  <2> DEFINE n == next_request_id
             init == flow[id].init
             f == SettingsRequest(n, pending_requests[id])
  <2>1. TakePending(c, "RegisterRestActions")
    BY <1>8 DEF RegistrationAcknowledged
  <2>2. /\ pc[c] = "handling" /\ id \in DOMAIN pending_requests /\ id \in DOMAIN flow
        /\ Frame(c).kind = "answer"
        /\ pending_requests[id].kind = "RegisterRestActions"
        /\ pending_requests[id] \in PendingRequest
        /\ UNCHANGED <<received, toHost, wire>>
    BY <1>2, <2>1
  <2>3. flow[id] = [conn |-> c, init |-> init] /\ init \in RequestFrame
    BY <2>1, PendingBelongs
  <2>4. /\ f \in OutboundFrame /\ f.kind = "request"
        /\ f.action = "ENVIRONMENT_SETTINGS" /\ f.request_id = n
    BY <2>2, FramesTyped DEF SettingsRequest, TypeInv, TypeOK, TableOK
  <2>5. f \in HostRequest
    BY <2>4 DEF OutboundFrame, HostResponse
  <2>6. FrameAdded(c, f)
    BY <1>8, <2>2, <2>4, ReturnAddsFrame DEF RegistrationAcknowledged
  <2>7. Done(c, init)'
    <3>1. Done(c, init)
      BY <2>2, <2>3 DEF Ledger, FlowDone
    <3>2. PICK j \in DOMAIN toHost[c] : DoneWith(c, j) /\ toHost[c][j] = init
      BY <3>1 DEF Done
    <3>3. pc'[c] # "handling"
      BY <1>8 DEF RegistrationAcknowledged, Return, TypeInv, TypeOK, ThreadsOK
    <3>4. DoneWith(c, j)'
      BY <2>2, <3>2, <3>3 DEF DoneWith
    <3>5. init' = flow'[id].init
      BY <2>2 DEF Frame
    <3>6. flow'[id] = flow[id]
      BY <1>8, <2>2 DEF RegistrationAcknowledged, Insert, TypeInv, TypeOK, TableOK
    <3> QED
      BY <2>2, <3>2, <3>4, <3>5, <3>6 DEF Done
  <2>8. ~Replied(c, init.request_id)
    BY <2>2, <2>3 DEF Ledger, WaitingUnanswered
  <2>9. flow' = Insert(flow, n, [conn |-> c, init |-> init])
    BY <1>8, <2>3 DEF RegistrationAcknowledged
  <2>10. pending_requests' =
            Insert(Remove(pending_requests, id), n, SettingsPending(pending_requests[id]))
    BY <1>8 DEF RegistrationAcknowledged
  <2>11. /\ n \in DOMAIN pending_requests'
         /\ pending_requests'[n].kind = "EnvironmentSettings"
         /\ DOMAIN pending_requests \ DOMAIN pending_requests' \subseteq {id}
         /\ \A k \in DOMAIN pending_requests' \ {n} :
               /\ k \in DOMAIN pending_requests /\ k # id
               /\ pending_requests'[k] = pending_requests[k]
    BY <2>10 DEF Insert, Remove, Restrict, SettingsPending
  <2>12. \A k \in DOMAIN pending_requests : flow[k] = flow[id] => k = id
    <3>1. DOMAIN pending_requests \subseteq Nat /\ DOMAIN pending_requests \subseteq DOMAIN flow
      BY DEF TypeInv, TypeOK, TableOK
    <3>2. \A k \in DOMAIN pending_requests : flow[k] = flow[id] => k <= id /\ id <= k
      BY <2>2, <3>1 DEF Ledger, LatestWaits
    <3> QED
      BY <2>2, <3>1, <3>2
  <2>13. \A k, d : k = id /\ d = c => AnswerHandled(d, k)'
    BY <1>3, <1>8, <2>1 DEF RegistrationAcknowledged
  <2>14. flow[id].conn = c
    BY <1>2, <2>1
  <2>15. Preceded(c, Len(HostFrames(c)) + 1, init, "REGISTER_REST_ACTIONS", "true")
    <3>1. PICK i \in DOMAIN HostFrames(c) :
             /\ HostFrames(c)[i].kind = "request"
             /\ HostFrames(c)[i].request_id = id
             /\ HostFrames(c)[i].action = "REGISTER_REST_ACTIONS"
             /\ Frame(c) \in AnswersTo(HostFrames(c)[i])
      BY <2>1, AnsweredRequest
    <3>2. HostFrames(c) \in Seq(OutboundFrame)
      BY HostFramesTyped
    <3>3. i \in 1..(Len(HostFrames(c)) + 1 - 1)
      BY <3>2
    <3>4. Frame(c).body = "true"
      BY <1>8 DEF RegistrationAcknowledged, Acknowledges
    <3>5. Frame(c) = [kind |-> "answer", request_id |-> id, body |-> "true"]
      BY <3>1, <3>4 DEF AnswersTo
    <3>6. received[c] \in 1..received[c] /\ Frame(c) = toHost[c][received[c]]
      BY <2>2, FrameInHand DEF TypeInv, TypeOK, ChannelsOK
    <3> QED
      BY <3>1, <3>3, <3>5, <3>6 DEF Preceded, AnswerRead
  <2>16. \E l \in DOMAIN flow : flow[l] = [conn |-> c, init |-> init]
    BY <2>2, <2>3
  <2>17. PICK g \in OutboundFrame : g = f
    BY <2>4
  <2>18. PICK i \in RequestFrame : i = init
    BY <2>3
  <2>19. Done(c, i)'
    <3>1. flow'[id] = flow[id] /\ id' = id
      BY <1>8, <2>2 DEF RegistrationAcknowledged, Insert, TypeInv, TypeOK, TableOK, Frame
    <3>2. init' = i
      BY <2>18, <3>1
    <3> QED
      BY <2>7, <3>2
  <2>20. LeaveAnswered
    BY <2>11, <2>13, <2>14 DEF LeaveAnswered
  <2>21. \A k \in DOMAIN pending_requests' \ {n} :
            flow[k] # [conn |-> c, init |-> i]
    BY <2>3, <2>11, <2>12, <2>18
  <2> HIDE DEF f, init, n
  <2>22. Draws(c, g, i)
    BY <2>3, <2>4, <2>5, <2>6, <2>8, <2>9, <2>11, <2>15, <2>16, <2>17, <2>18, <2>19, <2>20, <2>21
       DEF Draws, n
  <2> QED
    BY <2>22 DEF Effect
<1>9. CASE EnvironmentSettingsReceived(c)
  <2> DEFINE f == InitializeResponse(pending_requests[id])
             init == flow[id].init
  <2>1. TakePending(c, "EnvironmentSettings")
    BY <1>9 DEF EnvironmentSettingsReceived
  <2>2. /\ pc[c] = "handling" /\ id \in DOMAIN pending_requests /\ id \in DOMAIN flow
        /\ Frame(c).kind = "answer"
        /\ pending_requests[id] \in PendingRequest
        /\ UNCHANGED <<received, toHost, wire, flow>>
    BY <1>2, <1>9, <2>1 DEF EnvironmentSettingsReceived
  <2>3. /\ flow[id] = [conn |-> c, init |-> init]
        /\ init \in RequestFrame /\ HasRead(c, init)
        /\ pending_requests[id].init_request_id = init.request_id
    BY <2>1, PendingBelongs
  <2>4. /\ f \in OutboundFrame /\ f.kind = "response" /\ f.request_id = init.request_id
        /\ f.to \notin Immediate
    BY <2>2, <2>3, FramesTyped DEF InitializeResponse, Immediate
  <2>5. f \in HostResponse
    BY <2>4 DEF OutboundFrame, HostRequest
  <2>6. FrameAdded(c, f)
    BY <1>9, <2>2, <2>4, ReturnAddsFrame DEF EnvironmentSettingsReceived
  <2>7. pc'[c] # "handling"
    BY <1>9 DEF EnvironmentSettingsReceived, Return, TypeInv, TypeOK, ThreadsOK
  <2>8. PICK j \in DOMAIN toHost[c] : DoneWith(c, j) /\ toHost[c][j] = init
    BY <2>2, <2>3 DEF Ledger, FlowDone, Done
  <2>9. PICK g \in OutboundFrame : g = f
    BY <2>4
  <2>10. RequestHandled(c, g.request_id)'
    <3>1. DoneWith(c, j)'
      BY <2>2, <2>7, <2>8 DEF DoneWith
    <3>2. init.kind = "request"
      BY <2>3 DEF RequestFrame
    <3> QED
      BY <2>2, <2>4, <2>8, <2>9, <3>1, <3>2 DEF RequestHandled
  <2>11. ~Replied(c, f.request_id)
    BY <2>2, <2>3, <2>4 DEF Ledger, WaitingUnanswered
  <2>12. PICK i \in DOMAIN HostFrames(c) :
           /\ HostFrames(c)[i].kind = "request"
           /\ HostFrames(c)[i].request_id = id
           /\ HostFrames(c)[i].action = "ENVIRONMENT_SETTINGS"
           /\ Frame(c) \in AnswersTo(HostFrames(c)[i])
    BY <2>1, AnsweredRequest
  <2>13. Preceded(c, Len(HostFrames(c)) + 1, init, "ENVIRONMENT_SETTINGS", "settings")
    <3>1. HostFrames(c) \in Seq(OutboundFrame)
      BY HostFramesTyped
    <3>2. i \in 1..(Len(HostFrames(c)) + 1 - 1)
      BY <2>12, <3>1
    <3>3. Frame(c) = [kind |-> "answer", request_id |-> id, body |-> "settings"]
      BY <2>12 DEF AnswersTo
    <3>4. received[c] \in 1..received[c] /\ Frame(c) = toHost[c][received[c]]
      BY <2>2, FrameInHand DEF TypeInv, TypeOK, ChannelsOK
    <3> QED
      BY <2>12, <3>2, <3>3, <3>4 DEF Preceded, AnswerRead
  <2>14. EndsFlow(c, f)
    <3>1. init.kind = "request"
      BY <2>3 DEF RequestFrame
    <3>2. PICK h \in 1..received[c] : toHost[c][h] = init
      BY <2>3 DEF HasRead
    <3> QED
      BY <2>4, <2>13, <3>1, <3>2 DEF EndsFlow
  <2>15. TableShrinks
    BY <1>4, <1>9, <2>1 DEF EnvironmentSettingsReceived
  <2>16. \A k \in DOMAIN pending_requests' : k \in DOMAIN pending_requests /\ k # id
    BY <1>9 DEF EnvironmentSettingsReceived, Remove, Restrict
  <2>17. \A k \in DOMAIN pending_requests' :
            flow[k].conn = c => flow[k].init.request_id # f.request_id
    <3> SUFFICES ASSUME NEW k \in DOMAIN pending_requests', flow[k].conn = c,
                        flow[k].init.request_id = f.request_id
                 PROVE  FALSE
      OBVIOUS
    <3>1. k \in DOMAIN pending_requests /\ k # id /\ k \in DOMAIN flow /\ k \in Nat /\ id \in Nat
      BY <2>2, <2>16 DEF TypeInv, TypeOK, TableOK
    <3>2. flow[k] = flow[id]
      BY <2>2, <2>3, <2>4, <3>1, OneOrigin DEF Ledger
    <3>3. k <= id /\ id <= k
      BY <2>2, <3>1, <3>2 DEF Ledger, LatestWaits
    <3> QED
      BY <3>1, <3>3
  <2> HIDE DEF f
  <2>18. Responds(c, g)
    BY <2>2, <2>4, <2>5, <2>6, <2>9, <2>10, <2>11, <2>14, <2>15, <2>17 DEF Responds
  <2> QED
    BY <2>18 DEF Effect
<1> QED
  BY <1>1, <1>5, <1>6, <1>7, <1>8, <1>9 DEF HandleAnswer

LEMMA NextEffect ==
  ASSUME Base, Ledger, [Next]_vars
  PROVE  Effect
<1> USE DEF Base
<1>1. ASSUME UNCHANGED <<pending_requests, flow>>, FramesKept
      PROVE  Effect
  BY <1>1 DEF Effect, Rests, TableShrinks, LeaveAnswered
<1>2. ASSUME UNCHANGED <<outbound, wire>>
      PROVE  FramesKept
  BY <1>2 DEF FramesKept, HostFrames
<1>3. ASSUME NEW c \in Conns, Accept(c) \/ ReadFrame(c) \/ ReadMalformed(c) \/ PeerStep(c)
      PROVE  Effect
  BY <1>1, <1>2, <1>3 DEF Accept, ReadFrame, ReadMalformed, ReadNext, PeerStep, PeerRequest,
     PeerAnswers, PeerRepeats, PeerSendsMalformed, PeerSends, PeerCloses, table
<1>4. ASSUME NEW c \in Conns, ReadEnds(c) \/ WriteFails(c)
      PROVE  Effect
  BY <1>1, <1>4, EndKeepsFrames DEF ReadEnds, WriteFails, table
<1>5. ASSUME NEW c \in Conns, WriteFrame(c)
      PROVE  Effect
  BY <1>1, <1>5, WriteKeepsFrames DEF WriteFrame, table
<1>6. CASE AcceptFails
  BY <1>1, <1>6, AcceptFailsKeepsFrames DEF AcceptFails, table
<1>7. CASE StderrBreaks \/ UNCHANGED vars
  BY <1>1, <1>2, <1>7 DEF StderrBreaks, vars, table
<1> QED
  BY <1>3, <1>4, <1>5, <1>6, <1>7, RequestEffect, AnswerEffect DEF Next, ThreadStep

(***************************************************************************)
(* Each of the three keeps the ledger.                                     *)
(***************************************************************************)

\* What the ledger says of f as the i-th frame for c.
Entered(c, i, f) ==
    /\ f.kind = "request" =>
          /\ f.action = IF Later(f.request_id)
                        THEN "ENVIRONMENT_SETTINGS" ELSE "REGISTER_REST_ACTIONS"
          /\ f.request_id \in DOMAIN pending_requests \/ AnswerHandled(c, f.request_id)
          /\ f.action = "ENVIRONMENT_SETTINGS" =>
                Preceded(c, i, flow[f.request_id].init, "REGISTER_REST_ACTIONS", "true")
    /\ f.kind = "response" =>
          /\ RequestHandled(c, f.request_id)
          /\ f.to = "DISCOVERY_EXTENSIONS" =>
                \E j \in 1..received[c] :
                    /\ toHost[c][j].kind = "request"
                    /\ toHost[c][j].request_id = f.request_id
                    /\ Preceded(c, i, toHost[c][j], "ENVIRONMENT_SETTINGS", "settings")

\* The history only grows, by the next id.
FlowGrows ==
    /\ \A k \in DOMAIN flow : k \in DOMAIN flow' /\ flow'[k] = flow[k]
    /\ \A k \in DOMAIN flow' \ DOMAIN flow : k = next_request_id

LEMMA LaterStays ==
  ASSUME TypeInv, FlowGrows, NEW k \in DOMAIN flow
  PROVE  Later(k)' <=> Later(k)
<1>1. \A l \in DOMAIN flow' : l < k => l \in DOMAIN flow /\ flow'[l] = flow[l]
  BY DEF TypeInv, TypeOK, TableOK, FlowGrows
<1>2. \A l \in DOMAIN flow : l \in DOMAIN flow' /\ flow'[l] = flow[l]
  BY DEF FlowGrows
<1> QED
  BY <1>1, <1>2 DEF Later

LEMMA HandledStays ==
  ASSUME DoneKept, NEW c \in Conns
  PROVE  /\ \A frame : Done(c, frame) => Done(c, frame)'
         /\ \A id : AnswerHandled(c, id) => AnswerHandled(c, id)'
         /\ \A id : RequestHandled(c, id) => RequestHandled(c, id)'
  BY DEF DoneKept, Done, AnswerHandled, RequestHandled

\* What went before a frame stays before it.
LEMMA PrecededStays ==
  ASSUME Base, ReadsKept, FlowGrows, NEW c \in Conns, NEW i \in Nat,
         i <= Len(HostFrames(c)) + 1,
         \A h \in 1..(i - 1) : HostFrames(c)'[h] = HostFrames(c)[h],
         NEW init, NEW action, NEW body, Preceded(c, i, init, action, body)
  PROVE  Preceded(c, i, init, action, body)'
<1>1. PICK h \in 1..(i - 1) :
         /\ HostFrames(c)[h].kind = "request"
         /\ HostFrames(c)[h].action = action
         /\ flow[HostFrames(c)[h].request_id].init = init
         /\ AnswerRead(c, HostFrames(c)[h].request_id, body)
  BY DEF Preceded
<1>2. HostFrames(c) \in Seq(OutboundFrame)
  BY HostFramesTyped DEF Base
<1>3. h \in DOMAIN HostFrames(c)
  BY <1>2
<1>4. PICK f : f = HostFrames(c)[h]
  OBVIOUS
<1>5. f.request_id \in DOMAIN flow
  BY <1>1, <1>3, <1>4 DEF Base, Correlation, RequestsHome
<1>6. flow'[f.request_id] = flow[f.request_id]
  BY <1>5 DEF FlowGrows
<1>7. AnswerRead(c, f.request_id, body)'
  BY <1>1, <1>4 DEF AnswerRead, ReadsKept
<1>8. HostFrames(c)'[h] = f
  BY <1>4
<1> QED
  BY <1>1, <1>4, <1>6, <1>7, <1>8 DEF Preceded

\* A frame keeps its entry.
LEMMA EntryStays ==
  ASSUME Base, Ledger, ReadsKept, DoneKept, FlowGrows, LeaveAnswered,
         NEW c \in Conns, NEW i \in DOMAIN HostFrames(c),
         \A h \in 1..i : HostFrames(c)'[h] = HostFrames(c)[h],
         NEW f, f = HostFrames(c)[i]
  PROVE  Entered(c, i, f)'
<1>1. HostFrames(c) \in Seq(OutboundFrame)
  BY HostFramesTyped DEF Base
<1>2. /\ i \in Nat /\ i <= Len(HostFrames(c)) + 1
      /\ \A h \in 1..(i - 1) : HostFrames(c)'[h] = HostFrames(c)[h]
  BY <1>1
<1>3. ASSUME f.kind = "request"
      PROVE  Entered(c, i, f)'
  <2>1. f.request_id \in DOMAIN flow /\ flow[f.request_id].conn = c
    BY <1>3 DEF Base, Correlation, RequestsHome
  <2>2. f.action = IF Later(f.request_id)'
                   THEN "ENVIRONMENT_SETTINGS" ELSE "REGISTER_REST_ACTIONS"
    BY <1>3, <2>1, LaterStays DEF Base, Ledger, InStage
  <2>3. f.request_id \in DOMAIN pending_requests' \/ AnswerHandled(c, f.request_id)'
    BY <1>3, <2>1, HandledStays DEF Ledger, WaitsOrHandled, LeaveAnswered
  <2>4. ASSUME f.action = "ENVIRONMENT_SETTINGS"
        PROVE  Preceded(c, i, flow[f.request_id].init, "REGISTER_REST_ACTIONS", "true")'
    <3>1. PICK init : init = flow[f.request_id].init /\ init = flow'[f.request_id].init
      BY <2>1 DEF FlowGrows
    <3>2. Preceded(c, i, init, "REGISTER_REST_ACTIONS", "true")
      BY <1>3, <2>4, <3>1 DEF Ledger, InitSequence, Positions
    <3>3. Preceded(c, i, init, "REGISTER_REST_ACTIONS", "true")'
      BY <1>2, <3>2, PrecededStays
    <3> QED
      BY <3>1, <3>3 DEF Preceded
  <2> QED
    BY <1>3, <2>2, <2>3, <2>4 DEF Entered
<1>4. ASSUME f.kind = "response"
      PROVE  Entered(c, i, f)'
  <2>1. RequestHandled(c, f.request_id)'
    BY <1>4, HandledStays DEF Ledger, ResponsesDone
  <2>2. ASSUME f.to = "DISCOVERY_EXTENSIONS"
        PROVE  \E j \in 1..received'[c] :
                  /\ toHost'[c][j].kind = "request"
                  /\ toHost'[c][j].request_id = f.request_id
                  /\ Preceded(c, i, toHost[c][j], "ENVIRONMENT_SETTINGS", "settings")'
    <3>1. PICK j \in 1..received[c] :
             /\ toHost[c][j].kind = "request"
             /\ toHost[c][j].request_id = f.request_id
             /\ Preceded(c, i, toHost[c][j], "ENVIRONMENT_SETTINGS", "settings")
      BY <1>4, <2>2 DEF Ledger, InitSequence, Positions
    <3>2. PICK init : init = toHost[c][j]
      OBVIOUS
    <3>3. j \in 1..received'[c] /\ init = toHost'[c][j]
      BY <3>2 DEF ReadsKept
    <3>4. Preceded(c, i, init, "ENVIRONMENT_SETTINGS", "settings")'
      BY <1>2, <3>1, <3>2, PrecededStays
    <3>5. Preceded(c, i, toHost[c][j], "ENVIRONMENT_SETTINGS", "settings")'
      BY <3>3, <3>4 DEF Preceded
    <3> QED
      BY <3>1, <3>2, <3>3, <3>5
  <2> QED
    BY <1>4, <2>1, <2>2 DEF Entered
<1> QED
  BY <1>3, <1>4 DEF Entered

\* Init requests of the history stay done with.
LEMMA FlowStaysDone ==
  ASSUME Base, Ledger, DoneKept, FlowGrows,
         NEW k \in DOMAIN flow, NEW c, NEW init, flow'[k].conn = c, flow'[k].init = init
  PROVE  Done(c, init)'
<1>1. c \in Conns /\ c = flow[k].conn /\ init = flow[k].init
  BY DEF Base, TypeInv, TypeOK, TableOK, FlowGrows
<1>2. Done(c, init)
  BY <1>1 DEF Ledger, FlowDone
<1> QED
  BY <1>1, <1>2, HandledStays

\* The parts of the ledger that speak of frames.
LEMMA LedgerOfFrames ==
  ASSUME \A c \in Conns : \A i \in DOMAIN HostFrames(c)' :
            \A f : f = HostFrames(c)'[i] => Entered(c, i, f)'
  PROVE  InStage' /\ WaitsOrHandled' /\ ResponsesDone' /\ InitSequence'
<1>1. InStage'
  BY DEF Entered, InStage
<1>2. WaitsOrHandled'
  BY DEF Entered, WaitsOrHandled
<1>3. ResponsesDone'
  BY DEF Entered, ResponsesDone
<1>4. InitSequence'
  BY DEF Entered, InitSequence, Positions
<1> QED
  BY <1>1, <1>2, <1>3, <1>4

LEMMA RestsKeepsLedger ==
  ASSUME Base, TypeInv', Ledger, ReadsKept, DoneKept, Rests
  PROVE  Ledger'
<1>1. FlowGrows /\ LeaveAnswered
  BY DEF Rests, FlowGrows, TableShrinks
<1>2. ASSUME NEW c \in Conns, NEW i \in DOMAIN HostFrames(c)', NEW f, f = HostFrames(c)'[i]
      PROVE  Entered(c, i, f)'
  <2>1. HostFrames(c)' \in Seq(OutboundFrame)
    BY DEF TypeInv, TypeOK, ThreadsOK, ChannelsOK, HostFrames
  <2>2. \A h \in 1..i : h \in DOMAIN HostFrames(c)'
    BY <2>1
  <2>3. i \in DOMAIN HostFrames(c) /\ f = HostFrames(c)[i]
    BY <1>2 DEF Rests, FramesKept
  <2>4. \A h \in 1..i : HostFrames(c)'[h] = HostFrames(c)[h]
    BY <2>2 DEF Rests, FramesKept
  <2> QED
    BY <1>1, <2>3, <2>4, EntryStays
<1>3. InStage' /\ WaitsOrHandled' /\ ResponsesDone' /\ InitSequence'
  BY <1>2, LedgerOfFrames
<1>4. FlowDone'
  <2>1. \A k \in DOMAIN flow' : \A c, init :
           flow'[k].conn = c /\ flow'[k].init = init => Done(c, init)'
    BY <1>1, FlowStaysDone DEF Rests
  <2> QED
    BY <2>1 DEF FlowDone, Done
<1>5. LatestWaits'
  BY <1>1, LaterStays DEF Base, TypeInv, TypeOK, TableOK, Ledger, LatestWaits, Rests, TableShrinks
<1>6. WaitingUnanswered'
  BY DEF Ledger, WaitingUnanswered, Rests, TableShrinks, FramesKept, Replied, Base, TypeInv,
         TypeOK, TableOK
<1>7. AtMostOneResponse'
  BY DEF Ledger, AtMostOneResponse, Rests, FramesKept, Positions
<1> QED
  BY <1>3, <1>4, <1>5, <1>6, <1>7 DEF Ledger

\* Of the frames after f is added on c, all but f keep their entries.
LEMMA AddedEntries ==
  ASSUME Base, Ledger, ReadsKept, DoneKept, FlowGrows, LeaveAnswered,
         NEW c \in Conns, NEW f \in OutboundFrame, FrameAdded(c, f),
         NEW n, n = Len(HostFrames(c)) + 1, Entered(c, n, f)'
  PROVE  InStage' /\ WaitsOrHandled' /\ ResponsesDone' /\ InitSequence'
<1>1. ASSUME NEW d \in Conns, NEW i \in DOMAIN HostFrames(d)', NEW g, g = HostFrames(d)'[i]
      PROVE  Entered(d, i, g)'
  <2>1. HostFrames(c) \in Seq(OutboundFrame) /\ HostFrames(d) \in Seq(OutboundFrame)
    BY HostFramesTyped DEF Base
  <2>2. CASE i \in DOMAIN HostFrames(d) /\ HostFrames(d)'[i] = HostFrames(d)[i]
    <3>1. \A h \in 1..i : HostFrames(d)'[h] = HostFrames(d)[h]
      BY <2>1, <2>2 DEF FrameAdded
    <3> QED
      BY <1>1, <2>2, <3>1, EntryStays
  <2>3. CASE d = c /\ i = Len(HostFrames(c)) + 1 /\ HostFrames(d)'[i] = f
    BY <1>1, <2>3
  <2> QED
    BY <1>1, <2>2, <2>3, PositionsAfter DEF Base
<1> QED
  BY <1>1, LedgerOfFrames

LEMMA RespondsKeepsLedger ==
  ASSUME Base, TypeInv', Ledger, ReadsKept, DoneKept,
         NEW c \in Conns, NEW f \in OutboundFrame, Responds(c, f)
  PROVE  Ledger'
<1>1. FlowGrows /\ LeaveAnswered
  BY DEF Responds, FlowGrows, TableShrinks
<1>2. f.kind = "response"
  BY DEF Responds, HostResponse
<1>3. FrameAdded(c, f)
  BY DEF Responds
<1>4. \A d \in Conns : \A id : Replied(d, id)' => Replied(d, id) \/ (d = c /\ id = f.request_id)
  BY <1>3, PositionsAfter DEF Replied, Base
<1> DEFINE n == Len(HostFrames(c)) + 1
<1>5. PICK m : m = n
  OBVIOUS
<1>6. Entered(c, m, f)'
  <2>1. HostFrames(c) \in Seq(OutboundFrame)
    BY HostFramesTyped DEF Base
  <2>2. /\ m \in Nat /\ m <= Len(HostFrames(c)) + 1
        /\ \A h \in 1..(m - 1) : HostFrames(c)'[h] = HostFrames(c)[h]
    BY <1>3, <1>5, <2>1 DEF FrameAdded
  <2>3. ASSUME f.to = "DISCOVERY_EXTENSIONS"
        PROVE  \E j \in 1..received'[c] :
                  /\ toHost'[c][j].kind = "request"
                  /\ toHost'[c][j].request_id = f.request_id
                  /\ Preceded(c, m, toHost[c][j], "ENVIRONMENT_SETTINGS", "settings")'
    <3>1. PICK j \in 1..received[c] :
             /\ toHost[c][j].kind = "request"
             /\ toHost[c][j].request_id = f.request_id
             /\ Preceded(c, m, toHost[c][j], "ENVIRONMENT_SETTINGS", "settings")
      BY <1>5, <2>3 DEF Responds, EndsFlow
    <3>2. PICK init : init = toHost[c][j]
      OBVIOUS
    <3>3. j \in 1..received'[c] /\ init = toHost'[c][j]
      BY <3>2 DEF ReadsKept
    <3>4. Preceded(c, m, init, "ENVIRONMENT_SETTINGS", "settings")'
      BY <1>1, <2>2, <3>1, <3>2, PrecededStays
    <3>5. Preceded(c, m, toHost[c][j], "ENVIRONMENT_SETTINGS", "settings")'
      BY <3>3, <3>4 DEF Preceded
    <3> QED
      BY <3>1, <3>2, <3>3, <3>5
  <2> QED
    BY <1>2, <2>3 DEF Responds, Entered
<1>7. InStage' /\ WaitsOrHandled' /\ ResponsesDone' /\ InitSequence'
  BY <1>1, <1>3, <1>5, <1>6, AddedEntries
<1>8. FlowDone'
  <2>1. \A k \in DOMAIN flow' : \A d, init :
           flow'[k].conn = d /\ flow'[k].init = init => Done(d, init)'
    BY <1>1, FlowStaysDone DEF Responds
  <2> QED
    BY <2>1 DEF FlowDone, Done
<1>9. LatestWaits'
  BY <1>1, LaterStays DEF Base, TypeInv, TypeOK, TableOK, Ledger, LatestWaits, Responds,
     TableShrinks
<1>10. WaitingUnanswered'
  <2> SUFFICES ASSUME NEW k \in DOMAIN pending_requests',
                      NEW d, NEW id, d = flow'[k].conn, id = flow'[k].init.request_id
               PROVE  ~Replied(d, id)'
    BY DEF WaitingUnanswered, Replied
  <2>1. /\ k \in DOMAIN pending_requests /\ k \in DOMAIN flow
        /\ d = flow[k].conn /\ id = flow[k].init.request_id
    BY DEF Responds, TableShrinks, Base, TypeInv, TypeOK, TableOK
  <2>2. d \in Conns /\ ~Replied(d, id)
    BY <2>1 DEF Ledger, WaitingUnanswered, Base, TypeInv, TypeOK, TableOK
  <2>3. d = c => id # f.request_id
    BY <2>1 DEF Responds
  <2> QED
    BY <1>4, <2>2, <2>3
<1>11. AtMostOneResponse'
  <2> SUFFICES ASSUME NEW d \in Conns,
                      NEW i \in DOMAIN HostFrames(d)', NEW j \in DOMAIN HostFrames(d)',
                      HostFrames(d)'[i].kind = "response", HostFrames(d)'[j].kind = "response",
                      HostFrames(d)'[i].request_id = HostFrames(d)'[j].request_id
               PROVE  i = j
    BY DEF AtMostOneResponse, Positions
  <2>1. \A h \in DOMAIN HostFrames(d)' :
           \/ h \in DOMAIN HostFrames(d) /\ HostFrames(d)'[h] = HostFrames(d)[h]
           \/ d = c /\ h = n /\ HostFrames(d)'[h] = f
    BY <1>3, PositionsAfter DEF Base
  <2>2. \A h \in DOMAIN HostFrames(c) :
           HostFrames(c)[h].kind = "response" => HostFrames(c)[h].request_id # f.request_id
    BY DEF Responds, Replied
  <2> HIDE DEF n
  <2> QED
    BY <2>1, <2>2 DEF Ledger, AtMostOneResponse, Positions
<1> QED
  BY <1>7, <1>8, <1>9, <1>10, <1>11 DEF Ledger

LEMMA DrawsKeepsLedger ==
  ASSUME Base, TypeInv', Ledger, ReadsKept, DoneKept,
         NEW c \in Conns, NEW f \in OutboundFrame, NEW init \in RequestFrame, Draws(c, f, init)
  PROVE  Ledger'
<1> DEFINE origin == [conn |-> c, init |-> init]
<1>1. PICK n : n = next_request_id
  OBVIOUS
<1>2. /\ n \in Nat /\ DOMAIN flow = 1..(n - 1) /\ n \notin DOMAIN flow
      /\ DOMAIN pending_requests \subseteq DOMAIN flow
  BY <1>1 DEF Base, TypeInv, TypeOK, TableOK
<1>3. /\ DOMAIN flow' = DOMAIN flow \cup {n}
      /\ flow'[n] = origin
      /\ \A k \in DOMAIN flow : flow'[k] = flow[k]
  BY <1>1, <1>2 DEF Draws, Insert
<1>4. FlowGrows /\ LeaveAnswered /\ FrameAdded(c, f)
  BY <1>1, <1>3 DEF Draws, FlowGrows
<1>5. f.kind = "request" /\ f.request_id = n
  BY <1>1 DEF Draws, HostRequest
<1>6. \A d \in Conns : \A id : Replied(d, id)' => Replied(d, id)
  BY <1>4, <1>5, PositionsAfter DEF Replied, Base
<1>7. Later(n)' <=> \E l \in DOMAIN flow : flow[l] = origin
  <2>1. Later(n)' <=> \E l \in DOMAIN flow' : l < n /\ flow'[l] = flow'[n]
    BY DEF Later
  <2>2. \A l \in DOMAIN flow' : l < n <=> l \in DOMAIN flow
    BY <1>2, <1>3
  <2> QED
    BY <1>3, <2>1, <2>2
<1>8. n \in DOMAIN pending_requests'
  BY <1>1 DEF Draws
<1>9. InStage' /\ WaitsOrHandled' /\ ResponsesDone' /\ InitSequence'
  <2>1. PICK m : m = Len(HostFrames(c)) + 1
    OBVIOUS
  <2>2. HostFrames(c) \in Seq(OutboundFrame)
    BY HostFramesTyped DEF Base
  <2>3. /\ m \in Nat /\ m <= Len(HostFrames(c)) + 1
        /\ \A h \in 1..(m - 1) : HostFrames(c)'[h] = HostFrames(c)[h]
    BY <1>4, <2>1, <2>2 DEF FrameAdded
  <2>4. f.action = IF Later(n)' THEN "ENVIRONMENT_SETTINGS" ELSE "REGISTER_REST_ACTIONS"
    BY <1>7 DEF Draws
  <2>5. ASSUME f.action = "ENVIRONMENT_SETTINGS"
        PROVE  Preceded(c, m, flow[n].init, "REGISTER_REST_ACTIONS", "true")'
    <3>1. Preceded(c, m, init, "REGISTER_REST_ACTIONS", "true")
      BY <2>1, <2>5 DEF Draws
    <3>2. Preceded(c, m, init, "REGISTER_REST_ACTIONS", "true")'
      BY <1>4, <2>3, <3>1, PrecededStays
    <3> QED
      BY <1>3, <3>2 DEF Preceded
  <2>6. Entered(c, m, f)'
    BY <1>5, <1>8, <2>4, <2>5 DEF Entered
  <2> QED
    BY <1>4, <2>1, <2>6, AddedEntries
<1>10. FlowDone'
  <2>1. \A k \in DOMAIN flow' : \A d, i :
           flow'[k].conn = d /\ flow'[k].init = i => Done(d, i)'
    <3> SUFFICES ASSUME NEW k \in DOMAIN flow', NEW d, NEW i,
                        flow'[k].conn = d, flow'[k].init = i
                 PROVE  Done(d, i)'
      OBVIOUS
    <3>1. CASE k \in DOMAIN flow
      BY <1>4, <3>1, FlowStaysDone
    <3>2. CASE k = n
      BY <1>3, <3>2 DEF Draws
    <3> QED
      BY <1>3, <3>1, <3>2
  <2> QED
    BY <2>1 DEF FlowDone, Done
<1>11. LatestWaits'
  <2> SUFFICES ASSUME NEW k \in DOMAIN pending_requests'
               PROVE  /\ \A l \in DOMAIN flow' : flow'[l] = flow'[k] => l <= k
                      /\ pending_requests'[k].kind =
                            IF Later(k)' THEN "EnvironmentSettings" ELSE "RegisterRestActions"
    BY DEF LatestWaits
  <2>1. CASE k = n
    <3>1. \A l \in DOMAIN flow' : l <= n
      BY <1>2, <1>3
    <3> QED
      BY <1>1, <1>7, <2>1, <3>1 DEF Draws
  <2>2. CASE k # n
    <3>1. /\ k \in DOMAIN pending_requests /\ pending_requests'[k] = pending_requests[k]
          /\ flow[k] # origin /\ k \in DOMAIN flow
      BY <1>1, <1>2, <2>2 DEF Draws
    <3>2. Later(k)' <=> Later(k)
      BY <1>4, <3>1, LaterStays DEF Base
    <3> QED
      BY <1>3, <3>1, <3>2 DEF Ledger, LatestWaits
  <2> QED
    BY <2>1, <2>2
<1>12. WaitingUnanswered'
  <2> SUFFICES ASSUME NEW k \in DOMAIN pending_requests',
                      NEW d, NEW id, d = flow'[k].conn, id = flow'[k].init.request_id
               PROVE  ~Replied(d, id)'
    BY DEF WaitingUnanswered, Replied
  <2>1. CASE k = n
    BY <1>3, <1>6, <2>1 DEF Draws
  <2>2. CASE k # n
    <3>1. k \in DOMAIN pending_requests /\ k \in DOMAIN flow /\ flow'[k] = flow[k]
      BY <1>1, <1>2, <1>3, <2>2 DEF Draws
    <3>2. d \in Conns /\ ~Replied(d, id)
      BY <3>1 DEF Ledger, WaitingUnanswered, Base, TypeInv, TypeOK, TableOK
    <3> QED
      BY <1>6, <3>2
  <2> QED
    BY <2>1, <2>2
<1>13. AtMostOneResponse'
  <2> SUFFICES ASSUME NEW d \in Conns,
                      NEW i \in DOMAIN HostFrames(d)', NEW j \in DOMAIN HostFrames(d)',
                      HostFrames(d)'[i].kind = "response", HostFrames(d)'[j].kind = "response",
                      HostFrames(d)'[i].request_id = HostFrames(d)'[j].request_id
               PROVE  i = j
    BY DEF AtMostOneResponse, Positions
  <2>1. \A h \in {i, j} : h \in DOMAIN HostFrames(d) /\ HostFrames(d)'[h] = HostFrames(d)[h]
    BY <1>4, <1>5, PositionsAfter DEF Base
  <2> QED
    BY <2>1 DEF Ledger, AtMostOneResponse, Positions
<1> QED
  BY <1>9, <1>10, <1>11, <1>12, <1>13 DEF Ledger

LEMMA NextLedger == Base /\ TypeInv' /\ Ledger /\ [Next]_vars => Ledger'
<1> SUFFICES ASSUME Base, TypeInv', Ledger, [Next]_vars PROVE Ledger'
  OBVIOUS
<1>1. ReadsKept /\ DoneKept
  BY NextReads, NextKeepsDone DEF Base
<1> QED
  BY <1>1, NextEffect, RestsKeepsLedger, RespondsKeepsLedger, DrawsKeepsLedger DEF Effect

LEMMA InitLedger == Init => Ledger
<1> SUFFICES ASSUME Init PROVE Ledger
  OBVIOUS
<1>1. \A c \in Conns : HostFrames(c) = <<>>
  BY ConcatEmptySeq, EmptySeq DEF Init, HostFrames
<1>2. DOMAIN pending_requests = {} /\ DOMAIN flow = {}
  BY DEF Init
<1> QED
  BY <1>1, <1>2 DEF Ledger, FlowDone, LatestWaits, InStage, WaitsOrHandled, ResponsesDone,
     WaitingUnanswered, AtMostOneResponse, InitSequence, Positions

LEMMA LedgerInvariant == Spec => [](Base /\ Ledger)
<1>1. Init => Ledger
  BY InitLedger
<1>2. Base /\ TypeInv' /\ Ledger /\ [Next]_vars => Ledger'
  BY NextLedger
<1>3. TypeInv /\ Correlation /\ PeerInv <=> Base
  BY DEF Base
<1> QED
  BY <1>1, <1>2, <1>3, TypeInvariant, CorrelationInvariant, PeerInvariant, PTL DEF Spec

\* The answer to a request of the host finds its continuation, of the kind the
\* request asks for, until an answer to it has been handled (pending_requests
\* is filled before the handler returns the request).
THEOREM PendingCovers == Spec => []PendingCoversRequests
<1>1. Base /\ Ledger => PendingCoversRequests
  <2> SUFFICES ASSUME Base, Ledger, NEW c \in Conns, NEW i \in DOMAIN HostFrames(c),
                      HostFrames(c)[i].kind = "request",
                      ~AnswerHandled(c, HostFrames(c)[i].request_id)
               PROVE  LET f == HostFrames(c)[i]
                      IN  /\ f.request_id \in DOMAIN pending_requests
                          /\ pending_requests[f.request_id].kind = Continuation(f.action)
    BY DEF PendingCoversRequests, AnswerHandled, Positions
  <2> QED
    BY DEF Ledger, WaitsOrHandled, LatestWaits, InStage, Continuation
<1> QED
  BY <1>1, LedgerInvariant, PTL

\* A peer's request is answered at most once, whatever its peer repeats
\* (handle_response removes the entry it answers from).
THEOREM AnsweredOnce == Spec => []AtMostOneResponse
<1>1. Base /\ Ledger => AtMostOneResponse
  BY DEF Ledger
<1> QED
  BY <1>1, LedgerInvariant, PTL

\* The settings are asked for only after the registration was acknowledged, and
\* the init request answered only after the settings came (handle_response).
THEOREM InitInSequence == Spec => []InitSequence
<1>1. Base /\ Ledger => InitSequence
  BY DEF Ledger
<1> QED
  BY <1>1, LedgerInvariant, PTL

\* An init request never has two continuations, and none once its response is
\* returned (HostState.pending_requests).
THEOREM ContinuationIsOne == Spec => []OneContinuation
<1>1. Base /\ Ledger => OneContinuation
  <2> SUFFICES ASSUME Base, Ledger, NEW k \in DOMAIN pending_requests
               PROVE  /\ \A l \in DOMAIN pending_requests : flow[k] = flow[l] => k = l
                      /\ \A i \in DOMAIN HostFrames(flow[k].conn) :
                            HostFrames(flow[k].conn)[i] # InitializeResponse(pending_requests[k])
    BY DEF OneContinuation, Positions
  <2>1. DOMAIN pending_requests \subseteq DOMAIN flow /\ DOMAIN pending_requests \subseteq Nat
    BY DEF Base, TypeInv, TypeOK, TableOK
  <2>2. \A l \in DOMAIN pending_requests : flow[k] = flow[l] => k <= l /\ l <= k
    BY <2>1 DEF Ledger, LatestWaits
  <2>3. ~Replied(flow[k].conn, pending_requests[k].init_request_id)
    BY DEF Base, Correlation, PendingKnown, Ledger, WaitingUnanswered
  <2>4. \A i \in DOMAIN HostFrames(flow[k].conn) :
           HostFrames(flow[k].conn)[i] # InitializeResponse(pending_requests[k])
    BY <2>3 DEF Replied, InitializeResponse
  <2> QED
    BY <2>1, <2>2, <2>4
<1> QED
  BY <1>1, LedgerInvariant, PTL

-----------------------------------------------------------------------------
(***************************************************************************)
(* Replies in order.  A request that a handler answers by itself is        *)
(* answered before its thread reads on, so the responses stand in the      *)
(* order of the requests.  What was written when a thread ends is a prefix *)
(* of what was returned, so the order outlives the thread, and only a      *)
(* running thread owes an answer.                                          *)
(***************************************************************************)

AllReplied ==
    \A c \in Conns : pc[c] \notin Ended =>
        \A j \in DOMAIN toHost[c] :
            /\ DoneWith(c, j)
            /\ toHost[c][j].kind = "request"
            /\ toHost[c][j].action \in Immediate
            => \E i \in DOMAIN HostFrames(c) : HostFrames(c)[i] = ResponseTo(toHost[c][j])

InOrder ==
    \A c \in Conns : \A h, i \in DOMAIN HostFrames(c), j, k \in DOMAIN toHost[c] :
        h < i /\ Replies(c, HostFrames(c)[h], j) /\ Replies(c, HostFrames(c)[i], k) => j < k

\* A thread that goes on keeps its frames, and has answered the request it is
\* done with by this step.
GoesOn(c) ==
    pc'[c] \notin Ended =>
        /\ pc[c] \notin Ended
        /\ \A i \in DOMAIN HostFrames(c) :
              i \in DOMAIN HostFrames(c)' /\ HostFrames(c)'[i] = HostFrames(c)[i]
        /\ \A j \in DOMAIN toHost'[c] :
              /\ DoneWith(c, j)'
              /\ toHost'[c][j].kind = "request"
              /\ toHost'[c][j].action \in Immediate
              => \/ j \in DOMAIN toHost[c] /\ DoneWith(c, j) /\ toHost'[c][j] = toHost[c][j]
                 \/ \E i \in DOMAIN HostFrames(c)' :
                       HostFrames(c)'[i] = ResponseTo(toHost'[c][j])

\* A thread that neither reads nor handles is done with no further request.
LEMMA QuietGoesOn ==
  ASSUME TypeInv, TypeInv', ReadsKept, NEW c \in Conns,
         HostFrames(c)' = HostFrames(c), received'[c] = received[c],
         pc'[c] = "handling" <=> pc[c] = "handling",
         pc'[c] \notin Ended => pc[c] \notin Ended
  PROVE  GoesOn(c)
<1>1. /\ toHost[c] \in Seq(InboundFrame) /\ toHost'[c] \in Seq(InboundFrame)
      /\ received[c] \in Nat /\ received[c] <= Len(toHost[c])
  BY DEF TypeInv, TypeOK, ThreadsOK, ChannelsOK
<1>2. ASSUME NEW j \in DOMAIN toHost'[c], DoneWith(c, j)'
      PROVE  j \in DOMAIN toHost[c] /\ DoneWith(c, j) /\ toHost'[c][j] = toHost[c][j]
  <2>1. DoneWith(c, j) /\ j \in 1..received[c]
    BY <1>1, <1>2 DEF DoneWith
  <2> QED
    BY <1>1, <2>1 DEF ReadsKept
<1> QED
  BY <1>2 DEF GoesOn

\* A handler that returns is done with the frame in hand.
LEMMA HandlerGoesOn ==
  ASSUME TypeInv, NEW c \in Conns, pc[c] = "handling", UNCHANGED <<received, toHost, wire>>,
         NEW frames, Return(c, frames),
         \/ frames = <<>>
         \/ \E f \in OutboundFrame : frames = <<f>>,
         Frame(c).kind = "request" /\ Frame(c).action \in Immediate =>
            frames = <<ResponseTo(Frame(c))>>
  PROVE  GoesOn(c)
<1>1. /\ received[c] \in DOMAIN toHost[c] /\ Frame(c) = toHost[c][received[c]]
      /\ received[c] \in Nat
  BY FrameInHand DEF TypeInv, TypeOK, ChannelsOK, ThreadsOK
<1>2. pc[c] \notin Ended
  BY DEF Ended
<1>3. /\ \A i \in DOMAIN HostFrames(c) :
            i \in DOMAIN HostFrames(c)' /\ HostFrames(c)'[i] = HostFrames(c)[i]
      /\ \A f \in OutboundFrame : frames = <<f>> =>
            \E i \in DOMAIN HostFrames(c)' : HostFrames(c)'[i] = f
  <2>1. HostFrames(c) \in Seq(OutboundFrame)
    BY HostFramesTyped
  <2>2. CASE frames = <<>>
    <3>1. UNCHANGED outbound
      BY <2>2 DEF TypeInv, TypeOK, ThreadsOK, InStep, Return
    <3>2. HostFrames(c)' = HostFrames(c)
      BY <3>1 DEF HostFrames
    <3> QED
      BY <2>2, <3>2
  <2>3. ASSUME NEW f \in OutboundFrame, frames = <<f>>
        PROVE  HostFrames(c)' = Append(HostFrames(c), f)
    BY <2>3, ReturnAddsFrame DEF FrameAdded
  <2>4. \A f, g : <<f>> = <<g>> => f = g
    OBVIOUS
  <2>5. ASSUME NEW f \in OutboundFrame, frames = <<f>>
        PROVE  /\ \A i \in DOMAIN HostFrames(c) :
                     i \in DOMAIN HostFrames(c)' /\ HostFrames(c)'[i] = HostFrames(c)[i]
               /\ \E i \in DOMAIN HostFrames(c)' : HostFrames(c)'[i] = f
    <3>1. HostFrames(c)' = Append(HostFrames(c), f)
      BY <2>3, <2>5
    <3>2. /\ Len(HostFrames(c)) + 1 \in DOMAIN HostFrames(c)'
          /\ HostFrames(c)'[Len(HostFrames(c)) + 1] = f
      BY <2>1, <3>1
    <3> QED
      BY <2>1, <3>1, <3>2
  <2> QED
    BY <2>2, <2>5
<1>4. \A j \in DOMAIN toHost[c] : DoneWith(c, j)' => DoneWith(c, j) \/ j = received[c]
  BY <1>1 DEF DoneWith
<1>5. Frame(c).kind = "request" => ResponseTo(Frame(c)) \in OutboundFrame
  BY FrameInHand, FramesTyped
<1>6. Frame(c).kind = "request" /\ Frame(c).action \in Immediate =>
         \E i \in DOMAIN HostFrames(c)' : HostFrames(c)'[i] = ResponseTo(Frame(c))
  BY <1>3, <1>5
<1> QED
  BY <1>1, <1>2, <1>3, <1>4, <1>6 DEF GoesOn

LEMMA RequestGoesOn ==
  ASSUME TypeInv, NEW c \in Conns, HandleRequest(c)
  PROVE  GoesOn(c)
<1>1. ASSUME NEW action, HandlingRequest(c, action)
      PROVE  /\ pc[c] = "handling" /\ UNCHANGED <<received, toHost, wire>>
             /\ Frame(c) \in RequestFrame /\ Frame(c).action = action
             /\ ResponseTo(Frame(c)) \in OutboundFrame
  BY <1>1, FrameInHand, FramesTyped DEF HandlingRequest, peers
<1>2. ASSUME NEW action, HandlingRequest(c, action), Return(c, <<ResponseTo(Frame(c))>>)
      PROVE  GoesOn(c)
  BY <1>1, <1>2, HandlerGoesOn
<1>3. CASE HandleTcpHandshake(c) \/ HandleTransportHandshake(c) \/ HandleRestExecute(c)
  BY <1>2, <1>3 DEF HandleTcpHandshake, HandleTransportHandshake, HandleRestExecute
<1>4. CASE HandleInitializeExtension(c)
  <2>1. PICK f : f = RegisterRequest(next_request_id, Frame(c))
    OBVIOUS
  <2>2. HandlingRequest(c, "DISCOVERY_EXTENSIONS") /\ Return(c, <<f>>)
    BY <1>4, <2>1 DEF HandleInitializeExtension
  <2>3. f \in OutboundFrame
    BY <1>1, <2>1, <2>2, FramesTyped DEF TypeInv, TypeOK, TableOK
  <2>4. Frame(c).action \notin Immediate
    BY <1>1, <2>2 DEF Immediate
  <2> QED
    BY <1>1, <2>2, <2>3, <2>4, HandlerGoesOn
<1>5. CASE InitializeExtensionFails(c) \/ RestExecuteFails(c)
  BY <1>5 DEF InitializeExtensionFails, RestExecuteFails, EndThread, Ended, GoesOn, TypeInv,
     TypeOK, ThreadsOK
<1>6. CASE IgnoreUnknownAction(c)
  <2>1. Return(c, <<>>) /\ HandlingRequest(c, "UNKNOWN")
    BY <1>6 DEF IgnoreUnknownAction
  <2>2. Frame(c).action \notin Immediate
    BY <1>1, <2>1 DEF Immediate
  <2> QED
    BY <1>1, <2>1, <2>2, HandlerGoesOn
<1> QED
  BY <1>3, <1>4, <1>5, <1>6 DEF HandleRequest

LEMMA AnswerGoesOn ==
  ASSUME TypeInv, NEW c \in Conns, HandleAnswer(c)
  PROVE  GoesOn(c)
<1>1. /\ pc[c] = "handling" /\ Frame(c).kind = "answer"
      /\ UNCHANGED <<received, toHost, wire>>
  BY DEF HandleAnswer, AnswerAfterPoison, IgnoreUnknownAnswer, AcknowledgementFails, TracePoisons,
         RegistrationRefused, RegistrationAcknowledged, EnvironmentSettingsReceived, TakePending,
         HandlingAnswer, peers
<1>2. CASE AnswerAfterPoison(c) \/ AcknowledgementFails(c) \/ TracePoisons(c)
  BY <1>2 DEF AnswerAfterPoison, AcknowledgementFails, TracePoisons, EndThread, Ended, GoesOn,
     TypeInv, TypeOK, ThreadsOK
<1>3. CASE IgnoreUnknownAnswer(c) \/ RegistrationRefused(c)
  <2>1. Return(c, <<>>)
    BY <1>3 DEF IgnoreUnknownAnswer, RegistrationRefused
  <2> QED
    BY <1>1, <2>1, HandlerGoesOn
<1>4. CASE RegistrationAcknowledged(c)
  <2>1. PICK f : f = SettingsRequest(next_request_id, pending_requests[Frame(c).request_id])
    OBVIOUS
  <2>2. TakePending(c, "RegisterRestActions") /\ Return(c, <<f>>)
    BY <1>4, <2>1 DEF RegistrationAcknowledged
  <2>3. f \in OutboundFrame
    BY <2>1, <2>2, PendingTaken, FramesTyped DEF TypeInv, TypeOK, TableOK
  <2> QED
    BY <1>1, <2>2, <2>3, HandlerGoesOn
<1>5. CASE EnvironmentSettingsReceived(c)
  <2>1. PICK f : f = InitializeResponse(pending_requests[Frame(c).request_id])
    OBVIOUS
  <2>2. TakePending(c, "EnvironmentSettings") /\ Return(c, <<f>>)
    BY <1>5, <2>1 DEF EnvironmentSettingsReceived
  <2>3. f \in OutboundFrame
    BY <2>1, <2>2, PendingTaken, FramesTyped
  <2> QED
    BY <1>1, <2>2, <2>3, HandlerGoesOn
<1> QED
  BY <1>2, <1>3, <1>4, <1>5 DEF HandleAnswer

LEMMA NextGoesOn ==
  ASSUME TypeInv, TypeInv', [Next]_vars, NEW c \in Conns
  PROVE  GoesOn(c)
<1> USE DEF TypeInv, TypeOK, ThreadsOK
<1>1. ReadsKept
  BY NextReads
<1>2. ASSUME wire'[c] = wire[c], outbound'[c] = outbound[c], received'[c] = received[c],
             pc'[c] = "handling" <=> pc[c] = "handling",
             pc'[c] \notin Ended => pc[c] \notin Ended
      PROVE  GoesOn(c)
  BY <1>1, <1>2, QuietGoesOn DEF HostFrames
<1>3. ASSUME NEW d \in Conns, Accept(d)
      PROVE  GoesOn(c)
  BY <1>2, <1>3 DEF Accept, Ended
<1>4. ASSUME NEW d \in Conns, PeerStep(d)
      PROVE  GoesOn(c)
  BY <1>2, <1>4 DEF PeerStep, PeerRequest, PeerAnswers, PeerRepeats, PeerSendsMalformed,
     PeerSends, PeerCloses
<1>5. ASSUME NEW d \in Conns, d # c, ThreadStep(d)
      PROVE  GoesOn(c)
  <2>1. pc'[c] = pc[c] /\ outbound'[c] = outbound[c]
    BY <1>5 DEF ThreadStep, ReadFrame, ReadMalformed, ReadNext, ReadEnds, WriteFrame, WriteFails,
       HandleRequest, HandleTcpHandshake, HandleTransportHandshake, HandleInitializeExtension,
       InitializeExtensionFails, HandleRestExecute, RestExecuteFails, IgnoreUnknownAction,
       HandleAnswer, AnswerAfterPoison, IgnoreUnknownAnswer, AcknowledgementFails, TracePoisons,
       RegistrationRefused, RegistrationAcknowledged, EnvironmentSettingsReceived, EndThread, Return
  <2>2. wire'[c] = wire[c] /\ received'[c] = received[c]
    BY <1>5 DEF ThreadStep, ReadFrame, ReadMalformed, ReadNext, ReadEnds, WriteFrame, WriteFails,
       HandleRequest, HandleTcpHandshake, HandleTransportHandshake, HandleInitializeExtension,
       InitializeExtensionFails, HandleRestExecute, RestExecuteFails, IgnoreUnknownAction,
       HandlingRequest, HandleAnswer, AnswerAfterPoison, IgnoreUnknownAnswer,
       AcknowledgementFails, TracePoisons, RegistrationRefused, RegistrationAcknowledged,
       EnvironmentSettingsReceived, TakePending, HandlingAnswer, ChannelsOK
  <2> QED
    BY <1>2, <2>1, <2>2
<1>6. CASE ReadFrame(c)
  <2>1. /\ pc[c] = "reading" /\ received'[c] = received[c] + 1
        /\ pc'[c] \in {"panicked", "handling"}
        /\ UNCHANGED <<toHost, wire, outbound>>
    BY <1>6 DEF ReadFrame, ReadNext, peers
  <2>2. \A j \in DOMAIN toHost[c] : pc'[c] = "handling" /\ DoneWith(c, j)' => DoneWith(c, j)
    BY <2>1 DEF DoneWith, ChannelsOK
  <2> QED
    BY <2>1, <2>2 DEF GoesOn, Ended, HostFrames
<1>7. CASE ReadMalformed(c)
  <2>1. /\ toHost[c][received[c] + 1] \in InboundFrame
        /\ toHost[c][received[c] + 1].kind = "malformed"
    BY <1>7 DEF ReadMalformed, ReadNext, ChannelsOK
  <2>2. pc'[c] \in Ended
    BY <1>7, <2>1, ReadOutcomeEnds DEF ReadMalformed
  <2> QED
    BY <2>2 DEF GoesOn
<1>8. CASE ReadEnds(c) \/ WriteFails(c)
  BY <1>8 DEF ReadEnds, WriteFails, EndThread, Ended, GoesOn
<1>9. CASE WriteFrame(c)
  <2>1. HostFrames(c)' = HostFrames(c)
    BY <1>9, WriteKeepsFrames
  <2>2. UNCHANGED received /\ pc[c] = "writing" /\ pc'[c] \in {"reading", "writing"}
    BY <1>9 DEF WriteFrame, Return
  <2> QED
    BY <1>1, <2>1, <2>2, QuietGoesOn DEF Ended
<1>10. CASE AcceptFails
  <2>1. pc'[c] \notin Ended => pc'[c] = pc[c] /\ pc[c] \notin Running
    BY <1>10 DEF AcceptFails, Running, Ended
  <2>2. pc'[c] \notin Ended => outbound[c] = <<>> /\ outbound'[c] = <<>>
    BY <1>10, <2>1 DEF AcceptFails, Running, InStep
  <2>3. UNCHANGED <<wire, received>>
    BY <1>10 DEF AcceptFails
  <2> QED
    BY <1>2, <2>1, <2>2, <2>3 DEF GoesOn
<1>11. CASE StderrBreaks \/ UNCHANGED vars
  BY <1>2, <1>11 DEF StderrBreaks, vars
<1> QED
  BY <1>3, <1>4, <1>5, <1>6, <1>7, <1>8, <1>9, <1>10, <1>11, RequestGoesOn, AnswerGoesOn
     DEF Next, ThreadStep

LEMMA NextReplied == TypeInv /\ TypeInv' /\ AllReplied /\ [Next]_vars => AllReplied'
<1> SUFFICES ASSUME TypeInv, TypeInv', AllReplied, [Next]_vars,
                    NEW c \in Conns, pc'[c] \notin Ended,
                    NEW j \in DOMAIN toHost'[c], DoneWith(c, j)',
                    toHost'[c][j].kind = "request", toHost'[c][j].action \in Immediate
             PROVE  \E i \in DOMAIN HostFrames(c)' :
                       HostFrames(c)'[i] = ResponseTo(toHost'[c][j])
  BY DEF AllReplied
<1>1. GoesOn(c)
  BY NextGoesOn
<1>2. CASE j \in DOMAIN toHost[c] /\ DoneWith(c, j) /\ toHost'[c][j] = toHost[c][j]
  <2>1. PICK i \in DOMAIN HostFrames(c) : HostFrames(c)[i] = ResponseTo(toHost[c][j])
    BY <1>1, <1>2 DEF AllReplied, GoesOn
  <2> QED
    BY <1>1, <1>2, <2>1 DEF GoesOn
<1> QED
  BY <1>1, <1>2 DEF GoesOn

\* The request a returned response answers is one its thread is done with.
LEMMA RepliedIsDone ==
  ASSUME Base, Ledger, NEW c \in Conns, NEW i \in DOMAIN HostFrames(c),
         NEW j \in DOMAIN toHost[c], Replies(c, HostFrames(c)[i], j)
  PROVE  DoneWith(c, j)
<1>1. /\ HostFrames(c)[i].kind = "response" /\ toHost[c][j].kind = "request"
      /\ HostFrames(c)[i].request_id = toHost[c][j].request_id
  BY DEF Replies, ResponseTo
<1>2. RequestHandled(c, toHost[c][j].request_id)
  BY <1>1 DEF Ledger, ResponsesDone
<1> QED
  BY <1>1, <1>2 DEF RequestHandled, Base, PeerInv, RequestsOnce

LEMMA NextInOrder ==
  ASSUME Base, Base', Ledger, Ledger', InOrder, [Next]_vars
  PROVE  InOrder'
<1> SUFFICES ASSUME NEW c \in Conns,
                    NEW h \in DOMAIN HostFrames(c)', NEW i \in DOMAIN HostFrames(c)',
                    NEW j \in DOMAIN toHost'[c], NEW k \in DOMAIN toHost'[c], h < i,
                    Replies(c, HostFrames(c)[h], j)', Replies(c, HostFrames(c)[i], k)'
             PROVE  j < k
  BY DEF InOrder, Replies
<1>1. DoneKept
  BY NextKeepsDone DEF Base
<1>2. ASSUME NEW m \in DOMAIN HostFrames(c)', NEW n \in DOMAIN toHost'[c],
             Replies(c, HostFrames(c)[m], n)',
             m \in DOMAIN HostFrames(c), HostFrames(c)'[m] = HostFrames(c)[m]
      PROVE  /\ n \in DOMAIN toHost[c] /\ DoneWith(c, n) /\ toHost'[c][n] = toHost[c][n]
             /\ Replies(c, HostFrames(c)[m], n)
  <2>1. /\ HostFrames(c)[m].kind = "response" /\ toHost'[c][n].kind = "request"
        /\ HostFrames(c)[m].request_id = toHost'[c][n].request_id
    BY <1>2 DEF Replies, ResponseTo
  <2>2. PICK o \in DOMAIN toHost[c] :
           /\ DoneWith(c, o) /\ toHost[c][o].kind = "request"
           /\ toHost[c][o].request_id = toHost'[c][n].request_id
    BY <1>2, <2>1 DEF Ledger, ResponsesDone, RequestHandled
  <2>3. o \in DOMAIN toHost'[c] /\ toHost'[c][o] = toHost[c][o]
    BY <1>1, <2>2 DEF DoneKept
  <2>4. o = n
    BY <2>1, <2>2, <2>3 DEF Base, PeerInv, RequestsOnce
  <2> QED
    BY <1>2, <2>2, <2>3, <2>4 DEF Replies, ResponseTo
<1>3. CASE \A m \in {h, i} : m \in DOMAIN HostFrames(c) /\ HostFrames(c)'[m] = HostFrames(c)[m]
  BY <1>2, <1>3 DEF InOrder
<1>4. ASSUME NEW d \in Conns, NEW f \in OutboundFrame, FrameAdded(d, f),
             f.kind = "response" /\ f.to \in Immediate =>
                pc[d] = "handling" /\ Frame(d).kind = "request" /\ f.request_id = Frame(d).request_id
      PROVE  j < k
  <2>1. \A m \in DOMAIN HostFrames(c)' :
           \/ m \in DOMAIN HostFrames(c) /\ HostFrames(c)'[m] = HostFrames(c)[m]
           \/ d = c /\ m = Len(HostFrames(c)) + 1 /\ HostFrames(c)'[m] = f
    BY <1>4, PositionsAfter DEF Base
  <2>2. CASE d = c /\ i = Len(HostFrames(c)) + 1 /\ HostFrames(c)'[i] = f
    <3>1. HostFrames(c) \in Seq(OutboundFrame) /\ HostFrames(c)' = Append(HostFrames(c), f)
      BY <1>4, <2>2, HostFramesTyped DEF FrameAdded, Base
    <3>2. h \in DOMAIN HostFrames(c) /\ HostFrames(c)'[h] = HostFrames(c)[h]
      BY <2>2, <3>1
    <3>3. DoneWith(c, j) /\ j \in DOMAIN toHost[c]
      BY <1>2, <3>2
    <3>4. /\ f.kind = "response" /\ f.to \in Immediate
          /\ toHost'[c][k].kind = "request" /\ toHost'[c][k].request_id = f.request_id
      BY <2>2 DEF Replies, ResponseTo
    <3>5. /\ pc[c] = "handling" /\ Frame(c).kind = "request"
          /\ f.request_id = Frame(c).request_id
      BY <1>4, <2>2, <3>4
    <3>6. received[c] \in 1..received[c] /\ Frame(c) = toHost[c][received[c]]
      BY <3>5, FrameInHand DEF Base
    <3>7. received[c] \in 1..received'[c] /\ Frame(c) = toHost'[c][received[c]]
      BY <3>6, NextReads DEF ReadsKept, Base
    <3>8. j < received[c]
      BY <3>3, <3>5 DEF DoneWith
    <3>9. received[c] \in DOMAIN toHost'[c]
      BY <3>7 DEF Base, TypeInv, TypeOK, ThreadsOK, ChannelsOK
    <3>10. k = received[c]
      BY <3>4, <3>5, <3>7, <3>9 DEF Base, PeerInv, RequestsOnce
    <3> QED
      BY <3>8, <3>10
  <2>3. CASE i \in DOMAIN HostFrames(c) /\ HostFrames(c)'[i] = HostFrames(c)[i]
    <3>1. h \in DOMAIN HostFrames(c) /\ HostFrames(c)'[h] = HostFrames(c)[h]
      <4>1. HostFrames(c) \in Seq(OutboundFrame)
        BY HostFramesTyped DEF Base
      <4> QED
        BY <2>1, <2>3, <4>1
    <3> QED
      BY <1>3, <2>3, <3>1
  <2> QED
    BY <2>1, <2>2, <2>3
<1>5. Effect
  BY NextEffect
<1>6. CASE Rests
  BY <1>3, <1>6 DEF Rests, FramesKept
<1>7. ASSUME NEW d \in Conns, NEW f \in OutboundFrame, Responds(d, f)
      PROVE  j < k
  BY <1>4, <1>7 DEF Responds
<1>8. ASSUME NEW d \in Conns, NEW f \in OutboundFrame, NEW init \in RequestFrame, Draws(d, f, init)
      PROVE  j < k
  BY <1>4, <1>8 DEF Draws, HostRequest
<1> QED
  BY <1>5, <1>6, <1>7, <1>8 DEF Effect

LEMMA RepliesInvariant == Spec => [](Base /\ Ledger /\ AllReplied /\ InOrder)
<1>1. Init => AllReplied /\ InOrder
  <2> SUFFICES ASSUME Init PROVE AllReplied /\ InOrder
    OBVIOUS
  <2>1. \A c \in Conns : DOMAIN toHost[c] = {}
    BY DEF Init
  <2> QED
    BY <2>1 DEF AllReplied, InOrder
<1>2. Base /\ Base' /\ AllReplied /\ [Next]_vars => AllReplied'
  BY NextReplied DEF Base
<1>3. Base /\ Base' /\ Ledger /\ Ledger' /\ InOrder /\ [Next]_vars => InOrder'
  BY NextInOrder
<1> QED
  BY <1>1, <1>2, <1>3, LedgerInvariant, PTL DEF Spec

\* A thread that waits for the next frame has answered every handshake and REST
\* request it has read, once and in order, and sends no other such answers
\* (serve_connection writes what handle_frame returned before it reads again).
THEOREM RepliesKeepOrder == Spec => []RepliesInOrder
<1>1. Base /\ Ledger /\ AllReplied /\ InOrder => RepliesInOrder
  <2> SUFFICES ASSUME Base, Ledger, AllReplied, InOrder, NEW c \in Conns
               PROVE  /\ pc[c] = "reading" =>
                            \A j \in 1..received[c] :
                               toHost[c][j].kind = "request" /\ toHost[c][j].action \in Immediate =>
                                  \E i \in DOMAIN wire[c] : Replies(c, wire[c][i], j)
                      /\ \A i \in DOMAIN wire[c] :
                            wire[c][i].kind = "response" /\ wire[c][i].to \in Immediate =>
                               \E j \in 1..received[c] : Replies(c, wire[c][i], j)
                      /\ \A h, i \in DOMAIN wire[c], j, k \in 1..received[c] :
                            h < i /\ Replies(c, wire[c][h], j) /\ Replies(c, wire[c][i], k) => j < k
    BY DEF RepliesInOrder, Positions
  <2>1. \A j \in 1..received[c] : j \in DOMAIN toHost[c]
    BY DEF Base, TypeInv, TypeOK, ThreadsOK, ChannelsOK
  <2>2. \A i \in DOMAIN wire[c] : i \in DOMAIN HostFrames(c) /\ HostFrames(c)[i] = wire[c][i]
    BY WrittenIsReturned DEF Base
  <2>3. ASSUME pc[c] = "reading", NEW j \in 1..received[c],
               toHost[c][j].kind = "request", toHost[c][j].action \in Immediate
        PROVE  \E i \in DOMAIN wire[c] : Replies(c, wire[c][i], j)
    <3>1. outbound[c] = <<>> /\ pc[c] \notin Ended
      BY <2>3 DEF Base, TypeInv, InStep, Ended
    <3>2. HostFrames(c) = wire[c]
      BY <3>1, HostFramesTyped DEF Base
    <3>3. DoneWith(c, j)
      BY <2>3 DEF DoneWith, Base, TypeInv, TypeOK, ThreadsOK
    <3> QED
      BY <2>1, <2>3, <3>1, <3>2, <3>3 DEF AllReplied, Replies
  <2>4. ASSUME NEW i \in DOMAIN wire[c],
               wire[c][i].kind = "response", wire[c][i].to \in Immediate
        PROVE  \E j \in 1..received[c] : Replies(c, wire[c][i], j)
    <3>1. PICK j \in 1..received[c] :
             toHost[c][j].kind = "request" /\ wire[c][i] = ResponseTo(toHost[c][j])
      BY <2>2, <2>4 DEF Base, Correlation, ResponsesMatchRequests, Positions
    <3> QED
      BY <2>4, <3>1 DEF Replies, ResponseTo
  <2>5. ASSUME NEW h \in DOMAIN wire[c], NEW i \in DOMAIN wire[c],
               NEW j \in 1..received[c], NEW k \in 1..received[c],
               h < i, Replies(c, wire[c][h], j), Replies(c, wire[c][i], k)
        PROVE  j < k
    BY <2>1, <2>2, <2>5 DEF InOrder
  <2> QED
    BY <2>3, <2>4, <2>5
<1> QED
  BY <1>1, RepliesInvariant, PTL

-----------------------------------------------------------------------------
(***************************************************************************)
(* ExtensionHost implements InitFlow: every step of the host, of a peer or *)
(* of the process is a step of the promise, or none.                       *)
(*                                                                         *)
(* The status of an init request is read off the wire, the thread, its     *)
(* outbound frames and the table.  A step changes it for at most one init  *)
(* request, the one behind the frame in hand, or for all init requests of  *)
(* the connections it ends.  That the one init request is where the step   *)
(* finds it (still unanswered, with no second continuation) is what the    *)
(* ledger says.                                                            *)
(***************************************************************************)

\* The status of every init request, as InitFlow sees it.
Status == [f \in Conns \X InitIds |-> FlowStatus(f[1], f[2])]

LEMMA MoveMaps ==
  ASSUME NEW c \in Conns, NEW id \in InitIds, NEW from, NEW to,
         FlowStatus(c, id) = from, FlowStatus(c, id)' = to,
         \A d \in Conns, i \in InitIds :
            d # c \/ i # id => FlowStatus(d, i)' = FlowStatus(d, i)
  PROVE  Promise!Moves(<<c, id>>, from, to)
<1>1. <<c, id>> \in Conns \X InitIds /\ Status[<<c, id>>] = from
  BY DEF Status
<1>2. ASSUME NEW f \in Conns \X InitIds
      PROVE  FlowStatus(f[1], f[2])' = IF f = <<c, id>> THEN to ELSE FlowStatus(f[1], f[2])
  <2>1. f[1] \in Conns /\ f[2] \in InitIds /\ f = <<f[1], f[2]>>
    OBVIOUS
  <2>2. CASE f = <<c, id>>
    BY <2>2
  <2>3. CASE f # <<c, id>>
    BY <2>1, <2>3
  <2> QED
    BY <2>2, <2>3
<1>3. Status' = [Status EXCEPT ![<<c, id>>] = to]
  BY <1>1, <1>2 DEF Status
<1> QED
  BY <1>1, <1>3 DEF Promise!Moves, Status

\* Nothing happens but the end of the threads of some connections, perhaps none.
LEMMA EndMaps ==
  ASSUME NEW conns \in SUBSET Conns,
         UNCHANGED <<wire, flow>>,
         \A d \in conns : pc'[d] \in Ended,
         \A d \in Conns \ conns :
            /\ pc'[d] \in Ended <=> pc[d] \in Ended
            /\ \A id : HasInitResponse(outbound'[d], id) <=> HasInitResponse(outbound[d], id),
         \A k \in DOMAIN pending_requests' :
            k \in DOMAIN pending_requests /\ pending_requests'[k] = pending_requests[k],
         \A k \in DOMAIN pending_requests \ DOMAIN pending_requests' : flow[k].conn \in conns
  PROVE  Promise!ConnectionsEnd(conns)
<1>1. ASSUME NEW d \in Conns, NEW id
      PROVE  FlowStatus(d, id)' = IF d \in conns /\ FlowStatus(d, id) # "answered"
                                  THEN "abandoned" ELSE FlowStatus(d, id)
  <2>1. HasInitResponse(wire[d], id)' <=> HasInitResponse(wire[d], id)
    BY DEF HasInitResponse
  <2>2. Known(d, id)' <=> Known(d, id)
    BY DEF Known
  <2>3. CASE d \in conns
    BY <2>1, <2>3 DEF FlowStatus
  <2>4. CASE d \notin conns
    <3>1. HasInitResponse(outbound[d], id)' <=> HasInitResponse(outbound[d], id)
      BY <2>4 DEF HasInitResponse
    <3>2. Waiting(d, id)' = Waiting(d, id)
      BY <2>4 DEF Waiting
    <3>3. \A kind : WaitsFor(d, id, kind)' <=> WaitsFor(d, id, kind)
      BY <3>2 DEF WaitsFor, Waiting
    <3> QED
      BY <2>1, <2>2, <2>4, <3>1, <3>3 DEF FlowStatus
  <2> QED
    BY <2>3, <2>4
<1>2. ASSUME NEW f \in Conns \X InitIds
      PROVE  FlowStatus(f[1], f[2])' = IF f[1] \in conns /\ Status[f] # "answered"
                                       THEN "abandoned" ELSE Status[f]
  <2>1. f[1] \in Conns /\ Status[f] = FlowStatus(f[1], f[2])
    BY DEF Status
  <2> QED
    BY <1>1, <2>1
<1>3. Status' = [f \in Conns \X InitIds |-> IF f[1] \in conns /\ Status[f] # "answered"
                                            THEN "abandoned" ELSE Status[f]]
  BY <1>2 DEF Status
<1> QED
  BY <1>3 DEF Promise!ConnectionsEnd, Promise!Flows, Status

-----------------------------------------------------------------------------
(***************************************************************************)
(* Steps that end threads, and steps that InitFlow does not see.           *)
(***************************************************************************)

\* Frames that hold no init response tell InitFlow nothing.
LEMMA NoInitResponse ==
  /\ \A id : ~HasInitResponse(<<>>, id)
  /\ \A f \in OutboundFrame :
        (f.kind = "response" => f.to # "DISCOVERY_EXTENSIONS") =>
            \A id : ~HasInitResponse(<<f>>, id)
<1>1. \A id : ~HasInitResponse(<<>>, id)
  BY DEF HasInitResponse, Positions
<1>2. ASSUME NEW f \in OutboundFrame, f.kind = "response" => f.to # "DISCOVERY_EXTENSIONS", NEW id
      PROVE  ~HasInitResponse(<<f>>, id)
  BY <1>2 DEF HasInitResponse, Positions, IsInitResponse
<1> QED
  BY <1>1, <1>2

\* A thread that is not writing has nothing to write.
LEMMA NothingOutbound ==
  ASSUME TypeInv, NEW c \in Conns, pc[c] # "writing"
  PROVE  outbound[c] = <<>> /\ \A id : ~HasInitResponse(outbound[c], id)
  BY NoInitResponse DEF TypeInv, InStep

\* One thread ends, and takes at most an entry of its own connection with it.
LEMMA ThreadEndMaps ==
  ASSUME TypeInv, NEW c \in Conns, NEW how \in Ended, pc[c] \in Running,
         pc' = [pc EXCEPT ![c] = how],
         \A d \in Conns \ {c} : outbound'[d] = outbound[d],
         UNCHANGED <<wire, flow>>,
         \A k \in DOMAIN pending_requests' :
            k \in DOMAIN pending_requests /\ pending_requests'[k] = pending_requests[k],
         \A k \in DOMAIN pending_requests \ DOMAIN pending_requests' : flow[k].conn = c
  PROVE  Promise!Next
<1>1. /\ pc'[c] \in Ended
      /\ \A d \in Conns \ {c} : pc'[d] = pc[d]
  BY DEF TypeInv, TypeOK, ThreadsOK
<1>2. {c} \in SUBSET Conns
  OBVIOUS
<1>3. Promise!ConnectionsEnd({c})
  BY <1>1, <1>2, EndMaps
<1> QED
  BY <1>2, <1>3 DEF Promise!Next

\* No thread ends, no init response is returned or written, the table stays.
LEMMA UnseenMaps ==
  ASSUME UNCHANGED <<wire, flow, pending_requests>>,
         \A d \in Conns :
            /\ pc'[d] \in Ended <=> pc[d] \in Ended
            /\ \A id : HasInitResponse(outbound'[d], id) <=> HasInitResponse(outbound[d], id)
  PROVE  Promise!Next
<1>1. {} \in SUBSET Conns
  OBVIOUS
<1>2. Promise!ConnectionsEnd({})
  BY <1>1, EndMaps
<1> QED
  BY <1>1, <1>2 DEF Promise!Next

LEMMA RequestMaps ==
  ASSUME TypeInv, NEW c \in Conns, HandleRequest(c), ~HandleInitializeExtension(c)
  PROVE  Promise!Next
<1>1. ASSUME NEW action, HandlingRequest(c, action)
      PROVE  /\ pc[c] = "handling" /\ pc[c] \in Running /\ UNCHANGED wire
             /\ Frame(c) \in RequestFrame /\ Frame(c).action = action
             /\ outbound[c] = <<>> /\ \A id : ~HasInitResponse(outbound[c], id)
  BY <1>1, FrameInHand, NothingOutbound DEF HandlingRequest, Running
<1>2. ASSUME NEW action \in Immediate, HandlingRequest(c, action),
             Return(c, <<ResponseTo(Frame(c))>>), UNCHANGED <<table, flow>>
      PROVE  Promise!Next
  <2>1. /\ ResponseTo(Frame(c)) \in OutboundFrame
        /\ ResponseTo(Frame(c)).to # "DISCOVERY_EXTENSIONS"
    BY <1>1, <1>2, FramesTyped DEF ResponseTo, Immediate
  <2>2. \A id : ~HasInitResponse(<<ResponseTo(Frame(c))>>, id)
    BY <2>1, NoInitResponse
  <2>3. \A d \in Conns :
           /\ pc'[d] \in Ended <=> pc[d] \in Ended
           /\ \A id : HasInitResponse(outbound'[d], id) <=> HasInitResponse(outbound[d], id)
    BY <1>1, <1>2, <2>2 DEF Return, TypeInv, TypeOK, ThreadsOK, Ended
  <2> QED
    BY <1>1, <1>2, <2>3, UnseenMaps DEF table
<1>3. CASE HandleTcpHandshake(c)
  BY <1>2, <1>3 DEF HandleTcpHandshake, Immediate
<1>4. CASE HandleTransportHandshake(c)
  BY <1>2, <1>4 DEF HandleTransportHandshake, Immediate
<1>5. CASE HandleRestExecute(c)
  BY <1>2, <1>5 DEF HandleRestExecute, Immediate
<1>6. CASE InitializeExtensionFails(c) \/ RestExecuteFails(c)
  <2>1. PICK how \in Ended : EndThread(c, how)
    BY <1>6 DEF InitializeExtensionFails, RestExecuteFails, Ended
  <2>2. pc[c] \in Running /\ UNCHANGED <<wire, flow, pending_requests>>
    BY <1>1, <1>6 DEF InitializeExtensionFails, RestExecuteFails, table
  <2> QED
    BY <2>1, <2>2, ThreadEndMaps DEF EndThread, TypeInv, TypeOK, ThreadsOK
<1>7. CASE IgnoreUnknownAction(c)
  <2>1. \A d \in Conns :
           /\ pc'[d] \in Ended <=> pc[d] \in Ended
           /\ outbound'[d] = outbound[d]
    BY <1>1, <1>7 DEF IgnoreUnknownAction, Return, TypeInv, TypeOK, ThreadsOK, Ended
  <2> QED
    BY <1>1, <1>7, <2>1, UnseenMaps DEF IgnoreUnknownAction, table
<1> QED
  BY <1>3, <1>4, <1>5, <1>6, <1>7 DEF HandleRequest

LEMMA LoopMaps ==
  ASSUME TypeInv, NEW c \in Conns,
         \/ Accept(c) \/ PeerStep(c)
         \/ ReadFrame(c) \/ ReadMalformed(c) \/ ReadEnds(c) \/ WriteFails(c)
  PROVE  Promise!Next
<1> USE DEF TypeInv, TypeOK, ThreadsOK
<1>1. CASE Accept(c)
  BY <1>1, UnseenMaps DEF Accept, Ended, table
<1>2. CASE PeerStep(c)
  BY <1>2, UnseenMaps DEF PeerStep, PeerRequest, PeerAnswers, PeerRepeats, PeerSendsMalformed,
     PeerSends, PeerCloses, table
<1>3. CASE ReadFrame(c)
  <2>1. pc[c] = "reading" /\ UNCHANGED <<outbound, wire, flow, pending_requests>>
    BY <1>3 DEF ReadFrame, ReadNext, table
  <2>2. CASE pc' = [pc EXCEPT ![c] = "panicked"]
    BY <2>1, <2>2, ThreadEndMaps DEF Ended, Running
  <2>3. CASE pc' = [pc EXCEPT ![c] = "handling"]
    BY <2>1, <2>3, UnseenMaps DEF Ended
  <2> QED
    BY <1>3, <2>2, <2>3 DEF ReadFrame
<1>4. CASE ReadMalformed(c)
  <2>1. pc[c] = "reading" /\ UNCHANGED <<outbound, wire, flow, pending_requests>>
    BY <1>4 DEF ReadMalformed, ReadNext, table
  <2>2. PICK how \in Ended : pc' = [pc EXCEPT ![c] = how]
    <3>1. /\ toHost[c] \in Seq(InboundFrame) /\ received[c] \in Nat
          /\ received[c] < Len(toHost[c])
          /\ toHost[c][received[c] + 1].kind = "malformed"
      BY <1>4 DEF ReadMalformed, ReadNext, ChannelsOK
    <3>2. toHost[c][received[c] + 1] \in InboundFrame
      BY <3>1
    <3> QED
      BY <1>4, <3>1, <3>2, ReadOutcomeEnds DEF ReadMalformed
  <2> QED
    BY <2>1, <2>2, ThreadEndMaps DEF Running
<1>5. CASE ReadEnds(c) \/ WriteFails(c)
  <2>1. PICK how \in Ended : EndThread(c, how)
    BY <1>5 DEF ReadEnds, WriteFails, Ended
  <2>2. pc[c] \in Running /\ UNCHANGED <<wire, flow, pending_requests>>
    BY <1>5 DEF ReadEnds, WriteFails, Running, table
  <2> QED
    BY <2>1, <2>2, ThreadEndMaps DEF EndThread
<1> QED
  BY <1>1, <1>2, <1>3, <1>4, <1>5

LEMMA AcceptFailsMaps ==
  ASSUME TypeInv, AcceptFails
  PROVE  Promise!Next
<1> DEFINE conns == {c \in Conns : pc[c] \in Running}
<1>1. conns \in SUBSET Conns
  OBVIOUS
<1>2. UNCHANGED <<wire, flow, pending_requests>>
  BY DEF AcceptFails, table
<1>3. \A d \in conns : pc'[d] \in Ended
  BY DEF AcceptFails, Ended
<1>4. \A d \in Conns \ conns : pc'[d] = pc[d] /\ outbound[d] = <<>> /\ outbound'[d] = <<>>
  BY NothingOutbound DEF AcceptFails, Running
<1>5. Promise!ConnectionsEnd(conns)
  BY <1>1, <1>2, <1>3, <1>4, EndMaps
<1> QED
  BY <1>1, <1>5 DEF Promise!Next

-----------------------------------------------------------------------------
(***************************************************************************)
(* Steps that move an init request on.                                     *)
(***************************************************************************)

\* The continuation an init request waits with is its only one.
LEMMA OneWaiting ==
  ASSUME Base, Ledger, NEW k \in DOMAIN pending_requests, NEW l \in DOMAIN pending_requests,
         flow[k].conn = flow[l].conn, flow[k].init.request_id = flow[l].init.request_id
  PROVE  k = l
<1>1. k \in DOMAIN flow /\ l \in DOMAIN flow /\ k \in Nat /\ l \in Nat
  BY DEF Base, TypeInv, TypeOK, TableOK
<1>2. flow[k] = flow[l]
  BY <1>1, OneOrigin DEF Ledger
<1>3. k <= l /\ l <= k
  BY <1>1, <1>2 DEF Ledger, LatestWaits
<1> QED
  BY <1>1, <1>3

\* What waits for an init request, by the history.
LEMMA WaitingByFlow ==
  ASSUME Base, NEW c, NEW id
  PROVE  Waiting(c, id) =
            {k \in DOMAIN pending_requests : flow[k].conn = c /\ flow[k].init.request_id = id}
  BY DEF Waiting, Base, Correlation, PendingKnown

\* Written and returned responses are among the host's frames.
LEMMA UnansweredByFrames ==
  ASSUME TypeInv, NEW c \in Conns, NEW id, ~Replied(c, id)
  PROVE  ~HasInitResponse(wire[c], id)
<1>1. ASSUME NEW i \in DOMAIN wire[c]
      PROVE  ~IsInitResponse(wire[c][i], id)
  BY WrittenIsReturned DEF Replied, IsInitResponse
<1> QED
  BY <1>1 DEF HasInitResponse, Positions

\* A known init request is one a peer may send.
LEMMA FlowInitIds ==
  ASSUME Base, Ledger, NEW k \in DOMAIN flow
  PROVE  flow[k].init.request_id \in InitIds
<1>1. flow[k].conn \in Conns /\ flow[k].init \in RequestFrame
  BY DEF Base, TypeInv, TypeOK, TableOK
<1>2. PICK j \in DOMAIN toHost[flow[k].conn] : toHost[flow[k].conn][j] = flow[k].init
  BY DEF Ledger, FlowDone, Done
<1>3. flow[k].init \in PeerRequests
  BY <1>1, <1>2 DEF Base, PeerInv, RequestsKnown, RequestFrame
<1>4. flow[k].init.action = "DISCOVERY_EXTENSIONS"
  BY DEF Base, Correlation, FlowRead
<1> QED
  BY <1>3, <1>4 DEF InitIds

LEMMA RegisterMaps ==
  ASSUME Base, Ledger, NEW c \in Conns, HandleInitializeExtension(c)
  PROVE  Promise!Next
<1> USE DEF Base
<1>1. PICK init, id, n : init = Frame(c) /\ id = init.request_id /\ n = next_request_id
  OBVIOUS
<1>2. /\ pc[c] = "handling" /\ init.kind = "request" /\ init \in RequestFrame
      /\ init.action = "DISCOVERY_EXTENSIONS"
      /\ UNCHANGED <<received, toHost, wire>>
  BY <1>1, FrameInHand DEF HandleInitializeExtension, HandlingRequest, peers
<1>3. id \in InitIds
  <2>1. received[c] \in DOMAIN toHost[c] /\ init = toHost[c][received[c]]
    BY <1>1, <1>2, FrameInHand DEF TypeInv, TypeOK, ChannelsOK
  <2>2. init \in PeerRequests
    BY <1>2, <2>1 DEF PeerInv, RequestsKnown
  <2> QED
    BY <1>1, <1>2, <2>2 DEF InitIds
<1>4. /\ n \notin DOMAIN flow /\ DOMAIN pending_requests \subseteq DOMAIN flow
      /\ flow' = Insert(flow, n, [conn |-> c, init |-> init])
      /\ pending_requests' = Insert(pending_requests, n, RegisterPending(init))
      /\ Return(c, <<RegisterRequest(n, init)>>)
  BY <1>1 DEF HandleInitializeExtension, TypeInv, TypeOK, TableOK
<1>5. /\ DOMAIN flow' = DOMAIN flow \cup {n}
      /\ DOMAIN pending_requests' = DOMAIN pending_requests \cup {n}
      /\ flow'[n].conn = c /\ flow'[n].init.request_id = id
      /\ pending_requests'[n].kind = "RegisterRestActions"
      /\ pending_requests'[n].init_request_id = id
      /\ \A k \in DOMAIN flow : flow'[k] = flow[k]
      /\ \A k \in DOMAIN pending_requests : pending_requests'[k] = pending_requests[k]
  BY <1>1, <1>4 DEF Insert, RegisterPending
<1>6. ~Replied(c, id) /\ ~Known(c, id)
  BY <1>1, <1>2, InHandIsNew DEF Ledger, Known
<1>7. /\ \A i : ~HasInitResponse(outbound[c], i)
      /\ \A i : ~HasInitResponse(outbound'[c], i)
  <2>1. RegisterRequest(n, init) \in OutboundFrame
    BY <1>1, <1>2, FramesTyped DEF TypeInv, TypeOK, TableOK
  <2>2. outbound'[c] = <<RegisterRequest(n, init)>>
    BY <1>4 DEF Return, TypeInv, TypeOK, ThreadsOK
  <2> QED
    BY <1>2, <2>1, <2>2, NoInitResponse, NothingOutbound DEF RegisterRequest
<1>8. FlowStatus(c, id) = "idle"
  <2>1. Waiting(c, id) = {}
    BY <1>4, <1>6 DEF Waiting, Correlation, PendingKnown, Known
  <2> QED
    BY <1>2, <1>6, <1>7, <2>1, UnansweredByFrames DEF FlowStatus, WaitsFor, Ended
<1>9. FlowStatus(c, id)' = "registering"
  <2>1. ~HasInitResponse(wire'[c], id)
    BY <1>2, <1>6, UnansweredByFrames DEF HasInitResponse
  <2>2. pc'[c] \notin Ended
    BY <1>4 DEF Return, TypeInv, TypeOK, ThreadsOK, Ended
  <2>3. WaitsFor(c, id, "RegisterRestActions")'
    BY <1>5 DEF WaitsFor, Waiting
  <2> QED
    BY <1>7, <2>1, <2>2, <2>3 DEF FlowStatus, HasInitResponse
<1>10. ASSUME NEW d \in Conns, NEW i \in InitIds, d # c \/ i # id
       PROVE  FlowStatus(d, i)' = FlowStatus(d, i)
  <2>1. HasInitResponse(wire[d], i)' <=> HasInitResponse(wire[d], i)
    BY <1>2 DEF HasInitResponse
  <2>2. pc'[d] \in Ended <=> pc[d] \in Ended
    BY <1>2, <1>4 DEF Return, TypeInv, TypeOK, ThreadsOK, Ended
  <2>3. HasInitResponse(outbound[d], i)' <=> HasInitResponse(outbound[d], i)
    BY <1>4, <1>7 DEF HasInitResponse, Return, TypeInv, TypeOK, ThreadsOK
  <2>4. Waiting(d, i)' = Waiting(d, i)
    BY <1>4, <1>5, <1>10 DEF Waiting
  <2>5. \A kind : WaitsFor(d, i, kind)' <=> WaitsFor(d, i, kind)
    BY <1>5, <2>4 DEF WaitsFor, Waiting
  <2>6. Known(d, i)' <=> Known(d, i)
    BY <1>5, <1>10 DEF Known
  <2> QED
    BY <2>1, <2>2, <2>3, <2>5, <2>6 DEF FlowStatus
<1>11. Promise!Moves(<<c, id>>, "idle", "registering")
  BY <1>3, <1>8, <1>9, <1>10, MoveMaps
<1> QED
  BY <1>3, <1>11 DEF Promise!Next, Promise!Register, Promise!Flows

\* The entry a is taken out of the table; what comes in belongs to the init
\* request id of c.
Takes(c, a, id) ==
    /\ \A k \in DOMAIN flow : k \in DOMAIN flow' /\ flow'[k] = flow[k]
    /\ \A k \in DOMAIN flow' \ DOMAIN flow :
          flow'[k].conn = c /\ flow'[k].init.request_id = id
    /\ \A k \in DOMAIN pending_requests \ {a} :
          k \in DOMAIN pending_requests' /\ pending_requests'[k] = pending_requests[k]
    /\ \A k \in DOMAIN pending_requests' :
          k \in DOMAIN pending_requests \/ k \in DOMAIN flow' \ DOMAIN flow
    /\ a \notin DOMAIN pending_requests'

\* A continuation of this kind comes into the table.
Comes(kind) ==
    \E k \in DOMAIN pending_requests' \ DOMAIN pending_requests : pending_requests'[k].kind = kind

\* An answer moves the init request behind it from one status to another.
LEMMA AnswerMoves ==
  ASSUME Base, Base', Ledger, NEW c \in Conns, NEW kind, TakePending(c, kind),
         NEW frames, Return(c, frames),
         NEW a, a = Frame(c).request_id,
         NEW id, id = flow[a].init.request_id,
         \A i : HasInitResponse(frames, i) => i = id,
         Takes(c, a, id)
  PROVE  /\ id \in InitIds
         /\ FlowStatus(c, id) = IF kind = "RegisterRestActions"
                                THEN "registering" ELSE "configuring"
         /\ FlowStatus(c, id)' =
               IF HasInitResponse(frames, id) THEN "replying"
               ELSE IF Comes("RegisterRestActions") THEN "registering"
               ELSE IF Comes("EnvironmentSettings") THEN "configuring" ELSE "refused"
         /\ \A d \in Conns, i \in InitIds :
               d # c \/ i # id => FlowStatus(d, i)' = FlowStatus(d, i)
<1> USE DEF Base, Takes
<1>1. /\ pc[c] = "handling" /\ Frame(c).kind = "answer"
      /\ a \in DOMAIN pending_requests /\ a \in DOMAIN flow
      /\ pending_requests[a].kind = kind /\ pending_requests[a] \in PendingRequest
      /\ UNCHANGED <<received, toHost, wire>>
  BY PendingTaken
<1>2. flow[a].conn = c /\ flow[a].init.request_id = id
  <2>1. flow[a] = [conn |-> c, init |-> flow[a].init]
    BY PendingBelongs
  <2>2. flow[a].conn = c
    BY <2>1
  <2> QED
    BY <2>2
<1>3. id \in InitIds
  BY <1>1, <1>2, FlowInitIds
<1>4. ~HasInitResponse(wire[c], id)
  BY <1>1, <1>2, UnansweredByFrames DEF Ledger, WaitingUnanswered
<1>5. \A i : ~HasInitResponse(outbound[c], i)
  BY <1>1, NothingOutbound
<1>6. Waiting(c, id) = {a}
  <2>1. \A k \in Waiting(c, id) : k = a
    BY <1>1, <1>2, WaitingByFlow, OneWaiting
  <2>2. a \in Waiting(c, id)
    BY <1>1, <1>2, WaitingByFlow
  <2> QED
    BY <2>1, <2>2
<1>7. kind \in {"RegisterRestActions", "EnvironmentSettings"}
  BY <1>1 DEF PendingRequest
<1>8. FlowStatus(c, id) = IF kind = "RegisterRestActions" THEN "registering" ELSE "configuring"
  BY <1>1, <1>4, <1>5, <1>6, <1>7 DEF FlowStatus, WaitsFor, Ended
<1>9. /\ pc'[c] \notin Ended /\ outbound'[c] = frames
      /\ \A d \in Conns \ {c} : pc'[d] = pc[d] /\ outbound'[d] = outbound[d]
  BY DEF Return, TypeInv, TypeOK, ThreadsOK, Ended
<1>10. Known(c, id)'
  BY <1>1, <1>2 DEF Known
<1>11. ~HasInitResponse(wire[c], id)'
  BY <1>1, <1>4 DEF HasInitResponse
<1>12. Waiting(c, id)' = DOMAIN pending_requests' \ DOMAIN pending_requests
  <2>1. \A k \in DOMAIN pending_requests :
           k \in DOMAIN pending_requests' => k \notin Waiting(c, id)'
    <3> SUFFICES ASSUME NEW k \in DOMAIN pending_requests, k \in DOMAIN pending_requests',
                        k \in Waiting(c, id)'
                 PROVE  FALSE
      OBVIOUS
    <3>1. k # a /\ pending_requests'[k] = pending_requests[k] /\ k \in DOMAIN flow
      BY DEF TypeInv, TypeOK, TableOK
    <3>2. k \in Waiting(c, id)
      BY <3>1 DEF Waiting
    <3> QED
      BY <1>6, <3>1, <3>2
  <2>2. \A k \in DOMAIN pending_requests' \ DOMAIN pending_requests :
           flow'[k].conn = c /\ pending_requests'[k].init_request_id = id
    BY DEF Correlation, PendingKnown
  <2> QED
    BY <2>1, <2>2 DEF Waiting
<1>13. FlowStatus(c, id)' =
               IF HasInitResponse(frames, id) THEN "replying"
               ELSE IF Comes("RegisterRestActions") THEN "registering"
               ELSE IF Comes("EnvironmentSettings") THEN "configuring" ELSE "refused"
  <2>1. HasInitResponse(outbound[c], id)' <=> HasInitResponse(frames, id)
    BY <1>9 DEF HasInitResponse
  <2>2. \A w : WaitsFor(c, id, w)' <=> Comes(w)
    BY <1>12 DEF WaitsFor, Comes
  <2> QED
    BY <1>9, <1>10, <1>11, <2>1, <2>2 DEF FlowStatus
<1>14. ASSUME NEW d \in Conns, NEW i \in InitIds, d # c \/ i # id
       PROVE  FlowStatus(d, i)' = FlowStatus(d, i)
  <2>1. HasInitResponse(wire[d], i)' <=> HasInitResponse(wire[d], i)
    BY <1>1 DEF HasInitResponse
  <2>2. pc'[d] \in Ended <=> pc[d] \in Ended
    BY <1>1, <1>9 DEF Ended
  <2>3. HasInitResponse(outbound[d], i)' <=> HasInitResponse(outbound[d], i)
    BY <1>5, <1>9, <1>14 DEF HasInitResponse
  <2>4. Known(d, i)' <=> Known(d, i)
    BY <1>14 DEF Known
  <2>5. \A k \in DOMAIN pending_requests : k \in DOMAIN flow /\ k \in DOMAIN flow'
    BY DEF TypeInv, TypeOK, TableOK
  <2>6. pending_requests[a].init_request_id = id
    BY <1>1, <1>2 DEF Correlation, PendingKnown
  <2>7. \A k \in DOMAIN pending_requests' \ DOMAIN pending_requests :
           flow'[k].conn = c /\ pending_requests'[k].init_request_id = id
    BY DEF Correlation, PendingKnown
  <2>8. \A k \in Waiting(d, i)' : k \in Waiting(d, i)
    BY <1>14, <2>5, <2>7 DEF Waiting
  <2>9. \A k \in Waiting(d, i) : k \in Waiting(d, i)' /\ k # a
    BY <1>2, <1>14, <2>5, <2>6 DEF Waiting
  <2>10. \A w : WaitsFor(d, i, w)' <=> WaitsFor(d, i, w)
    BY <2>8, <2>9 DEF WaitsFor, Waiting
  <2> QED
    BY <2>1, <2>2, <2>3, <2>4, <2>10 DEF FlowStatus
<1> QED
  BY <1>3, <1>8, <1>13, <1>14

LEMMA AnswerMaps ==
  ASSUME Base, Base', Ledger, NEW c \in Conns, HandleAnswer(c)
  PROVE  Promise!Next
<1> USE DEF Base
<1>1. PICK a, id : a = Frame(c).request_id /\ id = flow[a].init.request_id
  OBVIOUS
<1>2. ASSUME NEW kind, TakePending(c, kind)
      PROVE  /\ pc[c] = "handling" /\ pc[c] \in Running
             /\ a \in DOMAIN pending_requests /\ a \in DOMAIN flow /\ flow[a].conn = c
             /\ pending_requests[a] \in PendingRequest
             /\ pending_requests[a].kind = kind
             /\ pending_requests[a].init_request_id = id
             /\ UNCHANGED wire
  <2>1. flow[a] = [conn |-> c, init |-> flow[a].init]
    BY <1>1, <1>2, PendingBelongs
  <2>2. flow[a].conn = c
    BY <2>1
  <2> QED
    BY <1>1, <1>2, <2>2, PendingTaken, PendingBelongs DEF Running
<1>3. CASE AnswerAfterPoison(c)
  <2>1. EndThread(c, "error") /\ pc[c] \in Running /\ UNCHANGED <<wire, flow, pending_requests>>
    BY <1>3 DEF AnswerAfterPoison, HandlingAnswer, Running, table
  <2> QED
    BY <2>1, ThreadEndMaps DEF EndThread, TypeInv, TypeOK, ThreadsOK, Ended
<1>4. CASE IgnoreUnknownAnswer(c)
  <2>1. pc[c] = "handling" /\ Return(c, <<>>) /\ UNCHANGED <<wire, flow, pending_requests>>
    BY <1>4 DEF IgnoreUnknownAnswer, HandlingAnswer, table
  <2>2. outbound[c] = <<>>
    BY <2>1, NothingOutbound
  <2>3. \A d \in Conns :
           /\ pc'[d] \in Ended <=> pc[d] \in Ended
           /\ outbound'[d] = outbound[d]
    BY <2>1, <2>2 DEF Return, TypeInv, TypeOK, ThreadsOK, Ended
  <2> QED
    BY <2>1, <2>3, UnseenMaps
<1>5. CASE AcknowledgementFails(c) \/ TracePoisons(c)
  <2>1. PICK kind : TakePending(c, kind)
    BY <1>5 DEF AcknowledgementFails, TracePoisons
  <2>2. PICK how \in Ended : EndThread(c, how)
    BY <1>5 DEF AcknowledgementFails, TracePoisons, Ended
  <2>3. /\ pending_requests' = Remove(pending_requests, a) /\ UNCHANGED flow
    BY <1>1, <1>5 DEF AcknowledgementFails, TracePoisons
  <2>4. /\ DOMAIN pending_requests' = DOMAIN pending_requests \ {a}
        /\ \A k \in DOMAIN pending_requests' : pending_requests'[k] = pending_requests[k]
    BY <2>3 DEF Remove, Restrict
  <2>5. \A k \in DOMAIN pending_requests \ DOMAIN pending_requests' : flow[k].conn = c
    BY <1>2, <2>1, <2>4
  <2> QED
    BY <1>2, <2>1, <2>2, <2>3, <2>4, <2>5, ThreadEndMaps DEF EndThread, TypeInv, TypeOK, ThreadsOK
<1>6. CASE RegistrationRefused(c)
  <2>1. /\ TakePending(c, "RegisterRestActions") /\ UNCHANGED flow
        /\ Return(c, <<>>)
        /\ pending_requests' = Remove(pending_requests, a)
    BY <1>1, <1>6 DEF RegistrationRefused
  <2>2. /\ DOMAIN pending_requests' = DOMAIN pending_requests \ {a}
        /\ \A k \in DOMAIN pending_requests' : pending_requests'[k] = pending_requests[k]
    BY <2>1 DEF Remove, Restrict
  <2>6. Takes(c, a, id) /\ \A w : ~Comes(w)
    BY <2>1, <2>2 DEF Takes, Comes
  <2>3. /\ id \in InitIds /\ FlowStatus(c, id) = "registering" /\ FlowStatus(c, id)' = "refused"
        /\ \A d \in Conns, i \in InitIds :
              d # c \/ i # id => FlowStatus(d, i)' = FlowStatus(d, i)
    BY <1>1, <2>1, <2>6, AnswerMoves, NoInitResponse
  <2>4. Promise!Moves(<<c, id>>, "registering", "refused")
    BY <2>3, MoveMaps
  <2> QED
    BY <2>3, <2>4 DEF Promise!Next, Promise!Refuse, Promise!Flows
<1>7. CASE RegistrationAcknowledged(c)
  <2>1. PICK n, f, origin :
           n = next_request_id /\ f = SettingsRequest(n, pending_requests[a]) /\ origin = flow[a]
    OBVIOUS
  <2>2. /\ TakePending(c, "RegisterRestActions")
        /\ flow' = Insert(flow, n, origin) /\ Return(c, <<f>>)
        /\ pending_requests' =
              Insert(Remove(pending_requests, a), n, SettingsPending(pending_requests[a]))
    BY <1>1, <1>7, <2>1 DEF RegistrationAcknowledged
  <2>3. /\ n \notin DOMAIN flow /\ DOMAIN pending_requests \subseteq DOMAIN flow /\ a \in DOMAIN flow
        /\ a \in DOMAIN pending_requests
    BY <1>2, <2>1, <2>2 DEF TypeInv, TypeOK, TableOK
  <2>4. f \in OutboundFrame /\ f.kind = "request"
    <3>1. next_request_id \in Nat
      BY DEF TypeInv, TypeOK, TableOK
    <3> QED
      BY <1>2, <2>1, <2>2, <3>1, FramesTyped DEF SettingsRequest
  <2>5. \A i : ~HasInitResponse(<<f>>, i)
    BY <2>4, NoInitResponse
  <2>6. /\ DOMAIN flow' = DOMAIN flow \cup {n} /\ flow'[n] = origin
        /\ \A k \in DOMAIN flow : flow'[k] = flow[k]
    BY <2>2, <2>3 DEF Insert
  <2>7. /\ DOMAIN pending_requests' = (DOMAIN pending_requests \ {a}) \cup {n}
        /\ \A k \in DOMAIN pending_requests \ {a} : pending_requests'[k] = pending_requests[k]
        /\ pending_requests'[n].kind = "EnvironmentSettings"
        /\ pending_requests'[n].init_request_id = id
    BY <1>2, <2>2, <2>3 DEF Insert, Remove, Restrict, SettingsPending
  <2>8. flow'[n].conn = c /\ flow'[n].init.request_id = id
    BY <1>1, <1>2, <2>1, <2>2, <2>6
  <2>9. Takes(c, a, id)
    BY <2>3, <2>6, <2>7, <2>8 DEF Takes
  <2>10. Comes("EnvironmentSettings") /\ ~Comes("RegisterRestActions")
    BY <2>3, <2>7 DEF Comes
  <2>11. /\ id \in InitIds /\ FlowStatus(c, id) = "registering"
         /\ FlowStatus(c, id)' = "configuring"
         /\ \A d \in Conns, i \in InitIds :
               d # c \/ i # id => FlowStatus(d, i)' = FlowStatus(d, i)
    BY <1>1, <2>2, <2>5, <2>9, <2>10, AnswerMoves
  <2>12. Promise!Moves(<<c, id>>, "registering", "configuring")
    BY <2>11, MoveMaps
  <2> QED
    BY <2>11, <2>12 DEF Promise!Next, Promise!Configure, Promise!Flows
<1>8. CASE EnvironmentSettingsReceived(c)
  <2>1. PICK f : f = InitializeResponse(pending_requests[a])
    OBVIOUS
  <2>2. /\ TakePending(c, "EnvironmentSettings") /\ UNCHANGED flow /\ Return(c, <<f>>)
        /\ pending_requests' = Remove(pending_requests, a)
    BY <1>1, <1>8, <2>1 DEF EnvironmentSettingsReceived
  <2>3. /\ f.kind = "response" /\ f.to = "DISCOVERY_EXTENSIONS" /\ f.request_id = id
    BY <1>2, <2>1, <2>2 DEF InitializeResponse
  <2>4. \A i : HasInitResponse(<<f>>, i) <=> i = id
    BY <2>3 DEF HasInitResponse, Positions, IsInitResponse
  <2>5. /\ DOMAIN pending_requests' = DOMAIN pending_requests \ {a}
        /\ \A k \in DOMAIN pending_requests' : pending_requests'[k] = pending_requests[k]
    BY <2>2 DEF Remove, Restrict
  <2>8. Takes(c, a, id)
    BY <2>2, <2>5 DEF Takes
  <2>6. /\ id \in InitIds /\ FlowStatus(c, id) = "configuring"
        /\ FlowStatus(c, id)' = "replying"
        /\ \A d \in Conns, i \in InitIds :
              d # c \/ i # id => FlowStatus(d, i)' = FlowStatus(d, i)
    BY <1>1, <2>2, <2>4, <2>8, AnswerMoves
  <2>7. Promise!Moves(<<c, id>>, "configuring", "replying")
    BY <2>6, MoveMaps
  <2> QED
    BY <2>6, <2>7 DEF Promise!Next, Promise!Reply, Promise!Flows
<1> QED
  BY <1>3, <1>4, <1>5, <1>6, <1>7, <1>8 DEF HandleAnswer

\* In a concatenation the head of the second sequence follows the first.
LEMMA HeadFollows ==
  ASSUME NEW S, NEW w \in Seq(S), NEW s \in Seq(S), s # <<>>
  PROVE  /\ Len(w) + 1 \in DOMAIN (w \o s)
         /\ (w \o s)[Len(w) + 1] = Head(s)
         /\ Len(w) + 1 \notin DOMAIN w
<1>1. PICK m, n : m = Len(w) /\ n = Len(s)
  OBVIOUS
<1>2. /\ m \in Nat /\ n \in Nat /\ n # 0 /\ DOMAIN w = 1..m /\ Head(s) = s[1]
  BY <1>1, LenProperties, EmptySeq
<1>3. m + 1 \in 1..(m + n) /\ m + 1 \notin 1..m /\ ~(m + 1 <= m) /\ m + 1 - m = 1
  BY <1>2
<1>4. (w \o s)[m + 1] = IF m + 1 <= m THEN w[m + 1] ELSE s[m + 1 - m]
  BY <1>1, <1>3, ConcatProperties
<1>5. w \o s \in Seq(S) /\ Len(w \o s) = m + n
  BY <1>1, ConcatProperties
<1>6. DOMAIN (w \o s) = 1..(m + n)
  BY <1>5, LenProperties
<1> QED
  BY <1>1, <1>2, <1>3, <1>4, <1>6

LEMMA WriteMaps ==
  ASSUME Base, Ledger, NEW c \in Conns, WriteFrame(c)
  PROVE  Promise!Next
<1> USE DEF Base
<1>1. /\ pc[c] = "writing"
      /\ outbound[c] # <<>> /\ outbound[c] \in Seq(OutboundFrame)
      /\ wire[c] \in Seq(OutboundFrame)
      /\ UNCHANGED <<flow, pending_requests>>
  BY DEF WriteFrame, TypeInv, TypeOK, ThreadsOK, ChannelsOK, InStep, table
<1>2. PICK f \in OutboundFrame : f = Head(outbound[c])
  BY <1>1
<1>3. /\ wire'[c] = Append(wire[c], f) /\ outbound'[c] = Tail(outbound[c])
      /\ \A d \in Conns \ {c} : wire'[d] = wire[d] /\ outbound'[d] = outbound[d]
      /\ \A d \in Conns : pc'[d] \in Ended <=> pc[d] \in Ended
  BY <1>1, <1>2 DEF WriteFrame, Return, TypeInv, TypeOK, ThreadsOK, ChannelsOK, Ended
<1>4. \A id : HasInitResponse(wire'[c], id) <=> HasInitResponse(wire[c], id) \/ IsInitResponse(f, id)
  BY <1>1, <1>2, <1>3 DEF HasInitResponse, Positions
<1>5. \A id : HasInitResponse(outbound[c], id)
                 <=> HasInitResponse(outbound'[c], id) \/ IsInitResponse(f, id)
  <2>1. \A i \in DOMAIN outbound[c] :
           \/ i = 1 /\ outbound[c][i] = f
           \/ i - 1 \in DOMAIN Tail(outbound[c]) /\ Tail(outbound[c])[i - 1] = outbound[c][i]
    BY <1>1, <1>2
  <2>2. \A i \in DOMAIN Tail(outbound[c]) :
           i + 1 \in DOMAIN outbound[c] /\ Tail(outbound[c])[i] = outbound[c][i + 1]
    BY <1>1
  <2>3. 1 \in DOMAIN outbound[c] /\ outbound[c][1] = f
    BY <1>1, <1>2
  <2> QED
    BY <1>3, <2>1, <2>2, <2>3 DEF HasInitResponse, Positions
<1>6. ASSUME NEW d \in Conns, NEW id, d # c \/ ~IsInitResponse(f, id)
      PROVE  FlowStatus(d, id)' = FlowStatus(d, id)
  <2>1. HasInitResponse(wire[d], id)' <=> HasInitResponse(wire[d], id)
    BY <1>3, <1>4, <1>6 DEF HasInitResponse
  <2>2. HasInitResponse(outbound[d], id)' <=> HasInitResponse(outbound[d], id)
    BY <1>3, <1>5, <1>6 DEF HasInitResponse
  <2>3. Waiting(d, id)' = Waiting(d, id) /\ (Known(d, id)' <=> Known(d, id))
    BY <1>1 DEF Waiting, Known
  <2>4. \A w : WaitsFor(d, id, w)' <=> WaitsFor(d, id, w)
    BY <1>1, <2>3 DEF WaitsFor, Waiting
  <2> QED
    BY <1>3, <2>1, <2>2, <2>3, <2>4 DEF FlowStatus
<1>7. CASE \A id : ~IsInitResponse(f, id)
  <2>1. \A d \in Conns, id \in InitIds : FlowStatus(d, id)' = FlowStatus(d, id)
    BY <1>6, <1>7
  <2>2. \A x \in Conns \X InitIds : x[1] \in Conns /\ x[2] \in InitIds
    OBVIOUS
  <2>3. UNCHANGED Status
    BY <2>1, <2>2 DEF Status
  <2>4. {} \in SUBSET Conns
    OBVIOUS
  <2>5. Promise!ConnectionsEnd({})
    BY <2>3 DEF Promise!ConnectionsEnd, Promise!Flows, Status
  <2> QED
    BY <2>4, <2>5 DEF Promise!Next
<1>8. ASSUME NEW id, IsInitResponse(f, id)
      PROVE  Promise!Next
  <2>1. /\ f.kind = "response" /\ f.to = "DISCOVERY_EXTENSIONS" /\ f.request_id = id
        /\ \A i : IsInitResponse(f, i) => i = id
    BY <1>8 DEF IsInitResponse
  <2>2. PICK p : /\ p = Len(wire[c]) + 1 /\ p \in DOMAIN HostFrames(c) /\ HostFrames(c)[p] = f
                 /\ p \notin DOMAIN wire[c]
    <3>1. /\ Len(wire[c]) + 1 \in DOMAIN HostFrames(c)
          /\ HostFrames(c)[Len(wire[c]) + 1] = Head(outbound[c])
          /\ Len(wire[c]) + 1 \notin DOMAIN wire[c]
      BY ONLY <1>1, HeadFollows DEF HostFrames
    <3> QED
      BY <1>2, <3>1
  <2>3. id \in InitIds
    <3>1. PICK j \in 1..received[c] :
             toHost[c][j].kind = "request" /\ f = ResponseTo(toHost[c][j])
      BY <2>1, <2>2 DEF Correlation, ResponsesMatchRequests, Positions
    <3>2. j \in DOMAIN toHost[c]
      BY <3>1 DEF TypeInv, TypeOK, ThreadsOK, ChannelsOK
    <3>3. toHost[c][j] \in PeerRequests
      BY <3>1, <3>2 DEF PeerInv, RequestsKnown
    <3> QED
      BY <2>1, <3>1, <3>3 DEF ResponseTo, InitIds
  <2>4. ~HasInitResponse(wire[c], id)
    <3> SUFFICES ASSUME NEW i \in DOMAIN wire[c], IsInitResponse(wire[c][i], id)
                 PROVE  FALSE
      BY DEF HasInitResponse, Positions
    <3>1. i \in DOMAIN HostFrames(c) /\ HostFrames(c)[i] = wire[c][i] /\ i # p
      BY <2>2, WrittenIsReturned
    <3> QED
      BY <2>1, <2>2, <3>1 DEF Ledger, AtMostOneResponse, Positions, IsInitResponse
  <2>5. FlowStatus(c, id) = "replying"
    BY <1>1, <1>5, <1>8, <2>4 DEF FlowStatus, Ended
  <2>6. FlowStatus(c, id)' = "answered"
    <3>1. HasInitResponse(wire[c], id)'
      BY <1>4, <1>8 DEF HasInitResponse
    <3> QED
      BY <3>1 DEF FlowStatus
  <2>7. \A d \in Conns, i \in InitIds : d # c \/ i # id => FlowStatus(d, i)' = FlowStatus(d, i)
    BY <1>6, <2>1
  <2>8. Promise!Moves(<<c, id>>, "replying", "answered")
    BY <2>3, <2>5, <2>6, <2>7, MoveMaps
  <2> QED
    BY <2>3, <2>8 DEF Promise!Next, Promise!Answer, Promise!Flows
<1> QED
  BY <1>7, <1>8

-----------------------------------------------------------------------------
(***************************************************************************)
(* The refinement.                                                         *)
(***************************************************************************)

LEMMA InitMaps == Init => Promise!Init
<1> SUFFICES ASSUME Init PROVE Promise!Init
  OBVIOUS
<1>1. \A c \in Conns : \A id : FlowStatus(c, id) = "idle"
  <2> SUFFICES ASSUME NEW c \in Conns, NEW id PROVE FlowStatus(c, id) = "idle"
    OBVIOUS
  <2>1. /\ wire[c] = <<>> /\ outbound[c] = <<>> /\ pc[c] = "unopened"
        /\ DOMAIN pending_requests = {} /\ DOMAIN flow = {}
    BY DEF Init
  <2> QED
    BY <2>1, NoInitResponse DEF FlowStatus, WaitsFor, Waiting, Known, Ended
<1>2. \A f \in Conns \X InitIds : f[1] \in Conns
  OBVIOUS
<1> QED
  BY <1>1, <1>2 DEF Promise!Init, Promise!Flows

LEMMA NextMaps == Base /\ Base' /\ Ledger /\ [Next]_vars => [Promise!Next]_Status
<1> SUFFICES ASSUME Base, Base', Ledger, [Next]_vars
             PROVE  Promise!Next \/ UNCHANGED Status
  OBVIOUS
<1>1. ASSUME NEW c \in Conns, ThreadStep(c)
      PROVE  Promise!Next
  BY <1>1, LoopMaps, RequestMaps, RegisterMaps, AnswerMaps, WriteMaps DEF ThreadStep, Base
<1>2. ASSUME NEW c \in Conns, Accept(c) \/ PeerStep(c)
      PROVE  Promise!Next
  BY <1>2, LoopMaps DEF Base
<1>3. CASE AcceptFails
  BY <1>3, AcceptFailsMaps DEF Base
<1>4. CASE StderrBreaks \/ UNCHANGED vars
  BY <1>4, UnseenMaps DEF StderrBreaks, vars, table
<1> QED
  BY <1>1, <1>2, <1>3, <1>4 DEF Next

\* The host implements InitFlow: no step of any thread or peer, and no end of a
\* thread or of the process, moves the init request of another connection,
\* skips a stage of handle_init and handle_response, or revives one given up.
THEOREM InitFlowImplemented == Spec => ImplementsInitFlow
<1>1. Init => Promise!Init
  BY InitMaps
<1>2. Base /\ Base' /\ Ledger /\ [Next]_vars => [Promise!Next]_Status
  BY NextMaps
<1> QED
  BY <1>1, <1>2, LedgerInvariant, PTL DEF Spec, ImplementsInitFlow, Promise!Spec, Status

=============================================================================
