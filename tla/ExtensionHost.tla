--------------------------- MODULE ExtensionHost ---------------------------
(***************************************************************************)
(* The extension process of src/host.rs: one listener, one thread per      *)
(* accepted connection, and one table of pending requests that all threads *)
(* share behind a mutex.                                                   *)
(*                                                                         *)
(* A thread reads one frame, handles it, writes the frames the handler     *)
(* returned, and reads again.  Every handler that touches the table holds  *)
(* the mutex until it returns, so a handler is one step; reading, handling *)
(* and writing are separate steps that interleave with the other threads   *)
(* and with the peers.  A panic of a thread that holds the mutex poisons   *)
(* it; only the trace lines printed under the lock can panic there.        *)
(*                                                                         *)
(* A peer is an OpenSearch node at the far end of a connection.  It is not *)
(* part of the crate: its actions say what the crate relies on.  A peer    *)
(* answers a request on the connection that carried the request, and uses  *)
(* each request id once per connection; ids of different peers, and of the *)
(* host itself, may coincide.                                              *)
(***************************************************************************)
EXTENDS Naturals, Sequences, FiniteSets, Functions

CONSTANTS
    Conns,          \* connections, each accepted at most once
    Contexts,       \* thread contexts a request may carry
    FeatureLists,   \* feature lists a request may carry
    PeerRequests,   \* the requests peers may send
    AckBodies,      \* bodies of answers to a register request
    Defects,        \* defects a malformed frame may have
    Tracing,        \* OPENSEARCH_SDK_RS_TRACE is set
    StderrMayBreak, \* the reader of the process's stderr may go away
    AcceptMayFail,  \* the listener may report an error
    PeersMayClose,  \* a peer may close its connection
    PeersMayRepeat  \* a peer may send an answer twice

\* The actions handle_frame dispatches on; every other name is UNKNOWN.
PeerActions == {"TCP_HANDSHAKE", "TRANSPORT_HANDSHAKE", "DISCOVERY_EXTENSIONS",
                "REST_EXECUTE_ON_EXTENSION", "UNKNOWN"}

\* The actions of the requests the host sends.
HostActions == {"REGISTER_REST_ACTIONS", "ENVIRONMENT_SETTINGS"}

\* "panics", "hangs": a REST body that decodes and makes the route's handler
\* panic, or never return.
RequestBodies == {"decodable", "undecodable", "panics", "hangs"}

RequestFrame == [kind: {"request"}, request_id: Nat, action: PeerActions,
                 thread_context: Contexts, features: FeatureLists,
                 body: RequestBodies]

\* handle_response reads the id and the body of an answer, nothing else.
AnswerFrame == [kind: {"answer"}, request_id: Nat, body: AckBodies \cup {"settings"}]

MalformedFrame == [kind: {"malformed"}, defect: Defects]

InboundFrame == RequestFrame \cup AnswerFrame \cup MalformedFrame

ASSUME PeersAssumption ==
    /\ PeerRequests \subseteq RequestFrame
    /\ AckBodies \subseteq {"true", "false", "undecodable"}
    /\ Defects \subseteq {"prefix", "short_length", "long_variable", "cut_variable"}

ASSUME SwitchesAssumption ==
    {Tracing, StderrMayBreak, AcceptMayFail, PeersMayClose, PeersMayRepeat} \subseteq BOOLEAN

\* Frames the host writes: requests of its own and responses to peers.
HostRequest == [kind: {"request"}, request_id: Nat, action: HostActions,
                thread_context: Contexts, features: FeatureLists]

HostResponse == [kind: {"response"}, request_id: Nat, thread_context: Contexts,
                 to: PeerActions]

OutboundFrame == HostRequest \cup HostResponse

\* The continuation kept for a request of the host.
PendingRequest ==
    [kind: {"RegisterRestActions"}, init_request_id: Nat,
     thread_context: Contexts, features: FeatureLists]
    \cup
    [kind: {"EnvironmentSettings"}, init_request_id: Nat, thread_context: Contexts]

Running == {"reading", "handling", "writing"}
Ended == {"closed", "error", "panicked", "killed"}

VARIABLES
    serving,          \* the process has not left serve
    stderrOpen,       \* stderr still has a reader
    poisoned,         \* the mutex around the table is poisoned
    next_request_id,  \* HostState.next_request_id
    pending_requests, \* HostState.pending_requests
    pc,               \* what the thread of each connection does
    outbound,         \* frames its handler returned that are not yet written
    received,         \* number of frames its thread has read
    toHost,           \* frames its peer sent, as they reach the host's socket
    wire,             \* frames the host wrote to it
    peerOpen,         \* its peer has not closed it
    flow              \* history: the init request behind each request of the host

table == <<next_request_id, pending_requests, poisoned>>
process == <<serving, stderrOpen>>
peers == <<toHost, peerOpen>>
vars == <<serving, stderrOpen, poisoned, next_request_id, pending_requests,
          pc, outbound, received, toHost, wire, peerOpen, flow>>

Init ==
    /\ serving = TRUE
    /\ stderrOpen = TRUE
    /\ poisoned = FALSE
    /\ next_request_id = 1
    /\ pending_requests = [k \in {} |-> k]
    /\ pc = [c \in Conns |-> "unopened"]
    /\ outbound = [c \in Conns |-> <<>>]
    /\ received = [c \in Conns |-> 0]
    /\ toHost = [c \in Conns |-> <<>>]
    /\ wire = [c \in Conns |-> <<>>]
    /\ peerOpen = [c \in Conns |-> FALSE]
    /\ flow = [k \in {} |-> k]

-----------------------------------------------------------------------------
(***************************************************************************)
(* The table of pending requests.                                          *)
(*                                                                         *)
(* Definitions named X_Y, here and below, are no part of the model: each   *)
(* is X with a plausible slip of the code in it, and shows that some       *)
(* property notices the slip.                                              *)
(***************************************************************************)

\* Slip: the counter is read and not advanced.
IdAfter_NotAdvanced(id) == id

\* next_request_id returns the counter and leaves it one higher.
IdAfter(id) == id + 1

Insert(entries, id, entry) ==
    [k \in DOMAIN entries \cup {id} |-> IF k = id THEN entry ELSE entries[k]]

\* Slip: the entry is looked up and left in the table.
Remove_LeavesEntry(entries, id) == entries

\* Slip: the whole table is emptied with the entry.
Remove_ClearsTable(entries, id) == Restrict(entries, {})

Remove(entries, id) == Restrict(entries, DOMAIN entries \ {id})

RegisterPending(request) ==
    [kind |-> "RegisterRestActions", init_request_id |-> request.request_id,
     thread_context |-> request.thread_context, features |-> request.features]

\* Slip: the continuation remembers the host's id in place of the init request's.
SettingsPending_WrongId(pending) ==
    [kind |-> "EnvironmentSettings", init_request_id |-> next_request_id,
     thread_context |-> pending.thread_context]

SettingsPending(pending) ==
    [kind |-> "EnvironmentSettings", init_request_id |-> pending.init_request_id,
     thread_context |-> pending.thread_context]

\* Slip: a poisoned mutex is entered all the same.
LockState_IgnoresPoison == TRUE

\* lock_state succeeds.
LockState == ~poisoned

\* Slip: the acknowledgement is not looked at.
Acknowledges_AnyBody(answer) == answer.body \in {"true", "false"}

Acknowledges(answer) == answer.body = "true"

(***************************************************************************)
(* The frames handlers return.                                             *)
(***************************************************************************)

RegisterRequest(id, request) ==
    [kind |-> "request", request_id |-> id, action |-> "REGISTER_REST_ACTIONS",
     thread_context |-> request.thread_context, features |-> request.features]

\* Slip: the settings request carries a default feature list.
SettingsRequest_NoFeatures(id, pending) ==
    [kind |-> "request", request_id |-> id, action |-> "ENVIRONMENT_SETTINGS",
     thread_context |-> pending.thread_context, features |-> ""]

SettingsRequest(id, pending) ==
    [kind |-> "request", request_id |-> id, action |-> "ENVIRONMENT_SETTINGS",
     thread_context |-> pending.thread_context, features |-> pending.features]

InitializeResponse(pending) ==
    [kind |-> "response", request_id |-> pending.init_request_id,
     thread_context |-> pending.thread_context, to |-> "DISCOVERY_EXTENSIONS"]

ResponseTo(request) ==
    [kind |-> "response", request_id |-> request.request_id,
     thread_context |-> request.thread_context, to |-> request.action]

-----------------------------------------------------------------------------
(***************************************************************************)
(* The life of a connection thread: serve and serve_connection.            *)
(***************************************************************************)

\* The frame a handling thread has read last.
Frame(c) == toHost[c][received[c]]

\* eprintln panics when stderr cannot be written.
TraceBreaks == Tracing /\ ~stderrOpen

\* The thread leaves serve_connection; frames it has not written are dropped.
EndThread(c, how) ==
    /\ pc' = [pc EXCEPT ![c] = how]
    /\ outbound' = [outbound EXCEPT ![c] = <<>>]

\* The handler returns: its frames are written before the next read.
Return(c, frames) ==
    /\ pc' = [pc EXCEPT ![c] = IF frames = <<>> THEN "reading" ELSE "writing"]
    /\ outbound' = [outbound EXCEPT ![c] = frames]

Accept(c) ==
    /\ serving
    /\ pc[c] = "unopened"
    /\ pc' = [pc EXCEPT ![c] = "reading"]
    /\ peerOpen' = [peerOpen EXCEPT ![c] = TRUE]
    /\ UNCHANGED <<table, process, outbound, received, toHost, wire, flow>>

\* An error of the listener, or a thread that cannot be spawned, ends serve,
\* main, and every thread with them.
AcceptFails ==
    /\ AcceptMayFail
    /\ serving
    /\ serving' = FALSE
    /\ pc' = [c \in Conns |-> IF pc[c] \in Running THEN "killed" ELSE pc[c]]
    /\ outbound' = [c \in Conns |-> <<>>]
    /\ UNCHANGED <<table, stderrOpen, received, peers, wire, flow>>

\* How reading a malformed frame ends: a bad prefix or an over-long variable
\* header is InvalidData; a length below the fixed header panics; a variable
\* header that decodes off its end is UnexpectedEof, taken for a closed peer.
ReadOutcome(defect) ==
    CASE defect \in {"prefix", "long_variable"} -> "error"
      [] defect = "short_length" -> "panicked"
      [] defect = "cut_variable" -> "closed"

ReadNext(c) ==
    /\ pc[c] = "reading"
    /\ received[c] < Len(toHost[c])
    /\ received' = [received EXCEPT ![c] = @ + 1]
    /\ UNCHANGED <<table, process, outbound, peers, wire, flow>>

ReadFrame(c) ==
    /\ ReadNext(c)
    /\ toHost[c][received[c] + 1].kind # "malformed"
    /\ pc' = [pc EXCEPT ![c] = IF TraceBreaks THEN "panicked" ELSE "handling"]

ReadMalformed(c) ==
    /\ ReadNext(c)
    /\ toHost[c][received[c] + 1].kind = "malformed"
    /\ pc' = [pc EXCEPT ![c] = ReadOutcome(toHost[c][received[c] + 1].defect)]

\* The peer is gone and everything it sent is read.
ReadEnds(c) ==
    /\ pc[c] = "reading"
    /\ received[c] = Len(toHost[c])
    /\ ~peerOpen[c]
    /\ \E how \in {"closed", "error"} : EndThread(c, how)
    /\ UNCHANGED <<table, process, received, peers, wire, flow>>

WriteFrame(c) ==
    /\ pc[c] = "writing"
    /\ ~TraceBreaks
    /\ wire' = [wire EXCEPT ![c] = Append(@, Head(outbound[c]))]
    /\ Return(c, Tail(outbound[c]))
    /\ UNCHANGED <<table, process, received, peers, flow>>

WriteFails(c) ==
    /\ pc[c] = "writing"
    /\ \/ TraceBreaks /\ EndThread(c, "panicked")
       \/ ~TraceBreaks /\ ~peerOpen[c] /\ EndThread(c, "error")
    /\ UNCHANGED <<table, process, received, peers, wire, flow>>

-----------------------------------------------------------------------------
(***************************************************************************)
(* handle_frame for requests.                                              *)
(***************************************************************************)

HandlingRequest(c, action) ==
    /\ pc[c] = "handling"
    /\ Frame(c).kind = "request"
    /\ Frame(c).action = action
    /\ UNCHANGED <<process, received, peers, wire>>

HandleTcpHandshake(c) ==
    /\ HandlingRequest(c, "TCP_HANDSHAKE")
    /\ Return(c, <<ResponseTo(Frame(c))>>)
    /\ UNCHANGED <<table, flow>>

\* Slip: the transport handshake is taken for an action without a handler.
HandleTransportHandshake_NoAnswer(c) ==
    /\ HandlingRequest(c, "TRANSPORT_HANDSHAKE")
    /\ Return(c, <<>>)
    /\ UNCHANGED <<table, flow>>

HandleTransportHandshake(c) ==
    /\ HandlingRequest(c, "TRANSPORT_HANDSHAKE")
    /\ Return(c, <<ResponseTo(Frame(c))>>)
    /\ UNCHANGED <<table, flow>>

\* The body is decoded before the mutex is taken.
HandleInitializeExtension(c) ==
    /\ HandlingRequest(c, "DISCOVERY_EXTENSIONS")
    /\ Frame(c).body = "decodable"
    /\ LockState
    /\ next_request_id' = IdAfter(next_request_id)
    /\ pending_requests' =
          Insert(pending_requests, next_request_id, RegisterPending(Frame(c)))
    /\ flow' = Insert(flow, next_request_id, [conn |-> c, init |-> Frame(c)])
    /\ Return(c, <<RegisterRequest(next_request_id, Frame(c))>>)
    /\ UNCHANGED poisoned

InitializeExtensionFails(c) ==
    /\ HandlingRequest(c, "DISCOVERY_EXTENSIONS")
    /\ Frame(c).body = "undecodable" \/ ~LockState
    /\ EndThread(c, "error")
    /\ UNCHANGED <<table, flow>>

HandleRestExecute(c) ==
    /\ HandlingRequest(c, "REST_EXECUTE_ON_EXTENSION")
    /\ Frame(c).body = "decodable"
    /\ Return(c, <<ResponseTo(Frame(c))>>)
    /\ UNCHANGED <<table, flow>>

\* Slip: the route's handler runs while the mutex is held.
RestExecuteFails_UnderLock(c) ==
    /\ HandlingRequest(c, "REST_EXECUTE_ON_EXTENSION")
    /\ Frame(c).body = "panics"
    /\ poisoned' = TRUE
    /\ EndThread(c, "panicked")
    /\ UNCHANGED <<next_request_id, pending_requests, flow>>

\* The route's handler runs outside the mutex: its panic ends this thread only.
RestExecuteFails(c) ==
    /\ HandlingRequest(c, "REST_EXECUTE_ON_EXTENSION")
    /\ \/ Frame(c).body = "undecodable" /\ EndThread(c, "error")
       \/ Frame(c).body = "panics" /\ EndThread(c, "panicked")
    /\ UNCHANGED <<table, flow>>

\* An action without a handler is dropped without an answer.
IgnoreUnknownAction(c) ==
    /\ HandlingRequest(c, "UNKNOWN")
    /\ Return(c, <<>>)
    /\ UNCHANGED <<table, flow>>

-----------------------------------------------------------------------------
(***************************************************************************)
(* handle_response, one action per way out of it.  The mutex is held from  *)
(* the removal of the entry to the end of the handler.                     *)
(***************************************************************************)

HandlingAnswer(c) ==
    /\ pc[c] = "handling"
    /\ Frame(c).kind = "answer"
    /\ UNCHANGED <<process, received, peers, wire>>

\* The entry of the answered request is taken out of the table.
TakePending(c, kind) ==
    /\ HandlingAnswer(c)
    /\ LockState
    /\ Frame(c).request_id \in DOMAIN pending_requests
    /\ pending_requests[Frame(c).request_id].kind = kind

\* lock_state fails once the mutex is poisoned.
AnswerAfterPoison(c) ==
    /\ HandlingAnswer(c)
    /\ ~LockState
    /\ EndThread(c, "error")
    /\ UNCHANGED <<table, flow>>

\* Nothing waits for this id (any more).
IgnoreUnknownAnswer(c) ==
    /\ HandlingAnswer(c)
    /\ LockState
    /\ Frame(c).request_id \notin DOMAIN pending_requests
    /\ Return(c, <<>>)
    /\ UNCHANGED <<table, flow>>

\* The acknowledgement does not decode: the entry is gone, so is the thread.
AcknowledgementFails(c) ==
    /\ TakePending(c, "RegisterRestActions")
    /\ Frame(c).body = "undecodable"
    /\ pending_requests' = Remove(pending_requests, Frame(c).request_id)
    /\ EndThread(c, "error")
    /\ UNCHANGED <<next_request_id, poisoned, flow>>

\* The trace line under the lock panics: the entry is gone, the mutex poisoned.
TracePoisons(c) ==
    /\ \/ TakePending(c, "RegisterRestActions") /\ Frame(c).body # "undecodable"
       \/ TakePending(c, "EnvironmentSettings")
    /\ TraceBreaks
    /\ pending_requests' = Remove(pending_requests, Frame(c).request_id)
    /\ poisoned' = TRUE
    /\ EndThread(c, "panicked")
    /\ UNCHANGED <<next_request_id, flow>>

\* acknowledged = false: the init request is given up without a word.
RegistrationRefused(c) ==
    /\ TakePending(c, "RegisterRestActions")
    /\ Frame(c).body # "undecodable" /\ ~Acknowledges(Frame(c))
    /\ ~TraceBreaks
    /\ pending_requests' = Remove(pending_requests, Frame(c).request_id)
    /\ Return(c, <<>>)
    /\ UNCHANGED <<next_request_id, poisoned, flow>>

RegistrationAcknowledged(c) ==
    /\ TakePending(c, "RegisterRestActions")
    /\ Acknowledges(Frame(c))
    /\ ~TraceBreaks
    /\ LET answered == Frame(c).request_id
           pending == pending_requests[answered]
       IN /\ pending_requests' = Insert(Remove(pending_requests, answered),
                                        next_request_id, SettingsPending(pending))
          /\ flow' = Insert(flow, next_request_id, flow[answered])
          /\ Return(c, <<SettingsRequest(next_request_id, pending)>>)
    /\ next_request_id' = IdAfter(next_request_id)
    /\ UNCHANGED poisoned

\* Any answer will do: its body is not read and its error flag not consulted.
EnvironmentSettingsReceived(c) ==
    /\ TakePending(c, "EnvironmentSettings")
    /\ ~TraceBreaks
    /\ LET answered == Frame(c).request_id
       IN /\ pending_requests' = Remove(pending_requests, answered)
          /\ Return(c, <<InitializeResponse(pending_requests[answered])>>)
    /\ UNCHANGED <<next_request_id, poisoned, flow>>

-----------------------------------------------------------------------------
(***************************************************************************)
(* The environment: peers and the reader of stderr.                        *)
(***************************************************************************)

Positions(s) == DOMAIN s

\* The peer has sent a request, or an answer, with this id.
HasSent(c, kind, id) ==
    \E i \in Positions(toHost[c]) :
        toHost[c][i].kind = kind /\ toHost[c][i].request_id = id

TimesAnswered(c, id) ==
    Cardinality({i \in Positions(toHost[c]) :
                    toHost[c][i].kind = "answer" /\ toHost[c][i].request_id = id})

\* A frame sent to a thread that has ended is never read.
PeerSends(c, frame) ==
    /\ peerOpen[c]
    /\ pc[c] \in Running
    /\ toHost' = [toHost EXCEPT ![c] = Append(@, frame)]
    /\ UNCHANGED <<table, process, pc, outbound, received, wire, peerOpen, flow>>

PeerRequest(c) ==
    \E request \in PeerRequests :
        /\ ~HasSent(c, "request", request.request_id)
        /\ PeerSends(c, request)

AnswersTo(request) ==
    [kind : {"answer"}, request_id : {request.request_id},
     body : IF request.action = "REGISTER_REST_ACTIONS" THEN AckBodies ELSE {"settings"}]

\* Requests of the host may be answered in any order.
PeerAnswers(c) ==
    \E i \in Positions(wire[c]) :
        /\ wire[c][i].kind = "request"
        /\ ~HasSent(c, "answer", wire[c][i].request_id)
        /\ \E answer \in AnswersTo(wire[c][i]) : PeerSends(c, answer)

PeerRepeats(c) ==
    /\ PeersMayRepeat
    /\ \E i \in Positions(toHost[c]) :
          /\ toHost[c][i].kind = "answer"
          /\ TimesAnswered(c, toHost[c][i].request_id) = 1
          /\ PeerSends(c, toHost[c][i])

PeerSendsMalformed(c) ==
    \E defect \in Defects :
        /\ \A i \in Positions(toHost[c]) : toHost[c][i].kind # "malformed"
        /\ PeerSends(c, [kind |-> "malformed", defect |-> defect])

\* Closing may discard what the host has not read yet.
PeerCloses(c) ==
    /\ PeersMayClose
    /\ peerOpen[c]
    /\ pc[c] \in Running
    /\ peerOpen' = [peerOpen EXCEPT ![c] = FALSE]
    /\ \E n \in received[c]..Len(toHost[c]) :
          toHost' = [toHost EXCEPT ![c] = SubSeq(@, 1, n)]
    /\ UNCHANGED <<table, process, pc, outbound, received, wire, flow>>

StderrBreaks ==
    /\ StderrMayBreak
    /\ stderrOpen
    /\ stderrOpen' = FALSE
    /\ UNCHANGED <<table, serving, pc, outbound, received, peers, wire, flow>>

HandleRequest(c) ==
    \/ HandleTcpHandshake(c)
    \/ HandleTransportHandshake(c)
    \/ HandleInitializeExtension(c) \/ InitializeExtensionFails(c)
    \/ HandleRestExecute(c) \/ RestExecuteFails(c)
    \/ IgnoreUnknownAction(c)

HandleAnswer(c) ==
    \/ AnswerAfterPoison(c)
    \/ IgnoreUnknownAnswer(c)
    \/ AcknowledgementFails(c)
    \/ TracePoisons(c)
    \/ RegistrationRefused(c)
    \/ RegistrationAcknowledged(c)
    \/ EnvironmentSettingsReceived(c)

\* One step of the thread that serves connection c.
ThreadStep(c) ==
    \/ ReadFrame(c) \/ ReadMalformed(c) \/ ReadEnds(c)
    \/ HandleRequest(c) \/ HandleAnswer(c)
    \/ WriteFrame(c) \/ WriteFails(c)

PeerStep(c) ==
    PeerRequest(c) \/ PeerAnswers(c) \/ PeerRepeats(c) \/ PeerSendsMalformed(c) \/ PeerCloses(c)

Next ==
    \/ \E c \in Conns : Accept(c) \/ ThreadStep(c) \/ PeerStep(c)
    \/ AcceptFails
    \/ StderrBreaks

Spec == Init /\ [][Next]_vars

\* Running threads are scheduled, and a peer answers what it was asked.
Fairness ==
    \A c \in Conns : WF_vars(ThreadStep(c)) /\ WF_vars(PeerAnswers(c))

FairSpec == Spec /\ Fairness

-----------------------------------------------------------------------------
(***************************************************************************)
(* Properties.                                                             *)
(***************************************************************************)

\* Everything handlers of connection c returned, in order; after a thread has
\* ended, what it had written.
HostFrames(c) == wire[c] \o outbound[c]

TableOK ==
    /\ poisoned \in BOOLEAN
    /\ next_request_id \in Nat \ {0}
    /\ DOMAIN flow = 1..(next_request_id - 1)
    /\ flow \in [DOMAIN flow -> [conn: Conns, init: RequestFrame]]
    /\ DOMAIN pending_requests \subseteq DOMAIN flow
    /\ pending_requests \in [DOMAIN pending_requests -> PendingRequest]

ThreadsOK ==
    /\ pc \in [Conns -> {"unopened"} \cup Running \cup Ended]
    /\ outbound \in [Conns -> Seq(OutboundFrame)]
    /\ received \in [Conns -> Nat]

ChannelsOK ==
    /\ toHost \in [Conns -> Seq(InboundFrame)]
    /\ \A c \in Conns : received[c] <= Len(toHost[c])
    /\ wire \in [Conns -> Seq(OutboundFrame)]
    /\ peerOpen \in [Conns -> BOOLEAN]

\* The type of every variable.  The counter is above every id that was ever
\* allocated, the table knows only allocated ids, and no thread reads beyond
\* what its peer has sent.
TypeOK ==
    /\ serving \in BOOLEAN /\ stderrOpen \in BOOLEAN
    /\ TableOK
    /\ ThreadsOK
    /\ ChannelsOK

\* No two requests of the host, on whatever connections, have the same id
\* (next_request_id is shared by all connection threads).
RequestIdsUnique ==
    \A c, d \in Conns :
        \A i \in Positions(HostFrames(c)), j \in Positions(HostFrames(d)) :
            LET f == HostFrames(c)[i]
                g == HostFrames(d)[j]
            IN  f.kind = "request" /\ g.kind = "request" /\ f.request_id = g.request_id
                => c = d /\ i = j

Continuation(action) ==
    IF action = "REGISTER_REST_ACTIONS" THEN "RegisterRestActions" ELSE "EnvironmentSettings"

\* The thread of c is done with the i-th frame its peer sent.
DoneWith(c, i) == i < received[c] \/ (i = received[c] /\ pc[c] # "handling")

\* The answer to a request of the host finds its continuation in the table,
\* however early it comes: the entry is there before the request is written
\* and stays until an answer to it has been handled.
PendingCoversRequests ==
    \A c \in Conns : \A i \in Positions(HostFrames(c)) :
        LET f == HostFrames(c)[i]
        IN  \/ f.kind # "request"
            \/ \E j \in Positions(toHost[c]) :
                  /\ DoneWith(c, j)
                  /\ toHost[c][j].kind = "answer"
                  /\ toHost[c][j].request_id = f.request_id
            \/ /\ f.request_id \in DOMAIN pending_requests
               /\ pending_requests[f.request_id].kind = Continuation(f.action)

\* A response goes to the connection that asked, under the id and the thread
\* context of the request it answers, although the continuation of an init
\* request sits in a table shared by all connections and keyed by other ids.
ResponsesMatchRequests ==
    \A c \in Conns : \A i \in Positions(HostFrames(c)) :
        HostFrames(c)[i].kind = "response" =>
            \E j \in 1..received[c] :
                /\ toHost[c][j].kind = "request"
                /\ HostFrames(c)[i] = ResponseTo(toHost[c][j])

\* A request of the host goes to the connection of the init request behind it
\* and carries that request's thread context and features.
HostRequestsCarryInit ==
    \A c \in Conns : \A i \in Positions(HostFrames(c)) :
        LET f == HostFrames(c)[i]
        IN  f.kind = "request" =>
                \E j \in 1..received[c] :
                    /\ toHost[c][j] = flow[f.request_id].init
                    /\ f.thread_context = toHost[c][j].thread_context
                    /\ f.features = toHost[c][j].features

\* A peer's request is answered at most once, also when the peer repeats its
\* own answers.
AtMostOneResponse ==
    \A c \in Conns : \A i, j \in Positions(HostFrames(c)) :
        /\ HostFrames(c)[i].kind = "response"
        /\ HostFrames(c)[j].kind = "response"
        /\ HostFrames(c)[i].request_id = HostFrames(c)[j].request_id
        => i = j

\* The peer of c has answered request id with body, and the answer was read.
AnswerRead(c, id, body) ==
    \E j \in 1..received[c] :
        toHost[c][j] = [kind |-> "answer", request_id |-> id, body |-> body]

\* On c, an earlier frame than the i-th is a request of the host for the same
\* init request, with that action, and its answer with that body was read.
Preceded(c, i, init, action, body) ==
    \E h \in 1..(i - 1) :
        LET f == HostFrames(c)[h]
        IN  /\ f.kind = "request"
            /\ f.action = action
            /\ flow[f.request_id].init = init
            /\ AnswerRead(c, f.request_id, body)

\* The order of the init flow on the wire: settings are asked for only after
\* the registration was acknowledged as true, and the init request is answered
\* only after the settings came.
InitSequence ==
    \A c \in Conns : \A i \in Positions(HostFrames(c)) :
        LET f == HostFrames(c)[i]
        IN  /\ f.kind = "request" /\ f.action = "ENVIRONMENT_SETTINGS" =>
                  Preceded(c, i, flow[f.request_id].init, "REGISTER_REST_ACTIONS", "true")
            /\ f.kind = "response" /\ f.to = "DISCOVERY_EXTENSIONS" =>
                  \E j \in 1..received[c] :
                      /\ toHost[c][j].kind = "request"
                      /\ toHost[c][j].request_id = f.request_id
                      /\ Preceded(c, i, toHost[c][j], "ENVIRONMENT_SETTINGS", "settings")

\* Requests a handler answers by itself.
Immediate == {"TCP_HANDSHAKE", "TRANSPORT_HANDSHAKE", "REST_EXECUTE_ON_EXTENSION"}

\* The frame f for c responds by itself to the j-th frame its peer sent.
Replies(c, f, j) ==
    /\ toHost[c][j].kind = "request"
    /\ toHost[c][j].action \in Immediate
    /\ f = ResponseTo(toHost[c][j])

\* A thread that waits for the next frame has answered every handshake and
\* REST request it has read; there are no other such answers, and they stand in
\* the order of the requests, each once.
RepliesInOrder ==
    \A c \in Conns :
        /\ pc[c] = "reading" =>
              \A j \in 1..received[c] :
                  toHost[c][j].kind = "request" /\ toHost[c][j].action \in Immediate =>
                      \E i \in Positions(wire[c]) : Replies(c, wire[c][i], j)
        /\ \A i \in Positions(wire[c]) :
              wire[c][i].kind = "response" /\ wire[c][i].to \in Immediate =>
                  \E j \in 1..received[c] : Replies(c, wire[c][i], j)
        /\ \A h, i \in Positions(wire[c]), j, k \in 1..received[c] :
              h < i /\ Replies(c, wire[c][h], j) /\ Replies(c, wire[c][i], k) => j < k

\* An init request has at most one continuation, and none once it is answered.
OneContinuation ==
    \A k \in DOMAIN pending_requests :
        /\ \A l \in DOMAIN pending_requests : flow[k] = flow[l] => k = l
        /\ \A i \in Positions(HostFrames(flow[k].conn)) :
              HostFrames(flow[k].conn)[i] # InitializeResponse(pending_requests[k])

\* Only a trace line can poison the table: a panic of a route's handler or of
\* the frame reader ends its own connection and leaves the table to the others.
PoisonNeedsTrace == poisoned => TraceBreaks

\* Nobody touches the table once it is poisoned.
PoisonFreezesTable ==
    [][poisoned => UNCHANGED <<next_request_id, pending_requests>>]_vars

(***************************************************************************)
(* The abstract specification InitFlow and the mapping to it.              *)
(***************************************************************************)

\* Init requests that may reach the host, and their ids.
InitIds == {request.request_id :
               request \in {r \in PeerRequests : r.action = "DISCOVERY_EXTENSIONS"}}

\* The continuations waiting for the init request id of c.
Waiting(c, id) ==
    {k \in DOMAIN pending_requests :
        flow[k].conn = c /\ pending_requests[k].init_request_id = id}

IsInitResponse(f, id) ==
    f.kind = "response" /\ f.to = "DISCOVERY_EXTENSIONS" /\ f.request_id = id

\* A response to the init request id is among these frames.
HasInitResponse(frames, id) == \E i \in Positions(frames) : IsInitResponse(frames[i], id)

WaitsFor(c, id, kind) == \E k \in Waiting(c, id) : pending_requests[k].kind = kind

\* An id was drawn for the init request id of c.
Known(c, id) == \E k \in DOMAIN flow : flow[k].conn = c /\ flow[k].init.request_id = id

FlowStatus(c, id) ==
    IF HasInitResponse(wire[c], id) THEN "answered"
    ELSE IF pc[c] \in Ended THEN "abandoned"
    ELSE IF HasInitResponse(outbound[c], id) THEN "replying"
    ELSE IF WaitsFor(c, id, "RegisterRestActions") THEN "registering"
    ELSE IF WaitsFor(c, id, "EnvironmentSettings") THEN "configuring"
    ELSE IF Known(c, id) THEN "refused"
    ELSE "idle"

Promise == INSTANCE InitFlow
    WITH status <- [f \in Conns \X InitIds |-> FlowStatus(f[1], f[2])]

\* The host keeps the promise of InitFlow: no step of any thread moves the init
\* request of another connection, skips a stage, or revives one given up.
ImplementsInitFlow == Promise!Spec

-----------------------------------------------------------------------------
Refused(c, id) ==
    \E k \in DOMAIN flow :
        /\ flow[k].conn = c
        /\ flow[k].init.request_id = id
        /\ AnswerRead(c, k, "false")

Responded(c, request) ==
    \E i \in Positions(wire[c]) : wire[c][i] = ResponseTo(request)

\* Every request with a handler is answered, unless its connection ends or, for
\* an init request, the registration of the REST actions is refused.
RequestsSettle ==
    \A c \in Conns, request \in PeerRequests :
        request.action # "UNKNOWN" =>
            ((\E i \in Positions(toHost[c]) : toHost[c][i] = request)
                ~> (\/ Responded(c, request)
                    \/ pc[c] \in Ended
                    \/ Refused(c, request.request_id)))

\* A continuation does not stay in the table while its connection lives: every
\* answer that is handled takes the entry it belongs to.  What an ended
\* connection leaves behind stays.
PendingDrains ==
    \A c \in Conns, id \in InitIds :
        (Waiting(c, id) # {}) ~> (Waiting(c, id) = {} \/ pc[c] \in Ended)

\* What DEVELOPMENT_NOTES.md promises of handlers: every request that has one
\* gets a response under its id while its connection lives.  A refused
\* registration breaks it: nothing is ever written for that init request.
HandlersRespond ==
    \A c \in Conns, request \in PeerRequests :
        request.action # "UNKNOWN" =>
            ((\E i \in Positions(toHost[c]) : toHost[c][i] = request)
                ~> (Responded(c, request) \/ pc[c] \in Ended))

=============================================================================
