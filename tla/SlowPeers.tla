------------------------------ MODULE SlowPeers ------------------------------
(***************************************************************************)
(* HostLock with buffers of finite size between the host and its peers.  A *)
(* thread that writes a frame waits until there is room for it; a peer     *)
(* answers only what it has taken from its buffer.                         *)
(*                                                                         *)
(* Nothing in the crate bounds these waits: no write has a timeout, and    *)
(* neither has a route's handler.  On a troubled connection the peer may   *)
(* stop reading for good and a handler may never return.  The module shows *)
(* that this stays within the connection.                                  *)
(***************************************************************************)
EXTENDS HostLock

CONSTANTS
    Capacity, \* frames the buffers of a connection hold
    Troubled  \* connections whose peer or whose handlers may hang

ASSUME CapacityAssumption == Capacity \in Nat \ {0}
ASSUME TroubledAssumption == Troubled \subseteq Conns

VARIABLE taken \* frames the peer of a connection has taken from its buffer

SlowInit == LockInit /\ taken = [c \in Conns |-> 0]

Room(c) == Len(wire[c]) - taken[c] < Capacity

\* write_to returns when the frame is in the buffer.
SlowThread(c) ==
    /\ LockStep(c) \/ Elsewhere(c)
    /\ wire'[c] # wire[c] => Room(c)
    /\ UNCHANGED taken

PeerTakes(c) ==
    /\ peerOpen[c]
    /\ taken[c] < Len(wire[c])
    /\ taken' = [taken EXCEPT ![c] = @ + 1]
    /\ UNCHANGED <<vars, fine>>

\* What a peer can send: answers to requests it has taken, and no request that
\* hangs unless the connection is troubled.
Possible(c, frame) ==
    /\ frame.kind = "answer" =>
          \E i \in 1..taken[c] :
              wire[c][i].kind = "request" /\ wire[c][i].request_id = frame.request_id
    /\ frame.kind = "request" /\ frame.body = "hangs" => c \in Troubled

SlowPeer(c) ==
    /\ PeerStep(c)
    /\ \A i \in (Len(toHost[c]) + 1)..Len(toHost'[c]) : Possible(c, toHost'[c][i])
    /\ UNCHANGED <<fine, taken>>

\* Accepting, and what befalls the process.
SlowProcess ==
    /\ (\E c \in Conns : Accept(c)) \/ AcceptFails \/ StderrBreaks
    /\ UNCHANGED <<fine, taken>>

SlowNext == (\E c \in Conns : SlowThread(c) \/ PeerTakes(c) \/ SlowPeer(c)) \/ SlowProcess

all == <<vars, fine, taken>>

\* Threads that can run are scheduled; a peer without trouble reads and answers.
SlowSpec ==
    /\ SlowInit /\ [][SlowNext]_all
    /\ \A c \in Conns : WF_all(SlowThread(c))
    /\ \A c \in Conns \ Troubled :
          WF_all(PeerTakes(c)) /\ WF_all(SlowPeer(c) /\ PeerAnswers(c))

-----------------------------------------------------------------------------
\* Requests on a connection without trouble are settled although the threads of
\* others wait for ever, to write or for a handler to return: nobody waits for
\* a peer or runs a handler while it holds the lock.
TroubleStaysHome ==
    \A c \in Conns \ Troubled, request \in PeerRequests :
        request.action # "UNKNOWN" =>
            ((\E i \in Positions(toHost[c]) : toHost[c][i] = request)
                ~> (\/ Responded(c, request)
                    \/ pc[c] \in Ended
                    \/ Refused(c, request.request_id)))

=============================================================================
