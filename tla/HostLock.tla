------------------------------ MODULE HostLock ------------------------------
(***************************************************************************)
(* ExtensionHost with the mutex around HostState in full: a handler that   *)
(* needs the table waits for the lock, and takes the entry, prints its     *)
(* trace line, draws an id, stores the next entry and returns in steps     *)
(* between which other threads run.  The lock is given back when the guard *)
(* is dropped: at every return and, poisoned, by a panic.                  *)
(*                                                                         *)
(* The module shows that ExtensionHost may treat a handler as one step.    *)
(***************************************************************************)
EXTENDS ExtensionHost

\* No connection is taken for the absence of one.
ASSUME HolderAssumption == "none" \notin Conns

VARIABLES
    holder, \* the connection whose thread holds the lock, or "none"
    at,     \* how far the handler of a connection is with the lock
    entry,  \* the entry it has taken, in one-element sequences
    drawn   \* the id it has drawn

fine == <<holder, at, entry, drawn>>

LockInit ==
    /\ Init
    /\ holder = "none"
    /\ at = [c \in Conns |-> "outside"]
    /\ entry = [c \in Conns |-> <<>>]
    /\ drawn = [c \in Conns |-> 0]

\* The thread runs a handler that takes the lock, after decoding what it must.
NeedsLock(c) ==
    /\ pc[c] = "handling"
    /\ \/ Frame(c).kind = "answer"
       \/ /\ Frame(c).kind = "request"
          /\ Frame(c).action = "DISCOVERY_EXTENSIONS"
          /\ Frame(c).body = "decodable"

\* Where the handler is; it goes on to next and leaves its connection alone.
Goes(c, now, next) ==
    /\ pc[c] = "handling"
    /\ at[c] = now
    /\ at' = [at EXCEPT ![c] = next]
    /\ UNCHANGED <<process, poisoned, pc, outbound, received, peers, wire>>

\* The handler is left at this point, and the guard is dropped.
Drops(c, now) ==
    /\ pc[c] = "handling"
    /\ at[c] = now
    /\ holder' = "none"
    /\ at' = [at EXCEPT ![c] = "outside"]
    /\ UNCHANGED <<process, received, peers, wire, next_request_id, pending_requests, flow,
                   entry, drawn>>

\* Slip: the guard lives until the frames of its handler are written.
Lock_WaitsForWriters(c) ==
    /\ NeedsLock(c)
    /\ holder = "none" /\ \A d \in Conns : pc[d] # "writing"
    /\ LockState
    /\ Goes(c, "outside", "locked")
    /\ holder' = c
    /\ UNCHANGED <<next_request_id, pending_requests, flow, entry, drawn>>

Lock(c) ==
    /\ NeedsLock(c)
    /\ holder = "none"
    /\ LockState
    /\ Goes(c, "outside", "locked")
    /\ holder' = c
    /\ UNCHANGED <<next_request_id, pending_requests, flow, entry, drawn>>

\* A poisoned mutex is waited for all the same; then lock_state is an error.
LockFails(c) ==
    /\ NeedsLock(c)
    /\ holder = "none"
    /\ ~LockState
    /\ EndThread(c, "error")
    /\ UNCHANGED <<table, process, received, peers, wire, flow, fine>>

Answered(c) == Frame(c).request_id

\* Slip: the guard is a temporary, and the lock is free after the removal.
Take_Unlocks(c) ==
    /\ Goes(c, "locked", "taken")
    /\ Frame(c).kind = "answer"
    /\ Answered(c) \in DOMAIN pending_requests
    /\ entry' = [entry EXCEPT ![c] = <<pending_requests[Answered(c)]>>]
    /\ pending_requests' = Remove(pending_requests, Answered(c))
    /\ holder' = "none"
    /\ UNCHANGED <<next_request_id, flow, drawn>>

Take(c) ==
    /\ Goes(c, "locked", "taken")
    /\ Frame(c).kind = "answer"
    /\ Answered(c) \in DOMAIN pending_requests
    /\ entry' = [entry EXCEPT ![c] = <<pending_requests[Answered(c)]>>]
    /\ pending_requests' = Remove(pending_requests, Answered(c))
    /\ UNCHANGED <<next_request_id, flow, holder, drawn>>

NothingToTake(c) ==
    /\ Drops(c, "locked")
    /\ Frame(c).kind = "answer"
    /\ Answered(c) \notin DOMAIN pending_requests
    /\ Return(c, <<>>)
    /\ UNCHANGED poisoned

Registering(c) == entry[c][1].kind = "RegisterRestActions"

\* Slip: the error is returned past a guard that was leaked.
Undecodable_KeepsLock(c) ==
    /\ pc[c] = "handling" /\ at[c] = "taken"
    /\ Registering(c) /\ Frame(c).body = "undecodable"
    /\ EndThread(c, "error")
    /\ UNCHANGED <<table, process, received, peers, wire, flow, fine>>

Undecodable(c) ==
    /\ Drops(c, "taken")
    /\ Registering(c) /\ Frame(c).body = "undecodable"
    /\ EndThread(c, "error")
    /\ UNCHANGED poisoned

\* Either trace line; unwinding drops the guard, which poisons the mutex.
TracePanics(c) ==
    /\ Drops(c, "taken")
    /\ ~(Registering(c) /\ Frame(c).body = "undecodable")
    /\ TraceBreaks
    /\ EndThread(c, "panicked")
    /\ poisoned' = TRUE

Trace(c) ==
    /\ Goes(c, "taken", "traced")
    /\ ~(Registering(c) /\ Frame(c).body = "undecodable")
    /\ ~TraceBreaks
    /\ UNCHANGED <<next_request_id, pending_requests, flow, holder, entry, drawn>>

\* The handler will send another request: for an init request, and for an
\* acknowledged registration.
Draws(c) ==
    \/ Frame(c).kind = "request"
    \/ Frame(c).kind = "answer" /\ Registering(c) /\ Acknowledges(Frame(c))

Draw(c) ==
    /\ \/ Goes(c, "locked", "drawn") /\ Frame(c).kind = "request"
       \/ Goes(c, "traced", "drawn") /\ Draws(c)
    /\ drawn' = [drawn EXCEPT ![c] = next_request_id]
    /\ next_request_id' = IdAfter(next_request_id)
    /\ UNCHANGED <<pending_requests, flow, holder, entry>>

Stored(c) ==
    IF Frame(c).kind = "request" THEN RegisterPending(Frame(c)) ELSE SettingsPending(entry[c][1])

Origin(c) ==
    IF Frame(c).kind = "request" THEN [conn |-> c, init |-> Frame(c)] ELSE flow[Answered(c)]

Store(c) ==
    /\ Goes(c, "drawn", "stored")
    /\ pending_requests' = Insert(pending_requests, drawn[c], Stored(c))
    /\ flow' = Insert(flow, drawn[c], Origin(c))
    /\ UNCHANGED <<next_request_id, holder, entry, drawn>>

\* What the handler returns, with the id it has drawn or will draw.
Returned(c, id) ==
    CASE Frame(c).kind = "request" -> <<RegisterRequest(id, Frame(c))>>
      [] Frame(c).kind = "answer" /\ Draws(c) -> <<SettingsRequest(id, entry[c][1])>>
      [] Frame(c).kind = "answer" /\ Registering(c) /\ ~Draws(c) -> <<>>
      [] Frame(c).kind = "answer" /\ ~Registering(c) -> <<InitializeResponse(entry[c][1])>>

Leave(c) ==
    /\ \/ Drops(c, "stored")
       \/ Drops(c, "traced") /\ ~Draws(c)
    /\ Return(c, Returned(c, drawn[c]))
    /\ UNCHANGED poisoned

LockStep(c) ==
    \/ Lock(c) \/ LockFails(c)
    \/ Take(c) \/ NothingToTake(c) \/ Undecodable(c)
    \/ TracePanics(c) \/ Trace(c)
    \/ Draw(c) \/ Store(c) \/ Leave(c)

\* The body of an init request is decoded before the lock is taken.
InitUndecodable(c) ==
    /\ pc[c] = "handling"
    /\ Frame(c).body = "undecodable"
    /\ InitializeExtensionFails(c)

\* Steps of ExtensionHost that do not touch the table.
Elsewhere(c) ==
    /\ \/ ReadFrame(c) \/ ReadMalformed(c) \/ ReadEnds(c)
       \/ HandleTcpHandshake(c) \/ HandleTransportHandshake(c)
       \/ HandleRestExecute(c) \/ RestExecuteFails(c) \/ IgnoreUnknownAction(c)
       \/ InitUndecodable(c)
       \/ WriteFrame(c) \/ WriteFails(c)
    /\ UNCHANGED fine

Environment ==
    /\ \/ \E c \in Conns : Accept(c) \/ PeerStep(c)
       \/ AcceptFails
       \/ StderrBreaks
    /\ UNCHANGED fine

LockNext == (\E c \in Conns : LockStep(c) \/ Elsewhere(c)) \/ Environment

LockSpec == LockInit /\ [][LockNext]_<<vars, fine>>

\* A thread that runs or can have the lock is scheduled.
FairLockSpec ==
    LockSpec /\ \A c \in Conns : WF_<<vars, fine>>(LockStep(c) \/ Elsewhere(c))

-----------------------------------------------------------------------------
(***************************************************************************)
(* A handler takes effect where its outcome is decided: when it has        *)
(* printed its trace line, or drawn the id for a registration.  From there *)
(* on the table, and what its thread does next, are those after it; up to  *)
(* there an entry it has taken is still in the table.                      *)
(***************************************************************************)

Decided(c) == at[c] \in {"traced", "drawn", "stored"}

AtomicId ==
    IF \E c \in Conns : at[c] = "traced" /\ Draws(c) THEN next_request_id + 1 ELSE next_request_id

\* The id of a decided handler.
IdOf(c) == IF at[c] = "traced" THEN next_request_id ELSE drawn[c]

Pending(c) == at[c] \in {"traced", "drawn"} /\ Draws(c)

AtomicPending ==
    CASE \E c \in Conns : at[c] = "taken" ->
            LET c == CHOOSE c \in Conns : at[c] = "taken"
            IN  Insert(pending_requests, Answered(c), entry[c][1])
      [] \E c \in Conns : Pending(c) ->
            LET c == CHOOSE c \in Conns : Pending(c)
            IN  Insert(pending_requests, IdOf(c), Stored(c))
      [] OTHER -> pending_requests

AtomicFlow ==
    IF \E c \in Conns : Pending(c)
    THEN LET c == CHOOSE c \in Conns : Pending(c) IN Insert(flow, IdOf(c), Origin(c))
    ELSE flow

AtomicOutbound ==
    [c \in Conns |->
        IF pc[c] = "handling" /\ Decided(c) THEN Returned(c, IdOf(c)) ELSE outbound[c]]

AtomicPc ==
    [c \in Conns |->
        IF pc[c] = "handling" /\ Decided(c)
        THEN IF AtomicOutbound[c] = <<>> THEN "reading" ELSE "writing"
        ELSE pc[c]]

Atomic == INSTANCE ExtensionHost
    WITH next_request_id <- AtomicId, pending_requests <- AtomicPending, flow <- AtomicFlow,
         outbound <- AtomicOutbound, pc <- AtomicPc

\* With the lock as the code takes it, no thread sees the table between two
\* steps of another thread's handler, whatever happens under the lock: the
\* host behaves as ExtensionHost, in which handlers are single steps.
HandlersAreAtomic == Atomic!Spec

\* A thread that waits for the lock gets past it, or the process ends: every
\* way out of a handler, errors and panics included, gives the lock back.
WaitersProceed ==
    \A c \in Conns :
        NeedsLock(c) /\ at[c] = "outside" ~> pc[c] # "handling" \/ at[c] # "outside"

=============================================================================
