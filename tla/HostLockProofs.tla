---------------------------- MODULE HostLockProofs ----------------------------
(***************************************************************************)
(* HostLock implements ExtensionHost, for any number of connections: under *)
(* the mutex as the code takes it, a handler of several steps is to        *)
(* everyone else a single one.                                             *)
(*                                                                         *)
(* The proof rests on mutual exclusion, and on what the handler that has   *)
(* the lock knows at each point.  The step that decides a handler's        *)
(* outcome maps to the handler of ExtensionHost; all other steps under the *)
(* lock map to stutters.                                                   *)
(***************************************************************************)
EXTENDS HostLock, TLAPS

-----------------------------------------------------------------------------
(* The table. *)

IsTable(t) == t = [k \in DOMAIN t |-> t[k]]

\* An entry that is put back is where it was.
LEMMA InsertRemoved ==
    ASSUME NEW t, IsTable(t), NEW id \in DOMAIN t PROVE Insert(Remove(t, id), id, t[id]) = t
<1> DEFINE u == Insert(Remove(t, id), id, t[id])
<1>1. DOMAIN u = DOMAIN t
  BY DEF Insert, Remove, Restrict
<1>2. \A k \in DOMAIN t : u[k] = t[k]
  BY DEF Insert, Remove, Restrict
<1>3. IsTable(u)
  BY DEF IsTable, Insert
<1> QED
  BY <1>1, <1>2, <1>3 DEF IsTable

\* An entry that was not there is taken out again without a trace.
LEMMA RemoveInserted ==
    ASSUME NEW t, IsTable(t), NEW id, NEW e, id \notin DOMAIN t
    PROVE  Remove(Insert(t, id, e), id) = t
<1> DEFINE u == Remove(Insert(t, id, e), id)
<1>1. DOMAIN u = DOMAIN t
  BY DEF Insert, Remove, Restrict
<1>2. \A k \in DOMAIN t : u[k] = t[k]
  BY DEF Insert, Remove, Restrict
<1>3. IsTable(u)
  BY DEF IsTable, Remove, Restrict
<1> QED
  BY <1>1, <1>2, <1>3 DEF IsTable

Kinds == {"RegisterRestActions", "EnvironmentSettings"}

LEMMA KindsInserted ==
    ASSUME NEW t, \A k \in DOMAIN t : t[k].kind \in Kinds, NEW id, NEW e, e.kind \in Kinds
    PROVE  /\ IsTable(Insert(t, id, e))
           /\ \A k \in DOMAIN Insert(t, id, e) : Insert(t, id, e)[k].kind \in Kinds
BY DEF IsTable, Insert

LEMMA KindsRemoved ==
    ASSUME NEW t, \A k \in DOMAIN t : t[k].kind \in Kinds, NEW id
    PROVE  /\ IsTable(Remove(t, id))
           /\ id \notin DOMAIN Remove(t, id)
           /\ \A k \in DOMAIN Remove(t, id) : Remove(t, id)[k].kind \in Kinds
BY DEF IsTable, Remove, Restrict

-----------------------------------------------------------------------------
(* Frames. *)

IsList(s) == Len(s) \in Nat /\ DOMAIN s = 1..Len(s)

LEMMA ListAppend ==
    ASSUME NEW s, IsList(s), NEW f
    PROVE  /\ IsList(Append(s, f))
           /\ Len(Append(s, f)) = Len(s) + 1
           /\ \A i \in 1..Len(s) : Append(s, f)[i] = s[i]
BY DEF IsList

LEMMA ListCut ==
    ASSUME NEW s, IsList(s), NEW n \in 0..Len(s)
    PROVE  /\ IsList(SubSeq(s, 1, n))
           /\ Len(SubSeq(s, 1, n)) = n
           /\ \A i \in 1..n : SubSeq(s, 1, n)[i] = s[i]
BY DEF IsList

-----------------------------------------------------------------------------
(***************************************************************************)
(* The invariant.  Points are the places of a handler under the lock.      *)
(***************************************************************************)

Points == {"outside", "locked", "taken", "traced", "drawn", "stored"}

\* What is known of the variables as functions.
Shape ==
    /\ DOMAIN pc = Conns /\ DOMAIN outbound = Conns
    /\ DOMAIN at = Conns /\ DOMAIN entry = Conns /\ DOMAIN drawn = Conns
    /\ received \in [Conns -> Nat]
    /\ DOMAIN toHost = Conns /\ \A c \in Conns : IsList(toHost[c])
    /\ IsTable(pending_requests)
    /\ \A k \in DOMAIN pending_requests : pending_requests[k].kind \in Kinds

HasFrame(c) == received[c] \in 1..Len(toHost[c])

AsksForInit(frame) ==
    frame.kind = "request" /\ frame.action = "DISCOVERY_EXTENSIONS" /\ frame.body = "decodable"

\* Between lock and return a handler has the lock, for itself and unpoisoned, a
\* frame that needs it, and from the removal on the only copy of an entry.  A
\* process that ends may stop it there for good.
HandlerInv(c) ==
    /\ at[c] \in Points
    /\ pc[c] = "handling" => HasFrame(c)
    /\ at[c] # "outside" =>
          /\ holder = c
          /\ pc[c] \in {"handling", "killed"}
          /\ HasFrame(c)
          /\ ~poisoned
          /\ Frame(c).kind = "answer" \/ AsksForInit(Frame(c))
    /\ at[c] \in {"taken", "traced"} =>
          /\ Frame(c).kind = "answer"
          /\ Answered(c) \notin DOMAIN pending_requests
          /\ entry[c][1].kind \in Kinds
    /\ at[c] \in {"drawn", "stored"} => Draws(c)

LockInv == Shape /\ \A c \in Conns : HandlerInv(c)

LEMMA LockInitInv == LockInit => LockInv
BY DEF LockInit, Init, LockInv, Shape, HandlerInv, IsTable, IsList, Points

\* Mutual exclusion.
LEMMA LockedAlone ==
    ASSUME LockInv, NEW c \in Conns, at[c] # "outside"
    PROVE  \A d \in Conns \ {c} : at[d] = "outside"
BY DEF LockInv, HandlerInv

LEMMA LockFree ==
    ASSUME LockInv, holder = "none" PROVE \A d \in Conns : at[d] = "outside"
BY HolderAssumption DEF LockInv, HandlerInv

\* A step of the thread that gets, has or gives back the lock leaves the others
\* outside.
LEMMA HolderStep ==
    ASSUME LockInv, NEW c \in Conns,
           \A d \in Conns \ {c} : at[d] = "outside" /\ at'[d] = "outside" /\ pc'[d] = pc[d],
           UNCHANGED <<received, toHost>>,
           Shape', HandlerInv(c)'
    PROVE  LockInv'
<1> SUFFICES ASSUME NEW d \in Conns PROVE HandlerInv(d)'
  BY DEF LockInv
<1>1. CASE d = c
  BY <1>1
<1>2. CASE d # c
  BY <1>2 DEF LockInv, HandlerInv, HasFrame, Points
<1> QED
  BY <1>1, <1>2

\* A step that leaves the lock alone, and the frame of the handler that has it.
LEMMA OtherStep ==
    ASSUME LockInv, Shape',
           UNCHANGED <<poisoned, pending_requests, fine>>,
           \A d \in Conns :
              /\ pc'[d] = "handling" => HasFrame(d)'
              /\ at[d] # "outside" =>
                    /\ pc'[d] \in {"handling", "killed"}
                    /\ HasFrame(d)'
                    /\ Frame(d)' = Frame(d)
    PROVE  LockInv'
<1> SUFFICES ASSUME NEW d \in Conns PROVE HandlerInv(d)'
  BY DEF LockInv
<1>1. HandlerInv(d) /\ at' = at /\ entry' = entry /\ holder' = holder
  BY DEF LockInv, fine
<1>2. CASE at[d] = "outside"
  BY <1>1, <1>2 DEF HandlerInv, Points
<1>3. CASE at[d] # "outside"
  BY <1>1, <1>3 DEF HandlerInv, Answered, Draws, Registering
<1> QED
  BY <1>2, <1>3

-----------------------------------------------------------------------------
(* Steps under the lock keep the invariant. *)

LEMMA LockKeeps == ASSUME LockInv, NEW c \in Conns, Lock(c) PROVE LockInv'
<1>1. /\ pc[c] = "handling" /\ pc' = pc /\ holder' = c /\ ~poisoned /\ poisoned' = poisoned
      /\ at' = [at EXCEPT ![c] = "locked"]
      /\ UNCHANGED <<outbound, received, toHost, pending_requests, entry, drawn>>
  BY DEF Lock, Goes, LockState, peers
<1>2. \A d \in Conns \ {c} : at[d] = "outside" /\ at'[d] = "outside" /\ pc'[d] = pc[d]
  BY <1>1, LockFree DEF Lock, LockInv, Shape
<1>3. Shape'
  BY <1>1 DEF LockInv, Shape
<1>4. Frame(c)' = Frame(c) /\ (Frame(c).kind = "answer" \/ AsksForInit(Frame(c)))
  BY <1>1 DEF Lock, NeedsLock, Frame, AsksForInit
<1>5. HandlerInv(c)'
  <2>1. at'[c] = "locked"
    BY <1>1 DEF LockInv, Shape
  <2>2. HasFrame(c) /\ HasFrame(c)'
    BY <1>1 DEF LockInv, HandlerInv, HasFrame
  <2> QED
    BY <1>1, <1>4, <2>1, <2>2 DEF HandlerInv, Points
<1> QED
  BY <1>1, <1>2, <1>3, <1>5, HolderStep

\* The handler goes on under the lock.
LEMMA GoesKeeps ==
    ASSUME LockInv, NEW c \in Conns, NEW now \in Points \ {"outside"}, NEW next \in Points,
           Goes(c, now, next), holder' = holder,
           DOMAIN entry' = Conns, DOMAIN drawn' = Conns,
           IsTable(pending_requests)',
           \A k \in DOMAIN pending_requests' : pending_requests'[k].kind \in Kinds,
           next \in {"taken", "traced"} =>
              /\ Frame(c).kind = "answer"
              /\ Answered(c) \notin DOMAIN pending_requests'
              /\ entry'[c][1].kind \in Kinds,
           next \in {"drawn", "stored"} => Draws(c) /\ entry' = entry
    PROVE  LockInv'
<1>1. /\ pc[c] = "handling" /\ at[c] = now
      /\ at' = [at EXCEPT ![c] = next]
      /\ UNCHANGED <<poisoned, pc, outbound, received, toHost>>
  BY DEF Goes, peers
<1>2. \A d \in Conns \ {c} : at[d] = "outside" /\ at'[d] = "outside" /\ pc'[d] = pc[d]
  BY <1>1, LockedAlone DEF LockInv, Shape
<1>3. Shape'
  BY <1>1 DEF LockInv, Shape
<1>4. HandlerInv(c)'
  <2>1. at'[c] = next
    BY <1>1 DEF LockInv, Shape
  <2>2. Frame(c)' = Frame(c) /\ Answered(c)' = Answered(c)
    BY <1>1 DEF Frame, Answered
  <2>3. next \in {"drawn", "stored"} => Draws(c)'
    BY <2>2 DEF Draws, Registering
  <2> QED
    BY <1>1, <2>1, <2>2, <2>3 DEF LockInv, HandlerInv, HasFrame
<1> QED
  BY <1>1, <1>2, <1>3, <1>4, HolderStep

LEMMA TakeKeeps == ASSUME LockInv, NEW c \in Conns, Take(c) PROVE LockInv'
<1>1. /\ Goes(c, "locked", "taken") /\ holder' = holder
      /\ Frame(c).kind = "answer" /\ Answered(c) \in DOMAIN pending_requests
      /\ entry' = [entry EXCEPT ![c] = <<pending_requests[Answered(c)]>>]
      /\ pending_requests' = Remove(pending_requests, Answered(c)) /\ drawn' = drawn
  BY DEF Take
<1>2. entry'[c][1] = pending_requests[Answered(c)]
  BY <1>1 DEF LockInv, Shape
<1>3. /\ IsTable(pending_requests)'
      /\ Answered(c) \notin DOMAIN pending_requests'
      /\ \A k \in DOMAIN pending_requests' : pending_requests'[k].kind \in Kinds
  <2>1. \A k \in DOMAIN pending_requests : pending_requests[k].kind \in Kinds
    BY DEF LockInv, Shape
  <2> QED
    BY <1>1, <2>1, KindsRemoved
<1> QED
  BY <1>1, <1>2, <1>3, GoesKeeps DEF LockInv, Shape, Points

LEMMA TraceKeeps == ASSUME LockInv, NEW c \in Conns, Trace(c) PROVE LockInv'
<1>1. /\ Goes(c, "taken", "traced") /\ holder' = holder
      /\ UNCHANGED <<pending_requests, entry, drawn>> /\ at[c] = "taken"
  BY DEF Trace, Goes
<1> QED
  BY <1>1, GoesKeeps DEF LockInv, Shape, HandlerInv, Points

LEMMA DrawKeeps == ASSUME LockInv, NEW c \in Conns, Draw(c) PROVE LockInv'
<1>1. /\ holder' = holder /\ UNCHANGED <<pending_requests, entry>> /\ DOMAIN drawn' = Conns
      /\ Draws(c)
  BY DEF Draw, LockInv, Shape, Draws
<1>2. \E now \in {"locked", "traced"} : Goes(c, now, "drawn")
  BY DEF Draw
<1> QED
  BY <1>1, <1>2, GoesKeeps DEF LockInv, Shape, Points

LEMMA StoreKeeps == ASSUME LockInv, NEW c \in Conns, Store(c) PROVE LockInv'
<1>1. /\ Goes(c, "drawn", "stored") /\ at[c] = "drawn" /\ holder' = holder
      /\ pending_requests' = Insert(pending_requests, drawn[c], Stored(c))
      /\ UNCHANGED <<entry, drawn>>
  BY DEF Store, Goes
<1>2. Stored(c).kind \in Kinds
  BY DEF Stored, RegisterPending, SettingsPending, Kinds
<1>3. /\ IsTable(pending_requests)'
      /\ \A k \in DOMAIN pending_requests' : pending_requests'[k].kind \in Kinds
  <2>1. \A k \in DOMAIN pending_requests : pending_requests[k].kind \in Kinds
    BY DEF LockInv, Shape
  <2> QED
    BY <1>1, <1>2, <2>1, KindsInserted
<1>4. Draws(c)
  BY <1>1 DEF LockInv, HandlerInv
<1> QED
  BY <1>1, <1>3, <1>4, GoesKeeps DEF LockInv, Shape, Points

\* The handler is left and its lock given back.
LEMMA DropsKeeps ==
    ASSUME LockInv, NEW c \in Conns, NEW now \in Points \ {"outside"}, Drops(c, now),
           NEW next, pc' = [pc EXCEPT ![c] = next], next # "handling",
           DOMAIN outbound' = Conns
    PROVE  LockInv'
<1>1. /\ at[c] = now /\ at' = [at EXCEPT ![c] = "outside"]
      /\ UNCHANGED <<received, toHost, pending_requests, entry, drawn>>
  BY DEF Drops, peers
<1>2. \A d \in Conns \ {c} : at[d] = "outside" /\ at'[d] = "outside" /\ pc'[d] = pc[d]
  BY <1>1, LockedAlone DEF LockInv, Shape
<1>3. Shape'
  BY <1>1 DEF LockInv, Shape
<1>4. at'[c] = "outside" /\ pc'[c] # "handling"
  BY <1>1 DEF LockInv, Shape
<1>5. HandlerInv(c)'
  BY <1>4 DEF HandlerInv, Points
<1> QED
  BY <1>1, <1>2, <1>3, <1>5, HolderStep

LEMMA LeavesKeep ==
    ASSUME LockInv, NEW c \in Conns, NothingToTake(c) \/ Undecodable(c) \/ TracePanics(c) \/ Leave(c)
    PROVE  LockInv'
<1>1. \E now \in Points \ {"outside"} : Drops(c, now)
  BY DEF NothingToTake, Undecodable, TracePanics, Leave, Points
<1>2. \E next : pc' = [pc EXCEPT ![c] = next] /\ next # "handling"
  BY DEF NothingToTake, Undecodable, TracePanics, Leave, Return, EndThread
<1>3. DOMAIN outbound' = Conns
  BY DEF NothingToTake, Undecodable, TracePanics, Leave, Return, EndThread, LockInv, Shape
<1> QED
  BY <1>1, <1>2, <1>3, DropsKeeps

-----------------------------------------------------------------------------
(***************************************************************************)
(* Steps that leave the lock alone.  What a thread does outside the lock   *)
(* changes its own place and frames, and at most reads one frame.          *)
(***************************************************************************)

Outside(c) ==
    /\ UNCHANGED <<table, flow, toHost, fine>>
    /\ DOMAIN pc' = Conns /\ DOMAIN outbound' = Conns
    /\ received' \in [Conns -> Nat]
    /\ at[c] = "outside"
    /\ pc'[c] = "handling" => HasFrame(c)'
    /\ \A d \in Conns \ {c} : pc'[d] = pc[d] /\ received'[d] = received[d]

LEMMA OutsideKeeps == ASSUME LockInv, NEW c \in Conns, Outside(c) PROVE LockInv'
<1>1. Shape'
  BY DEF Outside, LockInv, Shape, fine, table
<1>2. ASSUME NEW d \in Conns
      PROVE  /\ pc'[d] = "handling" => HasFrame(d)'
             /\ at[d] # "outside" =>
                   /\ pc'[d] \in {"handling", "killed"}
                   /\ HasFrame(d)'
                   /\ Frame(d)' = Frame(d)
  BY DEF Outside, LockInv, HandlerInv, HasFrame, Frame
<1> QED
  BY <1>1, <1>2, OtherStep DEF Outside, table

\* The handlers outside the lock are for other frames.
LEMMA ElsewhereOutside == ASSUME LockInv, NEW c \in Conns, Elsewhere(c) PROVE at[c] = "outside"
<1>1. CASE pc[c] \notin {"handling", "killed"}
  BY <1>1 DEF LockInv, HandlerInv
<1>2. CASE \/ HandleTcpHandshake(c) \/ HandleTransportHandshake(c)
           \/ HandleRestExecute(c) \/ RestExecuteFails(c) \/ IgnoreUnknownAction(c)
           \/ InitUndecodable(c)
  <2>1. Frame(c).kind = "request" /\ ~AsksForInit(Frame(c))
    BY <1>2 DEF HandleTcpHandshake, HandleTransportHandshake, HandleRestExecute, RestExecuteFails,
                IgnoreUnknownAction, InitUndecodable, InitializeExtensionFails, HandlingRequest,
                AsksForInit
  <2> QED
    BY <2>1 DEF LockInv, HandlerInv
<1>3. CASE ReadFrame(c) \/ ReadMalformed(c) \/ ReadEnds(c) \/ WriteFrame(c) \/ WriteFails(c)
  BY <1>1, <1>3 DEF ReadFrame, ReadMalformed, ReadNext, ReadEnds, WriteFrame, WriteFails
<1> QED
  BY <1>2, <1>3 DEF Elsewhere

LEMMA ElsewhereIsOutside == ASSUME LockInv, NEW c \in Conns, Elsewhere(c) PROVE Outside(c)
<1>1. at[c] = "outside" /\ UNCHANGED fine
  BY ElsewhereOutside DEF Elsewhere
<1>2. CASE ReadFrame(c) \/ ReadMalformed(c)
  <2>1. /\ received' = [received EXCEPT ![c] = @ + 1] /\ received[c] < Len(toHost[c])
        /\ UNCHANGED <<table, flow, toHost, outbound>>
        /\ \E how : pc' = [pc EXCEPT ![c] = how]
    BY <1>2 DEF ReadFrame, ReadMalformed, ReadNext, peers
  <2>2. HasFrame(c)'
    BY <2>1 DEF HasFrame, LockInv, Shape, IsList
  <2> QED
    BY <1>1, <2>1, <2>2 DEF Outside, LockInv, Shape
<1>3. CASE \/ ReadEnds(c) \/ WriteFrame(c) \/ WriteFails(c)
           \/ HandleTcpHandshake(c) \/ HandleTransportHandshake(c)
           \/ HandleRestExecute(c) \/ RestExecuteFails(c) \/ IgnoreUnknownAction(c)
           \/ InitUndecodable(c)
  <2>1. /\ UNCHANGED <<table, flow, toHost, received>>
        /\ \E frames : Return(c, frames) \/ \E how \in Ended : EndThread(c, how)
    BY <1>3 DEF ReadEnds, WriteFrame, WriteFails, HandleTcpHandshake, HandleTransportHandshake,
                HandleRestExecute, RestExecuteFails, IgnoreUnknownAction, InitUndecodable,
                InitializeExtensionFails, HandlingRequest, peers, table, Ended
  <2> QED
    BY <1>1, <2>1 DEF Outside, Return, EndThread, LockInv, Shape, Ended
<1> QED
  BY <1>2, <1>3 DEF Elsewhere

LEMMA LockFailsIsOutside == ASSUME LockInv, NEW c \in Conns, LockFails(c) PROVE Outside(c)
<1>1. at[c] = "outside"
  BY LockFree DEF LockFails
<1> QED
  BY <1>1 DEF LockFails, EndThread, Outside, LockInv, Shape, peers

\* What the peer of c sends or discards does not change the frame in hand.
PeerTouches(c) ==
    /\ UNCHANGED <<table, flow, pc, outbound, received, fine>>
    /\ DOMAIN toHost' = Conns
    /\ \A d \in Conns :
          /\ IsList(toHost'[d])
          /\ HasFrame(d) => HasFrame(d)' /\ Frame(d)' = Frame(d)

LEMMA PeerSendsTouches ==
    ASSUME LockInv, NEW c \in Conns, NEW frame, PeerSends(c, frame), UNCHANGED fine
    PROVE  PeerTouches(c)
<1>1. /\ toHost' = [toHost EXCEPT ![c] = Append(@, frame)]
      /\ UNCHANGED <<table, flow, pc, outbound, received>>
  BY DEF PeerSends
<1>2. ASSUME NEW d \in Conns
      PROVE  /\ IsList(toHost'[d])
             /\ HasFrame(d) => HasFrame(d)' /\ Frame(d)' = Frame(d)
  <2>1. CASE d = c
    BY <1>1, <2>1, ListAppend DEF LockInv, Shape, HasFrame, Frame, IsList
  <2>2. CASE d # c
    BY <1>1, <2>2 DEF LockInv, Shape, HasFrame, Frame
  <2> QED
    BY <2>1, <2>2
<1> QED
  BY <1>1, <1>2 DEF PeerTouches, LockInv, Shape

LEMMA PeerClosesTouches ==
    ASSUME LockInv, NEW c \in Conns, PeerCloses(c), UNCHANGED fine
    PROVE  PeerTouches(c)
<1>1. PICK n \in received[c]..Len(toHost[c]) : toHost' = [toHost EXCEPT ![c] = SubSeq(@, 1, n)]
  BY DEF PeerCloses
<1>2. UNCHANGED <<table, flow, pc, outbound, received>>
  BY DEF PeerCloses
<1>3. ASSUME NEW d \in Conns
      PROVE  /\ IsList(toHost'[d])
             /\ HasFrame(d) => HasFrame(d)' /\ Frame(d)' = Frame(d)
  <2>1. CASE d = c
    <3>1. n \in 0..Len(toHost[c]) /\ IsList(toHost[c]) /\ toHost'[c] = SubSeq(toHost[c], 1, n)
      BY <1>1 DEF LockInv, Shape, IsList
    <3> QED
      BY <1>1, <1>2, <2>1, <3>1, ListCut DEF LockInv, Shape, HasFrame, Frame, IsList
  <2>2. CASE d # c
    BY <1>1, <1>2, <2>2 DEF LockInv, Shape, HasFrame, Frame
  <2> QED
    BY <2>1, <2>2
<1> QED
  BY <1>1, <1>2, <1>3 DEF PeerTouches, LockInv, Shape

LEMMA PeerStepTouches ==
    ASSUME LockInv, NEW c \in Conns, PeerStep(c), UNCHANGED fine PROVE PeerTouches(c)
<1>1. CASE PeerCloses(c)
  BY <1>1, PeerClosesTouches
<1>2. CASE \E frame : PeerSends(c, frame)
  BY <1>2, PeerSendsTouches
<1> QED
  BY <1>1, <1>2 DEF PeerStep, PeerRequest, PeerAnswers, PeerRepeats, PeerSendsMalformed

LEMMA PeerTouchesKeeps == ASSUME LockInv, NEW c \in Conns, PeerTouches(c) PROVE LockInv'
<1>1. Shape'
  BY DEF PeerTouches, LockInv, Shape, fine, table
<1>2. ASSUME NEW d \in Conns
      PROVE  /\ pc'[d] = "handling" => HasFrame(d)'
             /\ at[d] # "outside" =>
                   /\ pc'[d] \in {"handling", "killed"}
                   /\ HasFrame(d)'
                   /\ Frame(d)' = Frame(d)
  BY DEF PeerTouches, LockInv, HandlerInv
<1> QED
  BY <1>1, <1>2, OtherStep DEF PeerTouches, table

LEMMA AcceptIsOutside ==
    ASSUME LockInv, NEW c \in Conns, Accept(c), UNCHANGED fine PROVE Outside(c)
<1>1. pc[c] = "unopened" /\ pc' = [pc EXCEPT ![c] = "reading"]
      /\ UNCHANGED <<table, flow, outbound, received, toHost>>
  BY DEF Accept
<1> QED
  BY <1>1 DEF Outside, LockInv, Shape, HandlerInv

LEMMA AcceptFailsKeeps == ASSUME LockInv, AcceptFails, UNCHANGED fine PROVE LockInv'
<1>1. /\ pc' = [c \in Conns |-> IF pc[c] \in Running THEN "killed" ELSE pc[c]]
      /\ outbound' = [c \in Conns |-> <<>>]
      /\ UNCHANGED <<table, received, toHost>>
  BY DEF AcceptFails, peers
<1>2. Shape'
  BY <1>1 DEF LockInv, Shape, fine, table
<1>3. ASSUME NEW d \in Conns
      PROVE  /\ pc'[d] # "handling"
             /\ at[d] # "outside" =>
                   /\ pc'[d] \in {"handling", "killed"}
                   /\ HasFrame(d)'
                   /\ Frame(d)' = Frame(d)
  BY <1>1 DEF LockInv, HandlerInv, HasFrame, Frame, Running
<1> QED
  BY <1>1, <1>2, <1>3, OtherStep DEF table

\* Nothing that the invariant is about changes.
LEMMA StutterKeeps ==
    ASSUME LockInv, UNCHANGED <<poisoned, pending_requests, pc, outbound, received, toHost, fine>>
    PROVE  LockInv'
<1>1. Shape'
  BY DEF LockInv, Shape, fine
<1>2. ASSUME NEW d \in Conns
      PROVE  /\ pc'[d] = "handling" => HasFrame(d)'
             /\ at[d] # "outside" =>
                   /\ pc'[d] \in {"handling", "killed"}
                   /\ HasFrame(d)'
                   /\ Frame(d)' = Frame(d)
  BY DEF LockInv, HandlerInv, HasFrame, Frame
<1> QED
  BY <1>1, <1>2, OtherStep

LEMMA LockNextKeeps == LockInv /\ [LockNext]_<<vars, fine>> => LockInv'
<1> SUFFICES ASSUME LockInv, [LockNext]_<<vars, fine>> PROVE LockInv'
  OBVIOUS
<1>1. ASSUME NEW c \in Conns, LockStep(c) PROVE LockInv'
  BY <1>1, LockKeeps, LockFailsIsOutside, OutsideKeeps, TakeKeeps, TraceKeeps, DrawKeeps,
     StoreKeeps, LeavesKeep DEF LockStep
<1>2. ASSUME NEW c \in Conns, Elsewhere(c) PROVE LockInv'
  BY <1>2, ElsewhereIsOutside, OutsideKeeps
<1>3. CASE Environment
  <2>1. ASSUME NEW c \in Conns, Accept(c) \/ PeerStep(c), UNCHANGED fine PROVE LockInv'
    BY <2>1, AcceptIsOutside, OutsideKeeps, PeerStepTouches, PeerTouchesKeeps
  <2>2. ASSUME StderrBreaks, UNCHANGED fine PROVE LockInv'
    BY <2>2, StutterKeeps DEF StderrBreaks, table, peers
  <2> QED
    BY <1>3, <2>1, <2>2, AcceptFailsKeeps DEF Environment
<1>4. CASE UNCHANGED <<vars, fine>>
  BY <1>4, StutterKeeps DEF vars
<1> QED
  BY <1>1, <1>2, <1>3, <1>4 DEF LockNext

LEMMA LockInvariant == LockSpec => []LockInv
BY LockInitInv, LockNextKeeps, PTL DEF LockSpec

-----------------------------------------------------------------------------
(***************************************************************************)
(* The mapping, by the place of the handler that has the lock: its entry   *)
(* is still there, its next request is already there, or neither.          *)
(***************************************************************************)

TakenTable(c) ==
    /\ AtomicId = next_request_id
    /\ AtomicPending = Insert(pending_requests, Answered(c), entry[c][1])
    /\ AtomicFlow = flow

OpenTable(c) ==
    /\ AtomicId = IF at[c] = "traced" THEN next_request_id + 1 ELSE next_request_id
    /\ AtomicPending = Insert(pending_requests, IdOf(c), Stored(c))
    /\ AtomicFlow = Insert(flow, IdOf(c), Origin(c))

PlainTable ==
    /\ AtomicId = next_request_id
    /\ AtomicPending = pending_requests
    /\ AtomicFlow = flow

LEMMA WhenTaken == LockInv => \A c \in Conns : at[c] = "taken" => TakenTable(c)
<1> SUFFICES ASSUME LockInv, NEW c \in Conns, at[c] = "taken" PROVE TakenTable(c)
  OBVIOUS
<1>1. \A d \in Conns : at[d] \in {"taken", "traced", "drawn"} => d = c
  BY LockedAlone
<1>2. c = CHOOSE d \in Conns : at[d] = "taken"
  BY <1>1
<1> QED
  BY <1>1, <1>2 DEF TakenTable, AtomicId, AtomicPending, AtomicFlow, Pending

LEMMA WhenOpen == LockInv => \A c \in Conns : Pending(c) => OpenTable(c)
<1> SUFFICES ASSUME LockInv, NEW c \in Conns, Pending(c) PROVE OpenTable(c)
  OBVIOUS
<1>1. \A d \in Conns : at[d] \in {"taken", "traced", "drawn"} => d = c
  BY LockedAlone DEF Pending
<1>2. c = CHOOSE d \in Conns : Pending(d)
  BY <1>1 DEF Pending
<1>3. AtomicId = IF at[c] = "traced" THEN next_request_id + 1 ELSE next_request_id
  BY <1>1 DEF AtomicId, Pending
<1>4. AtomicFlow = Insert(flow, IdOf(c), Origin(c))
  BY <1>2 DEF AtomicFlow
<1>5. ~\E d \in Conns : at[d] = "taken"
  BY <1>1 DEF Pending
<1>6. AtomicPending = Insert(pending_requests, IdOf(c), Stored(c))
  BY <1>2, <1>5 DEF AtomicPending
<1> QED
  BY <1>3, <1>4, <1>6 DEF OpenTable

LEMMA WhenPlain ==
    LockInv /\ (\A c \in Conns : at[c] # "taken" /\ ~Pending(c)) => PlainTable
BY DEF PlainTable, AtomicId, AtomicPending, AtomicFlow, Pending

\* The same of the state after a step.
LEMMA WhenTakenAfter == (LockInv => \A c \in Conns : at[c] = "taken" => TakenTable(c))'
BY WhenTaken, PTL

LEMMA WhenOpenAfter == (LockInv => \A c \in Conns : Pending(c) => OpenTable(c))'
BY WhenOpen, PTL

LEMMA WhenPlainAfter ==
    (LockInv /\ (\A c \in Conns : at[c] # "taken" /\ ~Pending(c)) => PlainTable)'
BY WhenPlain, PTL

-----------------------------------------------------------------------------
(***************************************************************************)
(* What a step leaves of the mapping.                                      *)
(***************************************************************************)

\* The handler of d, if it has the lock, is where it was with what it had.
Same(d) ==
    /\ at'[d] = at[d]
    /\ at[d] # "outside" =>
          /\ Frame(d)' = Frame(d)
          /\ entry'[d] = entry[d]
          /\ drawn'[d] = drawn[d]
          /\ UNCHANGED <<next_request_id, flow>>

LEMMA SameOutcome ==
    ASSUME NEW d \in Conns, Same(d)
    PROVE  /\ Decided(d)' <=> Decided(d)
           /\ Pending(d)' <=> Pending(d)
           /\ at[d] # "outside" =>
                 /\ IdOf(d)' = IdOf(d)
                 /\ Answered(d)' = Answered(d)
                 /\ Stored(d)' = Stored(d)
                 /\ Origin(d)' = Origin(d)
                 /\ Returned(d, IdOf(d))' = Returned(d, IdOf(d))
<1>1. CASE at[d] = "outside"
  BY <1>1 DEF Same, Decided, Pending
<1>2. CASE at[d] # "outside"
  <2>1. /\ at'[d] = at[d] /\ Frame(d)' = Frame(d) /\ entry'[d] = entry[d] /\ drawn'[d] = drawn[d]
        /\ next_request_id' = next_request_id /\ flow' = flow
    BY <1>2 DEF Same
  <2>2. (Draws(d)' <=> Draws(d)) /\ (Registering(d)' <=> Registering(d))
    BY <2>1 DEF Draws, Registering
  <2>3. IdOf(d)' = IdOf(d) /\ Answered(d)' = Answered(d)
    BY <2>1 DEF IdOf, Answered
  <2>4. Stored(d)' = Stored(d) /\ Origin(d)' = Origin(d)
    BY <2>1, <2>3 DEF Stored, Origin
  <2>5. Returned(d, IdOf(d))' = Returned(d, IdOf(d))
    BY <2>1, <2>2, <2>3 DEF Returned
  <2> QED
    BY <2>1, <2>2, <2>3, <2>4, <2>5 DEF Decided, Pending
<1> QED
  BY <1>1, <1>2

LEMMA TableRests ==
    ASSUME LockInv, LockInv', \A d \in Conns : Same(d),
           UNCHANGED <<next_request_id, pending_requests, flow>>
    PROVE  UNCHANGED <<AtomicId, AtomicPending, AtomicFlow>>
<1>1. ASSUME NEW c \in Conns, at[c] = "taken" PROVE UNCHANGED <<AtomicId, AtomicPending, AtomicFlow>>
  <2>1. at'[c] = "taken" /\ entry'[c] = entry[c] /\ Answered(c)' = Answered(c)
    BY <1>1, SameOutcome DEF Same
  <2>2. TakenTable(c) /\ TakenTable(c)'
    BY <1>1, <2>1, WhenTaken, WhenTakenAfter
  <2> QED
    BY <2>1, <2>2 DEF TakenTable
<1>2. ASSUME NEW c \in Conns, Pending(c) PROVE UNCHANGED <<AtomicId, AtomicPending, AtomicFlow>>
  <2>1. /\ Pending(c)' /\ at'[c] = at[c] /\ IdOf(c)' = IdOf(c)
        /\ Stored(c)' = Stored(c) /\ Origin(c)' = Origin(c)
    BY <1>2, SameOutcome DEF Same, Pending
  <2>2. OpenTable(c) /\ OpenTable(c)'
    BY <1>2, <2>1, WhenOpen, WhenOpenAfter
  <2> QED
    BY <2>1, <2>2 DEF OpenTable
<1>3. CASE \A c \in Conns : at[c] # "taken" /\ ~Pending(c)
  <2>1. \A c \in Conns : at'[c] # "taken" /\ ~Pending(c)'
    BY <1>3, SameOutcome DEF Same
  <2>2. PlainTable /\ PlainTable'
    BY <1>3, <2>1, WhenPlain, WhenPlainAfter
  <2> QED
    BY <2>2 DEF PlainTable
<1> QED
  BY <1>1, <1>2, <1>3

\* Up to its decision a thread is where it is in ExtensionHost.
LEMMA PlainThread ==
    ASSUME NEW c \in Conns, ~Decided(c) \/ pc[c] # "handling"
    PROVE  AtomicPc[c] = pc[c] /\ AtomicOutbound[c] = outbound[c]
BY DEF AtomicPc, AtomicOutbound

LEMMA ThreadRests ==
    ASSUME NEW d \in Conns, Same(d), pc'[d] = pc[d], outbound'[d] = outbound[d]
    PROVE  AtomicPc'[d] = AtomicPc[d] /\ AtomicOutbound'[d] = AtomicOutbound[d]
BY SameOutcome DEF AtomicPc, AtomicOutbound, Decided

\* A thread goes on from outside its decision to outside the lock.
LEMMA PcMoves ==
    ASSUME LockInv, NEW c \in Conns, NEW p, pc' = [pc EXCEPT ![c] = p],
           ~Decided(c), at'[c] = "outside", \A d \in Conns \ {c} : Same(d)
    PROVE  AtomicPc' = [AtomicPc EXCEPT ![c] = p]
<1>1. AtomicPc'[c] = p
  BY DEF AtomicPc, Decided, LockInv, Shape
<1>2. ASSUME NEW d \in Conns \ {c} PROVE AtomicPc'[d] = AtomicPc[d]
  <2>1. pc'[d] = pc[d]
    BY DEF LockInv, Shape
  <2>2. CASE pc[d] = "handling" /\ Decided(d)
    BY <2>1, <2>2, SameOutcome DEF AtomicPc, AtomicOutbound, Decided
  <2>3. CASE ~(pc[d] = "handling" /\ Decided(d))
    BY <2>1, <2>3, SameOutcome DEF AtomicPc
  <2> QED
    BY <2>2, <2>3
<1>3. AtomicPc' = [d \in Conns |-> AtomicPc'[d]] /\ AtomicPc = [d \in Conns |-> AtomicPc[d]]
  BY DEF AtomicPc
<1> QED
  BY <1>1, <1>2, <1>3

LEMMA OutboundMoves ==
    ASSUME LockInv, NEW c \in Conns, NEW o, outbound' = [outbound EXCEPT ![c] = o],
           NEW p, pc' = [pc EXCEPT ![c] = p],
           ~Decided(c), at'[c] = "outside", \A d \in Conns \ {c} : Same(d)
    PROVE  AtomicOutbound' = [AtomicOutbound EXCEPT ![c] = o]
<1>1. AtomicOutbound'[c] = o
  BY DEF AtomicOutbound, Decided, LockInv, Shape
<1>2. ASSUME NEW d \in Conns \ {c} PROVE AtomicOutbound'[d] = AtomicOutbound[d]
  <2>1. pc'[d] = pc[d] /\ outbound'[d] = outbound[d]
    BY DEF LockInv, Shape
  <2> QED
    BY <2>1, ThreadRests
<1>3. /\ AtomicOutbound' = [d \in Conns |-> AtomicOutbound'[d]]
      /\ AtomicOutbound = [d \in Conns |-> AtomicOutbound[d]]
  BY DEF AtomicOutbound
<1> QED
  BY <1>1, <1>2, <1>3

LEMMA OutboundRests ==
    ASSUME LockInv, NEW c \in Conns, NEW p, pc' = [pc EXCEPT ![c] = p], outbound' = outbound,
           ~Decided(c), at'[c] = "outside", \A d \in Conns \ {c} : Same(d)
    PROVE  AtomicOutbound' = AtomicOutbound
<1>1. AtomicOutbound'[c] = AtomicOutbound[c]
  BY DEF AtomicOutbound, Decided, LockInv, Shape
<1>2. ASSUME NEW d \in Conns \ {c} PROVE AtomicOutbound'[d] = AtomicOutbound[d]
  <2>1. pc'[d] = pc[d] /\ outbound'[d] = outbound[d]
    BY DEF LockInv, Shape
  <2> QED
    BY <2>1, ThreadRests
<1>3. /\ AtomicOutbound' = [d \in Conns |-> AtomicOutbound'[d]]
      /\ AtomicOutbound = [d \in Conns |-> AtomicOutbound[d]]
  BY DEF AtomicOutbound
<1> QED
  BY <1>1, <1>2, <1>3

LEMMA ReturnMaps ==
    ASSUME LockInv, NEW c \in Conns, NEW frames, Return(c, frames),
           ~Decided(c), at'[c] = "outside", \A d \in Conns \ {c} : Same(d)
    PROVE  Atomic!Return(c, frames)
BY PcMoves, OutboundMoves DEF Return, Atomic!Return

LEMMA EndMaps ==
    ASSUME LockInv, NEW c \in Conns, NEW how, EndThread(c, how),
           ~Decided(c), at'[c] = "outside", \A d \in Conns \ {c} : Same(d)
    PROVE  Atomic!EndThread(c, how)
BY PcMoves, OutboundMoves DEF EndThread, Atomic!EndThread

-----------------------------------------------------------------------------
(* Steps outside the lock are steps of ExtensionHost. *)

LEMMA OutsideMaps ==
    ASSUME LockInv, NEW c \in Conns, Outside(c)
    PROVE  /\ \A d \in Conns : Same(d)
           /\ ~Decided(c) /\ at'[c] = "outside"
           /\ UNCHANGED <<AtomicId, AtomicPending, AtomicFlow>>
           /\ AtomicPc[c] = pc[c] /\ AtomicOutbound[c] = outbound[c]
<1>1. LockInv'
  BY OutsideKeeps
<1>2. ASSUME NEW d \in Conns PROVE Same(d)
  BY DEF Outside, Same, Frame, fine, table
<1>3. ~Decided(c) /\ at'[c] = "outside"
  BY DEF Outside, Decided, fine
<1> QED
  BY <1>1, <1>2, <1>3, TableRests, PlainThread DEF Outside, table

LEMMA ReadMaps ==
    ASSUME LockInv, NEW c \in Conns, Outside(c), ReadFrame(c) \/ ReadMalformed(c)
    PROVE  Atomic!ReadFrame(c) \/ Atomic!ReadMalformed(c)
<1>1. PICK p : pc' = [pc EXCEPT ![c] = p]
  BY DEF ReadFrame, ReadMalformed
<1>2. /\ AtomicPc' = [AtomicPc EXCEPT ![c] = p] /\ AtomicOutbound' = AtomicOutbound
      /\ AtomicPc[c] = pc[c]
      /\ UNCHANGED <<AtomicId, AtomicPending, AtomicFlow>>
  BY <1>1, OutsideMaps, PcMoves, OutboundRests DEF ReadFrame, ReadMalformed, ReadNext
<1>3. pc'[c] = p
  BY <1>1 DEF LockInv, Shape
<1>4. Atomic!ReadNext(c)
  BY <1>2 DEF ReadFrame, ReadMalformed, ReadNext, Atomic!ReadNext, table, process, peers,
              Atomic!table, Atomic!process, Atomic!peers
<1>5. CASE ReadFrame(c)
  <2>1. p = IF TraceBreaks THEN "panicked" ELSE "handling"
    BY <1>3, <1>5 DEF ReadFrame, LockInv, Shape
  <2> QED
    BY <1>2, <1>4, <1>5, <2>1 DEF ReadFrame, Atomic!ReadFrame, TraceBreaks, Atomic!TraceBreaks
<1>6. CASE ReadMalformed(c)
  <2>1. p = ReadOutcome(toHost[c][received[c] + 1].defect)
    BY <1>3, <1>6 DEF ReadMalformed, LockInv, Shape
  <2> QED
    BY <1>2, <1>4, <1>6, <2>1
       DEF ReadMalformed, Atomic!ReadMalformed, ReadOutcome, Atomic!ReadOutcome
<1> QED
  BY <1>5, <1>6

LEMMA ReadEndsMaps ==
    ASSUME LockInv, NEW c \in Conns, Outside(c), ReadEnds(c) PROVE Atomic!ReadEnds(c)
<1>1. \E how \in {"closed", "error"} : Atomic!EndThread(c, how)
  BY OutsideMaps, EndMaps DEF ReadEnds
<1> QED
  BY <1>1, OutsideMaps DEF ReadEnds, Atomic!ReadEnds, table, process, peers, Atomic!table,
                           Atomic!process, Atomic!peers

LEMMA WriteMaps ==
    ASSUME LockInv, NEW c \in Conns, Outside(c), WriteFrame(c) \/ WriteFails(c)
    PROVE  Atomic!WriteFrame(c) \/ Atomic!WriteFails(c)
<1>1. CASE WriteFrame(c)
  <2>1. Atomic!Return(c, Tail(outbound[c]))
    BY <1>1, OutsideMaps, ReturnMaps DEF WriteFrame
  <2>2. Atomic!WriteFrame(c)
    BY <1>1, <2>1, OutsideMaps DEF WriteFrame, Atomic!WriteFrame, TraceBreaks, Atomic!TraceBreaks,
       table, process, peers, Atomic!table, Atomic!process, Atomic!peers
  <2> QED
    BY <2>2
<1>2. CASE WriteFails(c)
  <2>1. \A how : EndThread(c, how) => Atomic!EndThread(c, how)
    BY OutsideMaps, EndMaps
  <2>2. Atomic!WriteFails(c)
    BY <1>2, <2>1, OutsideMaps DEF WriteFails, Atomic!WriteFails, TraceBreaks, Atomic!TraceBreaks,
       table, process, peers, Atomic!table, Atomic!process, Atomic!peers
  <2> QED
    BY <2>2
<1> QED
  BY <1>1, <1>2

LEMMA HandlingMaps ==
    ASSUME LockInv, NEW c \in Conns, Outside(c), NEW action, HandlingRequest(c, action)
    PROVE  Atomic!HandlingRequest(c, action)
BY OutsideMaps DEF HandlingRequest, Atomic!HandlingRequest, Frame, Atomic!Frame, process, peers,
                   Atomic!process, Atomic!peers

LEMMA ImmediateMaps ==
    ASSUME LockInv, NEW c \in Conns, Outside(c),
           \/ HandleTcpHandshake(c) \/ HandleTransportHandshake(c)
           \/ HandleRestExecute(c) \/ RestExecuteFails(c) \/ IgnoreUnknownAction(c)
    PROVE  Atomic!HandleRequest(c)
<1>1. /\ \A action : HandlingRequest(c, action) => Atomic!HandlingRequest(c, action)
      /\ \A frames : Return(c, frames) => Atomic!Return(c, frames)
      /\ \A how : EndThread(c, how) => Atomic!EndThread(c, how)
  BY HandlingMaps, ReturnMaps, EndMaps, OutsideMaps
<1>2. UNCHANGED <<table, flow>> => UNCHANGED <<Atomic!table, AtomicFlow>>
  BY OutsideMaps DEF table, Atomic!table
<1>3. Atomic!ResponseTo(Atomic!Frame(c)) = ResponseTo(Frame(c)) /\ Atomic!Frame(c) = Frame(c)
  BY DEF ResponseTo, Atomic!ResponseTo, Frame, Atomic!Frame
<1>4. CASE HandleTcpHandshake(c)
  BY <1>1, <1>2, <1>3, <1>4 DEF HandleTcpHandshake, Atomic!HandleTcpHandshake, Atomic!HandleRequest
<1>5. CASE HandleTransportHandshake(c)
  BY <1>1, <1>2, <1>3, <1>5
     DEF HandleTransportHandshake, Atomic!HandleTransportHandshake, Atomic!HandleRequest
<1>6. CASE HandleRestExecute(c)
  BY <1>1, <1>2, <1>3, <1>6 DEF HandleRestExecute, Atomic!HandleRestExecute, Atomic!HandleRequest
<1>7. CASE RestExecuteFails(c)
  BY <1>1, <1>2, <1>3, <1>7 DEF RestExecuteFails, Atomic!RestExecuteFails, Atomic!HandleRequest
<1>8. CASE IgnoreUnknownAction(c)
  BY <1>1, <1>2, <1>3, <1>8 DEF IgnoreUnknownAction, Atomic!IgnoreUnknownAction, Atomic!HandleRequest
<1> QED
  BY <1>4, <1>5, <1>6, <1>7, <1>8

LEMMA InitFailsMaps ==
    ASSUME LockInv, NEW c \in Conns, Outside(c), InitializeExtensionFails(c)
    PROVE  Atomic!InitializeExtensionFails(c)
<1>1. /\ Atomic!HandlingRequest(c, "DISCOVERY_EXTENSIONS")
      /\ Atomic!EndThread(c, "error")
  BY HandlingMaps, EndMaps, OutsideMaps DEF InitializeExtensionFails
<1> QED
  BY <1>1, OutsideMaps
     DEF InitializeExtensionFails, Atomic!InitializeExtensionFails, LockState, Atomic!LockState,
         Frame, Atomic!Frame, table, Atomic!table

LEMMA ElsewhereMaps ==
    ASSUME LockInv, NEW c \in Conns, Elsewhere(c) PROVE Atomic!ThreadStep(c)
<1>1. Outside(c)
  BY ElsewhereIsOutside
<1>2. InitUndecodable(c) => Atomic!HandleRequest(c)
  BY <1>1, InitFailsMaps DEF InitUndecodable, Atomic!HandleRequest
<1> QED
  BY <1>1, <1>2, ReadMaps, ReadEndsMaps, WriteMaps, ImmediateMaps DEF Elsewhere, Atomic!ThreadStep

-----------------------------------------------------------------------------
(* Steps of the environment are the same steps of ExtensionHost's. *)

LEMMA AllThreadsRest ==
    ASSUME \A d \in Conns : Same(d) /\ pc'[d] = pc[d] /\ outbound'[d] = outbound[d]
    PROVE  AtomicPc' = AtomicPc /\ AtomicOutbound' = AtomicOutbound
<1>1. \A d \in Conns : AtomicPc'[d] = AtomicPc[d] /\ AtomicOutbound'[d] = AtomicOutbound[d]
  BY ThreadRests
<1>2. /\ AtomicPc' = [d \in Conns |-> AtomicPc'[d]] /\ AtomicPc = [d \in Conns |-> AtomicPc[d]]
      /\ AtomicOutbound' = [d \in Conns |-> AtomicOutbound'[d]]
      /\ AtomicOutbound = [d \in Conns |-> AtomicOutbound[d]]
  BY DEF AtomicPc, AtomicOutbound
<1> QED
  BY <1>1, <1>2

\* A thread that runs has not ended there either.
LEMMA StillRuns == ASSUME NEW c \in Conns, pc[c] \in Running PROVE AtomicPc[c] \in Atomic!Running
BY DEF AtomicPc, Running, Atomic!Running

LEMMA PeerTouchesMaps ==
    ASSUME LockInv, NEW c \in Conns, PeerTouches(c)
    PROVE  UNCHANGED <<AtomicId, AtomicPending, AtomicFlow, AtomicPc, AtomicOutbound>>
<1>1. LockInv'
  BY PeerTouchesKeeps
<1>2. ASSUME NEW d \in Conns PROVE Same(d)
  BY DEF PeerTouches, Same, LockInv, HandlerInv, fine, table
<1> QED
  BY <1>1, <1>2, TableRests, AllThreadsRest DEF PeerTouches, table

LEMMA PeerSendsMaps ==
    ASSUME LockInv, NEW c \in Conns, NEW frame, PeerSends(c, frame), UNCHANGED fine
    PROVE  Atomic!PeerSends(c, frame)
BY PeerSendsTouches, PeerTouchesMaps, StillRuns
   DEF PeerSends, Atomic!PeerSends, table, process, Atomic!table, Atomic!process

LEMMA SameTimes ==
    ASSUME NEW c, NEW id PROVE Atomic!TimesAnswered(c, id) = TimesAnswered(c, id)
<1>1. \A S : Atomic!Cardinality(S) = Cardinality(S)
  BY DEF Cardinality, Atomic!Cardinality
<1> QED
  BY <1>1 DEF TimesAnswered, Atomic!TimesAnswered, Positions, Atomic!Positions

LEMMA PeerStepMaps ==
    ASSUME LockInv, NEW c \in Conns, PeerStep(c), UNCHANGED fine PROVE Atomic!PeerStep(c)
<1>1. \A frame : PeerSends(c, frame) => Atomic!PeerSends(c, frame)
  BY PeerSendsMaps
<1>2. CASE PeerRequest(c)
  <2>1. Atomic!PeerRequest(c)
    BY <1>1, <1>2 DEF PeerRequest, Atomic!PeerRequest, HasSent, Atomic!HasSent, Positions,
                      Atomic!Positions
  <2> QED
    BY <2>1 DEF Atomic!PeerStep
<1>3. CASE PeerAnswers(c)
  <2>1. Atomic!PeerAnswers(c)
    BY <1>1, <1>3 DEF PeerAnswers, Atomic!PeerAnswers, HasSent, Atomic!HasSent, Positions,
                      Atomic!Positions, AnswersTo, Atomic!AnswersTo
  <2> QED
    BY <2>1 DEF Atomic!PeerStep
<1>4. CASE PeerRepeats(c)
  <2>1. Atomic!PeerRepeats(c)
    BY <1>1, <1>4, SameTimes DEF PeerRepeats, Atomic!PeerRepeats, Positions, Atomic!Positions
  <2> QED
    BY <2>1 DEF Atomic!PeerStep
<1>5. CASE PeerSendsMalformed(c)
  <2>1. Atomic!PeerSendsMalformed(c)
    BY <1>1, <1>5 DEF PeerSendsMalformed, Atomic!PeerSendsMalformed, Positions, Atomic!Positions
  <2> QED
    BY <2>1 DEF Atomic!PeerStep
<1>6. CASE PeerCloses(c)
  <2>1. Atomic!PeerCloses(c)
    BY <1>6, PeerClosesTouches, PeerTouchesMaps, StillRuns
       DEF PeerCloses, Atomic!PeerCloses, table, process, Atomic!table, Atomic!process
  <2> QED
    BY <2>1 DEF Atomic!PeerStep
<1> QED
  BY <1>2, <1>3, <1>4, <1>5, <1>6 DEF PeerStep

LEMMA AcceptMaps ==
    ASSUME LockInv, NEW c \in Conns, Accept(c), UNCHANGED fine PROVE Atomic!Accept(c)
<1>1. Outside(c)
  BY AcceptIsOutside
<1>2. /\ AtomicPc' = [AtomicPc EXCEPT ![c] = "reading"] /\ AtomicOutbound' = AtomicOutbound
      /\ AtomicPc[c] = pc[c]
      /\ UNCHANGED <<AtomicId, AtomicPending, AtomicFlow>>
  BY <1>1, OutsideMaps, PcMoves, OutboundRests DEF Accept
<1> QED
  BY <1>2 DEF Accept, Atomic!Accept, table, process, Atomic!table, Atomic!process

LEMMA AcceptFailsMaps ==
    ASSUME LockInv, AcceptFails, UNCHANGED fine PROVE Atomic!AcceptFails
<1>1. /\ pc' = [c \in Conns |-> IF pc[c] \in Running THEN "killed" ELSE pc[c]]
      /\ outbound' = [c \in Conns |-> <<>>]
      /\ UNCHANGED <<table, received, toHost, flow>>
  BY DEF AcceptFails, peers
<1>2. UNCHANGED <<AtomicId, AtomicPending, AtomicFlow>>
  <2>1. LockInv'
    BY AcceptFailsKeeps
  <2>2. ASSUME NEW d \in Conns PROVE Same(d)
    BY <1>1 DEF Same, Frame, fine, table
  <2> QED
    BY <1>1, <2>1, <2>2, TableRests DEF table
<1>3. \A d \in Conns : pc'[d] # "handling"
  BY <1>1 DEF Running
<1>4. AtomicOutbound' = [d \in Conns |-> <<>>]
  BY <1>1, <1>3 DEF AtomicOutbound
<1>5. ASSUME NEW d \in Conns
      PROVE  AtomicPc'[d] = IF AtomicPc[d] \in Running THEN "killed" ELSE AtomicPc[d]
  BY <1>1, <1>3 DEF AtomicPc, Running
<1>6. AtomicPc' = [d \in Conns |-> IF AtomicPc[d] \in Running THEN "killed" ELSE AtomicPc[d]]
  BY <1>5 DEF AtomicPc
<1> QED
  BY <1>2, <1>4, <1>6
     DEF AcceptFails, Atomic!AcceptFails, Running, Atomic!Running, table, peers, Atomic!table,
         Atomic!peers

LEMMA NothingMoves ==
    ASSUME LockInv, UNCHANGED <<poisoned, next_request_id, pending_requests, flow, pc, outbound,
                                received, toHost, fine>>
    PROVE  UNCHANGED <<AtomicId, AtomicPending, AtomicFlow, AtomicPc, AtomicOutbound>>
<1>1. LockInv'
  BY StutterKeeps
<1>2. ASSUME NEW d \in Conns PROVE Same(d)
  BY DEF Same, Frame, fine
<1> QED
  BY <1>1, <1>2, TableRests, AllThreadsRest

LEMMA EnvironmentMaps == ASSUME LockInv, Environment PROVE Atomic!Next
<1>1. CASE StderrBreaks
  <2>1. Atomic!StderrBreaks
    BY <1>1, NothingMoves
       DEF Environment, StderrBreaks, Atomic!StderrBreaks, table, peers, Atomic!table, Atomic!peers
  <2> QED
    BY <2>1 DEF Atomic!Next
<1> QED
  BY <1>1, AcceptMaps, PeerStepMaps, AcceptFailsMaps DEF Environment, Atomic!Next

-----------------------------------------------------------------------------
(***************************************************************************)
(* Steps under the lock before the outcome is decided, or after it, change *)
(* nothing in ExtensionHost.                                               *)
(***************************************************************************)

atomically == <<AtomicId, AtomicPending, AtomicFlow, AtomicPc, AtomicOutbound>>

\* Elsewhere everybody is outside the lock and stays there.
LEMMA GoesLeavesOthers ==
    ASSUME LockInv, NEW c \in Conns, NEW now, NEW next, Goes(c, now, next),
           \A d \in Conns \ {c} : at[d] = "outside"
    PROVE  /\ at'[c] = next /\ Frame(c)' = Frame(c) /\ Answered(c)' = Answered(c)
           /\ \A d \in Conns \ {c} : Same(d) /\ at'[d] = "outside" /\ ~Pending(d) /\ ~Pending(d)'
           /\ UNCHANGED <<poisoned, serving, stderrOpen, received, toHost, peerOpen, wire>>
           /\ pc' = pc /\ outbound' = outbound
BY DEF Goes, LockInv, Shape, Frame, Answered, Same, Pending, process, peers

\* The outcome of the handler of c is as decided as it was.
LEMMA OutcomeRests ==
    ASSUME LockInv, NEW c \in Conns, NEW now, NEW next, Goes(c, now, next),
           \A d \in Conns \ {c} : at[d] = "outside",
           \/ ~Decided(c) /\ ~Decided(c)'
           \/ Decided(c) /\ Decided(c)' /\ Returned(c, IdOf(c))' = Returned(c, IdOf(c))
    PROVE  AtomicPc' = AtomicPc /\ AtomicOutbound' = AtomicOutbound
<1>1. /\ \A d \in Conns \ {c} : Same(d)
      /\ pc' = pc /\ outbound' = outbound
  BY GoesLeavesOthers
<1>2. \A d \in Conns \ {c} : AtomicPc'[d] = AtomicPc[d] /\ AtomicOutbound'[d] = AtomicOutbound[d]
  BY <1>1, ThreadRests
<1>3. AtomicPc'[c] = AtomicPc[c] /\ AtomicOutbound'[c] = AtomicOutbound[c]
  BY <1>1 DEF AtomicPc, AtomicOutbound
<1>4. /\ AtomicPc' = [d \in Conns |-> AtomicPc'[d]] /\ AtomicPc = [d \in Conns |-> AtomicPc[d]]
      /\ AtomicOutbound' = [d \in Conns |-> AtomicOutbound'[d]]
      /\ AtomicOutbound = [d \in Conns |-> AtomicOutbound[d]]
  BY DEF AtomicPc, AtomicOutbound
<1> QED
  BY <1>2, <1>3, <1>4

LEMMA LockRests == ASSUME LockInv, NEW c \in Conns, Lock(c) PROVE UNCHANGED atomically
<1>1. /\ Goes(c, "outside", "locked") /\ at[c] = "outside"
      /\ \A d \in Conns : at[d] = "outside"
      /\ UNCHANGED <<next_request_id, pending_requests, flow>>
  BY LockFree DEF Lock, Goes
<1>2. at'[c] = "locked" /\ \A d \in Conns \ {c} : at'[d] = "outside"
  BY <1>1, GoesLeavesOthers
<1>3. PlainTable /\ PlainTable'
  <2>1. LockInv'
    BY LockKeeps
  <2> QED
    BY <1>1, <1>2, <2>1, WhenPlain, WhenPlainAfter DEF Pending
<1>4. AtomicPc' = AtomicPc /\ AtomicOutbound' = AtomicOutbound
  BY <1>1, <1>2, OutcomeRests DEF Decided
<1> QED
  BY <1>1, <1>3, <1>4 DEF PlainTable, atomically

LEMMA TakeRests == ASSUME LockInv, NEW c \in Conns, Take(c) PROVE UNCHANGED atomically
<1> DEFINE id == Answered(c)
<1>1. /\ Goes(c, "locked", "taken") /\ at[c] = "locked" /\ id \in DOMAIN pending_requests
      /\ entry' = [entry EXCEPT ![c] = <<pending_requests[id]>>]
      /\ pending_requests' = Remove(pending_requests, id)
      /\ UNCHANGED <<next_request_id, flow>>
  BY DEF Take, Goes
<1>2. \A d \in Conns \ {c} : at[d] = "outside"
  BY <1>1, LockedAlone
<1>3. at'[c] = "taken" /\ id' = id /\ entry'[c][1] = pending_requests[id]
  BY <1>1, <1>2, GoesLeavesOthers DEF LockInv, Shape
<1>4. PlainTable
  BY <1>1, <1>2, WhenPlain DEF Pending
<1>5. TakenTable(c)'
  <2>1. LockInv'
    BY TakeKeeps
  <2> QED
    BY <1>3, <2>1, WhenTakenAfter
<1>6. Insert(pending_requests', id, entry'[c][1]) = pending_requests
  BY <1>1, <1>3, InsertRemoved DEF LockInv, Shape
<1>7. AtomicPc' = AtomicPc /\ AtomicOutbound' = AtomicOutbound
  BY <1>1, <1>2, <1>3, OutcomeRests DEF Decided
<1> QED
  BY <1>1, <1>3, <1>4, <1>5, <1>6, <1>7 DEF PlainTable, TakenTable, atomically

LEMMA StoreRests == ASSUME LockInv, NEW c \in Conns, Store(c) PROVE UNCHANGED atomically
<1>1. /\ Goes(c, "drawn", "stored") /\ at[c] = "drawn"
      /\ pending_requests' = Insert(pending_requests, drawn[c], Stored(c))
      /\ flow' = Insert(flow, drawn[c], Origin(c))
      /\ UNCHANGED <<next_request_id, entry, drawn>>
  BY DEF Store, Goes
<1>2. \A d \in Conns \ {c} : at[d] = "outside"
  BY <1>1, LockedAlone
<1>3. at'[c] = "stored" /\ Frame(c)' = Frame(c) /\ \A d \in Conns \ {c} : at'[d] = "outside"
  BY <1>1, <1>2, GoesLeavesOthers
<1>4. OpenTable(c) /\ IdOf(c) = drawn[c]
  BY <1>1, WhenOpen DEF Pending, LockInv, HandlerInv, IdOf
<1>5. PlainTable'
  <2>1. LockInv'
    BY StoreKeeps
  <2> QED
    BY <1>3, <2>1, WhenPlainAfter DEF Pending
<1>6. Decided(c) /\ Decided(c)' /\ Returned(c, IdOf(c))' = Returned(c, IdOf(c))
  <2>1. (Draws(c)' <=> Draws(c)) /\ (Registering(c)' <=> Registering(c))
    BY <1>1, <1>3 DEF Draws, Registering
  <2>2. IdOf(c)' = drawn[c]
    BY <1>1, <1>3 DEF IdOf
  <2> QED
    BY <1>1, <1>3, <1>4, <2>1, <2>2 DEF Decided, Returned
<1>7. AtomicPc' = AtomicPc /\ AtomicOutbound' = AtomicOutbound
  BY <1>1, <1>2, <1>6, OutcomeRests
<1> QED
  BY <1>1, <1>4, <1>5, <1>7 DEF PlainTable, OpenTable, atomically

\* After its trace line a handler that sends another request draws the id that
\* ExtensionHost has already given it.
LEMMA DrawRests ==
    ASSUME LockInv, NEW c \in Conns, Draw(c), at[c] = "traced" PROVE UNCHANGED atomically
<1>1. /\ Goes(c, "traced", "drawn") /\ Draws(c)
      /\ drawn' = [drawn EXCEPT ![c] = next_request_id]
      /\ next_request_id' = next_request_id + 1
      /\ UNCHANGED <<pending_requests, flow, entry>>
  BY DEF Draw, Goes, IdAfter
<1>2. \A d \in Conns \ {c} : at[d] = "outside"
  BY LockedAlone
<1>3. /\ at'[c] = "drawn" /\ Frame(c)' = Frame(c) /\ Answered(c)' = Answered(c)
      /\ drawn'[c] = next_request_id
  BY <1>1, <1>2, GoesLeavesOthers DEF LockInv, Shape
<1>4. (Draws(c)' <=> Draws(c)) /\ (Registering(c)' <=> Registering(c))
  BY <1>1, <1>3 DEF Draws, Registering
<1>5. IdOf(c) = next_request_id /\ IdOf(c)' = next_request_id
  BY <1>3 DEF IdOf
<1>6. Stored(c)' = Stored(c) /\ Origin(c)' = Origin(c)
  BY <1>1, <1>3 DEF Stored, Origin
<1>7. OpenTable(c) /\ OpenTable(c)'
  <2>1. LockInv'
    BY DrawKeeps
  <2> QED
    BY <1>1, <1>3, <1>4, <2>1, WhenOpen, WhenOpenAfter DEF Pending
<1>8. Returned(c, IdOf(c))' = Returned(c, IdOf(c))
  BY <1>1, <1>3, <1>4, <1>5 DEF Returned
<1>9. AtomicPc' = AtomicPc /\ AtomicOutbound' = AtomicOutbound
  BY <1>1, <1>2, <1>3, <1>8, OutcomeRests DEF Decided
<1> QED
  BY <1>1, <1>3, <1>5, <1>6, <1>7, <1>9 DEF OpenTable, atomically

\* When the handler is left, what it returned has long been decided.
LEMMA LeaveRests == ASSUME LockInv, NEW c \in Conns, Leave(c) PROVE UNCHANGED atomically
<1> DEFINE frames == Returned(c, drawn[c])
<1>1. /\ pc[c] = "handling" /\ Return(c, frames)
      /\ at[c] = "stored" \/ (at[c] = "traced" /\ ~Draws(c))
      /\ at' = [at EXCEPT ![c] = "outside"]
      /\ UNCHANGED <<next_request_id, pending_requests, flow, received, toHost, entry, drawn>>
  BY DEF Leave, Drops, peers
<1>2. \A d \in Conns \ {c} : at[d] = "outside"
  BY <1>1, LockedAlone
<1>3. \A d \in Conns : at'[d] = "outside"
  BY <1>1, <1>2 DEF LockInv, Shape
<1>4. PlainTable /\ PlainTable'
  <2>1. LockInv'
    BY LeavesKeep
  <2> QED
    BY <1>1, <1>2, <1>3, <2>1, WhenPlain, WhenPlainAfter DEF Pending
<1>5. Returned(c, IdOf(c)) = frames
  <2>1. CASE at[c] = "stored"
    BY <2>1 DEF IdOf
  <2>2. CASE at[c] = "traced" /\ ~Draws(c)
    <3>1. Frame(c).kind = "answer"
      BY <2>2 DEF LockInv, HandlerInv
    <3> QED
      BY <2>2, <3>1 DEF Returned
  <2> QED
    BY <1>1, <2>1, <2>2
<1>6. /\ AtomicOutbound[c] = frames
      /\ AtomicPc[c] = IF frames = <<>> THEN "reading" ELSE "writing"
  BY <1>1, <1>5 DEF AtomicPc, AtomicOutbound, Decided
<1>7. AtomicOutbound'[c] = frames /\ AtomicPc'[c] = IF frames = <<>> THEN "reading" ELSE "writing"
  BY <1>1, <1>3 DEF AtomicPc, AtomicOutbound, Decided, Return, LockInv, Shape
<1>8. ASSUME NEW d \in Conns \ {c}
      PROVE  AtomicPc'[d] = AtomicPc[d] /\ AtomicOutbound'[d] = AtomicOutbound[d]
  <2>1. Same(d) /\ pc'[d] = pc[d] /\ outbound'[d] = outbound[d]
    BY <1>1, <1>2, <1>3 DEF Same, Return, LockInv, Shape
  <2> QED
    BY <2>1, ThreadRests
<1>9. /\ AtomicPc' = [d \in Conns |-> AtomicPc'[d]] /\ AtomicPc = [d \in Conns |-> AtomicPc[d]]
      /\ AtomicOutbound' = [d \in Conns |-> AtomicOutbound'[d]]
      /\ AtomicOutbound = [d \in Conns |-> AtomicOutbound[d]]
  BY DEF AtomicPc, AtomicOutbound
<1>10. AtomicPc' = AtomicPc /\ AtomicOutbound' = AtomicOutbound
  BY <1>6, <1>7, <1>8, <1>9
<1> QED
  BY <1>1, <1>4, <1>10 DEF PlainTable, atomically

-----------------------------------------------------------------------------
(* The steps that decide an outcome are the handlers of ExtensionHost. *)

LEMMA SameOperators ==
    /\ \A t, id, e : Atomic!Insert(t, id, e) = Insert(t, id, e)
    /\ \A t, id : Atomic!Remove(t, id) = Remove(t, id)
    /\ \A f : Atomic!RegisterPending(f) = RegisterPending(f)
    /\ \A p : Atomic!SettingsPending(p) = SettingsPending(p)
    /\ \A p : Atomic!InitializeResponse(p) = InitializeResponse(p)
    /\ \A id, f : Atomic!RegisterRequest(id, f) = RegisterRequest(id, f)
    /\ \A id, p : Atomic!SettingsRequest(id, p) = SettingsRequest(id, p)
    /\ \A id : Atomic!IdAfter(id) = id + 1
    /\ \A f : Atomic!Acknowledges(f) <=> Acknowledges(f)
    /\ \A c : Atomic!Frame(c) = Frame(c)
    /\ (Atomic!LockState <=> ~poisoned) /\ (Atomic!TraceBreaks <=> TraceBreaks)
BY DEF Insert, Remove, Restrict, RegisterPending, SettingsPending, InitializeResponse,
       RegisterRequest, SettingsRequest, Acknowledges, Frame, TraceBreaks,
       Atomic!Insert, Atomic!Remove, Atomic!Restrict, Atomic!RegisterPending,
       Atomic!SettingsPending, Atomic!InitializeResponse, Atomic!RegisterRequest,
       Atomic!SettingsRequest, Atomic!IdAfter, Atomic!Acknowledges, Atomic!Frame,
       Atomic!LockState, Atomic!TraceBreaks

\* The outcome is decided: from here on the thread has returned.
LEMMA DecidesReturn ==
    ASSUME LockInv, NEW c \in Conns, NEW now, NEW next, Goes(c, now, next),
           \A d \in Conns \ {c} : at[d] = "outside",
           ~Decided(c), Decided(c)', NEW frames, Returned(c, IdOf(c))' = frames
    PROVE  Atomic!Return(c, frames) /\ AtomicPc[c] = "handling"
<1>1. /\ \A d \in Conns \ {c} : Same(d)
      /\ pc' = pc /\ outbound' = outbound /\ pc[c] = "handling"
  BY GoesLeavesOthers DEF Goes
<1>2. \A d \in Conns \ {c} : AtomicPc'[d] = AtomicPc[d] /\ AtomicOutbound'[d] = AtomicOutbound[d]
  BY <1>1, ThreadRests
<1>3. /\ AtomicOutbound'[c] = frames
      /\ AtomicPc'[c] = IF frames = <<>> THEN "reading" ELSE "writing"
  BY <1>1 DEF AtomicPc, AtomicOutbound
<1>4. /\ AtomicPc' = [d \in Conns |-> AtomicPc'[d]] /\ AtomicPc = [d \in Conns |-> AtomicPc[d]]
      /\ AtomicOutbound' = [d \in Conns |-> AtomicOutbound'[d]]
      /\ AtomicOutbound = [d \in Conns |-> AtomicOutbound[d]]
  BY DEF AtomicPc, AtomicOutbound
<1>5. AtomicPc[c] = "handling"
  BY <1>1, PlainThread
<1> QED
  BY <1>2, <1>3, <1>4, <1>5 DEF Atomic!Return

LEMMA DrawMaps ==
    ASSUME LockInv, NEW c \in Conns, Draw(c), at[c] = "locked"
    PROVE  Atomic!HandleInitializeExtension(c)
<1>1. /\ Goes(c, "locked", "drawn") /\ Frame(c).kind = "request"
      /\ drawn' = [drawn EXCEPT ![c] = next_request_id]
      /\ next_request_id' = next_request_id + 1
      /\ UNCHANGED <<pending_requests, flow, entry>>
  BY DEF Draw, Goes, IdAfter
<1>2. \A d \in Conns \ {c} : at[d] = "outside"
  BY LockedAlone
<1>3. /\ at'[c] = "drawn" /\ Frame(c)' = Frame(c) /\ drawn'[c] = next_request_id
      /\ UNCHANGED <<poisoned, serving, stderrOpen, received, toHost, peerOpen, wire>>
  BY <1>1, <1>2, GoesLeavesOthers DEF LockInv, Shape
<1>4. ~poisoned /\ AsksForInit(Frame(c))
  BY <1>1 DEF LockInv, HandlerInv
<1>5. Draws(c)' /\ IdOf(c)' = next_request_id
  BY <1>1, <1>3 DEF Draws, IdOf
<1>6. /\ Stored(c)' = RegisterPending(Frame(c))
      /\ Origin(c)' = [conn |-> c, init |-> Frame(c)]
      /\ Returned(c, IdOf(c))' = <<RegisterRequest(next_request_id, Frame(c))>>
  BY <1>1, <1>3, <1>5 DEF Stored, Origin, Returned
<1>7. PlainTable /\ OpenTable(c)'
  <2>1. LockInv'
    BY DrawKeeps
  <2> QED
    BY <1>2, <1>3, <1>5, <2>1, WhenPlain, WhenOpenAfter DEF Pending
<1>8. /\ Atomic!Return(c, <<RegisterRequest(next_request_id, Frame(c))>>)
      /\ AtomicPc[c] = "handling"
  BY <1>1, <1>2, <1>3, <1>6, DecidesReturn DEF Decided
<1>9. /\ AtomicId = next_request_id /\ AtomicId' = next_request_id + 1
      /\ AtomicPending' = Insert(AtomicPending, AtomicId, RegisterPending(Frame(c)))
      /\ AtomicFlow' = Insert(AtomicFlow, AtomicId, [conn |-> c, init |-> Frame(c)])
  BY <1>1, <1>3, <1>5, <1>6, <1>7 DEF PlainTable, OpenTable
<1>10. Atomic!HandlingRequest(c, "DISCOVERY_EXTENSIONS")
  BY <1>3, <1>4, <1>8, SameOperators
     DEF Atomic!HandlingRequest, AsksForInit, Atomic!process, Atomic!peers
<1> QED
  BY <1>3, <1>4, <1>8, <1>9, <1>10, SameOperators
     DEF Atomic!HandleInitializeExtension, AsksForInit

\* With the entry taken, the continuation is still to be had in ExtensionHost.
LEMMA TakenPending ==
    ASSUME LockInv, NEW c \in Conns, pc[c] = "handling", at[c] = "taken",
           UNCHANGED <<serving, stderrOpen, received, toHost, peerOpen, wire>>
    PROVE  /\ Atomic!TakePending(c, entry[c][1].kind)
           /\ AtomicPending[Answered(c)] = entry[c][1]
           /\ Remove(AtomicPending, Answered(c)) = pending_requests
           /\ AtomicId = next_request_id /\ AtomicFlow = flow
<1>1. /\ Frame(c).kind = "answer" /\ ~poisoned
      /\ Answered(c) \notin DOMAIN pending_requests
      /\ IsTable(pending_requests)
  BY DEF LockInv, HandlerInv, Shape
<1>2. TakenTable(c)
  BY WhenTaken
<1>3. Answered(c) \in DOMAIN AtomicPending /\ AtomicPending[Answered(c)] = entry[c][1]
  BY <1>2 DEF TakenTable, Insert
<1>4. Remove(AtomicPending, Answered(c)) = pending_requests
  BY <1>1, <1>2, RemoveInserted DEF TakenTable
<1>5. AtomicPc[c] = "handling"
  BY PlainThread DEF Decided
<1>6. Atomic!TakePending(c, entry[c][1].kind)
  BY <1>1, <1>3, <1>5, SameOperators
     DEF Atomic!TakePending, Atomic!HandlingAnswer, Atomic!process, Atomic!peers, Answered
<1> QED
  BY <1>2, <1>3, <1>4, <1>6 DEF TakenTable

LEMMA TraceMaps == ASSUME LockInv, NEW c \in Conns, Trace(c) PROVE Atomic!HandleAnswer(c)
<1> DEFINE pending == entry[c][1]
           answered == Answered(c)
<1>1. /\ Goes(c, "taken", "traced") /\ pc[c] = "handling" /\ at[c] = "taken"
      /\ ~(Registering(c) /\ Frame(c).body = "undecodable") /\ ~TraceBreaks
      /\ UNCHANGED <<next_request_id, pending_requests, flow, entry, drawn>>
  BY DEF Trace, Goes
<1>2. \A d \in Conns \ {c} : at[d] = "outside"
  BY <1>1, LockedAlone
<1>3. /\ at'[c] = "traced" /\ Frame(c)' = Frame(c) /\ answered' = answered
      /\ \A d \in Conns \ {c} : at'[d] = "outside"
      /\ UNCHANGED <<poisoned, serving, stderrOpen, received, toHost, peerOpen, wire>>
  BY <1>1, <1>2, GoesLeavesOthers
<1>4. (Draws(c)' <=> Draws(c)) /\ (Registering(c)' <=> Registering(c))
  BY <1>1, <1>3 DEF Draws, Registering
<1>5. Frame(c).kind = "answer" /\ pending.kind \in Kinds /\ IdOf(c)' = next_request_id
  BY <1>1, <1>3 DEF LockInv, HandlerInv, IdOf
<1>6. /\ Atomic!TakePending(c, pending.kind)
      /\ AtomicPending[answered] = pending
      /\ Remove(AtomicPending, answered) = pending_requests
      /\ AtomicId = next_request_id /\ AtomicFlow = flow
  BY <1>1, <1>3, TakenPending
<1>7. LockInv'
  BY TraceKeeps
<1>8. \A frames : Returned(c, IdOf(c))' = frames => Atomic!Return(c, frames)
  BY <1>1, <1>2, <1>3, DecidesReturn DEF Decided
<1>9. CASE Draws(c)
  <2>1. Registering(c) /\ Acknowledges(Frame(c))
    BY <1>5, <1>9 DEF Draws
  <2>2. /\ Stored(c)' = SettingsPending(pending) /\ Origin(c)' = flow[answered]
        /\ Returned(c, IdOf(c))' = <<SettingsRequest(next_request_id, pending)>>
    <3>1. entry'[c][1] = pending /\ Frame(c)' = Frame(c) /\ Frame(c).kind = "answer"
      BY <1>1, <1>3, <1>5
    <3>2. Stored(c)' = SettingsPending(pending)
      BY <3>1 DEF Stored, SettingsPending
    <3>3. Origin(c)' = flow[answered]
      BY <1>1, <1>3, <3>1 DEF Origin
    <3>4. Returned(c, IdOf(c))' = <<SettingsRequest(next_request_id, pending)>>
      BY <1>4, <1>5, <1>9, <2>1, <3>1 DEF Returned, SettingsRequest
    <3> QED
      BY <3>2, <3>3, <3>4
  <2>3. OpenTable(c)'
    BY <1>3, <1>4, <1>7, <1>9, WhenOpenAfter DEF Pending
  <2>4. /\ AtomicId' = next_request_id + 1
        /\ AtomicPending' = Insert(pending_requests, next_request_id, SettingsPending(pending))
        /\ AtomicFlow' = Insert(flow, next_request_id, flow[answered])
    BY <1>1, <1>3, <1>5, <2>2, <2>3 DEF OpenTable
  <2>5. Atomic!RegistrationAcknowledged(c)
    BY <1>1, <1>3, <1>6, <1>8, <2>1, <2>2, <2>4, SameOperators
       DEF Atomic!RegistrationAcknowledged, Registering, Answered
  <2> QED
    BY <2>5 DEF Atomic!HandleAnswer
<1>10. CASE ~Draws(c)
  <2>1. PlainTable'
    BY <1>2, <1>3, <1>4, <1>7, <1>10, WhenPlainAfter DEF Pending
  <2>2. AtomicId' = AtomicId /\ AtomicPending' = Remove(AtomicPending, answered)
        /\ AtomicFlow' = AtomicFlow
    BY <1>1, <1>6, <2>1 DEF PlainTable
  <2>3. CASE Registering(c)
    <3>1. Frame(c).body # "undecodable" /\ ~Acknowledges(Frame(c))
      BY <1>1, <1>5, <1>10, <2>3 DEF Draws
    <3>2. Returned(c, IdOf(c))' = <<>>
      BY <1>3, <1>4, <1>5, <1>10, <2>3 DEF Returned
    <3>3. Atomic!RegistrationRefused(c)
      BY <1>1, <1>3, <1>6, <1>8, <2>2, <2>3, <3>1, <3>2, SameOperators
         DEF Atomic!RegistrationRefused, Registering, Answered
    <3> QED
      BY <3>3 DEF Atomic!HandleAnswer
  <2>4. CASE ~Registering(c)
    <3>1. Returned(c, IdOf(c))' = <<InitializeResponse(pending)>>
      BY <1>1, <1>3, <1>4, <1>5, <1>10, <2>4 DEF Returned
    <3>2. pending.kind = "EnvironmentSettings"
      BY <1>5, <2>4 DEF Kinds, Registering
    <3>3. Atomic!EnvironmentSettingsReceived(c)
      BY <1>1, <1>3, <1>6, <1>8, <2>2, <3>1, <3>2, SameOperators
         DEF Atomic!EnvironmentSettingsReceived, Answered
    <3> QED
      BY <3>3 DEF Atomic!HandleAnswer
  <2> QED
    BY <2>3, <2>4
<1> QED
  BY <1>9, <1>10

\* The thread leaves the lock before anything but the removal has happened.
LEMMA DropsMaps ==
    ASSUME LockInv, LockInv', NEW c \in Conns, NEW now \in {"locked", "taken"}, Drops(c, now)
    PROVE  /\ ~Decided(c) /\ at'[c] = "outside" /\ \A d \in Conns \ {c} : Same(d)
           /\ AtomicId' = next_request_id /\ AtomicPending' = pending_requests
           /\ AtomicFlow' = flow
           /\ UNCHANGED <<serving, stderrOpen, received, toHost, peerOpen, wire>>
<1>1. /\ at[c] = now /\ at' = [at EXCEPT ![c] = "outside"]
      /\ UNCHANGED <<serving, stderrOpen, received, toHost, peerOpen, wire>>
      /\ UNCHANGED <<next_request_id, pending_requests, flow>>
  BY DEF Drops, process, peers
<1>2. \A d \in Conns \ {c} : at[d] = "outside"
  BY <1>1, LockedAlone
<1>3. at'[c] = "outside" /\ \A d \in Conns \ {c} : at'[d] = "outside" /\ Same(d)
  BY <1>1, <1>2 DEF LockInv, Shape, Same
<1>4. PlainTable'
  BY <1>3, WhenPlainAfter DEF Pending
<1> QED
  BY <1>1, <1>3, <1>4 DEF PlainTable, Decided

LEMMA NothingToTakeMaps ==
    ASSUME LockInv, NEW c \in Conns, NothingToTake(c) PROVE Atomic!IgnoreUnknownAnswer(c)
<1>1. /\ Drops(c, "locked") /\ at[c] = "locked" /\ pc[c] = "handling" /\ Return(c, <<>>)
      /\ Frame(c).kind = "answer" /\ Answered(c) \notin DOMAIN pending_requests
      /\ poisoned' = poisoned
  BY DEF NothingToTake, Drops
<1>2. ~poisoned
  BY <1>1 DEF LockInv, HandlerInv
<1>3. PlainTable
  BY <1>1, LockedAlone, WhenPlain DEF Pending
<1>4. LockInv'
  BY LeavesKeep
<1>5. /\ ~Decided(c) /\ at'[c] = "outside" /\ \A d \in Conns \ {c} : Same(d)
      /\ AtomicId' = next_request_id /\ AtomicPending' = pending_requests /\ AtomicFlow' = flow
      /\ UNCHANGED <<serving, stderrOpen, received, toHost, peerOpen, wire>>
  BY <1>1, <1>4, DropsMaps
<1>6. Atomic!Return(c, <<>>) /\ AtomicPc[c] = "handling"
  BY <1>1, <1>5, ReturnMaps, PlainThread
<1> QED
  BY <1>1, <1>2, <1>3, <1>5, <1>6, SameOperators
     DEF Atomic!IgnoreUnknownAnswer, Atomic!HandlingAnswer, PlainTable, Atomic!table,
         Atomic!process, Atomic!peers, Answered

LEMMA GivesUpMaps ==
    ASSUME LockInv, NEW c \in Conns, Undecodable(c) \/ TracePanics(c)
    PROVE  Atomic!HandleAnswer(c)
<1>1. Drops(c, "taken") /\ at[c] = "taken" /\ pc[c] = "handling"
  BY DEF Undecodable, TracePanics, Drops
<1>2. LockInv'
  BY LeavesKeep
<1>3. /\ ~Decided(c) /\ at'[c] = "outside" /\ \A d \in Conns \ {c} : Same(d)
      /\ AtomicId' = next_request_id /\ AtomicPending' = pending_requests /\ AtomicFlow' = flow
      /\ UNCHANGED <<serving, stderrOpen, received, toHost, peerOpen, wire>>
  BY <1>1, <1>2, DropsMaps
<1>4. /\ Atomic!TakePending(c, entry[c][1].kind)
      /\ Remove(AtomicPending, Answered(c)) = pending_requests
      /\ AtomicId = next_request_id /\ AtomicFlow = flow
  BY <1>1, <1>3, TakenPending
<1>5. \A how : EndThread(c, how) => Atomic!EndThread(c, how)
  BY <1>3, EndMaps
<1>6. CASE Undecodable(c)
  <2>1. /\ entry[c][1].kind = "RegisterRestActions" /\ Frame(c).body = "undecodable"
        /\ EndThread(c, "error") /\ poisoned' = poisoned
    BY <1>6 DEF Undecodable, Registering
  <2>2. Atomic!AcknowledgementFails(c)
    BY <1>3, <1>4, <1>5, <2>1, SameOperators DEF Atomic!AcknowledgementFails, Answered
  <2> QED
    BY <2>2 DEF Atomic!HandleAnswer
<1>7. CASE TracePanics(c)
  <2>1. /\ ~(entry[c][1].kind = "RegisterRestActions" /\ Frame(c).body = "undecodable")
        /\ TraceBreaks /\ EndThread(c, "panicked") /\ poisoned' = TRUE
    BY <1>7 DEF TracePanics, Registering
  <2>2. entry[c][1].kind \in Kinds
    BY <1>1 DEF LockInv, HandlerInv
  <2>3. \/ Atomic!TakePending(c, "RegisterRestActions") /\ Frame(c).body # "undecodable"
        \/ Atomic!TakePending(c, "EnvironmentSettings")
    BY <1>4, <2>1, <2>2 DEF Kinds
  <2>4. Atomic!TracePoisons(c)
    BY <1>3, <1>4, <1>5, <2>1, <2>3, SameOperators DEF Atomic!TracePoisons, Answered
  <2> QED
    BY <2>4 DEF Atomic!HandleAnswer
<1> QED
  BY <1>6, <1>7

LEMMA LockFailsMaps ==
    ASSUME LockInv, NEW c \in Conns, LockFails(c)
    PROVE  Atomic!HandleRequest(c) \/ Atomic!HandleAnswer(c)
<1>1. Outside(c)
  BY LockFailsIsOutside
<1>2. /\ NeedsLock(c) /\ poisoned /\ EndThread(c, "error")
      /\ UNCHANGED <<table, process, received, peers, wire, flow>>
  BY DEF LockFails, LockState
<1>3. CASE Frame(c).kind = "answer"
  <2>1. Atomic!EndThread(c, "error")
    BY <1>1, <1>2, OutsideMaps, EndMaps
  <2>2. Atomic!AnswerAfterPoison(c)
    BY <1>1, <1>2, <1>3, <2>1, OutsideMaps, SameOperators
       DEF NeedsLock, Atomic!AnswerAfterPoison, Atomic!HandlingAnswer, table, process, peers,
           Atomic!table, Atomic!process, Atomic!peers
  <2> QED
    BY <2>2 DEF Atomic!HandleAnswer
<1>4. CASE Frame(c).kind # "answer"
  <2>1. InitializeExtensionFails(c)
    BY <1>2, <1>4 DEF NeedsLock, InitializeExtensionFails, HandlingRequest, LockState
  <2> QED
    BY <1>1, <2>1, InitFailsMaps DEF Atomic!HandleRequest
<1> QED
  BY <1>3, <1>4

-----------------------------------------------------------------------------

\* Under the mutex as the code takes it, with any number of connections and
\* whatever happens under the lock, no thread sees the table between two steps
\* of another thread's handler: the host behaves as ExtensionHost, whose
\* handlers are single steps.
THEOREM LockMakesAtomic == LockSpec => HandlersAreAtomic
<1>1. LockInit => Atomic!Init
  <2> SUFFICES ASSUME LockInit PROVE Atomic!Init
    OBVIOUS
  <2>1. /\ AtomicId = next_request_id /\ AtomicPending = pending_requests /\ AtomicFlow = flow
    BY DEF LockInit, AtomicId, AtomicPending, AtomicFlow, Pending
  <2>2. AtomicPc = [c \in Conns |-> "unopened"] /\ AtomicOutbound = [c \in Conns |-> <<>>]
    BY DEF LockInit, Init, AtomicPc, AtomicOutbound
  <2> QED
    BY <2>1, <2>2 DEF LockInit, Init, Atomic!Init
<1>2. LockInv /\ [LockNext]_<<vars, fine>> => [Atomic!Next]_(Atomic!vars)
  <2> SUFFICES ASSUME LockInv, [LockNext]_<<vars, fine>>
               PROVE  Atomic!Next \/ UNCHANGED Atomic!vars
    OBVIOUS
  <2>1. ASSUME NEW c \in Conns, LockStep(c) PROVE Atomic!Next \/ UNCHANGED Atomic!vars
    <3>1. CASE Lock(c) \/ Take(c) \/ Store(c) \/ Leave(c) \/ (Draw(c) /\ at[c] = "traced")
      <4>1. UNCHANGED atomically
        BY <3>1, LockRests, TakeRests, StoreRests, LeaveRests, DrawRests
      <4>2. UNCHANGED <<serving, stderrOpen, poisoned, received, toHost, wire, peerOpen>>
        BY <3>1 DEF Lock, Take, Store, Leave, Draw, Goes, Drops, process, peers
      <4> QED
        BY <4>1, <4>2 DEF atomically, Atomic!vars
    <3>2. CASE LockFails(c)
      BY <3>2, LockFailsMaps DEF Atomic!Next, Atomic!ThreadStep
    <3>3. CASE NothingToTake(c)
      BY <3>3, NothingToTakeMaps DEF Atomic!Next, Atomic!ThreadStep, Atomic!HandleAnswer
    <3>4. CASE Undecodable(c) \/ TracePanics(c)
      BY <3>4, GivesUpMaps DEF Atomic!Next, Atomic!ThreadStep
    <3>5. CASE Trace(c)
      BY <3>5, TraceMaps DEF Atomic!Next, Atomic!ThreadStep
    <3>6. CASE Draw(c) /\ at[c] = "locked"
      BY <3>6, DrawMaps DEF Atomic!Next, Atomic!ThreadStep, Atomic!HandleRequest
    <3>7. Draw(c) => at[c] \in {"locked", "traced"}
      BY DEF Draw, Goes
    <3> QED
      BY <2>1, <3>1, <3>2, <3>3, <3>4, <3>5, <3>6, <3>7 DEF LockStep
  <2>2. ASSUME NEW c \in Conns, Elsewhere(c) PROVE Atomic!Next
    BY <2>2, ElsewhereMaps DEF Atomic!Next
  <2>3. CASE UNCHANGED <<vars, fine>>
    <3>1. UNCHANGED <<AtomicId, AtomicPending, AtomicFlow, AtomicPc, AtomicOutbound>>
      BY <2>3, NothingMoves DEF vars
    <3> QED
      BY <2>3, <3>1 DEF vars, Atomic!vars
  <2> QED
    BY <2>1, <2>2, <2>3, EnvironmentMaps DEF LockNext
<1> QED
  BY <1>1, <1>2, LockInvariant, PTL DEF LockSpec, HandlersAreAtomic, Atomic!Spec

=============================================================================
