------------------------------ MODULE InitFlow ------------------------------
(***************************************************************************)
(* What the host promises to the peers that initialize the extension: each *)
(* init request makes its own way through registration and settings to an  *)
(* answer, and the end of a connection gives up only the unanswered ones   *)
(* of that connection.                                                     *)
(***************************************************************************)
CONSTANTS Conns, InitIds

VARIABLE status  \* of the init request with a given id on a given connection

Flows == Conns \X InitIds

Statuses == {"idle", "registering", "configuring", "replying", "answered",
             "refused", "abandoned"}

TypeOK == status \in [Flows -> Statuses]

Init == status = [f \in Flows |-> "idle"]

Moves(f, from, to) ==
    /\ status[f] = from
    /\ status' = [status EXCEPT ![f] = to]

\* The host asks the peer to register the extension's REST actions.
Register(f) == Moves(f, "idle", "registering")

\* The peer has acknowledged; the host asks for the environment settings.
Configure(f) == Moves(f, "registering", "configuring")

\* The peer has not acknowledged: nothing more happens for this request.
Refuse(f) == Moves(f, "registering", "refused")

\* The settings are there; the answer is on its way.
Reply(f) == Moves(f, "configuring", "replying")

Answer(f) == Moves(f, "replying", "answered")

\* The threads of some connections end, all of them when the process does.
ConnectionsEnd(conns) ==
    status' = [f \in Flows |->
                  IF f[1] \in conns /\ status[f] # "answered" THEN "abandoned" ELSE status[f]]

Next ==
    \/ \E f \in Flows :
          Register(f) \/ Configure(f) \/ Refuse(f) \/ Reply(f) \/ Answer(f)
    \/ \E conns \in SUBSET Conns : ConnectionsEnd(conns)

Spec == Init /\ [][Next]_status

=============================================================================
