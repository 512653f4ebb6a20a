---------------------------- MODULE FrameChannel ----------------------------
(***************************************************************************)
(* What a connection thread may assume of the frames it reads: they are    *)
(* those its peer sent, whole, in order and without gaps; a malformed one  *)
(* ends the reading when its turn comes and in the way its defect says.    *)
(***************************************************************************)
EXTENDS Naturals, Sequences

CONSTANTS Items, Outcome(_)

VARIABLES sent, taken, ended

Init ==
    /\ sent = <<>>
    /\ taken = <<>>
    /\ ended = "reading"

Send ==
    /\ \E item \in Items : sent' = Append(sent, item)
    /\ UNCHANGED <<taken, ended>>

Turn == sent[Len(taken) + 1]

Take ==
    /\ ended = "reading"
    /\ Len(taken) < Len(sent)
    /\ Turn.defect = "none"
    /\ taken' = Append(taken, Turn.frame)
    /\ UNCHANGED <<sent, ended>>

Stumble ==
    /\ ended = "reading"
    /\ Len(taken) < Len(sent)
    /\ Turn.defect # "none"
    /\ ended' = Outcome(Turn.defect)
    /\ UNCHANGED <<sent, taken>>

\* The connection ends, possibly before everything sent has arrived.
End ==
    /\ ended = "reading"
    /\ ended' \in {"closed", "error"}
    /\ UNCHANGED <<sent, taken>>

Next == Send \/ Take \/ Stumble \/ End

Spec == Init /\ [][Next]_<<sent, taken, ended>>

=============================================================================
