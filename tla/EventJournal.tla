---------------------------- MODULE EventJournal ----------------------------
(***************************************************************************)
(* What the mutation history of a knowledge-graph store promises its       *)
(* readers: one sequence of immutable events, grown one whole event at a   *)
(* time, each carrying its own position and the digest of the event that   *)
(* last spoke about the same object.  Who appends, how the bytes reach the *)
(* disk and what may go wrong there is the business of EventLog, which     *)
(* implements this module.                                                 *)
(***************************************************************************)
EXTENDS EventRecords

VARIABLE hist

Init == hist = << >>

Record(o, d, p) ==
    LET e == [seq |-> Len(hist) + 1, object |-> o, prior |-> d, new |-> p]
    IN  /\ Extends(hist, Len(hist), e)
        /\ hist' = Append(hist, e)

Next == \E o \in Objects, d \in Digest, p \in Payloads : Record(o, d, p)

Spec == Init /\ [][Next]_hist
=============================================================================
