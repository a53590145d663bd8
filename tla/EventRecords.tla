---------------------------- MODULE EventRecords ----------------------------
(***************************************************************************)
(* The record src/versum/events.py writes for one mutation, reduced to     *)
(* what its reader validates: position, object, prior and new digest.      *)
(* The type, the time and the content-derived id add nothing to the        *)
(* checks.  A digest is represented by the payload it is taken of; Absent  *)
(* is ABSENT_DIGEST, the digest of an object nothing was said about.       *)
(***************************************************************************)
EXTENDS Naturals, Sequences

CONSTANTS Objects, Payloads, Absent

ASSUME AbsentAssumption == Absent \notin Payloads

Digest == Payloads \union {Absent}

Event == [seq : Nat \ {0}, object : Objects, prior : Digest, new : Payloads]

(***************************************************************************)
(* d is the digest that the first n events of log record last for object   *)
(* o (EventLog._latest, the `latest` of read_events).  It is a relation    *)
(* and not a recursive search, so that it can be reasoned about.           *)
(***************************************************************************)
LatestIn(log, n, o, d) ==
    \/ /\ d = Absent
       /\ \A i \in 1..n : log[i].object # o
    \/ \E i \in 1..n :
          /\ log[i].object = o
          /\ log[i].new = d
          /\ \A j \in (i+1)..n : log[j].object # o

\* Event e may follow the first n events of log.
Extends(log, n, e) ==
    /\ e.seq = n + 1
    /\ LatestIn(log, n, e.object, e.prior)

\* What read_events checks, line by line; it raises on the first that fails.
Valid(log) == \A n \in 1..Len(log) : Extends(log, n - 1, log[n])
=============================================================================
