------------------------------ MODULE EventLog ------------------------------
(***************************************************************************)
(* src/versum/events.py: the append-only mutation log `_events.jsonl` of a *)
(* knowledge-graph store, the EventLog handle that writes it and           *)
(* read_events, which anyone may call at any time without a lock.          *)
(*                                                                         *)
(* Several processes (a sync pass, an erasure, a publication, ...) open    *)
(* the log.  The handle takes an exclusive flock on `_events.lock`, reads  *)
(* the journal only then, keeps the events in memory and appends lines;    *)
(* the file system delivers a line in pieces, so a crash, a full disk or a *)
(* reader that looks in between meets part of one.                         *)
(*                                                                         *)
(* Abstractions.  An event is the record of EventRecords.  The file is the *)
(* sequence `lines` of its newline-terminated lines and the bytes after    *)
(* the last newline, `tail`: none, one line that lacks only its newline    *)
(* (json.loads accepts it), or Torn, bytes that are no event.              *)
(***************************************************************************)
EXTENDS EventRecords, SequencesExt

CONSTANTS Writers,    \* processes that open EventLog
          Readers,    \* consumers of changes_since
          NoOne,      \* the lock's value when it is free
          MaxLines,   \* bound: lines the journal may grow to
          MaxBatch,   \* bound: append calls of one session
          MaxFaults   \* bound: crashes and failed writes

ASSUME WriterAssumption == NoOne \notin Writers
ASSUME BoundAssumption == MaxLines \in Nat /\ MaxBatch \in Nat /\ MaxFaults \in Nat

VARIABLES
    lines,    \* complete lines of _events.jsonl
    tail,     \* what follows the last newline: at most one (piece of a) line
    glued,    \* the line being written continues a piece left by an earlier write
    lock,     \* holder of the flock on _events.lock
    pc,       \* where each writer is
    todo,     \* append calls the writer's session still intends
    events,   \* self._events of each writer (its _latest is derived from it)
    pending,  \* the event each writer is writing
    acked,    \* history: events some append returned to its caller
    fed,      \* what each reader consumed so far; its watermark is Len(fed[r])
    faults    \* crashes and failed writes so far

vars == <<lines, tail, glued, lock, pc, todo, events, pending, acked, fed, faults>>
disk == <<lines, tail, glued>>

Torn == [seq |-> 0, object |-> Absent, prior |-> Absent, new |-> Absent]
Line == Event \union {Torn}

\* The writer is past flock: constructing, appending or about to close.
Holding(w) == pc[w] \in {"loading", "open", "writing", "midline", "lastbyte"}

Contents == lines \o tail
\* No line of log is a torn piece.
Whole(log) == \A i \in 1..Len(log) : log[i] # Torn

Init ==
    /\ lines = << >> /\ tail = << >> /\ glued = FALSE
    /\ lock = NoOne
    /\ pc = [w \in Writers |-> "idle"]
    /\ todo = [w \in Writers |-> 0]
    /\ events = [w \in Writers |-> << >>]
    /\ pending = [w \in Writers |-> Torn]
    /\ acked = {}
    /\ fed = [r \in Readers |-> << >>]
    /\ faults = 0

----------------------------------------------------------------------------
(* The constructor.                                                        *)

\* A process with some mutations to record opens the lock file.
Request(w) ==
    /\ pc[w] = "idle"
    /\ \E n \in 1..MaxBatch : todo' = [todo EXCEPT ![w] = n]
    /\ pc' = [pc EXCEPT ![w] = "waiting"]
    /\ UNCHANGED <<disk, lock, events, pending, acked, fed, faults>>

\* Variants a property must notice: no lock at all, and a journal read before
\* the lock is held.
AcquireUnlocked(w) ==
    /\ pc[w] = "waiting"
    /\ lock' = w
    /\ pc' = [pc EXCEPT ![w] = "loading"]
    /\ UNCHANGED <<disk, todo, events, pending, acked, fed, faults>>

AcquireAfterRead(w) ==
    /\ pc[w] = "waiting"
    /\ \/ /\ Valid(Contents)
          /\ events' = [events EXCEPT ![w] = Contents]
          /\ UNCHANGED <<lock, pc>>
       \/ /\ lock = NoOne
          /\ lock' = w
          /\ pc' = [pc EXCEPT ![w] = "open"]
          /\ UNCHANGED events
    /\ UNCHANGED <<disk, todo, pending, acked, fed, faults>>

\* flock(LOCK_EX) returns.
Acquire(w) ==
    /\ pc[w] = "waiting"
    /\ lock = NoOne
    /\ lock' = w
    /\ pc' = [pc EXCEPT ![w] = "loading"]
    /\ UNCHANGED <<disk, todo, events, pending, acked, fed, faults>>

\* Variant: the journal is taken without validating it.
LoadUnchecked(w) ==
    /\ pc[w] = "loading"
    /\ events' = [events EXCEPT ![w] = Contents]
    /\ pc' = [pc EXCEPT ![w] = "open"]
    /\ UNCHANGED <<disk, lock, todo, pending, acked, fed, faults>>

\* read_events accepts the journal.
Load(w) ==
    /\ pc[w] = "loading"
    /\ Valid(Contents)
    /\ events' = [events EXCEPT ![w] = Contents]
    /\ pc' = [pc EXCEPT ![w] = "open"]
    /\ UNCHANGED <<disk, lock, todo, pending, acked, fed, faults>>

\* Variant: the exception leaves the lock taken.
LoadFailKeepsLock(w) ==
    /\ pc[w] = "loading"
    /\ ~Valid(Contents)
    /\ pc' = [pc EXCEPT ![w] = "idle"]
    /\ todo' = [todo EXCEPT ![w] = 0]
    /\ UNCHANGED <<disk, lock, events, pending, acked, fed, faults>>

\* read_events raises: the half-built handle is collected, __del__ closes it.
LoadFail(w) ==
    /\ pc[w] = "loading"
    /\ ~Valid(Contents)
    /\ lock' = NoOne
    /\ pc' = [pc EXCEPT ![w] = "idle"]
    /\ todo' = [todo EXCEPT ![w] = 0]
    /\ UNCHANGED <<disk, events, pending, acked, fed, faults>>

----------------------------------------------------------------------------
(* append and close.                                                       *)

\* Variant: the prior digest is that of the object's first event.
AppendBeginFirst(w) ==
    /\ pc[w] = "open"
    /\ todo[w] > 0
    /\ Len(Contents) < MaxLines
    /\ \E o \in Objects, p \in Payloads, d \in Digest :
          /\ d = IF \E i \in 1..Len(events[w]) : events[w][i].object = o
                 THEN events[w][CHOOSE i \in 1..Len(events[w]) :
                          /\ events[w][i].object = o
                          /\ \A j \in 1..(i-1) : events[w][j].object # o].new
                 ELSE Absent
          /\ pending' = [pending EXCEPT ![w] =
                [seq |-> Len(events[w]) + 1, object |-> o, prior |-> d, new |-> p]]
    /\ todo' = [todo EXCEPT ![w] = @ - 1]
    /\ pc' = [pc EXCEPT ![w] = "writing"]
    /\ UNCHANGED <<disk, lock, events, acked, fed, faults>>

\* append computes the event from the handle's memory.
AppendBegin(w) ==
    /\ pc[w] = "open"
    /\ todo[w] > 0
    /\ Len(Contents) < MaxLines
    /\ \E o \in Objects, p \in Payloads, d \in Digest :
          /\ LatestIn(events[w], Len(events[w]), o, d)
          /\ pending' = [pending EXCEPT ![w] =
                [seq |-> Len(events[w]) + 1, object |-> o, prior |-> d, new |-> p]]
    /\ todo' = [todo EXCEPT ![w] = @ - 1]
    /\ pc' = [pc EXCEPT ![w] = "writing"]
    /\ UNCHANGED <<disk, lock, events, acked, fed, faults>>

\* A first piece of the line reaches the file.
WriteSome(w) ==
    /\ pc[w] = "writing"
    /\ glued' = (tail # << >>)
    /\ tail' = <<Torn>>
    /\ pc' = [pc EXCEPT ![w] = "midline"]
    /\ UNCHANGED <<lines, lock, todo, events, pending, acked, fed, faults>>

\* All of it but the newline.
WriteRest(w) ==
    /\ pc[w] = "midline"
    /\ tail' = IF glued THEN <<Torn>> ELSE <<pending[w]>>
    /\ pc' = [pc EXCEPT ![w] = "lastbyte"]
    /\ UNCHANGED <<lines, glued, lock, todo, events, pending, acked, fed, faults>>

\* Variant: the handle's memory is not advanced.
AppendEndForgets(w) ==
    /\ pc[w] = "lastbyte"
    /\ lines' = Append(lines, tail[1])
    /\ tail' = << >>
    /\ glued' = FALSE
    /\ acked' = acked \union {pending[w]}
    /\ pending' = [pending EXCEPT ![w] = Torn]
    /\ pc' = [pc EXCEPT ![w] = "open"]
    /\ UNCHANGED <<lock, todo, events, fed, faults>>

\* The newline; the file is closed, memory is updated, append returns the event.
AppendEnd(w) ==
    /\ pc[w] = "lastbyte"
    /\ lines' = Append(lines, tail[1])
    /\ tail' = << >>
    /\ glued' = FALSE
    /\ events' = [events EXCEPT ![w] = Append(@, pending[w])]
    /\ acked' = acked \union {pending[w]}
    /\ pending' = [pending EXCEPT ![w] = Torn]
    /\ pc' = [pc EXCEPT ![w] = "open"]
    /\ UNCHANGED <<lock, todo, fed, faults>>

\* The write raises (disk full): what is out stays out, memory is not updated.
\* sync_library's `except Exception` lets the session go on.
AppendError(w) ==
    /\ pc[w] \in {"writing", "midline", "lastbyte"}
    /\ faults < MaxFaults
    /\ faults' = faults + 1
    /\ glued' = FALSE
    /\ pending' = [pending EXCEPT ![w] = Torn]
    /\ pc' = [pc EXCEPT ![w] = "open"]
    /\ UNCHANGED <<lines, tail, lock, todo, events, acked, fed>>

\* close(), reached normally or by an exception on the way.
Close(w) ==
    /\ pc[w] = "open"
    /\ lock' = NoOne
    /\ pc' = [pc EXCEPT ![w] = "idle"]
    /\ todo' = [todo EXCEPT ![w] = 0]
    /\ events' = [events EXCEPT ![w] = << >>]
    /\ UNCHANGED <<disk, pending, acked, fed, faults>>

\* The process dies; the kernel drops its flock, the file keeps what is out.
Crash(w) ==
    /\ pc[w] # "idle"
    /\ faults < MaxFaults
    /\ faults' = faults + 1
    /\ glued' = IF Holding(w) THEN FALSE ELSE glued
    /\ lock' = IF lock = w THEN NoOne ELSE lock
    /\ pending' = [pending EXCEPT ![w] = Torn]
    /\ pc' = [pc EXCEPT ![w] = "idle"]
    /\ todo' = [todo EXCEPT ![w] = 0]
    /\ events' = [events EXCEPT ![w] = << >>]
    /\ UNCHANGED <<lines, tail, acked, fed>>

----------------------------------------------------------------------------
(* The lock-free readers.                                                  *)

\* Variant: the event at the watermark is returned again.
ChangesFrom(r) ==
    /\ Valid(Contents)
    /\ Len(fed[r]) <= Len(Contents)
    /\ fed' = [fed EXCEPT ![r] =
          @ \o SubSeq(Contents, IF @ = << >> THEN 1 ELSE Len(@), Len(Contents))]
    /\ UNCHANGED <<disk, lock, pc, todo, events, pending, acked, faults>>

\* changes_since(watermark): validate everything, return what is new.
ChangesSince(r) ==
    /\ Valid(Contents)
    /\ Len(fed[r]) <= Len(Contents)
    /\ fed' = [fed EXCEPT ![r] = @ \o SubSeq(Contents, Len(@) + 1, Len(Contents))]
    /\ UNCHANGED <<disk, lock, pc, todo, events, pending, acked, faults>>

Session(w) == \/ Load(w) \/ LoadFail(w) \/ AppendBegin(w) \/ WriteSome(w)
              \/ WriteRest(w) \/ AppendEnd(w) \/ Close(w)

Next == \/ \E w \in Writers : \/ Request(w) \/ Acquire(w) \/ Session(w)
                              \/ AppendError(w) \/ Crash(w)
        \/ \E r \in Readers : ChangesSince(r)

Spec == Init /\ [][Next]_vars

(***************************************************************************)
(* A process that holds the lock runs: its session is a finite list of     *)
(* mutations followed by close() in a `finally`.  Nothing is assumed about *)
(* who gets the lock next: flock makes no promise of fairness.             *)
(***************************************************************************)
FairSpec == Spec /\ \A w \in Writers : WF_vars(Session(w))

----------------------------------------------------------------------------
(* Properties.                                                             *)

TypeOK ==
    /\ lines \in Seq(Line)
    /\ tail \in Seq(Line) /\ Len(tail) <= 1
    /\ glued \in BOOLEAN
    /\ lock \in Writers \union {NoOne}
    /\ pc \in [Writers -> {"idle", "waiting", "loading", "open", "writing",
                           "midline", "lastbyte"}]
    /\ todo \in [Writers -> 0..MaxBatch]
    /\ events \in [Writers -> Seq(Event)]
    /\ pending \in [Writers -> Line]
    /\ acked \subseteq Event
    /\ fed \in [Readers -> Seq(Event)]
    /\ faults \in 0..MaxFaults

(***************************************************************************)
(* Up to the first torn line the journal is always one contiguous chain:   *)
(* two writers never fork it, whatever their interleaving with each other, *)
(* with crashes and with failed writes (events.py, EventLog docstring).    *)
(***************************************************************************)
HistoryValid ==
    \A n \in 1..Len(Contents) :
        (\A i \in 1..n : Contents[i] # Torn) => Extends(Contents, n - 1, Contents[n])

(***************************************************************************)
(* "the in-memory sequence view can never go stale under a concurrent      *)
(* writer": while the file is undamaged, a handle that may append knows    *)
(* every complete line, and nothing that is not in the file.               *)
(***************************************************************************)
HolderCurrent ==
    \A w \in Writers :
        pc[w] \in {"open", "writing"} /\ Whole(Contents) =>
            /\ lock = w
            /\ IsPrefix(lines, events[w])
            /\ IsPrefix(events[w], Contents)

(***************************************************************************)
(* While no torn piece is in the file, every event that append returned is *)
(* read back at its own position by read_events.                           *)
(***************************************************************************)
AckedReadable ==
    Whole(Contents) =>
        \A e \in acked : e.seq <= Len(Contents) /\ Contents[e.seq] = e

(***************************************************************************)
(* A consumer that only ever asks for the changes after its watermark has, *)
(* piece by piece, consumed exactly the history a full read returns.       *)
(***************************************************************************)
FeedIsHistory ==
    Valid(Contents) => \A r \in Readers : IsPrefix(fed[r], Contents)

(***************************************************************************)
(* A journal with a torn line fails closed: once no open session is left,  *)
(* no later one gets to append, and the bytes stay as they are.            *)
(***************************************************************************)
Damaged == /\ ~Whole(Contents)
           /\ \A w \in Writers : pc[w] \in {"idle", "waiting", "loading"}
FailClosed == [][Damaged => Damaged' /\ UNCHANGED <<lines, tail>>]_vars

(***************************************************************************)
(* The log implements the journal: its history is the run of lines before  *)
(* the first torn one.                                                     *)
(***************************************************************************)
IsSound(log, n) == /\ \A i \in 1..n : log[i] # Torn
                   /\ n < Len(log) => log[n + 1] = Torn
SoundLen == CHOOSE n \in 0..Len(lines) : IsSound(lines, n)
Journal == INSTANCE EventJournal WITH hist <- SubSeq(lines, 1, SoundLen)
ImplementsJournal == Journal!Spec

(***************************************************************************)
(* Every lock is given back: on a full session, on a journal that does not *)
(* validate, after a failed write and after a crash.                       *)
(***************************************************************************)
LockGivenBack == \A w \in Writers : lock = w ~> lock # w
=============================================================================
