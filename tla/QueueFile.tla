------------------------------ MODULE QueueFile ------------------------------
(***************************************************************************)
(* The bytes of the durable inbound queue (daemon-queue.ts): an append-only*)
(* JSONL file, read whole by every operation, whose torn last line is      *)
(* repaired by the next append.  Writers are daemon processes; a writer's  *)
(* operation is a sequence of file system calls, and another writer's calls*)
(* may fall between them: "both daemons must be able to append received    *)
(* facts to the same durable queue" (daemon-queue.ts:11-13).               *)
(***************************************************************************)
EXTENDS Naturals, Sequences, FiniteSets

CONSTANTS
    Writer,     \* daemon processes with the file open
    Event,      \* idempotency keys
    MaxOps,     \* bound on operations begun
    MaxFaults   \* bound on crashes and failed writes

ASSUME QueueAssumption == Event # {} /\ MaxOps \in Nat /\ MaxFaults \in Nat

\* A complete line of the file, or a line that is not one JSON queue event.
Entry == [t : {"received", "delivered"}, e : Event]
Corrupt == [t |-> "corrupt"]
\* The text after the last newline: nothing, a prefix of an entry, or an entry.
NoTail == [t |-> "none"]
Torn == [t |-> "torn"]

VARIABLES
    lines,      \* the lines of the file that end in a newline; blank ones left out
    tail,       \* what follows the last newline
    pc,         \* of a writer: idle, or the call it makes next
    op,         \* the entry a writer is adding
    cut,        \* the length, in lines, a writer is about to truncate the file to
    newline,    \* does the writer put a newline before its entry?
    returned,   \* history: entries whose operation has returned to its caller
    ops, faults

fileVars   == <<lines, tail>>
writerVars == <<pc, op, cut, newline>>
queueVars  == <<fileVars, writerVars, returned, ops, faults>>

-----------------------------------------------------------------------------
(* readRows                                                                 *)

\* A last line that parses counts, newline or not; a torn one does not.
Entries == IF tail \in Entry THEN Append(lines, tail) ELSE lines

Unreadable == \E i \in 1..Len(lines) : lines[i] = Corrupt

Rows == {e \in Event : \E i \in 1..Len(Entries) : Entries[i] = [t |-> "received", e |-> e]}

DeliveredRows ==
    {e \in Event : \E i, j \in 1..Len(Entries) :
        /\ i < j
        /\ Entries[i] = [t |-> "received", e |-> e]
        /\ Entries[j] = [t |-> "delivered", e |-> e]}

\* Is there nothing to add for entry x?
Redundant(x) ==
    IF x.t = "received" THEN x.e \in Rows
    ELSE x.e \notin Rows \/ x.e \in DeliveredRows

-----------------------------------------------------------------------------
(* enqueue and markDelivered                                                *)

Fault == faults < MaxFaults /\ faults' = faults + 1

GoTo(w, label) == pc' = [pc EXCEPT ![w] = label]

Begin(w, x) ==
    /\ pc[w] = "idle" /\ ops < MaxOps
    /\ ops' = ops + 1
    /\ op' = [op EXCEPT ![w] = x]
    /\ GoTo(w, "read")
    /\ UNCHANGED <<fileVars, cut, newline, returned, faults>>

\* A file with a corrupt line makes the operation throw.
ReadRows(w) ==
    /\ pc[w] = "read"
    /\ GoTo(w, IF Unreadable \/ Redundant(op[w]) THEN "idle" ELSE "repair")
    /\ returned' = IF ~Unreadable /\ Redundant(op[w]) THEN returned \cup {op[w]} ELSE returned
    /\ UNCHANGED <<fileVars, op, cut, newline, ops, faults>>

\* Faulty: a torn tail is taken for a line without its newline.
RepairNeverCuts(w) ==
    /\ pc[w] = "repair"
    /\ newline' = [newline EXCEPT ![w] = tail # NoTail]
    /\ GoTo(w, "append")
    /\ UNCHANGED <<fileVars, op, cut, returned, ops, faults>>

\* Faulty: every last line without a newline is cut off, complete or not.
RepairAlwaysCuts(w) ==
    /\ pc[w] = "repair"
    /\ newline' = [newline EXCEPT ![w] = FALSE]
    /\ cut' = [cut EXCEPT ![w] = Len(lines)]
    /\ GoTo(w, IF tail # NoTail THEN "truncate" ELSE "append")
    /\ UNCHANGED <<fileVars, op, returned, ops, faults>>

\* repairTailForAppend reads the file again and chooses.
Repair(w) ==
    /\ pc[w] = "repair"
    /\ newline' = [newline EXCEPT ![w] = tail \in Entry]
    /\ cut' = [cut EXCEPT ![w] = Len(lines)]
    /\ GoTo(w, IF tail = Torn THEN "truncate" ELSE "append")
    /\ UNCHANGED <<fileVars, op, returned, ops, faults>>

\* truncateSync to the length read before; a file that is shorter by now is
\* filled up with NUL bytes.
Truncate(w) ==
    /\ pc[w] = "truncate"
    /\ lines' = SubSeq(lines, 1, IF cut[w] < Len(lines) THEN cut[w] ELSE Len(lines))
    /\ tail' = IF cut[w] > Len(lines) THEN Torn ELSE NoTail
    /\ GoTo(w, "append")
    /\ UNCHANGED <<op, cut, newline, returned, ops, faults>>

\* The lines after a newline is written.
Terminated ==
    IF tail = NoTail THEN lines
    ELSE Append(lines, IF tail \in Entry THEN tail ELSE Corrupt)

\* One write, in append mode.  Without the newline before it, the entry joins
\* whatever is there.
AppendEntry(w) ==
    /\ pc[w] = "append"
    /\ lines' = IF newline[w] THEN Append(Terminated, op[w])
                ELSE Append(lines, IF tail = NoTail THEN op[w] ELSE Corrupt)
    /\ tail' = NoTail
    /\ returned' = returned \cup {op[w]}
    /\ GoTo(w, "idle")
    /\ UNCHANGED <<op, cut, newline, ops, faults>>

\* The write stops half-way, with the process or with an error it throws.
AppendStops(w) ==
    /\ Fault
    /\ pc[w] = "append"
    /\ GoTo(w, "idle")
    /\ IF newline[w]
         THEN /\ lines' = Terminated
              /\ tail' \in {NoTail, Torn, op[w]}
         ELSE /\ tail' \in IF tail = NoTail THEN {Torn, op[w]} ELSE {Torn}
              /\ lines' = lines
    /\ UNCHANGED <<op, cut, newline, returned, ops>>

\* The process dies between two calls, and another one takes its place.
CrashWriter(w) ==
    /\ Fault
    /\ pc[w] # "idle"
    /\ GoTo(w, "idle")
    /\ UNCHANGED <<fileVars, op, cut, newline, returned, ops>>

-----------------------------------------------------------------------------

QueueInit ==
    /\ lines = <<>> /\ tail = NoTail
    /\ pc = [w \in Writer |-> "idle"]
    /\ op \in [Writer -> {CHOOSE x \in Entry : TRUE}]
    /\ cut = [w \in Writer |-> 0]
    /\ newline = [w \in Writer |-> FALSE]
    /\ returned = {}
    /\ ops = 0 /\ faults = 0

QueueNext ==
    \E w \in Writer :
        \/ \E x \in Entry : Begin(w, x)
        \/ ReadRows(w) \/ Repair(w) \/ Truncate(w) \/ AppendEntry(w)
        \/ AppendStops(w) \/ CrashWriter(w)

QueueSpec == QueueInit /\ [][QueueNext]_queueVars

-----------------------------------------------------------------------------
(* Properties                                                               *)

\* Type correctness; a repair cuts the tail or supplies a newline, never both.
QueueTypeOK ==
    /\ lines \in Seq(Entry \cup {Corrupt})
    /\ tail \in Entry \cup {NoTail, Torn}
    /\ pc \in [Writer -> {"idle", "read", "repair", "truncate", "append"}]
    /\ op \in [Writer -> Entry]
    /\ cut \in [Writer -> Nat]
    /\ newline \in [Writer -> BOOLEAN]
    /\ \A w \in Writer : pc[w] = "truncate" => ~newline[w]
    /\ returned \subseteq Entry
    /\ ops \in 0..MaxOps /\ faults \in 0..MaxFaults

\* However the writes before it were torn, the queue can still be read: no
\* repair turns a torn tail into a corrupt line in the middle of the file,
\* which would make every later operation throw (readRows).
StaysReadable == ~Unreadable

\* An enqueue that returned has stored its row for good ("an ACKed-before-
\* persist loss is not possible", daemon-queue.ts:8).
ReturnedRowsSurvive == \A x \in returned : x.t = "received" => x.e \in Rows

\* Rows and delivered marks are facts: whatever is torn, repaired or written
\* again later, none is ever taken back, also one whose write was reported as
\* failed but is complete in the file.
FactsAreKept ==
    [][Rows \subseteq Rows' /\ DeliveredRows \subseteq DeliveredRows']_queueVars

\* "Both daemons must be able to append received facts to the same durable
\* queue" (daemon-queue.ts:11-13): two writers lose no row either.
BothDaemonsCanAppend == ReturnedRowsSurvive

=============================================================================
