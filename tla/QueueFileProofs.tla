--------------------------- MODULE QueueFileProofs ---------------------------
(***************************************************************************)
(* Proofs about QueueFile for one writer, any events and any number of     *)
(* operations, crashes and torn writes.  With two writers the properties   *)
(* fail: a truncate may cut off what the other has appended since.         *)
(***************************************************************************)
EXTENDS QueueFile, SequenceTheorems, TLAPS

\* The file has one daemon at a time.
OneDaemon == \A v, w \in Writer : v = w

\* Between the calls of an operation the file is as the repair found it: a
\* truncate removes exactly the torn tail, and an append meets either the end
\* of a line, or a complete entry it has a newline for.
OperationInv ==
    /\ \A w \in Writer : pc[w] = "truncate" => tail = Torn /\ cut[w] = Len(lines)
    /\ \A w \in Writer : pc[w] = "append" => /\ tail # Torn
                                             /\ newline[w] <=> tail \in Entry

\* The inductive invariant.
FileInv ==
    /\ QueueTypeOK
    /\ lines \in Seq(Entry)
    /\ OperationInv
    /\ ReturnedRowsSurvive

-----------------------------------------------------------------------------

LEMMA NotEntries == Corrupt \notin Entry /\ NoTail \notin Entry /\ Torn \notin Entry /\ Torn # NoTail
BY DEF Corrupt, NoTail, Torn, Entry

\* Whatever happens to the file, its entries are kept and at most one follows.
EntriesGrow == Entries' = Entries \/ \E x \in Entry : Entries' = Append(Entries, x)

LEMMA EntriesType == FileInv => Entries \in Seq(Entry)
BY DEF FileInv, Entries

LEMMA Readable == FileInv => StaysReadable
<1> SUFFICES ASSUME FileInv, NEW i \in 1..Len(lines) PROVE lines[i] # Corrupt
  BY DEF StaysReadable, Unreadable
<1>1. lines[i] \in Entry
  BY ElementOfSeq DEF FileInv
<1> QED
  BY <1>1, NotEntries

LEMMA GrowKeepsFacts ==
    ASSUME FileInv, EntriesGrow
    PROVE  Rows \subseteq Rows' /\ DeliveredRows \subseteq DeliveredRows'
<1>1. Entries \in Seq(Entry)
  BY EntriesType
<1>2. CASE Entries' = Entries
  BY <1>2 DEF Rows, DeliveredRows
<1>3. ASSUME NEW x \in Entry, Entries' = Append(Entries, x)
      PROVE  Rows \subseteq Rows' /\ DeliveredRows \subseteq DeliveredRows'
  <2>1. /\ Len(Entries') = Len(Entries) + 1 /\ Len(Entries) \in Nat
        /\ \A i \in 1..Len(Entries) : Entries'[i] = Entries[i]
    BY <1>1, <1>3
  <2>2. \A i \in 1..Len(Entries) : i \in 1..Len(Entries')
    BY <2>1
  <2> QED
    BY <2>1, <2>2 DEF Rows, DeliveredRows
<1> QED
  BY <1>2, <1>3 DEF EntriesGrow

\* What was appended last is a row.
LEMMA AppendedIsRow ==
    ASSUME FileInv, NEW x \in Entry, Entries' = Append(Entries, x), x.t = "received"
    PROVE  x.e \in Rows'
<1>1. Entries \in Seq(Entry)
  BY EntriesType
<1>2. Entries'[Len(Entries')] = x /\ Len(Entries') \in 1..Len(Entries')
  BY <1>1
<1>3. x = [t |-> "received", e |-> x.e] /\ x.e \in Event
  BY DEF Entry
<1> QED
  BY <1>2, <1>3 DEF Rows

-----------------------------------------------------------------------------

LEMMA FileInvInit == QueueInit => FileInv
<1> SUFFICES ASSUME QueueInit PROVE FileInv
  OBVIOUS
<1>1. \E x \in Entry : TRUE
  <2>1. PICK e \in Event : TRUE
    BY QueueAssumption
  <2>2. [t |-> "received", e |-> e] \in Entry
    BY DEF Entry
  <2> QED
    BY <2>2
<1>2. op \in [Writer -> Entry]
  BY <1>1 DEF QueueInit
<1> QED
  BY <1>2, QueueAssumption
  DEF QueueInit, FileInv, QueueTypeOK, OperationInv, ReturnedRowsSurvive

\* One writer's call at a time: the file grows by entries, and the invariant
\* is kept.
LEMMA FileInvStep ==
    ASSUME OneDaemon
    PROVE  FileInv /\ [QueueNext]_queueVars => FileInv' /\ EntriesGrow
<1> SUFFICES ASSUME FileInv, [QueueNext]_queueVars PROVE FileInv' /\ EntriesGrow
  OBVIOUS
<1> USE NotEntries
<1>1. ASSUME NEW w \in Writer, NEW x \in Entry, Begin(w, x) PROVE FileInv' /\ EntriesGrow
  <2>1. QueueTypeOK'
    BY <1>1, QueueAssumption DEF Begin, GoTo, FileInv, QueueTypeOK, fileVars
  <2> QED
    BY <1>1, <2>1
    DEF Begin, GoTo, FileInv, QueueTypeOK, OperationInv, ReturnedRowsSurvive, EntriesGrow,
        Entries, Rows, fileVars
<1>2. ASSUME NEW w \in Writer, ReadRows(w) PROVE FileInv' /\ EntriesGrow
  <2>1. QueueTypeOK'
    BY <1>2 DEF ReadRows, GoTo, FileInv, QueueTypeOK, fileVars
  <2>2. UNCHANGED fileVars /\ Entries' = Entries /\ Rows' = Rows
    BY <1>2 DEF ReadRows, fileVars, Entries, Rows
  <2>3. OperationInv'
    BY <1>2, <2>2 DEF ReadRows, GoTo, FileInv, QueueTypeOK, OperationInv, fileVars
  <2>4. ReturnedRowsSurvive'
    BY <1>2, <2>2 DEF ReadRows, FileInv, ReturnedRowsSurvive, Redundant
  <2> QED
    BY <2>1, <2>2, <2>3, <2>4 DEF FileInv, EntriesGrow, fileVars
<1>3. ASSUME NEW w \in Writer, Repair(w) PROVE FileInv' /\ EntriesGrow
  <2>0. Len(lines) \in Nat
    BY DEF FileInv
  <2>1. QueueTypeOK'
    <3>1. newline' \in [Writer -> BOOLEAN]
      <4>1. newline \in [Writer -> BOOLEAN] /\ (tail \in Entry) \in BOOLEAN
        BY DEF FileInv, QueueTypeOK
      <4>2. newline' = [newline EXCEPT ![w] = tail \in Entry]
        BY <1>3 DEF Repair
      <4> QED
        BY <4>1, <4>2, Zenon
    <3>2. ASSUME NEW v \in Writer, pc'[v] = "truncate" PROVE ~ newline'[v]
      <4>1. v = w
        BY OneDaemon DEF OneDaemon
      <4>2. tail = Torn
        BY <1>3, <3>2, <4>1 DEF Repair, GoTo, FileInv, QueueTypeOK
      <4>3. newline'[w] = (tail \in Entry)
        BY <1>3, Zenon DEF Repair, FileInv, QueueTypeOK
      <4> QED
        BY <4>1, <4>2, <4>3
    <3>3. pc' \in [Writer -> {"idle", "read", "repair", "truncate", "append"}] /\ cut' \in [Writer -> Nat]
      BY <1>3, <2>0 DEF Repair, GoTo, FileInv, QueueTypeOK
    <3> QED
      BY <1>3, <3>1, <3>2, <3>3 DEF Repair, FileInv, QueueTypeOK, fileVars
  <2>2. UNCHANGED <<fileVars, returned>> /\ Entries' = Entries /\ Rows' = Rows
    BY <1>3 DEF Repair, fileVars, Entries, Rows
  <2>3. OperationInv'
    BY <1>3, <2>2 DEF Repair, GoTo, FileInv, QueueTypeOK, OperationInv, fileVars
  <2> QED
    BY <2>1, <2>2, <2>3 DEF FileInv, EntriesGrow, ReturnedRowsSurvive, fileVars
<1>4. ASSUME NEW w \in Writer, Truncate(w) PROVE FileInv' /\ EntriesGrow
  <2>1. tail = Torn /\ cut[w] = Len(lines) /\ newline[w] = FALSE
    BY <1>4 DEF Truncate, FileInv, QueueTypeOK, OperationInv
  <2>2. lines' = SubSeq(lines, 1, Len(lines)) /\ tail' = NoTail
    BY <1>4, <2>1 DEF Truncate, FileInv
  <2>3. lines' = lines
    BY <2>2, SubSeqFull DEF FileInv
  <2>4. Entries' = Entries /\ Rows' = Rows
    BY <2>1, <2>2, <2>3 DEF Entries, Rows
  <2>5. QueueTypeOK'
    BY <1>4, <2>2, <2>3 DEF Truncate, GoTo, FileInv, QueueTypeOK
  <2>6. OperationInv'
    BY <1>4, <2>1, <2>2, <2>3 DEF Truncate, GoTo, FileInv, QueueTypeOK, OperationInv, OneDaemon
  <2> QED
    BY <1>4, <2>3, <2>4, <2>5, <2>6 DEF Truncate, FileInv, EntriesGrow, ReturnedRowsSurvive
<1>5. ASSUME NEW w \in Writer, AppendEntry(w) PROVE FileInv' /\ EntriesGrow
  <2>1. op[w] \in Entry /\ tail \in Entry \cup {NoTail} /\ (newline[w] <=> tail \in Entry)
    BY <1>5 DEF AppendEntry, FileInv, QueueTypeOK, OperationInv
  <2>2. lines' = Append(Entries, op[w]) /\ tail' = NoTail
    BY <1>5, <2>1 DEF AppendEntry, Terminated, Entries
  <2>3. lines' \in Seq(Entry) /\ lines' \in Seq(Entry \cup {Corrupt})
    BY <2>1, <2>2, EntriesType
  <2>4. Entries' = Append(Entries, op[w])
    BY <2>2 DEF Entries
  <2>5. QueueTypeOK'
    BY <1>5, <2>1, <2>2, <2>3 DEF AppendEntry, GoTo, FileInv, QueueTypeOK
  <2>6. OperationInv'
    BY <1>5 DEF AppendEntry, GoTo, FileInv, QueueTypeOK, OperationInv, OneDaemon
  <2>7. EntriesGrow
    BY <2>1, <2>4 DEF EntriesGrow
  <2>8. ReturnedRowsSurvive'
    BY <1>5, <2>1, <2>4, <2>7, GrowKeepsFacts, AppendedIsRow
    DEF AppendEntry, FileInv, ReturnedRowsSurvive
  <2> QED
    BY <2>3, <2>5, <2>6, <2>7, <2>8 DEF FileInv
<1>6. ASSUME NEW w \in Writer, AppendStops(w) PROVE FileInv' /\ EntriesGrow
  <2>1. op[w] \in Entry /\ tail \in Entry \cup {NoTail} /\ (newline[w] <=> tail \in Entry)
    BY <1>6 DEF AppendStops, FileInv, QueueTypeOK, OperationInv
  <2>2. lines' = Entries /\ tail' \in {NoTail, Torn, op[w]}
    BY <1>6, <2>1 DEF AppendStops, Terminated, Entries
  <2>3. lines' \in Seq(Entry) /\ lines' \in Seq(Entry \cup {Corrupt})
    BY <2>2, EntriesType
  <2>4. EntriesGrow
    BY <2>1, <2>2 DEF Entries, EntriesGrow
  <2>5. QueueTypeOK'
    BY <1>6, <2>1, <2>2, <2>3, QueueAssumption
    DEF AppendStops, Fault, GoTo, FileInv, QueueTypeOK
  <2>6. OperationInv'
    BY <1>6 DEF AppendStops, GoTo, FileInv, QueueTypeOK, OperationInv, OneDaemon
  <2>7. ReturnedRowsSurvive'
    BY <1>6, <2>4, GrowKeepsFacts DEF AppendStops, FileInv, ReturnedRowsSurvive
  <2> QED
    BY <2>3, <2>4, <2>5, <2>6, <2>7 DEF FileInv
<1>7. ASSUME NEW w \in Writer, CrashWriter(w) PROVE FileInv' /\ EntriesGrow
  <2>1. QueueTypeOK'
    BY <1>7, QueueAssumption DEF CrashWriter, Fault, GoTo, FileInv, QueueTypeOK, fileVars
  <2> QED
    BY <1>7, <2>1
    DEF CrashWriter, GoTo, FileInv, QueueTypeOK, OperationInv, ReturnedRowsSurvive, EntriesGrow,
        Entries, Rows, fileVars
<1>8. CASE UNCHANGED queueVars
  BY <1>8
  DEF queueVars, fileVars, writerVars, FileInv, QueueTypeOK, OperationInv, ReturnedRowsSurvive,
      EntriesGrow, Entries, Rows
<1> QED
  BY <1>1, <1>2, <1>3, <1>4, <1>5, <1>6, <1>7, <1>8 DEF QueueNext

LEMMA FileInvAlways == ASSUME OneDaemon PROVE QueueSpec => []FileInv
BY FileInvInit, FileInvStep, PTL DEF QueueSpec

-----------------------------------------------------------------------------

\* No sequence of torn writes, crashes and repairs of one daemon leaves a line
\* the queue cannot be read past (repairTailForAppend).
THEOREM QueueReadable == ASSUME OneDaemon PROVE QueueSpec => []StaysReadable
BY Readable, FileInvAlways, PTL

\* A row whose enqueue returned stays in the queue (enqueue).
THEOREM RowsSurvive == ASSUME OneDaemon PROVE QueueSpec => []ReturnedRowsSurvive
<1>1. FileInv => ReturnedRowsSurvive
  BY DEF FileInv
<1> QED
  BY <1>1, FileInvAlways, PTL

\* No row and no delivered mark is ever taken back (appendEvent).
THEOREM FactsKept == ASSUME OneDaemon PROVE QueueSpec => FactsAreKept
<1>1. FileInv /\ [QueueNext]_queueVars =>
         [Rows \subseteq Rows' /\ DeliveredRows \subseteq DeliveredRows']_queueVars
  BY FileInvStep, GrowKeepsFacts
<1> QED
  BY <1>1, FileInvAlways, PTL DEF QueueSpec, FactsAreKept

=============================================================================
