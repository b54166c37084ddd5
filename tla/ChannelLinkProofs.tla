-------------------------- MODULE ChannelLinkProofs ---------------------------
(***************************************************************************)
(* Proofs about InstanceLock: a holder and one process after it exclude    *)
(* each other, for any set of processes, any eviction rule and any number  *)
(* of crashes and reclaims.  With two later processes the lock fails.      *)
(* And about ReceivedReactions: a message has one indicator, and none is   *)
(* forgotten, under any interleaving of deliveries, replies and the remote *)
(* calls of both.                                                          *)
(***************************************************************************)
EXTENDS InstanceLock, ReceivedReactions, FiniteSetTheorems, TLAPS

\* The lock is held at first.
HeldAtFirst == Settled # NoPid /\ IsFiniteSet(Proc)

\* Nobody but the first holder and p was ever started.
Successor(p) ==
    p # Settled /\ \A q \in Proc : pc[q] # "off" => q \in {Settled, p}

FileOf(p) == [by |-> p, text |-> p]

\* Where the lock stands between the first holder and its successor p.  While
\* the first holder lives and has not given the file up, the file is its own
\* and p has got no further than finding that out; afterwards the file is p's
\* or nobody's, or was left by the dead holder.
Handover(p) ==
    /\ file \in {Absent, FileOf(Settled), [by |-> p, text |-> NoPid], FileOf(p)}
    /\ Settled \in alive /\ pc[Settled] # "exit" =>
          /\ file = FileOf(Settled)
          /\ pc[p] \in {"off", "create", "read", "probe", "evict", "wait", "standby"}
          /\ pc[p] = "probe" => holder[p] = Settled
    /\ p \in alive /\ file.by = p => pc[p] \in {"write", "holding", "remove"}
    /\ p \in alive /\ pc[p] = "write" => file = [by |-> p, text |-> NoPid]
    /\ p \in alive /\ pc[p] \in {"holding", "remove"} => file = FileOf(p)

\* The count of reclaims stays in bounds, as an acquire ends with the last.
LockTypeInv ==
    /\ LockTypeOK
    /\ \A p \in Proc : pc[p] \in {"off", "create", "read", "probe", "unlink"} =>
                        attempt[p] < MaxReclaimAttempts

\* The first holder never acquires again and keeps its file while it is alone;
\* whoever was never started is not alive and has made no file.
OneTenure ==
    /\ pc[Settled] \in {"holding", "remove", "exit"}
    /\ \A p \in Proc : pc[p] = "off" => p \notin alive /\ file.by # p
    /\ (\A p \in Proc : p = Settled \/ pc[p] = "off") /\ Settled \in alive /\ pc[Settled] # "exit"
          => file = FileOf(Settled)

\* The inductive invariant.
LockInv ==
    /\ LockTypeInv
    /\ OneTenure
    /\ \A p \in Proc : Successor(p) => Handover(p)

-----------------------------------------------------------------------------

LEMMA LockInvInit == ASSUME HeldAtFirst PROVE LockInit => LockInv
<1> SUFFICES ASSUME LockInit PROVE LockInv
  OBVIOUS
<1>1. Settled \in Proc
  BY ProcAssumption DEF HeldAtFirst
<1> QED
  BY <1>1, ProcAssumption, LimitAssumption
  DEF HeldAtFirst, LockInit, LockInv, LockTypeInv, LockTypeOK, OneTenure, File, Absent, Successor, Handover, FileOf

LEMMA TypeStep == LockTypeInv /\ [LockNext]_lockVars => LockTypeInv'
<1> SUFFICES ASSUME LockTypeInv, [LockNext]_lockVars PROVE LockTypeInv'
  OBVIOUS
<1> USE ProcAssumption, LimitAssumption DEF LockTypeInv, LockTypeOK, At, GoTo
<1>1. ASSUME NEW p \in Proc, Launch(p) PROVE LockTypeInv'
  BY <1>1 DEF Launch
<1>2. ASSUME NEW p \in Proc, Create(p) PROVE LockTypeInv'
  BY <1>2 DEF Create, File
<1>3. ASSUME NEW p \in Proc, WritePid(p) PROVE LockTypeInv'
  BY <1>3 DEF WritePid, File, Absent
<1>4. ASSUME NEW p \in Proc, ReadHolder(p) PROVE LockTypeInv'
  BY <1>4 DEF ReadHolder, File, Absent
<1>5. ASSUME NEW p \in Proc, Probe(p) PROVE LockTypeInv'
  BY <1>5 DEF Probe, Lost
<1>6. ASSUME NEW p \in Proc, Unlink(p) PROVE LockTypeInv'
  <2>1. attempt[p] + 1 \in 0..MaxReclaimAttempts
    BY <1>6 DEF Unlink
  <2> QED
    BY <1>6, <2>1 DEF Unlink, File
<1>7. ASSUME NEW p \in Proc, Yield(p) PROVE LockTypeInv'
  BY <1>7 DEF Yield, Lost, File, Absent
<1>8. ASSUME NEW p \in Proc, Evict(p) \/ SeenExit(p) \/ Kill(p) \/ Poll(p) PROVE LockTypeInv'
  BY <1>8 DEF Evict, SeenExit, Kill, Poll, Reacquire
<1>9. ASSUME NEW p \in Proc, Release(p) \/ RemoveFile(p) \/ Exit(p) \/ Crash(p) PROVE LockTypeInv'
  BY <1>9 DEF Release, RemoveFile, Exit, Crash, File
<1>10. CASE UNCHANGED lockVars
  BY <1>10 DEF lockVars
<1> QED
  BY <1>1, <1>2, <1>3, <1>4, <1>5, <1>6, <1>7, <1>8, <1>9, <1>10 DEF LockNext, Acquiring

LEMMA TypeAlways == LockSpec => []LockTypeInv
<1>1. LockInit => LockTypeInv
  BY ProcAssumption, LimitAssumption
  DEF LockInit, LockTypeInv, LockTypeOK, File, Absent
<1> QED
  BY <1>1, TypeStep, PTL DEF LockSpec

-----------------------------------------------------------------------------

\* Nobody is started twice, and the first holder never acquires again.
LEMMA SuccessorStays ==
    ASSUME LockTypeInv, [LockNext]_lockVars, NEW p \in Proc, Successor(p)'
    PROVE  Successor(p)
<1>1. \A q \in Proc : pc'[q] = "off" => pc[q] = "off"
  <2> USE DEF LockTypeInv, LockTypeOK, GoTo
  <2>1. ASSUME NEW r \in Proc, Acquiring(r) PROVE \A q \in Proc : pc'[q] = "off" => pc[q] = "off"
    BY <2>1 DEF Acquiring, Create, WritePid, ReadHolder, Probe, Lost, Unlink, Yield, Evict,
                SeenExit, Kill, Poll, Reacquire
  <2>2. ASSUME NEW r \in Proc, Launch(r) \/ Release(r) \/ RemoveFile(r) \/ Exit(r) \/ Crash(r)
        PROVE  \A q \in Proc : pc'[q] = "off" => pc[q] = "off"
    BY <2>2 DEF Launch, Release, RemoveFile, Exit, Crash
  <2> QED
    BY <2>1, <2>2 DEF LockNext, lockVars
<1> QED
  BY <1>1 DEF Successor

\* A step of the first holder.
LEMMA HolderStep ==
    ASSUME HeldAtFirst, LockTypeInv, LockInv, NEW p \in Proc, Successor(p),
           Launch(Settled) \/ Acquiring(Settled) \/ Release(Settled) \/ RemoveFile(Settled)
              \/ Exit(Settled) \/ Crash(Settled)
    PROVE  Handover(p)'
<1>1. Settled \in Proc /\ Settled # p /\ Settled # NoPid /\ p # NoPid
  BY ProcAssumption DEF HeldAtFirst, Successor
<1>2. Release(Settled) \/ RemoveFile(Settled) \/ Exit(Settled) \/ Crash(Settled)
  BY <1>1 DEF LockInv, OneTenure, Launch, Acquiring, At, Create, WritePid, ReadHolder, Probe, Unlink, Yield,
              Evict, SeenExit, Kill, Poll
<1>3. Handover(p)
  BY DEF LockInv
<1> USE <1>1, <1>3 DEF LockInv, LockTypeInv, LockTypeOK, OneTenure, At, GoTo, Handover, FileOf, Absent
<1>4. CASE Release(Settled)
  BY <1>4 DEF Release
<1>5. CASE RemoveFile(Settled)
  BY <1>5 DEF RemoveFile
<1>6. CASE Exit(Settled)
  BY <1>6 DEF Exit
<1>7. CASE Crash(Settled)
  BY <1>7 DEF Crash
<1> QED
  BY <1>2, <1>4, <1>5, <1>6, <1>7

\* A step of the successor.
LEMMA LaterStep ==
    ASSUME HeldAtFirst, LockTypeInv, LockInv, NEW p \in Proc, Successor(p),
           Launch(p) \/ Acquiring(p) \/ Release(p) \/ RemoveFile(p) \/ Exit(p) \/ Crash(p)
    PROVE  Handover(p)'
<1>1. Settled \in Proc /\ Settled # p /\ Settled # NoPid /\ p # NoPid
  BY ProcAssumption DEF HeldAtFirst, Successor
<1>3. Handover(p)
  BY DEF LockInv
<1> USE <1>1, <1>3 DEF LockInv, LockTypeInv, LockTypeOK, OneTenure, At, GoTo, Handover, FileOf, Absent
<1>4. CASE Launch(p)
  BY <1>4 DEF Launch
<1>5. CASE Create(p)
  BY <1>5 DEF Create, Exists
<1>6. CASE WritePid(p)
  BY <1>6 DEF WritePid
<1>7. CASE ReadHolder(p)
  BY <1>7 DEF ReadHolder
<1>8. CASE Probe(p)
  BY <1>8 DEF Probe, Lost
<1>9. CASE Unlink(p)
  BY <1>9 DEF Unlink
<1>10. CASE Yield(p)
  BY <1>10 DEF Yield, Lost
<1>11. CASE Evict(p) \/ SeenExit(p) \/ Poll(p)
  BY <1>11 DEF Evict, SeenExit, Poll, Reacquire
<1>12. CASE Kill(p)
  BY <1>12 DEF Kill, Reacquire
<1>13. CASE Release(p) \/ RemoveFile(p) \/ Exit(p) \/ Crash(p)
  BY <1>13 DEF Release, RemoveFile, Exit, Crash
<1> QED
  BY <1>4, <1>5, <1>6, <1>7, <1>8, <1>9, <1>10, <1>11, <1>12, <1>13 DEF Acquiring

LEMMA TenureStep ==
    ASSUME HeldAtFirst, LockTypeInv, OneTenure, [LockNext]_lockVars
    PROVE  OneTenure'
<1>1. Settled \in Proc /\ Settled # NoPid
  BY ProcAssumption DEF HeldAtFirst
<1> USE <1>1, ProcAssumption DEF LockTypeInv, LockTypeOK, OneTenure, At, GoTo
<1>2. ASSUME NEW p \in Proc, Launch(p) \/ Create(p) PROVE OneTenure'
  BY <1>2 DEF Launch, Create
<1>3. ASSUME NEW p \in Proc, WritePid(p) \/ ReadHolder(p) PROVE OneTenure'
  BY <1>3 DEF WritePid, ReadHolder, File, Absent
<1>4. ASSUME NEW p \in Proc, Probe(p) \/ Yield(p) PROVE OneTenure'
  BY <1>4 DEF Probe, Yield, Lost
<1>5. ASSUME NEW p \in Proc, Unlink(p) \/ RemoveFile(p) PROVE OneTenure'
  BY <1>5 DEF Unlink, RemoveFile, Absent
<1>6. ASSUME NEW p \in Proc, Evict(p) \/ SeenExit(p) \/ Kill(p) \/ Poll(p) PROVE OneTenure'
  BY <1>6 DEF Evict, SeenExit, Kill, Poll, Reacquire
<1>7. ASSUME NEW p \in Proc, Release(p) \/ Exit(p) \/ Crash(p) PROVE OneTenure'
  BY <1>7 DEF Release, Exit, Crash
<1>8. CASE UNCHANGED lockVars
  BY <1>8 DEF lockVars
<1> QED
  BY <1>2, <1>3, <1>4, <1>5, <1>6, <1>7, <1>8 DEF LockNext, Acquiring

LEMMA LockInvStep == ASSUME HeldAtFirst PROVE LockInv /\ [LockNext]_lockVars => LockInv'
<1> SUFFICES ASSUME LockInv, [LockNext]_lockVars PROVE LockInv'
  OBVIOUS
<1>1. LockTypeInv /\ LockTypeInv' /\ OneTenure'
  BY TypeStep, TenureStep DEF LockInv
<1>2. ASSUME NEW p \in Proc, Successor(p)' PROVE Handover(p)'
  <2>1. Successor(p)
    BY <1>1, <1>2, SuccessorStays
  <2>2. CASE UNCHANGED lockVars
    BY <2>1, <2>2 DEF LockInv, Handover, lockVars
  <2>3. CASE LockNext
    <3>1. PICK q \in Proc : Launch(q) \/ Acquiring(q) \/ Release(q) \/ RemoveFile(q) \/ Exit(q) \/ Crash(q)
      BY <2>3 DEF LockNext
    <3>2. pc'[q] # "off"
      BY <1>1, <3>1
      DEF LockInv, OneTenure, LockTypeInv, LockTypeOK, Acquiring, At, GoTo, Launch, Create,
          WritePid, ReadHolder, Probe, Lost, Unlink, Yield, Evict, SeenExit, Kill, Poll,
          Reacquire, Release, RemoveFile, Exit, Crash
    <3>3. q \in {Settled, p}
      BY <1>2, <3>2 DEF Successor
    <3> QED
      BY <1>1, <2>1, <3>1, <3>3, HolderStep, LaterStep
  <2> QED
    BY <2>2, <2>3
<1> QED
  BY <1>1, <1>2 DEF LockInv

LEMMA LockInvAlways == ASSUME HeldAtFirst PROVE LockSpec => []LockInv
BY LockInvInit, LockInvStep, PTL DEF LockSpec

-----------------------------------------------------------------------------

\* With at most two processes started, one of them is the first holder.
LEMMA OneSuccessorIs ==
    ASSUME HeldAtFirst, LockInv, OneSuccessor, NEW p \in Proc, p # Settled, pc[p] # "off"
    PROVE  Successor(p)
<1> DEFINE S == {q \in Proc : pc[q] # "off"}
<1>1. IsFiniteSet(S)
  BY FS_Subset DEF HeldAtFirst
<1>2. Settled \in S /\ p \in S
  BY ProcAssumption DEF HeldAtFirst, LockInv, OneTenure
<1> SUFFICES ASSUME NEW q \in S, q # Settled, q # p PROVE FALSE
  BY DEF Successor
<1>3. Cardinality(S) \in Nat /\ Cardinality(S) <= 2
  BY <1>1, FS_CardinalityType DEF OneSuccessor
<1> DEFINE T == {Settled, p, q}
<1>4. T \subseteq S
  BY <1>2
<1>5. Cardinality(T) = 3 /\ IsFiniteSet(T)
  <2> DEFINE A == {Settled}
             B == A \cup {p}
             C == B \cup {q}
  <2>1. IsFiniteSet(A) /\ Cardinality(A) = 1
    BY FS_Singleton
  <2>2. p \notin A /\ q \notin B /\ C = T
    OBVIOUS
  <2> HIDE DEF A
  <2>3. IsFiniteSet(B) /\ Cardinality(B) = 2
    BY <2>1, <2>2, FS_AddElement
  <2> HIDE DEF B
  <2>4. IsFiniteSet(C) /\ Cardinality(C) = 3
    BY <2>2, <2>3, FS_AddElement
  <2> HIDE DEF C, T
  <2> QED
    BY <2>2, <2>4
<1>6. Cardinality(T) <= Cardinality(S)
  BY <1>1, <1>4, FS_Subset
<1> QED
  BY <1>3, <1>5, <1>6

\* In every state of the invariant, the holder is one and on file.
LEMMA HoldersExclude == ASSUME HeldAtFirst, LockInv PROVE MutualExclusion /\ HolderIsOnFile
<1> SUFFICES ASSUME OneSuccessor PROVE \A p \in Holders : file.text = p /\ \A q \in Holders : p = q
  BY DEF MutualExclusion, HolderIsOnFile
<1>1. ASSUME NEW p \in Proc, p # Settled, pc[p] # "off"
      PROVE  /\ p \in Holders => file = FileOf(p) /\ Settled \notin Holders
             /\ Settled \in Holders => file = FileOf(Settled)
             /\ \A q \in Holders : q \in {Settled, p}
  <2>1. Successor(p) /\ Handover(p)
    BY <1>1, OneSuccessorIs DEF LockInv
  <2> QED
    BY <1>1, <2>1 DEF Handover, Successor, Holders, At
<1>2. CASE \E p \in Proc : p # Settled /\ pc[p] # "off"
  BY <1>1, <1>2 DEF FileOf
<1>3. CASE \A p \in Proc : p = Settled \/ pc[p] = "off"
  BY <1>3 DEF LockInv, OneTenure, Holders, At, FileOf
<1> QED
  BY <1>2, <1>3

\* Between a holder and the one process after it, whichever of them crashes,
\* evicts, is evicted or shuts down, there is never a second live holder
\* (acquireInstanceLock, acquireInstanceLockWithEviction, releaseInstanceLock).
THEOREM SuccessorExcluded == ASSUME HeldAtFirst PROVE LockSpec => []MutualExclusion
BY HoldersExclude, LockInvAlways, PTL

\* Nor is the live holder without its pidfile (releaseInstanceLock).
THEOREM HolderOnFile == ASSUME HeldAtFirst PROVE LockSpec => []HolderIsOnFile
BY HoldersExclude, LockInvAlways, PTL

\* Type correctness, for any number of processes (acquireInstanceLock).
THEOREM LockTypeCorrect == LockSpec => []LockTypeOK
<1>1. LockTypeInv => LockTypeOK
  BY DEF LockTypeInv
<1> QED
  BY <1>1, TypeAlways, PTL

-----------------------------------------------------------------------------
(* The maps of reactions: ReceivedReactions.                               *)

\* A set of numbers has a least one.
LEMMA LeastOfNaturals ==
    ASSUME NEW T \in SUBSET Nat, T # {}
    PROVE  \E m \in T : \A n \in T : m <= n
<1>1. PICK m \in T : \A n \in T : ~ (<<n, m>> \in OpToRel(<, Nat))
  BY WFMin, NatLessThanWellFounded, Zenon
<1>2. \A n \in T : ~ (n < m)
  BY <1>1, Zenon DEF OpToRel
<1> QED
  BY <1>2

\* The recursion of Only: g has what is kept of the first entries of s.
IsFilter(g, s, messages, n) ==
    g = [i \in 0..n |-> IF i = 0 THEN <<>>
                        ELSE IF s[i].m \in messages THEN Append(g[i - 1], s[i]) ELSE g[i - 1]]

\* The recursion is a function's: of every length there is one.
LEMMA FilterExists ==
    ASSUME NEW s, NEW messages, NEW n \in Nat
    PROVE  \E g : IsFilter(g, s, messages, n)
<1> DEFINE B == {k \in Nat : ~\E g : IsFilter(g, s, messages, k)}
<1>1. SUFFICES ASSUME B # {} PROVE FALSE
  OBVIOUS
<1>2. PICK k \in B : \A j \in B : k <= j
  <2>1. B \in SUBSET Nat
    OBVIOUS
  <2> HIDE DEF B
  <2> QED
    BY <1>1, <2>1, LeastOfNaturals
<1>3. k # 0
  <2>1. IsFilter([i \in 0..0 |-> <<>>], s, messages, 0)
    BY DEF IsFilter
  <2>2. ~\E g : IsFilter(g, s, messages, k)
    BY <1>2
  <2> QED
    BY <2>1, <2>2
<1>4. k \in Nat /\ k - 1 \in Nat /\ k - 1 \notin B
  BY <1>2, <1>3
<1>5. PICK g : IsFilter(g, s, messages, k - 1)
  BY <1>4
<1>6. PICK v : v = IF s[k].m \in messages THEN Append(g[k - 1], s[k]) ELSE g[k - 1]
  OBVIOUS
<1>7. PICK h : h = [i \in 0..k |-> IF i = k THEN v ELSE g[i]]
  OBVIOUS
<1>8. \A i \in 0..k - 1 : g[i] = IF i = 0 THEN <<>>
                                 ELSE IF s[i].m \in messages THEN Append(g[i - 1], s[i]) ELSE g[i - 1]
  BY <1>5, Zenon DEF IsFilter
<1>9. h[k] = v /\ \A i \in 0..k - 1 : h[i] = g[i]
  BY <1>4, <1>7
<1>10. ASSUME NEW i \in 0..k
       PROVE  h[i] = IF i = 0 THEN <<>>
                     ELSE IF s[i].m \in messages THEN Append(h[i - 1], s[i]) ELSE h[i - 1]
  <2>1. CASE i = k
    <3>1. k - 1 \in 0..k - 1
      BY <1>4
    <3>2. h[k - 1] = g[k - 1]
      BY <1>9, <3>1
    <3> QED
      BY <1>3, <1>6, <1>9, <2>1, <3>2
  <2>2. CASE i # k /\ i # 0
    <3>1. i \in 0..k - 1 /\ i - 1 \in 0..k - 1
      BY <1>4, <2>2
    <3> QED
      BY <1>8, <1>9, <2>2, <3>1
  <2>3. CASE i # k /\ i = 0
    <3>1. i \in 0..k - 1
      BY <1>4, <2>3
    <3> QED
      BY <1>8, <1>9, <2>3, <3>1
  <2> QED
    BY <2>1, <2>2, <2>3
<1>11. IsFilter(h, s, messages, k)
  <2>1. h = [i \in 0..k |-> h[i]]
    BY <1>7
  <2> QED
    BY <1>10, <2>1 DEF IsFilter
<1> QED
  BY <1>2, <1>11

\* Only is the last value of its recursion.
LEMMA OnlyUnfolds ==
    ASSUME NEW s, Len(s) \in Nat, NEW messages
    PROVE  \E f : IsFilter(f, s, messages, Len(s)) /\ Only(s, messages) = f[Len(s)]
<1> DEFINE f == CHOOSE f : IsFilter(f, s, messages, Len(s))
<1>1. IsFilter(f, s, messages, Len(s))
  BY FilterExists
<1>2. Only(s, messages) = f[Len(s)]
  BY Zenon DEF Only, IsFilter
<1> QED
  BY <1>1, <1>2

\* A message is in the list once.
Single(s) == \A i, j \in DOMAIN s : s[i].m = s[j].m => i = j

\* Of a list the entries of these messages, each as often as it was.
LEMMA OnlyKeeps ==
    ASSUME NEW T, NEW s \in Seq(T), NEW messages
    PROVE  /\ Only(s, messages) \in Seq(T)
           /\ ToSet(Only(s, messages)) = {x \in ToSet(s) : x.m \in messages}
           /\ Single(s) => Single(Only(s, messages))
<1>1. PICK f : IsFilter(f, s, messages, Len(s)) /\ Only(s, messages) = f[Len(s)]
  BY OnlyUnfolds
<1>2. PICK n \in Nat : n = Len(s)
  OBVIOUS
<1>3. \A i \in 0..n : f[i] = IF i = 0 THEN <<>>
                             ELSE IF s[i].m \in messages THEN Append(f[i - 1], s[i]) ELSE f[i - 1]
  BY <1>1, <1>2, Zenon DEF IsFilter
<1> DEFINE Kept(k) == {s[j] : j \in {j \in 1..k : s[j].m \in messages}}
           Good(k) == /\ f[k] \in Seq(T) /\ ToSet(f[k]) = Kept(k)
                      /\ Single(s) => Single(f[k])
<1>4. Good(0)
  <2>1. f[0] = <<>>
    BY <1>3
  <2> QED
    BY <2>1 DEF ToSet, Single
<1>5. ASSUME NEW k \in 1..n, Good(k - 1) PROVE Good(k)
  <2>1. k \in 0..n /\ k # 0 /\ k \in Nat /\ k - 1 \in Nat /\ s[k] \in T /\ DOMAIN s = 1..n
    BY <1>2
  <2>2. f[k] = IF s[k].m \in messages THEN Append(f[k - 1], s[k]) ELSE f[k - 1]
    BY <1>3, <2>1
  <2>3. CASE s[k].m \notin messages
    <3>1. Kept(k) = Kept(k - 1)
      BY <2>1, <2>3
    <3> QED
      BY <1>5, <2>2, <2>3, <3>1
  <2>4. CASE s[k].m \in messages
    <3>1. Kept(k) = Kept(k - 1) \cup {s[k]}
      BY <2>1, <2>4
    <3>2. f[k] = Append(f[k - 1], s[k])
      BY <2>2, <2>4
    <3>3. PICK u \in Seq(T), x \in T : u = f[k - 1] /\ x = s[k]
      BY <1>5, <2>1
    <3>4. f[k] = Append(u, x)
      BY <3>2, <3>3
    <3>5. f[k] \in Seq(T) /\ ToSet(f[k]) = ToSet(u) \cup {x}
      BY <3>4 DEF ToSet
    <3>6. ASSUME Single(s) PROVE Single(f[k])
      <4>1. Single(u)
        BY <1>5, <3>3, <3>6
      <4>2. \A i \in DOMAIN u : \E j \in 1..k - 1 : u[i] = s[j]
        <5>1. \A i \in DOMAIN u : u[i] \in Kept(k - 1)
          BY <1>5, <3>3 DEF ToSet
        <5> QED
          BY <5>1
      <4>3. ASSUME NEW i \in DOMAIN u PROVE u[i].m # x.m
        <5>1. PICK j \in 1..k - 1 : u[i] = s[j]
          BY <4>2
        <5>2. j \in DOMAIN s /\ k \in DOMAIN s /\ j # k
          BY <2>1
        <5> QED
          BY <3>3, <3>6, <5>1, <5>2 DEF Single
      <4> QED
        BY <3>4, <4>1, <4>3 DEF Single
    <3> QED
      BY <1>5, <3>1, <3>3, <3>5, <3>6
  <2> QED
    BY <2>3, <2>4
<1>6. Good(n)
  <2> DEFINE B == {k \in Nat : k <= n /\ ~Good(k)}
  <2> HIDE DEF Good
  <2>1. SUFFICES ASSUME B # {} PROVE FALSE
    OBVIOUS
  <2>2. PICK k \in B : \A j \in B : k <= j
    <3>1. B \in SUBSET Nat
      OBVIOUS
    <3> HIDE DEF B
    <3> QED
      BY <2>1, <3>1, LeastOfNaturals
  <2>3. k # 0
    BY <1>4, <2>2
  <2>4. k \in 1..n /\ k - 1 \in Nat /\ k - 1 \notin B
    BY <1>2, <2>2, <2>3
  <2>5. Good(k - 1)
    BY <2>4
  <2> QED
    BY <1>5, <2>2, <2>4, <2>5
<1>7. Kept(n) = {x \in ToSet(s) : x.m \in messages}
  BY <1>2 DEF ToSet
<1> QED
  BY <1>1, <1>2, <1>6, <1>7

-----------------------------------------------------------------------------

\* An entry of inFlightAdds.
Adding == [m : Message, id : 1..MaxDeliveries, cleared : BOOLEAN]

\* The reaction of an add.
ReactionOf(x) == [m |-> x.m, id |-> x.id]

\* A reply has the reaction on its list.
Listed(r) == \E w \in Reply : r \in ToSet(clearing[w])

\* What the variables hold, and a reply not sent yet has no list.
ReactionTypes ==
    /\ arriving \subseteq Reaction /\ deliveries \in 0..MaxDeliveries
    /\ pending \in Seq(Reaction) /\ adding \in Seq(Adding)
    /\ clearing \in [Reply -> Seq(Reaction)]
    /\ undoing \subseteq Reaction
    /\ \A w \in unsent : w \in Reply /\ clearing[w] = <<>>

\* A message is in one of the two maps at most, and there once.
MapsAreApart ==
    /\ Single(pending) /\ Single(adding)
    /\ \A r \in ToSet(pending), x \in ToSet(adding) : r.m # x.m

\* What is being undone is the reaction of an add that was cleared.
UndoneWereCleared == \A r \in undoing : \E x \in ToSet(adding) : r = ReactionOf(x) /\ x.cleared

\* Until its tombstone is dropped a message on the list of a reply is pending still or
\* buried, is not being added, and has no other reaction in hand.
ListedAreKnown ==
    \A r \in Reaction : Listed(r) /\ r.m \notin evicted =>
       /\ r \in ToSet(pending) \/ IsIn(r.m, tombstones)
       /\ ~IsIn(r.m, adding)
       /\ \A s \in Reaction : (s \in ToSet(pending) \/ Listed(s)) /\ s.m = r.m => s = r

ReactionInv == ReactionTypes /\ MapsAreApart /\ UndoneWereCleared /\ ListedAreKnown /\ NoneStranded

\* The invariant holds at first, when every map is empty.
LEMMA ReactionInvInit == ReactionInit => ReactionInv
BY BoundsAssumption DEF ReactionInit, ReactionInv, ReactionTypes, MapsAreApart, UndoneWereCleared,
                             ListedAreKnown, ToSet, Single, Listed, NoneStranded

\* The elements of a list, of a longer one and of what is behind its head.
LEMMA ToSetOf ==
    ASSUME NEW T, NEW s \in Seq(T), NEW x \in T
    PROVE  /\ ToSet(s) \subseteq T
           /\ ToSet(Append(s, x)) = ToSet(s) \cup {x} /\ Append(s, x) \in Seq(T)
           /\ s # <<>> => /\ Head(s) \in ToSet(s) /\ Tail(s) \in Seq(T)
                          /\ ToSet(s) = {Head(s)} \cup ToSet(Tail(s))
<1>1. ToSet(s) \subseteq T
  BY DEF ToSet
<1>2. ASSUME NEW u, u = Append(s, x) PROVE u \in Seq(T) /\ ToSet(u) = ToSet(s) \cup {x}
  BY <1>2 DEF ToSet
<1>3. ASSUME s # <<>>
      PROVE /\ Head(s) \in ToSet(s) /\ Tail(s) \in Seq(T)
            /\ ToSet(s) = {Head(s)} \cup ToSet(Tail(s))
  <2>1. PICK u \in Seq(T), n \in Nat : u = Tail(s) /\ n = Len(s) /\ n # 0
    <3>1. Tail(s) \in Seq(T)
      BY <1>3
    <3>2. Len(s) \in Nat /\ Len(s) # 0
      BY <1>3
    <3> QED
      BY <3>1, <3>2, Zenon
  <2>2. DOMAIN s = 1..n /\ DOMAIN u = 1..n - 1 /\ \A i \in 1..n - 1 : u[i] = s[i + 1]
    BY <1>3, <2>1
  <2>3. Head(s) = s[1] /\ 1 \in DOMAIN s
    BY <1>3, <2>1, <2>2
  <2>4. \A i \in DOMAIN s : i = 1 \/ (i - 1 \in DOMAIN u /\ u[i - 1] = s[i])
    BY <2>1, <2>2
  <2>5. \A i \in DOMAIN u : i + 1 \in DOMAIN s /\ u[i] = s[i + 1]
    BY <2>1, <2>2
  <2>6. ToSet(s) = {Head(s)} \cup ToSet(u)
    <3>1. ASSUME NEW y \in ToSet(s) PROVE y = Head(s) \/ y \in ToSet(u)
      BY <2>3, <2>4 DEF ToSet
    <3>2. ToSet(u) \subseteq ToSet(s) /\ Head(s) \in ToSet(s)
      BY <2>3, <2>5 DEF ToSet
    <3> QED
      BY <3>1, <3>2
  <2> QED
    BY <2>1, <2>6
<1> QED
  BY <1>1, <1>2, <1>3

\* A message that is not in a map goes behind the others.
LEMMA SingleAppend ==
    ASSUME NEW T, NEW s \in Seq(T), NEW x \in T, Single(s), \A y \in ToSet(s) : y.m # x.m
    PROVE  Single(Append(s, x))
BY DEF Single, ToSet

\* What a map is without a message, and the part of it of a chat.
LEMMA WithoutKeeps ==
    ASSUME NEW T, NEW s \in Seq(T), \A x \in T : x.m \in Message, NEW m
    PROVE  /\ Without(s, m) \in Seq(T)
           /\ ToSet(Without(s, m)) = {x \in ToSet(s) : x.m # m}
           /\ Single(s) => Single(Without(s, m))
<1>1. \A x \in ToSet(s) : x.m \in Message
  BY DEF ToSet
<1> QED
  BY <1>1, OnlyKeeps DEF Without

LEMMA InChatKeeps ==
    ASSUME NEW T, NEW s \in Seq(T), NEW c
    PROVE  InChat(s, c) \in Seq(T) /\ ToSet(InChat(s, c)) \subseteq ToSet(s)
BY OnlyKeeps DEF InChat

\* The head of what is left is behind what is cleared.
LEMMA HeadIsBuried ==
    ASSUME NEW left \in Seq(Reaction), NEW cleared \in Seq(Adding), left # <<>>
    PROVE  IsIn(Head(left).m, Append(cleared, Head(left))) /\ Head(left) \in ToSet(left)
<1>1. PICK x \in Reaction : x = Head(left)
  OBVIOUS
<1>2. PICK T : T = Adding \cup Reaction
  OBVIOUS
<1>3. x \in T /\ cleared \in Seq(T)
  BY <1>2
<1>4. ToSet(Append(cleared, x)) = ToSet(cleared) \cup {x}
  BY <1>3, ToSetOf
<1>5. IsIn(x.m, Append(cleared, x))
  BY <1>4 DEF IsIn
<1>6. x \in ToSet(left)
  BY <1>1, ToSetOf
<1> QED
  BY <1>1, <1>5, <1>6

\* What an advance of reply w leaves: what is pending or listed was so before, the head of
\* what is left moves from the one to the other, and what is listed is pending or buried.
LEMMA AdvanceKeeps ==
    ASSUME ReactionInv, NEW w \in Reply, NEW left \in Seq(Reaction), NEW cleared \in Seq(Adding),
           Advance(w, left, cleared),
           \A r \in ToSet(left) : r \in ToSet(pending) \/ Listed(r)
    PROVE  /\ pending' \in Seq(Reaction) /\ Single(pending') /\ ToSet(pending') \subseteq ToSet(pending)
           /\ clearing' \in [Reply -> Seq(Reaction)] /\ clearing'[w] = left
           /\ \A v \in Reply \ {w} : clearing'[v] = clearing[v]
           /\ evicted \subseteq evicted'
           /\ \A r : Listed(r)' => Listed(r) \/ r \in ToSet(pending)
           /\ \A r : Listed(r) => Listed(r)' \/ (r \in ToSet(clearing[w]) /\ r \notin ToSet(left))
           /\ \A r \in ToSet(pending) : r \in ToSet(pending') \/ Listed(r)' \/ r.m \in evicted'
           /\ \A r \in Reaction : Listed(r)' /\ r.m \notin evicted' =>
                 r \in ToSet(pending') \/ IsIn(r.m, tombstones')
<1> USE DEF ReactionInv, ReactionTypes, MapsAreApart, ListedAreKnown
<1>1. PICK buried : buried = IF left = <<>> THEN cleared ELSE Append(cleared, Head(left))
  OBVIOUS
<1>2. left # <<>> => IsIn(Head(left).m, buried) /\ Head(left) \in ToSet(left)
  BY <1>1, HeadIsBuried
<1>3. /\ evicted \subseteq evicted'
      /\ \A m \in Message : IsIn(m, tombstones) \/ IsIn(m, buried) => IsIn(m, tombstones') \/ m \in evicted'
  BY <1>1, Zenon DEF Advance, Entomb
<1>4. /\ clearing' \in [Reply -> Seq(Reaction)] /\ clearing'[w] = left
      /\ \A v \in Reply \ {w} : clearing'[v] = clearing[v]
  BY DEF Advance
<1>5. /\ pending' \in Seq(Reaction) /\ Single(pending') /\ ToSet(pending') \subseteq ToSet(pending)
      /\ \A r \in ToSet(pending) : r \in ToSet(pending') \/ (left # <<>> /\ r.m = Head(left).m)
  <2>1. CASE left = <<>>
    BY <2>1 DEF Advance
  <2>2. CASE left # <<>>
    <3>1. pending' = Without(pending, Head(left).m)
      BY <2>2 DEF Advance
    <3>2. \A r \in Reaction : r.m \in Message
      BY DEF Reaction
    <3>3. /\ Without(pending, Head(left).m) \in Seq(Reaction)
          /\ ToSet(Without(pending, Head(left).m)) = {r \in ToSet(pending) : r.m # Head(left).m}
          /\ Single(Without(pending, Head(left).m))
      <4>1. PICK k : k = Head(left).m
        OBVIOUS
      <4>2. pending \in Seq(Reaction) /\ Single(pending)
        OBVIOUS
      <4>3. /\ Without(pending, k) \in Seq(Reaction)
            /\ ToSet(Without(pending, k)) = {r \in ToSet(pending) : r.m # k}
            /\ Single(pending) => Single(Without(pending, k))
        BY <3>2, <4>2, WithoutKeeps
      <4> QED
        BY <4>1, <4>2, <4>3
    <3> QED
      BY <2>2, <3>1, <3>3
  <2> QED
    BY <2>1, <2>2
<1>6. \A r : Listed(r)' => Listed(r) \/ r \in ToSet(pending)
  BY <1>4 DEF Listed
<1>7. \A r : Listed(r) => Listed(r)' \/ (r \in ToSet(clearing[w]) /\ r \notin ToSet(left))
  BY <1>4 DEF Listed
<1>8. \A r \in ToSet(pending) : r \in Reaction /\ r.m \in Message
  <2>1. ToSet(pending) \subseteq Reaction
    BY DEF ToSet
  <2> QED
    BY <2>1 DEF Reaction
<1>9. ASSUME NEW r \in ToSet(pending), r \notin ToSet(pending'), r.m \notin evicted'
      PROVE  Listed(r)' /\ IsIn(r.m, tombstones')
  <2>1. left # <<>> /\ r.m = Head(left).m
    BY <1>5, <1>9
  <2>2. Head(left) \in Reaction
    BY <2>1
  <2>3. r = Head(left)
    <3>1. CASE Head(left) \in ToSet(pending)
      BY <2>1, <3>1 DEF Single, ToSet
    <3>2. CASE Listed(Head(left))
      BY <1>3, <1>8, <1>9, <2>1, <2>2, <3>2
    <3> QED
      BY <1>2, <2>1, <3>1, <3>2
  <2>4. Listed(r)'
    BY <1>2, <1>4, <2>1, <2>3 DEF Listed
  <2>5. IsIn(r.m, tombstones')
    BY <1>2, <1>3, <1>8, <1>9, <2>1
  <2> QED
    BY <2>4, <2>5
<1>10. ASSUME NEW r \in Reaction, Listed(r)', r.m \notin evicted'
       PROVE  r \in ToSet(pending') \/ IsIn(r.m, tombstones')
  <2>1. r.m \in Message /\ r.m \notin evicted
    BY <1>3, <1>10 DEF Reaction
  <2>2. r \in ToSet(pending) \/ IsIn(r.m, tombstones)
    BY <1>6, <1>10, <2>1
  <2> QED
    BY <1>3, <1>9, <1>10, <2>1, <2>2
<1> QED
  BY <1>3, <1>4, <1>5, <1>6, <1>7, <1>9, <1>10

\* The part of the invariant about the maps and the lists, when a reply advances and no
\* message begins to be added.
LEMMA AdvanceKeepsLists ==
    ASSUME ReactionInv, NEW w \in Reply, NEW left \in Seq(Reaction), NEW cleared \in Seq(Adding),
           Advance(w, left, cleared),
           \A r \in ToSet(left) : r \in ToSet(pending) \/ Listed(r),
           \A x \in ToSet(adding') : \E y \in ToSet(adding) : x.m = y.m
    PROVE  /\ \A r \in ToSet(pending'), x \in ToSet(adding') : r.m # x.m
           /\ ListedAreKnown'
<1>1. /\ ToSet(pending') \subseteq ToSet(pending) /\ evicted \subseteq evicted'
      /\ \A r : Listed(r)' => Listed(r) \/ r \in ToSet(pending)
      /\ \A r \in Reaction : Listed(r)' /\ r.m \notin evicted' =>
            r \in ToSet(pending') \/ IsIn(r.m, tombstones')
  BY AdvanceKeeps
<1>2. \A r \in ToSet(pending), x \in ToSet(adding) : r.m # x.m
  BY DEF ReactionInv, MapsAreApart
<1>3. \A r \in ToSet(pending'), x \in ToSet(adding') : r.m # x.m
  BY <1>1, <1>2
<1>4. \A r, s \in ToSet(pending) : r.m = s.m => r = s
  BY DEF ReactionInv, MapsAreApart, Single, ToSet
<1>5. ASSUME NEW r \in Reaction, Listed(r)', r.m \notin evicted'
      PROVE  /\ ~IsIn(r.m, adding')
             /\ \A s \in Reaction : (s \in ToSet(pending') \/ Listed(s)') /\ s.m = r.m => s = r
  <2>1. r.m \notin evicted /\ (Listed(r) \/ r \in ToSet(pending))
    BY <1>1, <1>5
  <2>2. ~IsIn(r.m, adding)
    BY <1>2, <2>1 DEF IsIn, ReactionInv, ListedAreKnown
  <2>3. ~IsIn(r.m, adding')
    BY <2>2 DEF IsIn
  <2>4. ASSUME NEW s \in Reaction, s \in ToSet(pending') \/ Listed(s)', s.m = r.m PROVE s = r
    <3>1. s \in ToSet(pending) \/ Listed(s)
      BY <1>1, <2>4
    <3>2. CASE Listed(r) \/ Listed(s)
      BY <2>1, <2>4, <3>1, <3>2 DEF ReactionInv, ListedAreKnown
    <3>3. CASE r \in ToSet(pending) /\ s \in ToSet(pending)
      BY <1>4, <2>4, <3>3
    <3> QED
      BY <2>1, <3>1, <3>2, <3>3
  <2> QED
    BY <2>3, <2>4
<1> QED
  BY <1>1, <1>3, <1>5 DEF ListedAreKnown

\* A reaction, and the one that an add makes, is on a message.
LEMMA ReactionsHaveMessages ==
    /\ \A r \in Reaction : r.m \in Message
    /\ \A x \in Adding : x.m \in Message /\ ReactionOf(x) \in Reaction /\ ReactionOf(x).m = x.m
BY DEF Reaction, Adding, ReactionOf

\* Without the add of a message whose reaction is undone no more.
LEMMA AddGone ==
    ASSUME ReactionInv, NEW x \in ToSet(adding), adding' = Without(adding, x.m),
           undoing' = undoing \ {ReactionOf(x)}
    PROVE  /\ adding' \in Seq(Adding) /\ Single(adding')
           /\ ToSet(adding') = {y \in ToSet(adding) : y.m # x.m}
           /\ UndoneWereCleared'
<1>1. adding \in Seq(Adding) /\ Single(adding)
  BY DEF ReactionInv, ReactionTypes, MapsAreApart
<1>2. /\ adding' \in Seq(Adding) /\ Single(adding')
      /\ ToSet(adding') = {y \in ToSet(adding) : y.m # x.m}
  BY <1>1, ReactionsHaveMessages, WithoutKeeps
<1>3. \A y \in ToSet(adding) : y.m = x.m => y = x
  BY <1>1 DEF Single, ToSet
<1>4. ASSUME NEW r \in undoing' PROVE \E y \in ToSet(adding') : r = ReactionOf(y) /\ y.cleared
  <2>1. PICK y \in ToSet(adding) : r = ReactionOf(y) /\ y.cleared
    BY <1>4 DEF ReactionInv, UndoneWereCleared
  <2>2. y.m # x.m
    BY <1>3, <1>4, <2>1
  <2> QED
    BY <1>2, <2>1, <2>2
<1> QED
  BY <1>2, <1>4 DEF UndoneWereCleared

\* Every step of the daemon and every call that returns keeps the maps apart, the lists of
\* the replies known and every reaction in some hand.
LEMMA ReactionInvStep == ReactionInv /\ [ReactionNext]_reactionVars => ReactionInv'
<1> SUFFICES ASSUME ReactionInv, [ReactionNext]_reactionVars PROVE ReactionInv'
  OBVIOUS
<1>0. /\ ReactionTypes /\ MapsAreApart /\ UndoneWereCleared /\ ListedAreKnown /\ NoneStranded
      /\ ToSet(pending) \subseteq Reaction /\ ToSet(adding) \subseteq Adding
  BY DEF ReactionInv, ReactionTypes, ToSet
<1>1. ASSUME NEW m \in Message, Notify(m) PROVE ReactionInv'
  <2>1. [m |-> m, id |-> deliveries'] \in Reaction
    BY <1>0, <1>1, BoundsAssumption DEF Notify, Reaction, ReactionTypes
  <2> QED
    BY <1>0, <1>1, <2>1, BoundsAssumption DEF Notify, history, Listed, NoneStranded, ReactionInv,
       ReactionTypes, MapsAreApart, UndoneWereCleared, ListedAreKnown
<1>2. ASSUME NEW x \in arriving, MarkReceived(x) PROVE ReactionInv'
  <2>1. CASE UNCHANGED adding
    BY <1>0, <1>2, <2>1 DEF MarkReceived, bounds, Listed, NoneStranded, ReactionInv,
       ReactionTypes, MapsAreApart, UndoneWereCleared, ListedAreKnown
  <2>2. CASE ~IsIn(x.m, pending) /\ ~IsIn(x.m, adding) /\ ~IsIn(x.m, tombstones)
    <3>1. PICK y : y = [m |-> x.m, id |-> x.id, cleared |-> FALSE]
      OBVIOUS
    <3>2. y \in Adding /\ y.m = x.m
      BY <1>0, <3>1 DEF Adding, Reaction, ReactionTypes
    <3>3. adding' = Append(adding, y)
      BY <1>2, <2>2, <3>1 DEF MarkReceived
    <3>4. adding' \in Seq(Adding) /\ ToSet(adding') = ToSet(adding) \cup {y}
      BY <1>0, <3>2, <3>3, ToSetOf DEF ReactionTypes
    <3>5. ReactionTypes'
      BY <1>0, <1>2, <3>4 DEF MarkReceived, ReactionTypes, bounds
    <3>6. Single(adding')
      BY <1>0, <2>2, <3>2, <3>3, SingleAppend DEF ReactionTypes, MapsAreApart, IsIn
    <3>7. MapsAreApart'
      BY <1>0, <1>2, <2>2, <3>2, <3>4, <3>6 DEF MarkReceived, MapsAreApart, IsIn
    <3>8. UndoneWereCleared'
      BY <1>0, <1>2, <3>4 DEF MarkReceived, UndoneWereCleared
    <3>9. \A r : Listed(r)' <=> Listed(r)
      BY <1>2 DEF MarkReceived, Listed
    <3>10. ListedAreKnown'
      <4>1. pending' = pending /\ tombstones' = tombstones /\ evicted' = evicted
        BY <1>2 DEF MarkReceived
      <4>2. ASSUME NEW r \in Reaction, Listed(r), r.m \notin evicted PROVE ~IsIn(r.m, adding')
        <5>1. ~IsIn(r.m, adding) /\ (r \in ToSet(pending) \/ IsIn(r.m, tombstones))
          BY <1>0, <4>2 DEF ListedAreKnown
        <5>2. r.m # x.m
          BY <2>2, <5>1 DEF IsIn
        <5> QED
          BY <3>2, <3>4, <5>1, <5>2 DEF IsIn
      <4> QED
        BY <1>0, <3>9, <4>1, <4>2 DEF ListedAreKnown
    <3>11. NoneStranded'
      BY <1>0, <1>2 DEF MarkReceived, NoneStranded
    <3> QED
      BY <3>5, <3>7, <3>8, <3>10, <3>11 DEF ReactionInv
  <2> QED
    BY <1>2, <2>1, <2>2 DEF MarkReceived
<1>3. ASSUME NEW x \in ToSet(adding), AddResolves(x) PROVE ReactionInv'
  <2> DEFINE r == ReactionOf(x)
  <2>1. x \in Adding /\ r \in Reaction /\ r.m = x.m /\ r \notin undoing
    BY <1>0, <1>3, ReactionsHaveMessages DEF AddResolves, Awaited, ReactionOf
  <2>2. /\ reactions' = reactions \cup {r}
        /\ UNCHANGED <<arriving, tombstones, clearing, unsent, deliveries, evicted, abandoned, lost>>
    BY <1>3 DEF AddResolves, ReactionOf, bounds, history
  <2>3. \A s : Listed(s)' <=> Listed(s)
    BY <2>2 DEF Listed
  <2>4. CASE x.cleared
    <3>1. undoing' = undoing \cup {r} /\ UNCHANGED <<pending, adding>>
      BY <1>3, <2>4 DEF AddResolves, ReactionOf
    <3>2. ReactionTypes' /\ MapsAreApart' /\ UndoneWereCleared'
      BY <1>0, <2>1, <2>2, <2>4, <3>1 DEF ReactionTypes, MapsAreApart, UndoneWereCleared
    <3>3. ListedAreKnown'
      BY <1>0, <2>2, <2>3, <3>1 DEF ListedAreKnown
    <3>4. NoneStranded'
      BY <1>0, <2>2, <3>1 DEF NoneStranded
    <3> QED
      BY <3>2, <3>3, <3>4 DEF ReactionInv
  <2>5. CASE ~x.cleared
    <3>1. adding' = Without(adding, x.m) /\ pending' = Append(pending, r) /\ undoing' = undoing
      BY <1>3, <2>5 DEF AddResolves, ReactionOf
    <3>2. undoing' = undoing \ {r}
      BY <2>1, <3>1
    <3> HIDE DEF r
    <3>3. /\ adding' \in Seq(Adding) /\ Single(adding') /\ UndoneWereCleared'
          /\ ToSet(adding') = {y \in ToSet(adding) : y.m # x.m}
      BY <3>1, <3>2, AddGone DEF r
    <3>4. pending' \in Seq(Reaction) /\ ToSet(pending') = ToSet(pending) \cup {r}
      BY <1>0, <2>1, <3>1, ToSetOf DEF ReactionTypes
    <3>5. \A p \in ToSet(pending) : p.m # r.m
      BY <1>0, <2>1 DEF MapsAreApart
    <3>6. Single(pending')
      BY <1>0, <2>1, <3>1, <3>5, SingleAppend DEF ReactionTypes, MapsAreApart
    <3>7. ReactionTypes' /\ MapsAreApart'
      BY <1>0, <2>1, <2>2, <3>1, <3>3, <3>4, <3>6 DEF ReactionTypes, MapsAreApart
    <3>8. ListedAreKnown'
      <4>1. ASSUME NEW s \in Reaction, Listed(s), s.m \notin evicted
            PROVE  s.m # r.m /\ ~IsIn(s.m, adding')
        <5>1. ~IsIn(s.m, adding)
          BY <1>0, <4>1 DEF ListedAreKnown
        <5> QED
          BY <2>1, <3>3, <5>1 DEF IsIn
      <4> QED
        BY <1>0, <2>2, <2>3, <3>4, <4>1 DEF ListedAreKnown
    <3>9. NoneStranded'
      BY <1>0, <2>2, <3>1, <3>4 DEF NoneStranded
    <3> QED
      BY <3>3, <3>7, <3>8, <3>9 DEF ReactionInv
  <2> QED
    BY <2>4, <2>5
<1>4. ASSUME NEW x \in ToSet(adding), AddReactionFails(x) PROVE ReactionInv'
  <2>1. /\ adding' = Without(adding, x.m) /\ ReactionOf(x) \notin undoing
        /\ UNCHANGED <<arriving, pending, tombstones, undoing, clearing, unsent, deliveries,
                       evicted, lost>>
    BY <1>4 DEF AddReactionFails, Awaited, ReactionOf
  <2>2. undoing' = undoing \ {ReactionOf(x)}
    BY <2>1
  <2>3. /\ adding' \in Seq(Adding) /\ Single(adding') /\ UndoneWereCleared'
        /\ ToSet(adding') \subseteq ToSet(adding)
    BY <2>1, <2>2, AddGone
  <2>4. ReactionTypes' /\ MapsAreApart'
    BY <1>0, <2>1, <2>3 DEF ReactionTypes, MapsAreApart
  <2>5. \A s : Listed(s)' <=> Listed(s)
    BY <2>1 DEF Listed
  <2>6. ListedAreKnown'
    BY <1>0, <2>1, <2>3, <2>5 DEF ListedAreKnown, IsIn
  <2>7. abandoned \subseteq abandoned' /\ reactions' \ abandoned' \subseteq reactions
    BY <1>4 DEF AddReactionFails
  <2>8. NoneStranded'
    BY <1>0, <2>1, <2>7 DEF NoneStranded
  <2> QED
    BY <2>3, <2>4, <2>6, <2>8 DEF ReactionInv
<1>5. ASSUME NEW r \in undoing, UndoResolves(r) PROVE ReactionInv'
  <2>1. /\ adding' = Without(adding, r.m) /\ undoing' = undoing \ {r}
        /\ UNCHANGED <<arriving, pending, tombstones, clearing, unsent, deliveries, evicted, lost>>
    BY <1>5 DEF UndoResolves
  <2>2. PICK x \in ToSet(adding) : r = ReactionOf(x)
    BY <1>0 DEF UndoneWereCleared
  <2>3. r.m = x.m
    BY <1>0, <2>2, ReactionsHaveMessages
  <2>4. /\ adding' \in Seq(Adding) /\ Single(adding') /\ UndoneWereCleared'
        /\ ToSet(adding') \subseteq ToSet(adding)
    BY <2>1, <2>2, <2>3, AddGone
  <2>5. ReactionTypes' /\ MapsAreApart'
    BY <1>0, <2>1, <2>4 DEF ReactionTypes, MapsAreApart
  <2>6. \A s : Listed(s)' <=> Listed(s)
    BY <2>1 DEF Listed
  <2>7. ListedAreKnown'
    BY <1>0, <2>1, <2>4, <2>6 DEF ListedAreKnown, IsIn
  <2>8. abandoned \subseteq abandoned' /\ reactions' \ abandoned' \subseteq reactions \ {r}
    BY <1>5 DEF UndoResolves, Removed
  <2>9. NoneStranded'
    BY <1>0, <2>1, <2>8 DEF NoneStranded
  <2> QED
    BY <2>4, <2>5, <2>7, <2>9 DEF ReactionInv
<1>6. ASSUME NEW w \in Reply, NEW m \in Message, ReplyLands(w, ChatOf[m]) PROVE ReactionInv'
  <2> DEFINE left == InChat(pending, ChatOf[m])
             cleared == InChat(adding, ChatOf[m])
  <2>1. /\ w \in unsent /\ unsent' = unsent \ {w} /\ Advance(w, left, cleared)
        /\ UNCHANGED <<arriving, reactions, undoing, deliveries, abandoned, lost>>
    BY <1>6 DEF ReplyLands, bounds
  <2>2. left \in Seq(Reaction) /\ cleared \in Seq(Adding) /\ ToSet(left) \subseteq ToSet(pending)
    BY <1>0, InChatKeeps DEF ReactionTypes
  <2> HIDE DEF left, cleared
  <2>3. \A r \in ToSet(left) : r \in ToSet(pending) \/ Listed(r)
    BY <2>2
  <2>4. /\ adding' \in Seq(Adding) /\ DOMAIN adding' = DOMAIN adding
        /\ \A i \in DOMAIN adding : /\ adding'[i].m = adding[i].m
                                    /\ ReactionOf(adding'[i]) = ReactionOf(adding[i])
                                    /\ adding[i].cleared => adding'[i].cleared
    <3>1. \A i \in DOMAIN adding : adding[i] \in Adding
      BY <1>0 DEF ReactionTypes
    <3>2. \A y \in Adding : LET z == [y EXCEPT !.cleared = TRUE]
                            IN z \in Adding /\ z.m = y.m /\ z.id = y.id /\ z.cleared
      BY DEF Adding
    <3>3. PICK n \in Nat : n = Len(adding) /\ DOMAIN adding = 1..n
      BY <1>0 DEF ReactionTypes
    <3>4. adding' = [i \in 1..n |-> IF ChatOf[adding[i].m] = ChatOf[m] THEN [adding[i] EXCEPT !.cleared = TRUE]
                                    ELSE adding[i]]
      BY <1>6, <3>3 DEF ReplyLands
    <3>5. \A i \in 1..n : adding'[i] = [adding[i] EXCEPT !.cleared = TRUE] \/ adding'[i] = adding[i]
      BY <3>4
    <3>6. \A i \in 1..n : adding'[i] \in Adding
      BY <3>1, <3>2, <3>3, <3>5
    <3>7. adding' \in [1..n -> Adding]
      BY <3>4, <3>6
    <3>8. \A i \in 1..n : /\ adding'[i].m = adding[i].m /\ adding'[i].id = adding[i].id
                          /\ adding[i].cleared => adding'[i].cleared
      BY <3>1, <3>2, <3>3, <3>5
    <3> QED
      BY <3>3, <3>7, <3>8 DEF ReactionOf
  <2>5. \A x \in ToSet(adding') : \E y \in ToSet(adding) : x.m = y.m
    BY <2>4 DEF ToSet
  <2>6. /\ pending' \in Seq(Reaction) /\ Single(pending') /\ ToSet(pending') \subseteq ToSet(pending)
        /\ clearing' \in [Reply -> Seq(Reaction)] /\ evicted \subseteq evicted'
        /\ \A v \in Reply \ {w} : clearing'[v] = clearing[v]
        /\ \A r : Listed(r) => Listed(r)' \/ (r \in ToSet(clearing[w]) /\ r \notin ToSet(left))
        /\ \A r \in ToSet(pending) : r \in ToSet(pending') \/ Listed(r)' \/ r.m \in evicted'
    BY <2>1, <2>2, <2>3, AdvanceKeeps
  <2>7. ListedAreKnown' /\ \A r \in ToSet(pending'), x \in ToSet(adding') : r.m # x.m
    BY <2>1, <2>2, <2>3, <2>5, AdvanceKeepsLists
  <2>8. clearing[w] = <<>> /\ ToSet(clearing[w]) = {}
    BY <1>0, <2>1 DEF ReactionTypes, ToSet
  <2>9. ReactionTypes'
    BY <1>0, <2>1, <2>4, <2>6 DEF ReactionTypes
  <2>10. MapsAreApart'
    BY <1>0, <2>4, <2>6, <2>7 DEF MapsAreApart, Single
  <2>11. UndoneWereCleared'
    BY <1>0, <2>1, <2>4 DEF UndoneWereCleared, ToSet
  <2>12. NoneStranded'
    <3>1. ASSUME NEW r \in reactions, Listed(r) PROVE Listed(r)'
      BY <2>6, <2>8, <3>1
    <3> QED
      BY <1>0, <2>1, <2>6, <3>1 DEF NoneStranded, Listed
  <2> QED
    BY <2>7, <2>9, <2>10, <2>11, <2>12 DEF ReactionInv
<1>7. ASSUME NEW w \in Reply, RemovalResolves(w) PROVE ReactionInv'
  <2> DEFINE first == Head(clearing[w])
             left == Tail(clearing[w])
  <2>1. /\ clearing[w] # <<>> /\ Removed(first) /\ Advance(w, left, <<>>)
        /\ UNCHANGED <<arriving, adding, undoing, unsent, deliveries, lost>>
    BY <1>7 DEF RemovalResolves
  <2>2. /\ left \in Seq(Reaction) /\ <<>> \in Seq(Adding) /\ first \in ToSet(clearing[w])
        /\ ToSet(clearing[w]) = {first} \cup ToSet(left)
    <3>1. PICK u \in Seq(Reaction) : u = clearing[w] /\ u # <<>>
      BY <1>0, <2>1 DEF ReactionTypes
    <3>2. Head(u) \in Reaction
      BY <3>1
    <3> QED
      BY <3>1, <3>2, ToSetOf
  <2> HIDE DEF left, first
  <2>3. \A r \in ToSet(left) : r \in ToSet(pending) \/ Listed(r)
    BY <2>2 DEF Listed
  <2>5. \A x \in ToSet(adding') : \E y \in ToSet(adding) : x.m = y.m
    BY <2>1
  <2>6. /\ pending' \in Seq(Reaction) /\ Single(pending') /\ ToSet(pending') \subseteq ToSet(pending)
        /\ clearing' \in [Reply -> Seq(Reaction)] /\ evicted \subseteq evicted'
        /\ \A v \in Reply \ {w} : clearing'[v] = clearing[v]
        /\ \A r : Listed(r) => Listed(r)' \/ (r \in ToSet(clearing[w]) /\ r \notin ToSet(left))
        /\ \A r \in ToSet(pending) : r \in ToSet(pending') \/ Listed(r)' \/ r.m \in evicted'
    BY <2>1, <2>2, <2>3, AdvanceKeeps
  <2>7. ListedAreKnown' /\ \A r \in ToSet(pending'), x \in ToSet(adding') : r.m # x.m
    BY <2>1, <2>2, <2>3, <2>5, AdvanceKeepsLists
  <2>8. w \notin unsent
    BY <1>0, <2>1 DEF ReactionTypes
  <2>9. ReactionTypes'
    BY <1>0, <2>1, <2>6, <2>8 DEF ReactionTypes
  <2>10. MapsAreApart'
    BY <1>0, <2>1, <2>6, <2>7 DEF MapsAreApart
  <2>11. UndoneWereCleared'
    BY <1>0, <2>1 DEF UndoneWereCleared
  <2>12. abandoned \subseteq abandoned' /\ reactions' \ abandoned' \subseteq reactions \ {first}
    BY <2>1 DEF Removed
  <2>13. NoneStranded'
    <3>1. ASSUME NEW r, Listed(r), r # first PROVE Listed(r)'
      BY <2>2, <2>6, <3>1
    <3> QED
      BY <1>0, <2>1, <2>6, <2>12, <3>1 DEF NoneStranded, Listed
  <2> QED
    BY <2>7, <2>9, <2>10, <2>11, <2>13 DEF ReactionInv
<1>8. CASE RestartDaemon
  <2>1. \A w \in Reply : clearing'[w] = <<>>
    BY <1>8 DEF RestartDaemon
  <2>2. reactions' \subseteq lost'
    BY <1>8 DEF RestartDaemon
  <2> QED
    BY <1>0, <1>8, <2>1, <2>2 DEF RestartDaemon, Listed, NoneStranded, ToSet, Single, ReactionInv,
       ReactionTypes, MapsAreApart, UndoneWereCleared, ListedAreKnown
<1>9. CASE UNCHANGED reactionVars
  BY <1>0, <1>9 DEF reactionVars, bounds, history, Listed, NoneStranded, IsIn, ReactionInv,
     ReactionTypes, MapsAreApart, UndoneWereCleared, ListedAreKnown
<1> QED
  BY <1>1, <1>2, <1>3, <1>4, <1>5, <1>6, <1>7, <1>8, <1>9 DEF ReactionNext, RemoteCall

\* Two reactions in hand on one message are one: both are in the same map, or on a list.
LEMMA InvGivesOneIndicator == ReactionInv => OneIndicator
<1> SUFFICES ASSUME ReactionInv,
                    NEW r \in reactions \ (abandoned \cup lost), NEW s \in reactions \ (abandoned \cup lost),
                    r.m = s.m, r.m \notin evicted
             PROVE  r = s
  BY DEF OneIndicator
<1> DEFINE InHand(t) == t \in ToSet(pending) \/ t \in undoing \/ Listed(t)
<1>1. /\ ReactionTypes /\ MapsAreApart /\ UndoneWereCleared /\ ListedAreKnown
      /\ ToSet(pending) \subseteq Reaction /\ ToSet(adding) \subseteq Adding
  BY DEF ReactionInv, ReactionTypes, ToSet
<1>2. InHand(r) /\ InHand(s)
  BY DEF ReactionInv, NoneStranded, Listed
<1>3. \A t : Listed(t) => t \in Reaction
  BY <1>1 DEF Listed, ReactionTypes, ToSet
<1>4. r \in Reaction /\ s \in Reaction
  BY <1>1, <1>2, <1>3 DEF ReactionTypes
<1>5. \A t \in undoing : \E x \in ToSet(adding) : t = ReactionOf(x) /\ x.m = t.m
  BY <1>1, ReactionsHaveMessages DEF UndoneWereCleared
<1>6. CASE r \in undoing \/ s \in undoing
  <2>1. PICK x \in ToSet(adding) : x.m = r.m
    BY <1>5, <1>6
  <2>2. IsIn(r.m, adding)
    BY <2>1 DEF IsIn
  <2>3. r \notin ToSet(pending) /\ s \notin ToSet(pending)
    BY <1>1, <2>1 DEF MapsAreApart
  <2>4. ~Listed(r) /\ ~Listed(s)
    BY <1>1, <1>4, <2>2 DEF ListedAreKnown
  <2>5. r \in undoing /\ s \in undoing
    BY <1>2, <2>3, <2>4
  <2>6. \A x1, y1 \in ToSet(adding) : x1.m = y1.m => x1 = y1
    BY <1>1 DEF MapsAreApart, Single, ToSet
  <2> QED
    BY <1>5, <2>5, <2>6
<1>7. CASE Listed(r) \/ Listed(s)
  BY <1>1, <1>2, <1>4, <1>6, <1>7 DEF ListedAreKnown
<1>8. CASE r \in ToSet(pending) /\ s \in ToSet(pending)
  BY <1>1, <1>8 DEF MapsAreApart, Single, ToSet
<1> QED
  BY <1>2, <1>6, <1>7, <1>8

\* The invariant holds throughout.
LEMMA ReactionInvariant == ReactionSpec => []ReactionInv
BY ReactionInvInit, ReactionInvStep, PTL DEF ReactionSpec

\* "One received indicator per message" (server.ts, markReceived), of any number of
\* messages, chats, replies, redeliveries, failures and restarts and any cap.
THEOREM ReceivedOnce == ReactionSpec => []OneIndicator
<1>1. ReactionInv => OneIndicator
  BY InvGivesOneIndicator
<1> QED
  BY <1>1, ReactionInvariant, PTL

\* No reaction is forgotten (server.ts, markReceived, clearReceived): it is pending, being
\* removed, on the list of a reply, given up or forgotten by a restart, until the
\* tombstone of its message is dropped.
THEOREM NoneForgotten == ReactionSpec => []NoneStranded
<1>1. ReactionInv => NoneStranded
  BY DEF ReactionInv
<1> QED
  BY <1>1, ReactionInvariant, PTL

=============================================================================
