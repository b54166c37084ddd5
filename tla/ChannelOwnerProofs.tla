-------------------------- MODULE ChannelOwnerProofs --------------------------
(***************************************************************************)
(* Proofs about ChannelOwner, for any set of connections and sessions and  *)
(* any bound on the epoch.                                                 *)
(***************************************************************************)
EXTENDS ChannelOwner, FiniteSetTheorems, TLAPS

\* An outstanding grant names a session the current authorisations name: what
\* OwnerIsAuthorised needs when a session uses its grant.
GrantIsAuthorised == granted \in authorised \cup {Nobody}

\* The inductive invariant.
OwnerInv ==
    /\ OwnerTypeOK
    /\ GrantIsAuthorised
    /\ OwnerIsAuthorised
    /\ DefaultOwnerIsNewestDispatcher

-----------------------------------------------------------------------------

\* A new connection goes to a place of its own, after all the others.
LEMMA NextPlace ==
    ASSUME OwnerTypeOK
    PROVE  Cardinality(Connected) + 1 \in Nat \ {0}
<1>1. IsFiniteSet(Connected)
  BY ConnAssumption, FS_Subset DEF Connected
<1>2. Cardinality(Connected) \in Nat
  BY <1>1, FS_CardinalityType
<1> QED
  BY <1>2

\* Ownership moves to a session and the epoch stays in bounds.
LEMMA SetOwnerType ==
    ASSUME OwnerTypeOK, NEW s, SetOwner(s)
    PROVE  owner' = s /\ epoch' \in 0..MaxEpoch
BY EpochAssumption DEF SetOwner, OwnerTypeOK

LEMMA GiveBackKeepsInv ==
    ASSUME OwnerInv, GiveBack
    PROVE  OwnerInv'
<1> USE SessionAssumption
<1>1. owner' = dispatcher /\ epoch' \in 0..MaxEpoch
  BY SetOwnerType DEF GiveBack, OwnerInv
<1>2. granted' = Nobody /\ authorised' = {} /\ dispatcher' = dispatcher /\ UNCHANGED connVars
  BY DEF GiveBack
<1>3. OwnerTypeOK'
  BY <1>1, <1>2 DEF OwnerInv, OwnerTypeOK, connVars, Connected
<1> QED
  BY <1>1, <1>2, <1>3
  DEF OwnerInv, OwnerTypeOK, GrantIsAuthorised, OwnerIsAuthorised, DefaultOwnerIsNewestDispatcher

-----------------------------------------------------------------------------

\* Initially nobody is connected and nobody owns the channel.
LEMMA OwnerInvInit == OwnerInit => OwnerInv
BY EpochAssumption
DEF OwnerInit, OwnerInv, OwnerTypeOK, GrantIsAuthorised, OwnerIsAuthorised,
    DefaultOwnerIsNewestDispatcher, Connected

\* Every step keeps the inductive invariant.
LEMMA OwnerInvStep == OwnerInv /\ [OwnerNext]_ownerVars => OwnerInv'
<1> SUFFICES ASSUME OwnerInv, [OwnerNext]_ownerVars PROVE OwnerInv'
  OBVIOUS
<1> USE SessionAssumption, SidAssumption
<1> USE DEF OwnerInv
<1>1. CASE \E c \in Conn : Connect(c)
  <2> PICK c \in Conn : Connect(c)
    BY <1>1
  <2>1. OwnerTypeOK'
    BY NextPlace DEF Connect, OwnerTypeOK, Connected, leaseVars
  <2> QED
    BY <2>1
    DEF Connect, GrantIsAuthorised, OwnerIsAuthorised, DefaultOwnerIsNewestDispatcher, leaseVars
<1>2. CASE \E c \in Conn : Close(c)
  <2> PICK c \in Conn : Close(c)
    BY <1>2
  <2>1. pos' \in [Conn -> Nat]
    BY DEF Close, OwnerTypeOK
  <2>2. registered' \subseteq Connected'
    BY DEF Close, OwnerTypeOK, Connected
  <2> QED
    BY <2>1, <2>2
    DEF Close, OwnerTypeOK, GrantIsAuthorised, OwnerIsAuthorised,
        DefaultOwnerIsNewestDispatcher, leaseVars
<1>3. CASE \E c \in Conn : Register(c)
  <2> PICK c \in Conn : Register(c)
    BY <1>3
  <2>1. registered' \subseteq Connected' /\ pos' = pos
    BY DEF Register, OwnerTypeOK, Connected
  <2>2. CASE SidOf[c] \in Dispatchers
    <3>1. /\ dispatcher' = SidOf[c]
          /\ UNCHANGED <<granted, authorised>>
      BY <2>2 DEF Register, RegisterDispatcher
    <3>2. CASE FollowsDispatcher
      <4>1. owner' = SidOf[c] /\ epoch' \in 0..MaxEpoch
        BY <2>2, <3>2, SetOwnerType DEF Register, RegisterDispatcher
      <4> QED
        BY <2>1, <2>2, <3>1, <4>1
        DEF OwnerTypeOK, GrantIsAuthorised, OwnerIsAuthorised, DefaultOwnerIsNewestDispatcher
    <3>3. CASE ~FollowsDispatcher
      <4>1. UNCHANGED <<owner, epoch>> /\ authorised # {}
        BY <2>2, <3>3
        DEF Register, RegisterDispatcher, FollowsDispatcher, DefaultOwnerIsNewestDispatcher
      <4> QED
        BY <2>1, <2>2, <3>1, <4>1
        DEF OwnerTypeOK, GrantIsAuthorised, OwnerIsAuthorised, DefaultOwnerIsNewestDispatcher
    <3> QED
      BY <3>2, <3>3
  <2>3. CASE SidOf[c] \notin Dispatchers
    BY <2>1, <2>3
    DEF Register, OwnerTypeOK, GrantIsAuthorised, OwnerIsAuthorised,
        DefaultOwnerIsNewestDispatcher, leaseVars
  <2> QED
    BY <2>2, <2>3
<1>4. CASE \E c \in Conn : ReturnToDispatcher(c) \/ Reclaim(c)
  BY <1>4, GiveBackKeepsInv DEF ReturnToDispatcher, Reclaim
<1>5. CASE \E c \in Conn, t \in Session : Grant(c, t)
  BY <1>5
  DEF Grant, OwnerTypeOK, Connected, connVars, GrantIsAuthorised, OwnerIsAuthorised,
      DefaultOwnerIsNewestDispatcher
<1>6. CASE \E c \in Conn, t \in Session : Acquire(c, t)
  <2> PICK c \in Conn, t \in Session : Acquire(c, t)
    BY <1>6
  <2>1. owner' = t /\ epoch' \in 0..MaxEpoch
    BY SetOwnerType DEF Acquire
  <2>2. t \in authorised'
    BY DEF Acquire, MayAcquire, GrantIsAuthorised
  <2>3. GrantIsAuthorised'
    BY DEF Acquire, GrantIsAuthorised
  <2>4. OwnerTypeOK'
    BY <2>1 DEF Acquire, OwnerTypeOK, Connected, connVars
  <2> QED
    BY <2>1, <2>2, <2>3, <2>4 DEF OwnerIsAuthorised, DefaultOwnerIsNewestDispatcher
<1>7. CASE DaemonRestart
  BY <1>7, EpochAssumption
  DEF DaemonRestart, OwnerTypeOK, GrantIsAuthorised, OwnerIsAuthorised,
      DefaultOwnerIsNewestDispatcher, Connected
<1>8. CASE UNCHANGED ownerVars
  BY <1>8
  DEF ownerVars, connVars, leaseVars, OwnerTypeOK, GrantIsAuthorised, OwnerIsAuthorised,
      DefaultOwnerIsNewestDispatcher, Connected
<1> QED
  BY <1>1, <1>2, <1>3, <1>4, <1>5, <1>6, <1>7, <1>8 DEF OwnerNext

\* The inductive invariant holds in every reachable state of the daemon.
LEMMA OwnerInvAlways == OwnerSpec => []OwnerInv
BY OwnerInvInit, OwnerInvStep, PTL DEF OwnerSpec

-----------------------------------------------------------------------------

\* Type correctness of the connection set and the lease (ChannelOwnerState).
THEOREM OwnerTypeCorrect == OwnerSpec => []OwnerTypeOK
<1>1. OwnerInv => OwnerTypeOK
  BY DEF OwnerInv
<1> QED
  BY <1>1, OwnerInvAlways, PTL

\* No ordinary session ever owns the channel without a dispatcher's say since
\* the channel was last returned or reclaimed (handleTool).
THEOREM OwnerAuthorised == OwnerSpec => []OwnerIsAuthorised
<1>1. OwnerInv => OwnerIsAuthorised
  BY DEF OwnerInv
<1> QED
  BY <1>1, OwnerInvAlways, PTL

\* Without a hand-off since the last return, the dispatcher registered last is
\* the owner (register).
THEOREM DefaultOwner == OwnerSpec => []DefaultOwnerIsNewestDispatcher
<1>1. OwnerInv => DefaultOwnerIsNewestDispatcher
  BY DEF OwnerInv
<1> QED
  BY <1>1, OwnerInvAlways, PTL

=============================================================================
