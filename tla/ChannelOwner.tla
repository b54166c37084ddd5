---------------------------- MODULE ChannelOwner ----------------------------
(***************************************************************************)
(* Which Claude Code session the standing Feishu daemon delivers inbound   *)
(* messages to: ChannelOwnerState (channel-owner.ts) over the live         *)
(* connection set of the daemon's socket server (daemon-server.ts).        *)
(*                                                                         *)
(* One action per thing that can happen to the daemon: a proxy's socket    *)
(* connects, registers or closes, a proxy forwards one of the four         *)
(* ownership tools, the daemon process restarts and forgets everything.    *)
(*                                                                         *)
(* A proxy's session id starts with its role (server.ts:940-960), so the   *)
(* role is a function of the id: Dispatchers is the set of ids that carry  *)
(* the dispatcher role.  SidOf[c] is the id the proxy behind connection c  *)
(* registers with; two connections may carry the same id.                  *)
(***************************************************************************)
EXTENDS Naturals, FiniteSets

CONSTANTS
    Conn,         \* connections a proxy may open to the daemon socket
    Session,      \* proxy session ids
    Dispatchers,  \* the session ids of dispatcher role
    SidOf,        \* the session id each connection registers with
    Nobody,       \* the value of an unset id or a failed lookup
    MaxEpoch      \* bound on the lease epoch

ASSUME ConnAssumption    == IsFiniteSet(Conn) /\ Nobody \notin Conn
ASSUME SessionAssumption == Dispatchers \subseteq Session /\ Nobody \notin Session
ASSUME SidAssumption     == SidOf \in [Conn -> Session]
ASSUME EpochAssumption   == MaxEpoch \in Nat

VARIABLES
    pos,          \* place of a connection in the connection Set's insertion order, 0 when absent
    registered,   \* connections whose register message has arrived
    owner,        \* #ownerSessionId
    dispatcher,   \* #dispatcherSessionId
    granted,      \* #grantedSessionId
    epoch,        \* #leaseEpoch
    authorised    \* history: sessions a dispatcher has named in a grant or an
                  \* assignment since the channel was last returned or reclaimed

connVars  == <<pos, registered>>
leaseVars == <<owner, dispatcher, granted, epoch, authorised>>
ownerVars == <<connVars, leaseVars>>

-----------------------------------------------------------------------------
(* Lookups over the connection set                                          *)

Connected == {c \in Conn : pos[c] > 0}

Live(s) == {c \in registered : SidOf[c] = s}

\* Array.find over the Set: the earliest inserted of a set of connections.
FirstOf(C) == CHOOSE c \in C : \A d \in C : pos[c] <= pos[d]

FindLive(s) == IF Live(s) = {} THEN Nobody ELSE FirstOf(Live(s))

\* The connection inbound messages go to.  A known owner that is not live is
\* not replaced by the dispatcher.
Select == FindLive(IF owner # Nobody THEN owner ELSE dispatcher)

CurrentDispatcher == FindLive(dispatcher)

-----------------------------------------------------------------------------
(* Connections                                                              *)

Connect(c) ==
    /\ pos[c] = 0
    /\ pos' = [pos EXCEPT ![c] = Cardinality(Connected) + 1]
    /\ UNCHANGED <<registered, leaseVars>>

Close(c) ==
    /\ pos[c] > 0
    /\ pos' = [d \in Conn |-> IF d = c THEN 0
                              ELSE IF pos[d] > pos[c] THEN pos[d] - 1 ELSE pos[d]]
    /\ registered' = registered \ {c}
    /\ UNCHANGED leaseVars

SetOwner(s) ==
    /\ owner = s \/ epoch < MaxEpoch
    /\ owner' = s
    /\ epoch' = IF owner = s THEN epoch ELSE epoch + 1

\* Faulty: a dispatcher takes the channel only when nobody has it.
FollowsWhenUnset == owner = Nobody

\* Ownership follows a newly registered dispatcher only while it is unset or
\* still with the dispatcher before it.
FollowsDispatcher == owner = Nobody \/ owner = dispatcher

RegisterDispatcher(s) ==
    /\ dispatcher' = s
    /\ IF FollowsDispatcher THEN SetOwner(s) ELSE UNCHANGED <<owner, epoch>>
    /\ UNCHANGED <<granted, authorised>>

\* A proxy registers once, when its socket connects.
Register(c) ==
    /\ pos[c] > 0 /\ c \notin registered
    /\ registered' = registered \cup {c}
    /\ IF SidOf[c] \in Dispatchers
         THEN RegisterDispatcher(SidOf[c])
         ELSE UNCHANGED leaseVars
    /\ UNCHANGED pos

-----------------------------------------------------------------------------
(* The ownership tools, called by the proxy on connection c.  A selector    *)
(* that resolves, by session_id or by a match only one proxy satisfies,     *)
(* names a live session t; a selector that does not resolve changes nothing.*)

IsDispatcher(c) == SidOf[c] \in Dispatchers

Grant(c, t) ==
    /\ c \in registered /\ IsDispatcher(c)
    /\ Live(t) # {} /\ t \notin Dispatchers
    /\ granted' = t
    /\ authorised' = authorised \cup {t}
    /\ UNCHANGED <<connVars, owner, dispatcher, epoch>>

MayAcquire(c, t) == IsDispatcher(c) \/ (t = SidOf[c] /\ granted = t)

\* Acquiring without a selector is t = SidOf[c].
Acquire(c, t) ==
    /\ c \in registered /\ Live(t) # {}
    /\ MayAcquire(c, t)
    /\ SetOwner(t)
    /\ granted' = IF granted = t THEN Nobody ELSE granted
    /\ authorised' = IF IsDispatcher(c) THEN authorised \cup {t} ELSE authorised
    /\ UNCHANGED <<connVars, dispatcher>>

\* Faulty: an unused grant survives the return.
GiveBackKeepsGrant ==
    /\ CurrentDispatcher # Nobody
    /\ SetOwner(dispatcher)
    /\ authorised' = {}
    /\ UNCHANGED <<connVars, dispatcher, granted>>

GiveBack ==
    /\ CurrentDispatcher # Nobody
    /\ SetOwner(dispatcher)
    /\ granted' = Nobody
    /\ authorised' = {}
    /\ UNCHANGED <<connVars, dispatcher>>

ReturnToDispatcher(c) ==
    /\ c \in registered
    /\ IsDispatcher(c) \/ SidOf[c] = owner
    /\ GiveBack

Reclaim(c) ==
    /\ c \in registered /\ IsDispatcher(c)
    /\ GiveBack

-----------------------------------------------------------------------------
(* The state lives in the daemon's memory: a restart is a fresh start.      *)

OwnerInit ==
    /\ pos = [c \in Conn |-> 0] /\ registered = {}
    /\ owner = Nobody /\ dispatcher = Nobody /\ granted = Nobody
    /\ epoch = 0 /\ authorised = {}

DaemonRestart ==
    /\ pos' = [c \in Conn |-> 0] /\ registered' = {}
    /\ owner' = Nobody /\ dispatcher' = Nobody /\ granted' = Nobody
    /\ epoch' = 0 /\ authorised' = {}

OwnerNext ==
    \/ \E c \in Conn : \/ Connect(c)
                       \/ Close(c)
                       \/ Register(c)
                       \/ ReturnToDispatcher(c)
                       \/ Reclaim(c)
    \/ \E c \in Conn, t \in Session : Grant(c, t) \/ Acquire(c, t)
    \/ DaemonRestart

OwnerSpec == OwnerInit /\ [][OwnerNext]_ownerVars

-----------------------------------------------------------------------------
(* Properties                                                               *)

\* Type correctness: connections registered with the daemon are connected,
\* and the ids held are ids of sessions of the right role.
OwnerTypeOK ==
    /\ pos \in [Conn -> Nat]
    /\ registered \subseteq Connected
    /\ owner \in Session \cup {Nobody}
    /\ dispatcher \in Dispatchers \cup {Nobody}
    /\ granted \in (Session \ Dispatchers) \cup {Nobody}
    /\ epoch \in 0..MaxEpoch
    /\ authorised \subseteq Session

\* No sequence of registrations and tool calls makes an ordinary session the
\* owner of the channel unless a dispatcher has named it, in a grant or an
\* assignment, since the channel was last returned or reclaimed: a return or
\* a reclaim voids every grant that is still outstanding (handleTool).
OwnerIsAuthorised == owner \in Dispatchers \cup authorised \cup {Nobody}

\* Without a hand-off since the last return, the dispatcher registered last
\* owns the channel, however many dispatchers have come and gone and whichever
\* ordinary sessions registered in between (register).
DefaultOwnerIsNewestDispatcher == authorised = {} => owner = dispatcher

=============================================================================
