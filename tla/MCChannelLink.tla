---------------------------- MODULE MCChannelLink ----------------------------
(* The instance lock, the connection to Feishu its holder opens, and the      *)
(* reactions shown on the messages that come in.  They share no state: a      *)
(* behaviour is one of the three, the rest stays as it is at first.           *)
EXTENDS InstanceLock, FeishuConnection, ReceivedReactions, TLC

CONSTANTS p0, p1, p2, m1, m2, m3, chatA, chatB, r1, r2

VARIABLE part

\* Only a process of another plugin version may be evicted: p1 and p2 are of the
\* same version, later than the holder's.
Three   == {p0, p1, p2}
Upgrade == {<<p1, p0>>, <<p2, p0>>}

MCMessage == {m1, m2, m3}
MCChatOf  == m1 :> chatA @@ m2 :> chatA @@ m3 :> chatB

MCInit ==
    /\ part \in {"lock", "connection", "reactions"}
    /\ LockInit /\ ConnectionInit /\ ReactionInit
    /\ part # "connection" => reach /\ ~locked

MCNext ==
    /\ part' = part
    /\ \/ part = "lock" /\ LockNext /\ UNCHANGED <<connectionVars, reactionVars>>
       \/ part = "connection" /\ ConnectionNext /\ UNCHANGED <<lockVars, reactionVars>>
       \/ part = "reactions" /\ ReactionNext /\ UNCHANGED <<lockVars, connectionVars>>

MCSpec == MCInit /\ [][MCNext]_<<part, lockVars, connectionVars, reactionVars>>

FairMCSpec ==
    /\ MCSpec
    /\ \/ part = "lock" /\ LockFairness
       \/ part = "connection" /\ ConnectionFairness
       \/ part = "reactions" /\ ReactionFairness

-----------------------------------------------------------------------------
(* The liveness properties, each of the behaviours of its part.             *)

\* NeverWedged (InstanceLock): a crash never wedges the lock shut
\* (instance-lock.ts, acquireInstanceLock).
LockNeverWedged == part = "lock" => NeverWedged

\* ChannelComesBack (FeishuConnection): once Feishu stays reachable, the channel
\* is connected again (feishu.ts, server.ts).
LinkComesBack == part = "connection" => ChannelComesBack

\* AnsweredIsCleared (ReceivedReactions): a message that was answered loses its
\* indicator (server.ts, clearReceived).
ReactionAnsweredIsCleared == part = "reactions" => AnsweredIsCleared
=============================================================================
