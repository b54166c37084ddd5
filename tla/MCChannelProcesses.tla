-------------------------- MODULE MCChannelProcesses --------------------------
(* The daemons that start and end, a proxy that connects to them, and a       *)
(* message that is rendered.  They share no state: a behaviour is one of the  *)
(* three, the rest stays as at first.                                         *)
EXTENDS DaemonStartup, ProxySession, InboundContent, TLC

CONSTANTS p1, p2, p3, t1, t2, k1, k2, x1, x2

VARIABLE part

\* An older daemon and two of the next version, or three versions one after another.
MCProc     == {p1, p2, p3}
MCVersions == {p1 :> 1 @@ p2 :> 2 @@ p3 :> 2, p1 :> 1 @@ p2 :> 2 @@ p3 :> 3}

\* A stall or a crash in a behaviour of the daemons.
MaxMishaps == 1

\* A text, a post and a card with images among their texts, a card that is too
\* large, an image or file alone, and what is not looked into.
Says(t)  == Element("text", t, NoKey, <<>>, <<>>, <<>>)
Shows(k) == Element("img", Blank, k, <<>>, <<>>, <<>>)
Holds(columns, els) == Element("column_set", Blank, NoKey, <<>>, columns, els)
Alone(type, tag, k) == [type |-> type, blocks |-> <<Element(tag, Blank, k, <<>>, <<>>, <<>>)>>]
MCBodies ==
    { [type |-> "unreadable", blocks |-> <<>>],
      [type |-> "text", blocks |-> <<Says(x1)>>],
      [type |-> "post", blocks |-> <<>>],
      [type |-> "post", blocks |-> <<Shows(k1), Says(x1), Shows(NoKey), Shows(k2), Shows(k1), Says(x2)>>],
      [type |-> "interactive",
       blocks |-> <<Holds(<< <<Shows(k1), Says(x1)>>, <<Shows(k2)>> >>, <<Says(x2), Holds(<<>>, <<Says(x1)>>)>>)>>],
      [type |-> "interactive",
       blocks |-> <<Element("text", x1, NoKey, <<x2, Blank, x1>>, <<>>, <<Shows(k1)>>), Shows(k2), Shows(k1), Says(x2), Says(x1)>>],
      Alone("image", "image", k1), Alone("image", "image", NoKey),
      Alone("file", "file", k2), Alone("file", "archive", k2) }

\* What they are made of: containers in a container at most.
Within(els) == els \cup UNION {ToSet(Inside(el)) : el \in els}
MCElements  == Within(Within(UNION {ToSet(b.blocks) : b \in MCBodies}))

MCInit ==
    /\ part \in {"daemons", "proxy", "content"}
    /\ DaemonInit /\ ProxyInit /\ ContentInit
    /\ part # "proxy" => serving = Absent
    /\ part # "daemons" => version = CHOOSE v \in Versions : TRUE

MCNext ==
    /\ part' = part
    /\ \/ part = "daemons" /\ DaemonNext /\ stalls' + crashes' <= MaxMishaps /\ UNCHANGED <<proxyVars, contentVars>>
       \/ part = "proxy" /\ ProxyNext /\ UNCHANGED <<daemonVars, contentVars>>
       \/ part = "content" /\ ContentNext /\ UNCHANGED <<daemonVars, proxyVars>>

MCSpec == MCInit /\ [][MCNext]_<<part, daemonVars, proxyVars, contentVars>>

FairMCSpec ==
    /\ MCSpec
    /\ \/ part = "daemons" /\ DaemonFairness
       \/ part = "proxy" /\ ProxyFairness
       \/ part = "content" /\ ContentFairness

-----------------------------------------------------------------------------
(* The liveness properties, each of the behaviours of its part.             *)

\* UpgradeEvicts (DaemonStartup): a daemon of a newer version ends the older one
\* that serves (daemon.ts, tryEvictOlderDaemon).
DaemonUpgradeEvicts == part = "daemons" => UpgradeEvicts

\* JoinsCurrentDaemon (ProxySession): a proxy that lives ends up attached to a
\* daemon of its own version (server.ts, runProxyMain; proxy.ts).
ProxyJoinsCurrentDaemon == part = "proxy" => JoinsCurrentDaemon

\* HungDownloadIsGivenUp (InboundContent): a message is handed on even if each of
\* its downloads hangs (feishu.ts, withTimeout).
ContentIsHandedOn == part = "content" => HungDownloadIsGivenUp
=============================================================================
