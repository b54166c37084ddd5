------------------------ MODULE ChannelProcessesProofs ------------------------
(***************************************************************************)
(* Proofs about the processes of the channel: the daemons that start and   *)
(* end (DaemonStartup), for any number of them, any versions, stalls and   *)
(* crashes, and the proxy of a session (ProxySession), for any calls and   *)
(* any number of daemons that come and go.  Then how a message is rendered *)
(* (InboundContent), for any messages and any bounds.                      *)
(***************************************************************************)
EXTENDS DaemonStartup, ProxySession, InboundContent, SequenceTheorems, WellFoundedInduction, TLAPS

-----------------------------------------------------------------------------
(* Type correctness of the daemons                                          *)

\* Every daemon that starts keeps to the types (startDaemon, daemon-lock.ts).
LEMMA DaemonTypeInit == DaemonInit => DaemonTypeOK
<1> SUFFICES ASSUME DaemonInit PROVE DaemonTypeOK
  OBVIOUS
<1>1. version \in [Proc -> Nat]
  BY DaemonAssumption DEF DaemonInit
<1>2. legacy \in Pidfile
  BY DEF DaemonInit, Pidfile
<1>3. /\ attempt \in [Proc -> 0..MaxReclaimAttempts] /\ target \in [Proc -> Proc \cup {NoPid}]
      /\ stalls \in 0..MaxStalls /\ crashes \in 0..MaxCrashes
  BY DaemonAssumption DEF DaemonInit
<1>4. alive \subseteq Proc /\ listening \subseteq alive /\ {lock, path} \subseteq Proc \cup {NoPid}
  BY DEF DaemonInit
<1>5. spent \subseteq Proc \X {"upgrade", "inbound"} /\ raced \in BOOLEAN /\ stolen \in BOOLEAN
  BY DEF DaemonInit
<1> QED
  BY <1>1, <1>2, <1>3, <1>4, <1>5 DEF DaemonInit, DaemonTypeOK

\* The inductive invariant: who has the connection has the pidfile, unless it was
\* unlinked by mistake.  A file reads as the pid of its creator, if it reads as any,
\* and a process about to unlink one has found its holder dead.
PidfileInv ==
    /\ \A q \in Proc : pc[q] = "off" =>
          q \notin alive /\ legacy.by # q /\ \A r \in Proc : target[r] # q
    /\ legacy.text \in {NoPid, legacy.by}
    /\ \A q \in Proc : pc[q] = "remove" => target[q] \notin alive
    /\ \A q \in Proc : pc[q] \notin {"yield", "gone"} => attempt[q] < MaxReclaimAttempts
    /\ ~raced => \A q \in Proc : At(q, "write") \/ q \in Inbound => legacy.by = q

LEMMA PidfileInit == DaemonInit => PidfileInv
BY DaemonAssumption DEF DaemonInit, PidfileInv, Inbound, At, NoFile

LEMMA DaemonTypeStep == DaemonTypeOK /\ PidfileInv /\ [DaemonNext]_daemonVars => DaemonTypeOK'
<1> SUFFICES ASSUME DaemonTypeOK, PidfileInv, [DaemonNext]_daemonVars PROVE DaemonTypeOK'
  OBVIOUS
<1> USE DaemonAssumption
    DEF DaemonTypeOK, At, GoTo, Exit, Stall, Crashed, CloseServer, ReleaseLock, ReleaseLegacy, Acquired, NotAcquired, Errand, Evictor, Pidfile, NoFile,
        resources, pidVars
<1>1. ASSUME NEW p \in Proc, Launch(p) PROVE DaemonTypeOK'
  BY <1>1 DEF Launch
<1>2. ASSUME NEW p \in Proc, TakeLock(p) PROVE DaemonTypeOK'
  BY <1>2 DEF TakeLock
<1>3. ASSUME NEW p \in Proc, FindLocked(p) PROVE DaemonTypeOK'
  BY <1>3 DEF FindLocked
<1>4. ASSUME NEW p \in Proc, Reprobe(p) PROVE DaemonTypeOK'
  BY <1>4 DEF Reprobe
<1>5. ASSUME NEW p \in Proc, LookForOlder(p) PROVE DaemonTypeOK'
  BY <1>5 DEF LookForOlder
<1>6. ASSUME NEW p \in Proc, Bind(p) PROVE DaemonTypeOK'
  BY <1>6 DEF Bind, Listen
<1>7. ASSUME NEW p \in Proc, ProbeBound(p) PROVE DaemonTypeOK'
  BY <1>7 DEF ProbeBound
<1>8. ASSUME NEW p \in Proc, UnlinkPath(p) PROVE DaemonTypeOK'
  BY <1>8 DEF UnlinkPath
<1>9. ASSUME NEW p \in Proc, Rebind(p) PROVE DaemonTypeOK'
  BY <1>9 DEF Rebind, Listen
<1>10. ASSUME NEW p \in Proc, CreatePidfile(p) PROVE DaemonTypeOK'
  BY <1>10 DEF CreatePidfile
<1>11. ASSUME NEW p \in Proc, WritePid(p) PROVE DaemonTypeOK'
  BY <1>11 DEF WritePid
<1>12. ASSUME NEW p \in Proc, ReadPidfile(p) PROVE DaemonTypeOK'
  BY <1>12 DEF ReadPidfile
<1>13. ASSUME NEW p \in Proc, JudgeHolder(p) PROVE DaemonTypeOK'
  BY <1>13 DEF JudgeHolder, Lost
<1>14. ASSUME NEW p \in Proc, RemovePidfile(p) PROVE DaemonTypeOK'
  BY <1>14 DEF RemovePidfile, PidfileInv
<1>15. ASSUME NEW p \in Proc, YieldPidfile(p) PROVE DaemonTypeOK'
  BY <1>15 DEF YieldPidfile, Lost
<1>16. ASSUME NEW p \in Proc, Evicted(p) PROVE DaemonTypeOK'
  BY <1>16 DEF Evicted
<1>17. ASSUME NEW p \in Proc, Kill(p) PROVE DaemonTypeOK'
  BY <1>17 DEF Kill
<1>18. ASSUME NEW p \in Proc, ReturnPidfile(p) PROVE DaemonTypeOK'
  BY <1>18 DEF ReturnPidfile
<1>19. ASSUME NEW p \in Proc, Open(p) PROVE DaemonTypeOK'
  BY <1>19 DEF Open
<1>20. ASSUME NEW p \in Proc, OpenFails(p) PROVE DaemonTypeOK'
  BY <1>20 DEF OpenFails
<1>21. ASSUME NEW p \in Proc, Close(p) PROVE DaemonTypeOK'
  BY <1>21 DEF Close
<1>22. ASSUME NEW p \in Proc, CloseSocket(p) PROVE DaemonTypeOK'
  BY <1>22 DEF CloseSocket
<1>23. ASSUME NEW p \in Proc, ReleaseAll(p) PROVE DaemonTypeOK'
  BY <1>23 DEF ReleaseAll
<1>24. ASSUME NEW p \in Proc, Crash(p) PROVE DaemonTypeOK'
  BY <1>24 DEF Crash
<1>25. CASE UNCHANGED daemonVars
  BY <1>25 DEF daemonVars
<1> QED
  BY <1>1, <1>2, <1>3, <1>4, <1>5, <1>6, <1>7, <1>8, <1>9, <1>10, <1>11, <1>12, <1>13, <1>14,
     <1>15, <1>16, <1>17, <1>18, <1>19, <1>20, <1>21, <1>22, <1>23, <1>24, <1>25
  DEF DaemonNext, Starting, Closing

-----------------------------------------------------------------------------
(* The pidfile                                                              *)

LEMMA PidfileStep ==
    DaemonTypeOK /\ PidfileInv /\ [DaemonNext]_daemonVars => PidfileInv'
<1> SUFFICES ASSUME DaemonTypeOK, PidfileInv, [DaemonNext]_daemonVars PROVE PidfileInv'
  OBVIOUS
<1> USE DaemonAssumption
    DEF DaemonTypeOK, PidfileInv, Inbound, At, GoTo, Exit, Stall, Crashed, CloseServer, ReleaseLock, ReleaseLegacy, Acquired, NotAcquired, Errand, Evictor, Pidfile, NoFile,
        resources, pidVars
<1>1. ASSUME NEW p \in Proc, Launch(p) PROVE PidfileInv'
  BY <1>1 DEF Launch
<1>2. ASSUME NEW p \in Proc, TakeLock(p) PROVE PidfileInv'
  BY <1>2 DEF TakeLock
<1>3. ASSUME NEW p \in Proc, FindLocked(p) PROVE PidfileInv'
  BY <1>3 DEF FindLocked
<1>4. ASSUME NEW p \in Proc, Reprobe(p) PROVE PidfileInv'
  BY <1>4 DEF Reprobe
<1>5. ASSUME NEW p \in Proc, LookForOlder(p) PROVE PidfileInv'
  BY <1>5 DEF LookForOlder
<1>6. ASSUME NEW p \in Proc, Bind(p) PROVE PidfileInv'
  BY <1>6 DEF Bind, Listen
<1>7. ASSUME NEW p \in Proc, ProbeBound(p) PROVE PidfileInv'
  BY <1>7 DEF ProbeBound
<1>8. ASSUME NEW p \in Proc, UnlinkPath(p) PROVE PidfileInv'
  BY <1>8 DEF UnlinkPath
<1>9. ASSUME NEW p \in Proc, Rebind(p) PROVE PidfileInv'
  BY <1>9 DEF Rebind, Listen
<1>10. ASSUME NEW p \in Proc, CreatePidfile(p) PROVE PidfileInv'
  BY <1>10 DEF CreatePidfile
<1>11. ASSUME NEW p \in Proc, WritePid(p) PROVE PidfileInv'
  BY <1>11 DEF WritePid
<1>12. ASSUME NEW p \in Proc, ReadPidfile(p) PROVE PidfileInv'
  BY <1>12 DEF ReadPidfile
<1>13. ASSUME NEW p \in Proc, JudgeHolder(p) PROVE PidfileInv'
  BY <1>13 DEF JudgeHolder, Lost
<1>14. ASSUME NEW p \in Proc, RemovePidfile(p) PROVE PidfileInv'
  <2>1. ASSUME NEW q \in Proc, ~raced', (At(q, "write") \/ q \in Inbound)' PROVE FALSE
    <3>1. q # p /\ q \in alive /\ ~raced /\ (At(q, "write") \/ q \in Inbound)
      BY <1>14, <2>1 DEF RemovePidfile
    <3>2. legacy.by = q
      BY <3>1
    <3>3. target[p] \notin alive
      BY <1>14 DEF RemovePidfile
    <3> QED
      BY <1>14, <2>1, <3>1, <3>2, <3>3 DEF RemovePidfile
  <2>2. /\ \A q \in Proc : pc'[q] = "remove" => target'[q] \notin alive'
        /\ \A q \in Proc : pc'[q] \notin {"yield", "gone"} => attempt'[q] < MaxReclaimAttempts
    BY <1>14 DEF RemovePidfile
  <2>3. /\ legacy'.text \in {NoPid, legacy'.by}
        /\ \A q \in Proc : pc'[q] = "off" =>
              q \notin alive' /\ legacy'.by # q /\ \A r \in Proc : target'[r] # q
    BY <1>14 DEF RemovePidfile
  <2> QED
    BY <2>1, <2>2, <2>3
<1>15. ASSUME NEW p \in Proc, YieldPidfile(p) PROVE PidfileInv'
  BY <1>15 DEF YieldPidfile, Lost
<1>16. ASSUME NEW p \in Proc, Evicted(p) PROVE PidfileInv'
  BY <1>16 DEF Evicted
<1>17. ASSUME NEW p \in Proc, Kill(p) PROVE PidfileInv'
  BY <1>17 DEF Kill
<1>18. ASSUME NEW p \in Proc, ReturnPidfile(p) PROVE PidfileInv'
  BY <1>18 DEF ReturnPidfile
<1>19. ASSUME NEW p \in Proc, Open(p) PROVE PidfileInv'
  BY <1>19 DEF Open
<1>20. ASSUME NEW p \in Proc, OpenFails(p) PROVE PidfileInv'
  BY <1>20 DEF OpenFails
<1>21. ASSUME NEW p \in Proc, Close(p) PROVE PidfileInv'
  BY <1>21 DEF Close
<1>22. ASSUME NEW p \in Proc, CloseSocket(p) PROVE PidfileInv'
  BY <1>22 DEF CloseSocket
<1>23. ASSUME NEW p \in Proc, ReleaseAll(p) PROVE PidfileInv'
  BY <1>23 DEF ReleaseAll
<1>24. ASSUME NEW p \in Proc, Crash(p) PROVE PidfileInv'
  BY <1>24 DEF Crash
<1>25. CASE UNCHANGED daemonVars
  BY <1>25 DEF daemonVars
<1> QED
  BY <1>1, <1>2, <1>3, <1>4, <1>5, <1>6, <1>7, <1>8, <1>9, <1>10, <1>11, <1>12, <1>13, <1>14,
     <1>15, <1>16, <1>17, <1>18, <1>19, <1>20, <1>21, <1>22, <1>23, <1>24, <1>25
  DEF DaemonNext, Starting, Closing

-----------------------------------------------------------------------------
(* The lock and the socket path                                             *)

\* The processes that have taken the lock and not given it back.
HasLock(p) ==
    /\ p \in alive
    /\ \/ pc[p] \in {"reprobe", "bind", "probe", "unlink", "rebind", "closing", "releasing"}
       \/ p \in listening

\* The inductive invariant: as long as no lock is taken from a live holder, the
\* lock lets one process at a time past it, so that the path it binds stays.
Reachability ==
    /\ \A q \in Inbound : q \in listening
    /\ \A q \in listening : pc[q] \in {"create", "write", "read", "judge", "remove", "yield",
                                        "evict", "return", "opening", "open", "closing"}
    /\ LockExcludes => \A q \in Proc : (HasLock(q) => lock = q) /\ (q \in listening => path = q)

LEMMA ReachabilityInit == DaemonInit => Reachability
BY DEF DaemonInit, Reachability, HasLock, Inbound, At

LEMMA ReachabilityStep ==
    DaemonTypeOK /\ Reachability /\ [DaemonNext]_daemonVars => Reachability'
<1> SUFFICES ASSUME DaemonTypeOK, Reachability, [DaemonNext]_daemonVars PROVE Reachability'
  OBVIOUS
<1> USE DaemonAssumption
    DEF DaemonTypeOK, Reachability, LockExcludes, HasLock, Inbound, At, GoTo, Exit, Stall, Crashed, CloseServer, ReleaseLock, ReleaseLegacy, Acquired, NotAcquired, Errand, Evictor, Pidfile, NoFile,
        resources, pidVars
<1>1. ASSUME NEW p \in Proc, Launch(p) PROVE Reachability'
  BY <1>1 DEF Launch
<1>2. ASSUME NEW p \in Proc, TakeLock(p) PROVE Reachability'
  <2>1. LockExcludes' => LockExcludes /\ lock \notin alive
    <3>1. stalls' = 0 => stalls = 0 /\ (lock \notin alive \/ Evictor(p))
      BY <1>2 DEF TakeLock
    <3>2. ~stolen' => ~stolen /\ ~(lock \in alive /\ Evictor(p))
      BY <1>2, Zenon DEF TakeLock
    <3> QED
      BY <3>1, <3>2
  <2>2. LockExcludes' => \A q \in Proc : q # p => ~HasLock(q) /\ q \notin listening
    BY <2>1
  <2>3. p \notin listening
    BY <1>2 DEF TakeLock
  <2> QED
    BY <1>2, <2>2, <2>3 DEF TakeLock
<1>3. ASSUME NEW p \in Proc, FindLocked(p) PROVE Reachability'
  BY <1>3 DEF FindLocked
<1>4. ASSUME NEW p \in Proc, Reprobe(p) PROVE Reachability'
  BY <1>4 DEF Reprobe
<1>5. ASSUME NEW p \in Proc, LookForOlder(p) PROVE Reachability'
  BY <1>5 DEF LookForOlder
<1>6. ASSUME NEW p \in Proc, Bind(p) PROVE Reachability'
  BY <1>6 DEF Bind, Listen
<1>7. ASSUME NEW p \in Proc, ProbeBound(p) PROVE Reachability'
  BY <1>7 DEF ProbeBound
<1>8. ASSUME NEW p \in Proc, UnlinkPath(p) PROVE Reachability'
  BY <1>8 DEF UnlinkPath
<1>9. ASSUME NEW p \in Proc, Rebind(p) PROVE Reachability'
  BY <1>9 DEF Rebind, Listen
<1>10. ASSUME NEW p \in Proc, CreatePidfile(p) PROVE Reachability'
  BY <1>10 DEF CreatePidfile
<1>11. ASSUME NEW p \in Proc, WritePid(p) PROVE Reachability'
  BY <1>11 DEF WritePid
<1>12. ASSUME NEW p \in Proc, ReadPidfile(p) PROVE Reachability'
  BY <1>12 DEF ReadPidfile
<1>13. ASSUME NEW p \in Proc, JudgeHolder(p) PROVE Reachability'
  BY <1>13 DEF JudgeHolder, Lost
<1>14. ASSUME NEW p \in Proc, RemovePidfile(p) PROVE Reachability'
  BY <1>14 DEF RemovePidfile
<1>15. ASSUME NEW p \in Proc, YieldPidfile(p) PROVE Reachability'
  BY <1>15 DEF YieldPidfile, Lost
<1>16. ASSUME NEW p \in Proc, Evicted(p) PROVE Reachability'
  BY <1>16 DEF Evicted
<1>17. ASSUME NEW p \in Proc, Kill(p) PROVE Reachability'
  BY <1>17 DEF Kill
<1>18. ASSUME NEW p \in Proc, ReturnPidfile(p) PROVE Reachability'
  BY <1>18 DEF ReturnPidfile
<1>19. ASSUME NEW p \in Proc, Open(p) PROVE Reachability'
  BY <1>19 DEF Open
<1>20. ASSUME NEW p \in Proc, OpenFails(p) PROVE Reachability'
  BY <1>20 DEF OpenFails
<1>21. ASSUME NEW p \in Proc, Close(p) PROVE Reachability'
  BY <1>21 DEF Close
<1>22. ASSUME NEW p \in Proc, CloseSocket(p) PROVE Reachability'
  BY <1>22 DEF CloseSocket
<1>23. ASSUME NEW p \in Proc, ReleaseAll(p) PROVE Reachability'
  BY <1>23 DEF ReleaseAll
<1>24. ASSUME NEW p \in Proc, Crash(p) PROVE Reachability'
  BY <1>24 DEF Crash
<1>25. CASE UNCHANGED daemonVars
  BY <1>25 DEF daemonVars
<1> QED
  BY <1>1, <1>2, <1>3, <1>4, <1>5, <1>6, <1>7, <1>8, <1>9, <1>10, <1>11, <1>12, <1>13, <1>14,
     <1>15, <1>16, <1>17, <1>18, <1>19, <1>20, <1>21, <1>22, <1>23, <1>24, <1>25
  DEF DaemonNext, Starting, Closing

-----------------------------------------------------------------------------

\* Type correctness of the daemons' starts and ends, for any number of processes.
THEOREM DaemonTypeCorrect == DaemonSpec => []DaemonTypeOK
<1> QED
  BY DaemonTypeInit, DaemonTypeStep, PidfileInit, PidfileStep, PTL DEF DaemonSpec

\* At most one process has the Feishu connection open, whatever starts, upgrades,
\* evictions, closes and crashes there are, as long as the lock excludes or no pidfile
\* of a live process was unlinked by mistake (startDaemon in daemon.ts: the connection
\* is opened under both, and closed before either is given up).
THEOREM InboundIsOne == DaemonSpec => []OneInbound
<1>1. DaemonTypeOK /\ PidfileInv /\ Reachability => OneInbound
  <2> SUFFICES ASSUME DaemonTypeOK, PidfileInv, Reachability, LockExcludes \/ ~raced,
                      NEW p \in Inbound, NEW q \in Inbound
               PROVE  p = q
    BY DEF OneInbound
  <2>1. CASE LockExcludes
    BY <2>1 DEF Reachability, HasLock, Inbound, At
  <2>2. CASE ~raced
    BY <2>2 DEF PidfileInv, Inbound
  <2> QED
    BY <2>1, <2>2
<1> QED
  BY <1>1, DaemonTypeInit, DaemonTypeStep, PidfileInit, PidfileStep, ReachabilityInit, ReachabilityStep,
     PTL DEF DaemonSpec

\* The process with the connection is the one at the socket path, as long as nothing
\* has stalled and nobody who evicted a daemon has taken the lock of a live process
\* (daemon-lock.ts, acquireDaemonLock; daemon-server.ts, startDaemonServer).
THEOREM InboundReached == DaemonSpec => []InboundIsReachable
<1>1. Reachability => InboundIsReachable
  BY DEF Reachability, InboundIsReachable, Inbound
<1> QED
  BY <1>1, DaemonTypeInit, DaemonTypeStep, PidfileInit, PidfileStep, ReachabilityInit, ReachabilityStep,
     PTL DEF DaemonSpec

-----------------------------------------------------------------------------
(* The proxy of a session                                                   *)

\* The inductive invariant.  The task that closes the proxy is added once, when it
\* attaches, and is the last one, even when it is added while the shutdown is under
\* way; and a proxy that is up has a socket, open or broken.
ProxyInv ==
    /\ ProxyTypeOK
    /\ sock \in [to : {Absent, Older, Current}, is : {"none", "dialled", "open", "broken"}]
    /\ sock.is = "dialled" => phase \in Trying
    /\ phase = "up" => sock.is \in {"open", "broken"}
    /\ tasks \in Seq({"server", "proxy"}) /\ tasks[1] = "server"
    /\ IF phase \in {"up", "reconnect", "reconnectPause", "closed"}
       THEN Len(tasks) = 2 /\ tasks[2] = "proxy"
       ELSE Len(tasks) = 1
    /\ cleaned \in Nat
    /\ stop \in {"no", "cleaning", "cut", "clean"}
    /\ Alive => cleaned < Len(tasks)
    /\ stop = "clean" => phase # "up"
    /\ phase = "closed" => stop = "clean"
    /\ Alive => \A c \in Call : calls[c] = "waits" => phase = "up"

LEMMA ProxyInvInit == ProxyInit => ProxyInv
<1> SUFFICES ASSUME ProxyInit PROVE ProxyInv
  OBVIOUS
<1>1. tasks \in Seq({"server", "proxy"}) /\ Len(tasks) = 1 /\ tasks[1] = "server"
  BY DEF ProxyInit
<1> QED
  BY <1>1 DEF ProxyInit, ProxyInv, ProxyTypeOK, Alive, NoSocket, Trying, Absent, Older, Current

LEMMA ProxyInvStep == ProxyInv /\ [ProxyNext]_proxyVars => ProxyInv'
<1> SUFFICES ASSUME ProxyInv, [ProxyNext]_proxyVars PROVE ProxyInv'
  OBVIOUS
<1> USE DEF ProxyInv, ProxyTypeOK, Alive, NoSocket, Trying, Absent, Older, Current, Upset,
            standingVars, loopVars, stopVars
<1>1. ASSUME Dial PROVE ProxyInv'
  BY <1>1 DEF Dial
<1>2. ASSUME DialFails PROVE ProxyInv'
  BY <1>2 DEF DialFails, StartDaemon
<1>3. ASSUME Hello PROVE ProxyInv'
  <2>1. CASE Accepts(sock.to) /\ phase # "reconnect"
    <3>1. Len(tasks) = 1 /\ tasks' = Append(tasks, "proxy") /\ phase' = "up"
      BY <1>3, <2>1 DEF Hello, Registered
    <3>2. /\ tasks' \in Seq({"server", "proxy"}) /\ Len(tasks') = 2
          /\ tasks'[1] = "server" /\ tasks'[2] = "proxy"
      <4>1. tasks' \in Seq({"server", "proxy"}) /\ Len(tasks') = Len(tasks) + 1
        BY <1>3, <2>1 DEF Hello, Registered
      <4>2. tasks'[1] = tasks[1]
        BY <3>1
      <4>3. tasks'[Len(tasks')] = "proxy"
        BY <1>3, <2>1 DEF Hello, Registered
      <4> QED
        BY <3>1, <4>1, <4>2, <4>3
    <3>3. sock' = [sock EXCEPT !.is = "open"] /\ sock'.is = "open" /\ sock'.to = sock.to
      BY <1>3, <2>1 DEF Hello
    <3> QED
      BY <1>3, <2>1, <3>1, <3>2, <3>3 DEF Hello
  <2>2. CASE ~(Accepts(sock.to) /\ phase # "reconnect")
    BY <1>3, <2>2 DEF Hello, Declined, StartDaemon, Accepts
  <2> QED
    BY <2>1, <2>2
<1>4. ASSUME Retry PROVE ProxyInv'
  BY <1>4 DEF Retry
<1>5. ASSUME DeadlinePasses PROVE ProxyInv'
  BY <1>5 DEF DeadlinePasses
<1>6. ASSUME SocketClosed PROVE ProxyInv'
  BY <1>6 DEF SocketClosed, Rejected
<1>7. ASSUME NEW c \in Call, CallTool(c) PROVE ProxyInv'
  BY <1>7 DEF CallTool
<1>8. ASSUME NEW c \in Call, ToolResult(c) PROVE ProxyInv'
  BY <1>8 DEF ToolResult
<1>9. ASSUME BeginStop PROVE ProxyInv'
  BY <1>9 DEF BeginStop
<1>10. ASSUME CleanUp PROVE ProxyInv'
  <2>1. /\ stop = "cleaning" /\ tasks' = tasks /\ calls' = calls
        /\ UNCHANGED <<serving, starting, spawned, sawOlder, late>>
        /\ cleaned' = cleaned + 1 /\ cleaned' \in Nat /\ cleaned' <= Len(tasks)
        /\ stop' = IF cleaned' < Len(tasks) THEN "cleaning" ELSE "clean"
    BY <1>10 DEF CleanUp
  <2>2. CASE tasks[cleaned + 1] = "proxy" /\ phase = "up"
    <3>1. Len(tasks) = 2 /\ cleaned = 1
      <4>0. Len(tasks) = 2 /\ cleaned < 2 /\ cleaned \in Nat
        BY <2>1, <2>2
      <4>1. Len(tasks) = 2 /\ (cleaned = 0 \/ cleaned = 1)
        BY ONLY <4>0
      <4>2. cleaned = 0 => tasks[cleaned + 1] = "server"
        OBVIOUS
      <4> QED
        BY <2>2, <4>1, <4>2
    <3>2. phase' = "closed" /\ sock' = [sock EXCEPT !.is = "broken"] /\ stop' = "clean"
      BY <1>10, <2>1, <2>2, <3>1 DEF CleanUp
    <3> QED
      BY <2>1, <2>2, <3>1, <3>2
  <2>3. CASE ~(tasks[cleaned + 1] = "proxy" /\ phase = "up")
    <3>1. phase' = phase /\ sock' = sock
      BY <1>10, <2>3 DEF CleanUp
    <3>2. phase = "up" => cleaned = 0 /\ Len(tasks) = 2
      <4>0. phase = "up" => Len(tasks) = 2 /\ cleaned < 2 /\ cleaned \in Nat
        BY <2>1
      <4>1. phase = "up" => Len(tasks) = 2 /\ (cleaned = 0 \/ cleaned = 1)
        BY ONLY <4>0
      <4>2. phase = "up" /\ cleaned = 1 => tasks[cleaned + 1] = "proxy"
        OBVIOUS
      <4> QED
        BY <2>3, <4>1, <4>2
    <3>3. stop' = "clean" => phase' # "up"
      BY <2>1, <3>1, <3>2
    <3> QED
      BY <2>1, <3>1, <3>3
  <2> QED
    BY <2>2, <2>3
<1>11. ASSUME ForceExit PROVE ProxyInv'
  BY <1>11 DEF ForceExit
<1>12. ASSUME DaemonUp PROVE ProxyInv'
  BY <1>12 DEF DaemonUp, Broken
<1>13. ASSUME DaemonNotUp PROVE ProxyInv'
  BY <1>13 DEF DaemonNotUp
<1>14. ASSUME DaemonDies PROVE ProxyInv'
  BY <1>14 DEF DaemonDies, Broken
<1>15. ASSUME NEW v \in {Older, Current}, OthersStart(v) PROVE ProxyInv'
  BY <1>15 DEF OthersStart
<1>16. CASE UNCHANGED proxyVars
  BY <1>16 DEF proxyVars, standingVars, loopVars, stopVars
<1> QED
  BY <1>1, <1>2, <1>3, <1>4, <1>5, <1>6, <1>7, <1>8, <1>9, <1>10, <1>11, <1>12, <1>13, <1>14, <1>15,
     <1>16 DEF ProxyNext

\* How a start-up comes to settle for an older daemon.
FallbackInv ==
    /\ phase \in {"attach", "attachPause", "fallback"} /\ sawOlder => spawned
    /\ phase = "fallback" => sawOlder /\ late
    /\ OlderOnlyAsFallback

LEMMA FallbackStep == ProxyInv /\ FallbackInv /\ [ProxyNext]_proxyVars => FallbackInv'
<1> SUFFICES ASSUME ProxyInv, FallbackInv, [ProxyNext]_proxyVars PROVE FallbackInv'
  OBVIOUS
<1> USE DEF ProxyInv, FallbackInv, OlderOnlyAsFallback, NoSocket, Trying, Absent, Older, Current,
            standingVars, loopVars, stopVars
<1>1. ASSUME Dial PROVE FallbackInv'
  BY <1>1 DEF Dial
<1>2. ASSUME DialFails PROVE FallbackInv'
  BY <1>2 DEF DialFails, StartDaemon
<1>3. ASSUME Hello PROVE FallbackInv'
  BY <1>3 DEF Hello, Accepts, Declined, StartDaemon
<1>4. ASSUME Retry PROVE FallbackInv'
  BY <1>4 DEF Retry
<1>5. ASSUME DeadlinePasses PROVE FallbackInv'
  BY <1>5 DEF DeadlinePasses
<1>6. ASSUME SocketClosed PROVE FallbackInv'
  BY <1>6 DEF SocketClosed
<1>7. ASSUME NEW c \in Call, CallTool(c) PROVE FallbackInv'
  BY <1>7 DEF CallTool
<1>8. ASSUME NEW c \in Call, ToolResult(c) PROVE FallbackInv'
  BY <1>8 DEF ToolResult
<1>9. ASSUME BeginStop PROVE FallbackInv'
  BY <1>9 DEF BeginStop
<1>10. ASSUME CleanUp PROVE FallbackInv'
  BY <1>10 DEF CleanUp
<1>11. ASSUME ForceExit PROVE FallbackInv'
  BY <1>11 DEF ForceExit
<1>12. ASSUME DaemonUp PROVE FallbackInv'
  BY <1>12 DEF DaemonUp, Broken
<1>13. ASSUME DaemonNotUp PROVE FallbackInv'
  BY <1>13 DEF DaemonNotUp
<1>14. ASSUME DaemonDies PROVE FallbackInv'
  BY <1>14 DEF DaemonDies, Broken
<1>15. ASSUME NEW v \in {Older, Current}, OthersStart(v) PROVE FallbackInv'
  BY <1>15 DEF OthersStart
<1>16. CASE UNCHANGED proxyVars
  BY <1>16 DEF proxyVars
<1> QED
  BY <1>1, <1>2, <1>3, <1>4, <1>5, <1>6, <1>7, <1>8, <1>9, <1>10, <1>11, <1>12, <1>13, <1>14, <1>15,
     <1>16 DEF ProxyNext

\* Type correctness of the proxy, for any tool calls and daemons.
THEOREM ProxyTypeCorrect == ProxySpec => []ProxyTypeOK
<1>1. ProxyInv => ProxyTypeOK
  BY DEF ProxyInv
<1> QED
  BY <1>1, ProxyInvInit, ProxyInvStep, PTL DEF ProxySpec

\* No tool call of a running proxy waits for a connection that is not there, and a
\* clean end has closed the connection the proxy holds: whichever daemons come and go,
\* and whether the proxy attached before the shutdown began or while it was under way
\* (proxy-client.ts, close; proxy.ts, close; shutdown.ts, run).
THEOREM CallsNotStranded == ProxySpec => []NoCallStranded
<1>1. ProxyInv => NoCallStranded
  BY DEF ProxyInv, NoCallStranded
<1> QED
  BY <1>1, ProxyInvInit, ProxyInvStep, PTL DEF ProxySpec

\* A session is served over an older daemon only when its start-up has had a newer one
\* started and has waited for it until the deadline (server.ts, runProxyMain).
THEOREM OlderIsFallback == ProxySpec => []OlderOnlyAsFallback
<1>1. ProxyInit => FallbackInv
  BY DEF ProxyInit, FallbackInv, OlderOnlyAsFallback, NoSocket
<1>2. FallbackInv => OlderOnlyAsFallback
  BY DEF FallbackInv
<1> QED
  BY <1>1, <1>2, FallbackStep, ProxyInvInit, ProxyInvStep, PTL DEF ProxySpec

-----------------------------------------------------------------------------
(* Sequences that are joined                                                *)

\* A set of numbers has a least one.
LEMMA LeastOfNaturals ==
    ASSUME NEW T \in SUBSET Nat, T # {}
    PROVE  \E m \in T : \A n \in T : m <= n
<1>1. PICK m \in T : \A n \in T : ~ (<<n, m>> \in OpToRel(<, Nat))
  BY WFMin, NatLessThanWellFounded, Zenon
<1>2. \A n \in T : ~ (n < m)
  BY <1>1, Zenon DEF OpToRel
<1> QED
  BY <1>2

\* The recursion of FlattenSeq: g joins the first sequences of ss.
IsFlattening(g, ss, n) ==
    g = [i \in 1..n |-> IF i = 1 THEN ss[i] ELSE g[i - 1] \o ss[i]]

\* It is a function's.
LEMMA FlatteningExists ==
    ASSUME NEW ss, NEW n \in Nat \ {0}
    PROVE  \E g : IsFlattening(g, ss, n)
<1> DEFINE B == {k \in Nat \ {0} : ~\E g : IsFlattening(g, ss, k)}
<1>1. SUFFICES ASSUME B # {} PROVE FALSE
  OBVIOUS
<1>2. PICK k \in B : \A j \in B : k <= j
  <2>1. B \in SUBSET Nat
    OBVIOUS
  <2> HIDE DEF B
  <2> QED
    BY <1>1, <2>1, LeastOfNaturals
<1>3. k # 1
  <2>1. IsFlattening([i \in 1..1 |-> ss[i]], ss, 1)
    BY DEF IsFlattening
  <2>2. ~\E g : IsFlattening(g, ss, k)
    BY <1>2
  <2> QED
    BY <2>1, <2>2
<1>4. k \in Nat /\ k # 0 /\ k - 1 \in Nat \ {0} /\ k - 1 \notin B
  BY <1>2, <1>3
<1>5. PICK g : IsFlattening(g, ss, k - 1)
  BY <1>4
<1>6. PICK v : v = g[k - 1] \o ss[k]
  OBVIOUS
<1>7. PICK h : h = [i \in 1..k |-> IF i = k THEN v ELSE g[i]]
  OBVIOUS
<1>8. \A i \in 1..k - 1 : g[i] = IF i = 1 THEN ss[i] ELSE g[i - 1] \o ss[i]
  BY <1>5, Zenon DEF IsFlattening
<1>9. \A i \in 1..k - 1 : h[i] = g[i]
  BY <1>4, <1>7
<1>10. ASSUME NEW i \in 1..k
       PROVE  h[i] = IF i = 1 THEN ss[i] ELSE h[i - 1] \o ss[i]
  <2>1. CASE i = k
    <3>1. h[i] = v /\ i # 1 /\ i - 1 \in 1..k - 1
      BY <1>3, <1>4, <1>7, <2>1
    <3>2. h[i - 1] = g[i - 1]
      BY <1>9, <3>1
    <3> QED
      BY <1>6, <2>1, <3>1, <3>2
  <2>2. CASE i # k /\ i # 1
    <3>1. i \in 1..k - 1 /\ i - 1 \in 1..k - 1
      BY <1>4, <2>2
    <3>2. h[i] = g[i] /\ h[i - 1] = g[i - 1]
      BY <1>9, <3>1
    <3>3. g[i] = g[i - 1] \o ss[i]
      BY <1>8, <2>2, <3>1
    <3> QED
      BY <2>2, <3>2, <3>3
  <2>3. CASE i # k /\ i = 1
    <3>1. i \in 1..k - 1
      BY <1>4, <2>3
    <3> QED
      BY <1>8, <1>9, <2>3, <3>1
  <2> QED
    BY <2>1, <2>2, <2>3
<1>11. IsFlattening(h, ss, k)
  <2>1. h = [i \in 1..k |-> h[i]]
    BY <1>7
  <2> QED
    BY <1>10, <2>1, Zenon DEF IsFlattening
<1> QED
  BY <1>2, <1>11

\* FlattenSeq is the last value of its recursion.
LEMMA FlattenUnfolds ==
    ASSUME NEW ss, Len(ss) \in Nat \ {0}
    PROVE  \E f : /\ f[1] = ss[1]
                  /\ \A i \in 2..Len(ss) : f[i] = f[i - 1] \o ss[i]
                  /\ FlattenSeq(ss) = f[Len(ss)]
<1> DEFINE f == CHOOSE f : IsFlattening(f, ss, Len(ss))
<1>1. IsFlattening(f, ss, Len(ss))
  BY FlatteningExists
<1>2. FlattenSeq(ss) = f[Len(ss)]
  <2>1. Len(ss) # 0
    OBVIOUS
  <2> QED
    BY <2>1, Zenon DEF FlattenSeq, IsFlattening
<1> HIDE DEF f
<1>3. \A i \in 1..Len(ss) : f[i] = IF i = 1 THEN ss[i] ELSE f[i - 1] \o ss[i]
  BY <1>1, Zenon DEF IsFlattening
<1>4. 1 \in 1..Len(ss) /\ \A i \in 2..Len(ss) : i \in 1..Len(ss) /\ i # 1
  OBVIOUS
<1>5. f[1] = ss[1]
  BY <1>3, <1>4
<1>6. \A i \in 2..Len(ss) : f[i] = f[i - 1] \o ss[i]
  BY <1>3, <1>4
<1> QED
  BY <1>2, <1>5, <1>6

\* One sequence more.
LEMMA FlattenAppend ==
    ASSUME NEW T, NEW ss \in Seq(Seq(T)), NEW x \in Seq(T), FlattenSeq(ss) \in Seq(T)
    PROVE  FlattenSeq(Append(ss, x)) = FlattenSeq(ss) \o x
<1>1. PICK n \in Nat : n = Len(ss)
  OBVIOUS
<1>2. PICK tt : tt = Append(ss, x)
  OBVIOUS
<1>3. Len(tt) = n + 1 /\ tt[n + 1] = x /\ \A i \in 1..n : tt[i] = ss[i]
  <2>1. PICK S : S = Seq(T)
    OBVIOUS
  <2>2. ss \in Seq(S) /\ x \in S
    BY <2>1
  <2> QED
    BY <1>1, <1>2, <2>2, AppendProperties
<1>4. PICK g : /\ g[1] = tt[1]
               /\ \A i \in 2..n + 1 : g[i] = g[i - 1] \o tt[i]
               /\ FlattenSeq(tt) = g[n + 1]
  <2>2. Len(tt) \in Nat \ {0}
    BY <1>3
  <2>3. \E g : /\ g[1] = tt[1]
               /\ \A i \in 2..Len(tt) : g[i] = g[i - 1] \o tt[i]
               /\ FlattenSeq(tt) = g[Len(tt)]
    BY <2>2, FlattenUnfolds
  <2> QED
    BY <1>3, <2>3, Zenon
<1>5. CASE n = 0
  <2>1. ss = <<>>
    <3>1. PICK S : S = Seq(T)
      OBVIOUS
    <3>2. ss \in Seq(S) /\ Len(ss) = 0
      BY <1>1, <1>5, <3>1
    <3> QED
      BY <3>2, EmptySeq
  <2>2. FlattenSeq(ss) = <<>>
    BY <2>1 DEF FlattenSeq
  <2>3. FlattenSeq(tt) = x
    BY <1>3, <1>4, <1>5
  <2> QED
    BY <1>2, <2>2, <2>3
<1>6. CASE n # 0
  <2>1. PICK f : /\ f[1] = ss[1]
                 /\ \A i \in 2..n : f[i] = f[i - 1] \o ss[i]
                 /\ FlattenSeq(ss) = f[n]
    BY <1>1, <1>6, FlattenUnfolds
  <2> DEFINE B == {k \in 1..n : f[k] # g[k]}
  <2>2. B = {}
    <3>1. SUFFICES ASSUME B # {} PROVE FALSE
      OBVIOUS
    <3>2. PICK k \in B : \A j \in B : k <= j
      <4>1. B \in SUBSET Nat
        OBVIOUS
      <4> HIDE DEF B
      <4> QED
        BY <3>1, <4>1, LeastOfNaturals
    <3>3. CASE k = 1
      BY <1>3, <1>4, <1>6, <2>1, <3>2, <3>3
    <3>4. CASE k # 1
      <4>1. k \in 2..n /\ k \in 2..n + 1 /\ k - 1 \in 1..n /\ k - 1 \notin B
        BY <3>2, <3>4
      <4>2. f[k - 1] = g[k - 1] /\ tt[k] = ss[k]
        BY <1>3, <4>1
      <4> QED
        BY <1>4, <2>1, <3>2, <4>1, <4>2
    <3> QED BY <3>3, <3>4
  <2>3. f[n] = g[n]
    BY <1>6, <2>2
  <2>4. n + 1 \in 2..n + 1 /\ (n + 1) - 1 = n
    BY <1>6
  <2>5. g[n + 1] = g[n] \o tt[n + 1]
    BY <1>4, <2>4
  <2> QED
    BY <1>2, <1>3, <1>4, <2>1, <2>3, <2>5
<1> QED BY <1>5, <1>6

\* Nothing is joined to nothing.
LEMMA FlattenNothing == FlattenSeq(<<>>) = <<>>
BY DEF FlattenSeq

\* What sequences are joined to is one of the same elements.
LEMMA FlattenIsSeq ==
    ASSUME NEW T, NEW ss \in Seq(Seq(T))
    PROVE  FlattenSeq(ss) \in Seq(T)
<1>1. PICK n \in Nat : n = Len(ss)
  OBVIOUS
<1>2. CASE n = 0
  <2>1. ss = <<>>
    <3>1. PICK S : S = Seq(T)
      OBVIOUS
    <3>2. ss \in Seq(S) /\ Len(ss) = 0
      BY <1>1, <1>2, <3>1
    <3> QED
      BY <3>2, EmptySeq
  <2> QED
    BY <2>1, FlattenNothing, EmptySeq
<1>3. CASE n # 0
  <2>1. PICK f : /\ f[1] = ss[1]
                 /\ \A i \in 2..n : f[i] = f[i - 1] \o ss[i]
                 /\ FlattenSeq(ss) = f[n]
    BY <1>1, <1>3, FlattenUnfolds
  <2> DEFINE B == {k \in 1..n : f[k] \notin Seq(T)}
  <2>2. B = {}
    <3>1. SUFFICES ASSUME B # {} PROVE FALSE
      OBVIOUS
    <3>2. PICK k \in B : \A j \in B : k <= j
      <4>1. B \in SUBSET Nat
        OBVIOUS
      <4> HIDE DEF B
      <4> QED
        BY <3>1, <4>1, LeastOfNaturals
    <3>3. \A i \in 1..n : ss[i] \in Seq(T)
      BY <1>1
    <3>4. CASE k = 1
      BY <2>1, <3>2, <3>3, <3>4
    <3>5. CASE k # 1
      <4>1. k \in 2..n /\ k - 1 \in 1..n /\ k - 1 \notin B
        BY <3>2, <3>5
      <4>2. f[k - 1] \in Seq(T) /\ ss[k] \in Seq(T)
        BY <3>3, <4>1
      <4>3. f[k] = f[k - 1] \o ss[k]
        BY <2>1, <4>1
      <4>4. f[k] \in Seq(T)
        BY <4>2, <4>3, ConcatProperties
      <4> QED
        BY <3>2, <4>4
    <3> QED BY <3>4, <3>5
  <2> QED
    BY <1>3, <2>1, <2>2
<1> QED BY <1>2, <1>3

\* Some sequences and then others.
LEMMA FlattenConcat ==
    ASSUME NEW T, NEW ss \in Seq(Seq(T)), NEW tt \in Seq(Seq(T))
    PROVE  FlattenSeq(ss \o tt) = FlattenSeq(ss) \o FlattenSeq(tt)
<1>1. PICK n \in Nat : n = Len(tt)
  OBVIOUS
<1> DEFINE Begin(k) == SubSeq(tt, 1, k)
           Holds(k) == FlattenSeq(ss \o Begin(k)) = FlattenSeq(ss) \o FlattenSeq(Begin(k))
           B == {k \in 0..n : ~Holds(k)}
<1>2. Holds(0)
  <2>1. Begin(0) = <<>> /\ ss \o <<>> = ss
    OBVIOUS
  <2>2. FlattenSeq(ss) \o <<>> = FlattenSeq(ss)
    BY FlattenIsSeq
  <2> QED
    BY <2>1, <2>2, FlattenNothing
<1>3. ASSUME NEW k \in 1..n, Holds(k - 1) PROVE Holds(k)
  <2>1. PICK x : x = tt[k]
    OBVIOUS
  <2>2. x \in Seq(T)
    BY <1>1, <2>1
  <2>3. PICK u : u = Begin(k - 1)
    OBVIOUS
  <2>4. u \in Seq(Seq(T)) /\ Begin(k) = Append(u, x)
    <3>1. u \in Seq(Seq(T)) /\ Len(u) = k - 1
      BY <1>1, <2>3
    <3>2. Begin(k) \in Seq(Seq(T)) /\ Len(Begin(k)) = k
      BY <1>1
    <3>3. \A i \in 1..k : Begin(k)[i] = Append(u, x)[i]
      <4> TAKE i \in 1..k
      <4>1. Begin(k)[i] = tt[i]
        BY <1>1
      <4>2. CASE i = k
        BY <2>1, <3>1, <4>1, <4>2
      <4>3. CASE i # k
        <5>1. u[i] = tt[i] /\ Append(u, x)[i] = u[i]
          BY <1>1, <2>3, <3>1, <4>3
        <5> QED
          BY <4>1, <5>1
      <4> QED BY <4>2, <4>3
    <3>4. PICK w : w = Append(u, x)
      OBVIOUS
    <3>5. w \in Seq(Seq(T)) /\ Len(w) = k
      BY <2>2, <3>1, <3>4
    <3>6. PICK b : b = Begin(k)
      OBVIOUS
    <3> HIDE DEF Begin
    <3>7. b = w
      BY <3>2, <3>3, <3>4, <3>5, <3>6, SeqEqual
    <3> QED
      BY <3>1, <3>4, <3>6, <3>7
  <2>5. ss \o Append(u, x) = Append(ss \o u, x) /\ ss \o u \in Seq(Seq(T))
    BY <2>2, <2>4
  <2>6. /\ FlattenSeq(ss) \in Seq(T) /\ FlattenSeq(u) \in Seq(T) /\ FlattenSeq(ss \o u) \in Seq(T)
    BY <2>4, <2>5, FlattenIsSeq
  <2>7. FlattenSeq(Append(ss \o u, x)) = FlattenSeq(ss \o u) \o x
    BY <2>2, <2>5, <2>6, FlattenAppend
  <2>8. FlattenSeq(Append(u, x)) = FlattenSeq(u) \o x
    BY <2>2, <2>4, <2>6, FlattenAppend
  <2>9. (FlattenSeq(ss) \o FlattenSeq(u)) \o x = FlattenSeq(ss) \o (FlattenSeq(u) \o x)
    BY <2>2, <2>6, ConcatAssociative
  <2>10. FlattenSeq(ss \o u) = FlattenSeq(ss) \o FlattenSeq(u)
    BY <1>3, <2>3
  <2> HIDE DEF Begin
  <2> QED
    BY <2>4, <2>5, <2>7, <2>8, <2>9, <2>10
<1> HIDE DEF Holds
<1>4. B = {}
  <2>1. SUFFICES ASSUME B # {} PROVE FALSE
    OBVIOUS
  <2>2. PICK k \in B : \A j \in B : k <= j
    <3>1. B \in SUBSET Nat
      OBVIOUS
    <3> HIDE DEF B
    <3> QED
      BY <2>1, <3>1, LeastOfNaturals
  <2>3. k # 0 /\ k \in 1..n /\ k - 1 \in 0..n /\ k - 1 \notin B
    BY <1>2, <2>2
  <2> QED
    BY <1>3, <2>2, <2>3
<1>5. Begin(n) = tt
  BY <1>1
<1>6. Holds(n)
  BY <1>4
<1> HIDE DEF Begin
<1> QED
  BY <1>5, <1>6 DEF Holds

\* A sequence by itself.
LEMMA FlattenOne ==
    ASSUME NEW T, NEW x \in Seq(T)
    PROVE  FlattenSeq(<<x>>) = x
<1>1. PICK ss : ss = <<x>>
  OBVIOUS
<1>2. Len(ss) = 1 /\ ss[1] = x
  BY <1>1
<1>3. PICK f : f[1] = ss[1] /\ FlattenSeq(ss) = f[Len(ss)]
  <2>1. Len(ss) \in Nat \ {0}
    BY <1>2
  <2> QED
    BY <2>1, FlattenUnfolds
<1> QED
  BY <1>1, <1>2, <1>3

-----------------------------------------------------------------------------
(* Sequences, element by element                                            *)

\* A function of each element.
Mapped(f, ss) == [i \in DOMAIN ss |-> f[ss[i]]]

MapsTo(f, E, X) == \A e \in E : f[e] \in X

LEMMA MappedIsSeq ==
    ASSUME NEW f, NEW E, NEW X, MapsTo(f, E, X), NEW ss \in Seq(E)
    PROVE  /\ Mapped(f, ss) \in Seq(X)
           /\ Len(Mapped(f, ss)) = Len(ss)
           /\ \A i \in 1..Len(ss) : Mapped(f, ss)[i] = f[ss[i]]
<1>1. PICK n \in Nat : n = Len(ss)
  OBVIOUS
<1>2. DOMAIN ss = 1..n /\ \A i \in 1..n : ss[i] \in E
  BY <1>1
<1>3. PICK ff : ff = [i \in 1..n |-> f[ss[i]]]
  OBVIOUS
<1>4. ff \in Seq(X) /\ Len(ff) = n /\ \A i \in 1..n : ff[i] = f[ss[i]]
  BY <1>2, <1>3 DEF MapsTo
<1> QED
  BY <1>1, <1>2, <1>3, <1>4 DEF Mapped

\* And of two sequences one after the other.
LEMMA MappedConcat ==
    ASSUME NEW f, NEW E, NEW X, MapsTo(f, E, X), NEW ss \in Seq(E), NEW tt \in Seq(E)
    PROVE  Mapped(f, ss \o tt) = Mapped(f, ss) \o Mapped(f, tt)
<1>1. PICK u : u = ss \o tt
  OBVIOUS
<1>2. PICK uu : uu = Mapped(f, u)
  OBVIOUS
<1>3. PICK fs : fs = Mapped(f, ss)
  OBVIOUS
<1>4. PICK ft : ft = Mapped(f, tt)
  OBVIOUS
<1>5. PICK n \in Nat : n = Len(ss)
  OBVIOUS
<1>6. PICK m \in Nat : m = Len(tt)
  OBVIOUS
<1>7. /\ u \in Seq(E) /\ Len(u) = n + m
      /\ \A i \in 1..n + m : u[i] = IF i <= n THEN ss[i] ELSE tt[i - n]
  BY <1>1, <1>5, <1>6, ConcatProperties
<1>8. uu \in Seq(X) /\ Len(uu) = n + m /\ \A i \in 1..n + m : uu[i] = f[u[i]]
  <2>1. Mapped(f, u) \in Seq(X) /\ Len(Mapped(f, u)) = Len(u) /\ \A i \in 1..Len(u) : Mapped(f, u)[i] = f[u[i]]
    <3>1. u \in Seq(E) /\ MapsTo(f, E, X)
      BY <1>7
    <3> QED
      BY <3>1, MappedIsSeq
  <2> QED
    BY <1>2, <1>7, <2>1, Zenon
<1>9. fs \in Seq(X) /\ Len(fs) = n /\ \A i \in 1..n : fs[i] = f[ss[i]]
  BY <1>3, <1>5, MappedIsSeq
<1>10. ft \in Seq(X) /\ Len(ft) = m /\ \A i \in 1..m : ft[i] = f[tt[i]]
  BY <1>4, <1>6, MappedIsSeq
<1>11. PICK v : v = fs \o ft
  OBVIOUS
<1>12. /\ v \in Seq(X) /\ Len(v) = n + m
       /\ \A i \in 1..n + m : v[i] = IF i <= n THEN fs[i] ELSE ft[i - n]
  <2>1. /\ v \in Seq(X) /\ Len(v) = Len(fs) + Len(ft)
        /\ \A i \in 1..Len(fs) + Len(ft) : v[i] = IF i <= Len(fs) THEN fs[i] ELSE ft[i - Len(fs)]
    BY <1>9, <1>10, <1>11, ConcatProperties, Zenon
  <2> QED
    BY <1>9, <1>10, <2>1, Zenon
<1>13. ASSUME NEW i \in 1..n + m PROVE uu[i] = v[i]
  <2>1. CASE i <= n
    BY <1>7, <1>8, <1>9, <1>12, <2>1
  <2>2. CASE ~(i <= n)
    <3>1. i - n \in 1..m
      BY <2>2
    <3> QED
      BY <1>7, <1>8, <1>10, <1>12, <2>2, <3>1
  <2> QED
    BY <2>1, <2>2
<1>14. uu = v
  BY <1>8, <1>12, <1>13, SeqEqual
<1> QED
  BY <1>1, <1>2, <1>3, <1>4, <1>11, <1>14

-----------------------------------------------------------------------------
(* What is seen of an element                                               *)

\* What can be shown: a text, a key or a tag.
Atoms ==
    (UNION {{el.text, el.key, el.tag} : el \in Elements}) \cup (UNION {ToSet(el.fields) : el \in Elements})

LEMMA AtomsOfElement ==
    ASSUME NEW el \in Elements
    PROVE  /\ el.text \in Atoms /\ el.key \in Atoms /\ el.tag \in Atoms
           /\ el.fields \in Seq(Atoms)
           /\ Inside(el) \in Seq(Elements)
           /\ IsResource(el) => el.fields = <<>>
<1>1. el.text \in Atoms /\ el.key \in Atoms /\ el.tag \in Atoms
  <2>1. PICK own : own = {el.text, el.key, el.tag}
    OBVIOUS
  <2>2. own \in {{e.text, e.key, e.tag} : e \in Elements}
    BY <2>1, Zenon
  <2>3. own \subseteq Atoms
    BY <2>2, Zenon DEF Atoms
  <2> QED
    BY <2>1, <2>3
<1>2. ToSet(el.fields) \subseteq Atoms
  <2>1. PICK cells : cells = ToSet(el.fields)
    OBVIOUS
  <2>2. cells \in {ToSet(e.fields) : e \in Elements}
    BY <2>1, Zenon
  <2> QED
    BY <2>1, <2>2, Zenon DEF Atoms
<1>3. el.fields \in Seq(ToSet(el.fields)) /\ Inside(el) \in Seq(Elements) /\ (IsResource(el) => el.fields = <<>>)
  BY ContentAssumption, Zenon
<1> QED
  BY <1>1, <1>2, <1>3, SeqMonotonic

\* Texts are kept in their order, those that are empty are not.
LEMMA WrittenIsMapped ==
    ASSUME NEW T
    PROVE  \E f : MapsTo(f, T, Seq(T)) /\ \A tt \in Seq(T) : Written(tt) = FlattenSeq(Mapped(f, tt))
<1>1. PICK f : f = [t \in T |-> IF t = Blank THEN <<>> ELSE <<t>>]
  OBVIOUS
<1>2. MapsTo(f, T, Seq(T))
  BY <1>1 DEF MapsTo
<1>3. ASSUME NEW tt \in Seq(T) PROVE Written(tt) = FlattenSeq(Mapped(f, tt))
  <2>1. \A i \in DOMAIN tt : tt[i] \in T
    OBVIOUS
  <2>2. Mapped(f, tt) = [i \in DOMAIN tt |-> IF tt[i] = Blank THEN <<>> ELSE <<tt[i]>>]
    BY <1>1, <2>1, Zenon DEF Mapped
  <2> QED
    BY <2>2, Zenon DEF Written
<1> QED
  BY <1>2, <1>3

\* What is written of texts are some of them.
LEMMA WrittenIsSeq ==
    ASSUME NEW T, NEW tt \in Seq(T)
    PROVE  Written(tt) \in Seq(T)
<1>1. PICK f : MapsTo(f, T, Seq(T)) /\ Written(tt) = FlattenSeq(Mapped(f, tt))
  BY WrittenIsMapped, Zenon
<1>2. Mapped(f, tt) \in Seq(Seq(T))
  BY <1>1, MappedIsSeq, Zenon
<1> QED
  BY <1>1, <1>2, FlattenIsSeq, Zenon

\* Texts after others are written after them.
LEMMA WrittenConcat ==
    ASSUME NEW T, NEW ss \in Seq(T), NEW tt \in Seq(T)
    PROVE  Written(ss \o tt) = Written(ss) \o Written(tt)
<1>1. PICK f : MapsTo(f, T, Seq(T)) /\ \A uu \in Seq(T) : Written(uu) = FlattenSeq(Mapped(f, uu))
  BY WrittenIsMapped, Zenon
<1>2. Mapped(f, ss) \in Seq(Seq(T)) /\ Mapped(f, tt) \in Seq(Seq(T))
  BY <1>1, MappedIsSeq, Zenon
<1>3. Mapped(f, ss \o tt) = Mapped(f, ss) \o Mapped(f, tt)
  BY <1>1, MappedConcat, Zenon
<1>4. ss \o tt \in Seq(T)
  BY ConcatProperties, Zenon
<1>5. FlattenSeq(Mapped(f, ss) \o Mapped(f, tt)) = FlattenSeq(Mapped(f, ss)) \o FlattenSeq(Mapped(f, tt))
  BY <1>2, FlattenConcat, Zenon
<1> QED
  BY <1>1, <1>3, <1>4, <1>5, Zenon

\* What is seen of an element itself, and of its resource.
Shown(el) == IF IsResource(el) THEN <<IF el.key = NoKey THEN el.tag ELSE el.key>> ELSE <<>>

\* What is seen of an element itself are atoms.
LEMMA OwnIsSeq ==
    ASSUME NEW el \in Elements
    PROVE  /\ Own(el) = Written(<<el.text>> \o el.fields) \o Shown(el)
           /\ <<el.text>> \in Seq(Atoms)
           /\ Written(<<el.text>> \o el.fields) \in Seq(Atoms)
           /\ Shown(el) \in Seq(Atoms)
           /\ Own(el) \in Seq(Atoms)
<1>1. Own(el) = Written(<<el.text>> \o el.fields) \o Shown(el)
  BY Zenon DEF Own, Shown
<1>2. <<el.text>> \in Seq(Atoms)
  BY AtomsOfElement
<1>3. Written(<<el.text>> \o el.fields) \in Seq(Atoms)
  <2>1. PICK uu : uu = <<el.text>> \o el.fields
    OBVIOUS
  <2>2. uu \in Seq(Atoms)
    BY <1>2, <2>1, AtomsOfElement, ConcatProperties
  <2> QED
    BY <2>1, <2>2, WrittenIsSeq
<1>4. Shown(el) \in Seq(Atoms)
  <2>1. PICK a : a = IF el.key = NoKey THEN el.tag ELSE el.key
    OBVIOUS
  <2>2. a \in Atoms
    BY <2>1, AtomsOfElement
  <2>3. <<a>> \in Seq(Atoms) /\ <<>> \in Seq(Atoms)
    BY <2>2
  <2> QED
    BY <2>1, <2>3, Zenon DEF Shown
<1>5. Own(el) \in Seq(Atoms)
  BY <1>1, <1>3, <1>4, ConcatProperties
<1> QED
  BY <1>1, <1>2, <1>3, <1>4, <1>5

\* One level of Seen, from the one below it.
Below(el, deeper) == FlattenSeq(Mapped(deeper, Inside(el)))

Level(d, deeper) ==
    [el \in Elements |-> IF d > MaxDepth THEN <<>> ELSE Own(el) \o Below(el, deeper)]

IsSeen(g, k) == g = [d \in k..MaxDepth + 1 |-> Level(d, g[d + 1])]

\* The recursion of Seen is a function's.
LEMMA SeenExists == \A j \in 0..MaxDepth + 1 : \E g : IsSeen(g, (MaxDepth + 1) - j)
<1>1. PICK n \in Nat : n = MaxDepth + 1
  BY ContentAssumption
<1> DEFINE B == {j \in 0..n : ~\E g : IsSeen(g, n - j)}
<1>2. B = {}
  <2>1. SUFFICES ASSUME B # {} PROVE FALSE
    OBVIOUS
  <2>2. PICK j \in B : \A i \in B : j <= i
    <3>1. B \in SUBSET Nat
      OBVIOUS
    <3> HIDE DEF B
    <3> QED
      BY <2>1, <3>1, LeastOfNaturals
  <2>3. PICK k \in Nat : k = n - j
    BY <2>2
  <2>4. j # 0
    <3>1. PICK v : v = Level(n, <<>>)
      OBVIOUS
    <3>2. \A deeper : Level(n, deeper) = v
      <4>1. n > MaxDepth
        BY <1>1, ContentAssumption
      <4> QED
        BY <3>1, <4>1, Zenon DEF Level
    <3>3. PICK g : g = [d \in n..n |-> v]
      OBVIOUS
    <3>4. \A d \in n..n : d = n
      OBVIOUS
    <3>5. g = [d \in n..n |-> Level(d, g[d + 1])]
      BY <3>2, <3>3, <3>4
    <3>6. IsSeen(g, n)
      BY <1>1, <3>5, Zenon DEF IsSeen
    <3>7. ~\E h : IsSeen(h, n - j)
      BY <2>2
    <3>8. CASE j = 0
      <4>1. n - j = n
        BY <3>8
      <4> QED
        BY <3>6, <3>7, <4>1, Zenon
    <3> QED
      BY <3>8
  <2>5. j - 1 \in 0..n /\ j - 1 \notin B /\ n - (j - 1) = k + 1 /\ k + 1 \in Nat /\ k + 1 <= n /\ k <= n
    BY <2>2, <2>3, <2>4
  <2>6. PICK g : IsSeen(g, k + 1)
    BY <2>5
  <2>7. PICK v : v = Level(k, g[k + 1])
    OBVIOUS
  <2>8. PICK h : h = [d \in k..n |-> IF d = k THEN v ELSE g[d]]
    OBVIOUS
  <2>9. \A d \in k + 1..n : h[d] = g[d]
    BY <2>3, <2>5, <2>8
  <2>10. g = [d \in k + 1..n |-> Level(d, g[d + 1])]
    BY <1>1, <2>6, Zenon DEF IsSeen
  <2>11. ASSUME NEW d \in k + 1..n PROVE h[d] = Level(d, h[d + 1])
    <3>1. g[d] = Level(d, g[d + 1])
      BY <2>10
    <3>2. CASE d = n
      <4>1. d > MaxDepth
        BY <1>1, <3>2, ContentAssumption
      <4>2. Level(d, g[d + 1]) = Level(d, h[d + 1])
        BY <4>1, Zenon DEF Level
      <4> QED
        BY <2>9, <3>1, <4>2
    <3>3. CASE d # n
      <4>1. d + 1 \in k + 1..n
        BY <3>3, <2>5
      <4> QED
        BY <2>9, <3>1, <4>1
    <3> QED
      BY <3>2, <3>3
  <2>12. h[k] = Level(k, h[k + 1])
    <3>1. k \in k..n /\ k + 1 \in k + 1..n
      BY <2>5
    <3> QED
      BY <2>7, <2>8, <2>9, <3>1
  <2>13. \A d \in k..n : d = k \/ d \in k + 1..n
    BY <2>5
  <2>14. \A d \in k..n : h[d] = Level(d, h[d + 1])
    BY <2>11, <2>12, <2>13, Zenon
  <2>15. h = [d \in k..n |-> h[d]]
    BY <2>8
  <2>16. IsSeen(h, k)
    BY <1>1, <2>14, <2>15, Zenon DEF IsSeen
  <2> QED
    BY <2>2, <2>3, <2>16
<1>3. \A j \in 0..n : \E g : IsSeen(g, n - j)
  BY <1>2
<1> QED
  BY <1>1, <1>3

\* Each level of Seen follows from the one below it.
LEMMA SeenLevels == \A d \in 0..MaxDepth + 1 : Seen[d] = Level(d, Seen[d + 1])
<1>1. \E g : IsSeen(g, 0)
  <2>1. MaxDepth + 1 \in 0..MaxDepth + 1 /\ (MaxDepth + 1) - (MaxDepth + 1) = 0
    BY ContentAssumption
  <2> QED
    BY <2>1, SeenExists
<1>2. Seen = CHOOSE g : IsSeen(g, 0)
  BY Zenon DEF Seen, IsSeen, Level, Below, Mapped
<1>3. IsSeen(Seen, 0)
  BY <1>1, <1>2, Zenon
<1>4. Seen = [d \in 0..MaxDepth + 1 |-> Level(d, Seen[d + 1])]
  BY <1>3, Zenon DEF IsSeen
<1> QED
  BY <1>4, Zenon

\* What is seen in an element.
LEMMA SeenUnfolds ==
    ASSUME NEW el \in Elements
    PROVE  /\ Seen[MaxDepth + 1][el] = <<>>
           /\ \A d \in 0..MaxDepth : Seen[d][el] = Own(el) \o Below(el, Seen[d + 1])
<1>1. MaxDepth + 1 \in 0..MaxDepth + 1 /\ MaxDepth + 1 > MaxDepth
  BY ContentAssumption
<1>2. Seen[MaxDepth + 1][el] = <<>>
  <2>1. Seen[MaxDepth + 1] = Level(MaxDepth + 1, Seen[MaxDepth + 1 + 1])
    BY <1>1, SeenLevels, Zenon
  <2> QED
    BY <1>1, <2>1, Zenon DEF Level
<1>3. ASSUME NEW d \in 0..MaxDepth
      PROVE  Seen[d][el] = Own(el) \o Below(el, Seen[d + 1])
  <2>1. d \in 0..MaxDepth + 1 /\ ~(d > MaxDepth)
    BY ContentAssumption
  <2>2. Seen[d] = Level(d, Seen[d + 1])
    BY <2>1, SeenLevels
  <2> QED
    BY <2>1, <2>2, Zenon DEF Level
<1> QED
  BY <1>2, <1>3

\* What is seen of an element are atoms, at every level.
LEMMA SeenIsSeq == \A d \in 0..MaxDepth + 1 : \A el \in Elements : Seen[d][el] \in Seq(Atoms)
<1>1. PICK n \in Nat : n = MaxDepth + 1
  BY ContentAssumption
<1> DEFINE Good(d) == \A el \in Elements : Seen[d][el] \in Seq(Atoms)
           B == {j \in 0..n : ~Good(n - j)}
<1>2. Good(n)
  <2>1. <<>> \in Seq(Atoms)
    OBVIOUS
  <2> QED
    BY <1>1, <2>1, SeenUnfolds
<1>3. ASSUME NEW d \in 0..MaxDepth, Good(d + 1) PROVE Good(d)
  <2> TAKE el \in Elements
  <2>1. PICK s : s = Seen[d + 1]
    OBVIOUS
  <2>2. PICK ins : ins = Inside(el)
    OBVIOUS
  <2>3. ins \in Seq(Elements)
    BY <2>2, AtomsOfElement
  <2>4. Mapped(s, ins) \in Seq(Seq(Atoms))
    <3>1. MapsTo(s, Elements, Seq(Atoms))
      BY <1>3, <2>1 DEF MapsTo
    <3> QED
      BY <2>3, <3>1, MappedIsSeq, Zenon
  <2>5. Below(el, s) \in Seq(Atoms)
    BY <2>2, <2>4, FlattenIsSeq, Zenon DEF Below
  <2>6. Seen[d][el] = Own(el) \o Below(el, s)
    BY <2>1, SeenUnfolds
  <2> QED
    BY <2>5, <2>6, OwnIsSeq, ConcatProperties
<1> HIDE DEF Good
<1>4. B = {}
  <2>1. SUFFICES ASSUME B # {} PROVE FALSE
    OBVIOUS
  <2>2. PICK j \in B : \A i \in B : j <= i
    <3>1. B \in SUBSET Nat
      OBVIOUS
    <3> HIDE DEF B
    <3> QED
      BY <2>1, <3>1, LeastOfNaturals
  <2>3. j # 0
    <3>1. CASE j = 0
      <4>1. n - j = n
        BY <3>1
      <4> QED
        BY <1>2, <2>2, <4>1
    <3> QED
      BY <3>1
  <2>4. j - 1 \in 0..n /\ j - 1 \notin B /\ n - (j - 1) = (n - j) + 1 /\ n - j \in 0..MaxDepth
    BY <1>1, <2>2, <2>3, ContentAssumption
  <2>5. Good((n - j) + 1)
    BY <2>4
  <2> QED
    BY <1>3, <2>2, <2>4, <2>5
<1>5. ASSUME NEW d \in 0..MaxDepth + 1 PROVE Good(d)
  <2>1. n - d \in 0..n /\ n - (n - d) = d
    BY <1>1
  <2>2. n - d \notin B
    BY <1>4
  <2>3. Good(n - (n - d))
    BY <2>1, <2>2
  <2> QED
    BY <2>1, <2>3
<1> QED
  BY <1>5 DEF Good

-----------------------------------------------------------------------------
(* What is rendered, and what is still to be walked                         *)

\* What the parts of a message show.
Parts == [kind : {"text", "path", "ref", "bare"}, of : Atoms]
Of(ps) == [i \in DOMAIN ps |-> ps[i].of]

\* Of is a function of each part.
LEMMA OfMaps ==
    \E f : /\ MapsTo(f, Parts, Atoms) /\ \A p \in Parts : f[p] = p.of
           /\ \A ps \in Seq(Parts) : Of(ps) = Mapped(f, ps)
<1>1. PICK f : f = [p \in Parts |-> p.of]
  OBVIOUS
<1>2. \A p \in Parts : p.of \in Atoms /\ f[p] = p.of
  BY <1>1 DEF Parts
<1>3. MapsTo(f, Parts, Atoms)
  BY <1>2, Zenon DEF MapsTo
<1>4. ASSUME NEW ps \in Seq(Parts) PROVE Of(ps) = Mapped(f, ps)
  <2>1. \A i \in DOMAIN ps : ps[i] \in Parts
    OBVIOUS
  <2> QED
    BY <1>2, <2>1, Zenon DEF Of, Mapped
<1> QED
  BY <1>2, <1>3, <1>4

LEMMA OfIsSeq ==
    ASSUME NEW ps \in Seq(Parts)
    PROVE  Of(ps) \in Seq(Atoms) /\ Len(Of(ps)) = Len(ps) /\ \A i \in 1..Len(ps) : Of(ps)[i] = ps[i].of
<1>1. PICK f : /\ MapsTo(f, Parts, Atoms) /\ \A p \in Parts : f[p] = p.of
               /\ Of(ps) = Mapped(f, ps)
  BY OfMaps, Zenon
<1>2. /\ Mapped(f, ps) \in Seq(Atoms) /\ Len(Mapped(f, ps)) = Len(ps)
      /\ \A i \in 1..Len(ps) : Mapped(f, ps)[i] = f[ps[i]]
  <2>1. MapsTo(f, Parts, Atoms)
    BY <1>1, Zenon
  <2> QED
    BY <2>1, MappedIsSeq
<1>3. \A i \in 1..Len(ps) : ps[i] \in Parts
  OBVIOUS
<1> QED
  BY <1>1, <1>2, <1>3, Zenon

LEMMA OfConcat ==
    ASSUME NEW ps \in Seq(Parts), NEW qs \in Seq(Parts)
    PROVE  ps \o qs \in Seq(Parts) /\ Of(ps \o qs) = Of(ps) \o Of(qs)
<1>1. PICK f : MapsTo(f, Parts, Atoms) /\ \A rs \in Seq(Parts) : Of(rs) = Mapped(f, rs)
  BY OfMaps, Zenon
<1>2. ps \o qs \in Seq(Parts)
  BY ConcatProperties, Zenon
<1>3. Mapped(f, ps \o qs) = Mapped(f, ps) \o Mapped(f, qs)
  BY <1>1, MappedConcat, Zenon
<1> QED
  BY <1>1, <1>2, <1>3, Zenon

LEMMA OfOne ==
    ASSUME NEW p \in Parts
    PROVE  <<p>> \in Seq(Parts) /\ Of(<<p>>) = <<p.of>>
<1>1. PICK ps : ps = <<p>>
  OBVIOUS
<1>2. ps \in Seq(Parts) /\ Len(ps) = 1 /\ ps[1] = p
  BY <1>1
<1>3. PICK a : a = p.of
  OBVIOUS
<1>4. Of(ps) \in Seq(Atoms) /\ Len(Of(ps)) = 1 /\ Of(ps)[1] = a
  BY <1>2, <1>3, OfIsSeq
<1>5. a \in Atoms
  BY <1>3 DEF Parts
<1>6. PICK bs : bs = <<a>>
  OBVIOUS
<1>7. bs \in Seq(Atoms) /\ Len(bs) = 1 /\ bs[1] = a
  BY <1>5, <1>6
<1>8. Of(ps) = bs
  BY <1>4, <1>7, SeqEqual
<1> QED
  BY <1>1, <1>2, <1>3, <1>6, <1>8

LEMMA OfAppend ==
    ASSUME NEW ps \in Seq(Parts), NEW p \in Parts
    PROVE  Append(ps, p) \in Seq(Parts) /\ Of(Append(ps, p)) = Of(ps) \o <<p.of>>
<1>1. Append(ps, p) = ps \o <<p>>
  OBVIOUS
<1>2. <<p>> \in Seq(Parts) /\ Of(<<p>>) = <<p.of>>
  BY OfOne
<1> QED
  BY <1>1, <1>2, OfConcat, Zenon

LEMMA OfNothing == Of(<<>>) = <<>> /\ <<>> \in Seq(Parts) /\ <<>> \in Seq(Atoms)
<1>1. <<>> \in Seq(Parts) /\ Len(<<>>) = 0 /\ <<>> \in Seq(Atoms)
  OBVIOUS
<1>2. Of(<<>>) \in Seq(Atoms) /\ Len(Of(<<>>)) = 0
  BY <1>1, OfIsSeq
<1> QED
  BY <1>1, <1>2, EmptySeq

\* What is to be seen of the elements that are still to be walked.
Works == [el : Elements, depth : 0..MaxDepth + 1]
ToSee(ws) == FlattenSeq([i \in DOMAIN ws |-> Seen[ws[i].depth][ws[i].el]])

\* So is ToSee, of each element that is to be walked.
LEMMA ToSeeMaps ==
    \E f : /\ MapsTo(f, Works, Seq(Atoms)) /\ \A w \in Works : f[w] = Seen[w.depth][w.el]
           /\ \A ws \in Seq(Works) : ToSee(ws) = FlattenSeq(Mapped(f, ws))
<1>1. PICK f : f = [w \in Works |-> Seen[w.depth][w.el]]
  OBVIOUS
<1>2. \A w \in Works : f[w] = Seen[w.depth][w.el]
  BY <1>1
<1>3. MapsTo(f, Works, Seq(Atoms))
  <2> SUFFICES ASSUME NEW w \in Works PROVE f[w] \in Seq(Atoms)
    BY DEF MapsTo
  <2>1. w.depth \in 0..MaxDepth + 1 /\ w.el \in Elements
    BY DEF Works
  <2> QED
    BY <1>2, <2>1, SeenIsSeq, Zenon
<1>4. ASSUME NEW ws \in Seq(Works) PROVE ToSee(ws) = FlattenSeq(Mapped(f, ws))
  <2>1. \A i \in DOMAIN ws : ws[i] \in Works
    OBVIOUS
  <2>2. [i \in DOMAIN ws |-> Seen[ws[i].depth][ws[i].el]] = Mapped(f, ws)
    BY <1>2, <2>1, Zenon DEF Mapped
  <2> QED
    BY <2>2, Zenon DEF ToSee
<1> QED
  BY <1>2, <1>3, <1>4

LEMMA ToSeeIsSeq ==
    ASSUME NEW ws \in Seq(Works)
    PROVE  ToSee(ws) \in Seq(Atoms)
<1>1. PICK f : MapsTo(f, Works, Seq(Atoms)) /\ ToSee(ws) = FlattenSeq(Mapped(f, ws))
  BY ToSeeMaps, Zenon
<1>2. Mapped(f, ws) \in Seq(Seq(Atoms))
  BY <1>1, MappedIsSeq, Zenon
<1> QED
  BY <1>1, <1>2, FlattenIsSeq, Zenon

LEMMA ToSeeConcat ==
    ASSUME NEW vs \in Seq(Works), NEW ws \in Seq(Works)
    PROVE  vs \o ws \in Seq(Works) /\ ToSee(vs \o ws) = ToSee(vs) \o ToSee(ws)
<1>1. PICK f : MapsTo(f, Works, Seq(Atoms)) /\ \A us \in Seq(Works) : ToSee(us) = FlattenSeq(Mapped(f, us))
  BY ToSeeMaps, Zenon
<1>2. Mapped(f, vs) \in Seq(Seq(Atoms)) /\ Mapped(f, ws) \in Seq(Seq(Atoms))
  BY <1>1, MappedIsSeq, Zenon
<1>3. Mapped(f, vs \o ws) = Mapped(f, vs) \o Mapped(f, ws)
  BY <1>1, MappedConcat, Zenon
<1>4. vs \o ws \in Seq(Works)
  BY ConcatProperties, Zenon
<1>5. FlattenSeq(Mapped(f, vs) \o Mapped(f, ws)) = FlattenSeq(Mapped(f, vs)) \o FlattenSeq(Mapped(f, ws))
  BY <1>2, FlattenConcat, Zenon
<1> QED
  BY <1>1, <1>3, <1>4, <1>5, Zenon

\* The first element is seen first, with all that is in it.
LEMMA ToSeeHead ==
    ASSUME NEW ws \in Seq(Works), ws # <<>>
    PROVE  /\ Head(ws) \in Works /\ Tail(ws) \in Seq(Works)
           /\ ToSee(ws) = Seen[Head(ws).depth][Head(ws).el] \o ToSee(Tail(ws))
<1>1. PICK w : w = Head(ws)
  OBVIOUS
<1>2. w \in Works /\ Tail(ws) \in Seq(Works) /\ ws = <<w>> \o Tail(ws)
  BY <1>1
<1>3. PICK f : /\ MapsTo(f, Works, Seq(Atoms)) /\ \A v \in Works : f[v] = Seen[v.depth][v.el]
               /\ \A us \in Seq(Works) : ToSee(us) = FlattenSeq(Mapped(f, us))
  BY ToSeeMaps, Zenon
<1>4. PICK us : us = <<w>>
  OBVIOUS
<1>5. us \in Seq(Works) /\ Len(us) = 1 /\ us[1] = w
  BY <1>2, <1>4
<1>6. PICK x : x = f[w]
  OBVIOUS
<1>7. x \in Seq(Atoms)
  BY <1>2, <1>3, <1>6, Zenon DEF MapsTo
<1>8. Mapped(f, us) = <<x>>
  <2>1. PICK S : S = Seq(Atoms)
    OBVIOUS
  <2>2. Mapped(f, us) \in Seq(S) /\ Len(Mapped(f, us)) = Len(us) /\ \A i \in 1..Len(us) : Mapped(f, us)[i] = f[us[i]]
    <3>1. MapsTo(f, Works, S) /\ us \in Seq(Works)
      BY <1>3, <1>5, <2>1, Zenon
    <3> QED
      BY <3>1, MappedIsSeq
  <2>3. PICK m : m = Mapped(f, us)
    OBVIOUS
  <2>4. m \in Seq(S) /\ Len(m) = 1 /\ m[1] = x
    BY <1>5, <1>6, <2>2, <2>3
  <2> QED
    BY <2>3, <2>4
<1>9. ToSee(us) = x
  BY <1>3, <1>5, <1>7, <1>8, FlattenOne
<1>10. ToSee(ws) = ToSee(us) \o ToSee(Tail(ws))
  BY <1>2, <1>4, <1>5, ToSeeConcat, Zenon
<1> QED
  BY <1>1, <1>2, <1>3, <1>6, <1>9, <1>10

\* Elements that are put into the walk are seen as they are.
LEMMA ToSeeItems ==
    ASSUME NEW els \in Seq(Elements), NEW d \in 0..MaxDepth + 1
    PROVE  /\ Items(els, d) \in Seq(Works)
           /\ \A i \in 1..Len(els) : Items(els, d)[i] = [el |-> els[i], depth |-> d]
           /\ Len(Items(els, d)) = Len(els)
           /\ ToSee(Items(els, d)) = FlattenSeq(Mapped(Seen[d], els))
<1>1. PICK n \in Nat : n = Len(els)
  OBVIOUS
<1>2. DOMAIN els = 1..n /\ \A i \in 1..n : els[i] \in Elements
  BY <1>1
<1>3. PICK ws : ws = Items(els, d)
  OBVIOUS
<1>4. ws = [i \in 1..n |-> [el |-> els[i], depth |-> d]]
  BY <1>2, <1>3, Zenon DEF Items
<1>5. \A i \in 1..n : [el |-> els[i], depth |-> d] \in Works
  BY <1>2 DEF Works
<1>6. /\ ws \in Seq(Works) /\ Len(ws) = n /\ DOMAIN ws = DOMAIN els
      /\ \A i \in 1..n : ws[i] = [el |-> els[i], depth |-> d]
  BY <1>2, <1>4, <1>5
<1>7. \A i \in 1..n : ws[i].depth = d /\ ws[i].el = els[i]
  BY <1>6
<1>8. [i \in DOMAIN ws |-> Seen[ws[i].depth][ws[i].el]] = Mapped(Seen[d], els)
  BY <1>2, <1>6, <1>7, Zenon DEF Mapped
<1>9. ToSee(ws) = FlattenSeq(Mapped(Seen[d], els))
  BY <1>8, Zenon DEF ToSee
<1> QED
  BY <1>1, <1>3, <1>6, <1>9

LEMMA ToSeeNothing == ToSee(<<>>) = <<>>
<1>1. DOMAIN <<>> = {}
  OBVIOUS
<1>2. PICK ss : ss = [i \in DOMAIN <<>> |-> Seen[<<>>[i].depth][<<>>[i].el]]
  OBVIOUS
<1>3. ss = <<>>
  BY <1>1, <1>2
<1> QED
  BY <1>2, <1>3, FlattenNothing, Zenon DEF ToSee

-----------------------------------------------------------------------------
(* The walk of a message                                                    *)

\* The walk of a message that is looked into: what is shown, what is waited for and
\* what remains make up the message; a card that is cut short may lack its end.
Readable  == body # <<>> /\ body.type \notin {"unreadable", "other"}
Transfers == [key : Atoms, phase : {"asked", "writing", "done", "failed"}]
Awaiting  == IF awaited = 0 THEN <<>> ELSE <<transfers[awaited].key>>
AllSeen   == FlattenSeq([i \in DOMAIN body.blocks |-> Seen[0][body.blocks[i]]])
Plain(w)  == w.depth = 0 /\ w.el.fields = <<>> /\ Inside(w.el) = <<>>
CutShort  == IsCard /\ nodes = 0
Remains(rest) ==
    /\ (Of(parts) \o Awaiting) \o rest = AllSeen
    /\ CutShort \/ rest = ToSee(work)

WalkTypes ==
    /\ work \in Seq(Works) /\ parts \in Seq(Parts)
    /\ transfers \in Seq(Transfers) /\ awaited \in 0..Len(transfers)

WalkInv ==
    /\ WalkTypes
    /\ ~IsCard => \A i \in 1..Len(work) : Plain(work[i])
    /\ given # <<>> => work = <<>> /\ awaited = 0
    /\ \E rest \in Seq(Atoms) : Remains(rest)

ContentInv ==
    /\ nodes \in Nat
    /\ body # <<>> => body \in Bodies
    /\ body = <<>> => work = <<>> /\ parts = <<>> /\ given = <<>> /\ awaited = 0 /\ transfers = <<>>
    /\ ~Readable => work = <<>>
    /\ Readable => WalkInv

\* What is waited for is at most one key.
LEMMA AwaitingIsSeq ==
    ASSUME WalkTypes
    PROVE  Awaiting \in Seq(Atoms)
<1>1. CASE awaited = 0
  BY <1>1, OfNothing, Zenon DEF Awaiting
<1>2. CASE awaited # 0
  <2>1. awaited \in 1..Len(transfers)
    BY <1>2 DEF WalkTypes
  <2>2. transfers[awaited] \in Transfers
    BY <2>1, ElementOfSeq, Zenon DEF WalkTypes
  <2>3. PICK k : k = transfers[awaited].key
    OBVIOUS
  <2>4. k \in Atoms
    BY <2>2, <2>3 DEF Transfers
  <2>5. <<k>> \in Seq(Atoms)
    BY <2>4
  <2> QED
    BY <1>2, <2>3, <2>5, Zenon DEF Awaiting
<1> QED
  BY <1>1, <1>2

\* What is rendered of an element: its texts, then what stands for its resource,
\* or the wait for it.
LEMMA TextsShow ==
    ASSUME NEW el \in Elements, Cells(el) \in Seq(Atoms)
    PROVE  /\ TextsOf(el) \in Seq(Parts)
           /\ Of(TextsOf(el)) = Written(<<el.text>> \o Cells(el))
<1>1. PICK uu : uu = Written(<<el.text>> \o Cells(el))
  OBVIOUS
<1>2. uu \in Seq(Atoms)
  <2>1. PICK ss : ss = <<el.text>> \o Cells(el)
    OBVIOUS
  <2>2. ss \in Seq(Atoms)
    BY <2>1, OwnIsSeq, ConcatProperties
  <2> QED
    BY <1>1, <2>1, <2>2, WrittenIsSeq
<1>3. PICK n \in Nat : n = Len(uu) /\ DOMAIN uu = 1..n /\ \A i \in 1..n : uu[i] \in Atoms
  BY <1>2
<1>4. PICK ps : ps = TextsOf(el)
  OBVIOUS
<1>5. ps = [i \in 1..n |-> [kind |-> "text", of |-> uu[i]]]
  BY <1>1, <1>3, <1>4, Zenon DEF TextsOf, Text
<1>6. \A i \in 1..n : [kind |-> "text", of |-> uu[i]] \in Parts
  BY <1>3 DEF Parts
<1>7. ps \in Seq(Parts) /\ Len(ps) = n
  BY <1>5, <1>6
<1>8. \A i \in 1..n : ps[i].of = uu[i]
  BY <1>5
<1>9. PICK os : os = Of(ps)
  OBVIOUS
<1>10. os \in Seq(Atoms) /\ Len(os) = n /\ \A i \in 1..n : os[i] = uu[i]
  BY <1>7, <1>8, <1>9, OfIsSeq
<1>11. os = uu
  BY <1>2, <1>3, <1>10, SeqEqual
<1> QED
  BY <1>1, <1>4, <1>7, <1>9, <1>11

\* An image or a file is fetched, or something stands for it.
LEMMA ResourceShows ==
    ASSUME NEW el \in Elements
    PROVE  /\ Unfetchable(el) \in Seq(Parts)
           /\ ~Fetches(el) => Of(Unfetchable(el)) = Shown(el)
           /\ Fetches(el) => Of(Unfetchable(el)) = <<>> /\ Shown(el) = <<el.key>>
<1>1. [kind |-> "bare", of |-> el.tag] \in Parts /\ [kind |-> "ref", of |-> el.key] \in Parts
  BY AtomsOfElement DEF Parts
<1>2. PICK b : b = Bare(el.tag)
  OBVIOUS
<1>3. PICK r : r = Ref(el.key)
  OBVIOUS
<1>4. b \in Parts /\ r \in Parts /\ b.of = el.tag /\ r.of = el.key
  BY <1>1, <1>2, <1>3 DEF Bare, Ref
<1>5. CASE Fetches(el)
  <2>1. Unfetchable(el) = <<>>
    BY <1>5, Zenon DEF Unfetchable
  <2>2. Shown(el) = <<el.key>>
    BY <1>5, Zenon DEF Shown, Fetches
  <2> QED
    BY <1>5, <2>1, <2>2, OfNothing, Zenon
<1>6. CASE ~IsResource(el)
  <2>1. Unfetchable(el) = <<>> /\ Shown(el) = <<>> /\ ~Fetches(el)
    BY <1>6, Zenon DEF Unfetchable, Shown, Fetches
  <2> QED
    BY <2>1, OfNothing, Zenon
<1>7. CASE IsResource(el) /\ ~Fetches(el) /\ el.key = NoKey
  <2>1. Unfetchable(el) = <<b>> /\ Shown(el) = <<el.tag>>
    BY <1>2, <1>7, Zenon DEF Unfetchable, Shown
  <2>2. <<b>> \in Seq(Parts) /\ Of(<<b>>) = <<b.of>>
    BY <1>4, OfOne
  <2> QED
    BY <1>4, <1>7, <2>1, <2>2, Zenon
<1>8. CASE IsResource(el) /\ ~Fetches(el) /\ el.key # NoKey
  <2>1. Unfetchable(el) = <<r>> /\ Shown(el) = <<el.key>>
    BY <1>3, <1>8, Zenon DEF Unfetchable, Shown
  <2>2. <<r>> \in Seq(Parts) /\ Of(<<r>>) = <<r.of>>
    BY <1>4, OfOne
  <2> QED
    BY <1>4, <1>8, <2>1, <2>2, Zenon
<1> QED
  BY <1>5, <1>6, <1>7, <1>8, Zenon

\* The cells that are looked at begin the cells of an element; the others are cut
\* off, and then nothing more of the card is looked at.
CutOff(el, cut) ==
    /\ cut \in Seq(Atoms) /\ Cells(el) \in Seq(Atoms) /\ el.fields = Cells(el) \o cut
    /\ nodes > 0 => nodes - 1 - Len(Cells(el)) \in Nat
    /\ cut # <<>> => nodes > 0 /\ nodes - 1 - Len(Cells(el)) = 0 /\ el.fields # <<>>

LEMMA CellsBegin ==
    ASSUME NEW el \in Elements, nodes \in Nat, nodes = 0 => el.fields = <<>>
    PROVE  \E cut : CutOff(el, cut)
<1>1. PICK fs : fs = el.fields
  OBVIOUS
<1>2. fs \in Seq(Atoms) /\ Len(fs) \in Nat
  BY <1>1, AtomsOfElement
<1>3. PICK n : n = IF Len(fs) < nodes THEN Len(fs) ELSE nodes - 1
  OBVIOUS
<1>4. Cells(el) = SubSeq(fs, 1, n)
  BY <1>1, <1>3, Zenon DEF Cells
<1>5. PICK cells : cells = SubSeq(fs, 1, n)
  OBVIOUS
<1>6. CASE nodes = 0
  <2>1. fs = <<>> /\ n = 0 - 1
    BY <1>1, <1>2, <1>3, <1>6
  <2>2. n \in Int /\ n < 1
    BY <2>1
  <2>3. cells = <<>>
    BY <1>5, <2>2, SubSeqEmpty
  <2>4. cells \in Seq(Atoms) /\ fs = cells \o <<>> /\ <<>> \in Seq(Atoms)
    BY <2>1, <2>3
  <2>5. CutOff(el, <<>>)
    BY <1>1, <1>4, <1>5, <1>6, <2>4 DEF CutOff
  <2> QED
    BY <2>5
<1>7. CASE nodes # 0 /\ Len(fs) < nodes
  <2>1. cells = fs
    BY <1>2, <1>3, <1>5, <1>7, SubSeqFull
  <2>2. fs = fs \o <<>> /\ <<>> \in Seq(Atoms)
    BY <1>2
  <2>3. nodes > 0 /\ nodes - 1 - Len(cells) \in Nat
    BY <1>2, <1>7, <2>1
  <2>4. CutOff(el, <<>>)
    BY <1>1, <1>2, <1>4, <1>5, <2>1, <2>2, <2>3, Zenon DEF CutOff
  <2> QED
    BY <2>4
<1>8. CASE nodes # 0 /\ ~(Len(fs) < nodes)
  <2>1. n = nodes - 1 /\ n \in 0..Len(fs) /\ Len(fs) > 0
    BY <1>2, <1>3, <1>8
  <2>2. PICK cut : cut = SubSeq(fs, n + 1, Len(fs))
    OBVIOUS
  <2>3. cells \in Seq(Atoms) /\ Len(cells) = n
    BY <1>2, <1>5, <2>1
  <2>4. cut \in Seq(Atoms)
    BY <1>2, <2>1, <2>2
  <2>5. cells \o cut = fs
    <3>1. 1 \in 1..Len(fs) + 1 /\ n \in 1 - 1..Len(fs) /\ Len(fs) \in n..Len(fs)
      BY <1>2, <2>1
    <3>2. SubSeq(fs, 1, n) \o SubSeq(fs, n + 1, Len(fs)) = SubSeq(fs, 1, Len(fs))
      BY <1>2, <3>1, ConcatAdjacentSubSeq
    <3> QED
      BY <1>2, <1>5, <2>2, <3>2, SubSeqFull
  <2>6. nodes > 0 /\ nodes - 1 - Len(cells) = 0 /\ fs # <<>>
    BY <1>2, <1>8, <2>1, <2>3
  <2>7. nodes - 1 - Len(cells) \in Nat
    BY <2>6
  <2>8. CutOff(el, cut)
    BY <1>1, <1>4, <1>5, <2>3, <2>4, <2>5, <2>6, <2>7, Zenon DEF CutOff
  <2> QED
    BY <2>8
<1> QED
  BY <1>6, <1>7, <1>8

LEMMA WrittenNothing == Written(<<>>) = <<>>
<1>1. <<>> \in Seq({}) /\ <<>> \o <<>> = <<>>
  OBVIOUS
<1>2. Written(<<>>) \in Seq({})
  BY <1>1, WrittenIsSeq, Zenon
<1>3. \A ss \in Seq({}) : ss = <<>>
  OBVIOUS
<1> QED
  BY <1>2, <1>3

\* Concatenation by itself: what the provers need of it below, and no more.
Join(x, y) == x \o y

LEMMA JoinIsSeq ==
    ASSUME NEW T, NEW x \in Seq(T), NEW y \in Seq(T)
    PROVE  Join(x, y) \in Seq(T)
BY ConcatProperties, Zenon DEF Join

\* It does not matter which are put together first.
LEMMA JoinAssociates ==
    ASSUME NEW T, NEW x \in Seq(T), NEW y \in Seq(T), NEW z \in Seq(T)
    PROVE  Join(Join(x, y), z) = Join(x, Join(y, z))
BY ConcatAssociative DEF Join

\* The same parts, put together from the left and from the right.
LEMMA Regroup ==
    ASSUME NEW T, NEW p \in Seq(T), NEW w \in Seq(T), NEW r \in Seq(T), NEW s \in Seq(T),
           NEW b \in Seq(T), NEW t \in Seq(T)
    PROVE  Join(p, Join(Join(Join(Join(w, r), s), b), t)) = Join(Join(p, w), Join(r, Join(s, Join(b, t))))
<1>1. Join(w, r) \in Seq(T) /\ Join(b, t) \in Seq(T)
  BY JoinIsSeq
<1>2. Join(Join(w, r), s) \in Seq(T) /\ Join(s, Join(b, t)) \in Seq(T)
  BY <1>1, JoinIsSeq
<1>3. Join(r, Join(s, Join(b, t))) \in Seq(T)
  BY <1>2, JoinIsSeq
<1>4. Join(Join(Join(Join(w, r), s), b), t) = Join(Join(Join(w, r), s), Join(b, t))
  BY <1>2, JoinAssociates
<1>5. Join(Join(Join(w, r), s), Join(b, t)) = Join(Join(w, r), Join(s, Join(b, t)))
  BY <1>1, JoinAssociates
<1>6. Join(Join(w, r), Join(s, Join(b, t))) = Join(w, Join(r, Join(s, Join(b, t))))
  BY <1>2, JoinAssociates
<1>7. Join(p, Join(w, Join(r, Join(s, Join(b, t))))) = Join(Join(p, w), Join(r, Join(s, Join(b, t))))
  BY <1>3, JoinAssociates
<1> QED
  BY <1>4, <1>5, <1>6, <1>7, Zenon

\* The element that is visited is looked at, down to the last level.
LEMMA VisitedElement ==
    ASSUME ContentInv, Readable, Visit
    PROVE  /\ WalkTypes /\ awaited = 0 /\ work # <<>> /\ given = <<>> /\ nodes \in Nat
           /\ Head(work) \in Works /\ Head(work).el \in Elements
           /\ Head(work).depth \in 0..MaxDepth
           /\ Tail(work) \in Seq(Works)
           /\ nodes = 0 => Head(work).el.fields = <<>>
           /\ IsCard => nodes > 0
           /\ ~IsCard => Plain(Head(work)) /\ \A i \in 1..Len(Tail(work)) : Plain(Tail(work)[i])
<1>1. WalkInv /\ nodes \in Nat
  BY Zenon DEF ContentInv
<1>2. WalkTypes /\ awaited = 0 /\ work # <<>> /\ given = <<>>
  BY <1>1, Zenon DEF WalkInv, Visit
<1>3. IsCard => Head(work).depth <= MaxDepth /\ nodes > 0
  BY Zenon DEF Visit
<1>4. work \in Seq(Works) /\ Head(work) \in Works /\ Tail(work) \in Seq(Works)
  BY <1>2, ToSeeHead DEF WalkTypes
<1>5. Head(work).el \in Elements /\ Head(work).depth \in 0..MaxDepth + 1
  BY <1>4 DEF Works
<1>6. ASSUME ~IsCard
      PROVE  Plain(Head(work)) /\ \A i \in 1..Len(Tail(work)) : Plain(Tail(work)[i])
  <2>1. \A i \in 1..Len(work) : Plain(work[i])
    BY <1>1, <1>6, Zenon DEF WalkInv
  <2>2. Head(work) = work[1] /\ 1 \in 1..Len(work)
    BY <1>2, <1>4
  <2>3. \A i \in 1..Len(Tail(work)) : Tail(work)[i] = work[i + 1] /\ i + 1 \in 1..Len(work)
    BY <1>2, <1>4
  <2> QED
    BY <2>1, <2>2, <2>3, Zenon
<1>7. Head(work).depth \in 0..MaxDepth
  <2>1. CASE IsCard
    BY <1>3, <1>5, <2>1, ContentAssumption
  <2>2. CASE ~IsCard
    <3>1. Head(work).depth = 0
      BY <1>6, <2>2, Zenon DEF Plain
    <3> QED
      BY <3>1, ContentAssumption
  <2> QED
    BY <2>1, <2>2
<1>8. nodes = 0 => Head(work).el.fields = <<>>
  <2>1. CASE IsCard
    BY <1>3, <2>1
  <2>2. CASE ~IsCard
    BY <1>6, <2>2, Zenon DEF Plain
  <2> QED
    BY <2>1, <2>2
<1> QED
  BY <1>1, <1>2, <1>3, <1>4, <1>5, <1>6, <1>7, <1>8, Zenon

\* What is seen of the message from the element that is visited on.
LEMMA SeenFromVisited ==
    ASSUME NEW ws \in Seq(Works), ws # <<>>, NEW el, NEW d \in 0..MaxDepth, NEW cut,
           Head(ws).el = el, Head(ws).depth = d, CutOff(el, cut)
    PROVE  /\ ToSee(ws) = (((Written(<<el.text>> \o Cells(el)) \o Written(cut)) \o Shown(el))
                            \o Below(el, Seen[d + 1])) \o ToSee(Tail(ws))
           /\ Written(<<el.text>> \o Cells(el)) \in Seq(Atoms) /\ Written(cut) \in Seq(Atoms)
           /\ Below(el, Seen[d + 1]) \in Seq(Atoms)
           /\ Items(Inside(el), d + 1) \in Seq(Works)
           /\ ToSee(Items(Inside(el), d + 1)) = Below(el, Seen[d + 1])
<1>1. Head(ws) \in Works /\ Tail(ws) \in Seq(Works) /\ ToSee(ws) = Seen[d][el] \o ToSee(Tail(ws))
  BY ToSeeHead
<1>2. el \in Elements
  BY <1>1 DEF Works
<1>3. Seen[d][el] = Own(el) \o Below(el, Seen[d + 1])
  BY <1>2, SeenUnfolds
<1>4. cut \in Seq(Atoms) /\ Cells(el) \in Seq(Atoms) /\ el.fields = Cells(el) \o cut /\ <<el.text>> \in Seq(Atoms)
  BY <1>2, OwnIsSeq, Zenon DEF CutOff
<1>5. <<el.text>> \o Cells(el) \in Seq(Atoms)
  BY <1>4, ConcatProperties, Zenon
<1>6. <<el.text>> \o el.fields = (<<el.text>> \o Cells(el)) \o cut
  <2>1. PICK x : x = <<el.text>>
    OBVIOUS
  <2>2. PICK c : c = Cells(el)
    OBVIOUS
  <2>3. Join(x, Join(c, cut)) = Join(Join(x, c), cut)
    <3>1. x \in Seq(Atoms) /\ c \in Seq(Atoms) /\ cut \in Seq(Atoms)
      BY <1>4, <2>1, <2>2, Zenon
    <3> QED
      BY <3>1, JoinAssociates
  <2> QED
    BY <1>4, <2>1, <2>2, <2>3, Zenon DEF Join
<1>7. Written((<<el.text>> \o Cells(el)) \o cut) = Written(<<el.text>> \o Cells(el)) \o Written(cut)
  BY <1>4, <1>5, WrittenConcat, Zenon
<1>8. Own(el) = (Written(<<el.text>> \o Cells(el)) \o Written(cut)) \o Shown(el)
  BY <1>2, <1>6, <1>7, OwnIsSeq, Zenon
<1>9. Written(<<el.text>> \o Cells(el)) \in Seq(Atoms) /\ Written(cut) \in Seq(Atoms)
  BY <1>4, <1>5, WrittenIsSeq, Zenon
<1>10. d + 1 \in 0..MaxDepth + 1
  BY ContentAssumption
<1>11. Inside(el) \in Seq(Elements)
  BY <1>2, AtomsOfElement
<1>12. /\ Items(Inside(el), d + 1) \in Seq(Works)
       /\ ToSee(Items(Inside(el), d + 1)) = Below(el, Seen[d + 1])
  BY <1>10, <1>11, ToSeeItems, Zenon DEF Below
<1>13. Below(el, Seen[d + 1]) \in Seq(Atoms)
  BY <1>12, ToSeeIsSeq, Zenon
<1> QED
  BY <1>1, <1>3, <1>8, <1>9, <1>12, <1>13, Zenon

\* What a visit renders and what it leaves to be walked make up what was to be walked.
LEMMA VisitWalks ==
    ASSUME ContentInv, Readable, Visit
    PROVE  WalkInv' /\ nodes' \in Nat
<1> USE VisitedElement
<1>1. PICK el \in Elements : el = Head(work).el
  OBVIOUS
<1>2. PICK d \in 0..MaxDepth : d = Head(work).depth
  OBVIOUS
<1>3. PICK cut : CutOff(el, cut)
  BY <1>1, CellsBegin
<1>4. /\ nodes' = IF IsCard THEN nodes - 1 - Len(Cells(el)) ELSE nodes
      /\ parts' = parts \o TextsOf(el) \o Unfetchable(el)
      /\ work' = Items(Inside(el), d + 1) \o Tail(work)
      /\ IF Fetches(el)
         THEN /\ transfers' = Append(transfers, [key |-> el.key, phase |-> "asked"])
              /\ awaited' = Len(transfers')
         ELSE transfers' = transfers /\ awaited' = awaited
      /\ body' = body /\ given' = given
  BY <1>1, <1>2, Zenon DEF Visit
<1>5. nodes' \in Nat
  BY <1>3, <1>4 DEF CutOff
<1>6. PICK p : p = Of(parts)
  OBVIOUS
<1>7. PICK w : w = Written(<<el.text>> \o Cells(el))
  OBVIOUS
<1>8. PICK r : r = Written(cut)
  OBVIOUS
<1>9. PICK s : s = Shown(el)
  OBVIOUS
<1>10. PICK b : b = Below(el, Seen[d + 1])
  OBVIOUS
<1>11. PICK t : t = ToSee(Tail(work))
  OBVIOUS
<1>12. PICK u : u = Of(Unfetchable(el))
  OBVIOUS
<1>13. PICK a : a = IF Fetches(el) THEN <<el.key>> ELSE <<>>
  OBVIOUS
<1>14. parts \in Seq(Parts) /\ work \in Seq(Works) /\ transfers \in Seq(Transfers)
  BY Zenon DEF WalkTypes
<1>15. /\ ToSee(work) = (((w \o r) \o s) \o b) \o t
       /\ w \in Seq(Atoms) /\ r \in Seq(Atoms) /\ b \in Seq(Atoms)
       /\ Items(Inside(el), d + 1) \in Seq(Works) /\ ToSee(Items(Inside(el), d + 1)) = b
  BY <1>1, <1>2, <1>3, <1>7, <1>8, <1>9, <1>10, <1>11, <1>14, SeenFromVisited, Zenon
<1>16. p \in Seq(Atoms) /\ s \in Seq(Atoms) /\ t \in Seq(Atoms) /\ u \in Seq(Atoms) /\ a \in Seq(Atoms)
  <2>1. p \in Seq(Atoms)
    BY <1>6, <1>14, OfIsSeq
  <2>2. s \in Seq(Atoms)
    BY <1>9, OwnIsSeq
  <2>3. t \in Seq(Atoms)
    BY <1>11, ToSeeIsSeq
  <2>4. Unfetchable(el) \in Seq(Parts)
    BY ResourceShows
  <2>5. u \in Seq(Atoms)
    BY <1>12, <2>4, OfIsSeq
  <2>6. a \in Seq(Atoms)
    <3>1. PICK k : k = el.key
      OBVIOUS
    <3>2. k \in Atoms
      BY <3>1, AtomsOfElement
    <3>3. <<k>> \in Seq(Atoms) /\ <<>> \in Seq(Atoms)
      BY <3>2
    <3> QED
      BY <1>13, <3>1, <3>3, Zenon
  <2> QED
    BY <2>1, <2>2, <2>3, <2>5, <2>6
<1>17. u \o a = s
  <2>1. CASE Fetches(el)
    <3>1. u = <<>> /\ s = a
      BY <1>9, <1>12, <1>13, <2>1, ResourceShows, Zenon
    <3> QED
      BY <1>16, <3>1, ConcatEmptySeq, Zenon
  <2>2. CASE ~Fetches(el)
    <3>1. u = s /\ a = <<>>
      BY <1>9, <1>12, <1>13, <2>2, ResourceShows, Zenon
    <3> QED
      BY <1>16, <3>1, ConcatEmptySeq, Zenon
  <2> QED
    BY <2>1, <2>2
<1>18. parts' \in Seq(Parts) /\ Of(parts') = (p \o w) \o u
  <2>1. Cells(el) \in Seq(Atoms)
    BY <1>3, Zenon DEF CutOff
  <2>2. TextsOf(el) \in Seq(Parts) /\ Of(TextsOf(el)) = w
    BY <1>7, <2>1, TextsShow, Zenon
  <2>3. Unfetchable(el) \in Seq(Parts)
    BY ResourceShows
  <2>4. parts \o TextsOf(el) \in Seq(Parts) /\ Of(parts \o TextsOf(el)) = p \o w
    BY <1>6, <1>14, <2>2, OfConcat, Zenon
  <2> QED
    BY <1>4, <1>12, <2>3, <2>4, OfConcat, Zenon
<1>19. transfers' \in Seq(Transfers) /\ awaited' \in 0..Len(transfers') /\ Awaiting' = a
  <2>1. CASE Fetches(el)
    <3>1. PICK k : k = el.key
      OBVIOUS
    <3>2. PICK tr : tr = [key |-> k, phase |-> "asked"]
      OBVIOUS
    <3>3. tr \in Transfers /\ tr.key = k
      BY <3>1, <3>2, AtomsOfElement DEF Transfers
    <3>4. PICK ts : ts = Append(transfers, tr)
      OBVIOUS
    <3>5. ts \in Seq(Transfers) /\ Len(ts) = Len(transfers) + 1 /\ ts[Len(ts)] = tr /\ Len(transfers) \in Nat
      BY <1>14, <3>3, <3>4
    <3>6. transfers' = ts /\ awaited' = Len(ts)
      BY <1>4, <2>1, <3>1, <3>2, <3>4, Zenon
    <3>7. Len(ts) # 0 /\ Len(ts) \in 0..Len(ts)
      BY <3>5
    <3>8. Awaiting' = <<transfers'[awaited'].key>>
      BY <3>6, <3>7, Zenon DEF Awaiting
    <3>9. Awaiting' = <<k>>
      BY <3>3, <3>5, <3>6, <3>8, Zenon
    <3> QED
      BY <1>13, <2>1, <3>1, <3>5, <3>6, <3>7, <3>9, Zenon
  <2>2. CASE ~Fetches(el)
    <3>1. transfers' = transfers /\ awaited' = 0
      BY <1>4, <2>2, Zenon
    <3>2. 0 \in 0..Len(transfers)
      BY <1>14
    <3>3. Awaiting' = <<>>
      BY <3>1, Zenon DEF Awaiting
    <3> QED
      BY <1>13, <1>14, <2>2, <3>1, <3>2, <3>3, Zenon
  <2> QED
    BY <2>1, <2>2
<1>20. work' \in Seq(Works) /\ ToSee(work') = b \o t
  BY <1>4, <1>11, <1>15, ToSeeConcat, Zenon
<1>21. WalkTypes'
  BY <1>18, <1>19, <1>20, Zenon DEF WalkTypes
<1>22. ~IsCard' => \A i \in 1..Len(work') : Plain(work'[i])
  <2> SUFFICES ASSUME ~IsCard' PROVE \A i \in 1..Len(work') : Plain(work'[i])
    OBVIOUS
  <2>1. ~IsCard
    BY <1>4, Zenon DEF IsCard
  <2>2. Inside(el) = <<>>
    BY <1>1, <2>1, Zenon DEF Plain
  <2>3. PICK its : its = Items(Inside(el), d + 1)
    OBVIOUS
  <2>4. Len(its) = 0 /\ its \in Seq(Works)
    <3>1. <<>> \in Seq(Elements) /\ Len(<<>>) = 0 /\ d + 1 \in 0..MaxDepth + 1
      BY ContentAssumption
    <3> QED
      BY <2>2, <2>3, <3>1, ToSeeItems
  <2>5. its = <<>>
    BY <2>4, EmptySeq
  <2>6. work' = Tail(work)
    BY <1>4, <2>3, <2>5, ConcatEmptySeq, Zenon
  <2> QED
    BY <2>1, <2>6, Zenon
<1>23. given' = <<>>
  BY <1>4
<1>24. p \o ToSee(work) = AllSeen
  <2>1. WalkInv
    BY Zenon DEF ContentInv
  <2>2. PICK rest \in Seq(Atoms) : Remains(rest)
    BY <2>1, Zenon DEF WalkInv
  <2>3. Awaiting = <<>>
    BY Zenon DEF Awaiting
  <2>4. ~CutShort
    BY DEF CutShort
  <2>5. (p \o <<>>) \o ToSee(work) = AllSeen
    BY <1>6, <2>2, <2>3, <2>4, Zenon DEF Remains
  <2> QED
    BY <1>16, <2>5, ConcatEmptySeq, Zenon
<1>25. AllSeen' = AllSeen /\ (IsCard' <=> IsCard)
  BY <1>4, Zenon DEF AllSeen, IsCard
<1>26. AllSeen = (p \o w) \o (r \o (s \o (b \o t)))
  <2>1. w \in Seq(Atoms) /\ r \in Seq(Atoms) /\ b \in Seq(Atoms)
    BY <1>15, Zenon
  <2> HIDE VisitedElement
  <2>2. Join(p, Join(Join(Join(Join(w, r), s), b), t)) = Join(Join(p, w), Join(r, Join(s, Join(b, t))))
    BY <1>16, <2>1, Regroup, SMTT(60)
  <2> QED
    BY <1>15, <1>24, <2>2, Zenon DEF Join
<1>27. PICK rest : rest = IF cut = <<>> THEN b \o t ELSE r \o (b \o t)
  OBVIOUS
<1>28. b \o t \in Seq(Atoms) /\ r \o (b \o t) \in Seq(Atoms) /\ p \o w \in Seq(Atoms) /\ u \o a \in Seq(Atoms)
  <2>1. b \o t \in Seq(Atoms) /\ p \o w \in Seq(Atoms) /\ u \o a \in Seq(Atoms)
    BY <1>15, <1>16, ConcatProperties, Zenon
  <2> QED
    BY <1>15, <2>1, ConcatProperties, Zenon
<1>29. (Of(parts') \o Awaiting') \o rest = AllSeen'
  <2>1. CASE cut = <<>>
    <3>1. r = <<>>
      BY <1>8, <2>1, WrittenNothing
    <3>2. r \o (s \o (b \o t)) = s \o (b \o t)
      <4>1. s \o (b \o t) \in Seq(Atoms)
        BY <1>16, <1>28, ConcatProperties, Zenon
      <4> QED
        BY <3>1, <4>1, ConcatEmptySeq, Zenon
    <3>3. ((p \o w) \o u) \o a = (p \o w) \o s
      <4>1. Join(p, w) \in Seq(Atoms)
        BY <1>28, Zenon DEF Join
      <4>2. Join(Join(Join(p, w), u), a) = Join(Join(p, w), Join(u, a))
        BY <1>16, <4>1, JoinAssociates
      <4> QED
        BY <1>17, <4>2, Zenon DEF Join
    <3>4. ((p \o w) \o s) \o (b \o t) = (p \o w) \o (s \o (b \o t))
      <4>1. Join(p, w) \in Seq(Atoms) /\ Join(b, t) \in Seq(Atoms)
        BY <1>28, Zenon DEF Join
      <4>2. Join(Join(Join(p, w), s), Join(b, t)) = Join(Join(p, w), Join(s, Join(b, t)))
        BY <1>16, <4>1, JoinAssociates
      <4> QED
        BY <4>2, Zenon DEF Join
    <3> QED
      BY <1>18, <1>19, <1>25, <1>26, <1>27, <2>1, <3>2, <3>3, <3>4, Zenon
  <2>2. CASE cut # <<>>
    <3>1. ~IsResource(el)
      BY <1>3, <2>2, AtomsOfElement, Zenon DEF CutOff
    <3>2. s = <<>> /\ ~Fetches(el)
      BY <1>9, <3>1, Zenon DEF Shown, Fetches
    <3>3. u = <<>> /\ a = <<>>
      BY <1>9, <1>12, <1>13, <3>2, ResourceShows, Zenon
    <3>4. s \o (b \o t) = b \o t
      BY <1>28, <3>2, ConcatEmptySeq, Zenon
    <3>5. ((p \o w) \o u) \o a = p \o w
      BY <1>28, <3>3, ConcatEmptySeq, Zenon
    <3> QED
      BY <1>18, <1>19, <1>25, <1>26, <1>27, <2>2, <3>4, <3>5, Zenon
  <2> QED
    BY <2>1, <2>2
<1>30. CutShort' \/ rest = ToSee(work')
  <2>1. CASE cut = <<>>
    BY <1>20, <1>27, <2>1, Zenon
  <2>2. CASE cut # <<>>
    <3>1. nodes - 1 - Len(Cells(el)) = 0 /\ el.fields # <<>>
      BY <1>3, <2>2, Zenon DEF CutOff
    <3>2. IsCard
      BY <1>1, <3>1, Zenon DEF Plain
    <3>3. nodes' = 0
      BY <1>4, <3>1, <3>2, Zenon
    <3> QED
      BY <1>25, <3>2, <3>3, Zenon DEF CutShort
  <2> QED
    BY <2>1, <2>2
<1>31. rest \in Seq(Atoms) /\ Remains(rest)'
  BY <1>27, <1>28, <1>29, <1>30, Zenon DEF Remains
<1>32. WalkInv'
  BY <1>21, <1>22, <1>23, <1>31, Zenon DEF WalkInv
<1> QED
  BY <1>5, <1>32

\* What is skipped is too deep to be seen, or the card is cut short.
LEMMA SkipWalks ==
    ASSUME ContentInv, Readable, Skip
    PROVE  WalkInv'
<1>1. WalkInv /\ nodes \in Nat
  BY Zenon DEF ContentInv
<1>2. /\ WalkTypes /\ awaited = 0 /\ work # <<>> /\ given = <<>> /\ IsCard
      /\ Head(work).depth > MaxDepth \/ nodes = 0
  BY <1>1, Zenon DEF WalkInv, Skip
<1>3. /\ work' = Tail(work) /\ body' = body /\ nodes' = nodes /\ parts' = parts
      /\ given' = given /\ awaited' = awaited /\ transfers' = transfers
  BY Zenon DEF Skip
<1>4. /\ work \in Seq(Works) /\ Head(work) \in Works /\ Tail(work) \in Seq(Works)
      /\ ToSee(work) = Seen[Head(work).depth][Head(work).el] \o ToSee(Tail(work))
  BY <1>2, ToSeeHead DEF WalkTypes
<1>5. WalkTypes'
  BY <1>2, <1>3, <1>4, Zenon DEF WalkTypes
<1>6. PICK rest \in Seq(Atoms) : Remains(rest)
  BY <1>1, Zenon DEF WalkInv
<1>7. AllSeen' = AllSeen /\ Awaiting' = Awaiting /\ (IsCard' <=> IsCard) /\ (CutShort' <=> CutShort)
  BY <1>3, Zenon DEF AllSeen, Awaiting, IsCard, CutShort
<1>8. CutShort \/ rest = ToSee(Tail(work))
  <2>1. CASE nodes = 0
    BY <1>2, <2>1, Zenon DEF CutShort
  <2>2. CASE nodes # 0
    <3>1. rest = ToSee(work)
      BY <1>6, <2>2, Zenon DEF Remains, CutShort
    <3>2. Head(work).depth = MaxDepth + 1 /\ Head(work).el \in Elements
      <4>1. Head(work).depth \in 0..MaxDepth + 1 /\ Head(work).el \in Elements /\ Head(work).depth > MaxDepth
        BY <1>2, <1>4, <2>2 DEF Works
      <4> QED
        BY <4>1, ContentAssumption
    <3>3. Seen[Head(work).depth][Head(work).el] = <<>>
      BY <3>2, SeenUnfolds
    <3>4. ToSee(Tail(work)) \in Seq(Atoms)
      BY <1>4, ToSeeIsSeq
    <3>5. ToSee(work) = ToSee(Tail(work))
      BY <1>4, <3>3, <3>4, ConcatEmptySeq, Zenon
    <3> QED
      BY <3>1, <3>5
  <2> QED
    BY <2>1, <2>2
<1>9. Remains(rest)'
  BY <1>3, <1>6, <1>7, <1>8, Zenon DEF Remains
<1> QED
  BY <1>2, <1>3, <1>5, <1>6, <1>7, <1>9, Zenon DEF WalkInv

-----------------------------------------------------------------------------
(* The other steps, and the theorem                                         *)

\* The wait is over: what was waited for is shown.
LEMMA WaitWalks ==
    ASSUME NEW kind \in {"path", "ref"}, NEW p, p = [kind |-> kind, of |-> transfers[awaited].key],
           ContentInv, Readable, awaited # 0, parts' = Append(parts, p), awaited' = 0,
           body' = body, work' = work, nodes' = nodes, given' = given, transfers' = transfers
    PROVE  WalkInv'
<1>1. WalkInv
  BY Zenon DEF ContentInv
<1>2. WalkTypes /\ given = <<>>
  BY <1>1, Zenon DEF WalkInv
<1>3. parts \in Seq(Parts) /\ transfers \in Seq(Transfers) /\ work \in Seq(Works) /\ Of(parts) \in Seq(Atoms)
  BY <1>2, OfIsSeq, Zenon DEF WalkTypes
<1>4. PICK k : k = transfers[awaited].key
  OBVIOUS
<1>5. k \in Atoms
  <2>1. awaited \in 1..Len(transfers)
    BY <1>2 DEF WalkTypes
  <2>2. transfers[awaited] \in Transfers
    BY <1>3, <2>1, ElementOfSeq, Zenon
  <2> QED
    BY <1>4, <2>2 DEF Transfers
<1>6. p \in Parts /\ p.of = k
  BY <1>4, <1>5 DEF Parts
<1>7. parts' \in Seq(Parts) /\ Of(parts') = Of(parts) \o <<k>>
  BY <1>3, <1>6, OfAppend, Zenon
<1>8. Awaiting = <<k>> /\ Awaiting' = <<>>
  BY <1>4, Zenon DEF Awaiting
<1>9. Of(parts') \o Awaiting' = Of(parts) \o Awaiting
  <2>1. Of(parts') \in Seq(Atoms)
    BY <1>7, OfIsSeq, Zenon
  <2> QED
    BY <1>7, <1>8, <2>1, ConcatEmptySeq, Zenon
<1>10. PICK rest \in Seq(Atoms) : Remains(rest)
  BY <1>1, Zenon DEF WalkInv
<1>11. AllSeen' = AllSeen /\ (IsCard' <=> IsCard) /\ (CutShort' <=> CutShort)
  BY Zenon DEF AllSeen, IsCard, CutShort
<1>12. Remains(rest)'
  BY <1>9, <1>10, <1>11, Zenon DEF Remains
<1>13. WalkTypes'
  <2>1. 0 \in 0..Len(transfers)
    BY <1>3
  <2> QED
    BY <1>3, <1>7, <2>1, Zenon DEF WalkTypes
<1> QED
  BY <1>1, <1>2, <1>10, <1>11, <1>12, <1>13, Zenon DEF WalkInv

\* A message arrives: nothing of it is shown, all of it is to be walked.
LEMMA ArriveWalks ==
    ASSUME ContentInv, NEW msg \in Bodies, Arrive(msg), Readable'
    PROVE  WalkInv'
<1>1. body = <<>> /\ parts = <<>> /\ given = <<>> /\ awaited = 0 /\ transfers = <<>>
  BY Zenon DEF ContentInv, Arrive
<1>2. body' = msg /\ msg.type \notin {"unreadable", "other"}
  BY Zenon DEF Arrive, Readable
<1>3. /\ work' = Items(msg.blocks, 0) /\ parts' = <<>> /\ given' = <<>> /\ awaited' = 0 /\ transfers' = <<>>
      /\ nodes' = nodes
  BY <1>1, <1>2, Zenon DEF Arrive
<1>4. PICK els : els = msg.blocks
  OBVIOUS
<1>5. els \in Seq(Elements)
  BY <1>4, ContentAssumption, Zenon
<1>6. 0 \in 0..MaxDepth + 1
  BY ContentAssumption
<1>7. /\ work' \in Seq(Works) /\ ToSee(work') = FlattenSeq(Mapped(Seen[0], els)) /\ Len(work') = Len(els)
      /\ \A i \in 1..Len(els) : work'[i] = [el |-> els[i], depth |-> 0]
  <2>1. /\ Items(els, 0) \in Seq(Works) /\ ToSee(Items(els, 0)) = FlattenSeq(Mapped(Seen[0], els))
        /\ Len(Items(els, 0)) = Len(els)
        /\ \A i \in 1..Len(els) : Items(els, 0)[i] = [el |-> els[i], depth |-> 0]
    BY <1>5, <1>6, ToSeeItems
  <2> QED
    BY <1>3, <1>4, <2>1, Zenon
<1>8. AllSeen' = ToSee(work')
  BY <1>2, <1>4, <1>7, Zenon DEF AllSeen, Mapped
<1>9. ToSee(work') \in Seq(Atoms) /\ Awaiting' = <<>>
  BY <1>3, <1>7, ToSeeIsSeq, Zenon DEF Awaiting
<1>10. (Of(parts') \o Awaiting') \o ToSee(work') = AllSeen'
  <2>1. Of(parts') = <<>>
    BY <1>3, OfNothing, Zenon
  <2>2. <<>> \o <<>> = <<>> /\ <<>> \o ToSee(work') = ToSee(work')
    BY <1>9, OfNothing, ConcatEmptySeq, Zenon
  <2> QED
    BY <1>8, <1>9, <2>1, <2>2, Zenon
<1>11. PICK rest : rest = ToSee(work')
  OBVIOUS
<1>12. rest \in Seq(Atoms) /\ Remains(rest)'
  BY <1>9, <1>10, <1>11, Zenon DEF Remains
<1>13. WalkTypes'
  <2>1. <<>> \in Seq(Transfers) /\ 0 \in 0..Len(<<>>)
    OBVIOUS
  <2> QED
    BY <1>3, <1>7, <2>1, OfNothing, Zenon DEF WalkTypes
<1>14. ~IsCard' => \A i \in 1..Len(work') : Plain(work'[i])
  <2> SUFFICES ASSUME ~IsCard', NEW i \in 1..Len(work') PROVE Plain(work'[i])
    OBVIOUS
  <2>1. msg.type # "interactive"
    BY <1>2, Zenon DEF IsCard
  <2>2. els[i] \in ToSet(els)
    BY <1>5, <1>7 DEF ToSet
  <2>3. els[i].fields = <<>> /\ Inside(els[i]) = <<>>
    BY <1>4, <2>1, <2>2, ContentAssumption, Zenon
  <2>4. work'[i].el = els[i] /\ work'[i].depth = 0
    <3>1. PICK e : e = els[i]
      OBVIOUS
    <3>2. PICK w : w = [el |-> e, depth |-> 0]
      OBVIOUS
    <3>3. work'[i] = w
      BY <1>7, <3>1, <3>2, Zenon
    <3> QED
      BY <3>1, <3>2, <3>3
  <2> QED
    BY <2>3, <2>4, Zenon DEF Plain
<1> QED
  BY <1>3, <1>12, <1>13, <1>14, Zenon DEF WalkInv

\* A transfer goes on; its key stays.
LEMMA TurnWalks ==
    ASSUME ContentInv, Readable, NEW i \in DOMAIN transfers,
           NEW then \in {"asked", "writing", "done", "failed"}, Turns(i, then),
           UNCHANGED <<body, work, nodes, images, parts, given, awaited>>
    PROVE  WalkInv'
<1>1. WalkInv
  BY Zenon DEF ContentInv
<1>2. WalkTypes
  BY <1>1, Zenon DEF WalkInv
<1>3. transfers \in Seq(Transfers) /\ i \in 1..Len(transfers)
  BY <1>2 DEF WalkTypes
<1>4. PICK tr : tr = [transfers[i] EXCEPT !.phase = then]
  OBVIOUS
<1>5. transfers' = [transfers EXCEPT ![i] = tr]
  BY <1>4 DEF Turns
<1>6. transfers[i] \in Transfers
  BY <1>3, ElementOfSeq, Zenon
<1>7. tr \in Transfers /\ tr.key = transfers[i].key
  BY <1>4, <1>6 DEF Transfers
<1>8. /\ transfers' \in Seq(Transfers) /\ Len(transfers') = Len(transfers)
      /\ \A j \in 1..Len(transfers) : transfers'[j] = IF j = i THEN tr ELSE transfers[j]
  BY <1>3, <1>5, <1>7, ExceptSeq
<1>9. WalkTypes'
  BY <1>2, <1>8, Zenon DEF WalkTypes
<1>10. Awaiting' = Awaiting
  <2>1. CASE awaited = 0
    BY <2>1, Zenon DEF Awaiting
  <2>2. CASE awaited # 0
    <3>1. awaited \in 1..Len(transfers)
      BY <1>2, <2>2 DEF WalkTypes
    <3>2. transfers'[awaited].key = transfers[awaited].key
      BY <1>7, <1>8, <3>1, Zenon
    <3> QED
      BY <3>2, Zenon DEF Awaiting
  <2> QED
    BY <2>1, <2>2
<1>11. PICK rest \in Seq(Atoms) : Remains(rest)
  BY <1>1, Zenon DEF WalkInv
<1>12. AllSeen' = AllSeen /\ (IsCard' <=> IsCard) /\ (CutShort' <=> CutShort)
  BY Zenon DEF AllSeen, IsCard, CutShort
<1>13. Remains(rest)'
  BY <1>10, <1>11, <1>12, Zenon DEF Remains
<1> QED
  BY <1>1, <1>9, <1>11, <1>12, <1>13, Zenon DEF WalkInv

LEMMA ContentInvInit == ContentInit => ContentInv
<1> SUFFICES ASSUME ContentInit PROVE ContentInv
  OBVIOUS
<1>1. MaxNodes \in Nat
  BY ContentAssumption
<1> QED
  BY <1>1, Zenon DEF ContentInit, ContentInv, Readable

\* Every step keeps the walk balanced.
LEMMA ContentInvStep == ContentInv /\ [ContentNext]_contentVars => ContentInv'
<1> SUFFICES ASSUME ContentInv, [ContentNext]_contentVars PROVE ContentInv'
  OBVIOUS
<1>1. nodes \in Nat /\ (body # <<>> => body \in Bodies) /\ (~Readable => work = <<>>)
  BY Zenon DEF ContentInv
<1>2. ASSUME NEW msg \in Bodies, Arrive(msg) PROVE ContentInv'
  <2>1. body' = msg /\ msg # <<>> /\ nodes' = nodes
    BY <1>2, ContentAssumption, Zenon DEF Arrive
  <2>2. Readable' => WalkInv'
    BY <1>2, ArriveWalks
  <2>3. ~Readable' => work' = <<>>
    <3>1. ~Readable' => msg.type \in {"unreadable", "other"}
      BY <2>1, Zenon DEF Readable
    <3>2. work = <<>>
      BY <1>2, Zenon DEF ContentInv, Arrive
    <3> QED
      BY <1>2, <3>1, <3>2, Zenon DEF Arrive
  <2> QED
    BY <1>1, <1>2, <2>1, <2>2, <2>3, Zenon DEF ContentInv
<1>3. ASSUME body' = body, nodes' \in Nat, Readable => WalkInv', body # <<>>, ~Readable => work' = <<>>
      PROVE  ContentInv'
  BY <1>1, <1>3, Zenon DEF ContentInv, Readable
<1>4. CASE Skip
  <2>1. body' = body /\ nodes' = nodes /\ body # <<>> /\ Readable
    BY <1>4, Zenon DEF Skip, ContentInv
  <2>2. WalkInv'
    BY <1>4, <2>1, SkipWalks
  <2> QED
    BY <1>1, <1>3, <2>1, <2>2
<1>5. CASE Visit
  <2>1. body' = body /\ body # <<>> /\ Readable
    BY <1>5, Zenon DEF Visit, ContentInv
  <2>2. WalkInv' /\ nodes' \in Nat
    BY <1>5, <2>1, VisitWalks, Zenon
  <2> QED
    BY <1>1, <1>3, <2>1, <2>2
<1>6. CASE Resume
  <2>1. body' = body /\ nodes' = nodes /\ body # <<>> /\ work' = work
    BY <1>6, Zenon DEF Resume, ContentInv
  <2>2. Readable => WalkInv'
    <3> SUFFICES ASSUME Readable PROVE WalkInv'
      OBVIOUS
    <3>1. PICK k : k = transfers[awaited].key
      OBVIOUS
    <3>2. PICK p : p = IF transfers[awaited].phase = "done" THEN [kind |-> "path", of |-> k] ELSE [kind |-> "ref", of |-> k]
      OBVIOUS
    <3>3. PICK kind \in {"path", "ref"} : p = [kind |-> kind, of |-> k]
      BY <3>2
    <3>4. /\ awaited # 0 /\ parts' = Append(parts, p) /\ awaited' = 0
          /\ body' = body /\ work' = work /\ nodes' = nodes /\ given' = given /\ transfers' = transfers
      BY <1>6, <3>1, <3>2, Zenon DEF Resume, Path, Ref
    <3> QED
      BY <3>1, <3>3, <3>4, WaitWalks, Zenon
  <2> QED
    BY <1>1, <1>3, <2>1, <2>2
<1>7. CASE TimeOut
  <2>1. body' = body /\ nodes' = nodes /\ body # <<>> /\ work' = work
    BY <1>7, Zenon DEF TimeOut, ContentInv
  <2>2. Readable => WalkInv'
    <3> SUFFICES ASSUME Readable PROVE WalkInv'
      OBVIOUS
    <3>1. PICK k : k = transfers[awaited].key
      OBVIOUS
    <3>2. PICK p : p = [kind |-> "ref", of |-> k]
      OBVIOUS
    <3>3. PICK kind \in {"path", "ref"} : p = [kind |-> kind, of |-> k]
      BY <3>2
    <3>4. /\ awaited # 0 /\ parts' = Append(parts, p) /\ awaited' = 0
          /\ body' = body /\ work' = work /\ nodes' = nodes /\ given' = given /\ transfers' = transfers
      BY <1>7, <3>1, <3>2, Zenon DEF TimeOut, Ref
    <3> QED
      BY <3>1, <3>3, <3>4, WaitWalks, Zenon
  <2> QED
    BY <1>1, <1>3, <2>1, <2>2
<1>8. CASE HandOver
  <2>1. /\ body # <<>> /\ work = <<>> /\ awaited = 0 /\ body' = body /\ nodes' = nodes
        /\ work' = work /\ parts' = parts /\ awaited' = awaited /\ transfers' = transfers
    BY <1>8, Zenon DEF HandOver
  <2>2. Readable => WalkInv'
    <3> SUFFICES ASSUME Readable PROVE WalkInv'
      OBVIOUS
    <3>1. WalkInv
      BY Zenon DEF ContentInv
    <3>2. PICK rest \in Seq(Atoms) : Remains(rest)
      BY <3>1, Zenon DEF WalkInv
    <3>3. /\ AllSeen' = AllSeen /\ Awaiting' = Awaiting /\ (IsCard' <=> IsCard) /\ (CutShort' <=> CutShort)
          /\ (WalkTypes' <=> WalkTypes)
      BY <2>1, Zenon DEF AllSeen, Awaiting, IsCard, CutShort, WalkTypes
    <3>4. Remains(rest)'
      BY <2>1, <3>2, <3>3, Zenon DEF Remains
    <3> QED
      BY <2>1, <3>1, <3>2, <3>3, <3>4, Zenon DEF WalkInv
  <2> QED
    BY <1>1, <1>3, <2>1, <2>2
<1>9. ASSUME NEW i \in DOMAIN transfers, NEW then \in {"writing", "done", "failed"}, Turns(i, then),
             UNCHANGED <<body, work, nodes, images, parts, given, awaited>>
      PROVE  ContentInv'
  <2>1. body # <<>>
    <3>1. CASE transfers = <<>>
      BY <1>9, <3>1
    <3>2. CASE transfers # <<>>
      BY <3>2, Zenon DEF ContentInv
    <3> QED
      BY <3>1, <3>2
  <2>2. Readable => WalkInv'
    <3>1. then \in {"asked", "writing", "done", "failed"}
      BY <1>9
    <3> QED
      BY <1>9, <3>1, TurnWalks, Zenon
  <2> QED
    BY <1>1, <1>3, <1>9, <2>1, <2>2, Zenon
<1>10. ASSUME NEW i \in DOMAIN transfers, FileOpened(i) \/ FileWritten(i) \/ TransferFails(i)
       PROVE  ContentInv'
  <2>1. PICK then \in {"writing", "done", "failed"} : Turns(i, then)
    BY <1>10, Zenon DEF FileOpened, FileWritten, TransferFails
  <2>2. UNCHANGED <<body, work, nodes, images, parts, given, awaited>>
    BY <1>10, Zenon DEF FileOpened, FileWritten, TransferFails
  <2> QED
    BY <1>9, <2>1, <2>2, Zenon
<1>11. CASE UNCHANGED contentVars
  <2>1. /\ body' = body /\ work' = work /\ nodes' = nodes /\ parts' = parts /\ given' = given
        /\ awaited' = awaited /\ transfers' = transfers
    BY <1>11, Zenon DEF contentVars
  <2>2. (Readable' <=> Readable) /\ (WalkTypes' <=> WalkTypes) /\ (IsCard' <=> IsCard)
    BY <2>1, Zenon DEF Readable, WalkTypes, IsCard
  <2>3. \A rest : Remains(rest)' <=> Remains(rest)
    BY <2>1, Zenon DEF Remains, AllSeen, Awaiting, IsCard, CutShort
  <2>4. WalkInv' <=> WalkInv
    BY <2>1, <2>2, <2>3, Zenon DEF WalkInv
  <2> QED
    BY <2>1, <2>2, <2>4, Zenon DEF ContentInv
<1> QED
  BY <1>2, <1>4, <1>5, <1>6, <1>7, <1>8, <1>10, <1>11, Zenon DEF ContentNext

\* What is shown begins the message, and is all of it once it is handed on.
LEMMA RenderedFollows == ContentInv => RenderedAsWritten
<1> SUFFICES ASSUME ContentInv, Readable
             PROVE  /\ IsPrefix(Of(parts), AllSeen)
                    /\ given # <<>> /\ nodes > 0 => Of(parts) = AllSeen
  BY Zenon DEF RenderedAsWritten, Readable, Of, AllSeen
<1>1. WalkInv /\ nodes \in Nat
  BY Zenon DEF ContentInv
<1>2. WalkTypes
  BY <1>1, Zenon DEF WalkInv
<1>3. PICK rest \in Seq(Atoms) : Remains(rest)
  BY <1>1, Zenon DEF WalkInv
<1>4. PICK p : p = Of(parts)
  OBVIOUS
<1>5. PICK a : a = Awaiting
  OBVIOUS
<1>6. p \in Seq(Atoms) /\ a \in Seq(Atoms)
  BY <1>2, <1>4, <1>5, OfIsSeq, AwaitingIsSeq, Zenon DEF WalkTypes
<1>7. (p \o a) \o rest = AllSeen
  BY <1>3, <1>4, <1>5, Zenon DEF Remains
<1>8. IsPrefix(p, AllSeen)
  <2>1. PICK r : r = a \o rest
    OBVIOUS
  <2>2. r \in Seq(Atoms)
    BY <1>6, <2>1, ConcatProperties
  <2>3. (p \o a) \o rest = p \o r
    <3>1. Join(Join(p, a), rest) = Join(p, Join(a, rest))
      BY <1>6, JoinAssociates
    <3> QED
      BY <2>1, <3>1, Zenon DEF Join
  <2>4. PICK u : u = p \o r
    OBVIOUS
  <2>5. /\ u \in Seq(Atoms) /\ Len(u) = Len(p) + Len(r) /\ Len(p) \in Nat /\ Len(r) \in Nat
        /\ \A i \in 1..Len(p) : u[i] = p[i]
    BY <1>6, <2>2, <2>4
  <2>6. SubSeq(p, 1, Len(p)) = SubSeq(u, 1, Len(p))
    BY <1>6, <2>5
  <2>7. Len(p) <= Len(u)
    BY <2>5
  <2>8. IsPrefix(p, u)
    BY <2>6, <2>7, Zenon DEF IsPrefix
  <2> QED
    BY <1>7, <2>3, <2>4, <2>8
<1>9. ASSUME given # <<>>, nodes > 0
      PROVE  p = AllSeen
  <2>1. work = <<>> /\ awaited = 0
    BY <1>1, <1>9, Zenon DEF WalkInv
  <2>2. a = <<>>
    BY <1>5, <2>1, Zenon DEF Awaiting
  <2>3. rest = <<>>
    <3>1. ~CutShort
      BY <1>9 DEF CutShort
    <3> QED
      BY <1>3, <2>1, <3>1, ToSeeNothing, Zenon DEF Remains
  <2> QED
    BY <1>6, <1>7, <2>2, <2>3, ConcatEmptySeq, Zenon
<1> QED
  BY <1>4, <1>8, <1>9

\* What is rendered is what the message has, in its order, whatever becomes of the
\* downloads it waits for (inbound-content.ts, collectCardText, renderPost).
THEOREM AllIsRendered == ContentSpec => []RenderedAsWritten
<1>1. ContentInit => ContentInv
  BY ContentInvInit
<1>2. ContentInv /\ [ContentNext]_contentVars => ContentInv'
  BY ContentInvStep
<1>3. ContentInv => RenderedAsWritten
  BY RenderedFollows
<1> QED
  BY <1>1, <1>2, <1>3, PTL DEF ContentSpec

-----------------------------------------------------------------------------
(* What a message costs                                                     *)

\* What is left to download and what was asked for make up the budget; a message that is
\* neither post nor card has one element.
CountInv ==
    /\ images \in Nat
    /\ body = <<>> => images = MaxDownloads
    /\ ~Readable => transfers = <<>>
    /\ Readable /\ IsRich(body) => /\ images + Len(transfers) = MaxDownloads
                                   /\ \A i \in 1..Len(work) : ~ByItself(work[i].el)
    /\ Readable /\ ~IsRich(body) => Len(work) + Len(transfers) <= 1

\* An element asks for one file at most, and an inline image takes it off the budget.
LEMMA VisitCounts ==
    ASSUME ContentInv, CountInv, Readable, Visit
    PROVE  CountInv'
<1>1. /\ WalkTypes /\ work # <<>> /\ images \in Nat /\ (~IsCard => \A i \in 1..Len(work) : Plain(work[i]))
  BY Zenon DEF ContentInv, WalkInv, CountInv, Visit
<1>2. PICK tl : tl = Tail(work)
  OBVIOUS
<1>3. /\ tl \in Seq(Works) /\ Len(tl) = Len(work) - 1 /\ Len(work) \in Nat \ {0} /\ Head(work) = work[1]
      /\ \A i \in 1..Len(tl) : tl[i] = work[i + 1]
  <2>1. work \in Seq(Works) /\ work # <<>>
    BY <1>1, Zenon DEF WalkTypes
  <2> QED
    BY <1>2, <2>1
<1>4. work[1] \in Works
  <2>1. work \in Seq(Works) /\ 1 \in 1..Len(work)
    BY <1>1, <1>3 DEF WalkTypes
  <2> QED
    BY <2>1, ElementOfSeq, Zenon
<1>5. PICK el : el = work[1].el
  OBVIOUS
<1>6. PICK d : d = work[1].depth
  OBVIOUS
<1>7. el \in Elements /\ d \in 0..MaxDepth + 1
  BY <1>4, <1>5, <1>6 DEF Works
<1>8. PICK its : its = Items(Inside(el), d + 1)
  OBVIOUS
<1>9. /\ work' = its \o tl /\ images' = LeftAfter(el) /\ body' = body
      /\ IF Fetches(el) THEN transfers' = Append(transfers, [key |-> el.key, phase |-> "asked"])
         ELSE transfers' = transfers
  BY <1>2, <1>3, <1>5, <1>6, <1>8, Zenon DEF Visit
<1>10. transfers \in Seq(Transfers) /\ Len(transfers) \in Nat
  BY <1>1 DEF WalkTypes
<1>11. Len(transfers') = IF Fetches(el) THEN Len(transfers) + 1 ELSE Len(transfers)
  <2>1. PICK tr : tr = [key |-> el.key, phase |-> "asked"]
    OBVIOUS
  <2>2. Len(Append(transfers, tr)) = Len(transfers) + 1
    BY <1>10
  <2> QED
    BY <1>9, <2>1, <2>2, Zenon
<1>12. /\ images' = IF el.tag = "img" /\ Fetches(el) THEN images - 1 ELSE images
       /\ el.tag = "img" /\ Fetches(el) => images > 0
       /\ Fetches(el) => el.tag = "img" \/ ByItself(el)
  BY <1>9 DEF LeftAfter, Fetches, IsResource, ByItself
<1>13. PICK n \in Nat : n = Len(Inside(el)) /\ DOMAIN its = 1..n /\ \A i \in 1..n : its[i].el = Inside(el)[i]
  <2>1. Inside(el) \in Seq(Elements)
    BY <1>7, ContentAssumption, Zenon
  <2>2. PICK els : els = Inside(el)
    OBVIOUS
  <2>3. its = [i \in DOMAIN els |-> [el |-> els[i], depth |-> d + 1]]
    BY <1>8, <2>2, Zenon DEF Items
  <2> QED
    BY <2>1, <2>2, <2>3
<1>14. Readable' /\ (IsRich(body') <=> IsRich(body))
  BY <1>9, Zenon DEF Readable
<1>15. its = [i \in 1..n |-> its[i]]
  BY <1>8, <1>13, Zenon DEF Items
<1>16. /\ Len(its) = n /\ Len(work') = n + Len(tl) /\ Len(tl) \in Nat
       /\ \A i \in 1..Len(work') : work'[i] = IF i <= n THEN its[i] ELSE tl[i - n]
  BY <1>3, <1>9, <1>13, <1>15
<1>17. CASE IsRich(body)
  <2>1. images + Len(transfers) = MaxDownloads /\ \A i \in 1..Len(work) : ~ByItself(work[i].el)
    BY <1>17, Zenon DEF CountInv
  <2>2. ~ByItself(el)
    <3>1. 1 \in 1..Len(work)
      BY <1>3
    <3> QED
      BY <1>5, <2>1, <3>1, Zenon
  <2>3. images' \in Nat /\ images' + Len(transfers') = MaxDownloads
    <3>1. CASE Fetches(el)
      <4>1. images > 0 /\ images' = images - 1 /\ Len(transfers') = Len(transfers) + 1
        BY <1>11, <1>12, <2>2, <3>1, Zenon
      <4> QED
        BY <1>1, <1>10, <2>1, <4>1
    <3>2. CASE ~Fetches(el)
      <4>1. images' = images /\ Len(transfers') = Len(transfers)
        BY <1>11, <1>12, <3>2, Zenon
      <4> QED
        BY <1>1, <2>1, <4>1, Zenon
    <3> QED
      BY <3>1, <3>2
  <2>4. ASSUME NEW i \in 1..Len(work') PROVE ~ByItself(work'[i].el)
    <3>1. CASE i <= n
      <4>1. i \in 1..n
        BY <1>3, <1>16, <3>1
      <4>2. Inside(el)[i] \in ToSet(Inside(el))
        <5>1. Inside(el) \in Seq(Elements)
          BY <1>7, ContentAssumption, Zenon
        <5>2. DOMAIN Inside(el) = 1..n
          BY <1>13, <5>1
        <5> QED
          BY <4>1, <5>2 DEF ToSet
      <4>3. ~ByItself(Inside(el)[i])
        BY <1>7, <4>2, ContentAssumption, Zenon
      <4>4. work'[i].el = Inside(el)[i]
        BY <1>13, <1>16, <3>1, <4>1, Zenon
      <4> QED
        BY <4>3, <4>4
    <3>2. CASE ~(i <= n)
      <4>1. i - n \in 1..Len(tl) /\ (i - n) + 1 \in 1..Len(work)
        BY <1>3, <1>13, <1>16, <3>2
      <4>2. work'[i] = work[(i - n) + 1]
        BY <1>3, <1>16, <3>2, <4>1, Zenon
      <4> QED
        BY <2>1, <4>1, <4>2
    <3> QED
      BY <3>1, <3>2
  <2>5. body' # <<>>
    BY <1>14, Zenon DEF Readable
  <2> QED
    BY <1>14, <1>17, <2>3, <2>4, <2>5, Zenon DEF CountInv
<1>18. CASE ~IsRich(body)
  <2>1. Len(work) + Len(transfers) <= 1
    BY <1>18, Zenon DEF CountInv
  <2>2. n = 0
    <3>1. ~IsCard
      BY <1>18 DEF IsCard, IsRich
    <3>2. Plain(work[1])
      BY <1>1, <1>3, <3>1
    <3>3. Inside(el) = <<>>
      BY <1>5, <3>2, Zenon DEF Plain
    <3> QED
      BY <1>13, <3>3
  <2>3. Len(work') + Len(transfers') <= 1
    BY <1>3, <1>10, <1>11, <1>16, <2>1, <2>2
  <2>4. images' \in Nat /\ body' # <<>>
    BY <1>1, <1>12, <1>14 DEF Readable
  <2> QED
    BY <1>14, <1>18, <2>3, <2>4, Zenon DEF CountInv
<1> QED
  BY <1>17, <1>18

LEMMA CountInvInit == ContentInit => CountInv
<1> SUFFICES ASSUME ContentInit PROVE CountInv
  OBVIOUS
<1>1. MaxDownloads \in Nat
  BY ContentAssumption
<1> QED
  BY <1>1, Zenon DEF ContentInit, CountInv, Readable

LEMMA CountInvStep == ContentInv /\ CountInv /\ [ContentNext]_contentVars => CountInv'
<1> SUFFICES ASSUME ContentInv, CountInv, [ContentNext]_contentVars PROVE CountInv'
  OBVIOUS
<1>0. /\ body = <<>> => work = <<>> /\ transfers = <<>> /\ images = MaxDownloads
      /\ Readable => work \in Seq(Works) /\ transfers \in Seq(Transfers)
      /\ body # <<>> => body \in Bodies
  BY Zenon DEF ContentInv, CountInv, WalkInv, WalkTypes
\* A step that asks for nothing, and leaves the walk or takes from it.
<1>1. ASSUME body' = body, images' = images, Len(transfers') = Len(transfers), (transfers = <<>>) => (transfers' = <<>>),
             Readable => work' = work \/ (work # <<>> /\ work' = Tail(work))
      PROVE  CountInv'
  <2>1. CASE ~Readable
    BY <1>1, <2>1, Zenon DEF CountInv, Readable
  <2>2. CASE Readable
    <3>1. work \in Seq(Works) /\ Len(work) \in Nat /\ Len(transfers) \in Nat
      BY <1>0, <2>2
    <3>2. Len(work') <= Len(work) /\ \A i \in 1..Len(work') : \E j \in 1..Len(work) : work'[i] = work[j]
      <4>1. CASE work' = work
        BY <4>1, <3>1
      <4>2. CASE work # <<>> /\ work' = Tail(work)
        <5>1. Len(work') = Len(work) - 1 /\ \A i \in 1..Len(work') : work'[i] = work[i + 1] /\ i + 1 \in 1..Len(work)
          BY <3>1, <4>2
        <5> QED
          BY <3>1, <5>1
      <4> QED
        BY <1>1, <2>2, <4>1, <4>2
    <3>3. Len(work') \in Nat
      BY <1>1, <2>2, <3>1
    <3>4. CASE IsRich(body)
      BY <1>1, <2>2, <3>2, <3>4, Zenon DEF CountInv, Readable
    <3>5. CASE ~IsRich(body)
      <4>1. Len(work') + Len(transfers') <= 1
        <5>1. Len(work) + Len(transfers) <= 1
          BY <2>2, <3>5, Zenon DEF CountInv
        <5> QED
          BY <1>1, <3>1, <3>2, <3>3, <5>1
      <4> QED
        BY <1>1, <2>2, <3>5, <4>1, Zenon DEF CountInv, Readable
    <3> QED
      BY <3>4, <3>5
  <2> QED
    BY <2>1, <2>2
<1>2. ASSUME NEW msg \in Bodies, Arrive(msg) PROVE CountInv'
  <2>1. /\ body = <<>> /\ body' = msg /\ transfers' = transfers /\ images' = images
        /\ msg.type \notin {"unreadable", "other"} => work' = Items(msg.blocks, 0)
    BY <1>2, Zenon DEF Arrive
  <2>2. transfers' = <<>> /\ images' = MaxDownloads /\ MaxDownloads \in Nat
    BY <1>0, <2>1, ContentAssumption
  <2>3. PICK els : els = msg.blocks
    OBVIOUS
  <2>4. els \in Seq(Elements) /\ msg # <<>>
    BY <2>3, ContentAssumption, Zenon
  <2>5. PICK its : its = Items(els, 0)
    OBVIOUS
  <2>6. its = [i \in DOMAIN els |-> [el |-> els[i], depth |-> 0]]
    BY <2>5, Zenon DEF Items
  <2>7. Len(its) = Len(els) /\ \A i \in 1..Len(its) : its[i].el = els[i] /\ els[i] \in ToSet(els)
    BY <2>4, <2>6 DEF ToSet
  <2>8. Readable' => work' = its
    BY <2>1, <2>3, <2>5, Zenon DEF Readable
  <2>9. CASE IsRich(msg)
    <3>1. \A i \in 1..Len(its) : ~ByItself(its[i].el)
      BY <2>3, <2>7, <2>9, ContentAssumption, Zenon
    <3>2. images' + Len(transfers') = MaxDownloads
      BY <2>2
    <3> QED
      BY <2>1, <2>2, <2>4, <2>8, <2>9, <3>1, <3>2, Zenon DEF CountInv
  <2>10. CASE ~IsRich(msg)
    <3>1. Len(els) <= 1
      BY <2>3, <2>10, ContentAssumption, Zenon
    <3>2. Len(its) + Len(transfers') <= 1
      BY <2>2, <2>4, <2>7, <3>1
    <3> QED
      BY <2>1, <2>2, <2>4, <2>8, <2>10, <3>2, Zenon DEF CountInv
  <2> QED
    BY <2>9, <2>10
<1>3. CASE Skip
  BY <1>1, <1>3, Zenon DEF Skip
<1>4. CASE Visit
  <2>1. Readable
    BY <1>4, Zenon DEF Visit, ContentInv
  <2> QED
    BY <1>4, <2>1, VisitCounts
<1>5. CASE Resume \/ TimeOut \/ HandOver
  <2>1. body' = body /\ images' = images /\ transfers' = transfers /\ work' = work
    BY <1>5, Zenon DEF Resume, TimeOut, HandOver
  <2> QED
    BY <1>1, <2>1, Zenon
<1>6. ASSUME NEW i \in DOMAIN transfers, FileOpened(i) \/ FileWritten(i) \/ TransferFails(i)
      PROVE  CountInv'
  <2>1. PICK then : Turns(i, then)
    BY <1>6, Zenon DEF FileOpened, FileWritten, TransferFails
  <2>2. body' = body /\ work' = work /\ images' = images
    BY <1>6, Zenon DEF FileOpened, FileWritten, TransferFails
  <2>3. Readable
    <3>1. transfers # <<>>
      BY <1>6
    <3> QED
      BY <3>1, Zenon DEF CountInv
  <2>4. transfers \in Seq(Transfers)
    BY <1>0, <2>3
  <2>5. PICK tr : tr = [transfers[i] EXCEPT !.phase = then]
    OBVIOUS
  <2>6. transfers' = [transfers EXCEPT ![i] = tr]
    BY <2>1, <2>5 DEF Turns
  <2>7. PICK n \in Nat : n = Len(transfers) /\ DOMAIN transfers = 1..n
    BY <2>4
  <2>8. transfers' = [j \in 1..n |-> transfers'[j]]
    BY <2>6, <2>7
  <2>9. Len(transfers') = Len(transfers) /\ transfers # <<>>
    BY <1>6, <2>7, <2>8
  <2> QED
    BY <1>1, <2>2, <2>9, Zenon
<1>7. CASE UNCHANGED contentVars
  <2>1. body' = body /\ images' = images /\ transfers' = transfers /\ work' = work
    BY <1>7, Zenon DEF contentVars
  <2> QED
    BY <1>1, <2>1, Zenon
<1> QED
  BY <1>2, <1>3, <1>4, <1>5, <1>6, <1>7, Zenon DEF ContentNext

\* One message costs a bounded number of downloads, however many images it has, however they
\* are nested and however their downloads fail (ImageBudget, renderInlineImage).
THEOREM FewDownloads == ContentSpec => []DownloadsAreBounded
<1>1. ContentInv /\ CountInv => DownloadsAreBounded
  <2> SUFFICES ASSUME ContentInv, CountInv, body # <<>>
               PROVE  Len(transfers) <= IF IsRich(body) THEN MaxDownloads ELSE 1
    BY DEF DownloadsAreBounded
  <2>1. CASE ~Readable
    <3>1. Len(transfers) = 0
      BY <2>1 DEF CountInv
    <3> QED
      BY <3>1, ContentAssumption
  <2>2. CASE Readable
    <3>1. Len(work) \in Nat /\ Len(transfers) \in Nat /\ images \in Nat
      BY <2>2 DEF ContentInv, CountInv, WalkInv, WalkTypes
    <3>2. /\ IsRich(body) => images + Len(transfers) = MaxDownloads
          /\ ~IsRich(body) => Len(work) + Len(transfers) <= 1
      BY <2>2, Zenon DEF CountInv
    <3> QED
      BY <3>1, <3>2, ContentAssumption
  <2> QED
    BY <2>1, <2>2
<1> QED
  BY <1>1, ContentInvInit, ContentInvStep, CountInvInit, CountInvStep, PTL DEF ContentSpec

=============================================================================
