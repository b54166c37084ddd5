---------------------------- MODULE DaemonStartup ----------------------------
(***************************************************************************)
(* How one of several daemon processes becomes the standing daemon         *)
(* (startDaemon, daemon-lock.ts, startDaemonServer): a proper-lockfile     *)
(* lock, a probe of the socket once it is held, the bind of the socket with*)
(* its clean-up of a stale socket file, the legacy inbound pidfile, and the*)
(* Feishu connection last; the eviction of an older daemon; the orderly    *)
(* close and the crash, which leaves lock, socket file and pidfile behind. *)
(*                                                                         *)
(* The pidfile is acquired call by call (instance-lock.ts).  A process     *)
(* stalls when its event loop is kept from refreshing its lock or from     *)
(* answering a probe in time, or when the holder of the pidfile cannot be  *)
(* inspected.  A pid is not used twice.                                    *)
(***************************************************************************)
EXTENDS Naturals, FiniteSets

CONSTANTS
    Proc,       \* daemon processes, each with a pid of its own
    NoPid,
    Versions,   \* the plugin versions the processes may run, as functions on Proc
    MaxReclaimAttempts, \* MAX_RECLAIM_ATTEMPTS
    MaxStalls,  \* bound on stalls
    MaxCrashes  \* bound on crashes and failed opens

ASSUME DaemonAssumption ==
    /\ NoPid \notin Proc /\ Versions \subseteq [Proc -> Nat]
    /\ MaxReclaimAttempts \in Nat \ {0} /\ MaxStalls \in Nat /\ MaxCrashes \in Nat

\* The pidfile: the process that created it and the pid it reads as.
NoFile == [by |-> NoPid, text |-> NoPid]
Pidfile == [by : Proc, text : Proc \cup {NoPid}] \cup {NoFile}

VARIABLES
    version,    \* the plugin version of each process
    alive,      \* live processes
    pc,         \* the step a process takes next
    lock,       \* the process whose proper-lockfile lock directory exists
    path,       \* the process whose socket the socket path leads to
    listening,  \* processes listening on a socket, reachable by its path or not
    legacy,     \* the legacy inbound pidfile
    target,     \* the pid a process has read from it, which it may be evicting
    attempt,    \* reclaims of this acquire so far
    spent,      \* <<process, errand>>: the eviction of that acquire is over
    raced,      \* has one unlinked a live one's pidfile that it had not judged?
    stolen,     \* has one taken the lock of a live one after an eviction?
    stalls, crashes

resources  == <<lock, path, listening>>
pidVars    == <<legacy, target, attempt, spent, raced>>
daemonVars == <<version, alive, pc, resources, pidVars, stolen, stalls, crashes>>

-----------------------------------------------------------------------------

At(p, label) == p \in alive /\ pc[p] = label
GoTo(p, label) == pc' = [pc EXCEPT ![p] = label]

Stall == stalls < MaxStalls /\ stalls' = stalls + 1
Crashed == crashes < MaxCrashes /\ crashes' = crashes + 1

\* Would a daemon answer a probe of the socket path with a hello?
Serving == path \in listening

\* Processes with the Feishu connection open, or being opened.
Inbound == {p \in Proc : At(p, "opening") \/ At(p, "open")}

\* A process that exits loses its sockets; a socket file stays behind.
Exit(p) ==
    /\ alive' = alive \ {p}
    /\ listening' = listening \ {p}
    /\ GoTo(p, "gone")

\* Closing the socket server unlinks the path, whoever bound it last.
CloseServer(p) ==
    /\ listening' = listening \ {p}
    /\ path' = IF p \in listening THEN NoPid ELSE path

\* The release of a lock taken over by somebody else leaves it alone, or
\* removes it when the take-over has not been noticed yet.
ReleaseLock(p) ==
    lock' \in IF lock = p THEN {NoPid} ELSE {lock, NoPid}

\* The pidfile is read and, if it is p's, unlinked.  One step: between the two
\* calls only a process that takes the file of a live one for stale can act.
ReleaseLegacy(p) == legacy' = IF legacy.text = p THEN NoFile ELSE legacy

Launch(p) ==
    /\ pc[p] = "off"
    /\ alive' = alive \cup {p}
    /\ GoTo(p, "lock")
    /\ UNCHANGED <<version, resources, pidVars, stolen, stalls, crashes>>

-----------------------------------------------------------------------------
(* acquireDaemonLock                                                        *)

\* A process acquires the pidfile to evict an older daemon by way of it, or,
\* once it listens, to hold it.
Errand(p) == IF p \in listening THEN "inbound" ELSE "upgrade"

\* Has the startup of p evicted an older daemon?
Evictor(p) == <<p, "upgrade">> \in spent

\* Faulty: every lock is taken for stale.
TakeLockTooSoon(p) ==
    /\ At(p, "lock")
    /\ lock' = p
    /\ stolen' = (stolen \/ (lock \in alive /\ Evictor(p)))
    /\ GoTo(p, "reprobe")
    /\ UNCHANGED <<version, alive, path, listening, pidVars, stalls, crashes>>

\* A lock is free, stale because its holder is dead, or taken for stale
\* because its holder stalls.  After an eviction the threshold is two seconds,
\* less than a holder's refresh interval: a holder that listens by then may
\* lose its lock without a stall.
TakeLock(p) ==
    /\ At(p, "lock")
    /\ \/ lock \notin alive /\ UNCHANGED stalls
       \/ lock \in listening /\ Evictor(p) /\ UNCHANGED stalls
       \/ lock \in alive /\ Stall
    /\ lock' = p
    /\ stolen' = (stolen \/ (lock \in alive /\ Evictor(p)))
    /\ GoTo(p, "reprobe")
    /\ UNCHANGED <<version, alive, path, listening, pidVars, crashes>>

\* The lock of a dead holder is fresh until its threshold is over, which only
\* a startup that has evicted a daemon waits for.
FindLocked(p) ==
    /\ At(p, "lock")
    /\ lock \in alive \/ (lock # NoPid /\ ~Evictor(p))
    /\ GoTo(p, "older")
    /\ UNCHANGED <<version, alive, resources, pidVars, stolen, stalls, crashes>>

\* The probe of the socket once the lock is held.  A daemon that answers gets
\* its lock back.
Reprobe(p) ==
    /\ At(p, "reprobe")
    /\ \/ Serving /\ ReleaseLock(p) /\ GoTo(p, "older") /\ UNCHANGED stalls
       \/ Serving /\ Stall /\ GoTo(p, "bind") /\ UNCHANGED lock
       \/ ~Serving /\ GoTo(p, "bind") /\ UNCHANGED <<lock, stalls>>
    /\ UNCHANGED <<version, alive, path, listening, pidVars, stolen, crashes>>

\* Faulty: a daemon that is up is never contested.
StandsDown(p) ==
    /\ At(p, "older")
    /\ Exit(p)
    /\ UNCHANGED <<version, lock, path, pidVars, stolen, stalls, crashes>>

\* Without the lock: an older daemon that answers on the socket is evicted by
\* way of the pidfile, once; before any other the process stands down.
LookForOlder(p) ==
    /\ At(p, "older")
    /\ IF Serving /\ version[path] < version[p] /\ ~Evictor(p)
         THEN \/ GoTo(p, "create") /\ UNCHANGED <<alive, listening, stalls>>
              \/ Stall /\ Exit(p)
         ELSE Exit(p) /\ UNCHANGED stalls
    /\ UNCHANGED <<version, lock, path, pidVars, stolen, crashes>>

-----------------------------------------------------------------------------
(* startDaemonServer                                                        *)

Listen(p) ==
    /\ path = NoPid
    /\ path' = p
    /\ listening' = listening \cup {p}
    /\ GoTo(p, "create")

\* With the path in use, the process probes who is behind it.
Bind(p) ==
    /\ At(p, "bind")
    /\ \/ Listen(p)
       \/ path # NoPid /\ GoTo(p, "probe") /\ UNCHANGED <<path, listening>>
    /\ UNCHANGED <<version, alive, lock, pidVars, stolen, stalls, crashes>>

\* A daemon behind it: DaemonAlreadyRunningError, the process stands down.
ProbeBound(p) ==
    /\ At(p, "probe")
    /\ \/ Serving /\ Exit(p) /\ ReleaseLock(p) /\ UNCHANGED stalls
       \/ ~Serving /\ GoTo(p, "unlink") /\ UNCHANGED <<alive, lock, listening, stalls>>
       \/ Serving /\ Stall /\ GoTo(p, "unlink") /\ UNCHANGED <<alive, lock, listening>>
    /\ UNCHANGED <<version, path, pidVars, stolen, crashes>>

UnlinkPath(p) ==
    /\ At(p, "unlink")
    /\ path' = NoPid
    /\ GoTo(p, "rebind")
    /\ UNCHANGED <<version, alive, lock, listening, pidVars, stolen, stalls, crashes>>

\* A second EADDRINUSE is an error.
Rebind(p) ==
    /\ At(p, "rebind")
    /\ \/ Listen(p) /\ UNCHANGED <<alive, lock>>
       \/ path # NoPid /\ Exit(p) /\ ReleaseLock(p) /\ UNCHANGED path
    /\ UNCHANGED <<version, pidVars, stolen, stalls, crashes>>

-----------------------------------------------------------------------------
(* acquireInstanceLockWithEviction: the legacy inbound pidfile              *)

\* What follows an acquire.  The startup that looked for an older daemon gives
\* the pidfile up again, and retries the lock if it has evicted one.
Acquired(p) == GoTo(p, IF Errand(p) = "inbound" THEN "opening" ELSE "return")

NotAcquired(p) ==
    IF Errand(p) = "inbound"
      THEN GoTo(p, "closing") /\ UNCHANGED <<alive, listening>>
    ELSE IF Evictor(p)
      THEN GoTo(p, "lock") /\ UNCHANGED <<alive, listening>>
    ELSE Exit(p)

ReturnPidfile(p) ==
    /\ At(p, "return")
    /\ ReleaseLegacy(p)
    /\ NotAcquired(p)
    /\ UNCHANGED <<version, lock, path, target, attempt, spent, raced, stolen, stalls, crashes>>

\* The exclusive create; the pid is written by a call of its own, to the file
\* p created, at its path or unlinked.
CreatePidfile(p) ==
    /\ At(p, "create")
    /\ IF legacy = NoFile
         THEN legacy' = [by |-> p, text |-> NoPid] /\ GoTo(p, "write")
         ELSE GoTo(p, "read") /\ UNCHANGED legacy
    /\ UNCHANGED <<version, alive, resources, target, attempt, spent, raced, stolen, stalls, crashes>>

WritePid(p) ==
    /\ At(p, "write")
    /\ legacy' = IF legacy.by = p THEN [legacy EXCEPT !.text = p] ELSE legacy
    /\ Acquired(p)
    /\ target' = [target EXCEPT ![p] = NoPid] /\ attempt' = [attempt EXCEPT ![p] = 0]
    /\ UNCHANGED <<version, alive, resources, spent, raced, stolen, stalls, crashes>>

ReadPidfile(p) ==
    /\ At(p, "read")
    /\ target' = [target EXCEPT ![p] = legacy.text]
    /\ GoTo(p, IF legacy.text = NoPid THEN "remove" ELSE "judge")
    /\ UNCHANGED <<version, alive, resources, legacy, attempt, spent, raced, stolen, stalls, crashes>>

\* A process that has lost the pidfile to h evicts it once: to upgrade, any
\* live daemon, to hold the pidfile, one that runs from another version's
\* directory, and only one that can be inspected.
Lost(p, h) ==
    /\ attempt' = [attempt EXCEPT ![p] = 0]
    /\ LET mayEvict == /\ h \in alive \ {p} /\ <<p, Errand(p)>> \notin spent
                       /\ Errand(p) = "upgrade" \/ version[h] # version[p]
       IN  \/ /\ mayEvict /\ GoTo(p, "evict")
              /\ target' = [target EXCEPT ![p] = h]
              /\ UNCHANGED <<alive, listening, stalls>>
           \/ /\ IF mayEvict THEN Stall ELSE UNCHANGED stalls
              /\ target' = [target EXCEPT ![p] = NoPid]
              /\ NotAcquired(p)

\* Faulty: a holder of the same version is taken for stale.
JudgeSiblingStale(p) ==
    /\ At(p, "judge")
    /\ IF target[p] \in alive /\ version[target[p]] # version[p]
         THEN Lost(p, target[p])
         ELSE GoTo(p, "remove") /\ UNCHANGED <<alive, listening, target, attempt, stalls>>
    /\ UNCHANGED <<version, lock, path, legacy, spent, raced, stolen, crashes>>

JudgeHolder(p) ==
    /\ At(p, "judge")
    /\ IF target[p] \in alive
         THEN Lost(p, target[p])
         ELSE GoTo(p, "remove") /\ UNCHANGED <<alive, listening, target, attempt, stalls>>
    /\ UNCHANGED <<version, lock, path, legacy, spent, raced, stolen, crashes>>

\* removeIfPresent, then another attempt or, after the last one, a final look
\* at who holds the file.
RemovePidfile(p) ==
    /\ At(p, "remove")
    /\ legacy' = NoFile
    /\ raced' = (raced \/ (legacy.by \in alive \ {p} /\ target[p] \notin alive))
    /\ attempt' = [attempt EXCEPT ![p] = @ + 1]
    /\ GoTo(p, IF attempt[p] + 1 < MaxReclaimAttempts THEN "create" ELSE "yield")
    /\ UNCHANGED <<version, alive, resources, target, spent, stolen, stalls, crashes>>

YieldPidfile(p) ==
    /\ At(p, "yield")
    /\ Lost(p, legacy.text)
    /\ UNCHANGED <<version, lock, path, legacy, spent, raced, stolen, crashes>>

\* The holder has exited, of its own accord or after SIGTERM: the plain
\* acquire is tried again.
Evicted(p) ==
    /\ At(p, "evict") /\ target[p] \notin alive
    /\ spent' = spent \cup {<<p, Errand(p)>>}
    /\ GoTo(p, "create")
    /\ UNCHANGED <<version, alive, resources, legacy, target, attempt, raced, stolen, stalls, crashes>>

\* The grace period is over: SIGKILL.
Kill(p) ==
    /\ At(p, "evict")
    /\ target[p] \in alive
    /\ Exit(target[p])
    /\ UNCHANGED <<version, lock, path, pidVars, stolen, stalls, crashes>>

-----------------------------------------------------------------------------
(* Opening, closing, crashing                                               *)

Open(p) ==
    /\ At(p, "opening")
    /\ GoTo(p, "open")
    /\ UNCHANGED <<version, alive, resources, pidVars, stolen, stalls, crashes>>

\* transport.start throws: everything taken is given back.
OpenFails(p) ==
    /\ At(p, "opening") /\ Crashed
    /\ ReleaseLegacy(p)
    /\ GoTo(p, "closing")
    /\ UNCHANGED <<version, alive, resources, target, attempt, spent, raced, stolen, stalls>>

\* close(), for a signal or an exhausted reconnect: the Feishu connection,
\* the socket server, the pidfile and the lock, in this order.
Close(p) ==
    /\ At(p, "open")
    /\ GoTo(p, "closing")
    /\ UNCHANGED <<version, alive, resources, pidVars, stolen, stalls, crashes>>

CloseSocket(p) ==
    /\ At(p, "closing")
    /\ CloseServer(p)
    /\ GoTo(p, "releasing")
    /\ UNCHANGED <<version, alive, lock, pidVars, stolen, stalls, crashes>>

ReleaseAll(p) ==
    /\ At(p, "releasing")
    /\ ReleaseLegacy(p)
    /\ ReleaseLock(p)
    /\ Exit(p)
    /\ UNCHANGED <<version, path, target, attempt, spent, raced, stolen, stalls, crashes>>

Crash(p) ==
    /\ p \in alive /\ Crashed
    /\ Exit(p)
    /\ UNCHANGED <<version, lock, path, pidVars, stolen, stalls>>

-----------------------------------------------------------------------------

DaemonInit ==
    /\ version \in Versions
    /\ alive = {} /\ pc = [p \in Proc |-> "off"]
    /\ lock = NoPid /\ path = NoPid /\ listening = {}
    /\ legacy = NoFile /\ target = [p \in Proc |-> NoPid] /\ attempt = [p \in Proc |-> 0]
    /\ spent = {} /\ raced = FALSE /\ stolen = FALSE
    /\ stalls = 0 /\ crashes = 0

Starting(p) ==
    \/ TakeLock(p) \/ FindLocked(p) \/ Reprobe(p) \/ LookForOlder(p)
    \/ Bind(p) \/ ProbeBound(p) \/ UnlinkPath(p) \/ Rebind(p)
    \/ CreatePidfile(p) \/ WritePid(p) \/ ReadPidfile(p) \/ JudgeHolder(p)
    \/ RemovePidfile(p) \/ YieldPidfile(p) \/ Evicted(p) \/ Kill(p)
    \/ ReturnPidfile(p) \/ Open(p)

Closing(p) == CloseSocket(p) \/ ReleaseAll(p)

DaemonNext ==
    \E p \in Proc :
        \/ Launch(p)
        \/ Starting(p)
        \/ OpenFails(p) \/ Close(p) \/ Closing(p)
        \/ Crash(p)

DaemonSpec == DaemonInit /\ [][DaemonNext]_daemonVars

\* A live process goes on starting or closing; nobody has to be launched.
DaemonFairness == \A p \in Proc : WF_daemonVars(Starting(p)) /\ WF_daemonVars(Closing(p))

FairDaemonSpec == DaemonSpec /\ DaemonFairness

-----------------------------------------------------------------------------
(* Properties                                                               *)

\* Type correctness.
DaemonTypeOK ==
    /\ version \in [Proc -> Nat]
    /\ alive \subseteq Proc
    /\ pc \in [Proc -> {"off", "lock", "reprobe", "older", "bind", "probe", "unlink", "rebind",
                        "create", "write", "read", "judge", "remove", "yield", "evict",
                        "return", "opening", "open", "closing", "releasing", "gone"}]
    /\ {lock, path} \subseteq Proc \cup {NoPid}
    /\ listening \subseteq alive
    /\ legacy \in Pidfile
    /\ target \in [Proc -> Proc \cup {NoPid}]
    /\ attempt \in [Proc -> 0..MaxReclaimAttempts]
    /\ spent \subseteq Proc \X {"upgrade", "inbound"}
    /\ raced \in BOOLEAN /\ stolen \in BOOLEAN
    /\ stalls \in 0..MaxStalls /\ crashes \in 0..MaxCrashes

\* The lock lets one process at a time past it: nothing has stalled, and no
\* startup that evicted a daemon has taken the lock of a live one.
LockExcludes == stalls = 0 /\ ~stolen

\* At most one process has the Feishu connection open, however starts,
\* upgrades, closes and crashes interleave: Feishu would split the inbound
\* events between two.  The lock and the pidfile have to fail both: two are past
\* the lock, and one has unlinked the pidfile of the other, which it found not
\* yet written or in the place of the stale one it had judged.
OneInbound == LockExcludes \/ ~raced => \A p, q \in Inbound : p = q

\* The process with the Feishu connection is the one proxies reach through
\* the socket path; otherwise events are received that no session ever gets.
\* It may become unreachable once the lock does not exclude: of two starters
\* that have both found the path stale the slower one unlinks the socket of the
\* other.
InboundIsReachable == LockExcludes => \A p \in Inbound : path = p

\* A daemon that is up does not outlast the start of a newer one: its starter
\* evicts it, by SIGKILL if it has to (tryEvictOlderDaemon), unless something
\* stalls or crashes, the older one has lost its pidfile, by which it is found,
\* or the one eviction of a startup goes to another daemon.
UpgradeEvicts ==
    \A p \in Proc :
        LET OlderIsUp == \E q \in Proc : At(q, "open") /\ version[q] < version[p]
        IN  At(p, "lock") /\ OlderIsUp
                ~> ~OlderIsUp \/ stalls + crashes > 0 \/ raced \/ Evictor(p)

=============================================================================
