---------------------------- MODULE ChannelDoctor ----------------------------
(***************************************************************************)
(* feishu_channel_doctor (doctor.ts, doctor-probes.ts): a read-only        *)
(* diagnosis of the running channel.  It gathers its evidence probe by     *)
(* probe, while daemons start and die, and then draws its conclusions from *)
(* what it has read: the checks are functions of the evidence.             *)
(*                                                                         *)
(* A probe that fails reads as if nothing was there.                       *)
(***************************************************************************)
EXTENDS Naturals, FiniteSets

CONSTANTS
    Daemon, Legacy, Proxy,  \* processes: daemons, old per-session servers, proxies
    Stranger,               \* a live process that is no server of the channel
    NoServer,
    Version,                \* numbers, in the order of the versions
    VersionOf,              \* the version a server has loaded
    Floating,               \* servers run from a marketplace checkout
    Attributed,             \* servers whose install directory can be told
    Orphaned,               \* servers whose parent is process 1
    Nameless,               \* older daemons, which do not say what process they are
    Teammates,              \* proxies of teammates
    Brokers, Stdio,         \* proxies that say they are behind a broker, or behind stdio
    Ownerships,             \* who is registered with which role, and owner and dispatcher
    Invoking,               \* the version of the diagnosing code
    MaxChanges, MaxFailures

Server == Daemon \cup Legacy \cup Proxy
Role == {"none", "session", "dispatcher"}
Ownership == [reg : [Proxy -> Role], owner : Proxy \cup {NoServer}, dispatcher : Proxy \cup {NoServer}]

ASSUME DoctorAssumption ==
    /\ IsFiniteSet(Server)
    /\ Cardinality(Server) = Cardinality(Daemon) + Cardinality(Legacy) + Cardinality(Proxy)
    /\ {Stranger, NoServer} \cap Server = {} /\ NoServer \notin Version
    /\ Version \subseteq Nat /\ VersionOf \in [Server -> Version] /\ Invoking \in Version
    /\ Floating \cup Attributed \cup Orphaned \subseteq Server
    /\ Nameless \subseteq Daemon /\ Teammates \cup Brokers \cup Stdio \subseteq Proxy
    /\ Ownerships \subseteq Ownership /\ {MaxChanges, MaxFailures} \subseteq Nat

VARIABLES
    alive,      \* the live servers
    ended,      \* those that died; a process does not come back
    listening,  \* the daemon on the socket path
    socket,     \* is there a socket file?
    pidfile,    \* the pid in connection.lock
    ownership,  \* what the listening daemon says of its sessions
    pinned,     \* the version installed_plugins.json names
    files,      \* the install and the state directory: "sound", "halfApplied",
                \* "noCredentials" or "corrupt"
    evidence,   \* what has been read so far
    report,     \* a severity for each check, at the end
    changes, failures,
    agreed, wasSound    \* history: has there been a moment of the diagnosis at which the daemon
                        \* at the socket held the pidfile, and at which it was alone as well?

worldVars == <<alive, ended, listening, socket, pidfile, ownership, pinned, files>>
doctorVars == <<worldVars, evidence, report, changes, failures, agreed, wasSound>>

NoOwner == [reg |-> [x \in Proxy |-> "none"], owner |-> NoServer, dispatcher |-> NoServer]
Fails == failures < MaxFailures /\ failures' = failures + 1
Read(probe) == probe \in DOMAIN evidence

-----------------------------------------------------------------------------
(* The checks.  e.hello and e.status are NoServer when nothing answered.       *)

Sessions(s) == {x \in Proxy : s.reg[x] # "none"}

\* ChannelOwnerState.select, and what the checks take for the owner.
Effective(s) ==
    IF s.owner # NoServer THEN IF s.owner \in Sessions(s) THEN s.owner ELSE NoServer
    ELSE IF s.dispatcher \in Sessions(s) THEN s.dispatcher ELSE NoServer
Target(s) == IF Effective(s) # NoServer THEN Effective(s) ELSE s.owner

Reachable(e) == IF e.hello = NoServer THEN "error" ELSE "ok"

SocketStaleness(e) == IF e.socket /\ e.hello = NoServer THEN "warn" ELSE "ok"

\* The daemon block of the status, if there is one.
DaemonBlock(e) == IF e.status = NoServer THEN NoServer ELSE e.status.pid

VersionSkew(e) ==
    LET d == IF DaemonBlock(e) # NoServer THEN DaemonBlock(e) ELSE e.hello
        known == d # NoServer /\ e.pinned # NoServer
    IN  IF known /\ VersionOf[d] < e.pinned THEN "error"
        ELSE IF known /\ VersionOf[d] > e.pinned THEN "warn"
        ELSE IF e.pinned # NoServer /\ Invoking < e.pinned THEN "warn"
        ELSE IF known THEN "ok" ELSE "unknown"

ProxyVersions(e) ==
    IF e.status = NoServer THEN "unknown"
    ELSE IF Cardinality({VersionOf[x] : x \in Sessions(e.status)}) <= 1 THEN "ok" ELSE "warn"

LaunchSource(e) ==
    LET d == IF DaemonBlock(e) # NoServer THEN DaemonBlock(e) ELSE e.hello
    IN  IF d = NoServer \/ (DaemonBlock(e) = NoServer /\ d \notin e.servers \ Nameless) THEN "unknown"
        ELSE IF d \in Floating THEN "warn" ELSE "ok"

PinnedVsDisk(e) ==
    IF e.pinned = NoServer \/ e.disk = "unread" THEN "unknown"
    ELSE IF e.disk = "halfApplied" THEN "error" ELSE "ok"

\* A plausible bug: a live holder is taken for the daemon.
LockTrustsHolder(e) ==
    IF e.holder = NoServer THEN (IF e.hello # NoServer \/ DaemonBlock(e) # NoServer THEN "warn" ELSE "ok")
    ELSE IF ~e.holderAlive THEN "warn"
    ELSE IF e.holderServes THEN "ok" ELSE "warn"

ConnectionLock(e) ==
    IF e.holder = NoServer THEN (IF e.hello # NoServer \/ DaemonBlock(e) # NoServer THEN "warn" ELSE "ok")
    ELSE IF ~e.holderAlive THEN "warn"
    ELSE IF e.holder = e.hello /\ e.hello \notin Nameless THEN "ok"
    ELSE IF e.holderServes THEN "error" ELSE "warn"

Singleton(e) ==
    LET daemons == e.servers \cap Daemon
    IN  IF daemons = {} THEN (IF e.hello # NoServer THEN "warn" ELSE "ok")
        ELSE IF Cardinality(daemons) > 1 THEN "error"
        ELSE IF e.hello = NoServer \/ e.hello \in Nameless THEN "unknown"
        ELSE IF e.hello \in daemons THEN "ok" ELSE "warn"

\* An install is a directory and a version; one checkout is one install.
Coexisting(e) ==
    LET installs == {<<VersionOf[p], p \in Floating>> : p \in e.servers \cap Attributed}
    IN  IF installs = {} THEN "unknown"
        ELSE IF Cardinality(installs) = 1 /\ \A i \in installs : ~i[2] THEN "ok" ELSE "warn"

OrphanServers(e) == IF e.servers \cap Orphaned \cap e.alive = {} THEN "ok" ELSE "warn"

OrphanProxies(e) ==
    IF e.status = NoServer THEN "unknown"
    ELSE IF Sessions(e.status) \subseteq e.alive THEN "ok" ELSE "warn"

OwnershipOnTeammate(e) ==
    IF e.status = NoServer THEN "unknown"
    ELSE LET s == e.status
             t == Target(s)
             dispatchers == {x \in Proxy : s.reg[x] = "dispatcher"}
         IN  IF t # NoServer /\ t \notin Sessions(s) THEN "warn"
             ELSE IF \/ Cardinality(dispatchers) > 1
                     \/ t \in dispatchers /\ s.dispatcher # NoServer /\ t # s.dispatcher
                     \/ t \in dispatchers \cap Teammates
                  THEN "error" ELSE "ok"

BrokerHandoff(e) ==
    IF e.status = NoServer THEN "unknown"
    ELSE LET t == Target(e.status)
         IN  IF t \notin Sessions(e.status) THEN "ok"
             ELSE IF t \in Brokers THEN "warn"
             ELSE IF t \in Teammates \ Stdio THEN "unknown" ELSE "ok"

StateDir(e) ==
    IF e.dir = "unread" THEN "unknown"
    ELSE IF e.dir = "noCredentials" THEN "error"
    ELSE IF e.dir = "corrupt" THEN "warn" ELSE "ok"

\* collectDiagnosis
Conclusions(e) ==
    [reachable |-> Reachable(e), socket |-> SocketStaleness(e), skew |-> VersionSkew(e),
     proxies |-> ProxyVersions(e), source |-> LaunchSource(e), disk |-> PinnedVsDisk(e),
     lock |-> ConnectionLock(e), singleton |-> Singleton(e), installs |-> Coexisting(e),
     orphans |-> OrphanServers(e), deadProxies |-> OrphanProxies(e),
     owner |-> OwnershipOnTeammate(e), handoff |-> BrokerHandoff(e), state |-> StateDir(e)]

\* worstOf
Severities == {report[c] : c \in DOMAIN report}
-----------------------------------------------------------------------------
(* The probes: hello and status at once, the others in this order            *)

Noting(e, more) ==
    [x \in DOMAIN e \cup DOMAIN more |-> IF x \in DOMAIN more THEN more[x] ELSE e[x]]

Adds(more) == evidence' = Noting(evidence, more)

\* The answer of a daemon that listens; an older one says nothing of itself.
StatusOf(o, d) == Noting(o, [pid |-> IF d \in Nameless THEN NoServer ELSE d])

ASSUME StatusAssumption == \A o \in Ownership, d \in Daemon : StatusOf(o, d) # NoServer

ProbeHello ==
    /\ ~Read("hello")
    /\ \/ Adds([hello |-> listening]) /\ UNCHANGED failures
       \/ Fails /\ Adds([hello |-> NoServer])

ProbeStatus ==
    /\ ~Read("status")
    /\ \/ /\ Adds([status |-> IF listening = NoServer THEN NoServer ELSE StatusOf(ownership, listening)])
          /\ UNCHANGED failures
       \/ Fails /\ Adds([status |-> NoServer])

\* readPinnedInstall
ProbePinned ==
    /\ Read("hello") /\ Read("status") /\ ~Read("pinned")
    /\ \/ Adds([pinned |-> pinned]) /\ UNCHANGED failures
       \/ Fails /\ Adds([pinned |-> NoServer])

\* readConnectionLockHolder; the command of a live holder may be unreadable.
ProbeHolder ==
    /\ Read("pinned") /\ ~Read("holder")
    /\ LET there == [holder |-> pidfile, holderAlive |-> pidfile \in alive \cup {Stranger},
                     holderServes |-> pidfile \in Server]
       IN  \/ Adds(there) /\ UNCHANGED failures
           \/ /\ Fails
              /\ \E failed \in {[holder |-> NoServer], [holderServes |-> FALSE]} : Adds(Noting(there, failed))

\* enumerateServers; a process whose directory cannot be read may be missed.
ProbeServers ==
    /\ Read("holder") /\ ~Read("servers")
    /\ \/ Adds([servers |-> alive]) /\ UNCHANGED failures
       \/ /\ Fails
          /\ \E missed \in {alive} \cup {{p} : p \in alive} : Adds([servers |-> alive \ missed])

\* The install's manifest, readStateDirHealth and socketExists
ProbeFiles ==
    /\ Read("servers") /\ ~Read("disk")
    /\ LET found == [disk |-> files, dir |-> files, socket |-> socket]
       IN  \/ Adds(found) /\ UNCHANGED failures
           \/ /\ Fails
              /\ \E failed \in {[disk |-> "unread"], [dir |-> "unread"], [socket |-> FALSE]} :
                     Adds(Noting(found, failed))

Probe ==
    /\ ProbeHello \/ ProbeStatus \/ ProbePinned \/ ProbeHolder \/ ProbeServers \/ ProbeFiles
    /\ UNCHANGED <<worldVars, report, changes, agreed, wasSound>>

\* The checks ask whether pids are alive, and the report is made.
Conclude ==
    /\ Read("disk") /\ report = <<>>
    /\ report' = Conclusions(Noting(evidence, [alive |-> alive]))
    /\ UNCHANGED <<worldVars, evidence, changes, failures, agreed, wasSound>>

-----------------------------------------------------------------------------
(* The channel, meanwhile                                                   *)

Agree(l, p) == l # NoServer /\ l = p
OneDaemon(l, p, a) == Agree(l, p) /\ a \cap Daemon = {l}

\* A change while the diagnosis is under way.
Changes ==
    /\ report = <<>> /\ changes < MaxChanges /\ changes' = changes + 1
    /\ agreed' = (agreed \/ Agree(listening', pidfile'))
    /\ wasSound' = (wasSound \/ OneDaemon(listening', pidfile', alive'))
    /\ UNCHANGED <<pinned, files, evidence, report, failures>>

ServerDies(p) ==
    /\ p \in alive /\ alive' = alive \ {p} /\ ended' = ended \cup {p}
    /\ IF p = listening THEN listening' = NoServer /\ ownership' = NoOwner
       ELSE UNCHANGED <<listening, ownership>>
    /\ UNCHANGED <<socket, pidfile>> /\ Changes

\* A daemon that starts binds the socket path, and then takes the pidfile.
DaemonBinds(d) ==
    /\ listening = NoServer /\ d \notin alive \cup ended
    /\ alive' = alive \cup {d} /\ listening' = d /\ socket' = TRUE
    /\ UNCHANGED <<ended, pidfile, ownership>> /\ Changes

DaemonTakesPidfile(d) ==
    /\ d = listening /\ pidfile \notin alive /\ pidfile' = d
    /\ UNCHANGED <<alive, ended, listening, socket, ownership>> /\ Changes

ProxyGone(x) ==
    /\ x \notin alive /\ ownership.reg[x] # "none"
    /\ ownership' = [ownership EXCEPT !.reg[x] = "none"]
    /\ UNCHANGED <<alive, ended, listening, socket, pidfile>> /\ Changes

\* What crashes, upgrades and evictions may have left.
DoctorInit ==
    /\ alive \in SUBSET Server /\ ended = {}
    /\ listening \in (alive \cap Daemon) \cup {NoServer}
    /\ socket \in IF listening = NoServer THEN BOOLEAN ELSE {TRUE}
    /\ pidfile \in Daemon \cup Legacy \cup {Stranger, NoServer}
    /\ ownership \in IF listening = NoServer THEN {NoOwner} ELSE Ownerships
    /\ Sessions(ownership) \subseteq alive
    /\ pinned \in Version
    /\ files \in {"sound", "halfApplied", "noCredentials", "corrupt"}
    /\ evidence = <<>> /\ report = <<>> /\ changes = 0 /\ failures = 0
    /\ agreed = Agree(listening, pidfile) /\ wasSound = OneDaemon(listening, pidfile, alive)

DoctorNext ==
    \/ Probe \/ Conclude
    \/ \E p \in Server : ServerDies(p)
    \/ \E d \in Daemon : DaemonBinds(d) \/ DaemonTakesPidfile(d)
    \/ \E x \in Proxy : ProxyGone(x)

DoctorSpec == DoctorInit /\ [][DoctorNext]_doctorVars

-----------------------------------------------------------------------------
(* Properties                                                               *)

Done == report # <<>>

\* What the module's header calls foot-guns: the inbound lock with another server than
\* the one that listens, several daemons, no daemon, an upgrade that has not reached the
\* daemon, a teammate in the dispatcher's place.
Faulty ==
    \/ pidfile \in alive /\ pidfile # listening
    \/ Cardinality(alive \cap Daemon) > 1
    \/ listening = NoServer
    \/ listening # NoServer /\ VersionOf[listening] < pinned
    \/ \E x \in Teammates : ownership.reg[x] = "dispatcher" /\ Effective(ownership) = x

\* A fault that is there throughout the diagnosis is reported as an error, whatever
\* else is the matter (doctor.ts:1-10, 186-222).
SteadyFaultIsReported ==
    Done /\ changes = 0 /\ failures = 0 /\ Faulty => "error" \in Severities

\* A report in which every check is well is no mixture of moments, although each probe
\* reads at another one, and whatever probes fail: the daemon at the socket did hold the
\* inbound lock at some moment of the diagnosis (one that also was the only daemon, unless a
\* probe failed: the enumeration of the servers may have missed one).
CleanReportWasTrue ==
    Done /\ Severities \subseteq {"ok"} => agreed /\ (failures = 0 => wasSound)

\* "A failed probe surfaces as an unknown check" (doctor.ts:174-176).
FailedProbeIsUnknown ==
    Done /\ failures > 0 => "unknown" \in Severities
=============================================================================
