---------------------------- MODULE CodexRegistry ----------------------------
(***************************************************************************)
(* One teammate name of the Codex engine, and the commands that start and  *)
(* end its daemon: spawn, resume, kill and doctor (engines/codex/engine.ts,*)
(* engines/codex/supervisor.ts, verbs/kill.ts).  A command is a process of *)
(* its own.  They meet in files: the identity record, which reserves the   *)
(* name; the spawn lock; and the registry of the daemon, which is its pid, *)
(* the time it started and its socket.                                     *)
(*                                                                         *)
(* A file created exclusively is empty until its creator writes to it, and *)
(* the creator holds on to the file it made when another one takes its     *)
(* place.  A command starts one daemon at most, named after the command.   *)
(***************************************************************************)
EXTENDS Naturals, FiniteSets

CONSTANTS
    Command,    \* processes of `tm`
    None,       \* no file, no daemon
    Verbs,      \* the verbs they run
    MaxFaults   \* bound on failures

ASSUME RegistryAssumption ==
    /\ None \notin Command \cup [by : Command, written : BOOLEAN]
    /\ Verbs \subseteq {"spawn", "resume", "kill", "doctor"}
    /\ MaxFaults \in Nat

VARIABLES
    step,       \* the step a command takes next
    verb,       \* what it runs
    record,     \* the identity file: its author, and is it written?
    lock,       \* the spawn lock: its author, and is its pid written?
    pid,        \* the daemon the pid file names
    stamped,    \* does the started-at file exist?
    dir,        \* does the directory of the registry exist?
    socket,     \* the daemon whose socket is at the path
    live,       \* daemons that run
    target,     \* the daemon a reaping command has read
    rfaults

registryVars == <<step, verb, record, lock, pid, stamped, dir, socket, live, target, rfaults>>

File(author) == [by |-> author, written |-> FALSE]

Written(file, c) == IF file = File(c) THEN [file EXCEPT !.written = TRUE] ELSE file

\* The record as a reader parses it: an empty file is no record.
Recorded == record # None /\ record.written

Verdicts == {"spawned", "refused", "failed", "killed", "checked"}

Running(c) == step[c] \notin Verdicts \cup {"off", "crashed"}

DaemonAlive == pid \in live /\ stamped

\* daemonSpawnInProgress: the lock of a dead process is stale, an empty one is not.
SpawnInProgress == lock # None /\ (lock.written => Running(lock.by))

On(c, label) == step[c] = label
Do(c, label) == step' = [step EXCEPT ![c] = label]
Mishap == rfaults < MaxFaults /\ rfaults' = rfaults + 1

Starts(c) == verb[c] \in {"spawn", "resume"}

registry == <<pid, stamped, dir, socket>>

-----------------------------------------------------------------------------
(* Spawn and resume up to the daemon (engine.ts:792-829, 1191-1250)         *)

\* A record with neither a daemon nor a spawn behind it is stale.
BeginStart(c) ==
    /\ On(c, "off")
    /\ Starts(c)
    /\ IF ~Recorded THEN Do(c, "probe")
       ELSE IF DaemonAlive \/ SpawnInProgress THEN Do(c, "refused")
       ELSE IF lock # None THEN Do(c, "clearThenUnrecord")
       ELSE Do(c, "unrecord")
    /\ UNCHANGED <<verb, record, lock, registry, live, target, rfaults>>

\* Only a resume looks at the lock when there is no record.
Probe(c) ==
    /\ On(c, "probe")
    /\ IF DaemonAlive \/ (verb[c] = "resume" /\ SpawnInProgress) THEN Do(c, "refused")
       ELSE IF verb[c] = "resume" /\ lock # None THEN Do(c, "clearThenReserve")
       ELSE Do(c, "reserve")
    /\ UNCHANGED <<verb, record, lock, registry, live, target, rfaults>>

\* The lock a step ago was stale; the one removed is whichever is there.
ClearStaleLock(c) ==
    /\ \/ On(c, "clearThenUnrecord") /\ Do(c, "unrecord")
       \/ On(c, "clearThenReserve") /\ Do(c, "reserve")
    /\ lock' = None
    /\ UNCHANGED <<verb, record, registry, live, target, rfaults>>

Unrecord(c) ==
    /\ On(c, "unrecord")
    /\ record' = None
    /\ Do(c, "probe")
    /\ UNCHANGED <<verb, lock, registry, live, target, rfaults>>

Reserve(c) ==
    /\ On(c, "reserve")
    /\ \/ record = None /\ record' = File(c) /\ Do(c, "record")
       \/ record # None /\ UNCHANGED record /\ Do(c, "refused")
    /\ UNCHANGED <<verb, lock, registry, live, target, rfaults>>

\* A write that fails leaves the empty file behind.
WriteRecord(c) ==
    /\ On(c, "record")
    /\ \/ record' = Written(record, c) /\ Do(c, "provision") /\ UNCHANGED rfaults
       \/ Mishap /\ Do(c, "failed") /\ UNCHANGED record
    /\ UNCHANGED <<verb, lock, registry, live, target>>

\* The worktree is made, or there is none to make.
Provision(c) ==
    /\ On(c, "provision")
    /\ \/ Do(c, "lock") /\ UNCHANGED <<record, rfaults>>
       \/ Mishap /\ record' = None /\ Do(c, "failed")
    /\ UNCHANGED <<verb, lock, registry, live, target>>

-----------------------------------------------------------------------------
(* spawnDaemon (supervisor.ts:423-573)                                      *)

TakeSpawnLock(c) ==
    /\ On(c, "lock")
    /\ \/ lock = None /\ lock' = File(c) /\ Do(c, "lockPid")
       \/ lock # None /\ UNCHANGED lock /\ Do(c, "giveUp")
    /\ UNCHANGED <<verb, record, registry, live, target, rfaults>>

\* A write that fails is taken for a spawn in progress: the finally clause is not
\* reached, and the empty lock stays.
WriteLockPid(c) ==
    /\ On(c, "lockPid")
    /\ \/ lock' = Written(lock, c) /\ Do(c, "inspect") /\ UNCHANGED rfaults
       \/ Mishap /\ Do(c, "giveUp") /\ UNCHANGED lock
    /\ UNCHANGED <<verb, record, registry, live, target>>

\* removeSelfRegistry
RegistryRemoved == pid' = None /\ stamped' = FALSE /\ socket' = None /\ dir' = FALSE

\* A stale entry goes before the daemon starts.
Inspect(c) ==
    /\ On(c, "inspect")
    /\ \/ DaemonAlive /\ Do(c, "unlockGiveUp") /\ UNCHANGED registry
       \/ /\ ~DaemonAlive
          /\ pid' = None /\ stamped' = FALSE /\ socket' = None /\ dir' = TRUE
          /\ Do(c, "start")
    /\ UNCHANGED <<verb, record, lock, live, target, rfaults>>

StartDaemon(c) ==
    /\ On(c, "start")
    /\ \/ dir /\ live' = live \cup {c} /\ Do(c, "register") /\ UNCHANGED <<registry, rfaults>>
       \/ dir /\ Mishap /\ RegistryRemoved /\ Do(c, "unlockFail") /\ UNCHANGED live
       \* The log files cannot be opened.
       \/ ~dir /\ Do(c, "unlockFail") /\ UNCHANGED <<registry, live, rfaults>>
    /\ UNCHANGED <<verb, record, lock, target>>

\* A plausible bug: a daemon counts as registered as soon as its pid is written.
RegisterPidAlone(c) ==
    /\ On(c, "register")
    /\ \/ dir /\ pid' = c /\ Do(c, "await")
       \/ ~dir /\ Do(c, "unlockFail") /\ UNCHANGED pid
    /\ UNCHANGED <<verb, record, lock, stamped, dir, socket, live, target, rfaults>>

\* The pid file and then the started-at file; without the directory the write fails.
Register(c) ==
    /\ step[c] \in {"register", "stamp"}
    /\ \/ dir /\ On(c, "register") /\ pid' = c /\ Do(c, "stamp") /\ UNCHANGED stamped
       \/ dir /\ On(c, "stamp") /\ stamped' = TRUE /\ Do(c, "await") /\ UNCHANGED pid
       \/ ~dir /\ Do(c, "unlockFail") /\ UNCHANGED <<pid, stamped>>
    /\ UNCHANGED <<verb, record, lock, dir, socket, live, target, rfaults>>

\* waitForSocket: any socket at the path will do; the daemon died, or time is up.
Await(c) ==
    /\ On(c, "await")
    /\ \/ socket # None /\ Do(c, "unlock") /\ UNCHANGED <<registry, live, rfaults>>
       \/ /\ \/ c \in live /\ dir /\ Mishap
             \/ ~(c \in live /\ dir) /\ UNCHANGED rfaults
          /\ live' = live \ {c}
          /\ RegistryRemoved
          /\ Do(c, "unlockFail")
    /\ UNCHANGED <<verb, record, lock, target>>

\* The finally clause removes the lock that is there.
Unlock(c) ==
    /\ lock' = None
    /\ \/ On(c, "unlock") /\ Do(c, "health")
       \/ On(c, "unlockFail") /\ Do(c, "forget")
       \/ On(c, "unlockGiveUp") /\ Do(c, "giveUp")
    /\ UNCHANGED <<verb, record, registry, live, target, rfaults>>

\* healthCheck: the daemon at the path answers.  A resume then looks for its thread.
Health(c) ==
    /\ On(c, "health")
    /\ \/ socket \in live /\ Do(c, "spawned") /\ UNCHANGED rfaults
       \/ socket \notin live /\ Do(c, "forget") /\ UNCHANGED rfaults
       \/ socket \in live /\ Mishap /\ Do(c, "forget")
    /\ UNCHANGED <<verb, record, lock, registry, live, target>>

-----------------------------------------------------------------------------
(* Ends: a failed start, kill and doctor                                    *)

\* The catch clauses: the record goes first, whoever wrote it.
ForgetRecord(c) ==
    /\ \/ On(c, "giveUp") /\ Do(c, "refused")
       \/ On(c, "forget") /\ Do(c, "reap")
    /\ record' = None
    /\ UNCHANGED <<verb, lock, registry, live, target, rfaults>>

\* Without a record the name is nobody's, and a file that is there goes.
BeginKill(c) ==
    /\ On(c, "off")
    /\ verb[c] = "kill"
    /\ Do(c, IF Recorded THEN "reap" ELSE IF record # None THEN "unidentify" ELSE "failed")
    /\ UNCHANGED <<verb, record, lock, registry, live, target, rfaults>>

BeginDoctor(c) ==
    /\ On(c, "off")
    /\ verb[c] = "doctor"
    /\ Do(c, IF pid # None /\ ~DaemonAlive THEN "reap" ELSE "checked")
    /\ UNCHANGED <<verb, record, lock, registry, live, target, rfaults>>

\* reapDaemon: the state is read, and read as missing without its start time.
Reap(c) ==
    /\ On(c, "reap")
    /\ target' = [target EXCEPT ![c] = IF stamped THEN pid ELSE None]
    /\ Do(c, "end")
    /\ UNCHANGED <<verb, record, lock, registry, live, rfaults>>

\* SIGTERM, a second of grace and SIGKILL to its group.
EndDaemon(c) ==
    /\ On(c, "end")
    /\ live' = live \ {target[c]}
    /\ Do(c, "unregister")
    /\ UNCHANGED <<verb, record, lock, registry, target, rfaults>>

Unregister(c) ==
    /\ On(c, "unregister")
    /\ RegistryRemoved
    /\ Do(c, IF Starts(c) THEN "failed" ELSE "unidentify")
    /\ UNCHANGED <<verb, record, lock, live, target, rfaults>>

Unidentify(c) ==
    /\ On(c, "unidentify")
    /\ record' = None
    /\ Do(c, IF verb[c] = "kill" THEN "killed" ELSE "checked")
    /\ UNCHANGED <<verb, lock, registry, live, target, rfaults>>

-----------------------------------------------------------------------------
(* The daemon and the system                                                *)

Bind(d) ==
    /\ d \in live
    /\ dir /\ socket = None
    /\ socket' = d
    /\ UNCHANGED <<step, verb, record, lock, pid, stamped, dir, live, target, rfaults>>

DaemonDies(d) ==
    /\ d \in live
    /\ Mishap
    /\ live' = live \ {d}
    /\ UNCHANGED <<step, verb, record, lock, registry, target>>

CommandDies(c) ==
    /\ Running(c)
    /\ Mishap
    /\ Do(c, "crashed")
    /\ UNCHANGED <<verb, record, lock, registry, live, target>>

CommandStep(c) ==
    \/ BeginStart(c) \/ Probe(c) \/ ClearStaleLock(c) \/ Unrecord(c) \/ Reserve(c)
    \/ WriteRecord(c) \/ Provision(c) \/ TakeSpawnLock(c) \/ WriteLockPid(c) \/ Inspect(c)
    \/ StartDaemon(c) \/ Register(c) \/ Await(c) \/ Unlock(c) \/ Health(c) \/ ForgetRecord(c)
    \/ BeginKill(c) \/ BeginDoctor(c) \/ Reap(c) \/ EndDaemon(c) \/ Unregister(c) \/ Unidentify(c)

RegistryNext == \E c \in Command : CommandStep(c) \/ Bind(c) \/ DaemonDies(c) \/ CommandDies(c)

RegistryInit ==
    /\ step = [c \in Command |-> "off"]
    /\ verb \in [Command -> Verbs]
    /\ record = None /\ lock = None /\ pid = None /\ socket = None
    /\ stamped = FALSE /\ dir = FALSE
    /\ live = {}
    /\ target = [c \in Command |-> None]
    /\ rfaults = 0

RegistrySpec == RegistryInit /\ [][RegistryNext]_registryVars

-----------------------------------------------------------------------------
(* Properties                                                               *)

RegistryTypeOK ==
    /\ record \in [by : Command, written : BOOLEAN] \cup {None}
    /\ lock \in [by : Command, written : BOOLEAN] \cup {None}
    /\ {pid, socket} \cup {target[c] : c \in Command} \subseteq Command \cup {None}
    /\ {stamped, dir} \subseteq BOOLEAN
    /\ live \subseteq Command

\* Nothing failed, and no one has begun to end the teammate.
OnlyStarts == rfaults = 0 /\ \A c \in Command : Starts(c) \/ On(c, "off")

\* As long as nothing failed and no one has begun to end the teammate, the
\* spawns and resumes that race for it leave one daemon at most: it is that of
\* the command that reported success, it runs and it is the registered one; no
\* refused or failed command leaves a daemon (spawnDaemon, supervisor.ts).
StartsLeaveOneDaemon ==
    OnlyStarts =>
        /\ Cardinality(live) <= 1
        /\ \A c \in Command :
              /\ On(c, "spawned") => pid = c /\ stamped /\ c \in live
              /\ step[c] \in {"refused", "failed"} => c \notin live

\* Whatever fails, and whoever spawns, kills or cleans up at the same time, the
\* spawn lock outlives only a command that died with it, or an empty one a command
\* that could not write its pid (spawnDaemon's catch and finally clauses): with any
\* other lock left behind, later spawns would be refused.
LockIsHeldOrOrphaned ==
    lock # None =>
        \/ Running(lock.by) \/ On(lock.by, "crashed")
        \/ ~lock.written /\ On(lock.by, "refused")

\* persistence/identity-store.ts:10-19 makes the exclusive create of the record
\* the race winner: whoever reserves first owns the name and the loser sees
\* already-exists.  So a start that reserved the name keeps its record until it
\* ends, when no one kills the teammate.
WinnerKeepsName ==
    (\A c \in Command : Starts(c) \/ On(c, "off")) => \A c \in Command :
        step[c] \in {"provision", "lock", "lockPid", "inspect", "start", "register",
                     "stamp", "await", "unlock", "health", "spawned"} =>
            record = [by |-> c, written |-> TRUE]

\* engines/codex/supervisor.ts:419-421: on failure the daemon is killed if it
\* managed to start.
FailedStartLeavesNoDaemon ==
    \A c \in Command : On(c, "failed") => c \notin live
=============================================================================
