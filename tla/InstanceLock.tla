----------------------------- MODULE InstanceLock -----------------------------
(***************************************************************************)
(* The pidfile that elects the one process holding the inbound Feishu      *)
(* connection (instance-lock.ts), one file system call or process probe to *)
(* a step.  A process tries the plain acquire, may evict a holder it is    *)
(* allowed to evict, stands by and polls when it loses, and removes the    *)
(* file when it shuts down; a crash leaves the file behind.  A pid is not  *)
(* used twice.                                                             *)
(***************************************************************************)
EXTENDS Naturals, FiniteSets

CONSTANTS
    Proc,               \* processes, named by their pids
    NoPid,              \* an absent or unreadable pid
    Settled,            \* the process holding the lock at first, or NoPid
    MayEvict,           \* pairs <<p, h>>: holderIsEvictable answers true to p about h
    MaxReclaimAttempts, \* MAX_RECLAIM_ATTEMPTS
    MaxCrashes          \* bound on crashes

ASSUME ProcAssumption  == NoPid \notin Proc /\ Settled \in Proc \cup {NoPid}
ASSUME EvictAssumption == MayEvict \subseteq Proc \X Proc
ASSUME LimitAssumption == MaxReclaimAttempts \in Nat \ {0} /\ MaxCrashes \in Nat

\* The pidfile: the process that created it and the pid it reads as.
Absent == [by |-> NoPid, text |-> NoPid]
File == [by : Proc, text : Proc \cup {NoPid}] \cup {Absent}

VARIABLES
    file,
    alive,      \* live processes
    pc,         \* the call a process makes next
    attempt,    \* reclaims of this acquire so far
    holder,     \* the pid a process read from the file
    tried,      \* has the process been through its startup acquire?
    crashes

lockVars == <<file, alive, pc, attempt, holder, tried, crashes>>

-----------------------------------------------------------------------------

At(p, label) == p \in alive /\ pc[p] = label
GoTo(p, label) == pc' = [pc EXCEPT ![p] = label]
Exists == file.by # NoPid

Holders == {p \in Proc : At(p, "holding")}

Launch(p) ==
    /\ pc[p] = "off"
    /\ alive' = alive \cup {p}
    /\ GoTo(p, "create")
    /\ UNCHANGED <<file, attempt, holder, tried, crashes>>

\* The exclusive create; the pid is written by a call of its own.
Create(p) ==
    /\ At(p, "create")
    /\ file' = IF Exists THEN file ELSE [by |-> p, text |-> NoPid]
    /\ GoTo(p, IF Exists THEN "read" ELSE "write")
    /\ UNCHANGED <<alive, attempt, holder, tried, crashes>>

\* The write goes to the file p created, at its path or unlinked.
WritePid(p) ==
    /\ At(p, "write")
    /\ file' = IF file.by = p THEN [file EXCEPT !.text = p] ELSE file
    /\ GoTo(p, "holding")
    /\ UNCHANGED <<alive, attempt, holder, tried, crashes>>

ReadHolder(p) ==
    /\ At(p, "read")
    /\ holder' = [holder EXCEPT ![p] = file.text]
    /\ GoTo(p, IF file.text = p THEN "holding"
               ELSE IF file.text = NoPid THEN "unlink" ELSE "probe")
    /\ UNCHANGED <<file, alive, attempt, tried, crashes>>

\* A process that has lost its startup acquire evicts the holder it saw if it
\* may; in every other case it stands by.
Lost(p, h) ==
    /\ GoTo(p, IF ~tried[p] /\ <<p, h>> \in MayEvict THEN "evict" ELSE "standby")
    /\ tried' = [tried EXCEPT ![p] = TRUE]

\* Faulty: a holder that was sent its signals is taken to be gone.
ProbeTrustsSignals(p) ==
    /\ At(p, "probe")
    /\ IF holder[p] \in alive /\ ~tried[p]
         THEN Lost(p, holder[p])
         ELSE GoTo(p, "unlink") /\ UNCHANGED tried
    /\ UNCHANGED <<file, alive, attempt, holder, crashes>>

\* Faulty: a holder is only gone when its file is.
ProbeNeverReclaims(p) ==
    /\ At(p, "probe")
    /\ Lost(p, holder[p])
    /\ UNCHANGED <<file, alive, attempt, holder, crashes>>

Probe(p) ==
    /\ At(p, "probe")
    /\ IF holder[p] \in alive
         THEN Lost(p, holder[p])
         ELSE GoTo(p, "unlink") /\ UNCHANGED tried
    /\ UNCHANGED <<file, alive, attempt, holder, crashes>>

\* removeIfPresent, then another attempt or, after the last one, a final look
\* at who holds the file.
Unlink(p) ==
    /\ At(p, "unlink")
    /\ file' = Absent
    /\ attempt' = [attempt EXCEPT ![p] = @ + 1]
    /\ GoTo(p, IF attempt[p] + 1 < MaxReclaimAttempts THEN "create" ELSE "yield")
    /\ UNCHANGED <<alive, holder, tried, crashes>>

Yield(p) ==
    /\ At(p, "yield")
    /\ holder' = [holder EXCEPT ![p] = file.text]
    /\ Lost(p, file.text)
    /\ UNCHANGED <<file, alive, attempt, crashes>>

\* SIGTERM, and the wait for the holder's exit.
Evict(p) ==
    /\ At(p, "evict")
    /\ GoTo(p, "wait")
    /\ UNCHANGED <<file, alive, attempt, holder, tried, crashes>>

Reacquire(p) ==
    /\ GoTo(p, "create")
    /\ attempt' = [attempt EXCEPT ![p] = 0]

SeenExit(p) ==
    /\ At(p, "wait") /\ holder[p] \notin alive
    /\ Reacquire(p)
    /\ UNCHANGED <<file, alive, holder, tried, crashes>>

\* The grace period is over: SIGKILL and a second wait, which the holder may
\* outlive as well.  Either way the plain acquire is tried again.
Kill(p) ==
    /\ At(p, "wait") /\ holder[p] \in alive
    /\ \E killed \in {{holder[p]}, {}} : alive' = alive \ killed
    /\ Reacquire(p)
    /\ UNCHANGED <<file, holder, tried, crashes>>

\* The standby poll.
Poll(p) ==
    /\ At(p, "standby")
    /\ Reacquire(p)
    /\ UNCHANGED <<file, alive, holder, tried, crashes>>

\* Shutting down, a holder closes its connection before it releases the lock:
\* it reads the file, and removes it if it is its own.
Release(p) ==
    /\ At(p, "holding")
    /\ GoTo(p, IF file.text = p THEN "remove" ELSE "exit")
    /\ UNCHANGED <<file, alive, attempt, holder, tried, crashes>>

RemoveFile(p) ==
    /\ At(p, "remove")
    /\ file' = Absent
    /\ GoTo(p, "exit")
    /\ UNCHANGED <<alive, attempt, holder, tried, crashes>>

Exit(p) ==
    /\ At(p, "exit")
    /\ alive' = alive \ {p}
    /\ UNCHANGED <<file, pc, attempt, holder, tried, crashes>>

Crash(p) ==
    /\ p \in alive /\ crashes < MaxCrashes
    /\ crashes' = crashes + 1
    /\ alive' = alive \ {p}
    /\ UNCHANGED <<file, pc, attempt, holder, tried>>

-----------------------------------------------------------------------------

LockInit ==
    /\ file = IF Settled = NoPid THEN Absent ELSE [by |-> Settled, text |-> Settled]
    /\ alive = Proc \cap {Settled}
    /\ pc = [p \in Proc |-> IF p = Settled THEN "holding" ELSE "off"]
    /\ attempt = [p \in Proc |-> 0]
    /\ holder = [p \in Proc |-> NoPid]
    /\ tried = [p \in Proc |-> FALSE]
    /\ crashes = 0

Acquiring(p) ==
    \/ Create(p) \/ WritePid(p) \/ ReadHolder(p) \/ Probe(p) \/ Unlink(p) \/ Yield(p)
    \/ Evict(p) \/ SeenExit(p) \/ Kill(p) \/ Poll(p)

LockNext ==
    \E p \in Proc :
        \/ Launch(p)
        \/ Acquiring(p)
        \/ Release(p) \/ RemoveFile(p) \/ Exit(p)
        \/ Crash(p)

LockSpec == LockInit /\ [][LockNext]_lockVars

\* A live process carries on with its acquire and its poll, and with a
\* shutdown it has begun.
LockFairness == \A p \in Proc : WF_lockVars(Acquiring(p)) /\ WF_lockVars(RemoveFile(p) \/ Exit(p))

FairLockSpec == LockSpec /\ LockFairness

-----------------------------------------------------------------------------
(* Properties                                                               *)

\* Type correctness.
LockTypeOK ==
    /\ file \in File
    /\ alive \subseteq Proc
    /\ pc \in [Proc -> {"off", "create", "write", "read", "probe", "unlink", "yield",
                        "evict", "wait", "standby", "holding", "remove", "exit"}]
    /\ attempt \in [Proc -> 0..MaxReclaimAttempts]
    /\ holder \in [Proc -> Proc \cup {NoPid}]
    /\ tried \in [Proc -> BOOLEAN]
    /\ crashes \in 0..MaxCrashes

\* The holder of the lock at first, and a process started after it.
OneSuccessor == Cardinality({p \in Proc : pc[p] # "off"}) <= 2

\* "This lock elects exactly one server process to open the inbound
\* WebSocket" (instance-lock.ts:11): with a holder in place, no order of the
\* holder's shutdown or crash, its eviction, and the acquire of the process
\* that follows it makes two live holders.
MutualExclusion == OneSuccessor => \A p, q \in Holders : p = q

\* A live holder is never without its pidfile, so the next acquire finds it.
HolderIsOnFile == OneSuccessor => \A p \in Holders : file.text = p

\* "A crash can never wedge the channel permanently shut"
\* (instance-lock.ts:17): as long as some process other than the holder is up,
\* somebody gets the lock, also when the crash left the file empty.
NeverWedged ==
    \A p \in Proc : []<>(\/ p \notin alive
                         \/ pc[p] \in {"exit", "remove"}
                         \/ Holders # {})

\* "A competitor reclaiming the same stale file simply wins the exclusive
\* create, and this instance then sees its live PID and stands down"
\* (instance-lock.ts:72-74).
ReclaimersExclude == \A p, q \in Holders : p = q

=============================================================================
