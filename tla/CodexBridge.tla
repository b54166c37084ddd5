----------------------------- MODULE CodexBridge -----------------------------
(***************************************************************************)
(* The process that shows one Codex teammate in the Codex UI               *)
(* (engines/codex/ipc-bridge.ts, ui-ipc.ts).  It holds a link to the UI    *)
(* and a connection to the teammate's daemon, which it opens again when    *)
(* the recorded thread moves or the connection is gone.                    *)
(*                                                                         *)
(* The process is one event loop, and an asynchronous call of it is a task *)
(* that goes from one await to the next: a poll (every second, also while  *)
(* an earlier one waits), a request of the UI, or a snapshot.  All of them *)
(* begin with reconcileThread.  A connection is a member of Conn; one that *)
(* is closed and forgotten is used again.                                  *)
(***************************************************************************)
EXTENDS Naturals, FiniteSets

CONSTANTS
    Task,           \* calls under way at once
    Conn,           \* connections to the daemon
    Thread,         \* the threads, numbered in the order they are begun
    UiCalls,        \* the requests of the UI: "discover", "command", "interrupt", "answer"
    MaxMoves,       \* bound on the changes of the teammate's thread
    MaxDrops        \* bound on failures

ASSUME BridgeAssumption ==
    /\ Conn \subseteq Nat \ {0} /\ Thread \subseteq Nat \ {0}
    /\ UiCalls \subseteq {"discover", "command", "interrupt", "answer"}
    /\ {MaxMoves, MaxDrops} \subseteq Nat
    /\ 0 \notin Task

VARIABLES
    work,       \* per task: its kind, its next step, and the thread and connection it has in hand
    daemon,      \* does the daemon run?
    recorded,   \* the thread file of the teammate
    app,        \* appClient
    active,     \* activeThreadId, which is set and cleared with appThread
    open,       \* the connections that are open
    resumed,    \* the thread a connection has resumed, and hears of
    pending,    \* pendingServerRequests: the connections they came on
    link,       \* the UI link: "down", "greeting" or "up"
    timer,      \* is a snapshot scheduled?
    stale,      \* has the thread changed since the UI was last shown it?
    loose,      \* has a request of the UI, or a call beside another one, opened a connection
                \* since the UI was last shown the thread over a sound one?
    moves, drops

appVars == <<app, active, open, resumed, pending>>
bridgeVars == <<work, daemon, recorded, appVars, link, timer, stale, loose, moves, drops>>

\* No connection, no thread.
Absent == 0

Idle == [kind |-> "none", step |-> "idle", thread |-> Absent, conn |-> Absent]

Is(k, step) == work[k].step = step
Reads(k) == work[k].step \in {"reading", "read"}
Drop == drops < MaxDrops /\ drops' = drops + 1
Move == moves < MaxMoves /\ moves' = moves + 1

Serving == app # Absent /\ active = recorded

\* readDaemonState, for the thread: there is none without a daemon.
Current == IF daemon THEN recorded ELSE Absent

\* The UI that the link went to is gone, and knows nothing.
LinkLost == stale' = (stale \/ link' = "down")

Greets(k) == work[k].kind \in {"greet", "greetSnapshot"}

Becomes(k, t) == work' = [work EXCEPT ![k] = t] /\ UNCHANGED link

\* A link lives on only when its first calls succeed.
LinkAfter(failed) == IF link = "greeting" /\ \E k \in failed : Greets(k) THEN "down" ELSE link

\* The call returns or throws.
Finish(k, ok) ==
    /\ work' = [work EXCEPT ![k] = Idle]
    /\ link' = IF ~ok THEN LinkAfter({k})
               ELSE IF Greets(k) /\ link = "greeting" THEN "up" ELSE link

\* The calls that wait on connection c are rejected at once when it closes.
Waiters(c) == IF c = Absent THEN {} ELSE {k \in Task : work[k].conn = c}

Snapshot(kind) == [Idle EXCEPT !.kind = kind, !.step = "reconcile"]

\* What a call does when reconcileThread returns the thread it read before its awaits, and
\* these are the connection and the active thread.  A poll looks whether the thread moved while
\* it waited; a snapshot reads the thread returned, and does without a connection; a request is
\* refused when it is about another conversation.
Onward(k, client, thread, read) ==
    LET t == work[k]
        there == client # Absent /\ thread # Absent
    IN CASE t.kind = "poll" /\ thread \notin {Absent, t.thread} -> Becomes(k, Snapshot("snapshot"))
         [] t.kind = "greet" -> Becomes(k, Snapshot("greetSnapshot"))
         [] t.kind \in {"snapshot", "greetSnapshot"} /\ there /\ read # Absent ->
                Becomes(k, [t EXCEPT !.step = "reading", !.thread = read, !.conn = client])
         [] t.kind \in {"command", "interrupt", "answer"} /\ there /\ thread = t.thread ->
                Becomes(k, [t EXCEPT !.step = t.kind, !.conn = client])
         [] OTHER -> Finish(k, TRUE)

-----------------------------------------------------------------------------
(* reconcileThread and openAppClient (ipc-bridge.ts:204-252)                *)

Forgotten(c) == [d \in Conn |-> IF d = c THEN Absent ELSE resumed[d]]

Unused == Conn \ (open \cup {app} \cup {work[k].conn : k \in Task} \cup pending)

\* closeAppClient
ClientClosed ==
    /\ app' = Absent /\ active' = Absent /\ pending' = {}
    /\ open' = open \ {app}
    /\ resumed' = Forgotten(app)

RejectedAnd(k, t, gone) ==
    /\ work' = [j \in Task |-> IF j = k THEN t ELSE IF j \in gone THEN Idle ELSE work[j]]
    /\ link' = LinkAfter(gone)

\* closeAppClient, and a new one: the connection there goes first, even one whose
\* resume is still under way.
Reopen(k) ==
    LET c == CHOOSE c \in Unused : TRUE
    IN /\ Unused # {}
       /\ RejectedAnd(k, [work[k] EXCEPT !.step = "opening", !.conn = c], Waiters(app))
       /\ open' = (open \ {app}) \cup {c}
       /\ resumed' = [Forgotten(app) EXCEPT ![c] = recorded]
       /\ app' = Absent /\ active' = Absent /\ pending' = {}
       /\ LinkLost

Opening == {k \in Task : work[k].step \in {"opening", "resuming"}}

\* The connection in use is the one that hears of the active thread, and no call opens another.
Sound == Opening = {} /\ app # Absent /\ resumed[app] = active

OpenedBy(k) == loose' = (loose \/ work[k].kind \in UiCalls \/ Opening # {})

\* A plausible bug: the connection there is kept whatever thread it has.
ReconcileKeepsThread(k) ==
    /\ Is(k, "reconcile")
    /\ IF daemon /\ recorded # Absent /\ app = Absent THEN Reopen(k) /\ OpenedBy(k)
       ELSE Onward(k, app, active, Current) /\ UNCHANGED <<appVars, stale, loose>>
    /\ UNCHANGED <<daemon, recorded, timer, moves, drops>>

Reconcile(k) ==
    /\ Is(k, "reconcile")
    /\ IF daemon /\ recorded # Absent /\ ~Serving THEN Reopen(k) /\ OpenedBy(k)
       ELSE Onward(k, app, active, Current) /\ UNCHANGED <<appVars, stale, loose>>
    /\ UNCHANGED <<daemon, recorded, timer, moves, drops>>

\* Connected and initialised: it becomes the client of the bridge, whichever there is by now.
Ready(k) ==
    /\ Is(k, "opening")
    /\ app' = work[k].conn
    /\ Becomes(k, [work[k] EXCEPT !.step = "resuming"])
    /\ UNCHANGED <<daemon, recorded, active, open, resumed, pending, timer, stale, loose, moves, drops>>

\* thread/resume is answered; the client may be another one by now.
Resumed(k) ==
    /\ Is(k, "resuming")
    /\ active' = resumed[work[k].conn]
    /\ Onward(k, app, active', active')
    /\ UNCHANGED <<daemon, recorded, app, open, resumed, pending, timer, stale, loose, moves, drops>>

OpenFails(k) ==
    /\ work[k].step \in {"opening", "resuming"}
    /\ Drop
    /\ Finish(k, FALSE) /\ LinkLost
    /\ UNCHANGED <<daemon, recorded, appVars, timer, loose, moves>>

-----------------------------------------------------------------------------
(* Snapshots and requests (ipc-bridge.ts:300-400, 471-515)                  *)

\* thread/read is answered with the thread as it is, which may change before the answer is here.
ThreadRead(k) ==
    /\ Is(k, "reading")
    /\ Becomes(k, [work[k] EXCEPT !.step = "read"])
    /\ UNCHANGED <<daemon, recorded, appVars, timer, stale, loose, moves, drops>>

\* The snapshot is broadcast.
Shown(k) ==
    /\ Is(k, "read")
    /\ LET shown == work[k].thread = recorded /\ link # "down"
       IN stale' = (stale /\ ~shown) /\ loose' = (loose /\ ~(shown /\ Sound))
    /\ Finish(k, link # "down")
    /\ UNCHANGED <<daemon, recorded, appVars, timer, moves, drops>>

\* closeAppClient: it is the connection there that goes, not the one that failed.
SnapshotFails(k) ==
    /\ Reads(k)
    /\ Drop
    /\ ClientClosed
    /\ RejectedAnd(k, Idle, Waiters(app) \cup {k}) /\ LinkLost
    /\ UNCHANGED <<daemon, recorded, timer, loose, moves>>

\* A plausible bug: no snapshot is scheduled while another one is read.
ScheduleCoalesces == timer' = (timer \/ (link # "down" /\ \A k \in Task : ~Reads(k)))

\* scheduleSnapshot
Schedule == timer' = (timer \/ link # "down")

\* A turn is started or steered, the thread compacted, its settings changed.
Commands(k) ==
    /\ Is(k, "command")
    /\ \/ Schedule /\ UNCHANGED drops
       \/ Drop /\ UNCHANGED timer
    /\ Finish(k, TRUE)
    /\ UNCHANGED <<daemon, recorded, appVars, stale, loose, moves>>

\* What waits for the user is declined before the turn is interrupted.
Interrupt(k) ==
    /\ Is(k, "interrupt")
    /\ pending' = {}
    /\ Becomes(k, [work[k] EXCEPT !.step = "command"])
    /\ UNCHANGED <<daemon, recorded, app, active, open, resumed, timer, stale, loose, moves, drops>>

\* resolvePendingServerRequest
Answer(k) ==
    /\ Is(k, "answer")
    /\ \/ \E c \in pending : pending' = pending \ {c} /\ Schedule
       \/ UNCHANGED <<pending, timer>>
    /\ Finish(k, TRUE)
    /\ UNCHANGED <<daemon, recorded, app, active, open, resumed, stale, loose, moves, drops>>

-----------------------------------------------------------------------------
(* Beginnings                                                               *)

\* client.connect and the calls that follow it, before the poll is set up.
LinkConnects(k) ==
    /\ link = "down" /\ daemon
    /\ work[k] = Idle /\ ~\E j \in Task : Greets(j)
    /\ link' = "greeting"
    /\ work' = [work EXCEPT ![k] = Snapshot("greet")]
    /\ UNCHANGED <<daemon, recorded, appVars, timer, stale, loose, moves, drops>>

LinkCloses ==
    /\ link # "down"
    /\ Drop
    /\ link' = "down"
    /\ stale' = TRUE
    \* A snapshot under way goes to the link that closed.
    /\ work' = [k \in Task |-> IF Reads(k) THEN [work[k] EXCEPT !.thread = Absent] ELSE work[k]]
    /\ UNCHANGED <<daemon, recorded, appVars, timer, loose, moves>>

PollFires(k) ==
    /\ link = "up" /\ work[k] = Idle
    /\ \/ /\ daemon
          /\ Becomes(k, [Snapshot("poll") EXCEPT !.thread = active])
          /\ UNCHANGED <<appVars, stale>>
       \/ /\ ~daemon
          /\ link' = "down"
          /\ ClientClosed
          /\ work' = [j \in Task |-> IF j \in Waiters(app) THEN Idle ELSE work[j]]
          /\ LinkLost
    /\ UNCHANGED <<daemon, recorded, timer, loose, moves, drops>>

TimerFires(k) ==
    /\ timer /\ work[k] = Idle
    /\ timer' = FALSE
    /\ work' = [work EXCEPT ![k] = IF link = "down" THEN Idle ELSE Snapshot("snapshot")]
    /\ UNCHANGED <<daemon, recorded, appVars, link, stale, loose, moves, drops>>

UiAsks(k) ==
    /\ link # "down" /\ work[k] = Idle
    /\ \E call \in UiCalls :
          Becomes(k, [Snapshot(call) EXCEPT !.thread = IF call = "discover" THEN Absent ELSE recorded])
    /\ UNCHANGED <<daemon, recorded, appVars, timer, stale, loose, moves, drops>>

-----------------------------------------------------------------------------
(* The daemon, which is external, and the rest of the teammate              *)

\* The connections that hear of the active thread.
Subscribed ==
    {c \in open : /\ resumed[c] = active
                  /\ ~\E k \in Task : work[k].conn = c /\ work[k].step \in {"opening", "resuming"}}

\* A notification of another thread, or with no active one, is dropped.
ThreadChanges ==
    /\ daemon /\ recorded # Absent
    /\ Move
    /\ stale' = TRUE
    /\ IF active = recorded /\ Subscribed # {} THEN Schedule ELSE UNCHANGED timer
    /\ work' = [k \in Task |-> IF Is(k, "read") THEN [work[k] EXCEPT !.thread = Absent] ELSE work[k]]
    /\ UNCHANGED <<daemon, recorded, appVars, link, loose, drops>>

\* A server request waits for the user when it is about the active thread.
DaemonAsks(c) ==
    /\ c \in Subscribed
    /\ Move
    /\ pending' = pending \cup {c}
    /\ stale' = TRUE
    /\ Schedule
    /\ UNCHANGED <<work, daemon, recorded, app, active, open, resumed, link, loose, drops>>

RecordThread(t) ==
    /\ daemon /\ t > recorded
    /\ Move
    /\ recorded' = t
    /\ stale' = TRUE
    /\ UNCHANGED <<work, daemon, appVars, link, timer, loose, drops>>

\* handleAppClientClosed counts only for the connection in use, but a read that waits
\* on another one takes the connection in use with it.
ConnCloses(c) ==
    /\ c \in open
    /\ Drop
    /\ IF app = c THEN ClientClosed /\ RejectedAnd(Absent, Idle, Waiters(c))
       ELSE IF \E k \in Waiters(c) : Reads(k)
            THEN /\ app' = Absent /\ active' = Absent /\ pending' = {}
                 /\ open' = open \ {app, c}
                 /\ resumed' = [Forgotten(app) EXCEPT ![c] = Absent]
                 /\ RejectedAnd(Absent, Idle, Waiters(c) \cup Waiters(app))
            ELSE /\ open' = open \ {c}
                 /\ resumed' = Forgotten(c)
                 /\ RejectedAnd(Absent, Idle, Waiters(c))
                 /\ UNCHANGED <<app, active, pending>>
    /\ LinkLost
    /\ UNCHANGED <<daemon, recorded, timer, loose, moves>>

DaemonEnds ==
    /\ daemon /\ Drop
    /\ daemon' = FALSE
    /\ UNCHANGED <<work, recorded, appVars, link, timer, stale, loose, moves>>

\* A call runs into reconcileThread, and on to its next await, without a pause.
Settled == \A k \in Task : ~Is(k, "reconcile")

TaskStep(k) ==
    \/ Ready(k) \/ Resumed(k) \/ OpenFails(k) \/ ThreadRead(k) \/ Shown(k) \/ SnapshotFails(k)
    \/ Commands(k) \/ Interrupt(k) \/ Answer(k)

BridgeNext ==
    \/ \E k \in Task : Reconcile(k)
    \/ /\ Settled
       /\ \/ \E k \in Task : TaskStep(k) \/ LinkConnects(k) \/ PollFires(k) \/ TimerFires(k) \/ UiAsks(k)
          \/ \E c \in Conn : DaemonAsks(c) \/ ConnCloses(c)
          \/ \E t \in Thread : RecordThread(t)
          \/ LinkCloses \/ ThreadChanges \/ DaemonEnds

BridgeInit ==
    /\ work = [k \in Task |-> Idle]
    /\ daemon = TRUE /\ recorded \in Thread \cup {Absent}
    /\ app = Absent /\ active = Absent /\ open = {} /\ pending = {}
    /\ resumed = [c \in Conn |-> Absent]
    /\ link = "down" /\ timer = FALSE /\ stale = TRUE /\ loose = FALSE
    /\ moves = 0 /\ drops = 0

\* The event loop runs every call and timer.  A daemon that answers may still be slower
\* than a poll; it is assumed to be faster often enough.
BridgeFairness ==
    /\ \A k \in Task : WF_bridgeVars(Reconcile(k) \/ (Settled /\ TaskStep(k)))
    /\ SF_bridgeVars(\E k \in Task : Settled /\ Resumed(k))
    /\ SF_bridgeVars(\E k \in Task : Settled /\ (PollFires(k) \/ LinkConnects(k)))

BridgeSpec == BridgeInit /\ [][BridgeNext]_bridgeVars /\ BridgeFairness

-----------------------------------------------------------------------------
(* Properties                                                               *)

Steps == {"idle", "reconcile", "opening", "resuming", "reading", "read", "command", "interrupt", "answer"}

BridgeTypeOK ==
    /\ work \in [Task -> [kind : {"none", "poll", "greet", "snapshot", "greetSnapshot"} \cup UiCalls,
                          step : Steps, thread : Thread \cup {Absent}, conn : Conn \cup {Absent}]]
    /\ {recorded, active} \subseteq Thread \cup {Absent}
    /\ app \in Conn \cup {Absent} /\ open \subseteq Conn /\ pending \subseteq Conn
    /\ resumed \in [Conn -> Thread \cup {Absent}]
    /\ link \in {"down", "greeting", "up"} /\ {daemon, timer, stale, loose} \subseteq BOOLEAN
    /\ {moves, drops} \subseteq Nat

\* However connections close, the thread moves and calls overlap, in the end the
\* process holds an open connection and serves the recorded thread: a poll that
\* opens it again and again cuts the resume of the one before, and the last one
\* gets through (poll and reconcileThread, ipc-bridge.ts:190-213).
ServesThread == <>[](recorded # Absent /\ daemon => Serving /\ app \in open)

\* No change of the thread is lost on the UI: once nothing is under way or
\* scheduled, it has been shown the thread as it is.  Notifications that come
\* while there is no active thread are dropped, so what opens the connection owes
\* a snapshot; a poll or a snapshot that opens it alone pays it.  A request of the
\* UI and two calls that open at once need not (the exception loose names).
ShownWhenQuiet ==
    daemon /\ link = "up" /\ Serving /\ ~timer /\ (\A k \in Task : work[k] = Idle) /\ ~loose => ~stale
=============================================================================
