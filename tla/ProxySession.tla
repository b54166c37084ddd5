---------------------------- MODULE ProxySession ----------------------------
(***************************************************************************)
(* The proxy of one Claude session (proxy.ts, proxy-client.ts,             *)
(* proxy-transport.ts, the start-up loop of server.ts) and the end of its  *)
(* process (shutdown.ts).  It attaches to whatever daemon serves the       *)
(* socket, has a newer one started over an older one, and reconnects when  *)
(* its daemon is gone.                                                     *)
(*                                                                         *)
(* The daemon is an environment here: none, an older one or one of the     *)
(* proxy's version serves.  How daemons succeed each other is the matter of*)
(* DaemonStartup.  Older proxies of other sessions start older daemons.    *)
(***************************************************************************)
EXTENDS Naturals, Sequences

CONSTANTS
    Call,           \* tool calls of the session
    MaxUpsets       \* bound on daemons that die, are not born, or are started by others

ASSUME ProxyAssumption == MaxUpsets \in Nat

Absent == 0
Older == 1
Current == 2

VARIABLES
    serving,    \* the daemon on the socket path
    starting,   \* is a daemon this proxy has started on its way?
    phase,      \* what the proxy does about its connection
    sock,       \* its socket: the daemon at the other end and how it stands, "broken"
                \* when that daemon is gone
    spawned,    \* has this start-up, or this reconnecting, started a daemon?
    sawOlder,   \* has the start-up met an older daemon?
    late,       \* has the start-up's deadline passed?
    calls,      \* how each tool call stands
    tasks,      \* the cleanup tasks registered
    cleaned,    \* how many of them have run
    stop,       \* "no", "cleaning", "cut" (by the watchdog) or "clean"
    upsets

standingVars == <<serving, starting>>
loopVars == <<phase, sock, spawned, sawOlder, late>>
stopVars == <<tasks, cleaned, stop>>
proxyVars == <<standingVars, loopVars, calls, stopVars, upsets>>

NoSocket == [to |-> Absent, is |-> "none"]
Alive == stop \in {"no", "cleaning"}
Upset == upsets < MaxUpsets /\ upsets' = upsets + 1

-----------------------------------------------------------------------------
(* Connecting                                                               *)

Trying == {"attach", "fallback", "reconnect"}

\* connectToDaemon opens the socket.
Dial ==
    /\ Alive /\ phase \in Trying /\ sock.is = "none"
    /\ sock' = [to |-> serving, is |-> IF serving = Absent THEN "broken" ELSE "dialled"]
    /\ UNCHANGED <<standingVars, phase, spawned, sawOlder, late, calls, stopVars, upsets>>

\* One daemon is started per start-up and per reconnecting.
StartDaemon == starting' = (starting \/ ~spawned) /\ spawned' = TRUE

\* No daemon, or one that goes before its hello.
DialFails ==
    /\ Alive /\ phase \in Trying /\ sock.is = "broken"
    /\ sock' = NoSocket
    /\ IF phase = "fallback"
       THEN phase' = "failed" /\ UNCHANGED <<starting, spawned>>
       ELSE phase' = (IF phase = "attach" THEN "attachPause" ELSE "reconnectPause") /\ StartDaemon
    /\ UNCHANGED <<serving, sawOlder, late, calls, stopVars, upsets>>

\* The daemon a start-up or a reconnecting is content with.
Accepts(v) == v = Current \/ phase = "fallback"

\* An older daemon: the socket is closed.  Only a start-up has it replaced.
Declined ==
    /\ sock' = NoSocket
    /\ IF phase = "attach"
       THEN phase' = "attachPause" /\ sawOlder' = TRUE /\ StartDaemon
       ELSE phase' = "reconnectPause" /\ UNCHANGED <<starting, spawned, sawOlder>>

\* A plausible bug: no task is added once the shutdown has begun.
RegisteredInTime == IF stop = "no" THEN Append(tasks, "proxy") ELSE tasks

\* startProxySession registers the proxy's cleanup once attached.
Registered == Append(tasks, "proxy")

Hello ==
    /\ Alive /\ sock.is = "dialled"
    /\ IF Accepts(sock.to)
       THEN phase' = "up" /\ sock' = [sock EXCEPT !.is = "open"] /\ UNCHANGED <<starting, spawned, sawOlder>>
       ELSE Declined
    /\ tasks' = IF Accepts(sock.to) /\ phase # "reconnect" THEN Registered ELSE tasks
    /\ UNCHANGED <<serving, late, calls, cleaned, stop, upsets>>

\* A plausible bug: a reconnecting minds the start-up's deadline.
RetryInTime ==
    /\ Alive
    /\ \/ phase = "reconnectPause" /\ ~late /\ phase' = "reconnect"
       \/ phase = "attachPause" /\ ~late /\ phase' = "attach"
       \/ phase = "attachPause" /\ late /\ sawOlder /\ phase' = "fallback"
       \/ phase = "attachPause" /\ late /\ ~sawOlder /\ phase' = "failed"
    /\ UNCHANGED <<standingVars, sock, spawned, sawOlder, late, calls, stopVars, upsets>>

\* The delay is over.
Retry ==
    /\ Alive
    /\ \/ phase = "reconnectPause" /\ phase' = "reconnect"
       \/ phase = "attachPause" /\ ~late /\ phase' = "attach"
       \/ phase = "attachPause" /\ late /\ sawOlder /\ phase' = "fallback"
       \/ phase = "attachPause" /\ late /\ ~sawOlder /\ phase' = "failed"
    /\ UNCHANGED <<standingVars, sock, spawned, sawOlder, late, calls, stopVars, upsets>>

\* DAEMON_STARTUP_TIMEOUT_MS
DeadlinePasses ==
    /\ phase \in {"attach", "attachPause"} /\ ~late /\ late' = TRUE
    /\ UNCHANGED <<standingVars, phase, sock, spawned, sawOlder, calls, stopVars, upsets>>

Rejected == [c \in Call |-> IF calls[c] = "waits" THEN "error" ELSE calls[c]]

\* The socket's close event: the calls under way fail, and the proxy reconnects.
SocketClosed ==
    /\ Alive /\ phase = "up" /\ sock.is = "broken"
    /\ sock' = NoSocket
    /\ calls' = Rejected
    /\ phase' = "reconnect" /\ spawned' = FALSE
    /\ UNCHANGED <<standingVars, sawOlder, late, stopVars, upsets>>

-----------------------------------------------------------------------------
(* Tool calls: forwarded when there is a connection, or an error at once     *)

CallTool(c) ==
    /\ Alive /\ calls[c] = "new"
    /\ calls' = [calls EXCEPT ![c] = IF phase = "up" THEN "waits" ELSE "error"]
    /\ UNCHANGED <<standingVars, loopVars, stopVars, upsets>>

ToolResult(c) ==
    /\ Alive /\ calls[c] = "waits" /\ sock.is = "open"
    /\ calls' = [calls EXCEPT ![c] = "answered"]
    /\ UNCHANGED <<standingVars, loopVars, stopVars, upsets>>

-----------------------------------------------------------------------------
(* ShutdownCoordinator                                                      *)

\* A signal, the end of the stdio or of the parent.  Further ones join the same run.
BeginStop ==
    /\ stop = "no" /\ stop' = "cleaning"
    /\ UNCHANGED <<standingVars, loopVars, calls, tasks, cleaned, upsets>>

\* The task under way ends, or throws, which is the same to the rest, and the loop
\* looks for another one.  Closing the proxy destroys the socket of the connection it
\* holds and leaves one that is being dialled alone.  It is the last task, and the
\* exit follows in the same turn of the event loop: neither the close event, which
\* would fail the calls, nor the rest of a connect is run any more.
CleanUp ==
    /\ stop = "cleaning"
    /\ cleaned' = cleaned + 1
    /\ IF tasks[cleaned + 1] = "proxy" /\ phase = "up"
       THEN phase' = "closed" /\ sock' = [sock EXCEPT !.is = "broken"]
       ELSE UNCHANGED <<phase, sock>>
    /\ stop' = IF cleaned' < Len(tasks) THEN "cleaning" ELSE "clean"
    /\ UNCHANGED <<standingVars, spawned, sawOlder, late, calls, tasks, upsets>>

\* The watchdog, when a task hangs.
ForceExit ==
    /\ stop = "cleaning" /\ stop' = "cut"
    /\ UNCHANGED <<standingVars, loopVars, calls, tasks, cleaned, upsets>>

-----------------------------------------------------------------------------
(* Daemons                                                                  *)

Broken == IF sock.is \in {"dialled", "open"} THEN [sock EXCEPT !.is = "broken"] ELSE sock

\* The one this proxy started comes up, and evicts an older one; a second of its
\* version stands down.
DaemonUp ==
    /\ starting /\ starting' = FALSE
    /\ serving' = Current
    /\ sock' = IF serving = Current THEN sock ELSE Broken
    /\ UNCHANGED <<phase, spawned, sawOlder, late, calls, stopVars, upsets>>

DaemonNotUp ==
    /\ starting /\ starting' = FALSE /\ Upset
    /\ UNCHANGED <<serving, loopVars, calls, stopVars>>

DaemonDies ==
    /\ serving # Absent /\ Upset /\ serving' = Absent
    /\ sock' = Broken
    /\ UNCHANGED <<starting, phase, spawned, sawOlder, late, calls, stopVars>>

\* A daemon another session has started comes up.
OthersStart(v) ==
    /\ serving = Absent /\ Upset /\ serving' = v
    /\ UNCHANGED <<starting, loopVars, calls, stopVars>>

ProxyInit ==
    /\ serving \in {Absent, Older, Current} /\ starting = FALSE
    /\ phase = "attach" /\ sock = NoSocket
    /\ spawned = FALSE /\ sawOlder = FALSE /\ late = FALSE
    /\ calls = [c \in Call |-> "new"]
    /\ tasks = <<"server">> /\ cleaned = 0 /\ stop = "no"
    /\ upsets = 0

ProxyNext ==
    \/ Dial \/ DialFails \/ Hello \/ Retry \/ DeadlinePasses \/ SocketClosed
    \/ \E c \in Call : CallTool(c) \/ ToolResult(c)
    \/ BeginStop \/ CleanUp \/ ForceExit
    \/ DaemonUp \/ DaemonNotUp \/ DaemonDies \/ \E v \in {Older, Current} : OthersStart(v)

\* Node runs the callbacks of sockets and timers that are due, and a daemon that
\* is started comes up.  A daemon may hold a call for ever.
ProxyFairness ==
    /\ WF_proxyVars(Dial) /\ WF_proxyVars(DialFails) /\ WF_proxyVars(Hello)
    /\ WF_proxyVars(Retry) /\ WF_proxyVars(SocketClosed)
    /\ WF_proxyVars(DaemonUp \/ DaemonNotUp)
    /\ WF_proxyVars(CleanUp)

ProxySpec == ProxyInit /\ [][ProxyNext]_proxyVars /\ ProxyFairness

-----------------------------------------------------------------------------
(* Properties                                                               *)

ProxyTypeOK ==
    /\ {serving, sock.to} \subseteq {Absent, Older, Current}
    /\ sock.is \in {"none", "dialled", "open", "broken"}
    /\ phase \in Trying \cup {"attachPause", "reconnectPause", "up", "failed", "closed"}
    /\ calls \in [Call -> {"new", "waits", "answered", "error"}]
    /\ cleaned <= Len(tasks)

\* A daemon of the proxy's version that goes on serving gets the session, however
\* the daemons before it have come and gone, and older ones among them, unless the
\* start-up has given up or the proxy is ending (proxy.ts:215-262).
JoinsCurrentDaemon ==
    <>[](serving = Current) =>
        <>[](phase = "failed" \/ stop # "no" \/ (phase = "up" /\ sock = [to |-> Current, is |-> "open"]))

\* A session is served over an older daemon only when the proxy has had a newer one
\* started and has waited for it until the deadline (server.ts:845-910).
OlderOnlyAsFallback ==
    sock.to = Older /\ phase = "up" => spawned /\ sawOlder /\ late

\* No tool call of a running proxy is left waiting for a connection that is gone: what
\* waits fails before the proxy reconnects.  A clean end has closed the connection the
\* proxy holds, even one it attached while the end had begun; calls that wait on it
\* end with the process (proxy-client.ts:83-88, proxy.ts:220-242, shutdown.ts:181-206).
NoCallStranded ==
    /\ Alive => \A c \in Call : calls[c] = "waits" => phase = "up" /\ sock.is \in {"open", "broken"}
    /\ stop = "clean" => phase # "up"

\* .agents/components/feishu-channel.md:66-68: after a daemon restart an already
\* running proxy reconnects to the daemon socket.
ReconnectsAfterRestart ==
    [](phase = "reconnect" => <>(phase = "up" \/ stop # "no"))
=============================================================================
