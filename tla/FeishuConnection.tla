-------------------------- MODULE FeishuConnection --------------------------
(***************************************************************************)
(* The standing daemon's connection to Feishu, from the start of its       *)
(* process to its end (feishu.ts openInbound and the reconnect guard,      *)
(* server.ts runDaemonMain), and the proxy that starts the next daemon     *)
(* when its own goes (proxy.ts).  A daemon that cannot keep its connection *)
(* ends, and is to be replaced.                                            *)
(*                                                                         *)
(* The WebSocket client of the SDK is an environment: it retries, reports, *)
(* and may give up.  How a proxy finds a daemon is the matter of           *)
(* ProxySession, how daemons exclude each other that of DaemonStartup.     *)
(***************************************************************************)
EXTENDS Naturals

CONSTANTS
    BotInfoAttempts,    \* BOT_INFO_ATTEMPTS
    MaxAttempts,        \* WS_RUNNING_RECONNECT_MAX_ATTEMPTS
    MaxOutages,         \* bound on the times Feishu goes out of reach
    MaxRefusals         \* bound on errors the SDK does not retry, and on crashes

ASSUME ConnectionAssumption ==
    BotInfoAttempts \in Nat \ {0} /\ {MaxAttempts, MaxOutages, MaxRefusals} \subseteq Nat

VARIABLES
    reach,      \* can Feishu be reached?
    daemon,     \* the standing daemon: "none", "starts", "asks" (for the bot's id),
                \* "races" (the connection against the grace window), "open", "fails", "stops"
    tries,      \* attempts to resolve the bot's id
    botKnown,   \* has it been resolved?
    ws,         \* the SDK's connection
    attempts,   \* reconnectAttempts of the SDK
    timer,      \* the guard's poll: "none", "on"
    exhausted,  \* the guard's latch
    link,       \* is the proxy connected to the daemon?
    spawned,    \* spawnedForCurrentLoop of the proxy
    locked,     \* is the daemon lock held, or fresh still?
    unreached,  \* history: has a daemon ended that the proxy started and never reached?
    outages, refusals

guardVars == <<timer, exhausted>>
wsVars == <<ws, attempts>>
linkVars == <<link, spawned, locked, unreached>>
connectionVars == <<reach, daemon, tries, botKnown, wsVars, guardVars, linkVars, outages, refusals>>

Refusal == refusals < MaxRefusals /\ refusals' = refusals + 1

-----------------------------------------------------------------------------
(* Startup                                                                  *)

\* resolveBotOpenId: an answer ends it, with an id or without; a failure is retried.
AskBot ==
    /\ daemon = "asks"
    /\ \/ reach /\ botKnown' = TRUE /\ UNCHANGED tries
       \/ reach /\ Refusal /\ botKnown' = FALSE /\ UNCHANGED tries
       \/ ~reach /\ botKnown' = FALSE /\ tries' = tries + 1
    /\ IF tries' = tries \/ tries' = BotInfoAttempts
       THEN daemon' = "races" /\ ws' = "connecting"
       ELSE UNCHANGED <<daemon, ws>>
    /\ reach /\ botKnown' => UNCHANGED refusals
    /\ ~reach => UNCHANGED refusals
    /\ UNCHANGED <<reach, attempts, guardVars, linkVars, outages>>

\* onReady: the race is won, start returns, and the cleanup is registered.
WsReady ==
    /\ daemon = "races" /\ ws = "connecting" /\ reach
    /\ ws' = "ready" /\ daemon' = "open"
    /\ UNCHANGED <<reach, tries, botKnown, attempts, guardVars, linkVars, outages, refusals>>

\* raceConnectionReady: while Feishu is in reach the SDK's retries come before the end
\* of the window, as does the proxy's dial (MAX_RECONNECT_DELAY_MS).
GraceOver ==
    /\ daemon = "races" /\ link
    /\ ~reach \/ ws = "failed"
    /\ daemon' = "fails" /\ ws' = "closed" /\ timer' = "none"
    /\ UNCHANGED <<reach, tries, botKnown, attempts, exhausted, linkVars, outages, refusals>>

-----------------------------------------------------------------------------
(* The SDK's connection and the guard's callbacks                            *)

WsDrops ==
    /\ ws = "ready" /\ daemon = "open" /\ ~reach
    /\ ws' = "reconnecting" /\ attempts' = 0
    /\ timer' = IF timer = "none" /\ ~exhausted THEN "on" ELSE timer
    /\ UNCHANGED <<reach, daemon, tries, botKnown, exhausted, linkVars, outages, refusals>>

WsRetries ==
    /\ ws = "reconnecting" /\ ~reach /\ attempts < MaxAttempts
    /\ attempts' = attempts + 1
    /\ UNCHANGED <<reach, daemon, tries, botKnown, ws, guardVars, linkVars, outages, refusals>>

WsReconnects ==
    /\ ws = "reconnecting" /\ reach /\ ws' = "ready"
    /\ timer' = "none" /\ exhausted' = FALSE
    /\ UNCHANGED <<reach, daemon, tries, botKnown, attempts, linkVars, outages, refusals>>

\* onError: the guard stops, and once the startup is complete the daemon ends.
WsGivesUp ==
    /\ ws \in {"connecting", "reconnecting"} /\ daemon \in {"races", "open"} /\ Refusal
    /\ ws' = "failed" /\ timer' = "none"
    /\ daemon' = IF daemon = "open" THEN "stops" ELSE daemon
    /\ UNCHANGED <<reach, tries, botKnown, attempts, exhausted, linkVars, outages>>

\* The interval's callback.  (Later than the proxy's dial, as in GraceOver.)
GuardPoll ==
    /\ timer = "on" /\ ws = "reconnecting" /\ attempts >= MaxAttempts /\ link
    /\ exhausted' = TRUE /\ timer' = "none"
    /\ ws' = "closed" /\ daemon' = "stops"
    /\ UNCHANGED <<reach, tries, botKnown, attempts, linkVars, outages, refusals>>

-----------------------------------------------------------------------------
(* The end of the process                                                    *)

Gone ==
    /\ daemon' = "none" /\ ws' = "closed" /\ timer' = "none" /\ link' = FALSE
    /\ unreached' = (unreached \/ ~link)

\* startDaemon throws and main exits, or the shutdown has run or is cut by its
\* watchdog: the sockets close, and the lock is released after them.
Ends ==
    /\ daemon \in {"fails", "stops"} /\ Gone
    /\ UNCHANGED <<reach, tries, botKnown, attempts, exhausted, spawned, locked, outages, refusals>>

\* Killed: the lock stays behind.
Crashes ==
    /\ daemon # "none" /\ Refusal /\ Gone
    /\ UNCHANGED <<reach, tries, botKnown, attempts, exhausted, spawned, locked, outages>>

\* It is released, or its mtime has become stale.
LockFrees ==
    /\ locked /\ daemon \in {"none", "starts"} /\ locked' = FALSE
    /\ UNCHANGED <<reach, daemon, tries, botKnown, wsVars, guardVars, link, spawned, unreached, outages, refusals>>

-----------------------------------------------------------------------------
(* The proxy                                                                *)

\* A plausible bug: a new connection does not renew the right to start a daemon.
DialsKeepSpawned ==
    /\ ~link /\ daemon \in {"asks", "races", "open"}
    /\ link' = TRUE
    /\ UNCHANGED <<reach, daemon, tries, botKnown, wsVars, guardVars, spawned, locked, unreached, outages, refusals>>

\* The socket is served before the connection to Feishu is opened.
Dials ==
    /\ ~link /\ daemon \in {"asks", "races", "open"}
    /\ link' = TRUE /\ spawned' = FALSE
    /\ UNCHANGED <<reach, daemon, tries, botKnown, wsVars, guardVars, locked, unreached, outages, refusals>>

\* Nothing answers: once in each reconnecting a daemon is started.
Spawns ==
    /\ ~link /\ daemon = "none" /\ ~spawned
    /\ spawned' = TRUE /\ daemon' = "starts"
    /\ UNCHANGED <<reach, tries, botKnown, wsVars, guardVars, link, locked, unreached, outages, refusals>>

\* It takes the lock, or stands down before the lock of the daemon before it.
ComesUp ==
    /\ daemon = "starts" /\ ~locked /\ locked' = TRUE
    /\ daemon' = "asks" /\ tries' = 0 /\ botKnown' = FALSE
    /\ ws' = "idle" /\ attempts' = 0 /\ timer' = "none" /\ exhausted' = FALSE
    /\ UNCHANGED <<reach, link, spawned, unreached, outages, refusals>>

StandsDown ==
    /\ daemon = "starts" /\ locked /\ daemon' = "none" /\ unreached' = TRUE
    /\ UNCHANGED <<reach, tries, botKnown, wsVars, guardVars, link, spawned, locked, outages, refusals>>

NetworkChanges ==
    /\ reach' = ~reach
    /\ outages' = IF reach THEN outages + 1 ELSE outages
    /\ outages' <= MaxOutages
    /\ UNCHANGED <<daemon, tries, botKnown, wsVars, guardVars, linkVars, refusals>>

ConnectionInit ==
    /\ reach \in BOOLEAN
    /\ daemon = "none" /\ tries = 0 /\ botKnown = FALSE
    /\ ws = "idle" /\ attempts = 0 /\ timer = "none" /\ exhausted = FALSE
    /\ link = FALSE /\ spawned = FALSE /\ locked \in BOOLEAN /\ unreached = FALSE
    /\ outages = 0 /\ refusals = 0

ConnectionNext ==
    \/ AskBot \/ WsReady \/ GraceOver
    \/ WsDrops \/ WsRetries \/ WsReconnects \/ WsGivesUp \/ GuardPoll
    \/ Ends \/ Crashes \/ LockFrees
    \/ Dials \/ Spawns \/ ComesUp \/ StandsDown
    \/ NetworkChanges

\* Timers fire and a process that ends does end; the SDK retries, and connects while
\* Feishu stays in reach; a connection that Feishu has dropped is noticed.
ConnectionFairness ==
    /\ WF_connectionVars(AskBot) /\ WF_connectionVars(WsReady) /\ WF_connectionVars(GraceOver)
    /\ WF_connectionVars(WsDrops) /\ WF_connectionVars(WsRetries) /\ WF_connectionVars(WsReconnects)
    /\ WF_connectionVars(GuardPoll)
    /\ WF_connectionVars(Ends) /\ WF_connectionVars(Dials) /\ WF_connectionVars(Spawns)
    /\ WF_connectionVars(ComesUp \/ StandsDown)

ConnectionSpec == ConnectionInit /\ [][ConnectionNext]_connectionVars /\ ConnectionFairness

-----------------------------------------------------------------------------
(* Properties                                                               *)

ConnectionTypeOK ==
    /\ daemon \in {"none", "starts", "asks", "races", "open", "fails", "stops"}
    /\ ws \in {"idle", "connecting", "ready", "reconnecting", "failed", "closed"}
    /\ tries \in 0..BotInfoAttempts /\ attempts \in 0..MaxAttempts
    /\ timer \in {"none", "on"}
    /\ {reach, botKnown, exhausted, link, spawned, locked, unreached} \subseteq BOOLEAN

\* No daemon lives on in the dark: one whose connection does not come back ends,
\* whether its startup, an outage or the SDK is the cause, and however often the
\* connection has come back before (feishu.ts:488-497, server.ts:732-739).
DarkDaemonExits ==
    [](daemon = "open" => <>(ws = "ready" \/ daemon = "none"))

\* Once Feishu stays in reach the channel serves again, through any daemons that have
\* ended meanwhile: the proxy goes on starting the next one.  It starts one in each
\* reconnecting (proxy.ts:252-262), so a daemon that stands down before a lock that is
\* still fresh, or ends before the proxy has reached it, leaves nobody to start another.
ChannelComesBack ==
    <>[]reach /\ []~unreached => <>[](daemon = "open" /\ ws = "ready")
=============================================================================
